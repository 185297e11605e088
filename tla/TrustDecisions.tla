--------------------------- MODULE TrustDecisions ---------------------------
(***************************************************************************)
(* The durable trust decisions (trust.rs of rupi-store) under commands     *)
(* that grant, deny and clear them, and the discovery that asks the gate   *)
(* (trust.rs of rupi-core, src/trust.rs).                                  *)
(*                                                                         *)
(* Every command is a process of its own: it reads the whole file, changes *)
(* one entry, writes a temporary file and renames it into place.  A        *)
(* process may be killed, the power may go, and somebody may damage the    *)
(* file.  "file" is what a reader finds, "disk" what a power loss leaves.  *)
(***************************************************************************)
EXTENDS Naturals

CONSTANTS Commands,   \* the processes
          Scopes,     \* the projects decided about
          NoScope, MaxAsks, MaxDamage

VARIABLES file,    \* [Scopes -> decision], or Damaged
          disk,
          proc,    \* the command processes
          acked,   \* [Scopes -> the decision last reported as recorded], or
                   \* "unknown" from a change until its report
          raced,   \* whether a command wrote back a file read before another's change
          asks,    \* how many discoveries there were, and the last answer
          damages
vars == <<file, disk, proc, acked, raced, asks, damages>>

Decisions == {"none", "trusted", "denied"}
Entries == [Scopes -> Decisions]
Empty == [s \in Scopes |-> "none"]
\* A file that no longer decodes.
Damaged == [s \in Scopes |-> "damaged"]
Changing == {"grant", "deny", "clear"}

Unborn == [at |-> "unborn", action |-> "none", scope |-> NoScope,
           entries |-> Empty, stale |-> FALSE]
Asked == [count |-> 0, scope |-> NoScope, answer |-> "none"]

Init ==
  /\ file = Empty /\ disk = Empty
  /\ proc = [c \in Commands |-> Unborn]
  /\ acked = Empty /\ raced = FALSE
  /\ asks = Asked
  /\ damages = 0

-----------------------------------------------------------------------------
\* A file that does not decode, is of another version or names a scope twice
\* is an error and never an empty store.
Readable == file # Damaged

Begin(c, action, s) ==
  /\ proc[c].at = "unborn"
  /\ proc' = [proc EXCEPT ![c] =
       IF Readable THEN [at |-> "loaded", action |-> action, scope |-> s,
                         entries |-> file, stale |-> FALSE]
       ELSE [Unborn EXCEPT !.at = "error"]]
  /\ UNCHANGED <<file, disk, acked, raced, asks, damages>>

Changed(c) ==
  [proc[c].entries EXCEPT ![proc[c].scope] =
     CASE proc[c].action = "grant" -> "trusted"
       [] proc[c].action = "deny" -> "denied"
       [] OTHER -> "none"]

\* Clearing what was never recorded writes nothing.
Apply(c) ==
  /\ proc[c].at = "loaded"
  /\ LET nothing == proc[c].action = "clear" /\ proc[c].entries[proc[c].scope] = "none"
     IN proc' = [proc EXCEPT ![c].entries = Changed(c),
                             ![c].at = IF nothing THEN "ok" ELSE "write"]
  /\ UNCHANGED <<file, disk, acked, raced, asks, damages>>

\* The temporary file is written and flushed, or it is removed and the
\* command fails.
WriteTemp(c) ==
  /\ proc[c].at = "write"
  /\ \E at \in {"rename", "error"} : proc' = [proc EXCEPT ![c].at = at]
  /\ UNCHANGED <<file, disk, acked, raced, asks, damages>>

Rename(c) ==
  /\ proc[c].at = "rename"
  /\ file' = proc[c].entries
  /\ acked' = [acked EXCEPT ![proc[c].scope] = "unknown"]
  /\ raced' = (raced \/ proc[c].stale)
  /\ proc' = [d \in Commands |-> IF d = c THEN [proc[c] EXCEPT !.at = "sync"]
                                 ELSE [proc[d] EXCEPT !.stale = TRUE]]
  /\ UNCHANGED <<disk, asks, damages>>

\* Only now is the decision reported; a later command may have changed it.
SyncParent(c) ==
  /\ proc[c].at = "sync"
  /\ disk' = file
  /\ acked' = IF file = proc[c].entries
              THEN [acked EXCEPT ![proc[c].scope] = file[proc[c].scope]] ELSE acked
  /\ proc' = [proc EXCEPT ![c].at = "ok"]
  /\ UNCHANGED <<file, raced, asks, damages>>

\* The new file is in place although the command reports an error.
SyncFails(c) ==
  /\ proc[c].at = "sync"
  /\ proc' = [proc EXCEPT ![c].at = "error"]
  /\ UNCHANGED <<file, disk, acked, raced, asks, damages>>

Running(c) == proc[c].at \in {"loaded", "write", "rename", "sync"}

Kill(c) ==
  /\ Running(c)
  /\ proc' = [proc EXCEPT ![c].at = "error"]
  /\ UNCHANGED <<file, disk, acked, raced, asks, damages>>

PowerLoss ==
  /\ file' \in {file, disk} /\ disk' = file'
  /\ proc' = [c \in Commands |-> IF Running(c) THEN [proc[c] EXCEPT !.at = "error"] ELSE proc[c]]
  /\ UNCHANGED <<acked, raced, asks, damages>>

Damage ==
  /\ damages < MaxDamage
  /\ file' = Damaged /\ disk' = Damaged /\ acked' = [s \in Scopes |-> "unknown"]
  /\ damages' = damages + 1
  /\ UNCHANGED <<proc, raced, asks>>

\* The gate: a recorded decision first, then the grant of this invocation.
Gate(stored, explicit) ==
  CASE stored = "trusted" -> "trusted"
    [] stored = "denied" -> "untrusted"
    [] OTHER -> IF explicit THEN "trusted" ELSE "untrusted"

\* One discovery with a trust store; without one only "--project" counts.
Discover(s, explicit) ==
  /\ asks.count < MaxAsks
  /\ asks' = [count |-> asks.count + 1, scope |-> s,
              answer |-> IF Readable THEN Gate(file[s], explicit) ELSE "error"]
  /\ UNCHANGED <<file, disk, proc, acked, raced, damages>>

Next ==
  \/ \E c \in Commands, a \in Changing, s \in Scopes : Begin(c, a, s)
  \/ \E c \in Commands :
       Apply(c) \/ WriteTemp(c) \/ Rename(c) \/ SyncParent(c) \/ SyncFails(c) \/ Kill(c)
  \/ PowerLoss \/ Damage
  \/ \E s \in Scopes, e \in BOOLEAN : Discover(s, e)

Spec == Init /\ [][Next]_vars

-----------------------------------------------------------------------------
TypeOK ==
  /\ file \in Entries \cup {Damaged} /\ disk \in Entries \cup {Damaged}
  /\ acked \in [Scopes -> Decisions \cup {"unknown"}] /\ raced \in BOOLEAN
  /\ \A c \in Commands : proc[c].entries \in Entries /\ proc[c].stale \in BOOLEAN
  /\ asks.count \in 0..MaxAsks /\ damages \in 0..MaxDamage

\* Unless a command wrote back a file it had read before another's change,
\* every decision that was reported is what the file says and what a power
\* loss leaves, whoever was killed or failed meanwhile (record, persist).
RecordedStays ==
  Readable /\ ~raced =>
    \A s \in Scopes : acked[s] # "unknown" => file[s] = acked[s] /\ disk[s] = acked[s]

\* Of every step: a project whose recorded denial is in the file is not read on the word of
\* "--project", and a store that does not read grants nothing: not even the
\* projects it never decided about (TrustGate::check, FileTrustStore::open).
DenialWins ==
  asks' # asks /\ asks'.answer = "trusted" =>
    /\ file # Damaged
    /\ acked[asks'.scope] = file[asks'.scope] => acked[asks'.scope] # "denied"
=============================================================================
