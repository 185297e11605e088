-------------------------- MODULE CheckpointFiles --------------------------
(***************************************************************************)
(* The files of checkpoint capsules and the barriers that publish them     *)
(* (rupi-store: store.rs).  A capsule is written before its barrier; the   *)
(* barrier is a WAL transaction of its own, finished by recovery.          *)
(*                                                                         *)
(* A file is identified by the order it was made in; `content` tells which *)
(* capsule it holds and the barrier repeats that capsule.                  *)
(***************************************************************************)
EXTENDS Naturals, Sequences, FiniteSets, SequencesExt

CONSTANTS Sizes,              \* bytes a capsule may take
          MaxCapsule,         \* MAX_CAPSULE_BYTES
          MaxCapsules,        \* MAX_CHECKPOINT_COUNT
          MaxCapsuleBytes,    \* MAX_CHECKPOINT_TOTAL_BYTES
          MaxRestarts         \* bound: stops

VARIABLES files,     \* id -> [bytes, ext, synced]: the directory
          placed,    \* the directory itself is on the disk
          unnamed,   \* history: barriers whose capsule lost its name in a power loss
          barriers,  \* ids published in the session log, in order
          intent,    \* ids of barriers pending in the WAL
          making,    \* the checkpoint in progress
          outcome,   \* what the last operation said
          phase,     \* "open" | "down" | "refused"
          restarts

vars == <<files, placed, unnamed, barriers, intent, making, outcome, phase, restarts>>

NoCheckpoint == [id |-> 0, step |-> "none"]
Made == {id \in DOMAIN files : files[id].ext = "json"}
BytesOf(ids) == FoldSet(LAMBDA id, n : n + files[id].bytes, 0, ids)
NextId == Cardinality(DOMAIN files) + 1

Init ==
  /\ files = <<>> /\ placed = FALSE /\ unnamed = {} /\ barriers = <<>> /\ intent = {}
  /\ making = NoCheckpoint /\ outcome = "none" /\ phase = "open" /\ restarts = 0

Say(what) == outcome' = what

\* prepare_checkpoint refuses before it writes; every capsule file counts,
\* also one that no barrier ever published.
Fits(bytes) ==
  /\ bytes <= MaxCapsule
  /\ Cardinality(Made) < MaxCapsules
  /\ BytesOf(Made) + bytes <= MaxCapsuleBytes

Prepare ==
  /\ phase = "open" /\ making = NoCheckpoint
  /\ \E bytes \in Sizes :
       IF Fits(bytes)
       THEN /\ files' = Append(files, [bytes |-> bytes, ext |-> "tmp", synced |-> FALSE])
            /\ making' = [id |-> NextId, step |-> "written"] /\ Say("none")
       ELSE Say("full") /\ UNCHANGED <<files, making>>
  /\ UNCHANGED <<placed, unnamed, barriers, intent, phase, restarts>>

\* The rename, and a sync of the directory, of all its names, whose failure is ignored.
Publishable ==
  /\ phase = "open" /\ making.step = "written"
  /\ \E synced \in BOOLEAN :
       LET named == [files EXCEPT ![making.id].ext = "json"]
       IN files' = IF synced THEN [id \in DOMAIN files |-> [named[id] EXCEPT !.synced = named[id].ext = "json"]] ELSE named
  /\ making' = [making EXCEPT !.step = "named"]
  /\ UNCHANGED <<placed, unnamed, barriers, intent, outcome, phase, restarts>>

\* The event and its barrier's intent reach the trace and the WAL.
Intend ==
  /\ phase = "open" /\ making.step = "named"
  /\ intent' = intent \union {making.id}
  /\ making' = [making EXCEPT !.step = "intended"]
  /\ UNCHANGED <<files, placed, unnamed, barriers, outcome, phase, restarts>>

Publish ==
  /\ phase = "open" /\ making.step = "intended"
  /\ barriers' = Append(barriers, making.id)
  /\ making' = [making EXCEPT !.step = "published"]
  /\ UNCHANGED <<files, placed, unnamed, intent, outcome, phase, restarts>>

Commit ==
  /\ phase = "open" /\ making.step = "published"
  /\ intent' = intent \ {making.id} /\ making' = NoCheckpoint
  /\ UNCHANGED <<files, placed, unnamed, barriers, outcome, phase, restarts>>

-----------------------------------------------------------------------------
(* What a resume demands of every barrier *)

Published == ToSet(barriers)
Readable(id) == id \in Made /\ files[id].bytes <= MaxCapsule

CapsulesValid(ids) ==
  /\ IsInjective(ids) /\ Len(ids) <= MaxCapsules
  /\ \A id \in ToSet(ids) : Readable(id)
  /\ BytesOf(ToSet(ids)) <= MaxCapsuleBytes

\* Only published capsules are listed, but every file counts to the limit.
List ==
  /\ phase = "open"
  /\ IF CapsulesValid(barriers) /\ Cardinality(Made) <= MaxCapsules THEN Say("listed") ELSE Say("unlisted")
  /\ UNCHANGED <<files, placed, unnamed, barriers, intent, making, phase, restarts>>

Stop ==
  /\ phase = "open" /\ restarts < MaxRestarts
  /\ phase' = "down" /\ restarts' = restarts + 1 /\ making' = NoCheckpoint
  /\ UNCHANGED <<barriers, intent, outcome>>

Crash == Stop /\ UNCHANGED <<files, placed, unnamed>>

\* A rename that was not synced is undone or kept; and as nobody syncs the entry of
\* the directory that the first checkpoint makes, all of it may be gone.
PowerLoss ==
  /\ Stop
  /\ \E undone \in SUBSET {id \in Made : ~files[id].synced} \union (IF placed THEN {} ELSE {Made}) :
       /\ files' = [id \in DOMAIN files |->
                      [files[id] EXCEPT !.ext = IF id \in undone THEN "tmp" ELSE @,
                                        !.synced = id \in Made \ undone]]
       /\ unnamed' = unnamed \union (undone \intersect (Published \union intent))
       /\ placed' = (placed \/ undone # Made)

\* recover_pending_checkpoint_barriers, then the validation of restore.
Resume ==
  /\ phase = "down"
  /\ intent' = {}
  /\ LET recovered == barriers \o SetToSeq(intent \ Published)
     IN /\ barriers' = recovered
        /\ phase' = IF CapsulesValid(recovered) THEN "open" ELSE "refused"
  /\ UNCHANGED <<files, placed, unnamed, making, outcome, restarts>>

Next ==
  \/ Prepare \/ Publishable \/ Intend \/ Publish \/ Commit
  \/ List \/ Crash \/ PowerLoss \/ Resume

Spec == Init /\ [][Next]_vars

-----------------------------------------------------------------------------
\* Whatever stops between the capsule and its barrier, and whatever limit is
\* near, a resume finds each published capsule and no limit crossed, but for the known
\* defect of a name that a power loss took, after a sync that failed or with the directory
\* (store.rs: "An orphan capsule after a crash is harmless; a barrier without a
\* capsule is not").
BarriersHold == phase = "refused" \/ outcome = "unlisted" => unnamed # {}

\* A checkpoint is published once, and only complete ones are in the list.
PublishedOnce ==
  /\ IsInjective(barriers)
  /\ \A id \in Published \union intent : files[id].ext = "json" \/ id \in unnamed
=============================================================================
