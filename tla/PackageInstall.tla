--------------------------- MODULE PackageInstall ---------------------------
(***************************************************************************)
(* Packages: installers that copy a local package beside the others and    *)
(* rename it into place (package.rs:344-472), and a scan that reads the    *)
(* package directories meanwhile (package.rs:653-684 and 761-888).         *)
(*                                                                         *)
(* An installer copies into a directory of its own next to the             *)
(* destination, so the scan sees it too.  A directory holds the first      *)
(* "copied" files of one source in the order of the copy; "half" says that *)
(* the last of them is still being written.  Installers may be killed, and *)
(* the user removes packages by hand.                                      *)
(***************************************************************************)
EXTENDS Naturals, Sequences, FiniteSets, SequencesExt

CONSTANTS Installers, Sources,
          Manifest,   \* [Sources -> {"good", "fatal"}]: what its manifest reads as
          NameOf,     \* [Sources -> names]: the name it declares, or NoName
          Files,      \* [Sources -> Seq(...)]: its files in the order of the copy
          DirOf,      \* [names -> directory names]: package.rs:551
          DirOrder,   \* the directory names in the order the scan visits them
          Globals, Projects,  \* the locations, in the order of the scan
          AgentRoot, ProjectRoot,  \* where the two kinds of install go
          Linked,     \* the locations that are symbolic links
          NoName, Nobody, MaxRemovals

VARIABLES dirs,      \* [locations -> [places -> what the directory holds]]
          inst,      \* the installers
          removals,  \* how often the user removed a package
          scan       \* the scan under way, or its result
vars == <<dirs, inst, removals, scan>>

ManifestFile == "package.json"

Locations == Range(Globals) \cup Range(Projects)
\* A place is a directory name, or the temporary copy an installer makes for it.
Dirs == Range(DirOrder)
Places == [dir : Dirs, by : Installers \cup {Nobody}]
Dest(d) == [dir |-> d, by |-> Nobody]

Absent == [of |-> Nobody, copied |-> 0, half |-> FALSE]
Holds(l, p) == dirs[l][p] # Absent
Whole(c) == c # Absent /\ c.copied = Len(Files[c.of]) /\ ~c.half
\* What the scan finds of a directory's manifest.
ManifestOf(c) ==
  LET have == {i \in 1..c.copied : Files[c.of][i] = ManifestFile}
  IN IF have = {} THEN "missing"
     ELSE IF c.half /\ have = {c.copied} THEN "fatal" ELSE Manifest[c.of]

Idle == [at |-> "idle", src |-> Nobody, loc |-> Nobody, result |-> Nobody]
Ended(result) == [Idle EXCEPT !.result = result]
NoScan == [at |-> "none", todo |-> <<>>, loc |-> Nobody, list |-> <<>>,
           found |-> <<>>, trusted |-> FALSE, stood |-> {}]

\* The packages that are at their destination now.
Standing == {<<l, p>> \in Locations \X Places : p.by = Nobody /\ Whole(dirs[l][p])}

Init ==
  /\ dirs = [l \in Locations |-> [p \in Places |-> Absent]]
  /\ inst = [i \in Installers |-> Idle]
  /\ removals = 0
  /\ scan = NoScan

-----------------------------------------------------------------------------
PlaceOf(i) == DirOf[NameOf[inst[i].src]]
\* (mutant) The copy goes straight to the destination.
TempIsDest(i) == Dest(PlaceOf(i))
Temp(i) == [dir |-> PlaceOf(i), by |-> i]
Here(i) == dirs[inst[i].loc][Temp(i)]

\* The checks before the first write; a refused install leaves nothing behind
\* but the directory that holds packages.
Refused(s, l) ==
  \/ Manifest[s] = "fatal"
  \/ NameOf[s] = NoName
  \/ l = ProjectRoot /\ l \in Linked
  \/ Holds(l, Dest(DirOf[NameOf[s]]))

Begin(i, s, l) ==
  /\ inst[i].at = "idle" /\ inst[i].result = Nobody
  /\ inst' = [inst EXCEPT ![i] =
       IF Refused(s, l) THEN Ended("error")
       ELSE [at |-> "create", src |-> s, loc |-> l, result |-> Nobody]]
  /\ UNCHANGED <<dirs, removals, scan>>

CreateTemp(i) ==
  /\ inst[i].at = "create"
  /\ dirs' = [dirs EXCEPT ![inst[i].loc][Temp(i)] =
                            [of |-> inst[i].src, copied |-> 0, half |-> FALSE]]
  /\ inst' = [inst EXCEPT ![i].at = "copy"]
  /\ UNCHANGED <<removals, scan>>

\* A file is created, then written and flushed.
OpenFile(i) ==
  /\ inst[i].at = "copy" /\ ~Here(i).half /\ Here(i).copied < Len(Files[inst[i].src])
  /\ dirs' = [dirs EXCEPT ![inst[i].loc][Temp(i)].copied = @ + 1,
                          ![inst[i].loc][Temp(i)].half = TRUE]
  /\ UNCHANGED <<inst, removals, scan>>

WriteFile(i) ==
  /\ inst[i].at = "copy" /\ Here(i).half
  /\ dirs' = [dirs EXCEPT ![inst[i].loc][Temp(i)].half = FALSE]
  /\ UNCHANGED <<inst, removals, scan>>

\* A link among the files, a full disk, or a file that vanished.
CopyFails(i) ==
  /\ inst[i].at = "copy"
  /\ inst' = [inst EXCEPT ![i].at = "clean"]
  /\ UNCHANGED <<dirs, removals, scan>>

\* rename() does not replace a directory that has files in it.
Activate(i) ==
  /\ inst[i].at = "copy" /\ Whole(Here(i))
  /\ LET l == inst[i].loc
         d == Dest(PlaceOf(i))
     IN IF Holds(l, d) /\ dirs[l][d].copied > 0
        THEN inst' = [inst EXCEPT ![i].at = "clean"] /\ UNCHANGED dirs
        ELSE /\ dirs' = [dirs EXCEPT ![l][d] = Here(i), ![l][Temp(i)] = Absent]
             /\ inst' = [inst EXCEPT ![i] = Ended("ok")]
  /\ UNCHANGED <<removals, scan>>

\* The error of the removal itself is dropped.
CleanUp(i) ==
  /\ inst[i].at = "clean"
  /\ dirs' \in {dirs, [dirs EXCEPT ![inst[i].loc][Temp(i)] = Absent]}
  /\ inst' = [inst EXCEPT ![i] = Ended("error")]
  /\ UNCHANGED <<removals, scan>>

Kill(i) ==
  /\ inst[i].at # "idle"
  /\ inst' = [inst EXCEPT ![i] = Ended("killed")]
  /\ UNCHANGED <<dirs, removals, scan>>

\* The user removes an installed package, as the refusal tells them to.
UserRemoves(l, d) ==
  /\ removals < MaxRemovals /\ Holds(l, Dest(d))
  /\ dirs' = [dirs EXCEPT ![l][Dest(d)] = Absent]
  /\ removals' = removals + 1
  /\ scan' = [scan EXCEPT !.stood = @ \ {<<l, Dest(d)>>}]
  /\ UNCHANGED inst

-----------------------------------------------------------------------------
\* Discovery.  "stood" remembers what was in place when it began and was not
\* removed since.
StartScan(trusted) ==
  /\ scan.at = "none"
  /\ scan' = [NoScan EXCEPT !.at = "next", !.trusted = trusted, !.stood = Standing,
                !.todo = IF trusted THEN Globals \o Projects ELSE Globals]
  /\ UNCHANGED <<dirs, inst, removals>>

NextLocation ==
  /\ scan.at = "next" /\ scan.todo # <<>>
  /\ scan' = [scan EXCEPT !.todo = Tail(@), !.loc = Head(scan.todo),
                          !.at = IF Head(scan.todo) \in Linked THEN "next" ELSE "list"]
  /\ UNCHANGED <<dirs, inst, removals>>

Rank(d) == CHOOSE n \in 1..Len(DirOrder) : DirOrder[n] = d
\* By file name: a temporary copy's name extends the name of its destination.
Before(p, q) ==
  \/ Rank(p.dir) < Rank(q.dir)
  \/ p.dir = q.dir /\ p # q /\ p.by = Nobody
Sorted(places) ==
  CHOOSE s \in SetToSeqs(places) :
    \A m, n \in 1..Len(s) : m < n => ~Before(s[n], s[m])

ListLocation ==
  /\ scan.at = "list"
  /\ scan' = [scan EXCEPT !.at = "child",
                          !.list = Sorted({p \in Places : Holds(scan.loc, p)})]
  /\ UNCHANGED <<dirs, inst, removals>>

Claimed(n) == \E k \in 1..Len(scan.found) : scan.found[k].name = n

\* One child: gone meanwhile, without a manifest, with one that does not read,
\* a name that is taken, or a package.
ReadChild ==
  /\ scan.at = "child" /\ scan.list # <<>>
  /\ LET p == Head(scan.list)
         c == dirs[scan.loc][p]
         n == IF NameOf[c.of] = NoName THEN p ELSE NameOf[c.of]
         package == [name |-> n, loc |-> scan.loc, place |-> p, whole |-> Whole(c)]
     IN scan' = [scan EXCEPT !.list = Tail(@),
                   !.found = IF c = Absent \/ ManifestOf(c) # "good" \/ Claimed(n)
                             THEN @ ELSE Append(@, package)]
  /\ UNCHANGED <<dirs, inst, removals>>

EndLocation ==
  /\ scan.at = "child" /\ scan.list = <<>>
  /\ scan' = [scan EXCEPT !.at = "next"]
  /\ UNCHANGED <<dirs, inst, removals>>

EndScan ==
  /\ scan.at = "next" /\ scan.todo = <<>>
  /\ scan' = [scan EXCEPT !.at = "done"]
  /\ UNCHANGED <<dirs, inst, removals>>

Install(i) ==
  \/ CreateTemp(i) \/ OpenFile(i) \/ WriteFile(i) \/ Activate(i) \/ CleanUp(i)

ScanStep == NextLocation \/ ListLocation \/ ReadChild \/ EndLocation \/ EndScan

Next ==
  \/ \E i \in Installers, s \in Sources, l \in {AgentRoot, ProjectRoot} : Begin(i, s, l)
  \/ \E i \in Installers : Install(i) \/ CopyFails(i) \/ Kill(i)
  \/ \E l \in Locations, d \in Dirs : UserRemoves(l, d)
  \/ \E trusted \in BOOLEAN : StartScan(trusted)
  \/ ScanStep

Spec == Init /\ [][Next]_vars

-----------------------------------------------------------------------------
TypeOK ==
  /\ dirs \in [Locations -> [Places ->
       [of : Sources \cup {Nobody}, copied : Nat, half : BOOLEAN]]]
  /\ \A i \in Installers :
       inst[i].at \in {"idle", "create", "copy", "clean"}
       /\ inst[i].result \in {Nobody, "ok", "error", "killed"}
  /\ removals \in 0..MaxRemovals
  /\ scan.at \in {"none", "next", "list", "child", "done"}

\* A directory under a package's own name is a whole copy of one source at
\* every moment, whoever is killed and whoever installs the same name at the
\* same time (the copy and rename of install_local_into).
InstalledIsWhole ==
  \A l \in Locations, p \in Places : p.by = Nobody /\ Holds(l, p) => Whole(dirs[l][p])

\* Of every step: an install never changes a package that is there: only the user's removal
\* does ("refuses an existing destination", package.rs:339).
NeverOverwritten ==
  \A l \in Locations, p \in Places :
    p.by = Nobody /\ Holds(l, p) /\ removals' = removals
      => dirs'[l][p] = dirs[l][p]

\* The scan reports every package that stood from its start to its end in a
\* location it reads, or an earlier one of the same name: no unreadable
\* neighbour, no copy under way and no leftover hides it (scan_location).
StandingIsReported ==
  scan.at = "done" =>
    \A <<l, p>> \in scan.stood :
      (l \notin Linked /\ (scan.trusted \/ l \in Range(Globals)) /\ Manifest[dirs[l][p].of] = "good"
         /\ NameOf[dirs[l][p].of] # NoName) =>
        \E k \in 1..Len(scan.found) : scan.found[k].name = NameOf[dirs[l][p].of]

\* In the location where a package stands, its name is never answered by an
\* unfinished copy of it (the order of names in scan_location).
LeftoverNeverShadows ==
  scan.at = "done" =>
    \A <<l, p>> \in scan.stood, k \in 1..Len(scan.found) :
      scan.found[k].loc = l /\ scan.found[k].name = NameOf[dirs[l][p].of]
        => scan.found[k].whole

=============================================================================
