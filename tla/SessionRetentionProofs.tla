----------------------- MODULE SessionRetentionProofs -----------------------
(***************************************************************************)
(* Theorems about SessionRetention, for any number of processes and any    *)
(* number of sessions: type correctness, the lease discipline, that no     *)
(* retention pass takes a file from under an open session, and that every  *)
(* removal leaves the newest sessions.                                     *)
(***************************************************************************)
EXTENDS SessionRetention, FiniteSetTheorems, TLAPS

Record == [step : Steps, fresh : BOOLEAN, session : 0..MaxSessions,
           todo : SUBSET Parts, ids : SUBSET Sessions, found : SUBSET Sessions,
           busy : 0..MaxSessions]

(* ------------------------ the inductive invariant ------------------------ *)

Named(p) == proc[p].step \in {"probing", "removing", "making", "acquiring",
                              "checking", "creating", "open"}

\* A process that works on a session works on one there is.
SessionNamed == \A p \in Procs : Named(p) => proc[p].session \in Sessions

Meant(p, s) == proc[p].session = s \/ s \in proc[p].ids \/ s \in proc[p].found

\* An id that is not minted yet means nothing to anyone.
UnmintedUnknown ==
  \A s \in Sessions : s >= nextId =>
    /\ files[s] = {}
    /\ \A p \in Procs : ~Meant(p, s)

Beginning(p) ==
  /\ proc[p].fresh
  /\ \/ proc[p].step \in {"making", "acquiring", "checking"}
     \/ proc[p].step = "creating" /\ "log" \in proc[p].todo

\* Until its log is there a new session is known to its process alone: no plan
\* has it, so that the directory made before the lease stays.
BeginsAlone ==
  \A p \in Procs : Beginning(p) =>
    /\ "log" \notin files[proc[p].session]
    /\ \A q \in Procs \ {p} : ~Meant(q, proc[p].session)
    /\ proc[p].step \in {"acquiring", "checking"} => "dir" \in files[proc[p].session]

\* The directory is made before the log and removed after it.
DirUnderLog == \A s \in Sessions : "log" \in files[s] => "dir" \in files[s]

LogRemovedFirst ==
  \A p \in Procs : proc[p].step = "removing" =>
    \/ "log" \in proc[p].todo
    \/ "log" \notin files[proc[p].session]

\* What is not created yet is still to be done.
CreatingCovers ==
  \A p \in Procs :
    /\ proc[p].step = "creating" =>
         /\ "dir" \notin proc[p].todo
         /\ Parts \subseteq files[proc[p].session] \cup proc[p].todo
    /\ proc[p].step = "open" => Parts \subseteq files[proc[p].session]

Inv == /\ SessionNamed /\ UnmintedUnknown /\ BeginsAlone /\ DirUnderLog
       /\ LogRemovedFirst /\ CreatingCovers

IInv == TypeOK /\ LeaseMatchesWork /\ Inv

(* -------------------------------- lemmas --------------------------------- *)

\* A step sets the record of its process to a record.
LEMMA SetTyped ==
  ASSUME TypeOK, NEW p \in Procs, NEW r \in Record, Set(p, r)
  PROVE  proc' \in [Procs -> Record]
BY DEF TypeOK, Set, Record

\* What a process does is a record, and doing nothing is one.
LEMMA RecordTyped ==
  ASSUME TypeOK, NEW p \in Procs
  PROVE  proc[p] \in Record
BY DEF TypeOK, Record

\* What TypeOK says of all but the processes.
OthersTyped ==
  /\ files \in [Sessions -> SUBSET Parts]
  /\ lease \in [Sessions -> Procs \cup {NoProc}] /\ pass \in Procs \cup {NoProc}
  /\ nextId \in 1..(MaxSessions + 1)

LEMMA TypedAgain ==
  ASSUME OthersTyped', proc' \in [Procs -> Record]
  PROVE  TypeOK'
BY DEF OthersTyped, TypeOK, Record

LEMMA IdleTyped == Idle \in Record
<1>1. "idle" \in Steps /\ 0 \in 0..MaxSessions
  BY BoundsAreSane DEF Steps
<1> QED BY <1>1 DEF Idle, Record

\* A process that has nothing left to do means no session.
LEMMA IdleMeansNothing ==
  ASSUME TypeOK, NEW p \in Procs, NEW r, Set(p, r),
         r.session = 0, r.ids = {}, r.found = {},
         NEW q \in Procs, NEW s \in Sessions, Meant(q, s)'
  PROVE  Meant(q, s)
<1>1. CASE q = p
  <2>1. proc'[q] = r
    BY <1>1 DEF TypeOK, Set
  <2>2. ~Meant(q, s)'
    BY <2>1, BoundsAreSane DEF Meant, Sessions
  <2> QED BY <2>2
<1>2. CASE q # p
  <2>1. proc'[q] = proc[q]
    BY <1>2 DEF TypeOK, Set
  <2> QED BY <2>1 DEF Meant
<1> QED BY <1>1, <1>2

LEMMA StartNewStep ==
  ASSUME IInv, NEW p \in Procs, StartNew(p)
  PROVE  IInv'
<1>1. TypeOK'
  <2>0. TypeOK /\ proc[p] \in Record
    BY RecordTyped DEF IInv
  <2>1. "listing" \in Steps
    BY <2>0, BoundsAreSane DEF IInv, Steps
  <2>2. [Idle EXCEPT !.step = "listing", !.fresh = TRUE] \in Record
    BY <2>0, <2>1, IdleTyped DEF Record
  <2>3. proc' \in [Procs -> Record]
    BY <2>0, <2>2, SetTyped DEF StartNew
  <2>9. OthersTyped'
    BY <2>0, BoundsAreSane
    DEF TypeOK, OthersTyped, StartNew, Take, Release, Parts, Sessions
  <2> QED BY <2>3, <2>9, TypedAgain
<1> USE BoundsAreSane DEF IInv, Inv, TypeOK, Steps, Parts, Sessions, Idle, At, Set,
          Take, Release, Free, StartNew
<1>2. SessionNamed' /\ LeaseMatchesWork' /\ LogRemovedFirst'
  BY DEF SessionNamed, Named, LeaseMatchesWork, Holds, LogRemovedFirst
<1>3. UnmintedUnknown'
  BY DEF UnmintedUnknown, Meant, SessionNamed, Named
<1>4. BeginsAlone'
  BY DEF BeginsAlone, Beginning, UnmintedUnknown, Meant, SessionNamed, Named
<1>5. DirUnderLog' /\ CreatingCovers'
  BY DEF DirUnderLog, CreatingCovers, LogRemovedFirst, LeaseMatchesWork, Holds,
         BeginsAlone, Beginning, SessionNamed, Named
<1> HIDE DEF TypeOK, Steps, Parts, Sessions, Idle, At, Set, Take, Release,
         Free, StartNew
<1> QED BY <1>1, <1>2, <1>3, <1>4, <1>5

LEMMA ListStep ==
  ASSUME IInv, NEW p \in Procs, List(p)
  PROVE  IInv'
<1>1. TypeOK'
  <2>0. TypeOK /\ proc[p] \in Record
    BY RecordTyped DEF IInv
  <2>1. "planning" \in Steps /\ BeyondNewest \in SUBSET Sessions
    BY <2>0, BoundsAreSane DEF IInv, Steps, BeyondNewest, Listed
  <2>2. [proc[p] EXCEPT !.step = "planning", !.ids = BeyondNewest] \in Record
    BY <2>0, <2>1, IdleTyped DEF Record
  <2>3. proc' \in [Procs -> Record]
    BY <2>0, <2>2, SetTyped DEF List
  <2>9. OthersTyped'
    BY <2>0, BoundsAreSane
    DEF TypeOK, OthersTyped, List, Take, Release, Parts, Sessions
  <2> QED BY <2>3, <2>9, TypedAgain
<1> USE BoundsAreSane DEF IInv, Inv, TypeOK, Steps, Parts, Sessions, Idle, At, Set,
          Take, Release, Free, List, BeyondNewest, Listed
<1>2. SessionNamed' /\ LeaseMatchesWork' /\ LogRemovedFirst'
  BY DEF SessionNamed, Named, LeaseMatchesWork, Holds, LogRemovedFirst
<1>3. UnmintedUnknown'
  BY DEF UnmintedUnknown, Meant, SessionNamed, Named
<1>4. BeginsAlone'
  BY DEF BeginsAlone, Beginning, UnmintedUnknown, Meant, SessionNamed, Named
<1>5. DirUnderLog' /\ CreatingCovers'
  BY DEF DirUnderLog, CreatingCovers, LogRemovedFirst, LeaseMatchesWork, Holds,
         BeginsAlone, Beginning, SessionNamed, Named
<1> HIDE DEF TypeOK, Steps, Parts, Sessions, Idle, At, Set, Take, Release,
         Free, List, BeyondNewest, Listed
<1> QED BY <1>1, <1>2, <1>3, <1>4, <1>5

LEMMA SkipLeasedStep ==
  ASSUME IInv, NEW p \in Procs, SkipLeased(p)
  PROVE  IInv'
<1>1. TypeOK'
  <2>0. TypeOK /\ proc[p] \in Record
    BY RecordTyped DEF IInv
  <2>w. PICK s \in Sessions : Set(p, [proc[p] EXCEPT !.ids = @ \ {s}])
    BY DEF SkipLeased
  <2>1. proc[p].ids \ {s} \in SUBSET Sessions
    BY <2>0, BoundsAreSane DEF IInv, Record
  <2>2. [proc[p] EXCEPT !.ids = @ \ {s}] \in Record
    BY <2>0, <2>1, IdleTyped DEF Record
  <2>3. proc' \in [Procs -> Record]
    BY <2>0, <2>w, <2>2, SetTyped DEF SkipLeased
  <2>9. OthersTyped'
    BY <2>0, BoundsAreSane
    DEF TypeOK, OthersTyped, SkipLeased, Take, Release, Parts, Sessions
  <2> QED BY <2>3, <2>9, TypedAgain
<1> USE BoundsAreSane DEF IInv, Inv, TypeOK, Steps, Parts, Sessions, Idle, At, Set,
          Take, Release, Free, SkipLeased, Newest
<1>2. SessionNamed' /\ LeaseMatchesWork' /\ LogRemovedFirst'
  BY DEF SessionNamed, Named, LeaseMatchesWork, Holds, LogRemovedFirst
<1>3. UnmintedUnknown'
  BY DEF UnmintedUnknown, Meant, SessionNamed, Named
<1>4. BeginsAlone'
  BY DEF BeginsAlone, Beginning, UnmintedUnknown, Meant, SessionNamed, Named
<1>5. DirUnderLog' /\ CreatingCovers'
  BY DEF DirUnderLog, CreatingCovers, LogRemovedFirst, LeaseMatchesWork, Holds,
         BeginsAlone, Beginning, SessionNamed, Named
<1> HIDE DEF TypeOK, Steps, Parts, Sessions, Idle, At, Set, Take, Release,
         Free, SkipLeased, Newest
<1> QED BY <1>1, <1>2, <1>3, <1>4, <1>5

LEMMA ProbeStep ==
  ASSUME IInv, NEW p \in Procs, Probe(p)
  PROVE  IInv'
<1>1. TypeOK'
  <2>0. TypeOK /\ proc[p] \in Record
    BY RecordTyped DEF IInv
  <2>w. PICK s \in Sessions :
        Set(p, [proc[p] EXCEPT !.step = "probing", !.session = s, !.ids = @ \ {s}])
    BY DEF Probe
  <2>1. "probing" \in Steps /\ s \in 0..MaxSessions /\ proc[p].ids \ {s} \in SUBSET Sessions
    BY <2>0, BoundsAreSane DEF IInv, Steps, Sessions, Record
  <2>2. [proc[p] EXCEPT !.step = "probing", !.session = s, !.ids = @ \ {s}] \in Record
    BY <2>0, <2>1, IdleTyped DEF Record
  <2>3. proc' \in [Procs -> Record]
    BY <2>0, <2>w, <2>2, SetTyped DEF Probe
  <2>9. OthersTyped'
    BY <2>0, BoundsAreSane
    DEF TypeOK, OthersTyped, Probe, Take, Release, Parts, Sessions
  <2> QED BY <2>3, <2>9, TypedAgain
<1> USE BoundsAreSane DEF IInv, Inv, TypeOK, Steps, Parts, Sessions, Idle, At, Set,
          Take, Release, Free, Probe, Newest
<1>2. SessionNamed' /\ LeaseMatchesWork' /\ LogRemovedFirst'
  BY DEF SessionNamed, Named, LeaseMatchesWork, Holds, LogRemovedFirst
<1>3. UnmintedUnknown'
  BY DEF UnmintedUnknown, Meant, SessionNamed, Named
<1>4. BeginsAlone'
  BY DEF BeginsAlone, Beginning, UnmintedUnknown, Meant, SessionNamed, Named
<1>5. DirUnderLog' /\ CreatingCovers'
  BY DEF DirUnderLog, CreatingCovers, LogRemovedFirst, LeaseMatchesWork, Holds,
         BeginsAlone, Beginning, SessionNamed, Named
<1> HIDE DEF TypeOK, Steps, Parts, Sessions, Idle, At, Set, Take, Release,
         Free, Probe, Newest
<1> QED BY <1>1, <1>2, <1>3, <1>4, <1>5

LEMMA UnprobeStep ==
  ASSUME IInv, NEW p \in Procs, Unprobe(p)
  PROVE  IInv'
<1>1. TypeOK'
  <2>0. TypeOK /\ proc[p] \in Record
    BY RecordTyped DEF IInv
  <2>1. "planning" \in Steps /\ 0 \in 0..MaxSessions
         /\ proc[p].found \cup Candidate(proc[p].session) \in SUBSET Sessions
    BY <2>0, BoundsAreSane
    DEF IInv, Steps, Candidate, Record, Inv, SessionNamed, Named, At, Unprobe
  <2>2.
        [proc[p] EXCEPT !.step = "planning", !.session = 0,
                !.found = @ \cup Candidate(proc[p].session)] \in Record
    BY <2>0, <2>1, IdleTyped DEF Record
  <2>3. proc' \in [Procs -> Record]
    BY <2>0, <2>2, SetTyped DEF Unprobe
  <2>9. OthersTyped'
    BY <2>0, BoundsAreSane
    DEF TypeOK, OthersTyped, Unprobe, Take, Release, Parts, Sessions
  <2> QED BY <2>3, <2>9, TypedAgain
<1> USE BoundsAreSane DEF IInv, Inv, TypeOK, Steps, Parts, Sessions, Idle, At, Set,
          Take, Release, Free, Unprobe, Candidate
<1>2. SessionNamed' /\ LeaseMatchesWork' /\ LogRemovedFirst'
  BY DEF SessionNamed, Named, LeaseMatchesWork, Holds, LogRemovedFirst
<1>3. UnmintedUnknown'
  BY DEF UnmintedUnknown, Meant, SessionNamed, Named
<1>4. BeginsAlone'
  BY DEF BeginsAlone, Beginning, UnmintedUnknown, Meant, SessionNamed, Named
<1>5. DirUnderLog' /\ CreatingCovers'
  BY DEF DirUnderLog, CreatingCovers, LogRemovedFirst, LeaseMatchesWork, Holds,
         BeginsAlone, Beginning, SessionNamed, Named
<1> HIDE DEF TypeOK, Steps, Parts, Sessions, Idle, At, Set, Take, Release,
         Free, Unprobe, Candidate
<1> QED BY <1>1, <1>2, <1>3, <1>4, <1>5

LEMMA PlanStep ==
  ASSUME IInv, NEW p \in Procs, Plan(p)
  PROVE  IInv'
<1>1. TypeOK'
  <2>0. TypeOK /\ proc[p] \in Record
    BY RecordTyped DEF IInv
  <2>w. PICK victims \in SUBSET proc[p].found :
        Set(p, [proc[p] EXCEPT !.step = "applying", !.ids = victims, !.found = {}])
    BY DEF Plan
  <2>1. "applying" \in Steps /\ victims \in SUBSET Sessions
    BY <2>0, BoundsAreSane DEF IInv, Steps, Record
  <2>2. [proc[p] EXCEPT !.step = "applying", !.ids = victims, !.found = {}] \in Record
    BY <2>0, <2>1, IdleTyped DEF Record
  <2>3. proc' \in [Procs -> Record]
    BY <2>0, <2>w, <2>2, SetTyped DEF Plan
  <2>9. OthersTyped'
    BY <2>0, BoundsAreSane
    DEF TypeOK, OthersTyped, Plan, Take, Release, Parts, Sessions
  <2> QED BY <2>3, <2>9, TypedAgain
<1> USE BoundsAreSane DEF IInv, Inv, TypeOK, Steps, Parts, Sessions, Idle, At, Set,
          Take, Release, Free, Plan
<1>2. SessionNamed' /\ LeaseMatchesWork' /\ LogRemovedFirst'
  BY DEF SessionNamed, Named, LeaseMatchesWork, Holds, LogRemovedFirst
<1>3. UnmintedUnknown'
  BY DEF UnmintedUnknown, Meant, SessionNamed, Named
<1>4. BeginsAlone'
  BY DEF BeginsAlone, Beginning, UnmintedUnknown, Meant, SessionNamed, Named
<1>5. DirUnderLog' /\ CreatingCovers'
  BY DEF DirUnderLog, CreatingCovers, LogRemovedFirst, LeaseMatchesWork, Holds,
         BeginsAlone, Beginning, SessionNamed, Named
<1> HIDE DEF TypeOK, Steps, Parts, Sessions, Idle, At, Set, Take, Release,
         Free, Plan
<1> QED BY <1>1, <1>2, <1>3, <1>4, <1>5

LEMMA SkipVictimStep ==
  ASSUME IInv, NEW p \in Procs, SkipVictim(p)
  PROVE  IInv'
<1>1. TypeOK'
  <2>0. TypeOK /\ proc[p] \in Record
    BY RecordTyped DEF IInv
  <2>w. PICK s \in Sessions : Set(p, [proc[p] EXCEPT !.ids = @ \ {s}])
    BY DEF SkipVictim
  <2>1. proc[p].ids \ {s} \in SUBSET Sessions
    BY <2>0, BoundsAreSane DEF IInv, Record
  <2>2. [proc[p] EXCEPT !.ids = @ \ {s}] \in Record
    BY <2>0, <2>1, IdleTyped DEF Record
  <2>3. proc' \in [Procs -> Record]
    BY <2>0, <2>w, <2>2, SetTyped DEF SkipVictim
  <2>9. OthersTyped'
    BY <2>0, BoundsAreSane
    DEF TypeOK, OthersTyped, SkipVictim, Take, Release, Parts, Sessions
  <2> QED BY <2>3, <2>9, TypedAgain
<1> USE BoundsAreSane DEF IInv, Inv, TypeOK, Steps, Parts, Sessions, Idle, At, Set,
          Take, Release, Free, SkipVictim, Oldest
<1>2. SessionNamed' /\ LeaseMatchesWork' /\ LogRemovedFirst'
  BY DEF SessionNamed, Named, LeaseMatchesWork, Holds, LogRemovedFirst
<1>3. UnmintedUnknown'
  BY DEF UnmintedUnknown, Meant, SessionNamed, Named
<1>4. BeginsAlone'
  BY DEF BeginsAlone, Beginning, UnmintedUnknown, Meant, SessionNamed, Named
<1>5. DirUnderLog' /\ CreatingCovers'
  BY DEF DirUnderLog, CreatingCovers, LogRemovedFirst, LeaseMatchesWork, Holds,
         BeginsAlone, Beginning, SessionNamed, Named
<1> HIDE DEF TypeOK, Steps, Parts, Sessions, Idle, At, Set, Take, Release,
         Free, SkipVictim, Oldest
<1> QED BY <1>1, <1>2, <1>3, <1>4, <1>5

LEMMA ClaimVictimStep ==
  ASSUME IInv, NEW p \in Procs, ClaimVictim(p)
  PROVE  IInv'
<1>1. TypeOK'
  <2>0. TypeOK /\ proc[p] \in Record
    BY RecordTyped DEF IInv
  <2>w. PICK s \in Sessions :
        Set(p, [proc[p] EXCEPT !.step = "removing", !.session = s, !.ids = @ \ {s},
                       !.todo = Parts])
           /\ Take(p, s)
    BY DEF ClaimVictim
  <2>1. "removing" \in Steps /\ s \in 0..MaxSessions /\ proc[p].ids \ {s} \in SUBSET Sessions
    BY <2>0, BoundsAreSane DEF IInv, Steps, Sessions, Record
  <2>2.
        [proc[p] EXCEPT !.step = "removing", !.session = s, !.ids = @ \ {s},
                !.todo = Parts] \in Record
    BY <2>0, <2>1, IdleTyped DEF Record
  <2>3. proc' \in [Procs -> Record]
    BY <2>0, <2>w, <2>2, SetTyped DEF ClaimVictim
  <2>4. lease' \in [Sessions -> Procs \cup {NoProc}]
    BY <2>0, <2>w, BoundsAreSane DEF Take, TypeOK, Sessions
  <2>9. OthersTyped'
    BY <2>0, <2>4, BoundsAreSane
    DEF TypeOK, OthersTyped, ClaimVictim, Take, Release, Parts, Sessions
  <2> QED BY <2>3, <2>9, TypedAgain
<1> USE BoundsAreSane DEF IInv, Inv, TypeOK, Steps, Parts, Sessions, Idle, At, Set,
          Take, Release, Free, ClaimVictim, Oldest
<1>2. SessionNamed' /\ LeaseMatchesWork' /\ LogRemovedFirst'
  BY DEF SessionNamed, Named, LeaseMatchesWork, Holds, LogRemovedFirst
<1>3. UnmintedUnknown'
  BY DEF UnmintedUnknown, Meant, SessionNamed, Named
<1>4. BeginsAlone'
  BY DEF BeginsAlone, Beginning, UnmintedUnknown, Meant, SessionNamed, Named
<1>5. DirUnderLog' /\ CreatingCovers'
  BY DEF DirUnderLog, CreatingCovers, LogRemovedFirst, LeaseMatchesWork, Holds,
         BeginsAlone, Beginning, SessionNamed, Named
<1> HIDE DEF TypeOK, Steps, Parts, Sessions, Idle, At, Set, Take, Release,
         Free, ClaimVictim, Oldest
<1> QED BY <1>1, <1>2, <1>3, <1>4, <1>5

LEMMA RemovePartStep ==
  ASSUME IInv, NEW p \in Procs, RemovePart(p)
  PROVE  IInv'
<1>1. TypeOK'
  <2>0. TypeOK /\ proc[p] \in Record
    BY RecordTyped DEF IInv
  <2>w. PICK part \in proc[p].todo : Set(p, [proc[p] EXCEPT !.todo = @ \ {part}])
           /\ files' = [files EXCEPT ![proc[p].session] = @ \ {part}]
    BY DEF RemovePart
  <2>1. proc[p].todo \ {part} \in SUBSET Parts
    BY <2>0, BoundsAreSane DEF IInv, Record
  <2>2. [proc[p] EXCEPT !.todo = @ \ {part}] \in Record
    BY <2>0, <2>1, IdleTyped DEF Record
  <2>3. proc' \in [Procs -> Record]
    BY <2>0, <2>w, <2>2, SetTyped DEF RemovePart
  <2>4. files' \in [Sessions -> SUBSET Parts]
    BY <2>0, <2>w, BoundsAreSane DEF TypeOK
  <2>9. OthersTyped'
    BY <2>0, <2>4, BoundsAreSane
    DEF TypeOK, OthersTyped, RemovePart, Take, Release, Parts, Sessions
  <2> QED BY <2>3, <2>9, TypedAgain
<1> USE BoundsAreSane DEF IInv, Inv, TypeOK, Steps, Parts, Sessions, Idle, At, Set,
          Take, Release, Free, RemovePart
<1>2. SessionNamed' /\ LeaseMatchesWork' /\ LogRemovedFirst'
  BY DEF SessionNamed, Named, LeaseMatchesWork, Holds, LogRemovedFirst
<1>3. UnmintedUnknown'
  BY DEF UnmintedUnknown, Meant, SessionNamed, Named
<1>4. BeginsAlone'
  BY DEF BeginsAlone, Beginning, UnmintedUnknown, Meant, SessionNamed, Named
<1>5. DirUnderLog' /\ CreatingCovers'
  BY DEF DirUnderLog, CreatingCovers, LogRemovedFirst, LeaseMatchesWork, Holds,
         BeginsAlone, Beginning, SessionNamed, Named
<1> HIDE DEF TypeOK, Steps, Parts, Sessions, Idle, At, Set, Take, Release,
         Free, RemovePart
<1> QED BY <1>1, <1>2, <1>3, <1>4, <1>5

LEMMA ReleaseVictimStep ==
  ASSUME IInv, NEW p \in Procs, ReleaseVictim(p)
  PROVE  IInv'
<1>1. TypeOK'
  <2>0. TypeOK /\ proc[p] \in Record
    BY RecordTyped DEF IInv
  <2>1. "applying" \in Steps /\ 0 \in 0..MaxSessions
    BY <2>0, BoundsAreSane DEF IInv, Steps
  <2>2. [proc[p] EXCEPT !.step = "applying", !.session = 0] \in Record
    BY <2>0, <2>1, IdleTyped DEF Record
  <2>3. proc' \in [Procs -> Record]
    BY <2>0, <2>2, SetTyped DEF ReleaseVictim
  <2>9. OthersTyped'
    BY <2>0, BoundsAreSane
    DEF TypeOK, OthersTyped, ReleaseVictim, Take, Release, Parts, Sessions
  <2> QED BY <2>3, <2>9, TypedAgain
<1> USE BoundsAreSane DEF IInv, Inv, TypeOK, Steps, Parts, Sessions, Idle, At, Set,
          Take, Release, Free, ReleaseVictim
<1>2. SessionNamed' /\ LeaseMatchesWork' /\ LogRemovedFirst'
  BY DEF SessionNamed, Named, LeaseMatchesWork, Holds, LogRemovedFirst
<1>3. UnmintedUnknown'
  BY DEF UnmintedUnknown, Meant, SessionNamed, Named
<1>4. BeginsAlone'
  BY DEF BeginsAlone, Beginning, UnmintedUnknown, Meant, SessionNamed, Named
<1>5. DirUnderLog' /\ CreatingCovers'
  BY DEF DirUnderLog, CreatingCovers, LogRemovedFirst, LeaseMatchesWork, Holds,
         BeginsAlone, Beginning, SessionNamed, Named
<1> HIDE DEF TypeOK, Steps, Parts, Sessions, Idle, At, Set, Take, Release,
         Free, ReleaseVictim
<1> QED BY <1>1, <1>2, <1>3, <1>4, <1>5

LEMMA MintStep ==
  ASSUME IInv, NEW p \in Procs, Mint(p)
  PROVE  IInv'
<1>1. TypeOK'
  <2>0. TypeOK /\ proc[p] \in Record
    BY RecordTyped DEF IInv
  <2>1. "making" \in Steps /\ nextId \in 0..MaxSessions
    BY <2>0, BoundsAreSane DEF IInv, Steps, Sessions, Mint
  <2>2. [proc[p] EXCEPT !.step = "making", !.session = nextId] \in Record
    BY <2>0, <2>1, IdleTyped DEF Record
  <2>3. proc' \in [Procs -> Record]
    BY <2>0, <2>2, SetTyped DEF Mint
  <2>4. nextId' \in 1..(MaxSessions + 1)
    BY <2>0, BoundsAreSane DEF TypeOK, Sessions, Mint
  <2>9. OthersTyped'
    BY <2>0, <2>4, BoundsAreSane
    DEF TypeOK, OthersTyped, Mint, Take, Release, Parts, Sessions
  <2> QED BY <2>3, <2>9, TypedAgain
<1> USE BoundsAreSane DEF IInv, Inv, TypeOK, Steps, Parts, Sessions, Idle, At, Set,
          Take, Release, Free, Mint
<1>2. SessionNamed' /\ LeaseMatchesWork' /\ LogRemovedFirst'
  BY DEF SessionNamed, Named, LeaseMatchesWork, Holds, LogRemovedFirst
<1>3. UnmintedUnknown'
  BY DEF UnmintedUnknown, Meant, SessionNamed, Named
<1>4. BeginsAlone'
  BY DEF BeginsAlone, Beginning, UnmintedUnknown, Meant, SessionNamed, Named
<1>5. DirUnderLog' /\ CreatingCovers'
  BY DEF DirUnderLog, CreatingCovers, LogRemovedFirst, LeaseMatchesWork, Holds,
         BeginsAlone, Beginning, SessionNamed, Named
<1> HIDE DEF TypeOK, Steps, Parts, Sessions, Idle, At, Set, Take, Release,
         Free, Mint
<1> QED BY <1>1, <1>2, <1>3, <1>4, <1>5

LEMMA ReadHeaderStep ==
  ASSUME IInv, NEW p \in Procs, ReadHeader(p)
  PROVE  IInv'
<1>1. TypeOK'
  <2>0. TypeOK /\ proc[p] \in Record
    BY RecordTyped DEF IInv
  <2>w. PICK s \in Listed : Set(p, [Idle EXCEPT !.step = "making", !.session = s])
    BY DEF ReadHeader
  <2>1. "making" \in Steps /\ s \in 0..MaxSessions
    BY <2>0, BoundsAreSane DEF IInv, Steps, Listed, Sessions
  <2>2. [Idle EXCEPT !.step = "making", !.session = s] \in Record
    BY <2>0, <2>1, IdleTyped DEF Record
  <2>3. proc' \in [Procs -> Record]
    BY <2>0, <2>w, <2>2, SetTyped DEF ReadHeader
  <2>9. OthersTyped'
    BY <2>0, BoundsAreSane
    DEF TypeOK, OthersTyped, ReadHeader, Take, Release, Parts, Sessions
  <2> QED BY <2>3, <2>9, TypedAgain
<1> USE BoundsAreSane DEF IInv, Inv, TypeOK, Steps, Parts, Sessions, Idle, At, Set,
          Take, Release, Free, ReadHeader, Listed
<1>2. SessionNamed' /\ LeaseMatchesWork' /\ LogRemovedFirst'
  BY DEF SessionNamed, Named, LeaseMatchesWork, Holds, LogRemovedFirst
<1>3. UnmintedUnknown'
  BY DEF UnmintedUnknown, Meant, SessionNamed, Named
<1>4. BeginsAlone'
  BY DEF BeginsAlone, Beginning, UnmintedUnknown, Meant, SessionNamed, Named
<1>5. DirUnderLog' /\ CreatingCovers'
  BY DEF DirUnderLog, CreatingCovers, LogRemovedFirst, LeaseMatchesWork, Holds,
         BeginsAlone, Beginning, SessionNamed, Named
<1> HIDE DEF TypeOK, Steps, Parts, Sessions, Idle, At, Set, Take, Release,
         Free, ReadHeader, Listed
<1> QED BY <1>1, <1>2, <1>3, <1>4, <1>5

LEMMA EnsureDirsStep ==
  ASSUME IInv, NEW p \in Procs, EnsureDirs(p)
  PROVE  IInv'
<1>1. TypeOK'
  <2>0. TypeOK /\ proc[p] \in Record
    BY RecordTyped DEF IInv
  <2>1. "acquiring" \in Steps
    BY <2>0, BoundsAreSane DEF IInv, Steps
  <2>2. [proc[p] EXCEPT !.step = "acquiring"] \in Record
    BY <2>0, <2>1, IdleTyped DEF Record
  <2>3. proc' \in [Procs -> Record]
    BY <2>0, <2>2, SetTyped DEF EnsureDirs
  <2>9. OthersTyped'
    BY <2>0, BoundsAreSane
    DEF TypeOK, OthersTyped, EnsureDirs, Take, Release, Parts, Sessions
  <2> QED BY <2>3, <2>9, TypedAgain
<1> USE BoundsAreSane DEF IInv, Inv, TypeOK, Steps, Parts, Sessions, Idle, At, Set,
          Take, Release, Free, EnsureDirs
<1>2. SessionNamed' /\ LeaseMatchesWork' /\ LogRemovedFirst'
  BY DEF SessionNamed, Named, LeaseMatchesWork, Holds, LogRemovedFirst
<1>3. UnmintedUnknown'
  BY DEF UnmintedUnknown, Meant, SessionNamed, Named
<1>4. BeginsAlone'
  BY DEF BeginsAlone, Beginning, UnmintedUnknown, Meant, SessionNamed, Named
<1>5. DirUnderLog' /\ CreatingCovers'
  BY DEF DirUnderLog, CreatingCovers, LogRemovedFirst, LeaseMatchesWork, Holds,
         BeginsAlone, Beginning, SessionNamed, Named
<1> HIDE DEF TypeOK, Steps, Parts, Sessions, Idle, At, Set, Take, Release,
         Free, EnsureDirs
<1> QED BY <1>1, <1>2, <1>3, <1>4, <1>5

LEMMA AcquireStep ==
  ASSUME IInv, NEW p \in Procs, Acquire(p)
  PROVE  IInv'
<1>1. TypeOK'
  <2>0. TypeOK /\ proc[p] \in Record
    BY RecordTyped DEF IInv
  <2>1. "checking" \in Steps
    BY <2>0, BoundsAreSane DEF IInv, Steps
  <2>2. [proc[p] EXCEPT !.step = "checking"] \in Record
    BY <2>0, <2>1, IdleTyped DEF Record
  <2>3. proc' \in [Procs -> Record]
    BY <2>0, <2>2, SetTyped DEF Acquire
  <2>9. OthersTyped'
    BY <2>0, BoundsAreSane
    DEF TypeOK, OthersTyped, Acquire, Take, Release, Parts, Sessions
  <2> QED BY <2>3, <2>9, TypedAgain
<1> USE BoundsAreSane DEF IInv, Inv, TypeOK, Steps, Parts, Sessions, Idle, At, Set,
          Take, Release, Free, Acquire
<1>2. SessionNamed' /\ LeaseMatchesWork' /\ LogRemovedFirst'
  BY DEF SessionNamed, Named, LeaseMatchesWork, Holds, LogRemovedFirst
<1>3. UnmintedUnknown'
  BY DEF UnmintedUnknown, Meant, SessionNamed, Named
<1>4. BeginsAlone'
  BY DEF BeginsAlone, Beginning, UnmintedUnknown, Meant, SessionNamed, Named
<1>5. DirUnderLog' /\ CreatingCovers'
  BY DEF DirUnderLog, CreatingCovers, LogRemovedFirst, LeaseMatchesWork, Holds,
         BeginsAlone, Beginning, SessionNamed, Named
<1> HIDE DEF TypeOK, Steps, Parts, Sessions, Idle, At, Set, Take, Release,
         Free, Acquire
<1> QED BY <1>1, <1>2, <1>3, <1>4, <1>5

LEMMA BusyStep ==
  ASSUME IInv, NEW p \in Procs, Busy(p)
  PROVE  IInv'
<1>1. TypeOK'
  <2>0. TypeOK /\ proc[p] \in Record
    BY RecordTyped DEF IInv
  <2>1. proc[p].session \in 0..MaxSessions
    BY <2>0, BoundsAreSane DEF IInv, Record
  <2>2. [Idle EXCEPT !.busy = proc[p].session] \in Record
    BY <2>0, <2>1, IdleTyped DEF Record
  <2>3. proc' \in [Procs -> Record]
    BY <2>0, <2>2, SetTyped DEF Busy
  <2>9. OthersTyped'
    BY <2>0, BoundsAreSane
    DEF TypeOK, OthersTyped, Busy, Take, Release, Parts, Sessions
  <2> QED BY <2>3, <2>9, TypedAgain
<1>2. UnmintedUnknown'
  <2> DEFINE r == [Idle EXCEPT !.busy = proc[p].session]
  <2>1. files' = files /\ nextId' = nextId /\ Set(p, r) /\ TypeOK
    BY DEF Busy, IInv
  <2>2. r.session = 0 /\ r.ids = {} /\ r.found = {}
    BY DEF Idle
  <2> HIDE DEF r
  <2> QED BY <2>1, <2>2, IdleMeansNothing DEF IInv, Inv, UnmintedUnknown
<1> USE BoundsAreSane DEF IInv, Inv, TypeOK, Steps, Parts, Sessions, Idle, At, Set,
          Take, Release, Free, Busy
<1>3. SessionNamed' /\ LeaseMatchesWork' /\ LogRemovedFirst'
  BY DEF SessionNamed, Named, LeaseMatchesWork, Holds, LogRemovedFirst
<1>4. BeginsAlone'
  BY DEF BeginsAlone, Beginning, UnmintedUnknown, Meant, SessionNamed, Named
<1>5. DirUnderLog' /\ CreatingCovers'
  BY DEF DirUnderLog, CreatingCovers, LogRemovedFirst, LeaseMatchesWork, Holds,
         BeginsAlone, Beginning, SessionNamed, Named
<1> HIDE DEF TypeOK, Steps, Parts, Sessions, Idle, At, Set, Take, Release,
         Free, Busy
<1> QED BY <1>1, <1>2, <1>3, <1>4, <1>5

LEMMA CreateStep ==
  ASSUME IInv, NEW p \in Procs, Create(p)
  PROVE  IInv'
<1>1. TypeOK'
  <2>0. TypeOK /\ proc[p] \in Record
    BY RecordTyped DEF IInv
  <2>w. PICK part \in proc[p].todo : Set(p, [proc[p] EXCEPT !.todo = @ \ {part}])
           /\ files' = [files EXCEPT ![proc[p].session] = @ \cup {part}]
    BY DEF Create
  <2>1. proc[p].todo \ {part} \in SUBSET Parts
    BY <2>0, BoundsAreSane DEF IInv, Record
  <2>2. [proc[p] EXCEPT !.todo = @ \ {part}] \in Record
    BY <2>0, <2>1, IdleTyped DEF Record
  <2>3. proc' \in [Procs -> Record]
    BY <2>0, <2>w, <2>2, SetTyped DEF Create
  <2>4. files' \in [Sessions -> SUBSET Parts]
    BY <2>0, <2>w, BoundsAreSane DEF TypeOK
  <2>9. OthersTyped'
    BY <2>0, <2>4, BoundsAreSane
    DEF TypeOK, OthersTyped, Create, Take, Release, Parts, Sessions
  <2> QED BY <2>3, <2>9, TypedAgain
<1> USE BoundsAreSane DEF IInv, Inv, TypeOK, Steps, Parts, Sessions, Idle, At, Set,
          Take, Release, Free, Create
<1>2. SessionNamed' /\ LeaseMatchesWork' /\ LogRemovedFirst'
  BY DEF SessionNamed, Named, LeaseMatchesWork, Holds, LogRemovedFirst
<1>3. UnmintedUnknown'
  BY DEF UnmintedUnknown, Meant, SessionNamed, Named
<1>4. BeginsAlone'
  BY DEF BeginsAlone, Beginning, UnmintedUnknown, Meant, SessionNamed, Named
<1>5. DirUnderLog' /\ CreatingCovers'
  BY DEF DirUnderLog, CreatingCovers, LogRemovedFirst, LeaseMatchesWork, Holds,
         BeginsAlone, Beginning, SessionNamed, Named
<1> HIDE DEF TypeOK, Steps, Parts, Sessions, Idle, At, Set, Take, Release,
         Free, Create
<1> QED BY <1>1, <1>2, <1>3, <1>4, <1>5

LEMMA OpenedStep ==
  ASSUME IInv, NEW p \in Procs, Opened(p)
  PROVE  IInv'
<1>1. TypeOK'
  <2>0. TypeOK /\ proc[p] \in Record
    BY RecordTyped DEF IInv
  <2>1. "open" \in Steps
    BY <2>0, BoundsAreSane DEF IInv, Steps
  <2>2. [proc[p] EXCEPT !.step = "open"] \in Record
    BY <2>0, <2>1, IdleTyped DEF Record
  <2>3. proc' \in [Procs -> Record]
    BY <2>0, <2>2, SetTyped DEF Opened
  <2>9. OthersTyped'
    BY <2>0, BoundsAreSane
    DEF TypeOK, OthersTyped, Opened, Take, Release, Parts, Sessions
  <2> QED BY <2>3, <2>9, TypedAgain
<1> USE BoundsAreSane DEF IInv, Inv, TypeOK, Steps, Parts, Sessions, Idle, At, Set,
          Take, Release, Free, Opened
<1>2. SessionNamed' /\ LeaseMatchesWork' /\ LogRemovedFirst'
  BY DEF SessionNamed, Named, LeaseMatchesWork, Holds, LogRemovedFirst
<1>3. UnmintedUnknown'
  BY DEF UnmintedUnknown, Meant, SessionNamed, Named
<1>4. BeginsAlone'
  BY DEF BeginsAlone, Beginning, UnmintedUnknown, Meant, SessionNamed, Named
<1>5. DirUnderLog' /\ CreatingCovers'
  BY DEF DirUnderLog, CreatingCovers, LogRemovedFirst, LeaseMatchesWork, Holds,
         BeginsAlone, Beginning, SessionNamed, Named
<1> HIDE DEF TypeOK, Steps, Parts, Sessions, Idle, At, Set, Take, Release,
         Free, Opened
<1> QED BY <1>1, <1>2, <1>3, <1>4, <1>5

LEMMA CloseStep ==
  ASSUME IInv, NEW p \in Procs, Close(p)
  PROVE  IInv'
<1>1. TypeOK'
  <2>0. TypeOK /\ proc[p] \in Record
    BY RecordTyped DEF IInv
  <2>3. proc' \in [Procs -> Record]
    BY <2>0, IdleTyped, SetTyped DEF Close
  <2>9. OthersTyped'
    BY <2>0, BoundsAreSane
    DEF TypeOK, OthersTyped, Close, Take, Release, Parts, Sessions
  <2> QED BY <2>3, <2>9, TypedAgain
<1>2. UnmintedUnknown'
  <2> DEFINE r == Idle
  <2>1. files' = files /\ nextId' = nextId /\ Set(p, r) /\ TypeOK
    BY DEF Close, IInv
  <2>2. r.session = 0 /\ r.ids = {} /\ r.found = {}
    BY DEF Idle
  <2> HIDE DEF r
  <2> QED BY <2>1, <2>2, IdleMeansNothing DEF IInv, Inv, UnmintedUnknown
<1> USE BoundsAreSane DEF IInv, Inv, TypeOK, Steps, Parts, Sessions, Idle, At, Set,
          Take, Release, Free, Close
<1>3. SessionNamed' /\ LeaseMatchesWork' /\ LogRemovedFirst'
  BY DEF SessionNamed, Named, LeaseMatchesWork, Holds, LogRemovedFirst
<1>4. BeginsAlone'
  BY DEF BeginsAlone, Beginning, UnmintedUnknown, Meant, SessionNamed, Named
<1>5. DirUnderLog' /\ CreatingCovers'
  BY DEF DirUnderLog, CreatingCovers, LogRemovedFirst, LeaseMatchesWork, Holds,
         BeginsAlone, Beginning, SessionNamed, Named
<1> HIDE DEF TypeOK, Steps, Parts, Sessions, Idle, At, Set, Take, Release,
         Free, Close
<1> QED BY <1>1, <1>2, <1>3, <1>4, <1>5

LEMMA CrashStep ==
  ASSUME IInv, NEW p \in Procs, Crash(p)
  PROVE  IInv'
<1>1. TypeOK'
  <2>0. TypeOK /\ proc[p] \in Record
    BY RecordTyped DEF IInv
  <2>3. proc' \in [Procs -> Record]
    BY <2>0, IdleTyped, SetTyped DEF Crash
  <2>9. OthersTyped'
    BY <2>0, BoundsAreSane
    DEF TypeOK, OthersTyped, Crash, Take, Release, Parts, Sessions
  <2> QED BY <2>3, <2>9, TypedAgain
<1>2. UnmintedUnknown'
  <2> DEFINE r == Idle
  <2>1. files' = files /\ nextId' = nextId /\ Set(p, r) /\ TypeOK
    BY DEF Crash, IInv
  <2>2. r.session = 0 /\ r.ids = {} /\ r.found = {}
    BY DEF Idle
  <2> HIDE DEF r
  <2> QED BY <2>1, <2>2, IdleMeansNothing DEF IInv, Inv, UnmintedUnknown
<1> USE BoundsAreSane DEF IInv, Inv, TypeOK, Steps, Parts, Sessions, Idle, At, Set,
          Take, Release, Free, Crash
<1>3. SessionNamed' /\ LeaseMatchesWork' /\ LogRemovedFirst'
  BY DEF SessionNamed, Named, LeaseMatchesWork, Holds, LogRemovedFirst
<1>4. BeginsAlone'
  BY DEF BeginsAlone, Beginning, UnmintedUnknown, Meant, SessionNamed, Named
<1>5. DirUnderLog' /\ CreatingCovers'
  BY DEF DirUnderLog, CreatingCovers, LogRemovedFirst, LeaseMatchesWork, Holds,
         BeginsAlone, Beginning, SessionNamed, Named
<1> HIDE DEF TypeOK, Steps, Parts, Sessions, Idle, At, Set, Take, Release,
         Free, Crash
<1> QED BY <1>1, <1>2, <1>3, <1>4, <1>5

\* Under the lease the log decides: only a session that is there is resumed.
LEMMA CheckStep ==
  ASSUME IInv, NEW p \in Procs, Check(p)
  PROVE  IInv'
<1> DEFINE r == [proc[p] EXCEPT !.step = "creating",
                   !.todo = IF proc[p].fresh THEN {"trace", "log", "wal"}
                                             ELSE {"trace", "wal"}]
<1>1. CASE LogAsExpected(p)
  <2>1. TypeOK /\ proc[p] \in Record /\ Set(p, r) /\ UNCHANGED <<files, lease, pass, nextId>>
    BY <1>1, RecordTyped DEF IInv, Check
  <2>2. /\ "creating" \in Steps
        /\ (IF proc[p].fresh THEN {"trace", "log", "wal"} ELSE {"trace", "wal"}) \in SUBSET Parts
    BY DEF Steps, Parts
  <2>3. r \in Record
    BY <2>1, <2>2 DEF Record
  <2>4. proc' \in [Procs -> Record]
    BY <2>1, <2>3, SetTyped
  <2>5. TypeOK'
    BY <2>1, <2>4 DEF TypeOK, Record
  <2>6. /\ proc'[p].step = "creating" /\ proc'[p].session = proc[p].session
        /\ proc'[p].todo = IF proc[p].fresh THEN {"trace", "log", "wal"} ELSE {"trace", "wal"}
        /\ proc'[p].ids = proc[p].ids /\ proc'[p].found = proc[p].found
        /\ proc'[p].fresh = proc[p].fresh
        /\ \A q \in Procs : q # p => proc'[q] = proc[q]
        /\ proc[p].step = "checking"
    BY <2>1 DEF Set, Record, TypeOK, Check, At
  <2> HIDE DEF r
  <2>7. LeaseMatchesWork' /\ SessionNamed'
    BY <2>1, <2>6 DEF IInv, Inv, LeaseMatchesWork, Holds, SessionNamed, Named
  <2>8. UnmintedUnknown'
    BY <2>1, <2>6 DEF IInv, Inv, UnmintedUnknown, Meant
  <2>9. BeginsAlone'
    BY <2>1, <2>6 DEF IInv, Inv, BeginsAlone, Beginning, Meant
  <2>10. DirUnderLog' /\ LogRemovedFirst'
    BY <2>1, <2>6 DEF IInv, Inv, DirUnderLog, LogRemovedFirst
  <2>11. "dir" \in files[proc[p].session] /\ (~proc[p].fresh => "log" \in files[proc[p].session])
    BY <1>1, <2>6 DEF IInv, Inv, LogAsExpected, BeginsAlone, Beginning, DirUnderLog,
                      SessionNamed, Named
  <2>12. CreatingCovers'
    BY <2>1, <2>6, <2>11 DEF IInv, Inv, CreatingCovers, Parts
  <2> QED
    BY <2>5, <2>7, <2>8, <2>9, <2>10, <2>12 DEF IInv, Inv
<1>2. CASE ~LogAsExpected(p)
  <2>1. TypeOK /\ Set(p, Idle) /\ Release(proc[p].session) /\ proc[p].step = "checking"
        /\ UNCHANGED <<files, pass, nextId>>
    BY <1>2 DEF IInv, Check, At
  <2>2. proc' \in [Procs -> Record]
    BY <2>1, IdleTyped, SetTyped
  <2>3. TypeOK'
    BY <2>1, <2>2, BoundsAreSane DEF TypeOK, Record, Release
  <2>4. /\ proc'[p] = Idle
        /\ \A q \in Procs : q # p => proc'[q] = proc[q]
    BY <2>1 DEF Set, TypeOK
  <2>5. LeaseMatchesWork'
    BY <2>1, <2>4, BoundsAreSane
    DEF IInv, Inv, LeaseMatchesWork, Holds, SessionNamed, Named, Release, TypeOK, Idle
  <2>6. SessionNamed' /\ UnmintedUnknown'
    BY <2>1, <2>4, BoundsAreSane
    DEF IInv, Inv, SessionNamed, Named, UnmintedUnknown, Meant, Idle, Sessions
  <2>7. BeginsAlone'
    BY <2>1, <2>4 DEF IInv, Inv, BeginsAlone, Beginning, Meant, Idle, SessionNamed, Named, Sessions
  <2>8. DirUnderLog' /\ LogRemovedFirst' /\ CreatingCovers'
    BY <2>1, <2>4 DEF IInv, Inv, DirUnderLog, LogRemovedFirst, CreatingCovers, Idle
  <2> QED
    BY <2>3, <2>5, <2>6, <2>7, <2>8 DEF IInv, Inv
<1> QED BY <1>1, <1>2

(* ------------------------------- theorems -------------------------------- *)

LEMMA InvInit == Init => IInv
<1> SUFFICES ASSUME Init PROVE IInv
  OBVIOUS
<1>1. TypeOK
  BY BoundsAreSane, IdleTyped DEF Init, TypeOK, Record, Sessions
<1>2. LeaseMatchesWork
  BY BoundsAreSane DEF Init, LeaseMatchesWork, Holds, Idle
<1>3. Inv
  BY BoundsAreSane
  DEF Init, Inv, SessionNamed, Named, UnmintedUnknown, Meant, BeginsAlone, Beginning,
      DirUnderLog, LogRemovedFirst, CreatingCovers, Idle, Sessions, Parts
<1> QED BY <1>1, <1>2, <1>3 DEF IInv

LEMMA InvNext == IInv /\ [Next]_vars => IInv'
<1> SUFFICES ASSUME IInv, [Next]_vars PROVE IInv'
  OBVIOUS
<1>1. CASE UNCHANGED vars
  BY <1>1 DEF vars, IInv, TypeOK, LeaseMatchesWork, Holds, Inv, SessionNamed, Named,
     UnmintedUnknown, Meant, BeginsAlone, Beginning, DirUnderLog, LogRemovedFirst,
     CreatingCovers
<1>2. ASSUME NEW p \in Procs,
             StartNew(p) \/ ReadHeader(p) \/ Work(p) \/ Close(p) \/ Crash(p)
      PROVE  IInv'
  BY <1>2, StartNewStep, ReadHeaderStep, CloseStep, CrashStep, ListStep, SkipLeasedStep,
     ProbeStep, UnprobeStep, PlanStep, SkipVictimStep, ClaimVictimStep, RemovePartStep,
     ReleaseVictimStep, MintStep, EnsureDirsStep, AcquireStep, BusyStep, CheckStep,
     CreateStep, OpenedStep
  DEF Work
<1> QED BY <1>1, <1>2 DEF Next

\* The inductive invariant: types, the lease discipline, and what a process
\* knows about its session at each step of run.rs and retention.rs.
THEOREM InvHolds == Spec => []IInv
<1> QED BY InvInit, InvNext, PTL DEF Spec

\* Every process works on sessions there are, with files there are (the types
\* of run.rs, lease.rs and retention.rs).
THEOREM RetentionTypeCorrect == Spec => []TypeOK
<1>1. IInv => TypeOK
  BY DEF IInv
<1> QED BY <1>1, InvHolds, PTL

\* The lease of a session is held exactly by the process that works on it: no
\* two processes write one session (SessionLease::acquire).
THEOREM LeaseMatchesWorkHolds == Spec => []LeaseMatchesWork
<1>1. IInv => LeaseMatchesWork
  BY DEF IInv
<1> QED BY <1>1, InvHolds, PTL

\* An open session has all its files, whatever passes planned before it was
\* opened (retention::apply, Store::begin, Store::resume).
THEOREM OpenSessionIntactHolds == Spec => []OpenSessionIntact
<1>1. IInv => OpenSessionIntact
  <2> SUFFICES ASSUME IInv, NEW p \in Procs, At(p, "open")
               PROVE  files[proc[p].session] = Parts
    BY DEF OpenSessionIntact
  <2>1. proc[p].session \in Sessions /\ files[proc[p].session] \in SUBSET Parts
    BY DEF IInv, Inv, SessionNamed, Named, At, TypeOK
  <2>2. Parts \subseteq files[proc[p].session]
    BY DEF IInv, Inv, CreatingCovers, At
  <2> QED BY <2>1, <2>2
<1> QED BY <1>1, InvHolds, PTL

(***************************************************************************)
(* A pass keeps the newest sessions.  While it lasts every session it may  *)
(* still remove has KeepNewest newer ones: it was chosen so, other         *)
(* processes only add logs, and the pass itself removes the oldest first,  *)
(* so that a log it takes is newer than none of those it has left.         *)
(***************************************************************************)

Passing(p) == proc[p].step \in {"listing", "planning", "probing", "applying", "removing"}

Enough(s) == Cardinality(Newer(s)) >= KeepNewest

Working(p) == proc[p].step \in {"probing", "removing"}

\* What the pass of p may still remove has enough newer sessions.
PlansKeep(p) ==
  /\ \A s \in proc[p].ids \cup proc[p].found : Enough(s)
  /\ Working(p) => Enough(proc[p].session)

PassOf(p) ==
  /\ Passing(p) => pass = p /\ PlansKeep(p)
  /\ At(p, "listing") => proc[p].ids = {} /\ proc[p].found = {}
  /\ proc[p].step \in {"applying", "removing"} => proc[p].found = {}
  /\ At(p, "removing") => \A t \in proc[p].ids : proc[p].session < t

PassInv == \A p \in Procs : PassOf(p)

\* Newer sessions are a finite set, also when some of them are gone.
LEMMA NewerFinite ==
  \A s : IsFiniteSet(Newer(s)) /\ Cardinality(Newer(s)) \in Nat
<1>1. IsFiniteSet(Sessions)
  BY BoundsAreSane, FS_Interval DEF Sessions
<1>2. \A s : Newer(s) \subseteq Sessions
  BY DEF Newer, Listed
<1>3. \A s : IsFiniteSet(Newer(s))
  BY <1>1, <1>2, FS_Subset
<1> QED
  BY <1>3, FS_CardinalityType

\* As long as no log newer than s goes, s keeps as many newer sessions.
LEMMA EnoughKept ==
  ASSUME NEW s \in Sessions, Enough(s),
         \A t \in Sessions : t > s /\ "log" \in files[t] => "log" \in files'[t]
  PROVE  Enough(s)'
<1>1. Newer(s) \subseteq Newer(s)'
  BY DEF Newer, Listed
<1>2. IsFiniteSet(Newer(s)')
  <2>1. IsFiniteSet(Sessions)
    BY BoundsAreSane, FS_Interval DEF Sessions
  <2>2. Newer(s)' \subseteq Sessions
    BY DEF Newer, Listed
  <2> QED
    BY <2>1, <2>2, FS_Subset
<1>3. Cardinality(Newer(s)) <= Cardinality(Newer(s)')
  BY <1>1, <1>2, FS_Subset
<1>4. Cardinality(Newer(s)) \in Nat /\ Cardinality(Newer(s)') \in Nat
  BY <1>2, NewerFinite, FS_CardinalityType
<1> QED
  BY <1>3, <1>4, BoundsAreSane DEF Enough

\* A step that removes no log and after which p has no more in its plan.
LEMMA PlanKept ==
  ASSUME IInv, NEW p \in Procs, PlansKeep(p),
         \A t \in Sessions : "log" \in files[t] => "log" \in files'[t],
         proc'[p].ids \cup proc'[p].found \subseteq
           proc[p].ids \cup proc[p].found
             \cup (IF Working(p) THEN {proc[p].session} ELSE {}),
         Working(p)' =>
           proc'[p].session \in proc[p].ids \cup proc[p].found
             \cup (IF Working(p) THEN {proc[p].session} ELSE {})
  PROVE  PlansKeep(p)'
<1> DEFINE planned == proc[p].ids \cup proc[p].found
                        \cup (IF Working(p) THEN {proc[p].session} ELSE {})
<1>1. \A s \in planned : s \in Sessions /\ Enough(s)
  BY DEF IInv, TypeOK, Inv, SessionNamed, Named, Working, PlansKeep
<1>2. \A s \in planned : Enough(s)'
  BY <1>1, EnoughKept
<1> QED
  BY <1>2 DEF PlansKeep

\* What other processes do to the files and the pass leaves p's pass alone.
LEMMA BystanderKept ==
  ASSUME IInv, NEW p \in Procs, PassOf(p), proc'[p] = proc[p],
         Passing(p) => /\ pass' = pass
                       /\ \A t \in Sessions : "log" \in files[t] => "log" \in files'[t]
  PROVE  PassOf(p)'
<1>1. Passing(p) => PlansKeep(p)'
  <2> SUFFICES ASSUME Passing(p) PROVE PlansKeep(p)'
    OBVIOUS
  <2>1. PlansKeep(p) /\ \A t \in Sessions : "log" \in files[t] => "log" \in files'[t]
    BY DEF PassOf
  <2> QED
    BY <2>1, PlanKept DEF Working
<1> QED
  BY <1>1 DEF PassOf, Passing, At

LEMMA OthersRecords ==
  ASSUME IInv, NEW p \in Procs, NEW r, Set(p, r)
  PROVE  proc'[p] = r /\ \A q \in Procs \ {p} : proc'[q] = proc[q]
  BY DEF Set, IInv, TypeOK

LEMMA PassInit == Init => PassInv
  BY DEF Init, PassInv, PassOf, Passing, At, Idle

\* The steps of a pass before and between its removals, and its end.
LEMMA PassStep ==
  ASSUME IInv, PassInv, NEW p \in Procs,
         \/ StartNew(p) \/ List(p) \/ SkipLeased(p) \/ Probe(p) \/ Unprobe(p) \/ Plan(p)
         \/ SkipVictim(p) \/ ClaimVictim(p) \/ ReleaseVictim(p) \/ Mint(p)
  PROVE  PassInv'
<1>0. proc[p] \in Record /\ PassOf(p) /\ files' = files
  BY RecordTyped DEF IInv, PassInv, StartNew, List, SkipLeased, Probe, Unprobe, Plan,
                     SkipVictim, ClaimVictim, ReleaseVictim, Mint
<1>1. \A q \in Procs \ {p} : proc'[q] = proc[q]
  BY DEF StartNew, List, SkipLeased, Probe, Unprobe, Plan, SkipVictim, ClaimVictim,
         ReleaseVictim, Mint, Set, IInv, TypeOK
<1>2. \A q \in Procs \ {p} : Passing(q) => pass' = pass
  BY BoundsAreSane
  DEF StartNew, List, SkipLeased, Probe, Unprobe, Plan, SkipVictim, ClaimVictim,
      ReleaseVictim, Mint, PassInv, PassOf, Passing, At
<1>3. \A q \in Procs \ {p} : PassOf(q)'
  BY <1>0, <1>1, <1>2, BystanderKept DEF PassInv
<1>4. PassOf(p)'
  <2>1. CASE StartNew(p)
    <3>1. proc'[p] = [Idle EXCEPT !.step = "listing", !.fresh = TRUE] /\ pass' = p
      BY <2>1, OthersRecords DEF StartNew
    <3> QED
      BY <3>1 DEF PassOf, Passing, At, PlansKeep, Working, Idle
  <2>2. CASE List(p)
    <3>1. /\ proc'[p] = [proc[p] EXCEPT !.step = "planning", !.ids = BeyondNewest]
          /\ pass' = p /\ proc[p].found = {}
      BY <1>0, <2>2, OthersRecords DEF List, PassOf, Passing, At
    <3>2. proc'[p].step = "planning" /\ proc'[p].ids = BeyondNewest /\ proc'[p].found = {}
      BY <1>0, <3>1 DEF Record
    <3>3. \A s \in BeyondNewest : s \in Sessions /\ Enough(s)
      BY DEF BeyondNewest, Listed, Enough
    <3>4. \A s \in BeyondNewest : Enough(s)'
      BY <1>0, <3>3, EnoughKept
    <3> QED
      BY <3>1, <3>2, <3>4 DEF PassOf, Passing, At, PlansKeep, Working
  <2>3. CASE SkipLeased(p)
    <3>1. PICK s \in Sessions : proc'[p] = [proc[p] EXCEPT !.ids = @ \ {s}]
      BY <2>3, OthersRecords DEF SkipLeased
    <3>2. /\ proc'[p].step = "planning" /\ proc'[p].found = proc[p].found
          /\ proc'[p].ids = proc[p].ids \ {s} /\ proc[p].step = "planning"
      BY <1>0, <2>3, <3>1 DEF Record, SkipLeased, At
    <3>3. PlansKeep(p) /\ pass' = p
      BY <1>0, <2>3, <3>2 DEF PassOf, Passing, SkipLeased
    <3>4. PlansKeep(p)'
      BY <1>0, <3>2, <3>3, PlanKept DEF Working
    <3> QED
      BY <3>2, <3>3, <3>4 DEF PassOf, Passing, At
  <2>4. CASE Probe(p)
    <3>1. PICK s \in Sessions :
            /\ Newest(s, proc[p].ids)
            /\ proc'[p] = [proc[p] EXCEPT !.step = "probing", !.session = s, !.ids = @ \ {s}]
      BY <2>4, OthersRecords DEF Probe
    <3>2. /\ proc'[p].step = "probing" /\ proc'[p].found = proc[p].found
          /\ proc'[p].ids = proc[p].ids \ {s} /\ proc[p].step = "planning"
          /\ proc'[p].session = s /\ s \in proc[p].ids
      BY <1>0, <2>4, <3>1 DEF Record, Probe, At, Newest
    <3>3. PlansKeep(p) /\ pass' = p
      BY <1>0, <2>4, <3>2 DEF PassOf, Passing, Probe
    <3>4. PlansKeep(p)'
      BY <1>0, <3>2, <3>3, PlanKept DEF Working
    <3> QED
      BY <3>2, <3>3, <3>4 DEF PassOf, Passing, At
  <2>5. CASE Unprobe(p)
    <3>1. proc'[p] = [proc[p] EXCEPT !.step = "planning", !.session = 0,
                            !.found = @ \cup Candidate(proc[p].session)]
      BY <2>5, OthersRecords DEF Unprobe
    <3>2. /\ proc'[p].step = "planning" /\ proc'[p].ids = proc[p].ids
          /\ proc'[p].found = proc[p].found \cup Candidate(proc[p].session)
          /\ proc[p].step = "probing"
      BY <1>0, <2>5, <3>1 DEF Record, Unprobe, At
    <3>3. PlansKeep(p) /\ pass' = p /\ Candidate(proc[p].session) \subseteq {proc[p].session}
      BY <1>0, <2>5, <3>2 DEF PassOf, Passing, Unprobe, Candidate
    <3>4. PlansKeep(p)'
      BY <1>0, <3>2, <3>3, PlanKept DEF Working
    <3> QED
      BY <3>2, <3>3, <3>4 DEF PassOf, Passing, At
  <2>6. CASE Plan(p)
    <3>1. PICK victims \in SUBSET proc[p].found :
        proc'[p] = [proc[p] EXCEPT !.step = "applying", !.ids = victims, !.found = {}]
      BY <2>6, OthersRecords DEF Plan
    <3>2. /\ proc'[p].step = "applying" /\ proc'[p].ids = victims /\ proc'[p].found = {}
          /\ proc[p].step = "planning"
      BY <1>0, <2>6, <3>1 DEF Record, Plan, At
    <3>3. PlansKeep(p) /\ pass' = p
      BY <1>0, <2>6, <3>2 DEF PassOf, Passing, Plan
    <3>4. PlansKeep(p)'
      BY <1>0, <3>2, <3>3, PlanKept DEF Working
    <3> QED
      BY <3>2, <3>3, <3>4 DEF PassOf, Passing, At
  <2>7. CASE SkipVictim(p)
    <3>1. PICK s \in Sessions : proc'[p] = [proc[p] EXCEPT !.ids = @ \ {s}]
      BY <2>7, OthersRecords DEF SkipVictim
    <3>2. /\ proc'[p].step = "applying" /\ proc'[p].found = proc[p].found
          /\ proc'[p].ids = proc[p].ids \ {s} /\ proc[p].step = "applying"
      BY <1>0, <2>7, <3>1 DEF Record, SkipVictim, At
    <3>3. PlansKeep(p) /\ pass' = p /\ proc[p].found = {}
      BY <1>0, <2>7, <3>2 DEF PassOf, Passing, SkipVictim
    <3>4. PlansKeep(p)'
      BY <1>0, <3>2, <3>3, PlanKept DEF Working
    <3> QED
      BY <3>2, <3>3, <3>4 DEF PassOf, Passing, At
  <2>8. CASE ClaimVictim(p)
    <3>1. PICK s \in Sessions :
            /\ Oldest(s, proc[p].ids)
            /\ proc'[p] = [proc[p] EXCEPT !.step = "removing", !.session = s,
                                          !.ids = @ \ {s}, !.todo = Parts]
      BY <2>8, OthersRecords DEF ClaimVictim
    <3>2. /\ proc'[p].step = "removing" /\ proc'[p].found = proc[p].found
          /\ proc'[p].ids = proc[p].ids \ {s} /\ proc[p].step = "applying"
          /\ proc'[p].session = s /\ s \in proc[p].ids
      BY <1>0, <2>8, <3>1 DEF Record, ClaimVictim, At, Oldest
    <3>3. PlansKeep(p) /\ pass' = p /\ proc[p].found = {}
      BY <1>0, <2>8, <3>2 DEF PassOf, Passing, ClaimVictim
    <3>4. PlansKeep(p)'
      BY <1>0, <3>2, <3>3, PlanKept DEF Working
    <3>5. \A t \in proc'[p].ids : s < t
      BY <1>0, <3>1, <3>2 DEF Oldest, Record, Sessions
    <3> QED
      BY <3>2, <3>3, <3>4, <3>5 DEF PassOf, Passing, At
  <2>9. CASE ReleaseVictim(p)
    <3>1. proc'[p] = [proc[p] EXCEPT !.step = "applying", !.session = 0]
      BY <2>9, OthersRecords DEF ReleaseVictim
    <3>2. /\ proc'[p].step = "applying" /\ proc'[p].found = proc[p].found
          /\ proc'[p].ids = proc[p].ids /\ proc[p].step = "removing"
      BY <1>0, <2>9, <3>1 DEF Record, ReleaseVictim, At
    <3>3. PlansKeep(p) /\ pass' = p /\ proc[p].found = {}
      BY <1>0, <2>9, <3>2 DEF PassOf, Passing, ReleaseVictim
    <3>4. PlansKeep(p)'
      BY <1>0, <3>2, <3>3, PlanKept DEF Working
    <3> QED
      BY <3>2, <3>3, <3>4 DEF PassOf, Passing, At
  <2>10. CASE Mint(p)
    <3>1. proc'[p].step = "making"
      BY <1>0, <2>10, OthersRecords DEF Mint, Record
    <3> QED
      BY <3>1 DEF PassOf, Passing, At
  <2> QED
    BY <2>1, <2>2, <2>3, <2>4, <2>5, <2>6, <2>7, <2>8, <2>9, <2>10
<1> QED
  BY <1>3, <1>4 DEF PassInv

LEMMA RemovePartKeeps ==
  ASSUME IInv, PassInv, NEW p \in Procs, RemovePart(p)
  PROVE  PassInv'
<1>0. proc[p] \in Record /\ PassOf(p) /\ At(p, "removing") /\ pass = p /\ pass' = p
  BY RecordTyped DEF IInv, PassInv, PassOf, Passing, At, RemovePart
<1>1. PICK part \in proc[p].todo :
        /\ files' = [files EXCEPT ![proc[p].session] = @ \ {part}]
        /\ Set(p, [proc[p] EXCEPT !.todo = @ \ {part}])
  BY DEF RemovePart
<1>2. /\ proc'[p] = [proc[p] EXCEPT !.todo = @ \ {part}]
      /\ \A q \in Procs \ {p} : proc'[q] = proc[q]
  BY <1>1, OthersRecords
<1>3. /\ proc'[p].step = "removing" /\ proc'[p].session = proc[p].session
      /\ proc'[p].ids = proc[p].ids /\ proc'[p].found = proc[p].found
  BY <1>0, <1>2 DEF Record, At
<1>4. \A q \in Procs \ {p} : PassOf(q)'
  <2> SUFFICES ASSUME NEW q \in Procs \ {p} PROVE PassOf(q)'
    OBVIOUS
  <2>1. PassOf(q) /\ ~Passing(q)
    BY <1>0 DEF PassInv, PassOf
  <2> QED
    BY <1>2, <2>1, BystanderKept
<1>5. PassOf(p)'
  <2> DEFINE s == proc[p].session
  <2>1. /\ s \in Sessions /\ proc[p].ids \subseteq Sessions /\ proc[p].found = {}
        /\ \A t \in proc[p].ids : s < t /\ Enough(t)
        /\ Enough(s)
    BY <1>0 DEF IInv, Inv, SessionNamed, Named, At, Record, PassOf, Passing, PlansKeep,
                Working
  <2>2. \A t \in Sessions : t # s => files'[t] = files[t]
    BY <1>1, <2>1 DEF IInv, TypeOK
  <2>3. \A t \in {s} \cup proc[p].ids : \A u \in Sessions :
          u > t /\ "log" \in files[u] => "log" \in files'[u]
    BY <2>1, <2>2 DEF Sessions
  <2>4. \A t \in {s} \cup proc[p].ids : Enough(t)'
    BY <2>1, <2>3, EnoughKept
  <2>5. PlansKeep(p)'
    BY <1>3, <2>1, <2>4 DEF PlansKeep
  <2> QED
    BY <1>0, <1>3, <2>1, <2>5 DEF PassOf, Passing, At
<1> QED
  BY <1>4, <1>5 DEF PassInv

\* The steps of begin, resume and close, which are no part of a pass.
LEMMA SessionStep ==
  ASSUME IInv, PassInv, NEW p \in Procs,
         \/ ReadHeader(p) \/ EnsureDirs(p) \/ Acquire(p) \/ Busy(p) \/ Check(p)
         \/ Create(p) \/ Opened(p) \/ Close(p) \/ Crash(p)
  PROVE  PassInv'
<1>0. proc[p] \in Record /\ PassOf(p)
  BY RecordTyped DEF IInv, PassInv
<1>1. \A q \in Procs \ {p} : proc'[q] = proc[q]
  BY DEF ReadHeader, EnsureDirs, Acquire, Busy, Check, Create, Opened, Close, Crash,
         Set, IInv, TypeOK
<1>2. \A t \in Sessions : "log" \in files[t] => "log" \in files'[t]
  <2>1. CASE EnsureDirs(p) \/ Create(p)
    <3>1. PICK part : files' = [files EXCEPT ![proc[p].session] = @ \cup {part}]
      BY <2>1 DEF EnsureDirs, Create
    <3> QED
      BY <3>1 DEF IInv, TypeOK
  <2>2. CASE ~(EnsureDirs(p) \/ Create(p))
    BY <2>2 DEF ReadHeader, Acquire, Busy, Check, Opened, Close, Crash
  <2> QED
    BY <2>1, <2>2
<1>3. \A q \in Procs \ {p} : Passing(q) => pass' = pass
  BY DEF ReadHeader, EnsureDirs, Acquire, Busy, Check, Create, Opened, Close, Crash,
         PassInv, PassOf
<1>4. \A q \in Procs \ {p} : PassOf(q)'
  BY <1>1, <1>2, <1>3, BystanderKept DEF PassInv
<1>5. proc'[p].step \in {"idle", "making", "acquiring", "checking", "creating", "open"}
  <2>1. CASE ReadHeader(p)
    <3>1. PICK t \in Listed : Set(p, [Idle EXCEPT !.step = "making", !.session = t])
      BY <2>1 DEF ReadHeader
    <3>2. proc'[p] = [Idle EXCEPT !.step = "making", !.session = t]
      BY <3>1, OthersRecords
    <3> QED
      BY <3>2 DEF Idle
  <2>2. CASE EnsureDirs(p) \/ Acquire(p) \/ Opened(p)
    BY <1>0, <2>2 DEF EnsureDirs, Acquire, Opened, Set, IInv, TypeOK, Record
  <2>3. CASE Busy(p) \/ Close(p) \/ Crash(p)
    BY <2>3 DEF Busy, Close, Crash, Set, IInv, TypeOK, Idle
  <2>4. CASE Check(p)
    <3>1. CASE LogAsExpected(p)
      <4>1. PICK todo : Set(p, [proc[p] EXCEPT !.step = "creating", !.todo = todo])
        BY <2>4, <3>1 DEF Check
      <4>2. proc'[p] = [proc[p] EXCEPT !.step = "creating", !.todo = todo]
        BY <4>1, OthersRecords
      <4> QED
        BY <1>0, <4>2 DEF Record
    <3>2. CASE ~LogAsExpected(p)
      <4>1. proc'[p] = Idle
        BY <2>4, <3>2, OthersRecords DEF Check
      <4> QED
        BY <4>1 DEF Idle
    <3> QED
      BY <3>1, <3>2
  <2>5. CASE Create(p)
    BY <1>0, <2>5 DEF Create, At, Set, IInv, TypeOK, Record
  <2> QED
    BY <2>1, <2>2, <2>3, <2>4, <2>5
<1>6. PassOf(p)'
  BY <1>5 DEF PassOf, Passing, At
<1> QED
  BY <1>4, <1>6 DEF PassInv

LEMMA PassNext == IInv /\ PassInv /\ [Next]_vars => PassInv'
<1> SUFFICES ASSUME IInv, PassInv, [Next]_vars PROVE PassInv'
  OBVIOUS
<1>1. ASSUME NEW p \in Procs,
             StartNew(p) \/ ReadHeader(p) \/ Work(p) \/ Close(p) \/ Crash(p)
      PROVE  PassInv'
  BY <1>1, PassStep, RemovePartKeeps, SessionStep DEF Work
<1>2. CASE UNCHANGED vars
  <2>1. \A p \in Procs : PassOf(p)'
    BY <1>2, BystanderKept DEF vars, PassInv
  <2> QED
    BY <2>1 DEF PassInv
<1> QED
  BY <1>1, <1>2 DEF Next

LEMMA RemovalKeepsNewest == IInv /\ PassInv /\ [Next]_vars => NewestKept
<1> SUFFICES ASSUME IInv, PassInv, [Next]_vars, NEW s \in Sessions,
                    "log" \in files[s], "log" \notin files'[s]
             PROVE  Cardinality(Newer(s)) >= KeepNewest
  BY DEF NewestKept
<1>1. PICK p \in Procs : RemovePart(p)
  <2>1. files' # files
    OBVIOUS
  <2>2. PICK p \in Procs : RemovePart(p) \/ EnsureDirs(p) \/ Create(p)
    BY <2>1 DEF Next, Work, StartNew, List, SkipLeased, Probe, Unprobe, Plan, SkipVictim,
         ClaimVictim, ReleaseVictim, Mint, ReadHeader, Acquire, Busy, Check, Opened,
         Close, Crash, vars
  <2>3. ASSUME EnsureDirs(p) \/ Create(p) PROVE FALSE
    <3>1. PICK part : files' = [files EXCEPT ![proc[p].session] = @ \cup {part}]
      BY <2>3 DEF EnsureDirs, Create
    <3> QED
      BY <3>1 DEF IInv, TypeOK
  <2> QED
    BY <2>2, <2>3
<1>2. proc[p].session = s
  BY <1>1 DEF RemovePart, IInv, TypeOK
<1>3. Enough(s)
  BY <1>1, <1>2 DEF PassInv, PassOf, Passing, At, RemovePart, PlansKeep, Working
<1> QED
  BY <1>3 DEF Enough

\* A pass removes a session only while KeepNewest newer ones are there, whatever
\* processes resume, mint and create between its plan and the removal, and
\* wherever it dies (retention.rs: plan, apply).
THEOREM NewestKeptHolds == Spec => [][NewestKept]_vars
<1>1. IInv /\ PassInv /\ [Next]_vars => [NewestKept]_vars
  BY RemovalKeepsNewest
<1> QED
  BY InvInit, InvNext, PassInit, PassNext, <1>1, PTL DEF Spec
=============================================================================
