------------------------------ MODULE MCFiles ------------------------------
(***************************************************************************)
(* What rupi keeps in files or reads from them, each kind checked on its   *)
(* own; "part" says which of them moves.                                   *)
(*                                                                         *)
(* Beside the logs: the payloads, whose texts have a credential inside one *)
(* of them, one split over two deltas, texts that fit a line and texts     *)
(* that do not, and arguments under a plain name and under a name with a   *)
(* slash in it; the checkpoints; the sessions of a state directory, which  *)
(* two processes share.                                                    *)
(*                                                                         *)
(* And what a user or a project adds by files: two sources share a         *)
(* destination; the scan meets a skill in every place where one may be or  *)
(* must not be looked for, with room for three files that load; the        *)
(* manifests have every kind of value before, between and behind the       *)
(* values that count.                                                      *)
(***************************************************************************)
EXTENDS SessionRetention, Sequences, SequencesExt, TLC

CONSTANTS
  Budget, MaxSpills, MaxLines, MaxStops,
  MaxCapsule, MaxCapsules, MaxCapsuleBytes, MaxRestarts,
  i1, i2, c1, c2, p1, p2, Nobody, NoName, NoScope

VARIABLES part,
  lines, buffer, records, intents, blobs, uprooted, doing, said, status, stops,
  saved, placed, unnamed, barriers, intent, making, outcome, phase, restarts,
  dirs, inst, removals, scan,
  file, disk, asker, acked, raced, asks, damages,
  reads, trusted, noStandard, skills, prompts, at,
  tree, manifest, error, read,
  text, package, inspected

\* Payloads and checkpoints.
Chunks == {<<"plain", "scheme">>, <<"value", "key">>}
Outputs == {<<"plain", "plain", "plain">>, <<"key">>}

Arg(path, what) == <<[path |-> path, text |-> what]>>
Arguments ==
  {Arg(<<<<"args">>, <<"file">>>>, <<"plain", "key">>),
   Arg(<<<<"args">>, <<"src", "file">>>>, <<"plain", "plain", "plain">>)}

Sizes == 1..3

\* Packages: "y" is declared under two names that share a directory.
Installers == {i1, i2}
Sources == {"whole", "twin", "bad"}
Manifest == [s \in Sources |-> IF s = "bad" THEN "fatal" ELSE "good"]
NameOf == [whole |-> "x/y", twin |-> "x__y", bad |-> "z"]
Files == [whole |-> <<"package.json", "skill">>, twin |-> <<"package.json">>,
          bad |-> <<"package.json">>]
DirOf == [n \in {"x/y", "x__y", "z"} |-> IF n = "z" THEN "z" ELSE "x__y"]
DirOrder == <<"x__y", "z">>
AgentRoot == "agent"
ProjectRoot == "root"
Globals == <<"agent", "user">>
Projects == <<"root">>
Linked == {"user"}
MaxRemovals == 1

\* Trust.
Commands == {c1, c2}
Scopes == {p1, p2}
MaxAsks == 1
MaxDamage == 1

\* Skills and templates.
SKILL == 5
Conventional == 3
MaxDepth == 1
Loaded == 3
Names == {"n1", "n2"}
Places == <<"flag", "pi", "agents", "installed", "near", "local", "bare">>
SourceOf == [flag |-> "explicit", pi |-> "global", agents |-> "global",
             installed |-> "global", near |-> "project", local |-> "project", bare |-> "project"]
FamilyOf == [flag |-> "pi", pi |-> "pi", agents |-> "agents",
             installed |-> "package", near |-> "pi", local |-> "package",
             bare |-> "package"]
Declared == [[p \in DOMAIN SourceOf |-> <<>>] EXCEPT !.installed = <<<<2>>, <<4>>>>]
Escapes == {<<4>>}
SkillFiles ==
  [flag |-> {<<SKILL>>, <<1>>},
   pi |-> {<<1>>, <<2, SKILL>>, <<2, 6>>, <<4, 1, 1, SKILL>>, <<4, 1, SKILL>>},
   agents |-> {<<1>>, <<2, 1>>},
   installed |-> {<<2, 1>>, <<4, SKILL>>},
   near |-> {<<1>>},
   local |-> {<<Conventional, 2, SKILL>>},
   bare |-> {<<SKILL>>}]
PromptFiles == [flag |-> {2}, pi |-> {1, 2}, agents |-> {}, installed |-> {1, 3},
                near |-> {3, 4}, local |-> {1}, bare |-> {}]

\* Manifests.
S(x) == [is |-> "string", of |-> x]
L == [is |-> "literal", of |-> ""]
A(items) == [is |-> "array", of |-> items]
O(pairs) == [is |-> "object", of |-> pairs]
P(key, value) == [key |-> key, value |-> value]
Small == {S("a"), S("surrogate pair"), L, A(<<>>), A(<<S("b")>>), O(<<>>), O(<<P("k", A(<<L>>))>>),
          A(<<A(<<>>), O(<<P("k", S("c"))>>)>>)}
Tails == {A(<<S("b")>>), A(<<A(<<>>), O(<<P("k", S("c"))>>)>>)}
Arrays == {A(<<u>>) : u \in Small} \cup {A(<<u, v>>) : u \in Small, v \in Tails}
Pis == {O(<<>>), L}
       \cup {O(<<P("prompts", v), P("skills", w)>>) : v \in Small, w \in Tails}
       \cup {O(<<P("other", v), P("skills", A(<<S("a"), S("b")>>))>>) : v \in Small}
Pairs == {P("name", v) : v \in Small} \cup {P("version", v) : v \in {S("a"), L}} \cup {P("pi", v) : v \in Pis}
         \cup {P("extensions", v) : v \in Arrays \cup {L}}
         \cup {P("x", v) : v \in Small \cup {A(<<S("surrogate pair")>>)}}
         \cup {P("surrogate pair", L)}
Seconds == {P("name", S("a")), P("name", L), P("description", S("b")), P("description", L), P("x", A(<<>>)),
            P("pi", O(<<P("prompts", A(<<S("b")>>)), P("skills", A(<<L, S("b")>>))>>)),
            P("pi", O(<<>>)), P("extensions", A(<<S("a"), S("b")>>)), P("extensions", L)}
Manifests == {<<>>} \cup {<<p>> : p \in Pairs} \cup {<<p, q>> : p \in Pairs, q \in Seconds}

\* Texts, and packages as compat looks at them.
MaxTextLines == 5
SkillPaths == {<<"skills", "SKILL.md">>, <<"skills", "a", "SKILL.md">>, <<"skills", "a.md">>,
               <<"skills", "a", "b", "SKILL.md">>, <<"SKILL.md">>, <<"a.md">>}
PromptPaths == {<<"prompts", "a.md">>, <<"prompts", ".a.md">>, <<"prompts", "a">>,
                <<"prompts", "sub", "a.md">>, <<"a.md">>}
ScriptPaths == {<<"extensions", "e.ts">>, <<"src", "e.ts">>, <<"src", "sub", "e.ts">>, <<"a.md">>}
DeclaredPaths == {<<"skills">>, <<"skills", "a">>, <<"a.md">>, <<"..">>, <<"prompts">>}
Outside == {<<"..">>}

Payloads == INSTANCE SessionPayloads
Checkpoints == INSTANCE CheckpointFiles WITH files <- saved
Packages == INSTANCE PackageInstall
Trust == INSTANCE TrustDecisions WITH proc <- asker
Scans == INSTANCE SurfaceScan
Compat == INSTANCE PackageInspection

payloadVars == <<lines, buffer, records, intents, blobs, uprooted, doing, said, status, stops>>
checkpointVars == <<saved, placed, unnamed, barriers, intent, making, outcome, phase, restarts>>
packageVars == <<dirs, inst, removals, scan>>
trustVars == <<file, disk, asker, acked, raced, asks, damages>>
scanVars == <<reads, trusted, noStandard, skills, prompts, at>>
readerVars == <<tree, manifest, error, read>>
compatVars == <<package, inspected>>
keptVars == <<payloadVars, checkpointVars, vars>>
addedVars == <<packageVars, trustVars, scanVars, readerVars, text, compatVars>>
filesVars == <<part, keptVars, addedVars>>

FilesInit ==
  /\ part \in {"payloads", "checkpoints", "retention",
               "packages", "trust", "scan", "manifest", "text", "compat"}
  /\ Payloads!Init /\ Checkpoints!Init /\ Init
  /\ Packages!Init /\ Trust!Init /\ Scans!Init /\ Compat!ManifestInit /\ Compat!TextInit /\ Compat!Init

FilesNext ==
  /\ UNCHANGED part
  /\ \/ /\ UNCHANGED addedVars
        /\ \/ part = "payloads" /\ Payloads!Next /\ UNCHANGED <<checkpointVars, vars>>
           \/ part = "checkpoints" /\ Checkpoints!Next /\ UNCHANGED <<payloadVars, vars>>
           \/ part = "retention" /\ Next /\ UNCHANGED <<payloadVars, checkpointVars>>
     \/ /\ UNCHANGED keptVars
        /\ \/ /\ part = "packages" /\ Packages!Next
              /\ UNCHANGED <<trustVars, scanVars, readerVars, text, compatVars>>
           \/ /\ part = "trust" /\ Trust!Next
              /\ UNCHANGED <<packageVars, scanVars, readerVars, text, compatVars>>
           \/ /\ part = "scan" /\ Scans!Next
              /\ UNCHANGED <<packageVars, trustVars, readerVars, text, compatVars>>
           \/ /\ part = "manifest" /\ Compat!ManifestNext
              /\ UNCHANGED <<packageVars, trustVars, scanVars, text, compatVars>>
           \/ /\ part = "text" /\ Compat!TextNext
              /\ UNCHANGED <<packageVars, trustVars, scanVars, readerVars, compatVars>>
           \/ /\ part = "compat" /\ Compat!Next
              /\ UNCHANGED <<packageVars, trustVars, scanVars, readerVars, text>>

\* Only the processes that share a state directory are promised anything: this is
\* Fairness of SessionRetention.
FilesFairness == \A p \in Procs : WF_vars(part = "retention" /\ Work(p))
FilesSpec == FilesInit /\ [][FilesNext]_filesVars /\ FilesFairness

\* The properties of the modules, in groups: each is stated and explained in
\* its module; OpenSessionIntact is SessionRetention's own.

\* After every step what rupi keeps is there as it was written and only what may be there: no
\* reference without its payload, no secret in a line, no line and no checkpoint
\* beyond its limit, a lease for exactly the session that is worked on, packages
\* that are whole, found and reported, and a recorded trust decision.
Kept ==
  CASE part = "payloads" ->
         /\ Payloads!TypeOK /\ Payloads!NothingDangles /\ Payloads!RefusedForCause
         /\ Payloads!SecretsStayOut /\ Payloads!LinesBounded
    [] part = "checkpoints" -> Checkpoints!BarriersHold /\ Checkpoints!PublishedOnce
    [] part = "retention" -> TypeOK /\ LeaseMatchesWork
    [] part = "packages" -> /\ Packages!TypeOK /\ Packages!InstalledIsWhole
                            /\ Packages!StandingIsReported /\ Packages!LeftoverNeverShadows
    [] part = "trust" -> Trust!TypeOK /\ Trust!RecordedStays
    [] OTHER -> TRUE

\* and the step has taken nothing of it away: the newest sessions stay, an installed package
\* is not overwritten, a denial is not undone by anything but a decision.
NothingTaken ==
  CASE part = "retention" -> NewestKept
    [] part = "packages" -> Packages!NeverOverwritten
    [] part = "trust" -> Trust!DenialWins
    [] OTHER -> TRUE

FilesHold == [][Kept' /\ NothingTaken]_filesVars

\* Every command of the processes that share a state directory ends.
RetentionEnds == part = "retention" => CommandsEnd

\* What is declared is what is used: the first of two skills or templates of a
\* name, the manifest, the fields and the body of a text, what compat reports.
DeclarationsAreRead ==
  CASE part = "scan" -> Scans!TypeOK /\ Scans!FirstFoundWins /\ Scans!TemplateIsFirst
    [] part = "manifest" -> Compat!ManifestTypeOK /\ Compat!ManifestIsRead
    [] part = "text" -> /\ Compat!TextTypeOK /\ Compat!FieldsAreDeclared
                        /\ Compat!TemplateVerdictIsExact /\ Compat!SkillAlarmIsReal
    [] part = "compat" -> /\ Compat!TypeOK /\ Compat!NotPresentIsAbsent
                          /\ Compat!SupportedIsActivated
    [] OTHER -> TRUE
=============================================================================
