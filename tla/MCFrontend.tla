----------------------------- MODULE MCFrontend -----------------------------
(***************************************************************************)
(* What stands between rupi and what it did not write itself, each part on *)
(* its own; "part" says which of them moves.                               *)
(*                                                                         *)
(* A user: the interactive loop with one who types and interrupts, the     *)
(* editor under every intent, the streamed transcript under every kind of  *)
(* event, the command line.                                                *)
(*                                                                         *)
(* Files: importing a Pi file, exporting a session, the stamps both write, *)
(* a directory of imports, a replay of a session that is still live, and   *)
(* the grep tool's search of a directory with its globs.                   *)
(***************************************************************************)
EXTENDS Naturals, Sequences, TLC

VARIABLES part,
  file, damaged, odd, stage, path, plan, next, trace, log,
  events, request,
  day, date,
  work, filed, native, latest,
  seen, projected, owed, named, readings, branch,
  command, said,
  tree, limit, grepAt, todo, place, matches, flags, entries, skipped, longLines, expired, answer,
  pattern, fold,
  raw, hook, screen, row, above, draft, width, at, working, token, spent, flag,
  handler, turn, turns, begun, typed, session, printed, noted, pressed, exit,
  ed,
  options, block, outOpen, shown, chatter, fed, torn, stalled

\* Pi's file: two models, a call with and one without an id, blocks of every type.
NoCallId == "pi-import-without-id"
Block(type) == [type |-> type, call |-> NoCallId, name |-> ""]
Call(id, tool) == [type |-> "call", call |-> id, name |-> tool]
Saying(kind, blocks) ==
  [kind |-> kind, blocks |-> blocks, plain |-> FALSE, cut |-> FALSE, call |-> NoCallId,
   name |-> "", failed |-> FALSE, model |-> ""]
User(blocks) == Saying("user", blocks)
Reply(blocks, model) == [Saying("assistant", blocks) EXCEPT !.model = model]
Result(call, tool) ==
  [Saying("result", <<Block("text")>>) EXCEPT !.call = call, !.name = tool]

Ordinary ==
  {User(<<Block("text")>>),
   Reply(<<Block("text"), Call("c", "t")>>, "m1"),
   Result("c", "t")}
Unusual ==
  {Reply(<<Block("text")>>, "m1"),
   [User(<<Block("text")>>) EXCEPT !.plain = TRUE],
   User(<<>>),
   User(<<Block("text"), Block("text")>>),
   User(<<Block("image"), Block("bare image"), Block("other")>>),
   [Reply(<<Block("text")>>, "m2") EXCEPT !.plain = TRUE],
   Reply(<<Call("c", "t")>>, "m2"),
   Reply(<<Block("text"), Block("text")>>, "m1"),
   [User(<<Block("text"), Block("thinking"), Call("c", "t")>>) EXCEPT !.cut = TRUE],
   Reply(<<Block("thinking"), Block("image")>>, "m1"),
   [Reply(<<Block("text"), Block("blank thinking"), Block("unnamed call")>>, "") EXCEPT !.cut = TRUE],
   Reply(<<Block("thinking"), Block("text"), Call("c", "t"), Call("d", "t")>>, "m1"),
   Reply(<<Block("text"), Call(NoCallId, "t")>>, "m1"),
   Reply(<<Block("text"), Call("c", "t"), Call("c", "t")>>, "m1"),
   Result("d", "t"), Result("c", "u"), Result(NoCallId, "unknown"),
   [Result("c", "t") EXCEPT !.failed = TRUE, !.cut = TRUE],
   [Result("c", "t") EXCEPT !.blocks = <<Block("image"), Block("text")>>],
   [Result("c", "t") EXCEPT !.blocks = <<Block("thinking"), Block("text"), Call("c", "t")>>],
   [Saying("model_change", <<>>) EXCEPT !.model = "m2"], Saying("model_change", <<>>),
   Saying("compaction", <<>>), Saying("label", <<>>), Saying("session", <<>>)}
Sayings == Ordinary \cup Unusual
MaxEntries == 4
MaxOdd == 1

\* The exported session.
Models == {"m1", "m2"}
MaxEvents == 8
MaxUsers == 2

\* The years 1970 to 2101, a century without a leap day among them.
LastDay == 48000

\* The directory: two importers, one file that is no session, two of one id.
Importers == {"c1", "c2"}
Files == <<"a", "b", "c">>
Readable == {"a", "c"}
IdOf == [f \in {"a", "b", "c"} |-> IF f = "b" THEN 12 ELSE 11]
Imports == {11, 12}
MaxNative == 1

\* The replay.
Kinds == {"message", "reasoning", "tool"}
MaxTrace == 4
MaxBranch == 2

\* The command line: every command, and words that look like flags or have a
\* sign of equality.
Commands == {"run", "interactive", "trace", "replay", "import", "export", "skills", "prompts",
             "prompt", "packages", "trust", "compat"}
Flags ==
  {"-h", "--help", "--mistyped", "--config", "--cwd", "--prompt", "--resume", "--color", "--width",
   "--session", "--epoch", "--store", "--out", "--until", "--context-at", "--branch", "--compare",
   "--export", "--no-color", "--no-reasoning", "--verbose", "--quiet", "--silent", "--finalize",
   "--sequence", "--tools", "--reasoning", "--timing", "--json", "--write", "--project",
   "--control-prompt", "--no-prompt-templates", "--list", "--grant", "--deny", "--clear",
   "--trust-store", "--skill", "--show", "--prompt-template"}
For(names, words) == [f \in names |-> {<<w>> : w \in words}]
Values ==
  For({"--config"}, {"c", "--cwd", "-h"})
    @@ "--prompt" :> {<<"p">>, <<"">>, <<"--help">>, <<"--color", "x">>, <<"a", "b">>}
    @@ For({"--color"}, {"always", "never", "loud"})
    @@ For({"--width", "--epoch"}, {"80", "wide"})
    @@ For({"--resume", "--session", "--out"}, {"s", "--write"})
    @@ For({"--cwd", "--export", "--skill", "install", "--project"}, {"d", "--project"})
    @@ For({"--until", "--store", "--context-at", "--branch", "--compare", "--show",
            "--prompt-template", "--trust-store"}, {"d"})
    @@ "bare" :> {<<"b">>, <<"a", "b">>}
MaxExtra == 2

\* What searched files hold, how far a search goes, and what globs are put together from.
Bodies == {<<"hit">>, <<"miss", "hit">>, <<"hit", "binary", "hit">>, <<"long", "hit">>}
Limits == {2}
MaxDepth == 1
ScanLimit == 2
MaxNodes == 3
Pieces ==
  {<<"a">>, <<"A">>, <<"*">>, <<"?">>, <<"[", "a", "]">>, <<"[", "!", "a", "]">>, <<"[", "]">>,
   <<"{", "a", ",", "b", "}">>, <<"{", "a", ",", "a", "b", "}">>, <<"{", ",", "a", "}">>,
   <<"[">>, <<"{">>, <<"]">>}
MaxPieces == 3
Letters == {"a", "b", "A"}
MaxName == 3

\* The loop: two turns, drafts of up to two rows.
Drafts == {<<0>>, <<1>>, <<2>>, <<1, 1>>}
Widths == {1, 2}
MaxTyped == 1
MaxTurns == 2
MaxLines == 6

\* The editor: a slash and a wide letter make commands, two of which share a
\* prefix; "j" joins its neighbours into one cluster.
Typeable == {"/", " ", "W", "j"}
Pastes == {<< <<>> >>, << <<"W">>, <<"j">> >>, << <<>>, <<"/">>, <<>> >>}
Names == << <<"W">>, <<"W", "b">>, <<"a">> >>
EditorWidths == {2}
MaxText == 3
MaxPress == 4

\* The transcript: a width below the one decoration needs, and two above.
SurfaceWidths == {0, 3, 4, 6}
Label == 2
MinColumn == 5
Glyphs == {<<"x">>, <<"W">>, <<" ">>, <<"nl">>, <<"x", " ", "x">>}
MaxShown == 3
MaxRequest == 4

Loop == INSTANCE InteractiveLoop
Editor == INSTANCE LineEditor
Surface == INSTANCE LiveSurface
Typed == INSTANCE CommandLine
Import == INSTANCE PiImport WITH session <- filed
Export == INSTANCE PiExport
Views == INSTANCE ReplayViews WITH trace <- seen, log <- projected
Search == INSTANCE GrepSearch

loopVars == <<raw, hook, screen, row, above, draft, width, at, working, token, spent,
              flag, handler, turn, turns, begun, typed, session, printed, noted,
              pressed, exit>>
surfaceVars == <<options, block, outOpen, shown, chatter, fed, torn, stalled>>
lineVars == <<command, said>>
importVars == <<file, damaged, odd, stage, path, plan, next, trace, log>>
batchVars == <<work, filed, native, latest>>
exportVars == <<events, request>>
stampVars == <<day, date>>
viewVars == <<seen, projected, owed, named, readings, branch>>
searchVars ==
  <<tree, limit, grepAt, todo, place, matches, flags, entries, skipped, longLines, expired, answer>>
globVars == <<pattern, fold>>
userVars == <<loopVars, ed, surfaceVars, lineVars>>
recordVars == <<importVars, batchVars, exportVars, stampVars, viewVars>>
foundVars == <<searchVars, globVars>>
vars == <<part, userVars, recordVars, foundVars>>

\* A part that does not move has one state.
Init ==
  /\ part \in {"loop", "editor", "surface", "line", "import", "batch", "export", "stamps",
               "views", "search", "glob"}
  /\ Loop!Init /\ (part # "loop" => width = 1)
  /\ Editor!Init
  /\ Surface!Init
  /\ part # "surface" => options = [filter |-> "all", reasoning |-> TRUE, collapse |-> FALSE,
                                    width |-> 0]
  /\ Typed!Init /\ (part # "line" => command = "interactive")
  /\ Import!Init /\ Import!BatchInit /\ Export!Init /\ Export!StampInit /\ Views!Init
  /\ IF part = "search" THEN Search!Init
     ELSE /\ tree = <<>> /\ limit = 1 /\ grepAt = "done" /\ todo = <<>>
          /\ place = [node |-> 0, line |-> 1] /\ matches = <<>> /\ flags = {} /\ entries = 0
          /\ skipped = 0 /\ longLines = 0 /\ expired = {} /\ answer = Search!NoAnswer
  /\ IF part = "glob" THEN Search!GlobInit ELSE pattern = <<>> /\ fold = FALSE

UserNext ==
  \/ part = "loop" /\ Loop!Next /\ UNCHANGED <<ed, surfaceVars, lineVars>>
  \/ part = "editor" /\ Editor!Next /\ UNCHANGED <<loopVars, surfaceVars, lineVars>>
  \/ part = "surface" /\ Surface!Next /\ UNCHANGED <<loopVars, ed, lineVars>>
  \/ part = "line" /\ Typed!Next /\ UNCHANGED <<loopVars, ed, surfaceVars>>
RecordNext ==
  \/ part = "import" /\ Import!Next /\ UNCHANGED <<batchVars, exportVars, stampVars, viewVars>>
  \/ part = "batch" /\ Import!BatchNext
                    /\ UNCHANGED <<importVars, exportVars, stampVars, viewVars>>
  \/ part = "export" /\ Export!Next /\ UNCHANGED <<importVars, batchVars, stampVars, viewVars>>
  \/ part = "stamps" /\ Export!StampNext
                     /\ UNCHANGED <<importVars, batchVars, exportVars, viewVars>>
  \/ part = "views" /\ Views!Next /\ UNCHANGED <<importVars, batchVars, exportVars, stampVars>>
Next ==
  /\ UNCHANGED part
  /\ \/ UserNext /\ UNCHANGED <<recordVars, foundVars>>
     \/ RecordNext /\ UNCHANGED <<userVars, foundVars>>
     \/ /\ UNCHANGED <<userVars, recordVars>>
        /\ \/ part = "search" /\ Search!Next /\ UNCHANGED globVars
           \/ part = "glob" /\ Search!GlobNext /\ UNCHANGED searchVars

Spec == Init /\ [][Next]_vars

\* The properties of the modules, in groups: each is stated and explained in
\* its module.

\* The user's terminal is left as it was found and shows what there is; an interrupt
\* stops what it was meant for; a key does what it says to the draft; a thought is
\* shown whole; a flag means what its word says.
SessionHolds ==
  CASE part = "loop" ->
         /\ Loop!TypeOK /\ Loop!TurnOutputStays /\ Loop!FrameIsCounted /\ Loop!StopsOnlyItsOwn
         /\ Loop!InterruptReaches /\ Loop!TerminalIsRestored /\ Loop!ReadsRaw /\ Loop!EndIsHonest
    [] part = "editor" ->
         /\ Editor!TypeOK /\ Editor!RowsFit /\ Editor!DeletesAtTheCaret /\ Editor!DraftComesBack
         /\ Editor!TabWalks /\ Editor!UnchangedKeepsTheFrame
    [] part = "surface" -> /\ Surface!TypeOK /\ Surface!ThoughtIsWhole
                           /\ Surface!ThoughtIsLabelled /\ Surface!ThoughtFits
                           /\ Surface!ViewsAgree /\ Surface!QuietIsQuiet
    [] part = "line" -> Typed!TypeOK /\ Typed!MeansWhatItSays
    [] OTHER -> TRUE

\* A conversation keeps its words, its order and its losses counted on the way in and
\* out, a replay shows what the files had at that moment, and a search says what it
\* has not looked at.
RecordsHold ==
  CASE part = "import" -> /\ Import!TypeOK /\ Import!OneConversation /\ Import!ResumesUnlessKnown
                          /\ Import!TheirWords /\ Import!NothingIsSilent
    [] part = "batch" -> Import!BatchTypeOK /\ Import!SuccessIsWhole
    [] part = "export" -> /\ Export!TypeOK /\ Export!RoundTrip /\ Export!RoundTripResumes
                          /\ Export!NothingUncounted
    [] part = "stamps" -> Export!StampTypeOK /\ Export!StampsKeepOtherDays
    [] part = "views" -> /\ Views!TypeOK /\ Views!NothingFromLater /\ Views!MessagesHaveEvents
                         /\ Views!ComparisonIsExact
    [] part = "search" -> /\ Search!TypeOK /\ Search!NothingMissedSilently
                          /\ Search!AbsenceIsQualified /\ Search!InTreeOrder
    [] part = "glob" -> Search!SelectsWhatItMeans
    [] OTHER -> TRUE

\* No session that an import has claimed is claimed again: PiImport's ClaimedOnce.
ClaimsStand == [][Import!ClaimedOnce]_vars
=============================================================================
