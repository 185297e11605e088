----------------------------- MODULE CommandLine -----------------------------
(***************************************************************************)
(* The command line of rupi (cli.rs): each command reads its words from    *)
(* left to right, a flag that takes a value takes the next word, and some  *)
(* commands split "--flag=value" first.  What a line means is also said    *)
(* here without an order, from what the user put on it.                    *)
(*                                                                         *)
(* A word is the sequence of its parts between the signs of equality:      *)
(* <<"--prompt", "a", "b">> is --prompt=a=b.                               *)
(***************************************************************************)
EXTENDS Naturals, FiniteSets, Sequences, SequencesExt, TLC

CONSTANTS
  Commands,   \* the commands looked at
  Flags,      \* the words that start with a dash: every flag and one more
  Values,     \* flag -> the words a user may give it
  MaxExtra    \* bound on what is said beyond what the command needs

VARIABLES command, said   \* the command and what the user put behind it

lineVars == <<command, said>>

Helps == {"-h", "--help"}
Mistyped == "--mistyped"
Empty(word) == word = <<"">>

-----------------------------------------------------------------------------
(* What each command takes.  A slot may be set once, or again when both    *)
(* agree, or again with the last word standing, or every time.             *)

Taking(slot, twice, accepts) == [slot |-> slot, twice |-> twice, accepts |-> accepts]
Setting(slot, twice, value) == [slot |-> slot, twice |-> twice, value |-> <<value>>]

Surface ==
  "--color" :> Taking("color", "agree", "color") @@ "--width" :> Taking("width", "once", "number")
SurfaceSwitches ==
  "--no-color" :> Setting("color", "agree", "never")
    @@ "--no-reasoning" :> Setting("reasoning", "last", "no")
    @@ "--verbose" :> Setting("diagnostics", "agree", "all")
    @@ "--quiet" :> Setting("diagnostics", "agree", "warnings")
    @@ "--silent" :> Setting("diagnostics", "agree", "none")
Trusting == "--trust-store" :> Taking("trust store", "last", "undashed")
Project == "--project" :> Setting("project", "last", "yes")
On(flags) == [f \in flags |-> Setting(f, "last", "yes")]
Of(flags, twice, accepts) == [f \in flags |-> Taking(f, twice, accepts)]
NoBare == ""

RunLine ==
  [valued |-> Surface @@ Of({"--config", "--cwd", "--prompt"}, "once", "anything")
                @@ Of({"--resume"}, "once", "text"),
   switches |-> SurfaceSwitches @@ On({"--finalize"}),
   bare |-> NoBare, needs |-> {"--config", "--cwd", "--prompt"}]
InteractiveLine ==
  [valued |-> Of({"--config", "--cwd"}, "once", "anything"), switches |-> <<>>,
   bare |-> NoBare, needs |-> {"--config", "--cwd"}]
TraceLine ==
  [valued |-> Surface @@ Of({"--config", "--session"}, "once", "anything")
                @@ Of({"--epoch"}, "once", "number"),
   switches |-> SurfaceSwitches @@ On({"--sequence"})
                  @@ "--tools" :> Setting("category", "agree", "tools")
                  @@ "--reasoning" :> Setting("category", "agree", "reasoning"),
   bare |-> "id", needs |-> {"--config"}]
ReplayLine ==
  [valued |-> Of({"--until", "--context-at", "--branch", "--compare", "--export"}, "once", "text"),
   switches |-> On({"--tools", "--reasoning", "--timing", "--json", "--sequence"}),
   bare |-> "input", needs |-> {"input"}]
ImportLine ==
  [valued |-> Of({"--store", "--config"}, "once", "text"), switches |-> On({"--write"}),
   bare |-> "path", needs |-> {"path"}]
ExportLine ==
  [valued |-> Of({"--config", "--out"}, "once", "text"), switches |-> <<>>,
   bare |-> "session", needs |-> {"session", "--config"}]
SkillsLine ==
  [valued |-> Trusting @@ Of({"--skill"}, "every", "undashed") @@ Of({"--show"}, "last", "undashed"),
   switches |-> Project @@ On({"--control-prompt"}), bare |-> NoBare, needs |-> {}]
PromptsLine ==
  [valued |-> Trusting @@ Of({"--prompt-template"}, "every", "undashed"),
   switches |-> Project @@ On({"--no-prompt-templates"}), bare |-> NoBare, needs |-> {}]
PromptLine == [PromptsLine EXCEPT !.bare = "name", !.needs = {"name"}]
PackagesLine ==
  [valued |-> Trusting @@ Of({"--show"}, "last", "undashed") @@ Of({"install"}, "once", "undashed"),
   switches |-> Project, bare |-> NoBare, needs |-> {}]
TrustLine ==
  [valued |-> Of({"--store", "--project"}, "last", "undashed"),
   switches |-> [f \in {"--list", "--grant", "--deny", "--clear"} |-> Setting("action", "once", f)],
   bare |-> NoBare, needs |-> {"--store", "action"}]
CompatLine ==
  [valued |-> Trusting, switches |-> Project @@ On({"--json"}), bare |-> "target",
   needs |-> {"target"}]

Takes(c) ==
  CASE c = "run" -> RunLine [] c = "interactive" -> InteractiveLine [] c = "trace" -> TraceLine
    [] c = "replay" -> ReplayLine [] c = "import" -> ImportLine [] c = "export" -> ExportLine
    [] c = "skills" -> SkillsLine [] c = "prompts" -> PromptsLine [] c = "prompt" -> PromptLine
    [] c = "packages" -> PackagesLine [] c = "trust" -> TrustLine [] c = "compat" -> CompatLine
Valued(c) == Takes(c).valued
Switches(c) == Takes(c).switches

\* Commands that split a word, and that look for help before anything else.
Splitting == {"run", "interactive", "trace", "replay", "import", "export"}
Split == {"--config", "--cwd", "--prompt", "--resume", "--color", "--width", "--session",
          "--epoch", "--store", "--out", "--until", "--context-at", "--branch", "--compare",
          "--export"}

Dashed(word) == word[1] \in Flags

Colors == {<<"auto">>, <<"always">>, <<"never">>}
Numbers == {<<"0">>, <<"80">>}
Accepted(accepts, word) ==
  CASE accepts = "anything" -> TRUE
    [] accepts = "undashed" -> ~Dashed(word)
    [] accepts = "text" -> ~Dashed(word) /\ ~Empty(word)
    [] accepts = "color" -> word \in Colors
    [] accepts = "number" -> word \in Numbers

\* What is asked of the whole line.
Complete(c, slots) ==
  LET set(s) == slots[s] # <<>>
  IN /\ \A s \in Takes(c).needs : set(s)
     /\ c = "run" => slots["--prompt"] # << <<"">> >> /\ (set("--finalize") => set("--resume"))
     /\ c = "packages" => ~(set("--show") /\ set("install"))
     /\ c = "trust" => (set("--project") <=> slots["action"] # << <<"--list">> >>)
     /\ c = "import" => (set("--write") => set("--store") \/ set("--config"))
     /\ c = "export" => slots["session"] # << <<"">> >>

-----------------------------------------------------------------------------
(* The parser.                                                             *)

SlotsIn(takes) ==
  {flag.slot : flag \in Range(takes.valued) \cup Range(takes.switches)}
    \cup (IF takes.bare # NoBare THEN {takes.bare, "arguments"} ELSE {})
SlotsOf(c) == SlotsIn(Takes(c))
Nothing(c) == [s \in SlotsOf(c) |-> <<>>]

Refused == [answer |-> "refused", slots |-> <<>>]
Help == [answer |-> "help", slots |-> <<>>]
Reading(slots, wants) == [answer |-> "reading", slots |-> slots, wants |-> wants]

Expanded(c, words) ==
  IF c \notin Splitting THEN words
  ELSE FoldLeft(LAMBDA line, w :
                  IF Len(w) > 1 /\ w[1] \in Split THEN line \o << <<w[1]>>, Tail(w) >>
                  ELSE Append(line, w),
                <<>>, words)

\* set_once, set_choice, and the slots without either.
Stored(slots, slot, twice, word) ==
  LET held == slots[slot]
  IN IF held # <<>> /\ (twice = "once" \/ (twice = "agree" /\ held # <<word>>)) THEN Refused
     ELSE Reading([slots EXCEPT ![slot] = IF twice = "every" THEN Append(@, word) ELSE <<word>>], "")

\* A word that stands where a flag or a bare word may
ReadPlain(c, takes, slots, word, flag, whole) ==
  CASE c = "prompt" /\ slots["name"] # <<>> -> Stored(slots, "arguments", "every", word)
    [] whole /\ flag \in Helps /\ c \notin Splitting -> Help
    [] whole /\ flag \in DOMAIN takes.valued -> Reading(slots, flag)
    [] whole /\ flag \in DOMAIN takes.switches ->
         LET s == takes.switches[flag] IN Stored(slots, s.slot, s.twice, s.value)
    [] takes.bare # NoBare /\ ~Dashed(word) ->
         IF c = "trace" /\ slots["--session"] # <<>> THEN Refused
         ELSE Stored(slots, takes.bare, "once", word)
    [] OTHER -> Refused

ReadValue(taking, slots, word) ==
  IF Accepted(taking.accepts, word) THEN Stored(slots, taking.slot, taking.twice, word) ELSE Refused

ReadWord(c, takes, state, word) ==
  IF state.answer # "reading" THEN state
  ELSE IF state.wants # "" THEN ReadValue(takes.valued[state.wants], state.slots, word)
  ELSE ReadPlain(c, takes, state.slots, word, word[1], Len(word) = 1)

\* A session named by its flag stands before one named by a bare word.
Resolved(c, slots) ==
  IF c # "trace" THEN slots
  ELSE [slots EXCEPT !["--session"] = IF @ # <<>> THEN @ ELSE slots["id"], !["id"] = <<>>]

ReadWords(c, takes, words) ==
  FoldLeft(LAMBDA state, w : ReadWord(c, takes, state, w), Reading(Nothing(c), ""), words)

Answered(c, end) ==
  IF end.answer # "reading" THEN end
  ELSE IF end.wants # "" \/ ~Complete(c, end.slots) THEN Refused
  ELSE [answer |-> "accepted", slots |-> Resolved(c, end.slots)]

Parse(c, words) ==
  IF c \in Splitting /\ \E k \in DOMAIN words : words[k] \in {<<h>> : h \in Helps} THEN Help
  ELSE Answered(c, ReadWords(c, Takes(c), Expanded(c, words)))
-----------------------------------------------------------------------------
(* The user, who puts one thing after another on the line.                 *)

Apart(flag, word) == [form |-> "apart", flag |-> flag, word |-> word]
Alone(flag) == [form |-> "alone", flag |-> flag, word |-> <<>>]
Word(word) == [form |-> "bare", flag |-> "", word |-> word]

WordsOf(thing) ==
  CASE thing.form = "apart" -> << <<thing.flag>>, thing.word >>
    [] thing.form = "joined" -> << <<thing.flag>> \o thing.word >>
    [] thing.form = "alone" -> << <<thing.flag>> >>
    [] thing.form = "bare" -> << thing.word >>
Line(things) == FlattenSeq([k \in DOMAIN things |-> WordsOf(things[k])])

\* What the command cannot do without, so that what is said beyond it decides;
\* a prompt also in the other forms and words.
Starts(c) ==
  CASE c = "run" ->
         {<< Apart("--config", <<"c">>), Apart("--cwd", <<"w">>), [form |-> form, flag |-> "--prompt",
                                                                   word |-> w] >> :
            form \in {"apart", "joined"}, w \in Values["--prompt"]}
    [] c = "interactive" -> { << Apart("--config", <<"c">>) >> }
    [] c \in {"trace", "export"} -> { << Apart("--config", <<"c">>) >> }
    [] c = "trust" -> { << Apart("--store", <<"s">>) >> }
    [] OTHER -> { <<>> }

Init == command \in Commands /\ said \in Starts(command)

Beyond == Len(said) - Len(CHOOSE start \in Starts(command) : TRUE)

Say(thing) ==
  /\ Beyond < MaxExtra
  /\ said' \in {Append(said, thing), <<thing>> \o said}
  /\ UNCHANGED command

Next ==
  \/ \E f \in DOMAIN Valued(command) :
       \E w \in Values[f], form \in {"apart", "joined"} :
         Say([form |-> form, flag |-> f, word |-> w])
  \/ \E f \in DOMAIN Switches(command) \cup {"--help", Mistyped} : Say(Alone(f))
  \/ \E w \in Values["bare"] : Say(Word(w))

Spec == Init /\ [][Next]_lineVars

-----------------------------------------------------------------------------
TypeOK ==
  /\ command \in Commands
  /\ Parse(command, Line(said)).answer \in {"accepted", "refused", "help"}

\* Everything behind the name of a template is the template's.
Own ==
  LET names == {k \in DOMAIN said : said[k].form = "bare"}
  IN IF command # "prompt" \/ names = {} THEN said
     ELSE SubSeq(said, 1, CHOOSE k \in names : \A l \in names : k <= l)
Arguments == SubSeq(said, Len(Own) + 1, Len(said))

\* What one thing sets: a slot, how it may be set twice, and the word.
SetsIn(takes, thing) ==
  CASE thing.form \in {"apart", "joined"} /\ (thing.form = "apart" \/ command \in Splitting) ->
         LET v == takes.valued[thing.flag]
         IN IF Accepted(v.accepts, thing.word) THEN {<<v.slot, v.twice, thing.word>>} ELSE {}
    [] thing.form = "alone" /\ thing.flag \in DOMAIN takes.switches ->
         LET s == takes.switches[thing.flag] IN {<<s.slot, s.twice, s.value>>}
    [] thing.form = "bare" /\ takes.bare # NoBare ->
         {<<IF command = "trace" THEN "--session" ELSE takes.bare, "once", thing.word>>}
    [] OTHER -> {}
Sets(thing) == SetsIn(Takes(command), thing)

AsksForHelp == \E k \in DOMAIN Own : Own[k] = Alone("--help")

\* The meaning of a line, whatever the order: refused when a thing on it means
\* nothing to the command, when two disagree or one may be said only once, or
\* when something is missing; otherwise every slot holds what was said of it.
Told(sets, s) == {k \in DOMAIN sets : \E x \in sets[k] : x[1] = s}
Only(set) == CHOOSE x \in set : TRUE
Twice(set) == Only(set)[2]
WordIn(set) == Only(set)[3]
Clash(one, other) ==
  \/ Twice(one) = "once"
  \/ Twice(one) = "agree" /\ WordIn(one) # WordIn(other)

\* The words said for a slot, and what it holds after them
Held(sets, told, ordered) ==
  IF told = {} THEN <<>>
  ELSE IF \E k \in told : Twice(sets[k]) = "every"
    THEN [k \in DOMAIN ordered |-> WordIn(sets[ordered[k]])]
  ELSE << WordIn(sets[Last(ordered)]) >>
Holding(sets, told) == Held(sets, told, SetToSortSeq(told, <))
SlotsFrom(sets) ==
  [s \in SlotsOf(command) |->
     IF s = "arguments" THEN Line(Arguments) ELSE Holding(sets, Told(sets, s))]

MeaningOf(sets, slots) ==
  IF \/ \E k \in DOMAIN sets : sets[k] = {}
     \/ \E s \in SlotsOf(command) :
          \E j, k \in Told(sets, s) : j # k /\ Clash(sets[j], sets[k])
    THEN Refused
  ELSE IF ~Complete(command, slots) THEN Refused
  ELSE [answer |-> "accepted", slots |-> slots]
Intended(sets) == MeaningOf(sets, SlotsFrom(sets))
Meaning == IF AsksForHelp THEN Help ELSE Intended([k \in DOMAIN Own |-> Sets(Own[k])])

\* The lines that are read as something else than what was put on them: a word
\* after a flag that asks for help or looks like a flag with its value, a flag
\* for a session after a bare one, and help after a fault.
ReadAsHelp(thing) == thing.form = "apart" /\ thing.word \in {<<h>> : h \in Helps}
ReadAsFlag(thing) == thing.form = "apart" /\ Len(thing.word) > 1 /\ thing.word[1] \in Split
NamedTwice ==
  command = "trace" /\ \E j, k \in DOMAIN said :
    j < k /\ said[j].form = "bare" /\ said[k].flag = "--session"
Misread ==
  \/ command \in Splitting /\ \E k \in DOMAIN said : ReadAsHelp(said[k]) \/ ReadAsFlag(said[k])
  \/ command \notin Splitting /\ AsksForHelp
  \/ NamedTwice

\* But for the lines Misread names, a line means what was put on it, in whatever order:
\* no value is taken for a flag, no flag for a value, nothing said is left out and
\* nothing is accepted that the command could not do; every value, also one that looks
\* like a flag, can be given, joined to its flag (parse and the parsers of the commands).
MeansWhatItSays == ~Misread => Parse(command, Line(said)) = Meaning
=============================================================================
