-------------------------- MODULE PackageInspection -------------------------
(***************************************************************************)
(* `rupi compat` of a package (compat.rs inspect_package): what it says of *)
(* the package's skills, templates and extensions after a look of its own  *)
(* at the directory, beside what the scans activate from the same package  *)
(* (skill.rs package_skills, prompt.rs package_prompts).                   *)
(*                                                                         *)
(* A file is its path below the package, a sequence of names, and what     *)
(* reading it gives.  What a frontmatter block says is in FrontMatter.     *)
(***************************************************************************)
EXTENDS Naturals, Sequences, FiniteSets, SequencesExt

CONSTANTS
  SkillPaths,      \* where the package may hold a skill, a path that ends in ".md"
  PromptPaths,     \* where it may hold a template, or a file beside one
  ScriptPaths,     \* where it may hold a script
  DeclaredPaths,   \* what its manifest may declare
  Outside          \* those of them that leave the package

VARIABLES package, inspected
vars == <<package, inspected>>

ManifestStates == {"good", "malformed", "unreadable", "missing"}
SKILL == "SKILL.md"
Declarations == {<<>>} \cup {<<p>> : p \in DeclaredPaths}
                \cup {<<p, q>> : p \in DeclaredPaths, q \in DeclaredPaths}
NoPackage == [manifest |-> "missing", files |-> <<>>, declares |-> <<>>, about |-> "skills"]
NoReport == [manifest |-> "none", surface |-> "none", count |-> 0, imports |-> FALSE]

Init == package = NoPackage /\ inspected = NoReport

\* What the author wrote.  Of a malformed manifest counts what stands before the error,
\* here one path at most; one that is missing, or there but unreadable, declares nothing.
Write(about, paths, contents) ==
  /\ package = NoPackage
  /\ \E there \in SUBSET paths, manifest \in ManifestStates :
       \E declares \in {d \in Declarations :
                         CASE manifest = "good" -> TRUE
                           [] manifest = "malformed" -> Len(d) <= 1
                           [] OTHER -> d = <<>>},
          files \in [there -> contents] :
         package' = [manifest |-> manifest, files |-> files, declares |-> declares, about |-> about]
  /\ package' # NoPackage /\ UNCHANGED inspected

-----------------------------------------------------------------------------
(* The directory.                                                          *)

Files == DOMAIN package.files
IsFile(path) == path \in Files
Under(dir) == {f \in Files : Len(f) > Len(dir) /\ SubSeq(f, 1, Len(dir)) = dir}
IsDir(path) == Under(path) # {}
Entries(dir) == {f[Len(dir) + 1] : f \in Under(dir)}
Child(dir, name) == dir \o <<name>>

\* safe_manifest_path of what is declared; else what convention offers.
Locations(conventional, file) ==
  IF package.declares # <<>> THEN SelectSeq(package.declares, LAMBDA d : d \notin Outside)
  ELSE IF IsDir(conventional) THEN <<conventional>>
  ELSE IF IsFile(file) THEN <<file>> ELSE <<>>
SkillLocations == Locations(<<"skills">>, <<SKILL>>)
PromptLocations == Locations(<<"prompts">>, <<>>)

Total(seq) == FoldLeft(LAMBDA a, b : a + b, 0, seq)

-----------------------------------------------------------------------------
(* inspect_package.                                                        *)

HasSkill(dir, name) ==
  (name = SKILL /\ IsFile(Child(dir, name))) \/ IsFile(Child(dir, name) \o <<SKILL>>)

SkillsAt(loc) ==
  IF IsFile(loc) THEN IF package.files[loc] = "whole" THEN 1 ELSE 0
  ELSE Cardinality({name \in Entries(loc) : HasSkill(loc, name)})

IsTemplate(dir, name) ==
  IsFile(Child(dir, name)) /\ name \in {"a.md", ".a.md"}

PromptsAt(loc) ==
  IF IsFile(loc) THEN IF package.files[loc] = "whole" THEN 1 ELSE 0
  ELSE Cardinality({name \in Entries(loc) : IsTemplate(loc, name)})

\* Declared files, and the files of three directories, but of none below.
Scripts ==
  {f \in Range(package.declares) \ Outside : IsFile(f)}
  \cup {f \in Files : Len(f) = 2 /\ f[1] \in {"extensions", "src", "dist"} /\ f[2] # "a.md"}

HasExtensions == package.declares # <<>> \/ IsDir(<<"extensions">>)

\* What the location holds decides only between supported and partial.
Counted(locations, count) ==
  [surface |-> CASE locations = <<>> -> "not present" [] count > 0 -> "supported" [] OTHER -> "partial",
   count |-> count, imports |-> FALSE]

Surface ==
  CASE package.about = "skills" ->
         Counted(SkillLocations, Total([k \in DOMAIN SkillLocations |-> SkillsAt(SkillLocations[k])]))
    [] package.about = "prompts" ->
         Counted(PromptLocations, Total([k \in DOMAIN PromptLocations |-> PromptsAt(PromptLocations[k])]))
    [] OTHER ->
         [surface |-> IF HasExtensions THEN "partial" ELSE "not present",
          count |-> IF HasExtensions THEN Cardinality(Scripts) ELSE 0,
          imports |-> HasExtensions /\ \E f \in Scripts : package.files[f] = "internal import"]

Inspect ==
  /\ package # NoPackage /\ inspected = NoReport
  /\ inspected' = [manifest |-> IF package.manifest \in {"good", "unreadable"}
                               THEN "supported" ELSE "unsupported",
                   surface |-> Surface.surface, count |-> Surface.count, imports |-> Surface.imports]
  /\ UNCHANGED package

-----------------------------------------------------------------------------
(* The scans.                                                              *)

\* The walk of a location: a directory with a SKILL.md is one skill and is not walked
\* further, a loose file is one at the location itself.
Walked(loc) ==
  {f \in Under(loc) :
     LET rel == SubSeq(f, Len(loc) + 1, Len(f)) IN
     /\ rel[Len(rel)] = SKILL \/ Len(rel) = 1
     /\ \A n \in 1..(Len(rel) - 2) : ~IsFile(loc \o SubSeq(rel, 1, n) \o <<SKILL>>)}

SkillFilesAt(loc) ==
  CASE IsFile(loc) -> {loc}
    [] IsFile(loc \o <<SKILL>>) -> {loc \o <<SKILL>>}
    [] OTHER -> Walked(loc)
TemplatesAt(loc) == IF IsFile(loc) THEN {loc} ELSE {f \in Under(loc) : f = loc \o <<"a.md">>}

\* A package without a manifest that can be read is not scanned.
Activated ==
  IF package.manifest # "good" THEN {}
  ELSE LET at(locations, filesAt(_)) == UNION {filesAt(locations[k]) : k \in DOMAIN locations}
           offered == IF package.about = "skills" THEN at(SkillLocations, SkillFilesAt)
                      ELSE at(PromptLocations, TemplatesAt)
       IN {f \in offered : package.files[f] = "whole"}

Next ==
  \/ Write("skills", SkillPaths, {"whole", "defective"})
  \/ Write("prompts", PromptPaths, {"whole", "defective"})
  \/ Write("extensions", ScriptPaths, {"tools only", "internal import"})
  \/ Inspect

-----------------------------------------------------------------------------
(* Properties.                                                             *)

TypeOK ==
  /\ package.manifest \in ManifestStates /\ package.declares \in Declarations
  /\ inspected.count \in 0..(2 * Cardinality(SkillPaths \cup PromptPaths \cup ScriptPaths))

Inspected(about) == inspected # NoReport /\ package.about = about

\* A surface that compat does not find activates nothing, and offers no extension to the
\* host: inspect_package looks for it with code of its own.
NotPresentIsAbsent ==
  inspected.surface = "not present" =>
    IF Inspected("extensions") THEN Locations(<<"extensions">>, <<>>) = <<>> ELSE Activated = {}

\* The known defect: a manifest that is there and cannot be read is called supported,
\* and the scan leaves the package out.
CalledReadable == package.manifest = "unreadable"

\* Of a package without a defective or hidden file, skills or templates that compat
\* calls supported under a supported manifest are there after the scan, but for that:
\* at least one of them, however the declared paths overlap.
SupportedIsActivated ==
  \A about \in {"skills", "prompts"} :
    /\ ~CalledReadable
    /\ Inspected(about) /\ inspected.manifest = "supported" /\ inspected.surface = "supported"
    /\ \A f \in Files : package.files[f] = "whole" /\ f[Len(f)] # ".a.md"
    => Activated # {}

-----------------------------------------------------------------------------
(***************************************************************************)
(* The block that opens a skill or a prompt template (frontmatter.rs), what *)
(* loading the file makes of it (skill.rs collect, prompt.rs load), and    *)
(* what `rupi compat` says of the same file without loading it (compat.rs). *)
(*                                                                         *)
(* A text is its lines, a line one of a few kinds.  A value is the sequence *)
(* of the words it keeps, empty when it says nothing.                      *)
(***************************************************************************)
CONSTANT MaxTextLines  \* bound: lines of a text

VARIABLE text

\* "---", the same indented, "name: x", "name: X", "description: d",
\* "description:", "description: |", an indented line that looks like a key, an
\* empty line, and any other line: a comment, prose, a key nobody reads.
Lines == {"fence", "indented fence", "name", "odd name", "description", "no description",
          "block", "indented name", "empty", "prose"}
Indented == {"indented fence", "indented name"}
KeyOf(line) == CASE line \in {"name", "odd name"} -> "name"
                 [] line \in {"description", "no description", "block"} -> "description"
                 [] OTHER -> "none"
Keys == {"name", "description"}
ValueOf(line) == IF line = "no description" THEN <<>> ELSE <<line>>
Undeclared == <<"undeclared">>
Words(lines) == SelectSeq(lines, LAMBDA line : line # "empty")

TextInit == text = <<>>

\* A file whose first line opens nothing is prose to the end.
AddLine ==
  /\ Len(text) < (IF text # <<>> /\ text[1] = "prose" THEN 2 ELSE MaxTextLines)
  /\ \E line \in IF text = <<>> THEN {"fence", "indented fence", "prose"} ELSE Lines :
       text' = Append(text, line)

TextNext == AddLine

-----------------------------------------------------------------------------
(* extract.                                                                *)

\* collecting: whether a block scalar still collects, and its lines so far.
Opened == [state |-> "malformed", fields |-> [k \in Keys |-> Undeclared],
           collecting |-> FALSE, lines |-> <<>>]

Closed(s) ==
  IF s.collecting
  THEN [s EXCEPT !.collecting = FALSE, !.fields.description = Words(s.lines)] ELSE s

\* A block scalar owns the indented lines that follow it and the empty ones between.
Collects(s, line) == s.collecting /\ line \in Indented \cup {"empty"}

ReadLine(s, line) ==
  CASE s.state = "found" -> s
    [] line = "fence" -> [Closed(s) EXCEPT !.state = "found"]
    [] Collects(s, line) -> [s EXCEPT !.lines = Append(@, line)]
    [] line = "block" -> [Closed(s) EXCEPT !.collecting = TRUE, !.lines = <<>>]
    [] KeyOf(line) # "none" -> [Closed(s) EXCEPT !.fields[KeyOf(line)] = ValueOf(line)]
    [] OTHER -> Closed(s)

\* [state: "found", "absent" or "malformed"; fields].
Extract(t) ==
  IF t = <<>> \/ t[1] # "fence" THEN [Opened EXCEPT !.state = "absent"]
  ELSE FoldLeft(ReadLine, Opened, Tail(t))

-----------------------------------------------------------------------------
(* strip: what a fence is, is decided after trimming on both sides.        *)

Fences(t) == {k \in 2..Len(t) : t[k] \in {"fence", "indented fence"}}
TrimStart(t) == LET first == SelectInSeq(t, LAMBDA line : line # "empty")
                IN IF first = 0 THEN <<>> ELSE SubSeq(t, first, Len(t))
Strip(t) ==
  IF t = <<>> \/ t[1] \notin {"fence", "indented fence"} \/ Fences(t) = {} THEN t
  ELSE LET closing == CHOOSE k \in Fences(t) : \A j \in Fences(t) : k <= j
       IN TrimStart(SubSeq(t, closing + 1, Len(t)))

-----------------------------------------------------------------------------
(* Loading.                                                                *)

Says(value) == value # Undeclared /\ value # <<>>
OddName(name) == name = <<"odd name">>

\* What becomes of a skill file, and whether its name is complained of.
LoadSkill(t) ==
  LET found == Extract(t) name == found.fields.name IN
  CASE found.state # "found" -> [loaded |-> FALSE, complaint |-> FALSE]
    [] ~Says(name) -> [loaded |-> FALSE, complaint |-> FALSE]
    [] OTHER -> [loaded |-> Says(found.fields.description), complaint |-> OddName(name)]

\* What becomes of a template: the body, and where its description comes from.
LoadTemplate(t) ==
  LET found == Extract(t) body == Words(Strip(t)) IN
  CASE found.state = "malformed" \/ body = <<>> -> [loaded |-> FALSE, from |-> "nothing"]
    [] found.state = "found" /\ Says(found.fields.description) -> [loaded |-> TRUE, from |-> "block"]
    [] OTHER -> [loaded |-> TRUE, from |-> "body"]

-----------------------------------------------------------------------------
(* Inspection: the status of each surface.                                 *)

\* Without a block that can be read nothing of a skill is there but its text.
WithoutBlock == [frontmatter |-> "unsupported", name |-> "unsupported",
                 description |-> "unsupported", body |-> "supported"]

InspectSkill(t) ==
  LET found == Extract(t) declared(k) == found.fields[k] # Undeclared IN
  IF found.state # "found" THEN WithoutBlock
  ELSE [frontmatter |-> "supported",
        name |-> CASE ~declared("name") -> "unsupported"
                   [] OddName(found.fields.name) -> "partial"
                   [] OTHER -> "supported",
        description |-> IF declared("description") THEN "supported" ELSE "unsupported",
        body |-> "supported"]

PromptFrontmatter(found) ==
  CASE found.state = "found" -> "supported"
    [] found.state = "malformed" -> "unsupported"
    [] OTHER -> "not present"

InspectPrompt(t) ==
  LET found == Extract(t) body == Words(Strip(t)) IN
  [frontmatter |-> PromptFrontmatter(found),
   body |-> IF body = <<>> THEN "unsupported" ELSE "supported",
   description |-> IF found.state = "found" /\ found.fields.description # Undeclared THEN "declared"
                   ELSE IF body # <<>> THEN "inferred" ELSE "partial"]

Unsupported(report) == \E surface \in DOMAIN report : report[surface] = "unsupported"

-----------------------------------------------------------------------------
(* Properties.                                                             *)

TextTypeOK == text \in Seq(Lines) /\ Extract(text).state \in {"found", "absent", "malformed"}

\* The block scalar that line j of the text belongs to, or 0.
ScalarOf(j) ==
  LET opens == {k \in 2..(j - 1) : text[k] = "block" /\ \A l \in (k + 1)..j : text[l] \in Indented \cup {"empty"}}
  IN IF opens = {} THEN 0 ELSE CHOOSE k \in opens : TRUE

\* A field has the value that its last line before the closing fence gives it, of a
\* block scalar all the words that are indented under it; an indented line is never a
\* key or a fence, and what an unclosed block holds is read by nobody (extract).
FieldsAreDeclared ==
  LET found == Extract(text)
      fences == {k \in 2..Len(text) : text[k] = "fence"}
      closing == CHOOSE k \in fences : \A j \in fences : k <= j
      declaring(k) == {j \in 2..(closing - 1) : KeyOf(text[j]) = k}
      lastOf(k) == CHOOSE j \in declaring(k) : \A i \in declaring(k) : i <= j
      under(j) == {i \in (j + 1)..(closing - 1) : ScalarOf(i) = j /\ text[i] # "empty"}
  IN text # <<>> =>
     /\ found.state = "absent" <=> text[1] # "fence"
     /\ found.state = "found" <=> text[1] = "fence" /\ fences # {}
     /\ found.state = "found" => \A k \in Keys :
          CASE declaring(k) = {} -> found.fields[k] = Undeclared
            [] declaring(k) # {} /\ text[lastOf(k)] = "block" ->
                 /\ Len(found.fields[k]) = Cardinality(under(lastOf(k)))
                 /\ ToSet(found.fields[k]) = {text[i] : i \in under(lastOf(k))}
            [] OTHER -> found.fields[k] = ValueOf(text[lastOf(k)])

\* compat calls a template unsupported exactly if loading refuses the file: the two
\* read it with code of their own (inspect_prompt, load).
TemplateVerdictIsExact == Unsupported(InspectPrompt(text)) <=> ~LoadTemplate(text).loaded

\* A skill that compat calls unsupported is not loaded, and of one that is loaded compat
\* complains of the name exactly if loading does (inspect_skill, collect).
SkillAlarmIsReal ==
  /\ Unsupported(InspectSkill(text)) => ~LoadSkill(text).loaded
  /\ LoadSkill(text).loaded =>
       (InspectSkill(text).name = "partial" <=> LoadSkill(text).complaint)

-----------------------------------------------------------------------------
(***************************************************************************)
(* The reader of package.json, written by hand (package.rs:931-1342): a    *)
(* cursor over the text that keeps the name, the extension paths and the   *)
(* paths under "pi", and steps past every other value by counting          *)
(* brackets.  The text is a sequence of tokens, a string or a literal is   *)
(* one of them, and a manifest is a tree of values; the reader must find   *)
(* in the rendered tree what the tree says.  A string may hold a character *)
(* that JSON escapes as a surrogate pair.                                  *)
(***************************************************************************)
CONSTANTS Manifests   \* the top-level objects read: sequences of [key, value]

VARIABLES tree, manifest, error, read

\* Values: [is, of]; a pair of an object is [key, value].
Lit == [is |-> "literal", of |-> ""]
Obj(pairs) == [is |-> "object", of |-> pairs]

SurrogatePair == "surrogate pair"

Texts == {"name", "version", "description"}
Blank == [name |-> "", version |-> "", description |-> "", skills |-> <<>>, prompts |-> <<>>, extensions |-> <<>>,
          unknown |-> <<>>]

ManifestInit == tree = <<>> /\ manifest = Blank /\ error = FALSE /\ read = FALSE

-----------------------------------------------------------------------------
\* The text of a value.
Token(k, x) == <<k, x>>
Joined(parts) ==
  FoldLeft(LAMBDA chars, part : IF chars = <<>> THEN part
                               ELSE chars \o <<Token(",", "")>> \o part, <<>>, parts)

RECURSIVE Text(_)
Text(v) ==
  CASE v.is = "string" -> <<Token("s", v.of)>>
    [] v.is = "literal" -> <<Token("l", "")>>
    [] v.is = "array" -> <<Token("[", "")>> \o Joined([k \in 1..Len(v.of) |-> Text(v.of[k])])
                         \o <<Token("]", "")>>
    [] OTHER -> <<Token("{", "")>>
                \o Joined([k \in 1..Len(v.of) |->
                     <<Token("s", v.of[k].key), Token(":", "")>> \o Text(v.of[k].value)])
                \o <<Token("}", "")>>

-----------------------------------------------------------------------------
\* The reader.  A cursor is [at, bad, of]: where it is, whether it gave up,
\* and what it read on the way.
At(chars, c) == IF c.at > Len(chars) THEN "end" ELSE chars[c.at][1]
Bad(c) == [c EXCEPT !.bad = TRUE]
Step(c) == [c EXCEPT !.at = @ + 1]
Expect(chars, c, kind) == IF ~c.bad /\ At(chars, c) = kind THEN Step(c) ELSE Bad(c)

\* Half of a surrogate pair is refused.
ParseString(chars, c) ==
  IF At(chars, c) = "s" /\ chars[c.at][2] # SurrogatePair THEN [Step(c) EXCEPT !.of = chars[c.at][2]] ELSE Bad(c)

\* Only the kind of bracket that opened the value is counted.
RECURSIVE SkipTo(_, _, _, _, _)
SkipTo(chars, c, open, close, depth) ==
  IF depth = 0 THEN c
  ELSE CASE At(chars, c) = "end" -> Bad(c)
         [] At(chars, c) = open -> SkipTo(chars, Step(c), open, close, depth + 1)
         [] At(chars, c) = close -> SkipTo(chars, Step(c), open, close, depth - 1)
         [] At(chars, c) = "s" /\ ParseString(chars, c).bad -> Bad(c)
         [] OTHER -> SkipTo(chars, Step(c), open, close, depth)

SkipValue(chars, c) ==
  CASE At(chars, c) = "end" -> Bad(c)
    [] At(chars, c) = "[" -> SkipTo(chars, Step(c), "[", "]", 1)
    [] At(chars, c) = "{" -> SkipTo(chars, Step(c), "{", "}", 1)
    [] At(chars, c) \in {",", "}", "]"} -> c
    [] At(chars, c) = "s" -> ParseString(chars, c)
    [] OTHER -> Step(c)

\* The strings of an array; other items are stepped over.
RECURSIVE Items(_, _, _), ItemsAfter(_, _, _)
Items(chars, c, items) ==
  IF At(chars, c) = "s"
    THEN ItemsAfter(chars, ParseString(chars, c), Append(items, ParseString(chars, c).of))
    ELSE ItemsAfter(chars, SkipValue(chars, c), items)
ItemsAfter(chars, next, items) ==
  CASE next.bad -> next
    [] ~next.bad /\ At(chars, next) = "," -> Items(chars, Step(next), items)
    [] ~next.bad /\ At(chars, next) = "]" -> [Step(next) EXCEPT !.of = items]
    [] OTHER -> Bad(next)

ItemsFrom(chars, inside) ==
  IF inside.bad THEN inside
  ELSE IF At(chars, inside) = "]" THEN [Step(inside) EXCEPT !.of = <<>>]
  ELSE Items(chars, inside, <<>>)
ParseStringArray(chars, c) == ItemsFrom(chars, Expect(chars, c, "["))

\* A key and the colon behind it: a cursor that carries the key.
KeyedAt(chars, c) == Expect(chars, ParseString(chars, c), ":")
Reader(cursor, m) == [cursor |-> cursor, m |-> m]

\* The "pi" object; "m" is what the manifest says so far.
PiValue(chars, keyed) ==
  IF keyed.of \in {"skills", "prompts"} THEN ParseStringArray(chars, keyed)
  ELSE SkipValue(chars, keyed)
WithPi(m, key, paths) ==
  CASE key = "skills" -> [m EXCEPT !.skills = paths]
    [] key = "prompts" -> [m EXCEPT !.prompts = paths]
    [] OTHER -> [m EXCEPT !.unknown = Append(@, key)]

RECURSIVE PiPairs(_, _, _), PiPair(_, _, _, _), PiAfter(_, _, _, _)
PiPairs(chars, c, m) == PiPair(chars, c, KeyedAt(chars, c), m)
PiPair(chars, c, keyed, m) ==
  IF keyed.bad THEN Reader(Bad(c), m)
  ELSE PiAfter(chars, PiValue(chars, keyed), keyed.of, m)
PiAfter(chars, value, key, m) ==
  IF value.bad THEN Reader(value, m)
  ELSE IF At(chars, value) = "," THEN PiPairs(chars, Step(value), WithPi(m, key, value.of))
  ELSE Reader(IF At(chars, value) = "}" THEN Step(value) ELSE Bad(value), WithPi(m, key, value.of))

PiFrom(chars, inside, m) ==
  IF inside.bad THEN Reader(inside, m)
  ELSE IF At(chars, inside) = "}" THEN Reader(Step(inside), m)
  ELSE PiPairs(chars, inside, m)
ParsePi(chars, c, m) == PiFrom(chars, Expect(chars, c, "{"), m)

\* One top-level value, by its key; what gives up leaves the manifest as it is.
Holding(value, key, m) == Reader(value, IF value.bad THEN m ELSE [m EXCEPT ![key] = value.of])
TopValue(chars, c, key, m) ==
  CASE key \in Texts -> Holding(ParseString(chars, c), key, m)
    [] key = "pi" -> ParsePi(chars, c, m)
    [] key = "extensions" /\ At(chars, c) = "[" -> Holding(ParseStringArray(chars, c), key, m)
    [] OTHER -> Reader(SkipValue(chars, c), m)

RECURSIVE TopPairs(_, _, _), TopPair(_, _, _, _), TopAfter(_, _, _, _)
TopPairs(chars, c, m) == TopPair(chars, c, KeyedAt(chars, c), m)
TopPair(chars, c, keyed, m) ==
  IF keyed.bad THEN Reader(Bad(c), m)
  ELSE LET value == TopValue(chars, keyed, keyed.of, m) IN TopAfter(chars, value.cursor, value.m, m)
TopAfter(chars, c, next, m) ==
  IF c.bad THEN Reader(c, m)
  ELSE IF At(chars, c) = "," THEN TopPairs(chars, Step(c), next)
  ELSE Reader(IF At(chars, c) = "}" THEN Step(c) ELSE Bad(c), next)

TopFrom(chars, inside) ==
  IF At(chars, inside) = "}" THEN Reader(Step(inside), Blank) ELSE TopPairs(chars, inside, Blank)
ParseTopLevel(chars) == TopFrom(chars, Expect(chars, [at |-> 1, bad |-> FALSE, of |-> ""], "{"))

Read ==
  /\ ~read /\ read' = TRUE
  /\ tree' \in Manifests
  /\ LET result == ParseTopLevel(Text(Obj(tree')))
     IN manifest' = result.m /\ error' = result.cursor.bad

ManifestNext == Read

-----------------------------------------------------------------------------
ManifestTypeOK == error \in BOOLEAN /\ read \in BOOLEAN /\ DOMAIN manifest = DOMAIN Blank

\* What the tree says under a key: the last pair that has it.
LastOf(pairs, key) ==
  LET at == {k \in 1..Len(pairs) : pairs[k].key = key}
  IN IF at = {} THEN Lit ELSE pairs[CHOOSE k \in at : \A j \in at : j <= k].value
Has(pairs, key) == \E k \in 1..Len(pairs) : pairs[k].key = key
StringsOf(v) ==
  LET strings == SelectSeq(v.of, LAMBDA item : item.is = "string")
  IN [k \in 1..Len(strings) |-> strings[k].of]
\* The value kinds the reader insists on.
Acceptable(pairs) ==
  \A k \in 1..Len(pairs) :
    /\ pairs[k].key \in Texts => pairs[k].value.is = "string"
    /\ pairs[k].key = "pi" =>
         /\ pairs[k].value.is = "object"
         /\ \A j \in 1..Len(pairs[k].value.of) :
              pairs[k].value.of[j].key \in {"skills", "prompts"} =>
                pairs[k].value.of[j].value.is = "array"
PathsOf(pairs, surface) ==
  LET pis == SelectSeq(pairs, LAMBDA p : p.key = "pi" /\ Has(p.value.of, surface))
  IN IF pis = <<>> THEN <<>>
     ELSE StringsOf(LastOf(pis[Len(pis)].value.of, surface))
ExtensionsOf(pairs) ==
  LET arrays == SelectSeq(pairs, LAMBDA p : p.key = "extensions" /\ p.value.is = "array")
  IN IF arrays = <<>> THEN <<>> ELSE StringsOf(arrays[Len(arrays)].value)

\* The known defect: no string may hold a surrogate pair, not even one that is skipped.
Escaped(pairs) ==
  \E k \in DOMAIN Text(Obj(pairs)) : Text(Obj(pairs))[k] = Token("s", SurrogatePair)

Proper(pairs) == Acceptable(pairs) /\ ~Escaped(pairs)

\* What a manifest says that ends behind its first n pairs.
SaysSo(pairs, m, n) ==
  LET before == SubSeq(pairs, 1, n) IN
  /\ \A key \in Texts : m[key] = IF Has(before, key) THEN LastOf(before, key).of ELSE ""
  /\ m.skills = PathsOf(before, "skills")
  /\ m.prompts = PathsOf(before, "prompts")
  /\ m.extensions = ExtensionsOf(before)

\* A manifest in JSON is read for what it says, whatever other values stand
\* between the ones that count: stepping past one leaves the cursor right
\* behind it, and only the kinds the reader insists on are refused, and the known
\* defect.  Of one that is refused everything before the pair with the error is kept,
\* or that pair is "pi" (parse_top_level, skip_value, parse_string_array,
\* parse_pi_namespace).
ManifestIsRead ==
  read =>
    /\ error <=> ~Proper(tree)
    /\ ~error => SaysSo(tree, manifest, Len(tree))
    /\ error => \E n \in 0..(Len(tree) - 1) :
                 /\ Proper(SubSeq(tree, 1, n)) /\ ~Proper(SubSeq(tree, 1, n + 1))
                 /\ tree[n + 1].key = "pi" \/ SaysSo(tree, manifest, n)
=============================================================================
