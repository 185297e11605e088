----------------------------- MODULE GrepSearch -----------------------------
(***************************************************************************)
(* rupi_tools::grep: a walk of a directory in the order of its names, file  *)
(* by file and line by line, that stops at the first of several limits and *)
(* says in a note which; and the matching of a glob against a file name.   *)
(*                                                                         *)
(* The tree is the environment's, in the order in which the walk meets it:  *)
(* node n + 1 comes after node n.  A line is what the search makes of it.  *)
(***************************************************************************)
EXTENDS Integers, Sequences, SequencesExt

CONSTANTS
  Bodies,     \* what files hold: sequences of "hit", "miss", "binary", "long", "error"
  Limits,     \* max_matches asked for
  MaxDepth,   \* MAX_DEPTH
  ScanLimit,  \* SCAN_LIMIT
  MaxNodes    \* bound: files and directories under the root

VARIABLES
  tree,     \* the files and directories, each [parent, kind, lines, named]
  limit,    \* max_matches
  grepAt,   \* "walk", in a "file", "done"
  todo,     \* what the walk has still to meet, each [node, depth]; EndOfDir ends a directory
  place,    \* the file and the next line of it
  matches,  \* the lines found
  flags,    \* hit_limit, entries_hit_cap, timed_out, cancelled: why the walk stopped
  entries,  \* entries visited
  skipped,  \* binary or unreadable files
  longLines,  \* files with a line over the limit
  expired,  \* the tool's own deadline, the context's, or the user's token
  answer    \* the notes and the outcome

vars == <<tree, limit, grepAt, todo, place, matches, flags, entries, skipped, longLines, expired,
          answer>>

\* dir is read; skipped is one of SKIP_DIRS; closed cannot be read; link is neither
\* a file nor a directory.
Dirs == {"dir", "skipped", "closed"}
EndOfDir == 0
NoAnswer == [notes |-> {}, outcome |-> "none"]

\* Nodes in the order of the walk: a node hangs under the last one or under an
\* ancestor of it.
RECURSIVE Ancestors(_, _)
Ancestors(t, n) == IF n = 0 THEN {0} ELSE {n} \cup Ancestors(t, t[n].parent)
Leaf(kind, lines, named) == [kind |-> kind, lines |-> lines, named |-> named]
Leaves == {Leaf("file", lines, named) : lines \in Bodies, named \in BOOLEAN}
            \cup {Leaf(kind, <<>>, TRUE) : kind \in Dirs \cup {"link"}}
Under(parent, leaf) ==
  [parent |-> parent, kind |-> leaf.kind, lines |-> leaf.lines, named |-> leaf.named]
RECURSIVE TreesOf(_)
TreesOf(n) ==
  IF n = 0 THEN {<<>>}
  ELSE UNION {{Append(t, Under(p, leaf)) : leaf \in Leaves,
                 p \in {a \in Ancestors(t, n - 1) : a = 0 \/ t[a].kind \in Dirs}} :
              t \in TreesOf(n - 1)}

RECURSIVE Below(_, _)
Below(dir, n) ==
  IF n > Len(tree) THEN <<>>
  ELSE (IF tree[n].parent = dir THEN <<n>> ELSE <<>>) \o Below(dir, n + 1)
Children(dir, depth) ==
  LET under == Below(dir, 1) IN
  [k \in 1..(Len(under) + 1) |->
     [node |-> IF k <= Len(under) THEN under[k] ELSE EndOfDir, depth |-> depth]]

-----------------------------------------------------------------------------
Init ==
  /\ tree \in TreesOf(MaxNodes) /\ limit \in Limits
  /\ grepAt = "walk" /\ todo = Children(0, 0) /\ place = [node |-> 0, line |-> 1]
  /\ matches = <<>> /\ flags = {} /\ entries = 0 /\ skipped = 0 /\ longLines = 0
  /\ expired = {} /\ answer = NoAnswer

\* Scan::allow: why the scan must stop, if it must.
Allowed ==
  CASE "cancel" \in expired -> {"cancelled"}
    [] "context" \in expired /\ "cancel" \notin expired -> {"timed out"}
    [] Len(matches) >= limit /\ expired \cap {"cancel", "context"} = {} -> {"limit"}
    [] OTHER -> IF "own" \in expired THEN {"timed out"} ELSE {}

Descend(next) == Children(next.node, next.depth + 1) \o Tail(todo)

\* The next entry: visited, allowed, then entered, read or passed over.
Visit ==
  LET next == Head(todo) node == tree[next.node] IN
  /\ grepAt = "walk" /\ todo # <<>> /\ flags = {} /\ next.node # EndOfDir
  /\ entries' = entries + 1
  /\ flags' = IF entries' > ScanLimit THEN {"cap"} ELSE Allowed
  /\ IF flags' = {} /\ node.kind = "file" /\ node.named
     THEN grepAt' = "file" /\ place' = [node |-> next.node, line |-> 1]
     ELSE UNCHANGED <<grepAt, place>>
  /\ todo' = IF node.kind = "dir" /\ next.depth < MaxDepth
             THEN Descend(next) ELSE Tail(todo)
  /\ UNCHANGED <<tree, limit, matches, skipped, longLines, expired, answer>>

\* A deep tree can exhaust the budget without visiting another entry.
LeaveDir ==
  /\ grepAt = "walk" /\ todo # <<>> /\ flags = {} /\ Head(todo).node = EndOfDir
  /\ flags' = Allowed /\ todo' = Tail(todo)
  /\ UNCHANGED <<tree, limit, grepAt, place, matches, entries, skipped, longLines, expired, answer>>

\* What the search cannot read ends the file and is counted.
Unreadable(line) ==
  /\ grepAt' = "walk"
  /\ IF line = "long" THEN longLines' = longLines + 1 /\ UNCHANGED skipped
                      ELSE skipped' = skipped + 1 /\ UNCHANGED longLines

\* A match at the limit stops the scan; so does the tool's deadline after a line.
Found ==
  flags' = CASE Len(matches') >= limit /\ matches' # matches -> {"limit"}
             [] OTHER -> IF "own" \in expired THEN {"timed out"} ELSE {}

\* scan_file, a line at a time.
Line ==
  LET lines == tree[place.node].lines line == lines[place.line] IN
  /\ grepAt = "file"
  /\ \/ /\ Allowed # {}
        /\ flags' = Allowed /\ grepAt' = "walk"
        /\ UNCHANGED <<place, matches, skipped, longLines>>
     \/ /\ Allowed = {} /\ place.line > Len(lines)
        /\ grepAt' = "walk" /\ UNCHANGED <<flags, place, matches, skipped, longLines>>
     \/ /\ Allowed = {} /\ place.line <= Len(lines) /\ line \in {"binary", "long", "error"}
        /\ Unreadable(line) /\ UNCHANGED <<flags, place, matches>>
     \/ /\ Allowed = {} /\ place.line <= Len(lines) /\ line \in {"hit", "miss"}
        /\ matches' = IF line = "hit" THEN Append(matches, <<place.node, place.line>>) ELSE matches
        /\ Found
        /\ grepAt' = IF flags' = {} THEN "file" ELSE "walk"
        /\ place' = [place EXCEPT !.line = @ + 1]
        /\ UNCHANGED <<skipped, longLines>>
  /\ UNCHANGED <<tree, limit, todo, entries, expired, answer>>

Incomplete == flags \cap {"cap", "timed out", "cancelled"} # {} \/ skipped > 0 \/ longLines > 0

\* The notes that go with the matches.
Notes ==
  (IF matches = <<>> /\ Incomplete THEN {"absence is not established"} ELSE {})
    \cup flags
    \cup (IF skipped > 0 THEN {"skipped"} ELSE {})
    \cup (IF longLines > 0 THEN {"long lines"} ELSE {})

Report ==
  /\ grepAt = "walk" /\ (todo = <<>> \/ flags # {})
  /\ grepAt' = "done"
  /\ answer' = [notes |-> Notes,
                outcome |-> IF "cancelled" \in flags THEN "failed" ELSE "succeeded"]
  /\ UNCHANGED <<tree, limit, todo, place, matches, flags, entries, skipped, longLines, expired>>

Expire(clock) ==
  /\ grepAt # "done" /\ clock \notin expired /\ expired' = expired \cup {clock}
  /\ UNCHANGED <<tree, limit, grepAt, todo, place, matches, flags, entries, skipped, longLines,
                 answer>>

Next ==
  \/ Visit \/ LeaveDir \/ Line \/ Report
  \/ \E clock \in {"own", "context", "cancel"} : Expire(clock)

Spec == Init /\ [][Next]_vars

TypeOK ==
  /\ limit \in Limits /\ grepAt \in {"walk", "file", "done"}
  /\ flags \subseteq {"limit", "cap", "timed out", "cancelled"}
  /\ entries \in 0..(ScanLimit + 1) /\ expired \subseteq {"own", "context", "cancel"}
  /\ Len(matches) <= limit

-----------------------------------------------------------------------------
(* Properties.                                                             *)

RECURSIVE Depth(_)
Depth(n) == IF n = 0 THEN 0 ELSE 1 + Depth(tree[n].parent)

\* What the tool promises to search: files of the asked name under directories
\* that are not build or VCS output.
Offered(n) ==
  /\ tree[n].kind = "file" /\ tree[n].named
  /\ \A a \in Ancestors(tree, n) \ {0, n} : tree[a].kind # "skipped"

\* The known defect: below the depth limit and in a directory that cannot be read the
\* walk turns back without a note (grep.rs:325-330), against "a capped result states what
\* was skipped".
PassedSilently(n) ==
  \/ Depth(n) > MaxDepth + 1
  \/ \E a \in Ancestors(tree, n) \ {0, n} : tree[a].kind = "closed"

Hits(n) == {k \in DOMAIN tree[n].lines : tree[n].lines[k] = "hit"}

\* "a capped result states what was skipped, so the model narrows the query instead
\* of concluding the text is absent": with no note at all, every line that matches is
\* in the result, whichever clock ran out when, but for the files PassedSilently names.
NothingMissedSilently ==
  grepAt = "done" /\ answer.notes = {} =>
    \A n \in DOMAIN tree : Offered(n) /\ ~PassedSilently(n) =>
      \A k \in Hits(n) : \E m \in DOMAIN matches : matches[m] = <<n, k>>

\* "no matches" is qualified whenever a matching line exists, so that absence is never
\* concluded from it, but for the files PassedSilently names.
AbsenceIsQualified ==
  grepAt = "done" /\ matches = <<>> /\ (\E n \in DOMAIN tree : Offered(n) /\ ~PassedSilently(n) /\ Hits(n) # {})
    => "absence is not established" \in answer.notes

\* Two runs of the same query agree as far as both go: the matches are the first
\* ones in the order of the walk, none of them twice, none left out between two of
\* them but what a file that could not be read on held.
Earlier(p, q) == p[1] < q[1] \/ (p[1] = q[1] /\ p[2] < q[2])
InTreeOrder ==
  /\ \A i, j \in DOMAIN matches : i < j => Earlier(matches[i], matches[j])
  /\ \A i \in DOMAIN matches : Offered(matches[i][1]) /\ matches[i][2] \in Hits(matches[i][1])
  /\ matches # <<>> =>
       \A n \in DOMAIN tree : Offered(n) /\ ~PassedSilently(n) =>
         \A k \in Hits(n) : Earlier(<<n, k>>, matches[Len(matches)]) =>
           \/ \E m \in DOMAIN matches : matches[m] = <<n, k>>
           \/ \E e \in 1..(k - 1) : tree[n].lines[e] \in {"binary", "long", "error"}

-----------------------------------------------------------------------------
(***************************************************************************)
(* The glob of rupi_tools::grep: a pattern is cut into atoms, and the atoms *)
(* are matched against a file name.  A name and a pattern are sequences of *)
(* characters.                                                             *)
(***************************************************************************)
CONSTANTS
  Pieces,     \* pieces a pattern is put together from: sequences of characters
  MaxPieces,  \* bound: pieces of a pattern
  Letters,    \* the letters of file names
  MaxName     \* bound: letters of a file name

VARIABLES
  pattern,  \* the pattern asked for
  fold      \* ignore_case

GlobInit == pattern = <<>> /\ fold \in BOOLEAN
AddPiece ==
  /\ Len(pattern) < MaxPieces
  /\ \E piece \in Pieces : pattern' = Append(pattern, piece) /\ UNCHANGED fold
GlobNext == AddPiece

-----------------------------------------------------------------------------
(* The code.                                                               *)

Literal(c) == [kind |-> "literal", char |-> c]
AnyChar == [kind |-> "any"]
Star == [kind |-> "star"]
Class(chars, negated) == [kind |-> "class", chars |-> chars, negated |-> negated]
Choice(options) == [kind |-> "choice", options |-> options]

\* Where c comes next, 0 if it does not.
Position(c, text) ==
  IF \E k \in DOMAIN text : text[k] = c
  THEN CHOOSE k \in DOMAIN text : text[k] = c /\ \A j \in 1..(k - 1) : text[j] # c
  ELSE 0

RECURSIVE SplitAtCommas(_)
SplitAtCommas(text) ==
  LET comma == Position(",", text) IN
  IF comma = 0 THEN <<text>>
  ELSE <<SubSeq(text, 1, comma - 1)>> \o SplitAtCommas(SubSeq(text, comma + 1, Len(text)))

\* What stands between the brackets that open the text.
Body(text, close) == SubSeq(text, 2, Position(close, Tail(text)))
Rest(text, close) == SubSeq(text, Position(close, Tail(text)) + 2, Len(text))

RECURSIVE parse_glob(_)
parse_glob(p) ==
  IF p = <<>> THEN <<>> ELSE
  LET closed(c) == Position(c, Tail(p)) # 0 IN
  CASE Head(p) = "?" -> <<AnyChar>> \o parse_glob(Tail(p))
    [] Head(p) = "*" ->
         IF Len(p) > 1 /\ p[2] = "*" THEN parse_glob(Tail(p)) ELSE <<Star>> \o parse_glob(Tail(p))
    [] Head(p) = "[" /\ closed("]") ->
         LET body == Body(p, "]") negated == body # <<>> /\ Head(body) = "!" IN
         <<Class(ToSet(IF negated THEN Tail(body) ELSE body), negated)>> \o parse_glob(Rest(p, "]"))
    [] Head(p) = "{" /\ closed("}") ->
         <<Choice(SplitAtCommas(Body(p, "}")))>> \o parse_glob(Rest(p, "}"))
    [] OTHER -> <<Literal(Head(p))>> \o parse_glob(Tail(p))

Runs(text) == 0..Len(text)

\* A choice takes the first of its alternatives that the text begins with.
RECURSIVE match_atoms(_, _)
match_atoms(atoms, text) ==
  IF atoms = <<>> THEN text = <<>> ELSE
  LET atom == Head(atoms)
      after(n) == match_atoms(Tail(atoms), SubSeq(text, n + 1, Len(text)))
  IN CASE atom.kind = "literal" -> text # <<>> /\ Head(text) = atom.char /\ after(1)
       [] atom.kind = "any" -> text # <<>> /\ after(1)
       [] atom.kind = "class" ->
            text # <<>> /\ (Head(text) \in atom.chars) # atom.negated /\ after(1)
       [] atom.kind = "choice" ->
            LET fits == {k \in DOMAIN atom.options : IsPrefix(atom.options[k], text)} IN
            fits # {} /\ after(Len(atom.options[CHOOSE k \in fits : \A j \in fits : k <= j]))
       [] OTHER -> \E n \in Runs(text) : after(n)

LowerOf == [c \in {"A", "B"} |-> IF c = "A" THEN "a" ELSE "b"]
Lower(text) == [k \in DOMAIN text |-> IF text[k] \in DOMAIN LowerOf THEN LowerOf[text[k]] ELSE text[k]]

\* Matcher::new and matches_path.
Selected(glob, name, ignoring) ==
  IF ignoring THEN match_atoms(parse_glob(Lower(glob)), Lower(name))
              ELSE match_atoms(parse_glob(glob), name)

-----------------------------------------------------------------------------
(* What a glob means: the words of a piece, those of a pattern piece after *)
(* piece.                                                                  *)

Names == UNION {[1..n -> Letters] : n \in 0..MaxName}
Inner(piece) == SubSeq(piece, 2, Len(piece) - 1)
Meant(piece, word) ==
  CASE piece = <<"*">> -> TRUE
    [] piece = <<"?">> -> Len(word) = 1
    [] Len(piece) > 1 /\ Head(piece) = "[" ->
         Len(word) = 1 /\
         (IF piece[2] = "!" THEN word[1] \notin ToSet(SubSeq(piece, 3, Len(piece) - 1))
                            ELSE word[1] \in ToSet(Inner(piece)))
    [] Len(piece) > 1 /\ Head(piece) = "{" -> word \in ToSet(SplitAtCommas(Inner(piece)))
    [] OTHER -> word = piece

RECURSIVE Means(_, _)
Means(pieces, name) ==
  IF pieces = <<>> THEN name = <<>>
  ELSE \E n \in 0..Len(name) :
         Meant(Head(pieces), SubSeq(name, 1, n)) /\ Means(Tail(pieces), SubSeq(name, n + 1, Len(name)))

Folded(name) == IF fold THEN Lower(name) ELSE name
FoldedPattern == IF fold THEN [k \in DOMAIN pattern |-> Lower(pattern[k])] ELSE pattern

\* A bracket that is closed in its own piece, or never; and pieces no alternative of
\* which begins another.
Closed(k) ==
  \A bracket \in {<<"[", "]">>, <<"{", "}">>} :
    pattern[k] = <<bracket[1]>> =>
      \A j \in (k + 1)..Len(pattern) : bracket[2] \notin ToSet(pattern[j])
PrefixFree(piece) ==
  Head(piece) = "{" /\ Len(piece) > 1 =>
    LET options == SplitAtCommas(Inner(piece)) IN
    \A j, k \in DOMAIN options : j # k => ~IsPrefix(options[j], options[k])

\* A glob selects the files it means, and no other: for every pattern whose
\* alternatives are not beginnings of one another, with and without regard to
\* case, next to stars and to brackets that are never closed.
SelectsWhatItMeans ==
  (\A k \in DOMAIN pattern : Closed(k) /\ PrefixFree(pattern[k])) =>
    \A name \in Names :
      Selected(FlattenSeq(pattern), name, fold) <=> Means(FoldedPattern, Folded(name))

=============================================================================
