----------------------------- MODULE SurfaceScan -----------------------------
(***************************************************************************)
(* The scan for skills (skill.rs) and for prompt templates (prompt.rs):    *)
(* which file answers a name when several places declare it, which files   *)
(* are candidates at all, and what an untrusted project contributes.       *)
(*                                                                         *)
(* A file is a path, a sequence of names below its location, and says      *)
(* what reading it gives: the name it declares, or why it is not loaded.   *)
(* Names are numbers, ordered as the file system listing is sorted.        *)
(***************************************************************************)
EXTENDS Naturals, Sequences, FiniteSets, SequencesExt

CONSTANTS
  Places,     \* the standalone locations and the packages, in the order skills read them
  SourceOf,   \* [Places -> {"explicit", "global", "project"}]
  FamilyOf,   \* [Places -> {"pi", "agents", "package"}]
  Declared,   \* [Places -> the skill paths the package's manifest declares]
  Escapes,    \* the declared paths that leave their package
  SkillFiles, \* [Places -> paths of the files there that end in ".md"]
  PromptFiles,\* [Places -> names of the template files there]
  Names,      \* the names a file may declare
  Loaded,     \* how many files at most are loadable at once
  SKILL, Conventional,  \* the name of SKILL.md, and of a package's skills directory
  MaxDepth    \* MAX_DEPTH

VARIABLES reads,    \* [files -> a name, or why the file is not loaded]
          trusted, noStandard,
          skills, prompts, at
vars == <<reads, trusted, noStandard, skills, prompts, at>>

\* Without frontmatter, with a block that never closes, without a name or a
\* description, or unreadable: the differences are in the warnings.
Unloaded == {"malformed", "undescribed"}
All == UNION {{<<p, f>> : f \in SkillFiles[p]} : p \in Range(Places)}
Templates == UNION {{<<p, f>> : f \in PromptFiles[p]} : p \in Range(Places)}

Init ==
  /\ reads = [f \in All |-> "malformed"]
  /\ trusted = FALSE /\ noStandard = FALSE
  /\ skills = <<>> /\ prompts = <<>> /\ at = "new"

\* What the user and the project put there, and how the scan is called.
Place ==
  /\ at = "new" /\ at' = "placed"
  /\ trusted' \in BOOLEAN /\ noStandard' \in BOOLEAN
  /\ \E able \in UNION {kSubset(n, All) : n \in 0..Loaded}, why \in Unloaded :
       \E declared \in [able -> Names] :
         reads' = [f \in All |-> IF f \in able THEN declared[f] ELSE why]
  /\ UNCHANGED <<skills, prompts>>

-----------------------------------------------------------------------------
\* The walk of one location.
Under(p, dir) == {f \in SkillFiles[p] : Len(f) > Len(dir) /\ SubSeq(f, 1, Len(dir)) = dir}
Entries(p, dir) == SetToSortSeq({f[Len(dir) + 1] : f \in Under(p, dir)}, <)
IsFile(p, path) == path \in SkillFiles[p]
Accepts(p, dir, name) ==
  \/ name = SKILL
  \/ IF FamilyOf[p] = "agents" THEN dir # <<>> ELSE dir = <<>>

Concat(seqs) == FoldLeft(LAMBDA a, b : a \o b, <<>>, seqs)

\* A directory with a SKILL.md is one skill and is not walked further; the
\* walk of a package starts at the directory its manifest names.
RECURSIVE Walk(_, _, _, _)
Walk(p, root, dir, depth) ==
  IF depth > MaxDepth THEN <<>>
  ELSE Concat([k \in 1..Len(Entries(p, root \o dir)) |->
    LET name == Entries(p, root \o dir)[k]
        path == root \o dir \o <<name>>
    IN IF IsFile(p, path) THEN IF Accepts(p, dir, name) THEN <<path>> ELSE <<>>
       ELSE IF IsFile(p, path \o <<SKILL>>) THEN <<path \o <<SKILL>>>>
       ELSE Walk(p, root, dir \o <<name>>, depth + 1)])

\* The paths a package offers: what its manifest declares, minus what leaves
\* the package, or the directory every package may have, or its own SKILL.md.
Locations(p) ==
  IF Declared[p] # <<>> THEN SelectSeq(Declared[p], LAMBDA d : d \notin Escapes)
  ELSE IF Under(p, <<Conventional>>) # {} THEN <<<<Conventional>>>>
  ELSE IF IsFile(p, <<SKILL>>) THEN <<<<SKILL>>>> ELSE <<>>

PackageSkills(p) ==
  Concat([k \in 1..Len(Locations(p)) |->
    LET d == Locations(p)[k]
    IN IF IsFile(p, d) THEN <<d>>
       ELSE IF IsFile(p, d \o <<SKILL>>) THEN <<d \o <<SKILL>>>>
       ELSE Walk(p, d, <<>>, 0)])

Candidates(p) ==
  LET paths == CASE FamilyOf[p] = "package" -> PackageSkills(p)
                 [] SourceOf[p] = "explicit" /\ IsFile(p, <<SKILL>>) -> <<<<SKILL>>>>
                 [] OTHER -> Walk(p, <<>>, <<>>, 0)
  IN [k \in 1..Len(paths) |-> <<p, paths[k]>>]

\* A file that does not load takes no name; a name that is taken stays with
\* the first.
Collect(kept, f) ==
  IF reads[f] \in Unloaded \/ \E k \in 1..Len(kept) : kept[k].name = reads[f] THEN kept
  ELSE Append(kept, [name |-> reads[f], file |-> f])

\* (mutant) Packages are read whatever the trust.
ReadAnyPackage ==
  SelectSeq(Places, LAMBDA p : SourceOf[p] # "project" \/ trusted \/ FamilyOf[p] = "package")

ReadNow == SelectSeq(Places, LAMBDA p : SourceOf[p] # "project" \/ trusted)
Skills ==
  FoldLeft(Collect, <<>>, Concat([k \in 1..Len(ReadNow) |-> Candidates(ReadNow[k])]))

-----------------------------------------------------------------------------
\* Templates: not recursive, named after their files, and sorted at the end.
RankOf(source) == IF source = "project" THEN 1 ELSE 0
PromptPlaces ==
  SelectSeq(Places, LAMBDA p :
    SourceOf[p] = "explicit" \/ (~noStandard /\ (SourceOf[p] = "global" \/ trusted)))
AddTemplate(kept, f) ==
  IF \E k \in 1..Len(kept) : kept[k].name = f[2] THEN kept
  ELSE Append(kept, [name |-> f[2], file |-> f, rank |-> RankOf(SourceOf[f[1]])])
InPlace(p) ==
  LET names == SetToSortSeq(PromptFiles[p], <) IN [k \in 1..Len(names) |-> <<p, names[k]>>]
FirstSorts(a, b) == a.rank < b.rank \/ (a.rank = b.rank /\ a.name < b.name)
Prompts ==
  LET found == FoldLeft(AddTemplate, <<>>,
                 Concat([k \in 1..Len(PromptPlaces) |-> InPlace(PromptPlaces[k])]))
  IN SetToSortSeq(Range(found), FirstSorts)

Discover ==
  /\ at = "placed" /\ at' = "done"
  /\ skills' = Skills
  /\ prompts' = Prompts
  /\ UNCHANGED <<reads, trusted, noStandard>>

Next == Place \/ Discover
Spec == Init /\ [][Next]_vars

-----------------------------------------------------------------------------
TypeOK ==
  /\ at \in {"new", "placed", "done"}
  /\ reads \in [All -> Names \cup Unloaded]
  /\ \A k \in 1..Len(skills) : skills[k].file \in All
  /\ \A k \in 1..Len(prompts) : prompts[k].file \in Templates

RankIn(p) == CHOOSE k \in 1..Len(Places) : Places[k] = p
Smaller(a, b) ==
  \E k \in 1..Len(b) : /\ SubSeq(a, 1, k - 1) = SubSeq(b, 1, k - 1)
                       /\ (Len(a) < k \/ a[k] < b[k])
Earlier(f, g) ==
  RankIn(f[1]) < RankIn(g[1]) \/ (f[1] = g[1] /\ Smaller(f[2], g[2]))

\* What the module's own comment calls a skill, said of one path: a SKILL.md
\* or a loose file where the family accepts one, inside no other skill, and
\* not below the depth limit.
IsCandidate(p, root, f) ==
  LET rel == SubSeq(f, Len(root) + 1, Len(f))
  IN /\ Len(f) > Len(root) /\ SubSeq(f, 1, Len(root)) = root
     /\ (Len(rel) <= MaxDepth + 1 \/ (Len(rel) = MaxDepth + 2 /\ rel[Len(rel)] = SKILL))
     /\ \A n \in 1..Len(rel) - 2 : ~IsFile(p, root \o SubSeq(rel, 1, n) \o <<SKILL>>)
     /\ (Len(rel) > 1 /\ rel[Len(rel)] # SKILL) =>
          ~IsFile(p, root \o SubSeq(rel, 1, Len(rel) - 1) \o <<SKILL>>)
     /\ \/ rel[Len(rel)] = SKILL
        \/ (Len(rel) = 1) = (FamilyOf[p] # "agents")
Offered(p, f) ==
  IF SourceOf[p] = "explicit" /\ IsFile(p, <<SKILL>>) THEN f = <<SKILL>>
  ELSE IF FamilyOf[p] # "package" THEN IsCandidate(p, <<>>, f)
  ELSE \E d \in (IF Declared[p] # <<>> THEN Range(Declared[p]) \ Escapes
                 ELSE IF Under(p, <<Conventional>>) # {} THEN {<<Conventional>>} ELSE {<<SKILL>>}) :
         f = d \/ (IF IsFile(p, d \o <<SKILL>>) THEN f = d \o <<SKILL>> ELSE IsCandidate(p, d, f))

\* Every name that some readable skill declares is answered by the first of
\* them in the documented order, and by nothing else: a broken file, a file
\* inside another skill, a path that leaves its package and a project nobody
\* trusts neither answer a name nor take one (discover_with_options).
FirstFoundWins ==
  at = "done" =>
    LET able == {f \in All : reads[f] \in Names /\ Offered(f[1], f[2])
                             /\ (SourceOf[f[1]] = "project" => trusted)}
    IN Range(skills) =
         {[name |-> reads[f], file |-> f] : f \in
           {f \in able : \A g \in able : reads[g] = reads[f] /\ g # f => Earlier(f, g)}}

\* Every template name has one file, the first in reading order, whatever the
\* final sort does with the list, and nothing standard is read when told so.
TemplateIsFirst ==
  at = "done" =>
    \A f \in Templates :
      LET readable == {g \in Templates : g[2] = f[2]
                         /\ (SourceOf[g[1]] = "explicit"
                             \/ (~noStandard /\ (SourceOf[g[1]] = "global" \/ trusted)))}
      IN (\E k \in 1..Len(prompts) : prompts[k].file = f) <=>
           f \in readable /\ \A g \in readable : g # f => Earlier(f, g)
=============================================================================
