------------------------------- MODULE SkillList -------------------------------
(***************************************************************************)
(* The skills a turn is told of: the SKILL.md files of the skill roots,    *)
(* read in the order of the roots so that a later one replaces a skill of  *)
(* the same name, each with a .cache beside it that stands for the file    *)
(* while its size and time are the file's.  Turns and skill list requests  *)
(* of every session of a project load the same directories at once, while  *)
(* the files are edited; the list is then cut to a budget.                 *)
(* Abstracted: a description is its length; size and time of a file are    *)
(* the number of its edit; directories inside a root, its plugin roots     *)
(* (which come before it) and the search for SKILL.md are the places in    *)
(* the order they are read; ignore files do not change.                    *)
(***************************************************************************)
EXTENDS Naturals, Sequences, FiniteSets, FiniteSetsExt, SequencesExt

CONSTANTS
    Loads,      \* loadSkills calls of turns and of skill list requests
    Root,       \* place -> the root it is in, in the order of the roots
    Names,
    Lengths,    \* of descriptions
    None,       \* no file, no cache, no name in the frontmatter
    Broken,     \* a .cache JSON.parse refuses
    Line,       \* cost of a line without its path and description
    PathLength, AliasLength, RootLine, \* of a path, an aliased one, an alias
    Intro,      \* what the text about aliases costs more
    Limits,     \* budgets
    MaxEdits    \* bound: edits of SKILL.md files

BudgetAssumption ==
    /\ {Line, PathLength, AliasLength, RootLine, Intro, MaxEdits} \subseteq Nat
    /\ Limits \cup Lengths \subseteq Nat

VARIABLES
    file,    \* place -> [name, description, stamp] or None
    cache,   \* place -> the same, Broken or None
    load,    \* Loads -> [at, place, stat, byName]
    ignored, \* names in the .skillignore files
    edits,
    calm     \* loads since whose start no file was edited

vars == <<file, cache, load, ignored, edits, calm>>

Places == DOMAIN Root

Skill(n, d, t) == [name |-> n, description |-> d, stamp |-> t]
Idle == [at |-> "idle", place |-> 1, stat |-> 0, byName |-> <<>>]

Init ==
    /\ file \in [Places -> {None} \cup {Skill(n, d, 0) : n \in Names, d \in Lengths}]
    /\ cache = [p \in Places |-> None]
    /\ load = [l \in Loads |-> Idle]
    /\ ignored \in {{}} \cup {{n} : n \in Names}
    /\ edits = 0
    /\ calm = {}

To(l, at) == load' = [load EXCEPT ![l].at = at]

Begin(l) ==
    /\ load[l].at = "idle"
    /\ load' = [load EXCEPT ![l] = [Idle EXCEPT !.at = "stat"]]
    /\ calm' = calm \cup {l}
    /\ UNCHANGED <<file, cache, ignored, edits>>

(* byName as a sequence of [place, name, description]: a skill replaces    *)
(* the one of its name.                                                    *)
Keep(found, p, s) ==
    Append(SelectSeq(found, LAMBDA e : e.name # s.name),
           [place |-> p, name |-> s.name, description |-> s.description])

(* On to the next place: with the skill found, if any. *)
Past(l, found) ==
    load' = [load EXCEPT ![l] =
        [at |-> IF @.place = Len(Root) THEN "done" ELSE "stat",
         place |-> IF @.place = Len(Root) THEN @.place ELSE @.place + 1,
         stat |-> 0,
         byName |-> found]]

(* discoverSkillFiles and the stat of the file it found. *)
Stat(l) ==
    LET p == load[l].place
    IN /\ load[l].at = "stat"
       /\ IF file[p] = None THEN Past(l, load[l].byName)
          ELSE load' = [load EXCEPT ![l].at = "cache", ![l].stat = file[p].stamp]
       /\ UNCHANGED <<file, cache, ignored, edits, calm>>

(* A cache of the file as it was when it was looked at stands for it.  A   *)
(* cache that does not parse ends the whole load.                          *)
ReadCache(l) ==
    LET p == load[l].place
    IN /\ load[l].at = "cache"
       /\ \/ cache[p] = Broken /\ To(l, "failed")
          \/ cache[p] = None /\ To(l, "read")
          \/ /\ cache[p] \notin {None, Broken}
             /\ IF cache[p].stamp = load[l].stat
                THEN Past(l, Keep(load[l].byName, p, cache[p]))
                ELSE To(l, "read")
       /\ UNCHANGED <<file, cache, ignored, edits, calm>>

(* What is written is the text read now and the stat taken before. *)
ReadFile(l) ==
    LET p == load[l].place
        s == load[l].stat
    IN /\ load[l].at = "read"
       /\ IF file[p] = None THEN To(l, "failed")
          ELSE load' = [load EXCEPT
                   ![l].at = "truncate",
                   ![l].byName = Keep(@, p, file[p])]
       /\ UNCHANGED <<file, cache, ignored, edits, calm>>

OwnStatAgain(l) == \* seeded bug: stat when the cache is written
    LET e == Last(load[l].byName)
        now == file[load[l].place]
    IN Skill(e.name, e.description, IF now = None THEN load[l].stat ELSE now.stamp)

Own(l) == LET e == Last(load[l].byName) IN Skill(e.name, e.description, load[l].stat)

(* fs.writeFile empties the file, then writes; two writers that emptied it *)
(* both leave the longer text's tail behind the shorter one.  A directory  *)
(* that is gone fails the first and makes the second one vain.             *)
Truncate(l) ==
    LET p == load[l].place
    IN /\ load[l].at = "truncate"
       /\ \/ /\ file[p] = None
             /\ To(l, "failed")
             /\ UNCHANGED cache
          \/ /\ file[p] # None
             /\ To(l, "write")
             /\ cache' = [cache EXCEPT ![p] = Broken]
       /\ UNCHANGED <<file, ignored, edits, calm>>

Write(l) ==
    LET p == load[l].place
    IN /\ load[l].at = "write"
       /\ \E text \in CASE cache[p] = None -> {None}
                      [] cache[p] \in {Broken, Own(l)} -> {Own(l)}
                      [] OTHER -> {Own(l), Broken} :
             cache' = [cache EXCEPT ![p] = text]
       /\ Past(l, load[l].byName)
       /\ UNCHANGED <<file, ignored, edits, calm>>

Edit(p) ==
    /\ edits < MaxEdits
    /\ \E n \in Names, d \in Lengths : file' = [file EXCEPT ![p] = Skill(n, d, edits + 1)]
    /\ edits' = edits + 1
    /\ calm' = {}
    /\ UNCHANGED <<cache, load, ignored>>

RemoveSkill(p) ==
    /\ edits < MaxEdits /\ file[p] # None
    /\ file' = [file EXCEPT ![p] = None]
    /\ cache' = [cache EXCEPT ![p] = None]
    /\ edits' = edits + 1
    /\ calm' = {}
    /\ UNCHANGED <<load, ignored>>

(* The request is over, and its load with it; a crash leaves the caches.   *)
Over(l) ==
    /\ load[l].at \in {"done", "failed"}
    /\ load' = [load EXCEPT ![l] = Idle]
    /\ calm' = calm \ {l}
    /\ UNCHANGED <<file, cache, ignored, edits>>

Crash ==
    /\ \E l \in Loads : load[l].at # "idle"
    /\ load' = [l \in Loads |-> Idle]
    /\ calm' = {}
    /\ UNCHANGED <<file, cache, ignored, edits>>

Step(l) ==
    \/ Begin(l) \/ Stat(l) \/ ReadCache(l) \/ ReadFile(l)
    \/ Truncate(l) \/ Write(l) \/ Over(l)

Next ==
    \/ \E l \in Loads : Step(l)
    \/ \E p \in Places : Edit(p) \/ RemoveSkill(p)
    \/ Crash

Spec == Init /\ [][Next]_vars

(***************************************************************************)
(* The list of a load that is done, within the budget.                     *)
(***************************************************************************)
Rank(p) == CASE Root[p] = "system" -> 0 [] Root[p] = "repo" -> 1 [] OTHER -> 2

Listed(l) ==
    SetToSortSeq({e \in Range(load[l].byName) : e.name \notin ignored},
                 LAMBDA a, b : Rank(a.place) < Rank(b.place)
                               \/ (Rank(a.place) = Rank(b.place) /\ a.place < b.place))

Described(d) == IF d = 0 THEN 0 ELSE d + 1   \* the description and its space
Bare(list, path) == Len(list) * (Line + path)

(* One round gives each description its next character while that fits.    *)
Round(list, given) ==
    FoldLeft(LAMBDA acc, i :
                 LET cost == Described(acc.shown[i] + 1) - Described(acc.shown[i])
                 IN IF acc.shown[i] < list[i].description /\ cost <= acc.left
                    THEN [shown |-> [acc.shown EXCEPT ![i] = @ + 1], left |-> acc.left - cost]
                    ELSE acc,
             given, [i \in DOMAIN list |-> i])

(* renderLinesWithDescriptionBudget: rounds until nothing more fits. *)
Rounds(list, left) ==
    FoldLeft(LAMBDA acc, i : Round(list, acc),
             [shown |-> [i \in DOMAIN list |-> 0], left |-> left],
             [i \in 1..(left + 1) |-> i]).shown

NamedOver(list, path, limit) == \* seeded bug: the cost of the next line is not added
    Max({k \in 0..Len(list) : k = 0 \/ (k - 1) * (Line + path) <= limit})

(* As many lines without description as fit. *)
Named(list, path, limit) == Max({k \in 0..Len(list) : k * (Line + path) <= limit})

(* buildAvailableSkillsFromLines: [lines, shown] with each description     *)
(* whole, cut, or, when not even the names and paths fit, none at all and  *)
(* only the first lines.                                                   *)
Fitted(list, path, limit) ==
    LET whole == [i \in DOMAIN list |-> list[i].description]
        full == Bare(list, path) + FoldLeft(LAMBDA sum, i : sum + Described(whole[i]), 0,
                                            [i \in DOMAIN list |-> i])
    IN IF full <= limit THEN whole
       ELSE IF Bare(list, path) <= limit THEN Rounds(list, limit - Bare(list, path))
       ELSE [i \in 1..Named(list, path, limit) |-> 0]

CostOf(shown, path) ==
    Len(shown) * (Line + path) + FoldLeft(LAMBDA sum, d : sum + Described(d), 0, shown)

AliasPlan(list) ==
    LET roots == {Root[list[i].place] : i \in DOMAIN list}
    IN IF Len(list) * AliasLength + Cardinality(roots) * RootLine < Len(list) * PathLength
       THEN Cardinality(roots) ELSE 0

(* buildAvailableSkills: the cheaper of the absolute list and the aliased. *)
AvailableSkills(l, limit) ==
    LET list == Listed(l)
        absolute == Fitted(list, PathLength, limit)
        roots == AliasPlan(list)
        over == roots * RootLine + Intro
        aliased == Fitted(list, AliasLength, limit - over)
        cost == CostOf(aliased, AliasLength) + roots * RootLine
    IN IF roots > 0 /\ over < limit /\ cost < CostOf(absolute, PathLength)
       THEN [shown |-> aliased, cost |-> cost]
       ELSE [shown |-> absolute, cost |-> CostOf(absolute, PathLength)]

(***************************************************************************)
(* Properties                                                              *)
(***************************************************************************)
Current(p) == \* no later place has a skill of this name
    /\ file[p] # None /\ file[p].name \notin ignored
    /\ \A q \in Places : q > p /\ file[q] # None => file[q].name # file[p].name

(* A load during which no file was edited lists each skill that is not     *)
(* ignored once, as the last root that has it describes it now, whatever   *)
(* earlier and concurrent loads left in the caches.                        *)
ListIsCurrent ==
    \A l \in calm : load[l].at = "done" =>
        Range(Listed(l)) = {[place |-> p, name |-> file[p].name,
                             description |-> file[p].description] : p \in {q \in Places : Current(q)}}

(* The list stays within the budget; and descriptions are cut evenly: none *)
(* is shown longer by more than two characters than one that was cut.      *)
ListFits ==
    \A l \in Loads, limit \in Limits : load[l].at = "done" =>
        LET a == AvailableSkills(l, limit)
            list == Listed(l)
        IN /\ a.cost <= limit
           /\ \A i, j \in DOMAIN a.shown :
                 a.shown[i] < list[i].description => a.shown[j] <= a.shown[i] + 2
=============================================================================
