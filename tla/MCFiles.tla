------------------------------- MODULE MCFiles -------------------------------
(***************************************************************************)
(* What is kept in files: the folder of a patched model, the settings, the *)
(* folders of projects, and the skills with their caches. The components   *)
(* share nothing: a behaviour is one of one component, and the others      *)
(* stand still in an initial state.                                        *)
(***************************************************************************)
EXTENDS ModelPatch, FilesParts, TLC

CONSTANTS Loads, Root, Names, Lengths, Broken, Line, PathLength,
          AliasLength, RootLine, Intro, Limits, SkillEdits

VARIABLES part, \* the component that runs; the others stand still
          file, cache, load, ignored, skillEdits, calm

S == INSTANCE SkillList WITH MaxEdits <- SkillEdits, edits <- skillEdits

skillsVars == <<file, cache, load, ignored, skillEdits, calm>>
all == <<part, vars, settingsVars, projectsVars, skillsVars>>

ASSUME MCAssumption ==
    /\ G!BoundsAssumption /\ J!BoundsAssumption /\ S!BudgetAssumption

(* A skill directory in the user's root and one in the system's. *)
MCRoot == <<"user", "system">>

Symmetry == Permutations(Folders)

MCInit ==
    /\ part \in {"patch", "settings", "projects", "skills"}
    /\ Init /\ (part = "patch" \/ (yaml = [f \in Folders |-> Absent]))
    /\ G!Init /\ (part = "settings" \/ (settings = G!Doc0))
    /\ J!Init
    /\ S!Init /\ (part = "skills" \/ (file = [p \in S!Places |-> None] /\ ignored = {}))

PatchStep(A) == part = "patch" /\ A /\ UNCHANGED <<part, settingsVars, projectsVars, skillsVars>>
SettingsStep(A) == part = "settings" /\ A /\ UNCHANGED <<part, vars, projectsVars, skillsVars>>
ProjectsStep(A) == part = "projects" /\ A /\ UNCHANGED <<part, vars, settingsVars, skillsVars>>
SkillsStep(A) == part = "skills" /\ A /\ UNCHANGED <<part, vars, settingsVars, projectsVars>>

MCNext ==
    \/ PatchStep(Next)
    \/ SettingsStep(G!Next)
    \/ ProjectsStep(J!Next)
    \/ SkillsStep(S!Next)

MCSpec == MCInit /\ [][MCNext]_all

(* A list of skills names each skill as the last root that has it          *)
(* describes it, within its budget, with the descriptions cut evenly       *)
(* (ListIsCurrent and ListFits of SkillList).                              *)
SkillsListed == S!ListIsCurrent /\ S!ListFits
=============================================================================
