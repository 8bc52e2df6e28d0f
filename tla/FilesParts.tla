----------------------------- MODULE FilesParts -----------------------------
(***************************************************************************)
(* What is kept in files beside the folder of a patched model and is       *)
(* proved about: settings.json and the folders of projects, under names of *)
(* their own, each with what it owes whatever its constants are.           *)
(***************************************************************************)
EXTENDS ModelPatch

CONSTANTS Providers, Models, Embeddings, MaxOps, MaxCrashes, Empty, Mixed,
          None, Projects, Pages, MaxDeletes, MaxCreates, MaxSessions, MaxWork

VARIABLES settings, op, tab, crashes, dirs, sessions, pending, docs, menu,
          work, deletes, creates, overlapped, lost

G == INSTANCE Settings WITH file <- settings
J == INSTANCE Projects WITH crossed <- overlapped

settingsVars == <<settings, op, tab, crashes>>
projectsVars == <<dirs, sessions, pending, docs, menu, work, deletes,
                  creates, overlapped, lost>>

(* A settings document that can be read names a default model it has and   *)
(* embeddings of a provider it has (References of Settings).               *)
References == G!References

(* A deletion removes the folder it was asked to remove, leaves no older   *)
(* session without its folder, and no page with an active project that is  *)
(* not listed (NewFolderKept, OrphansAreLate and ActiveIsListed of         *)
(* Projects).                                                              *)
ProjectsKept == J!NewFolderKept /\ J!OrphansAreLate /\ J!ActiveIsListed
=============================================================================
