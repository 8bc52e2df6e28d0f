----------------------------- MODULE ServerParts -----------------------------
(***************************************************************************)
(* What runs in the server beside its lock and is proved about: the chats  *)
(* and the hooks of a turn, under names of their own, each with what it    *)
(* owes whatever its constants are.                                        *)
(***************************************************************************)
EXTENDS InstanceLock

CONSTANTS MaxRequests, MaxEvents, Inputs, UserHooks, MaxIterations,
          RewriterLimit, MaxEffects

VARIABLES surface, ui, actions, req, loads, row, folder, del, hurt, chatEvents,
          event, todo, effect, seen, turn, rewrite, effects

K == INSTANCE Chat WITH events <- chatEvents
H2 == INSTANCE Hooks

chatVars == <<surface, ui, actions, req, loads, row, folder, del, hurt,
              chatEvents>>
hooksVars == <<event, todo, effect, seen, turn, rewrite, effects>>

(* A chat is locked on the page only while a submission is under way, and  *)
(* marked as running without a turn only by a crash or by an error outside *)
(* the turn's try block (ChatsFree and LockedByCutOff of Chat).            *)
ChatsFree == K!ChatsFree /\ K!LockedByCutOff

(* The turn goes on with what the last executor of an event left, runs the *)
(* request it claimed, and records no marker of a hook (AppliedAsSeen,     *)
(* ClaimRuns and MarkersGone of Hooks).                                    *)
HooksApplied == H2!AppliedAsSeen /\ H2!ClaimRuns /\ H2!MarkersGone
=============================================================================
