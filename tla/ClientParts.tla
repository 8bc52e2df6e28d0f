----------------------------- MODULE ClientParts -----------------------------
(***************************************************************************)
(* What runs in the web client beside the queue of the server and is       *)
(* proved about: the dialogs that edit the queue and the requests a page   *)
(* sends, under names of their own, each with what it owes whatever its    *)
(* constants are.                                                          *)
(***************************************************************************)
EXTENDS RequestQueueRegistry

CONSTANTS Pages, Picks, Misfits, FileLimit, MaxItems, MaxSent, MaxTool, MaxLag,
          Absent, Drafts, MaxRequests, MaxEvents, None

VARIABLES edited, body, inside, denied, shown, seenAt, editor, sent, tool,
          active, ui, actions, attached, listed, socket, req, up, down,
          running, grants, runs, told, refused, strayed, webEvents

Q == INSTANCE QueueEditing WITH queue <- edited, refused <- denied, at <- seenAt
W == INSTANCE WebRequests WITH granted <- grants, events <- webEvents

ASSUME PartsAssumption ==
    Q!QueueEditingAssumption /\ W!BoundsAssumption /\ W!NamesAssumption

editingVars == <<edited, body, inside, denied, shown, seenAt, editor, sent, tool>>
webVars == <<active, ui, actions, attached, listed, socket, req, up, down,
             running, grants, runs, told, refused, strayed, webEvents>>

(* Whatever a page composes of files that fit the guards of the server     *)
(* accept, and an edit that reaches its item makes it what the dialog      *)
(* showed (ComposedIsAccepted and SavedAsDrafted of QueueEditing).         *)
EditsArrive == []Q!ComposedIsAccepted /\ Q!SavedAsDrafted

(* A request is answered by one turn at most; when all is quiet each has   *)
(* had its turn or its failure was shown, and every composer can send      *)
(* again (RunsOnce, NothingLost and ComposersFree of WebRequests).         *)
RequestsKept == W!RunsOnce /\ W!NothingLost /\ W!ComposersFree
=============================================================================
