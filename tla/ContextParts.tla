---------------------------- MODULE ContextParts ----------------------------
(***************************************************************************)
(* What runs beside the guard of a stream and is proved about: the call    *)
(* that reads the stream, under a name of its own, with what it owes       *)
(* whatever its constants are.                                             *)
(***************************************************************************)
EXTENDS StreamGuard

CONSTANTS Ids, MaxCalls, MaxPieces, Attempts

VARIABLES world, rejected, signal, call, stream, pending, shown

M == INSTANCE ModelCall WITH page <- shown

modelVars == <<world, rejected, signal, call, stream, pending, shown>>

(* What an attempt reads is shown in its order; when a call returns the    *)
(* pages have the whole answer, and no call fails for its input while the  *)
(* provider takes the other serialization (ShownInOrder, AnswerShown and   *)
(* ServedWhenAccepted of ModelCall).                                       *)
AnswerShown == [](M!AnswerShown /\ M!ServedWhenAccepted) /\ M!ShownInOrder
=============================================================================
