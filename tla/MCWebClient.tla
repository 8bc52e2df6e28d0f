----------------------------- MODULE MCWebClient -----------------------------
(***************************************************************************)
(* The web client of a session: the editing of its request queue and the   *)
(* queue in the server, the page of a running session, and the requests    *)
(* the page sends. The components share nothing: a behaviour is one of one *)
(* component, and the others stand still in an initial state.              *)
(***************************************************************************)
EXTENDS RequestQueueRegistry, ClientParts, TLC

CONSTANTS MaxTurns, MaxDeltas, MaxSummaries, MaxNet, LiveEvents

VARIABLES part, \* the component that runs; the others stand still
          rows, clock, turn, at, deltas, signal, closing, int, deleted,
          events, granted, net, asks, view, dropped, ghosts, late

L == INSTANCE LiveSession WITH page <- view, MaxEvents <- LiveEvents

liveVars == <<rows, clock, turn, at, deltas, signal, closing, int, deleted,
              events, granted, net, asks, view, dropped, ghosts, late>>
all == <<part, vars, editingVars, liveVars, webVars>>

ASSUME MCAssumption ==
    /\ Q!QueueEditingAssumption /\ L!BoundsAssumption
    /\ W!BoundsAssumption /\ W!NamesAssumption

Alike == Permutations(Drafts)

MCInit ==
    /\ part \in {"registry", "editing", "live", "web"}
    /\ Init
    /\ Q!Init
    /\ L!Init
    /\ W!Init /\ (part = "web" \/ (active = 0))

RegistryStep(A) == part = "registry" /\ A /\ UNCHANGED <<part, editingVars, liveVars, webVars>>
EditingStep(A) == part = "editing" /\ A /\ UNCHANGED <<part, vars, liveVars, webVars>>
LiveStep(A) == part = "live" /\ A /\ UNCHANGED <<part, vars, editingVars, webVars>>
WebStep(A) == part = "web" /\ A /\ UNCHANGED <<part, vars, editingVars, liveVars>>

MCNext ==
    \/ RegistryStep(Next)
    \/ EditingStep(Q!Next)
    \/ LiveStep(L!Next)
    \/ WebStep(W!Next)

MCSpec == MCInit /\ [][MCNext]_all

(* When all is quiet the page shows the messages of the session, in order  *)
(* and once each, and does not show that it runs; a summary never reopens  *)
(* a card (ChatConverges, RunningConverges and SummaryReopensNothing of    *)
(* LiveSession).                                                           *)
Converges ==
    /\ [](part = "live" => L!ChatConverges /\ L!RunningConverges)
    /\ L!SummaryReopensNothing
=============================================================================
