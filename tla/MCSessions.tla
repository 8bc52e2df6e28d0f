----------------------------- MODULE MCSessions -----------------------------
(***************************************************************************)
(* What surrounds the turns of a session: its deletion, branching and      *)
(* interruption, the clients its questions go to, and the selfcheck of its *)
(* rows. The components share nothing: a behaviour is one of one           *)
(* component, and the others stand still in an initial state.              *)
(***************************************************************************)
EXTENDS SessionLifecycle, SessionParts, TLC

CONSTANTS i1, i2

VARIABLE part \* the component that runs; the others stand still

all == <<part, vars, clientsVars, selfcheckVars>>

ASSUME MCAssumption == C!NoneAssumption /\ S!SelfcheckAssumption

(* A row each of two issues; the hook audit is empty. *)
MCRowIssue == ("tool" :> <<i1, i2>>) @@ ("hook" :> << >>)

Interchangeable == Permutations(Turns) \cup Permutations(Jobs) \cup Permutations(Conns)

MCInit ==
    /\ part \in {"lifecycle", "clients", "selfcheck"}
    /\ Init
    /\ C!Init
    /\ S!Init

LifecycleStep(A) == part = "lifecycle" /\ A /\ UNCHANGED <<part, clientsVars, selfcheckVars>>
ClientsStep(A) == part = "clients" /\ A /\ UNCHANGED <<part, vars, selfcheckVars>>
SelfcheckStep(A) == part = "selfcheck" /\ A /\ UNCHANGED <<part, vars, clientsVars>>

MCNext ==
    \/ LifecycleStep(Next)
    \/ ClientsStep(C!Next)
    \/ SelfcheckStep(S!Next)

MCSpec == MCInit /\ [][MCNext]_all
=============================================================================
