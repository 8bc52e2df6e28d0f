----------------------------- MODULE Transcript -----------------------------
(* What one turn promises about the rows it leaves in the history of its    *)
(* session, which the next model request is built from (docs/session-data.md): *)
(* the model is asked again only when every tool call it made has a result, *)
(* a call has at most one, the last request a turn may make offers no       *)
(* tools, and nothing but another closing row follows a closing row.        *)
EXTENDS Naturals

CONSTANTS Calls,       \* tool calls
          MaxRequests  \* model requests of one turn, the one without tools included

VARIABLES requests,    \* how often the model has been asked
          open,        \* calls that are recorded and have no result
          settled,     \* calls that have a result
          closed       \* the turn has its assistant or error row

vars == <<requests, open, settled, closed>>

Init ==
    /\ requests = 0
    /\ open = {}
    /\ settled = {}
    /\ closed = FALSE

Ask ==
    /\ ~ closed
    /\ open = {}
    /\ requests < MaxRequests
    /\ requests' = requests + 1
    /\ UNCHANGED <<open, settled, closed>>

Call(c) ==
    /\ ~ closed
    /\ requests \in 1..(MaxRequests - 1)
    /\ c \notin open \cup settled
    /\ open' = open \cup {c}
    /\ UNCHANGED <<requests, settled, closed>>

(* One row has the results of all the calls that are open.                  *)
Settle ==
    /\ ~ closed
    /\ open # {}
    /\ settled' = settled \cup open
    /\ open' = {}
    /\ UNCHANGED <<requests, closed>>

(* A hook, an error or an interrupt may close a turn whose calls are open.  *)
Close ==
    /\ ~ closed
    /\ closed' = TRUE
    /\ UNCHANGED <<requests, open, settled>>

Next == Ask \/ (\E c \in Calls : Call(c)) \/ Settle \/ Close

Spec == Init /\ [][Next]_vars
=============================================================================
