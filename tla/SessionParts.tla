---------------------------- MODULE SessionParts ----------------------------
(***************************************************************************)
(* What runs beside the turns of a session, under names of its own: the    *)
(* clients its questions go to and the selfcheck of its rows, each with    *)
(* what it owes whatever its constants are.                                *)
(***************************************************************************)

CONSTANTS Pages, Questions, Attaches, Root, Sub, ClientEvents, Jobs, Conns,
          Issues, RowIssue, Batch, Analyses, MaxAttempts, Nobody, MaxFaults

VARIABLES conn, grants, attach, question, pending, net, answers, dialog,
          sending, shown, displaced, events, begun, visible, late, cursor,
          cand, count, locks, running, due, job, orphans, shared, selfFaults

C == INSTANCE SessionClients WITH MaxEvents <- ClientEvents, None <- Nobody
S == INSTANCE Selfcheck WITH faults <- selfFaults, None <- Nobody

clientsVars == <<conn, grants, attach, question, pending, net, answers,
                 dialog, sending, shown, displaced, events>>
selfcheckVars == <<begun, visible, late, cursor, cand, count, locks,
                   running, due, job, orphans, shared, selfFaults>>

(* A pending question reaches every connection that owns the grant and     *)
(* stays on its page until it is over or displaced; a question that is     *)
(* over is closed with the reason it ended for (NoQuestionMissed,          *)
(* NoStaleDialog, ClosedAsEnded and ShownUntilOver of SessionClients).     *)
DialogsTrue ==
    C!NoQuestionMissed /\ C!NoStaleDialog /\ C!ClosedAsEnded /\ C!ShownUntilOver

(* No evidence is passed over, a candidate is "analyzing" only while a run *)
(* works on it and is judged once, and the scheduler is busy only while    *)
(* its run is (EvidenceKept, AnalyzingIsWorkedOn, SchedulerFreed and       *)
(* JudgedOnce of Selfcheck).                                               *)
SelfcheckSound ==
    /\ [](S!EvidenceKept /\ S!AnalyzingIsWorkedOn /\ S!SchedulerFreed)
    /\ S!JudgedOnce
=============================================================================
