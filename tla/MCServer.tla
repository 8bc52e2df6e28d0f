------------------------------ MODULE MCServer ------------------------------
(***************************************************************************)
(* The server: the lock that makes it the only one, the heartbeat of its   *)
(* connections, chat messages, tools that are processes, and the hooks of  *)
(* a turn. The components share nothing: a behaviour is one of one         *)
(* component, and the others stand still in an initial state.              *)
(***************************************************************************)
EXTENDS InstanceLock, ServerParts

CONSTANTS Clients, Limit, MaxLines

VARIABLES part, \* the component that runs; the others stand still
          socket, live, pong, missed, pings, pongs, silence, os, pipe, run,
          lines, got, tasks, told, abort, result

H == INSTANCE Heartbeat
T == INSTANCE ToolProcess WITH signal <- abort

heartbeatVars == <<socket, live, pong, missed, pings, pongs, silence>>
toolVars == <<os, pipe, run, lines, got, tasks, told, abort, result>>
all == <<part, vars, heartbeatVars, chatVars, toolVars, hooksVars>>

ASSUME MCAssumption ==
    /\ H!HeartbeatAssumption /\ K!BoundsAssumption /\ K!NoneAssumption /\ T!LinesAssumption
    /\ H2!InputsAssumption /\ H2!LimitsAssumption /\ H2!NoneAssumption

(* Texts with and without each marker; a body may be absent. *)
MCInputs == [marks : SUBSET {"thinking", "skill", "rewriter"}, body : {0, None}]

MCInit ==
    /\ part \in {"lock", "heartbeat", "chat", "tool", "hooks"}
    /\ Init
    /\ H!HInit
    /\ K!Init
    /\ T!Init /\ (part = "tool" \/ (~abort))
    /\ H2!Init /\ (part = "hooks" \/ (turn.text = (CHOOSE t \in Inputs : TRUE) /\ ~turn.queued))

LockStep(A) == part = "lock" /\ A /\ UNCHANGED <<part, heartbeatVars, chatVars, toolVars, hooksVars>>
HeartbeatStep(A) == part = "heartbeat" /\ A /\ UNCHANGED <<part, vars, chatVars, toolVars, hooksVars>>
ChatStep(A) == part = "chat" /\ A /\ UNCHANGED <<part, vars, heartbeatVars, toolVars, hooksVars>>
ToolStep(A) == part = "tool" /\ A /\ UNCHANGED <<part, vars, heartbeatVars, chatVars, hooksVars>>
HooksStep(A) == part = "hooks" /\ A /\ UNCHANGED <<part, vars, heartbeatVars, chatVars, toolVars>>

MCNext ==
    \/ LockStep(Next)
    \/ HeartbeatStep(H!HNext)
    \/ ChatStep(K!Next)
    \/ ToolStep(T!Next)
    \/ HooksStep(H2!Next)

MCSpec ==
    /\ MCInit /\ [][MCNext]_all
    /\ WF_all(\/ HeartbeatStep(H!Tick)
              \/ ToolStep(T!Started)
              \/ HooksStep(H2!Step))
    /\ WF_all(\/ HeartbeatStep(\E c \in Clients : H!Pong(c))
              \/ ToolStep(T!Spawn))
    /\ WF_all(\/ HeartbeatStep(\E c \in Clients : H!TerminatedClose(c))
              \/ ToolStep(T!Data))
    /\ WF_all(ToolStep(T!Collect))
    /\ WF_all(ToolStep(T!Timeout))
    /\ WF_all(ToolStep(T!Kill))
    /\ WF_all(ToolStep(T!Close))
    /\ WF_all(ToolStep(T!Resolve))
    /\ WF_all(ToolStep(T!Finish))
    /\ WF_all(ToolStep(\E t \in tasks : T!Report(t)))

(* The heartbeat ends a connection only after the ticks it allows, and the *)
(* one whose client has vanished for sure (Patient and VanishedLeaves of   *)
(* Heartbeat).                                                             *)
VanishedLeaves == H!Patient /\ (part = "heartbeat" => H!VanishedLeaves)

(* A tool call ends although its process may run for ever and ignore the   *)
(* request to stop, and its result has every line the process wrote        *)
(* (CallEnds and NothingLeftOut of ToolProcess).                           *)
ToolCallEnds == []T!NothingLeftOut /\ (part = "tool" => T!CallEnds)

(* What docs/session-data.md:17 and 452 say: a turn ends with a response,  *)
(* an interruption or a failure, and a failure is visible as an assistant  *)
(* row (FailureRecorded of Hooks).                                         *)
FailureRecorded == H2!FailureRecorded

(* The hooks of a turn come to an end, the rewriter's own model loop too   *)
(* (HooksEnd of Hooks).                                                    *)
HooksEnd == part = "hooks" => H2!HooksEnd
=============================================================================
