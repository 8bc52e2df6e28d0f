------------------------------ MODULE TurnLoop ------------------------------
(***************************************************************************)
(* One turn from its user row to its end: the agent loop that asks the     *)
(* model, runs the tool calls of its answer side by side and asks again,   *)
(* with the rows it appends to the history, the hooks that may stop it,    *)
(* errors, and interrupt messages.  SessionRun has this as phase "model".  *)
(*                                                                         *)
(* As there, a step is the code between two awaits, and a checkpoint reads *)
(* the row and the active turn when its query returns.                     *)
(***************************************************************************)
EXTENDS Naturals, Sequences, FiniteSets, Functions

CONSTANTS Calls,          \* the tool calls the model may make in this turn
          Questions,      \* those that call askUserQuestion; others run a process
          Interrupts,     \* session.interrupt messages
          MaxIterations,  \* runtime.maxModelIterations, 500 by default
          MaxFaults,      \* bound: database, model and socket errors
          MaxCot          \* bound: cot_work events

ASSUME CallsAssumption == IsFiniteSet(Calls) /\ Questions \subseteq Calls
ASSUME LimitsAssumption ==
    /\ MaxIterations \in Nat \ {0}
    /\ {MaxFaults, MaxCot} \subseteq Nat

VARIABLES
    row,      \* turnphase and interruptrequested of the session row
    turn,     \* phase and signal in activeTurns, phase being set, failures
    pc,       \* where the pipeline is
    iter,     \* activeIteration
    asked,    \* model requests made (history)
    batch,    \* the tool calls of the iteration, in the model's order
    tool,     \* what has become of each call
    pending,  \* cot_work events waiting for all tools to end
    rows,     \* rows of this turn in sessiondata
    ipc,      \* where each interrupt message is
    seen,     \* the phase it found, until it writes it
    faults    \* errors so far

vars == <<row, turn, pc, iter, asked, batch, tool, pending, rows, ipc, seen, faults>>
work == <<iter, asked, batch, pending>>  \* what only the pipeline and its tools change
ints == <<ipc, seen>>

Phases == {"starting", "context", "model_request", "tool_execution", "finalizing",
           "interrupted"}
AbortPhases == {"model_request", "tool_execution"}

Init ==
    /\ row = [phase |-> "starting", intr |-> FALSE]
    /\ turn = [phase |-> "starting", goal |-> "starting", aborted |-> FALSE,
               interrupted |-> FALSE, attempts |-> 0]
    /\ pc = "start"
    /\ iter = 1
    /\ asked = 0
    /\ batch = <<>>
    /\ tool = [c \in Calls |-> "idle"]
    /\ pending = {}
    /\ rows = <<>>
    /\ ipc = [x \in Interrupts |-> "idle"]
    /\ seen = [x \in Interrupts |-> "starting"]
    /\ faults = 0

-----------------------------------------------------------------------------
(* Rows, failures and checkpoints                                           *)

Row(kind, calls, n) == [kind |-> kind, calls |-> calls, n |-> n]
Append1(r) == rows' = Append(rows, r)
OfKind(kind) == {i \in DOMAIN rows : rows[i].kind = kind}
CallsOf(kind) == UNION {rows[i].calls : i \in OfKind(kind)}

Fault == faults < MaxFaults /\ faults' = faults + 1

(* Seeded bug: a question does not listen to the signal.                    *)
ToldProcesses(t) ==
    [c \in Calls |-> IF t.aborted /\ tool[c] = "running" THEN "stopping" ELSE tool[c]]

(* An abort listener of each tool: a process is sent SIGTERM, later SIGKILL; *)
(* a question to the user is withdrawn.                                     *)
Told(t) ==
    [c \in Calls |-> CASE ~ t.aborted -> tool[c]
                       [] t.aborted /\ tool[c] = "running" -> "stopping"
                       [] t.aborted /\ tool[c] = "waiting" -> "closing"
                       [] OTHER -> tool[c]]

(* handleTurnFailure is tried a second time by handleUserRequest.           *)
Fail(t, isInterrupt) ==
    /\ turn' = [t EXCEPT !.attempts = @ + 1, !.interrupted = isInterrupt \/ t.aborted]
    /\ pc' = IF turn.attempts < 2 THEN "failing" ELSE "done"

(* Once the turn has left activeTurns its signal is not looked at.          *)
Seen == row.intr \/ (pc # "done" /\ turn.aborted)

(* The turn after a checkpoint that throws: the phase is the row's, which   *)
(* an interrupt has set to the phase it found, or the turn's.               *)
Stopped ==
    LET phase == IF row.phase # "idle" THEN row.phase ELSE turn.phase IN
    [turn EXCEPT !.aborted = @ \/ (pc # "done" /\ phase \in AbortPhases)]

CheckAt(next) ==
    /\ \/ ~ Seen /\ pc' = next /\ UNCHANGED <<turn, tool>>
       \/ Seen /\ Fail(Stopped, TRUE) /\ tool' = Told(Stopped)
    /\ UNCHANGED <<row, work, rows, ints, faults>>

(* setPhase: the active turn, then the row, then a checkpoint.              *)
EnterPhase(phase) ==
    /\ turn' = [turn EXCEPT !.phase = phase, !.goal = phase]
    /\ pc' = "phase"

WritePhase ==
    /\ pc = "phase"
    /\ row' = [row EXCEPT !.phase = turn.goal]
    /\ pc' = "check"
    /\ UNCHANGED <<turn, work, tool, rows, ints, faults>>

AfterPhase == [context |-> "prepare", model_request |-> "prepared",
               tool_execution |-> "execute", finalizing |-> "answering"]

Checkpoint == pc = "check" /\ CheckAt(AfterPhase[turn.goal])

-----------------------------------------------------------------------------
(* The pipeline                                                             *)

PrepareBeforeLoop ==
    /\ pc = "start"
    /\ EnterPhase("context")
    /\ UNCHANGED <<row, work, tool, rows, ints, faults>>

PrepareIteration == pc = "prepare" /\ CheckAt("refreshed")

RequestPhase ==
    /\ pc = "refreshed"
    /\ EnterPhase("model_request")
    /\ UNCHANGED <<row, work, tool, rows, ints, faults>>

(* The hooks turn.context.prepared, turn.tool.called (before the calls are  *)
(* recorded) and turn.tool.results.collected (before the results are) may   *)
(* end the turn with a text of their own.                                   *)
HookStops ==
    /\ pc \in {"prepared", "called", "collected"}
    /\ EnterPhase("finalizing")
    /\ UNCHANGED <<row, work, tool, rows, ints, faults>>

FinalRequest == iter > MaxIterations

CallModel ==
    /\ pc = "prepared"
    /\ asked' = asked + 1
    /\ pc' = "request"
    /\ UNCHANGED <<row, turn, iter, batch, tool, pending, rows, ints, faults>>

(* No tool calls, or any at all when the request offered no tools.          *)
ModelAnswers ==
    /\ pc = "request"
    /\ EnterPhase("finalizing")
    /\ UNCHANGED <<row, work, tool, rows, ints, faults>>

(* The hook that is called next may replace the calls, and leave none.      *)
ModelCalls ==
    /\ pc = "request"
    /\ ~ FinalRequest
    /\ \E new \in SUBSET {c \in Calls : tool[c] = "idle"} :
          batch' \in Bijection(1..Cardinality(new), new)
    /\ pc' = "called"
    /\ UNCHANGED <<row, turn, iter, asked, tool, pending, rows, ints, faults>>

(* The checkpoints at each piece of streamed text, reasoning and tool call. *)
ModelChecks ==
    /\ pc = "request"
    /\ Seen
    /\ Fail(Stopped, TRUE)
    /\ tool' = Told(Stopped)
    /\ UNCHANGED <<row, work, rows, ints, faults>>

(* The request rejects because its signal was raised.                       *)
ModelAborted ==
    /\ pc = "request"
    /\ turn.aborted
    /\ Fail(turn, FALSE)
    /\ UNCHANGED <<row, work, tool, rows, ints, faults>>

Unrecorded == {i \in DOMAIN batch : batch[i] \notin CallsOf("call")}

RecordCall ==
    /\ pc \in {"called", "recording"}
    /\ \E i \in Unrecorded :
          /\ \A j \in Unrecorded : i <= j
          /\ Append1(Row("call", {batch[i]}, 0))
    /\ pc' = "recording"
    /\ UNCHANGED <<row, turn, work, tool, ints, faults>>

ToolPhase ==
    /\ pc \in {"called", "recording"}
    /\ Unrecorded = {}
    /\ EnterPhase("tool_execution")
    /\ UNCHANGED <<row, work, tool, rows, ints, faults>>

ExecuteToolCalls ==
    /\ pc = "execute"
    /\ tool' = [c \in Calls |-> IF c \in Range(batch) THEN "starting" ELSE tool[c]]
    /\ pc' = "tools"
    /\ UNCHANGED <<row, turn, work, rows, ints, faults>>

(* Promise.all over the calls has all their results.                        *)
Joined ==
    /\ pc = "tools"
    /\ \A c \in Range(batch) : tool[c] \in {"ended", "cancelled"}
    /\ pc' = "commit"
    /\ UNCHANGED <<row, turn, work, tool, rows, ints, faults>>

(* Seeded bug: in the order of arrival.                                     *)
FirstArrived == {e \in pending : \A d \in pending : e.n <= d.n}

(* Sorted by the index of the tool call, then by arrival.                   *)
FirstPending ==
    LET At(e) == CHOOSE i \in DOMAIN batch : batch[i] = e.call
    IN  {e \in pending : \A d \in pending : At(e) < At(d) \/ (At(e) = At(d) /\ e.n <= d.n)}

CommitCot == pc = "commit" /\ pending # {} /\ CheckAt("committing")

AppendCot ==
    /\ pc = "committing"
    /\ \E e \in FirstPending :
          /\ Append1(Row("cot", {e.call}, e.n))
          /\ pending' = pending \ {e}
    /\ pc' = "committed"
    /\ UNCHANGED <<row, turn, iter, asked, batch, tool, ints, faults>>

CotCommitted == pc = "committed" /\ CheckAt("commit")

(* Seeded bug: the results of all calls but the first.                      *)
ResultsButFirst == Row("result", {batch[i] : i \in 2..Len(batch)}, 0)

Results == Row("result", Range(batch), 0)

(* An aborted batch gets its result row, and then the checkpoint throws.    *)
KeepAborted ==
    /\ pc = "commit"
    /\ pending = {}
    /\ turn.aborted
    /\ Append1(Results)
    /\ pc' = "kept"
    /\ UNCHANGED <<row, turn, work, tool, ints, faults>>

NothingAborted ==
    /\ pc = "commit"
    /\ pending = {}
    /\ ~ turn.aborted
    /\ pc' = "collecting"
    /\ UNCHANGED <<row, turn, work, tool, rows, ints, faults>>

CollectResults == pc \in {"kept", "collecting"} /\ CheckAt("collected")

AppendResults ==
    /\ pc = "collected"
    /\ Append1(Results)
    /\ pc' = "resuming"
    /\ UNCHANGED <<row, turn, work, tool, ints, faults>>

Resume ==
    /\ pc = "resuming"
    /\ iter' = iter + 1
    /\ batch' = <<>>
    /\ pc' = "prepare"
    /\ UNCHANGED <<row, turn, asked, tool, pending, rows, ints, faults>>

AppendAnswer ==
    /\ pc = "answering"
    /\ Append1(Row("answer", {}, 0))
    /\ pc' = "closed"
    /\ UNCHANGED <<row, turn, work, tool, ints, faults>>

(* The assistant or error row of handleTurnFailure.                         *)
AppendFailure ==
    /\ pc = "failing"
    /\ Append1(Row("cut", {}, 0))
    /\ pc' = "closed"
    /\ UNCHANGED <<row, turn, work, tool, ints, faults>>

(* Seeded bug: a turn that has its closing row is still interrupted.        *)
EndTurnUnlessSeen ==
    /\ pc = "closed"
    /\ \/ Seen /\ Fail(Stopped, TRUE) /\ UNCHANGED row
       \/ /\ ~ Seen
          /\ row' = [phase |-> "idle", intr |-> FALSE]
          /\ pc' = "ended"
          /\ UNCHANGED turn
    /\ UNCHANGED <<work, tool, rows, ints, faults>>

EndTurn ==
    /\ pc = "closed"
    /\ row' = [phase |-> "idle", intr |-> row.intr /\ ~ turn.interrupted]
    /\ pc' = "ended"
    /\ UNCHANGED <<turn, work, tool, rows, ints, faults>>

(* The turn.end hook has run and the turn leaves activeTurns.               *)
Complete ==
    /\ pc = "ended"
    /\ pc' = "done"
    /\ UNCHANGED <<row, turn, work, tool, rows, ints, faults>>

TurnFault ==
    /\ pc \notin {"tools", "done"}
    /\ Fault
    /\ Fail(turn, FALSE)
    /\ UNCHANGED <<row, work, tool, rows, ints>>

-----------------------------------------------------------------------------
(* The tools of a batch                                                     *)

SetTool(c, status) == tool' = [tool EXCEPT ![c] = status]

ByKind(c, process, question) == IF c \in Questions THEN question ELSE process

(* Seeded bug: the signal is not looked at before a tool runs.              *)
ToolStartsUnaware(c) ==
    /\ tool[c] = "starting"
    /\ ~ Seen
    /\ SetTool(c, ByKind(c, "running", "waiting"))
    /\ UNCHANGED <<row, turn, pc, work, rows, ints, faults>>

(* onToolStarted is a checkpoint; after it the tool runs, or, when the      *)
(* signal is already raised, is told to stop at once.                       *)
ToolStarts(c) ==
    /\ tool[c] = "starting"
    /\ ~ Seen
    /\ SetTool(c, IF turn.aborted THEN ByKind(c, "stopping", "closing")
                                  ELSE ByKind(c, "running", "waiting"))
    /\ UNCHANGED <<row, turn, pc, work, rows, ints, faults>>

(* An unknown tool, arguments that make no question, a failed spawn.        *)
ToolFails(c) ==
    /\ tool[c] = "starting"
    /\ SetTool(c, "ended")
    /\ UNCHANGED <<row, turn, pc, work, rows, ints, faults>>

(* A rejected call rejects Promise.all: the pipeline fails at once, while   *)
(* the other calls go on.                                                   *)
Throws(c, t, isInterrupt) ==
    /\ tool' = [Told(t) EXCEPT ![c] = "threw"]
    /\ IF pc = "tools" THEN Fail(t, isInterrupt) ELSE turn' = t /\ UNCHANGED pc

(* The checkpoints before a tool runs, and of a question that was withdrawn. *)
ToolThrows(c) ==
    /\ tool[c] \in {"starting", "closing"}
    /\ Seen
    /\ Throws(c, Stopped, TRUE)
    /\ UNCHANGED <<row, work, rows, ints, faults>>

(* What the observers of a process throw only stops the process.            *)
ToolChecks(c) ==
    /\ tool[c] = "running"
    /\ Seen
    /\ turn' = Stopped
    /\ tool' = [Told(Stopped) EXCEPT ![c] = "stopping"]
    /\ UNCHANGED <<row, pc, work, rows, ints, faults>>

(* An event that a process prints after the pipeline has failed goes to a   *)
(* list nobody reads.                                                       *)
EmitCot(c) ==
    /\ tool[c] \in {"running", "stopping"}
    /\ pc = "tools"
    /\ ~ Seen
    /\ LET n == Cardinality(pending) + Cardinality(OfKind("cot")) + 1 IN
          /\ n <= MaxCot
          /\ pending' = pending \cup {[call |-> c, n |-> n]}
    /\ UNCHANGED <<row, turn, pc, iter, asked, batch, tool, rows, ints, faults>>

(* A process ends by itself or by its time limit.                           *)
ProcessEnds(c) ==
    /\ tool[c] = "running"
    /\ SetTool(c, "ended")
    /\ UNCHANGED <<row, turn, pc, work, rows, ints, faults>>

(* The answer is shown in the sidebar, between two checkpoints.             *)
QuestionAnswered(c) ==
    /\ tool[c] = "waiting"
    /\ IF Seen
       THEN Throws(c, Stopped, TRUE)
       ELSE SetTool(c, "ended") /\ UNCHANGED <<turn, pc>>
    /\ UNCHANGED <<row, work, rows, ints, faults>>

ToolCancelled(c) ==
    /\ \/ tool[c] = "stopping"
       \/ tool[c] = "closing" /\ ~ Seen
    /\ SetTool(c, "cancelled")
    /\ UNCHANGED <<row, turn, pc, work, rows, ints, faults>>

(* A send to the clients fails: at the start or the end of a call it rejects *)
(* the call, while a process runs it stops the process.                     *)
ToolFault(c) ==
    /\ Fault
    /\ \/ /\ tool[c] \in {"starting", "running", "stopping", "waiting", "closing"}
          /\ Throws(c, turn, FALSE)
       \/ /\ tool[c] = "running"
          /\ SetTool(c, "stopping")
          /\ UNCHANGED <<turn, pc>>
    /\ UNCHANGED <<row, work, rows, ints>>

-----------------------------------------------------------------------------
(* session.interrupt                                                        *)

IntAccept(x) ==
    /\ ipc[x] = "idle"
    /\ pc # "done"
    /\ seen' = [seen EXCEPT ![x] = turn.phase]
    /\ ipc' = [ipc EXCEPT ![x] = "accepted"]
    /\ UNCHANGED <<row, turn, pc, work, tool, rows, faults>>

IntRequest(x) ==
    /\ ipc[x] = "accepted"
    /\ row' = [phase |-> seen[x], intr |-> TRUE]
    /\ ipc' = [ipc EXCEPT ![x] = "requested"]
    /\ seen' = [seen EXCEPT ![x] = "starting"]
    /\ UNCHANGED <<turn, pc, work, tool, rows, faults>>

Interrupted == [turn EXCEPT !.phase = "interrupted",
                            !.aborted = @ \/ turn.phase \in AbortPhases]

(* requestRuntimeTurnInterrupt; without a turn, completeSessionInterrupt.   *)
IntRuntime(x) ==
    /\ ipc[x] = "requested"
    /\ \/ /\ pc # "done"
          /\ turn' = Interrupted
          /\ tool' = Told(Interrupted)
          /\ UNCHANGED row
       \/ /\ pc = "done"
          /\ row' = [phase |-> "idle", intr |-> FALSE]
          /\ UNCHANGED <<turn, tool>>
    /\ ipc' = [ipc EXCEPT ![x] = "done"]
    /\ UNCHANGED <<pc, work, rows, seen, faults>>

-----------------------------------------------------------------------------
(* What the pipeline does without the model or a hook deciding to.          *)
Pipeline ==
    \/ PrepareBeforeLoop \/ WritePhase \/ Checkpoint \/ PrepareIteration
    \/ RequestPhase \/ CallModel \/ ModelAborted \/ RecordCall \/ ToolPhase
    \/ ExecuteToolCalls \/ Joined \/ CommitCot \/ AppendCot \/ CotCommitted
    \/ KeepAborted \/ NothingAborted \/ CollectResults \/ AppendResults \/ Resume
    \/ AppendAnswer \/ AppendFailure \/ EndTurn \/ Complete

(* What a call does without its user answering or its process printing.     *)
ToolStep(c) ==
    ToolStarts(c) \/ ToolThrows(c) \/ ProcessEnds(c) \/ ToolCancelled(c)

Next ==
    \/ Pipeline
    \/ HookStops \/ ModelAnswers \/ ModelCalls \/ ModelChecks \/ TurnFault
    \/ \E c \in Calls :
          ToolStep(c) \/ ToolFails(c) \/ ToolChecks(c) \/ EmitCot(c)
          \/ QuestionAnswered(c) \/ ToolFault(c)
    \/ \E x \in Interrupts : IntAccept(x) \/ IntRequest(x) \/ IntRuntime(x)

Spec == Init /\ [][Next]_vars

FairSpec ==
    /\ Spec
    /\ WF_vars(Pipeline)
    /\ \A c \in Calls : WF_vars(ToolStep(c))
    /\ \A x \in Interrupts : WF_vars(IntRequest(x)) /\ WF_vars(IntRuntime(x))

-----------------------------------------------------------------------------
(* Properties                                                               *)

PcsOfTurn ==
    {"start", "phase", "check", "prepare", "refreshed", "prepared", "request", "called",
     "recording", "execute", "tools", "commit", "committing", "committed", "kept",
     "collecting", "collected", "resuming", "answering", "failing", "closed", "ended",
     "done"}

ToolStatuses ==
    {"idle", "starting", "running", "waiting", "stopping", "closing", "ended",
     "cancelled", "threw"}

(* The types of the variables; among them, that a turn has one iteration    *)
(* more than it is allowed, for the closing request, and three failures.    *)
TypeOK ==
    /\ row \in [phase : Phases \cup {"idle"}, intr : BOOLEAN]
    /\ turn \in [phase : Phases, goal : Phases, aborted : BOOLEAN, interrupted : BOOLEAN,
                 attempts : 0..3]
    /\ pc \in PcsOfTurn
    /\ iter \in 1..(MaxIterations + 1)
    /\ asked \in 0..(MaxIterations + 1)
    /\ batch \in Seq(Calls)
    /\ tool \in [Calls -> ToolStatuses]
    /\ pending \subseteq [call : Calls, n : 1..MaxCot]
    /\ \A i \in DOMAIN rows :
          rows[i] \in [kind : {"call", "cot", "result", "answer", "cut"},
                      calls : SUBSET Calls, n : 0..MaxCot]
    /\ ipc \in [Interrupts -> {"idle", "accepted", "requested", "done"}]
    /\ seen \in [Interrupts -> Phases]
    /\ faults \in 0..MaxFaults

(* The loop keeps what Transcript promises of the rows: whatever hooks,     *)
(* errors and interrupts do, the model is asked again only with a result    *)
(* for each call, and nothing but a failure row follows the closing row.    *)
Transcribed == INSTANCE Transcript WITH
    MaxRequests <- MaxIterations + 1,
    requests <- asked,
    open <- CallsOf("call") \ CallsOf("result"),
    settled <- CallsOf("result"),
    closed <- OfKind("answer") \cup OfKind("cut") # {}

HistoryKept == Transcribed!Spec

(* docs/runtime-control.md: cot_work rows are in the order of the tool calls *)
(* and, for one call, of its events, however the processes ran.             *)
CotInOrder ==
    LET CallAt(i) == CHOOSE j \in OfKind("call") : rows[j].calls = rows[i].calls
    IN  \A i, j \in OfKind("cot") :
          i < j => \/ CallAt(i) < CallAt(j)
                   \/ CallAt(i) = CallAt(j) /\ rows[i].n < rows[j].n

(* A turn that is over has a closing row, and a second only if an error     *)
(* struck after the first: no interrupt, however late, adds one.            *)
ClosedOnce ==
    LET closings == Cardinality(OfKind("answer") \cup OfKind("cut"))
    IN  /\ closings <= 1 + faults
        /\ pc = "done" /\ faults = 0 => closings = 1

(* Once the signal is raised no tool is left that was not told, not even    *)
(* one that starts when the turn is already over.                           *)
AbortReachesTools ==
    turn.aborted => \A c \in Calls : tool[c] \notin {"running", "waiting"}

(* A turn for which an interrupt is recorded ends, though neither the model *)
(* nor a user ever answers.                                                 *)
InterruptedTurnEnds == (row.intr /\ pc # "done") ~> (pc = "done")

=============================================================================
