----------------------------- MODULE SessionRun -----------------------------
(***************************************************************************)
(* One session of the agent server: its row in PostgreSQL, its in-memory   *)
(* request queue, the guard that keeps a second run from being launched,   *)
(* and the turns run on it.  A thread is one socket message being handled  *)
(* together with everything it launches: session.input (Inputs) starts a   *)
(* turn, session.request_queue.add (Adds) queues a request and may start   *)
(* the queue; both may then run queued requests one after the other.       *)
(* Interrupt messages (Interrupts) run beside them.                        *)
(*                                                                         *)
(* Node runs one piece of code at a time, so a step is the code between    *)
(* two awaits of a database query, a file write or a socket send; other    *)
(* threads run at the awaits.  The iterations of the agent loop between    *)
(* the phases "context" and "finalizing" are one phase here, "model".      *)
(***************************************************************************)
EXTENDS RequestQueue

CONSTANTS Inputs,      \* session.input messages
          Adds,        \* queue add messages; also the ids of the items they add
          Interrupts,  \* session.interrupt messages
          None,        \* no item, no thread
          MaxChain,    \* maxTriggeredRequests, 100 in the code
          MaxFaults,   \* bound: database, model or socket errors
          MaxCrashes,  \* bound: restarts of the server process
          MaxEdits     \* bound: deletes and rewrites of queued items

Threads == Inputs \cup Adds

ASSUME ThreadsAssumption ==
    /\ Inputs \cap Adds = {}
    /\ Threads \cap Interrupts = {}
    /\ None \notin Threads
ASSUME BoundsAssumption ==
    /\ MaxChain \in Nat \ {0}
    /\ {MaxFaults, MaxCrashes, MaxEdits} \subseteq Nat

VARIABLES
    row,       \* the session row: isrunning, turnphase, interruptrequested
    queue,     \* sessionRequestQueues of this session
    guard,     \* the session is in runningQueuedSessionRequests
    scope,     \* the thread whose turn is in activeTurns, or None
    pc,        \* where each thread is
    snap,      \* isrunning as the thread last read it
    job,       \* the queued request a thread runs, the one it will run next
    turn,      \* the turn a thread runs
    ipc,       \* where each interrupt message is
    seen,      \* what an interrupt message read: the row, then the turn's phase
    unmarked,  \* live turns whose isrunning mark something has cleared
    env        \* how many faults, crashes and edits have happened

vars == <<row, queue, guard, scope, pc, snap, job, turn, ipc, seen, unmarked, env>>

-----------------------------------------------------------------------------
(* "model" stands for model_request and tool_execution, which the agent     *)
(* loop alternates between "context" and "finalizing".                      *)
Phases == {"starting", "compacting", "context", "model", "finalizing", "interrupted"}

(* turnInterruptPolicy: the phases whose abort signal an interrupt raises;  *)
(* in the others the turn finds the request at its next checkpoint.         *)
AbortPhases == {"model"}

NoJob  == [req |-> None, next |-> None, number |-> 0]
NoTurn == [phase |-> "starting", goal |-> "starting", aborted |-> FALSE,
           interrupted |-> FALSE, attempts |-> 0]
NoRow  == [running |-> FALSE, phase |-> "idle"]

QuietPcs == {"idle", "checking", "attaching", "adding", "added", "done"}
DrainPcs == {"drain", "drainGo", "drainNone", "drainClaimed", "chain", "chainGo"}
LivePcs  == {"scope", "setup", "phase", "check", "compacted", "input", "context",
             "model", "answering", "failing"}
EndPcs   == {"ended", "hooked", "completed", "leaving"}
GuardedPcs == DrainPcs \cup {"start"} \cup LivePcs \cup EndPcs

(* A turn is live from the update that sets isrunning to the one that ends it. *)
Live(r) == pc[r] \in LivePcs

Init ==
    /\ row = [running |-> FALSE, phase |-> "idle", intr |-> FALSE]
    /\ queue = EmptyQueue
    /\ guard = FALSE
    /\ scope = None
    /\ pc = [r \in Threads |-> "idle"]
    /\ snap = [r \in Threads |-> FALSE]
    /\ job = [r \in Threads |-> NoJob]
    /\ turn = [r \in Threads |-> NoTurn]
    /\ ipc = [x \in Interrupts |-> "idle"]
    /\ seen = [x \in Interrupts |-> NoRow]
    /\ unmarked = {}
    /\ env = [faults |-> 0, crashes |-> 0, edits |-> 0]

-----------------------------------------------------------------------------
(* Pieces shared by the actions.                                            *)

Goto(r, p) == pc' = [pc EXCEPT ![r] = p]

ReadRow(r, p) ==
    /\ snap' = [snap EXCEPT ![r] = row.running]
    /\ Goto(r, p)
    /\ UNCHANGED <<row, queue, guard, scope, job, turn, ipc, seen, unmarked, env>>

(* A local variable of a handler that is not read again.                    *)
Forget(r) == snap' = [snap EXCEPT ![r] = FALSE]

Fault ==
    /\ env.faults < MaxFaults
    /\ env' = [env EXCEPT !.faults = @ + 1]

(* UPDATE ... SET isrunning = false, turnphase = 'idle' for thread r: any   *)
(* other turn that is live loses its mark.                                  *)
ClearRunning(r, intr) ==
    /\ row' = [running |-> FALSE, phase |-> "idle", intr |-> intr]
    /\ unmarked' = (unmarked \cup {s \in Threads : Live(s)}) \ {r}

(* interrupt.complete(): only the turn's own entry is removed.              *)
LeaveScope(r) == scope' = IF scope = r THEN None ELSE scope

(* releaseTurnEndRequestClaim: an input's own first turn has no claim.      *)
Unclaim(q, id) == IF id = None THEN q ELSE Release(q, id)

(* Seeded bug: without a launch the guard is kept.                          *)
FinishKeepingGuard(r, afterRelease) ==
    LET again == afterRelease /\ HasItems(queue)
    IN  /\ guard' = (again \/ ~ afterRelease)
        /\ Goto(r, IF again THEN "drain" ELSE "done")
        /\ job' = [job EXCEPT ![r] = NoJob]
        /\ UNCHANGED queue

(* releaseQueuedSessionGuardWhenLaunchFinishes, whose afterRelease starts   *)
(* the queue again in the same step when items are left.                    *)
Finish(r, afterRelease) ==
    LET again == afterRelease /\ HasItems(queue)
    IN  /\ guard' = again
        /\ Goto(r, IF again THEN "drain" ELSE "done")
        /\ job' = [job EXCEPT ![r] = NoJob]
        /\ UNCHANGED queue

(* The chain is over, but for the end of a broadcast.                       *)
EndLaunch(r) == Goto(r, "leaving") /\ job' = [job EXCEPT ![r] = NoJob]

(* runAgentTurn throws: the scope is left, the claim released and its       *)
(* broadcast awaited before the launch is over.                             *)
Throw(r) ==
    /\ LeaveScope(r)
    /\ queue' = Unclaim(queue, job[r].req)
    /\ EndLaunch(r)
    /\ unmarked' = unmarked \ {r}
    /\ UNCHANGED guard

(* The error of a turn whose user row exists goes to handleTurnFailure once *)
(* where it happened and, if that throws, once more from handleUserRequest. *)
(* Whether the turn counts as interrupted is decided here, from the error   *)
(* or from the turn's own abort signal.  turns is turn after the abort.     *)
Fail(r, turns, isInterrupt) ==
    \/ /\ turn[r].attempts < 2
       /\ turn' = [turns EXCEPT ![r].attempts = @ + 1,
                                ![r].interrupted = isInterrupt \/ turns[r].aborted]
       /\ Goto(r, "failing")
       /\ unmarked' = IF Live(r) THEN unmarked ELSE unmarked \cup {r}
       /\ UNCHANGED <<queue, guard, scope, job>>
    \/ /\ turn[r].attempts = 2
       /\ turn' = [turns EXCEPT ![r] = NoTurn]
       /\ Throw(r)

-----------------------------------------------------------------------------
(* session.input                                                            *)

InputRead(r) == r \in Inputs /\ pc[r] = "idle" /\ ReadRow(r, "checking")

InputCheck(r) ==
    /\ pc[r] = "checking"
    /\ Goto(r, IF snap[r] \/ guard THEN "done" ELSE "attaching")
    /\ Forget(r)
    /\ UNCHANGED <<row, queue, guard, scope, job, turn, ipc, seen, unmarked, env>>

(* The guard is added after the attachments are written, with no second look. *)
InputLaunch(r) ==
    /\ pc[r] = "attaching"
    /\ guard' = TRUE
    /\ Goto(r, "start")
    /\ UNCHANGED <<row, queue, scope, snap, job, turn, ipc, seen, unmarked, env>>

AttachmentsRejected(r) ==
    /\ pc[r] \in {"attaching", "adding"}
    /\ Fault
    /\ Goto(r, "done")
    /\ Forget(r)
    /\ UNCHANGED <<row, queue, guard, scope, job, turn, ipc, seen, unmarked>>

-----------------------------------------------------------------------------
(* session.request_queue.add                                                *)

AddRead(r) == r \in Adds /\ pc[r] = "idle" /\ ReadRow(r, "adding")

AddEnqueue(r) ==
    /\ r \in Adds
    /\ pc[r] = "adding"
    /\ queue' = Insert(queue, r)
    /\ Goto(r, "added")
    /\ UNCHANGED <<row, guard, scope, snap, job, turn, ipc, seen, unmarked, env>>

(* if (!session.isrunning) startQueuedSessionRequests(), after the broadcast *)
(* and with the row read before the attachments were written.               *)
AddStart(r) ==
    /\ pc[r] = "added"
    /\ IF snap[r] \/ guard
       THEN Goto(r, "done") /\ UNCHANGED guard
       ELSE Goto(r, "drain") /\ guard' = TRUE
    /\ Forget(r)
    /\ UNCHANGED <<row, queue, scope, job, turn, ipc, seen, unmarked, env>>

(* The broadcast of the new item fails: the queue is not started.           *)
AddFault(r) ==
    /\ pc[r] = "added"
    /\ Fault
    /\ Goto(r, "done")
    /\ Forget(r)
    /\ UNCHANGED <<row, queue, guard, scope, job, turn, ipc, seen, unmarked>>

-----------------------------------------------------------------------------
(* startQueuedSessionRequests and runQueuedAgentTurns                       *)

DrainRead(r) == pc[r] = "drain" /\ ReadRow(r, "drainGo")

(* Without a launch, the guard is released and the queue not looked at again. *)
DrainRunning(r) ==
    /\ pc[r] = "drainGo"
    /\ snap[r]
    /\ Finish(r, FALSE)
    /\ Forget(r)
    /\ UNCHANGED <<row, scope, turn, ipc, seen, unmarked, env>>

DrainClaim(r) ==
    /\ pc[r] = "drainGo"
    /\ ~ snap[r]
    /\ \/ /\ NextRunnable(queue) = {}
          /\ queue' = DropBlankHead(queue)
          /\ Goto(r, "drainNone")
          /\ UNCHANGED job
       \/ \E id \in NextRunnable(queue) :
          /\ queue' = Claim(queue, id)
          /\ job' = [job EXCEPT ![r] = [req |-> id, next |-> None, number |-> 1]]
          /\ Goto(r, "drainClaimed")
    /\ UNCHANGED <<row, guard, scope, snap, turn, ipc, seen, unmarked, env>>

(* The broadcast after the claim is over: launch the chain, or give up.     *)
DrainLaunch(r) ==
    /\ \/ pc[r] = "drainNone" /\ Finish(r, FALSE)
       \/ pc[r] = "drainClaimed" /\ Goto(r, "chain") /\ UNCHANGED <<queue, guard, job>>
    /\ UNCHANGED <<row, scope, snap, turn, ipc, seen, unmarked, env>>

(* A failed query or broadcast is logged; a claim just made is not released. *)
DrainFault(r) ==
    /\ pc[r] \in {"drain", "drainNone", "drainClaimed"}
    /\ Fault
    /\ Finish(r, FALSE)
    /\ UNCHANGED <<row, scope, snap, turn, ipc, seen, unmarked>>

-----------------------------------------------------------------------------
(* runTurnEndRequestChain, up to the turn                                   *)

ChainRead(r) == pc[r] = "chain" /\ ReadRow(r, "chainGo")

ChainGo(r) ==
    /\ pc[r] = "chainGo"
    /\ IF snap[r]
       THEN queue' = Unclaim(queue, job[r].req) /\ EndLaunch(r)
       ELSE Goto(r, "start") /\ UNCHANGED <<queue, job>>
    /\ Forget(r)
    /\ UNCHANGED <<row, guard, scope, turn, ipc, seen, unmarked, env>>

(* getSession throws outside the try block: the claim is not released.      *)
ChainFault(r) ==
    /\ pc[r] = "chain"
    /\ Fault
    /\ EndLaunch(r)
    /\ UNCHANGED <<row, queue, guard, scope, snap, turn, ipc, seen, unmarked>>

-----------------------------------------------------------------------------
(* The turn, before its user row                                            *)

(* Seeded bug: the update has no isrunning condition.                       *)
StartTurnUnchecked(r) ==
    /\ pc[r] = "start"
    /\ row' = [running |-> TRUE, phase |-> "starting", intr |-> FALSE]
    /\ Goto(r, "scope")
    /\ UNCHANGED <<queue, guard, scope, snap, job, turn, ipc, seen, unmarked, env>>

(* UPDATE "session" ... WHERE isrunning = false                             *)
StartTurn(r) ==
    /\ pc[r] = "start"
    /\ IF row.running
       THEN Throw(r) /\ UNCHANGED row
       ELSE /\ row' = [running |-> TRUE, phase |-> "starting", intr |-> FALSE]
            /\ Goto(r, "scope")
            /\ UNCHANGED <<queue, guard, scope, job, unmarked>>
    /\ UNCHANGED <<snap, turn, ipc, seen, env>>

BeginScope(r) ==
    /\ pc[r] = "scope"
    /\ scope' = r
    /\ turn' = [turn EXCEPT ![r] = NoTurn]
    /\ Goto(r, "setup")
    /\ UNCHANGED <<row, queue, guard, snap, job, ipc, seen, unmarked, env>>

(* setPhase(): the turn's phase at once, then the row's, then a checkpoint. *)
EnterPhase(r, from, ph) ==
    /\ pc[r] = from
    /\ turn' = [turn EXCEPT ![r].phase = ph, ![r].goal = ph]
    /\ Goto(r, "phase")
    /\ UNCHANGED <<row, queue, guard, scope, snap, job, ipc, seen, unmarked, env>>

WritePhase(r) ==
    /\ pc[r] = "phase"
    /\ row' = [row EXCEPT !.phase = turn[r].goal]
    /\ Goto(r, "check")
    /\ UNCHANGED <<queue, guard, scope, snap, job, turn, ipc, seen, unmarked, env>>

(* The turn.request.received hook may ask for a compaction before the user  *)
(* row is appended, or may stop the turn with an answer of its own; the     *)
(* errors of a stopped turn reach handleTurnFailure once only.              *)
Compact(r) == EnterPhase(r, "setup", "compacting")

AppendInput(r) ==
    /\ pc[r] \in {"setup", "compacted"}
    /\ Goto(r, "input")
    /\ UNCHANGED <<row, queue, guard, scope, snap, job, turn, ipc, seen, unmarked, env>>

HookStop(r) ==
    /\ pc[r] = "setup"
    /\ turn' = [turn EXCEPT ![r].attempts = 1]
    /\ Goto(r, "answering")
    /\ UNCHANGED <<row, queue, guard, scope, snap, job, ipc, seen, unmarked, env>>

-----------------------------------------------------------------------------
(* The turn, after its user row                                             *)

PrepareContext(r) == EnterPhase(r, "input", "context")
CallModel(r)      == EnterPhase(r, "context", "model")
Answer(r)         == EnterPhase(r, "model", "finalizing")

HasUserRow(r) ==
    \/ pc[r] \in {"input", "context", "model", "answering", "failing", "ended"}
    \/ pc[r] \in {"phase", "check"} /\ turn[r].goal # "compacting"

(* checkpointTurnInterrupt looks at the session's active turn, whoever's it *)
(* is, and at the row's phase, or the turn's when the row has none.         *)
InterruptSeen == row.intr \/ (scope # None /\ turn[scope].aborted)

CheckedPhase ==
    IF row.phase # "idle" \/ scope = None THEN row.phase ELSE turn[scope].phase

TurnAfterCheckpoint ==
    IF scope # None /\ CheckedPhase \in AbortPhases
    THEN [turn EXCEPT ![scope].aborted = TRUE]
    ELSE turn

AfterPhase(goal) ==
    CASE goal = "compacting" -> "compacted"
      [] goal = "finalizing" -> "answering"
      [] OTHER -> goal

Checkpoint(r) ==
    /\ pc[r] = "check"
    /\ \/ /\ ~ InterruptSeen
          /\ Goto(r, AfterPhase(turn[r].goal))
          /\ UNCHANGED <<queue, guard, scope, job, turn, unmarked>>
       \/ /\ InterruptSeen
          /\ IF HasUserRow(r)
             THEN Fail(r, TurnAfterCheckpoint, TRUE)
             ELSE Throw(r) /\ turn' = [TurnAfterCheckpoint EXCEPT ![r] = NoTurn]
    /\ UNCHANGED <<row, snap, ipc, seen, env>>

(* The checkpoints at a streamed delta, at a tool's start, progress and end. *)
ModelCheckpoint(r) ==
    /\ pc[r] = "model"
    /\ InterruptSeen
    /\ Fail(r, TurnAfterCheckpoint, TRUE)
    /\ UNCHANGED <<row, snap, ipc, seen, env>>

(* The aborted request or tool rejects.                                     *)
ModelAborted(r) ==
    /\ pc[r] = "model"
    /\ turn[r].aborted
    /\ Fail(r, turn, FALSE)
    /\ UNCHANGED <<row, snap, ipc, seen, env>>

(* An error of the database, the model, a tool or a socket send.  Before    *)
(* the user row exists it leaves the session row as it is.                  *)
TurnFault(r) ==
    /\ pc[r] \in {"start"} \cup LivePcs \cup {"ended"}
    /\ Fault
    /\ IF HasUserRow(r) THEN Fail(r, turn, FALSE) ELSE Throw(r) /\ turn' = [turn EXCEPT ![r] = NoTurn]
    /\ UNCHANGED <<row, snap, ipc, seen>>

(* updateSessionEndTurn leaves interruptrequested as it is; for a turn that *)
(* was interrupted handleTurnFailure calls completeSessionInterrupt.        *)
EndTurn(r) ==
    /\ pc[r] \in {"answering", "failing"}
    /\ ClearRunning(r, row.intr /\ ~ (pc[r] = "failing" /\ turn[r].interrupted))
    /\ Goto(r, "ended")
    /\ UNCHANGED <<queue, guard, scope, snap, job, turn, ipc, seen, env>>

-----------------------------------------------------------------------------
(* After the turn                                                           *)

(* The turn.end hook claims the request that runs next.                     *)
EndHook(r) ==
    /\ pc[r] = "ended"
    /\ \/ /\ NextRunnable(queue) = {}
          /\ queue' = DropBlankHead(queue)
          /\ job' = [job EXCEPT ![r].next = None]
       \/ \E id \in NextRunnable(queue) :
          /\ queue' = Claim(queue, id)
          /\ job' = [job EXCEPT ![r].next = id]
    /\ Goto(r, "hooked")
    /\ UNCHANGED <<row, guard, scope, snap, turn, ipc, seen, unmarked, env>>

(* The broadcast after the claim fails: the hook run reports no effect.     *)
EndHookFault(r) ==
    /\ pc[r] = "hooked"
    /\ Fault
    /\ job[r].next # None
    /\ job' = [job EXCEPT ![r].next = None]
    /\ UNCHANGED <<row, queue, guard, scope, pc, snap, turn, ipc, seen, unmarked>>

(* Seeded bug: the claim is released and the item stays.                    *)
CompleteClaimByRelease(r) ==
    /\ pc[r] = "hooked"
    /\ LeaveScope(r)
    /\ turn' = [turn EXCEPT ![r] = NoTurn]
    /\ queue' = Unclaim(queue, job[r].req)
    /\ Goto(r, "completed")
    /\ UNCHANGED <<row, guard, snap, job, ipc, seen, unmarked, env>>

(* runAgentTurn returns; the request it ran, if queued, leaves the queue.   *)
(* If it is no longer there the chain ends, and the next claim is dropped.  *)
CompleteClaim(r) ==
    /\ pc[r] = "hooked"
    /\ LeaveScope(r)
    /\ turn' = [turn EXCEPT ![r] = NoTurn]
    /\ IF job[r].req = None \/ Queued(queue, job[r].req)
       THEN /\ queue' = IF job[r].req = None THEN queue ELSE Delete(queue, job[r].req)
            /\ Goto(r, "completed")
            /\ UNCHANGED job
       ELSE EndLaunch(r) /\ UNCHANGED queue
    /\ UNCHANGED <<row, guard, snap, ipc, seen, unmarked, env>>

CompleteFault(r) ==
    /\ pc[r] = "completed"
    /\ job[r].req # None
    /\ Fault
    /\ EndLaunch(r)
    /\ UNCHANGED <<row, queue, guard, scope, snap, turn, ipc, seen, unmarked>>

(* Seeded bug: the request over the limit keeps its claim.                  *)
ContinueKeepingClaim(r) ==
    /\ pc[r] = "completed"
    /\ IF job[r].next = None \/ job[r].number >= MaxChain
       THEN EndLaunch(r)
       ELSE /\ job' = [job EXCEPT ![r] = [req |-> @.next, next |-> None, number |-> @.number + 1]]
            /\ Goto(r, "chain")
    /\ UNCHANGED <<row, queue, guard, scope, snap, turn, ipc, seen, unmarked, env>>

Continue(r) ==
    /\ pc[r] = "completed"
    /\ IF job[r].next = None \/ job[r].number >= MaxChain
       THEN /\ queue' = Unclaim(queue, job[r].next)
            /\ EndLaunch(r)
       ELSE /\ job' = [job EXCEPT ![r] = [req |-> @.next, next |-> None, number |-> @.number + 1]]
            /\ Goto(r, "chain")
            /\ UNCHANGED queue
    /\ UNCHANGED <<row, guard, scope, snap, turn, ipc, seen, unmarked, env>>

(* The launch is over.                                                      *)
Leave(r) ==
    /\ pc[r] = "leaving"
    /\ Finish(r, TRUE)
    /\ UNCHANGED <<row, scope, snap, turn, ipc, seen, unmarked, env>>

-----------------------------------------------------------------------------
(* session.interrupt                                                        *)

IntGoto(x, p) == ipc' = [ipc EXCEPT ![x] = p]

IntRead(x) ==
    /\ ipc[x] = "idle"
    /\ seen' = [seen EXCEPT ![x] = [running |-> row.running, phase |-> row.phase]]
    /\ IntGoto(x, "read")
    /\ UNCHANGED <<row, queue, guard, scope, pc, snap, job, turn, unmarked, env>>

(* Refused while compacting, or when neither the row nor activeTurns has a  *)
(* turn; otherwise the phase of the active turn is kept for the update.     *)
IntCheck(x) ==
    /\ ipc[x] = "read"
    /\ IF seen[x].phase = "compacting" \/ (~ seen[x].running /\ scope = None)
       THEN IntGoto(x, "done") /\ seen' = [seen EXCEPT ![x] = NoRow]
       ELSE /\ IntGoto(x, "accepted")
            /\ seen' = [seen EXCEPT ![x] =
                   [running |-> FALSE, phase |-> IF scope = None THEN "idle" ELSE turn[scope].phase]]
    /\ UNCHANGED <<row, queue, guard, scope, pc, snap, job, turn, unmarked, env>>

(* turnphase = COALESCE($2, turnphase)                                      *)
IntRequest(x) ==
    /\ ipc[x] = "accepted"
    /\ row' = [row EXCEPT !.intr = TRUE,
                          !.phase = IF seen[x].phase = "idle" THEN @ ELSE seen[x].phase]
    /\ IntGoto(x, "requested")
    /\ seen' = [seen EXCEPT ![x] = NoRow]
    /\ UNCHANGED <<queue, guard, scope, pc, snap, job, turn, unmarked, env>>

(* requestRuntimeTurnInterrupt                                              *)
IntRuntime(x) ==
    /\ ipc[x] = "requested"
    /\ \/ /\ scope = None
          /\ IntGoto(x, "completing")
          /\ UNCHANGED turn
       \/ /\ scope # None
          /\ turn' = [turn EXCEPT ![scope].phase = "interrupted",
                                  ![scope].aborted = @ \/ turn[scope].phase \in AbortPhases]
          /\ IntGoto(x, "done")
    /\ UNCHANGED <<row, queue, guard, scope, pc, snap, job, seen, unmarked, env>>

(* completeSessionInterrupt, once the client has been told.                 *)
IntComplete(x) ==
    /\ ipc[x] = "completing"
    /\ ClearRunning(None, FALSE)
    /\ IntGoto(x, "done")
    /\ UNCHANGED <<queue, guard, scope, pc, snap, job, turn, seen, env>>

IntFault(x) ==
    /\ ipc[x] \in {"accepted", "completing"}
    /\ Fault
    /\ IntGoto(x, "done")
    /\ seen' = [seen EXCEPT ![x] = NoRow]
    /\ UNCHANGED <<row, queue, guard, scope, pc, snap, job, turn, unmarked>>

-----------------------------------------------------------------------------
(* Edits of the queue by clients and by the request queue tool, and restarts *)

Edit ==
    /\ env.edits < MaxEdits
    /\ env' = [env EXCEPT !.edits = @ + 1]
    /\ \/ \E id \in Adds : Queued(queue, id) /\ queue' = Delete(queue, id)
       \/ \E id \in Adds, blank \in BOOLEAN :
             Queued(queue, id) /\ id \notin queue.claimed /\ queue' = Update(queue, id, blank)
       \/ HasItems(queue) /\ queue' = EmptyQueue
    /\ UNCHANGED <<row, guard, scope, pc, snap, job, turn, ipc, seen, unmarked>>

(* The process dies: what PostgreSQL holds stays, and nothing resets it.    *)
Crash ==
    /\ env.crashes < MaxCrashes
    /\ env' = [env EXCEPT !.crashes = @ + 1]
    /\ queue' = EmptyQueue
    /\ guard' = FALSE
    /\ scope' = None
    /\ pc' = [r \in Threads |-> IF pc[r] = "idle" THEN "idle" ELSE "done"]
    /\ job' = [r \in Threads |-> NoJob]
    /\ snap' = [r \in Threads |-> FALSE]
    /\ turn' = [r \in Threads |-> NoTurn]
    /\ ipc' = [x \in Interrupts |-> IF ipc[x] = "idle" THEN "idle" ELSE "done"]
    /\ seen' = [x \in Interrupts |-> NoRow]
    /\ unmarked' = {}
    /\ UNCHANGED row

-----------------------------------------------------------------------------
(* Starting a message is the clients' choice; the steps of one that has     *)
(* started go on, but nothing makes the model answer or an error happen.    *)

Begin(r) == InputRead(r) \/ AddRead(r)

Launch(r) ==
    \/ InputCheck(r) \/ InputLaunch(r) \/ AddEnqueue(r) \/ AddStart(r)
    \/ DrainRead(r) \/ DrainRunning(r) \/ DrainClaim(r) \/ DrainLaunch(r)
    \/ ChainRead(r) \/ ChainGo(r)

RunTurn(r) ==
    \/ StartTurn(r) \/ BeginScope(r) \/ WritePhase(r) \/ Compact(r) \/ AppendInput(r)
    \/ HookStop(r) \/ PrepareContext(r) \/ CallModel(r) \/ Checkpoint(r)
    \/ ModelAborted(r) \/ EndTurn(r)

AfterTurn(r) == EndHook(r) \/ CompleteClaim(r) \/ Continue(r) \/ Leave(r)

Step(r) == Launch(r) \/ RunTurn(r) \/ AfterTurn(r)

FaultStep(r) ==
    \/ AttachmentsRejected(r) \/ AddFault(r) \/ DrainFault(r) \/ ChainFault(r)
    \/ TurnFault(r) \/ EndHookFault(r) \/ CompleteFault(r)

IntStep(x) == IntCheck(x) \/ IntRequest(x) \/ IntRuntime(x) \/ IntComplete(x)

Next ==
    \/ \E r \in Threads :
          Begin(r) \/ Step(r) \/ Answer(r) \/ ModelCheckpoint(r) \/ FaultStep(r)
    \/ \E x \in Interrupts : IntRead(x) \/ IntStep(x) \/ IntFault(x)
    \/ Edit
    \/ Crash

Spec == Init /\ [][Next]_vars

(* Node resumes what it awaits: queries, file writes and sends come back.   *)
FairSpec ==
    /\ Spec
    /\ \A r \in Threads : WF_vars(Step(r))
    /\ \A x \in Interrupts : WF_vars(IntStep(x))

(* ... and the model's answers and the tools' results come to an end.       *)
AnsweringSpec == FairSpec /\ \A r \in Threads : WF_vars(Answer(r))

-----------------------------------------------------------------------------
(* Properties                                                               *)

Pcs == QuietPcs \cup GuardedPcs
Jobs == [req : Adds \cup {None}, next : Adds \cup {None}, number : 0..MaxChain]
Turns == [phase : Phases, goal : Phases, aborted : BOOLEAN, interrupted : BOOLEAN,
          attempts : 0..2]
RowPhases == Phases \cup {"idle"}
IntPcs == {"idle", "read", "accepted", "requested", "completing", "done"}

(* The types of the variables. *)
TypeOK ==
    /\ row \in [running : BOOLEAN, phase : RowPhases, intr : BOOLEAN]
    /\ queue \in QueueOf(Adds)
    /\ guard \in BOOLEAN
    /\ scope \in Threads \cup {None}
    /\ pc \in [Threads -> Pcs]
    /\ snap \in [Threads -> BOOLEAN]
    /\ job \in [Threads -> Jobs]
    /\ turn \in [Threads -> Turns]
    /\ ipc \in [Interrupts -> IntPcs]
    /\ seen \in [Interrupts -> [running : BOOLEAN, phase : RowPhases]]
    /\ unmarked \subseteq Threads
    /\ env \in [faults : Nat, crashes : Nat, edits : Nat]

Owned(r) == {job[r].req, job[r].next} \ {None}

(* A queued request is run by at most one message's chain, at most once in  *)
(* it, and while it is in the queue it is hidden from the clients and from  *)
(* the other claims; requestQue/index.ts, claimNextRunnable and its users.  *)
OneClaimant ==
    /\ \A r, s \in Threads : r # s => Owned(r) \cap Owned(s) = {}
    /\ \A r \in Threads :
          /\ job[r].req # None => job[r].next # job[r].req
          /\ Owned(r) \cap Visible(queue) = {}

(* The in-memory guard is never left behind: while it is held some message  *)
(* is draining, running a turn or about to give the guard back, whatever    *)
(* failed, so a session is not locked out of session.input for good.        *)
GuardAccounted == guard => \E r \in Threads : pc[r] \in GuardedPcs

(* isrunning is the lock of a turn: two turns run at once only if something *)
(* other than the first turn has cleared its mark, and a turn whose mark    *)
(* stands has isrunning set; updateSessionStartTurn and all that clears it. *)
TurnExclusive ==
    \A r \in Threads : Live(r) /\ r \notin unmarked =>
        /\ row.running
        /\ \A s \in Threads : Live(s) /\ s \notin unmarked => s = r

(* An interrupt request is not withdrawn from under the turn it is for: what *)
(* clears interruptrequested finds no turn whose mark stands, or leaves none, *)
(* so every later checkpoint of that turn still sees the request.             *)
InterruptKept ==
    [][row.intr /\ ~ row'.intr =>
          \A r \in Threads : Live(r) /\ r \notin unmarked => ~ Live(r)' \/ r \in unmarked']_vars

(* A message that has been read is handled to its end: no chain, restart of *)
(* the queue or release of the guard goes round for ever, within one fault. *)
EveryMessageEnds == \A r \in Threads : pc[r] # "idle" ~> pc[r] = "done"

(* A request that is in the queue while a turn is live leaves the queue:    *)
(* the turn's end hook, the chain's limit and the queue's restart after the *)
(* launch leave no gap between them.                                        *)
QueuedDuringTurnServed ==
    \A id \in Adds :
        (Queued(queue, id) /\ \E r \in Threads : Live(r)) ~> ~ Queued(queue, id)

(* docs/runtime-control.md: queued work starts after the current turn ends. *)
QueuedItemRuns == \A id \in Adds : Queued(queue, id) ~> ~ Queued(queue, id)

=============================================================================
