-------------------------- MODULE SessionRunProofs --------------------------
(***************************************************************************)
(* The types of SessionRun and its safety properties, for any sets of      *)
(* messages and any bounds.  Each part finds its inductive invariant and   *)
(* goes through the actions once.                                          *)
(***************************************************************************)
EXTENDS SessionRun, RequestQueueProofs

-----------------------------------------------------------------------------
(* TypeOK.  Sound, the invariant that is inductive, adds to the types that  *)
(* the queue holds no item twice and none that is still to be added, and    *)
(* that a phase being entered is one the agent loop enters.                 *)

(* The initial values are of their types.                                   *)
LEMMA InitType == Init => TypeOK
<1> SUFFICES ASSUME Init PROVE TypeOK
  OBVIOUS
<1> USE DEF Init
<1>1. row \in [running : BOOLEAN, phase : RowPhases, intr : BOOLEAN]
  BY DEF RowPhases
<1>2. queue \in QueueOf(Adds)
  BY DEF EmptyQueue, QueueOf
<1>3. NoJob \in Jobs
  BY BoundsAssumption DEF NoJob, Jobs
<1>4. NoTurn \in Turns
  BY DEF NoTurn, Turns, Phases
<1>5. job \in [Threads -> Jobs] /\ turn \in [Threads -> Turns]
  BY <1>3, <1>4
<1>6. pc \in [Threads -> Pcs] /\ ipc \in [Interrupts -> IntPcs]
  BY DEF Pcs, QuietPcs, IntPcs
<1>7. seen \in [Interrupts -> [running : BOOLEAN, phase : RowPhases]]
  BY DEF NoRow, RowPhases
<1>8. env \in [faults : Nat, crashes : Nat, edits : Nat]
  OBVIOUS
<1> QED BY <1>1, <1>2, <1>5, <1>6, <1>7, <1>8 DEF TypeOK

-----------------------------------------------------------------------------
(* The queue: what an action does to it, and that it stays well formed.      *)

QueueMove ==
    \/ queue' \in {queue, EmptyQueue, DropBlankHead(queue)}
    \/ \E r \in Adds : pc[r] = "adding" /\ pc'[r] = "added" /\ queue' = Insert(queue, r)
    \/ \E x : queue' \in {Release(queue, x), Delete(queue, x)}
    \/ \E x \in Adds, blank \in BOOLEAN : queue' = Update(queue, x, blank)
    \/ \E x \in NextRunnable(queue) : queue' = Claim(queue, x)

(* An item is queued after its message is past "adding".                    *)
NotYet(r) == pc[r] \in {"idle", "adding"}
QueueSound ==
    /\ queue \in QueueOf(Adds)
    /\ Distinct(queue)
    /\ \A r \in Adds : NotYet(r) => ~ Queued(queue, r)

(* Each of those moves keeps the queue well formed.                         *)
LEMMA QueueMoveSound ==
    ASSUME QueueSound, QueueMove, \A r \in Threads : NotYet(r)' => NotYet(r)
    PROVE  QueueSound'
<1> USE DEF QueueSound
<1> DEFINE Kept == /\ queue' \in QueueOf(Adds) /\ Distinct(queue')
                   /\ \A x : Queued(queue', x) => Queued(queue, x)
<1>1. CASE Kept
  BY <1>1 DEF Threads
<1> HIDE DEF Kept
<1>2. CASE queue' = queue
  BY <1>1, <1>2 DEF Kept
<1>3. CASE queue' = EmptyQueue
  BY <1>1, <1>3 DEF Kept, EmptyQueue, QueueOf, Distinct, Queued
<1>4. CASE queue' = DropBlankHead(queue)
  BY <1>1, <1>4, DropFacts DEF Kept
<1>5. ASSUME NEW x, queue' = Release(queue, x) PROVE QueueSound'
  BY <1>1, <1>5, ReleaseFacts DEF Kept
<1>6. ASSUME NEW x, queue' = Delete(queue, x) PROVE QueueSound'
  BY <1>1, <1>6, DeleteFacts DEF Kept
<1>7. ASSUME NEW x \in Adds, NEW blank \in BOOLEAN, queue' = Update(queue, x, blank)
      PROVE  QueueSound'
  BY <1>1, <1>7, UpdateFacts DEF Kept
<1>8. ASSUME NEW x \in NextRunnable(queue), queue' = Claim(queue, x) PROVE QueueSound'
  BY <1>1, <1>8, ClaimFacts DEF Kept
<1>9. ASSUME NEW r \in Adds, pc[r] = "adding", pc'[r] = "added", queue' = Insert(queue, r)
      PROVE  QueueSound'
  <2>1. ~ Queued(queue, r)
    BY <1>9 DEF NotYet
  <2>2. queue' \in QueueOf(Adds) /\ Distinct(queue')
    BY <1>9, <2>1, InsertFacts
  <2>3. \A x : Queued(queue', x) => Queued(queue, x) \/ x = r
    BY <1>9, <2>1, InsertFacts
  <2>4. ~ NotYet(r)'
    BY <1>9 DEF NotYet
  <2> QED BY <2>2, <2>3, <2>4 DEF Threads
<1> QED BY <1>2, <1>3, <1>4, <1>5, <1>6, <1>7, <1>8, <1>9 DEF QueueMove

(* The actions of a thread that leave the queue alone.                      *)
KeepsQueue(r) ==
    \/ InputRead(r) \/ InputCheck(r) \/ InputLaunch(r) \/ AttachmentsRejected(r)
    \/ AddRead(r) \/ AddStart(r) \/ AddFault(r)
    \/ DrainRead(r) \/ DrainRunning(r) \/ DrainLaunch(r) \/ DrainFault(r)
    \/ ChainRead(r) \/ ChainFault(r)
    \/ BeginScope(r) \/ WritePhase(r) \/ Compact(r) \/ AppendInput(r) \/ HookStop(r)
    \/ PrepareContext(r) \/ CallModel(r) \/ Answer(r) \/ EndTurn(r)
    \/ EndHookFault(r) \/ CompleteFault(r) \/ Leave(r)

(* The steps of a message that leave the queue as it is.                    *)
LEMMA KeepsQueueMove ==
    ASSUME TypeOK, NEW r \in Threads, KeepsQueue(r)
    PROVE  queue' = queue /\ \A s \in Threads : NotYet(s)' => NotYet(s)
<1> USE DEF TypeOK, NotYet, Goto
<1>1. CASE InputRead(r) \/ AddRead(r) \/ DrainRead(r) \/ ChainRead(r)
  BY <1>1 DEF InputRead, AddRead, DrainRead, ChainRead, ReadRow
<1>2. CASE InputCheck(r) \/ InputLaunch(r) \/ AttachmentsRejected(r)
  BY <1>2 DEF InputCheck, InputLaunch, AttachmentsRejected
<1>3. CASE AddStart(r) \/ AddFault(r)
  BY <1>3 DEF AddStart, AddFault
<1>4. CASE DrainRunning(r) \/ DrainLaunch(r) \/ DrainFault(r) \/ Leave(r)
  BY <1>4 DEF DrainRunning, DrainLaunch, DrainFault, Leave, Finish
<1>5. CASE ChainFault(r) \/ CompleteFault(r) \/ EndHookFault(r)
  BY <1>5 DEF ChainFault, CompleteFault, EndHookFault, EndLaunch
<1>6. CASE BeginScope(r) \/ WritePhase(r) \/ AppendInput(r) \/ HookStop(r) \/ EndTurn(r)
  BY <1>6 DEF BeginScope, WritePhase, AppendInput, HookStop, EndTurn
<1>7. CASE Compact(r) \/ PrepareContext(r) \/ CallModel(r) \/ Answer(r)
  BY <1>7 DEF Compact, PrepareContext, CallModel, Answer, EnterPhase
<1> QED BY <1>1, <1>2, <1>3, <1>4, <1>5, <1>6, <1>7 DEF KeepsQueue

(* A turn that fails releases an item, or does nothing to the queue.        *)
LEMMA FailMove ==
    ASSUME TypeOK, NEW r \in Threads, NEW turns, NEW b, Fail(r, turns, b)
    PROVE  /\ \E x : queue' \in {queue, Release(queue, x)}
           /\ \A s \in Threads : NotYet(s)' => NotYet(s)
BY DEF TypeOK, Fail, Throw, Unclaim, EndLaunch, Goto, NotYet

(* The same of a turn that throws.                                          *)
LEMMA ThrowMove ==
    ASSUME TypeOK, NEW r \in Threads, Throw(r)
    PROVE  /\ \E x : queue' \in {queue, Release(queue, x)}
           /\ \A s \in Threads : NotYet(s)' => NotYet(s)
BY DEF TypeOK, Throw, Unclaim, EndLaunch, Goto, NotYet

(* What the steps of a message do to the queue.                             *)
LEMMA ThreadMove ==
    ASSUME TypeOK, NEW r \in Threads,
           Begin(r) \/ Step(r) \/ Answer(r) \/ ModelCheckpoint(r) \/ FaultStep(r)
    PROVE  QueueMove /\ \A s \in Threads : NotYet(s)' => NotYet(s)
<1> USE DEF NotYet
<1>1. CASE KeepsQueue(r)
  BY <1>1, KeepsQueueMove DEF QueueMove
<1>2. CASE AddEnqueue(r)
  <2>1. r \in Adds
    BY <1>2 DEF AddEnqueue
  <2> QED BY <1>2, <2>1 DEF AddEnqueue, Goto, TypeOK, QueueMove
<1>3. CASE DrainClaim(r)
  BY <1>3 DEF DrainClaim, Goto, TypeOK, QueueMove
<1>4. CASE EndHook(r)
  BY <1>4 DEF EndHook, Goto, TypeOK, QueueMove
<1>5. CASE ChainGo(r) \/ Continue(r)
  BY <1>5 DEF ChainGo, Continue, Unclaim, EndLaunch, Goto, TypeOK, QueueMove
<1>6. CASE CompleteClaim(r)
  BY <1>6 DEF CompleteClaim, EndLaunch, Goto, TypeOK, QueueMove
<1>7. CASE StartTurn(r)
  <2>1. CASE row.running
    BY <1>7, <2>1, ThrowMove DEF StartTurn, QueueMove
  <2>2. CASE ~ row.running
    BY <1>7, <2>2 DEF StartTurn, Goto, TypeOK, QueueMove
  <2> QED BY <2>1, <2>2
<1>8. CASE Checkpoint(r)
  <2>1. CASE InterruptSeen
    BY <1>8, <2>1, FailMove, ThrowMove DEF Checkpoint, QueueMove
  <2>2. CASE ~ InterruptSeen
    <3>1. turn[r].goal \in Phases
      BY DEF TypeOK, Turns
    <3>2. AfterPhase(turn[r].goal) \notin {"idle", "adding"}
      BY <3>1 DEF AfterPhase, Phases
    <3> QED BY <1>8, <2>2, <3>2 DEF Checkpoint, Goto, TypeOK, QueueMove
  <2> QED BY <2>1, <2>2
<1>9. CASE ModelCheckpoint(r) \/ ModelAborted(r)
  BY <1>9, FailMove DEF ModelCheckpoint, ModelAborted, QueueMove
<1>10. CASE TurnFault(r)
  BY <1>10, FailMove, ThrowMove DEF TurnFault, QueueMove
<1> QED BY <1>1, <1>2, <1>3, <1>4, <1>5, <1>6, <1>7, <1>8, <1>9, <1>10
        DEF Begin, Step, Launch, RunTurn, AfterTurn, FaultStep, KeepsQueue

(* The queue stays well formed, whatever the step.                          *)
LEMMA QueueStepSound ==
    ASSUME TypeOK, QueueSound, [Next]_vars
    PROVE  QueueSound'
<1>1. ASSUME NEW r \in Threads,
             Begin(r) \/ Step(r) \/ Answer(r) \/ ModelCheckpoint(r) \/ FaultStep(r)
      PROVE  QueueSound'
  BY <1>1, ThreadMove, QueueMoveSound
<1>2. ASSUME NEW x \in Interrupts, IntRead(x) \/ IntStep(x) \/ IntFault(x)
      PROVE  QueueSound'
  <2>1. queue' = queue /\ pc' = pc
    BY <1>2 DEF IntRead, IntStep, IntCheck, IntRequest, IntRuntime, IntComplete, IntFault
  <2> QED BY <2>1, QueueMoveSound DEF QueueMove, NotYet
<1>3. CASE Edit
  BY <1>3, QueueMoveSound DEF Edit, QueueMove, NotYet
<1>4. CASE Crash
  <2>1. queue' = EmptyQueue /\ \A r \in Threads : NotYet(r)' => NotYet(r)
    BY <1>4 DEF Crash, NotYet
  <2> QED BY <2>1, QueueMoveSound DEF QueueMove
<1>5. CASE UNCHANGED vars
  BY <1>5, QueueMoveSound DEF vars, QueueMove, NotYet
<1> QED BY <1>1, <1>2, <1>3, <1>4, <1>5 DEF Next

-----------------------------------------------------------------------------
(* Types.  A phase that is being entered is one the loop enters.             *)

GoalChosen ==
    \A r \in Threads : pc[r] \in {"phase", "check"} =>
        turn[r].goal \in {"compacting", "context", "model", "finalizing"}

(* No request and no turn are values of their types.                        *)
LEMMA NoneTyped == NoJob \in Jobs /\ NoTurn \in Turns
BY BoundsAssumption DEF NoJob, Jobs, NoTurn, Turns, Phases

(* A fault is counted.                                                      *)
LEMMA FaultType ==
    ASSUME TypeOK, Fault
    PROVE  env' \in [faults : Nat, crashes : Nat, edits : Nat]
BY DEF TypeOK, Fault

(* The end of a launch, which may be the start of the next drain.           *)
LEMMA FinishType ==
    ASSUME TypeOK, GoalChosen, queue' \in QueueOf(Adds), NEW r \in Threads,
           NEW b \in BOOLEAN, Finish(r, b),
           UNCHANGED <<row, scope, turn, ipc, seen, unmarked>>,
           snap' \in [Threads -> BOOLEAN], env' \in [faults : Nat, crashes : Nat, edits : Nat]
    PROVE  TypeOK' /\ GoalChosen'
<1>1. PICK again \in BOOLEAN : again = (b /\ HasItems(queue))
  OBVIOUS
<1>2. guard' = again /\ pc' = [pc EXCEPT ![r] = IF again THEN "drain" ELSE "done"]
  BY <1>1 DEF Finish, Goto
<1>3. job' = [job EXCEPT ![r] = NoJob]
  BY DEF Finish
<1>4. pc' \in [Threads -> Pcs]
  BY <1>2 DEF TypeOK, Pcs, QuietPcs, GuardedPcs, DrainPcs
<1>5. job' \in [Threads -> Jobs]
  BY <1>3, NoneTyped DEF TypeOK
<1>6. GoalChosen'
  BY <1>2 DEF TypeOK, GoalChosen
<1> QED BY <1>2, <1>4, <1>5, <1>6 DEF TypeOK

(* The steps from a message to the launch of its turn.                      *)
LEMMA LaunchType ==
    ASSUME TypeOK, GoalChosen, queue' \in QueueOf(Adds), NEW r \in Threads,
           Begin(r) \/ Launch(r)
    PROVE  TypeOK' /\ GoalChosen'
<1> USE DEF TypeOK, GoalChosen, Goto, Forget, Pcs, QuietPcs, GuardedPcs, DrainPcs, EndPcs
<1>1. CASE InputRead(r) \/ AddRead(r) \/ DrainRead(r) \/ ChainRead(r)
  BY <1>1 DEF InputRead, AddRead, DrainRead, ChainRead, ReadRow
<1>2. CASE InputCheck(r) \/ InputLaunch(r)
  BY <1>2 DEF InputCheck, InputLaunch
<1>3. CASE AddEnqueue(r)
  BY <1>3 DEF AddEnqueue
<1>4. CASE AddStart(r)
  BY <1>4 DEF AddStart
<1>5. CASE DrainRunning(r) \/ DrainLaunch(r)
  <2>1. CASE Finish(r, FALSE)
    <3>1. UNCHANGED <<row, scope, turn, ipc, seen, unmarked, env>> /\ snap' \in [Threads -> BOOLEAN]
      BY <1>5 DEF DrainRunning, DrainLaunch
    <3> QED BY <2>1, <3>1, FinishType DEF TypeOK
  <2>2. CASE pc[r] = "drainClaimed" /\ DrainLaunch(r)
    BY <2>2 DEF DrainLaunch
  <2> QED BY <1>5, <2>1, <2>2 DEF DrainRunning, DrainLaunch
<1>6. CASE DrainClaim(r)
  <2>1. ASSUME NEW id \in Adds PROVE [req |-> id, next |-> None, number |-> 1] \in Jobs
    BY BoundsAssumption DEF Jobs
  <2>2. \A id \in NextRunnable(queue) : id \in Adds
    BY DEF NextRunnable, RunnableAt, QueueOf
  <2> QED BY <1>6, <2>1, <2>2 DEF DrainClaim
<1>7. CASE ChainGo(r)
  BY <1>7, NoneTyped DEF ChainGo, EndLaunch
<1> QED BY <1>1, <1>2, <1>3, <1>4, <1>5, <1>6, <1>7 DEF Begin, Launch

(* setPhase(): the phase and the step it leads to.                          *)
LEMMA EnterPhaseType ==
    ASSUME TypeOK, GoalChosen, queue' \in QueueOf(Adds), NEW r \in Threads,
           NEW from, NEW ph \in {"compacting", "context", "model", "finalizing"},
           EnterPhase(r, from, ph)
    PROVE  TypeOK' /\ GoalChosen'
<1>1. turn' \in [Threads -> Turns]
  <2>1. turn' = [turn EXCEPT ![r].phase = ph, ![r].goal = ph]
    BY DEF EnterPhase
  <2>2. ph \in Phases
    BY DEF Phases
  <2>3. turn'[r] = [turn[r] EXCEPT !.phase = ph, !.goal = ph]
    BY <2>1 DEF TypeOK
  <2>4. turn'[r] \in Turns
    BY <2>2, <2>3 DEF TypeOK, Turns
  <2>5. DOMAIN turn' = Threads /\ \A s \in Threads : s # r => turn'[s] = turn[s]
    BY <2>1 DEF TypeOK
  <2>6. turn' = [s \in Threads |-> turn'[s]]
    BY <2>1 DEF TypeOK
  <2> QED BY <2>4, <2>5, <2>6 DEF TypeOK
<1>2. pc' = [pc EXCEPT ![r] = "phase"] /\ pc' \in [Threads -> Pcs]
  BY DEF EnterPhase, Goto, TypeOK, Pcs, GuardedPcs, LivePcs
<1>3. \A s \in Threads : turn'[s].goal = IF s = r THEN ph ELSE turn[s].goal
  BY DEF EnterPhase, TypeOK, Turns
<1>4. GoalChosen'
  BY <1>2, <1>3 DEF GoalChosen, TypeOK
<1> QED BY <1>1, <1>2, <1>4 DEF EnterPhase, TypeOK

(* A turn that throws, whatever it made of its own state.                   *)
LEMMA ThrowType ==
    ASSUME TypeOK, GoalChosen, queue' \in QueueOf(Adds), NEW r \in Threads, Throw(r),
           turn' \in [Threads -> Turns],
           \A s \in Threads : s # r => turn'[s].goal = turn[s].goal
    PROVE  /\ scope' \in Threads \cup {None} /\ pc' \in [Threads -> Pcs]
           /\ job' \in [Threads -> Jobs] /\ unmarked' \subseteq Threads
           /\ guard' \in BOOLEAN /\ GoalChosen'
<1>1. pc' = [pc EXCEPT ![r] = "leaving"] /\ job' = [job EXCEPT ![r] = NoJob]
  BY DEF Throw, EndLaunch, Goto
<1>2. pc' \in [Threads -> Pcs]
  BY <1>1 DEF TypeOK, Pcs, GuardedPcs, EndPcs
<1>3. GoalChosen'
  BY <1>1 DEF TypeOK, GoalChosen
<1>4. job' \in [Threads -> Jobs]
  BY <1>1, NoneTyped DEF TypeOK
<1> QED BY <1>2, <1>3, <1>4 DEF Throw, LeaveScope, TypeOK

(* handleTurnFailure(), whatever the turn made of its own state.            *)
LEMMA FailType ==
    ASSUME TypeOK, GoalChosen, queue' \in QueueOf(Adds), NEW r \in Threads, NEW turns,
           NEW b \in BOOLEAN, Fail(r, turns, b), turns \in [Threads -> Turns],
           \A s \in Threads : turns[s].goal = turn[s].goal /\ turns[s].attempts = turn[s].attempts
    PROVE  /\ scope' \in Threads \cup {None} /\ pc' \in [Threads -> Pcs]
           /\ job' \in [Threads -> Jobs] /\ unmarked' \subseteq Threads
           /\ guard' \in BOOLEAN /\ turn' \in [Threads -> Turns] /\ GoalChosen'
<1>1. CASE turn[r].attempts = 2
  <2>1. turn' = [turns EXCEPT ![r] = NoTurn] /\ Throw(r)
    BY <1>1 DEF Fail
  <2>2. turn' \in [Threads -> Turns] /\ \A s \in Threads : s # r => turn'[s].goal = turn[s].goal
    BY <2>1, NoneTyped
  <2> QED BY <2>1, <2>2, ThrowType
<1>2. CASE turn[r].attempts # 2
  <2>1. PICK a, i : a = turns[r].attempts + 1 /\ i = (b \/ turns[r].aborted)
    OBVIOUS
  <2>2. /\ turn[r].attempts < 2
        /\ turn' = [turns EXCEPT ![r].attempts = a, ![r].interrupted = i]
        /\ pc' = [pc EXCEPT ![r] = "failing"]
    BY <1>2, <2>1 DEF Fail, Goto
  <2>3. a \in 0..2
    <3>1. turn[r].attempts \in 0..2 /\ a = turn[r].attempts + 1
      BY <2>1 DEF TypeOK, Turns
    <3> QED BY ONLY <2>2, <3>1
  <2>4. turn' \in [Threads -> Turns]
    <3>1. i \in BOOLEAN
      BY <2>1, Zenon
    <3> QED BY <2>2, <2>3, <3>1, ZenonT(30) DEF Turns
  <2>5. pc' \in [Threads -> Pcs]
    BY <2>2 DEF TypeOK, Pcs, GuardedPcs, LivePcs
  <2>6. \A s \in Threads : turn'[s].goal = turn[s].goal
    BY <2>2 DEF Turns
  <2>7. GoalChosen'
    BY <2>2, <2>6 DEF GoalChosen, TypeOK
  <2>8. scope' = scope /\ job' = job /\ guard' = guard /\ unmarked' \in {unmarked, unmarked \cup {r}}
    BY <1>2 DEF Fail
  <2> QED BY <2>4, <2>5, <2>7, <2>8 DEF TypeOK
<1> QED BY <1>1, <1>2

(* The abort a checkpoint raises changes neither goals nor attempts.         *)
LEMMA AbortType ==
    ASSUME TypeOK
    PROVE  /\ TurnAfterCheckpoint \in [Threads -> Turns]
           /\ \A s \in Threads : /\ TurnAfterCheckpoint[s].goal = turn[s].goal
                                 /\ TurnAfterCheckpoint[s].attempts = turn[s].attempts
<1>1. CASE scope # None /\ CheckedPhase \in AbortPhases
  <2>1. TurnAfterCheckpoint = [turn EXCEPT ![scope].aborted = TRUE] /\ scope \in Threads
    BY <1>1 DEF TurnAfterCheckpoint, TypeOK
  <2>2. [turn[scope] EXCEPT !.aborted = TRUE] \in Turns
    <3>1. PICK t \in Turns : t = turn[scope]
      BY <2>1 DEF TypeOK
    <3>2. [t EXCEPT !.aborted = TRUE] \in Turns
      BY DEF Turns
    <3> QED BY <3>1, <3>2
  <2>3. TurnAfterCheckpoint = [turn EXCEPT ![scope] = [turn[scope] EXCEPT !.aborted = TRUE]]
    BY <2>1 DEF TypeOK
  <2>4. TurnAfterCheckpoint \in [Threads -> Turns]
    BY <2>2, <2>3 DEF TypeOK
  <2>5. ASSUME NEW s \in Threads
        PROVE  /\ TurnAfterCheckpoint[s].goal = turn[s].goal
               /\ TurnAfterCheckpoint[s].attempts = turn[s].attempts
    <3>1. CASE s = scope
      <4>1. TurnAfterCheckpoint[s] = [turn[s] EXCEPT !.aborted = TRUE]
        BY <2>1, <2>3, <3>1 DEF TypeOK
      <4> QED BY <4>1 DEF TypeOK, Turns
    <3>2. CASE s # scope
      BY <2>1, <2>3, <3>2 DEF TypeOK
    <3> QED BY <3>1, <3>2
  <2> QED BY <2>4, <2>5
<1>2. CASE ~ (scope # None /\ CheckedPhase \in AbortPhases)
  BY <1>2 DEF TurnAfterCheckpoint, TypeOK
<1> QED BY <1>1, <1>2

(* The steps of handleUserRequest().                                        *)
LEMMA RunTurnType ==
    ASSUME TypeOK, GoalChosen, queue' \in QueueOf(Adds), NEW r \in Threads,
           RunTurn(r) \/ Answer(r) \/ ModelCheckpoint(r) \/ TurnFault(r)
    PROVE  TypeOK' /\ GoalChosen'
<1>1. CASE StartTurn(r)
  <2>1. CASE row.running
    <3>1. turn' = turn /\ Throw(r) /\ UNCHANGED <<row, snap, ipc, seen, env>>
      BY <1>1, <2>1 DEF StartTurn
    <3> QED BY <3>1, ThrowType DEF TypeOK
  <2>2. CASE ~ row.running
    <3>1. /\ row' = [running |-> TRUE, phase |-> "starting", intr |-> FALSE]
          /\ pc' = [pc EXCEPT ![r] = "scope"]
      BY <1>1, <2>2 DEF StartTurn, Goto
    <3>2. UNCHANGED <<queue, guard, scope, snap, job, turn, ipc, seen, unmarked, env>>
      BY <1>1, <2>2 DEF StartTurn
    <3>3. row' \in [running : BOOLEAN, phase : RowPhases, intr : BOOLEAN]
      BY <3>1 DEF RowPhases, Phases
    <3>4. pc' \in [Threads -> Pcs] /\ GoalChosen'
      BY <3>1, <3>2 DEF TypeOK, GoalChosen, Pcs, GuardedPcs, LivePcs
    <3> QED BY <3>2, <3>3, <3>4 DEF TypeOK
  <2> QED BY <2>1, <2>2
<1>2. CASE BeginScope(r)
  <2>1. turn' \in [Threads -> Turns] /\ \A s \in Threads : s # r => turn'[s] = turn[s]
    BY <1>2, NoneTyped DEF BeginScope, TypeOK
  <2>2. pc' = [pc EXCEPT ![r] = "setup"]
    BY <1>2 DEF BeginScope, Goto
  <2>3. pc' \in [Threads -> Pcs]
    BY <2>2 DEF TypeOK, Pcs, GuardedPcs, LivePcs
  <2>4. GoalChosen'
    BY <2>1, <2>2 DEF TypeOK, GoalChosen
  <2>5. scope' = r /\ UNCHANGED <<row, queue, guard, snap, job, ipc, seen, unmarked, env>>
    BY <1>2 DEF BeginScope
  <2> QED BY <2>1, <2>3, <2>4, <2>5 DEF TypeOK
<1>3. CASE WritePhase(r)
  <2>1. turn[r].goal \in RowPhases
    BY DEF TypeOK, Turns, RowPhases
  <2>2. row' \in [running : BOOLEAN, phase : RowPhases, intr : BOOLEAN]
    BY <1>3, <2>1 DEF WritePhase, TypeOK
  <2>3. GoalChosen'
    BY <1>3 DEF WritePhase, Goto, TypeOK, GoalChosen
  <2> QED BY <1>3, <2>2, <2>3 DEF WritePhase, Goto, TypeOK, Pcs, GuardedPcs, LivePcs
<1>4. CASE Compact(r) \/ PrepareContext(r) \/ CallModel(r) \/ Answer(r)
  BY <1>4, EnterPhaseType DEF Compact, PrepareContext, CallModel, Answer
<1>5. CASE AppendInput(r)
  BY <1>5 DEF AppendInput, Goto, TypeOK, GoalChosen, Pcs, GuardedPcs, LivePcs
<1>6. CASE HookStop(r)
  <2>1. turn' = [turn EXCEPT ![r].attempts = 1]
    BY <1>6 DEF HookStop
  <2>2. turn' \in [Threads -> Turns]
    BY <2>1 DEF TypeOK, Turns
  <2>3. GoalChosen'
    BY <1>6 DEF HookStop, Goto, TypeOK, GoalChosen
  <2> QED BY <1>6, <2>2, <2>3 DEF HookStop, Goto, TypeOK, Pcs, GuardedPcs, LivePcs
<1>7. CASE Checkpoint(r)
  <2>1. CASE ~ InterruptSeen
    <3>1. turn[r].goal \in {"compacting", "context", "model", "finalizing"}
      BY <1>7 DEF Checkpoint, GoalChosen
    <3>2. AfterPhase(turn[r].goal) \in {"compacted", "answering", "context", "model"}
      BY <3>1 DEF AfterPhase
    <3>3. pc' = [pc EXCEPT ![r] = AfterPhase(turn[r].goal)] /\ turn' = turn
      BY <1>7, <2>1 DEF Checkpoint, Goto
    <3>4. pc' \in [Threads -> Pcs] /\ GoalChosen'
      BY <3>2, <3>3 DEF TypeOK, GoalChosen, Pcs, GuardedPcs, LivePcs
    <3> QED BY <1>7, <2>1, <3>3, <3>4 DEF Checkpoint, TypeOK
  <2>2. CASE InterruptSeen /\ HasUserRow(r)
    <3>1. Fail(r, TurnAfterCheckpoint, TRUE) /\ UNCHANGED <<row, snap, ipc, seen, env>>
      BY <1>7, <2>2 DEF Checkpoint
    <3> QED BY <3>1, AbortType, FailType DEF TypeOK
  <2>3. CASE InterruptSeen /\ ~ HasUserRow(r)
    <3>1. /\ Throw(r) /\ turn' = [TurnAfterCheckpoint EXCEPT ![r] = NoTurn]
          /\ UNCHANGED <<row, snap, ipc, seen, env>>
      BY <1>7, <2>3 DEF Checkpoint
    <3>2. turn' \in [Threads -> Turns] /\ \A s \in Threads : s # r => turn'[s].goal = turn[s].goal
      BY <3>1, AbortType, NoneTyped
    <3> QED BY <3>1, <3>2, ThrowType DEF TypeOK
  <2> QED BY <2>1, <2>2, <2>3
<1>8. CASE ModelCheckpoint(r)
  <2>1. Fail(r, TurnAfterCheckpoint, TRUE) /\ UNCHANGED <<row, snap, ipc, seen, env>>
    BY <1>8 DEF ModelCheckpoint
  <2> QED BY <2>1, AbortType, FailType DEF TypeOK
<1>9. CASE ModelAborted(r)
  <2>1. Fail(r, turn, FALSE) /\ UNCHANGED <<row, snap, ipc, seen, env>>
    BY <1>9 DEF ModelAborted
  <2> QED BY <2>1, FailType DEF TypeOK
<1>10. CASE TurnFault(r)
  <2>1. UNCHANGED <<row, snap, ipc, seen>> /\ env' \in [faults : Nat, crashes : Nat, edits : Nat]
    BY <1>10, FaultType DEF TurnFault
  <2>2. CASE HasUserRow(r)
    <3>1. Fail(r, turn, FALSE)
      BY <1>10, <2>2 DEF TurnFault
    <3> QED BY <2>1, <3>1, FailType DEF TypeOK
  <2>3. CASE ~ HasUserRow(r)
    <3>1. Throw(r) /\ turn' = [turn EXCEPT ![r] = NoTurn]
      BY <1>10, <2>3 DEF TurnFault
    <3>2. turn' \in [Threads -> Turns] /\ \A s \in Threads : s # r => turn'[s].goal = turn[s].goal
      BY <3>1, NoneTyped DEF TypeOK
    <3> QED BY <2>1, <3>1, <3>2, ThrowType DEF TypeOK
  <2> QED BY <2>2, <2>3
<1>11. CASE EndTurn(r)
  <2>1. PICK b \in BOOLEAN : b = (row.intr /\ ~ (pc[r] = "failing" /\ turn[r].interrupted))
    OBVIOUS
  <2>2. /\ row' = [running |-> FALSE, phase |-> "idle", intr |-> b]
        /\ unmarked' \subseteq Threads
    BY <1>11, <2>1 DEF EndTurn, ClearRunning, TypeOK
  <2>3. row' \in [running : BOOLEAN, phase : RowPhases, intr : BOOLEAN]
    BY <2>2 DEF RowPhases
  <2>4. pc' \in [Threads -> Pcs] /\ GoalChosen'
    BY <1>11 DEF EndTurn, Goto, TypeOK, GoalChosen, Pcs, GuardedPcs, EndPcs
  <2> QED BY <1>11, <2>2, <2>3, <2>4 DEF EndTurn, TypeOK
<1> QED BY <1>1, <1>2, <1>3, <1>4, <1>5, <1>6, <1>7, <1>8, <1>9, <1>10, <1>11 DEF RunTurn

(* The end of the chain of turn-end requests.                               *)
LEMMA EndLaunchType ==
    ASSUME TypeOK, GoalChosen, NEW r \in Threads, EndLaunch(r), turn' \in [Threads -> Turns],
           \A s \in Threads : s # r => turn'[s] = turn[s]
    PROVE  pc' \in [Threads -> Pcs] /\ job' \in [Threads -> Jobs] /\ GoalChosen'
<1>1. pc' = [pc EXCEPT ![r] = "leaving"] /\ job' = [job EXCEPT ![r] = NoJob]
  BY DEF EndLaunch, Goto
<1>2. pc' \in [Threads -> Pcs]
  BY <1>1 DEF TypeOK, Pcs, GuardedPcs, EndPcs
<1>3. GoalChosen'
  BY <1>1 DEF TypeOK, GoalChosen
<1> QED BY <1>1, <1>2, <1>3, NoneTyped DEF TypeOK

(* The steps after a turn: its claim, and the next request of the chain.    *)
LEMMA AfterTurnType ==
    ASSUME TypeOK, GoalChosen, queue' \in QueueOf(Adds), NEW r \in Threads,
           AfterTurn(r) \/ EndHookFault(r) \/ CompleteFault(r) \/ ChainFault(r)
    PROVE  TypeOK' /\ GoalChosen'
<1>1. \A id \in NextRunnable(queue) \cup {None} :
         [job EXCEPT ![r].next = id] \in [Threads -> Jobs]
  <2>1. NextRunnable(queue) \subseteq Adds
    BY DEF NextRunnable, RunnableAt, QueueOf, TypeOK
  <2>2. ASSUME NEW id \in Adds \cup {None} PROVE [job EXCEPT ![r].next = id] \in [Threads -> Jobs]
    <3>1. PICK j \in Jobs : j = job[r]
      BY DEF TypeOK
    <3>2. [j EXCEPT !.next = id] \in Jobs
      BY DEF Jobs
    <3>3. [job EXCEPT ![r].next = id] = [job EXCEPT ![r] = [j EXCEPT !.next = id]]
      BY <3>1 DEF TypeOK
    <3> QED BY <3>2, <3>3 DEF TypeOK
  <2> QED BY <2>1, <2>2
<1>2. CASE EndHook(r)
  <2>1. job' \in [Threads -> Jobs]
    BY <1>1, <1>2 DEF EndHook
  <2>2. pc' = [pc EXCEPT ![r] = "hooked"] /\ turn' = turn
    BY <1>2 DEF EndHook, Goto
  <2>3. pc' \in [Threads -> Pcs] /\ GoalChosen'
    BY <2>2 DEF TypeOK, GoalChosen, Pcs, GuardedPcs, EndPcs
  <2> QED BY <1>2, <2>1, <2>3 DEF EndHook, TypeOK
<1>3. CASE EndHookFault(r)
  <2>1. job' \in [Threads -> Jobs]
    BY <1>1, <1>3 DEF EndHookFault
  <2> QED BY <1>3, <2>1 DEF EndHookFault, Fault, TypeOK, GoalChosen
<1>4. CASE CompleteClaim(r)
  <2>1. turn' = [turn EXCEPT ![r] = NoTurn]
    BY <1>4 DEF CompleteClaim
  <2>2. turn' \in [Threads -> Turns] /\ \A s \in Threads : s # r => turn'[s] = turn[s]
    BY <2>1, NoneTyped DEF TypeOK
  <2>3. pc' \in [Threads -> Pcs] /\ job' \in [Threads -> Jobs] /\ GoalChosen'
    <3>1. CASE EndLaunch(r)
      BY <2>2, <3>1, EndLaunchType
    <3>2. CASE Goto(r, "completed") /\ UNCHANGED job
      BY <2>2, <3>2 DEF Goto, TypeOK, GoalChosen, Pcs, GuardedPcs, EndPcs
    <3> QED BY <1>4, <3>1, <3>2 DEF CompleteClaim
  <2> QED BY <1>4, <2>2, <2>3 DEF CompleteClaim, LeaveScope, TypeOK
<1>5. CASE CompleteFault(r) \/ ChainFault(r)
  <2>1. EndLaunch(r) /\ turn' = turn
    BY <1>5 DEF CompleteFault, ChainFault
  <2>2. pc' \in [Threads -> Pcs] /\ job' \in [Threads -> Jobs] /\ GoalChosen'
    BY <2>1, EndLaunchType DEF TypeOK
  <2> QED BY <1>5, <2>2 DEF CompleteFault, ChainFault, Fault, TypeOK
<1>6. CASE Continue(r)
  <2>1. turn' = turn
    BY <1>6 DEF Continue
  <2>2. CASE EndLaunch(r)
    <3>1. pc' \in [Threads -> Pcs] /\ job' \in [Threads -> Jobs] /\ GoalChosen'
      BY <2>1, <2>2, EndLaunchType DEF TypeOK
    <3> QED BY <1>6, <3>1 DEF Continue, TypeOK
  <2>3. CASE ~ EndLaunch(r)
    <3>1. PICK j : j = [req |-> job[r].next, next |-> None, number |-> job[r].number + 1]
      OBVIOUS
    <3>2. /\ job[r].number < MaxChain /\ job' = [job EXCEPT ![r] = j]
          /\ pc' = [pc EXCEPT ![r] = "chain"]
      BY <1>6, <2>3, <3>1, BoundsAssumption DEF Continue, Goto, TypeOK, Jobs
    <3>3. job[r].number + 1 \in 0..MaxChain
      <4>1. job[r].number \in 0..MaxChain /\ MaxChain \in Nat
        BY BoundsAssumption DEF TypeOK, Jobs
      <4> QED BY ONLY <3>2, <4>1
    <3>4. j \in Jobs
      BY <3>1, <3>3 DEF TypeOK, Jobs
    <3>5. job' \in [Threads -> Jobs]
      BY <3>2, <3>4 DEF TypeOK
    <3>6. pc' \in [Threads -> Pcs] /\ GoalChosen'
      BY <2>1, <3>2 DEF TypeOK, GoalChosen, Pcs, GuardedPcs, DrainPcs
    <3> QED BY <1>6, <3>5, <3>6 DEF Continue, TypeOK
  <2> QED BY <2>2, <2>3
<1>7. CASE Leave(r)
  <2>1. Finish(r, TRUE) /\ UNCHANGED <<row, scope, snap, turn, ipc, seen, unmarked, env>>
    BY <1>7 DEF Leave
  <2> QED BY <2>1, FinishType DEF TypeOK
<1> QED BY <1>2, <1>3, <1>4, <1>5, <1>6, <1>7 DEF AfterTurn

(* The failures before any turn has started.                                *)
LEMMA EarlyFaultType ==
    ASSUME TypeOK, GoalChosen, queue' \in QueueOf(Adds), NEW r \in Threads,
           AttachmentsRejected(r) \/ AddFault(r) \/ DrainFault(r)
    PROVE  TypeOK' /\ GoalChosen'
<1>1. env' \in [faults : Nat, crashes : Nat, edits : Nat]
  BY FaultType DEF AttachmentsRejected, AddFault, DrainFault
<1>2. CASE AttachmentsRejected(r) \/ AddFault(r)
  BY <1>1, <1>2
     DEF AttachmentsRejected, AddFault, Goto, Forget, TypeOK, GoalChosen, Pcs, QuietPcs
<1>3. CASE DrainFault(r)
  <2>1. Finish(r, FALSE) /\ UNCHANGED <<row, scope, snap, turn, ipc, seen, unmarked>>
    BY <1>3 DEF DrainFault
  <2> QED BY <1>1, <2>1, FinishType DEF TypeOK
<1> QED BY <1>2, <1>3

(* The steps of an interrupt.                                               *)
LEMMA InterruptType ==
    ASSUME TypeOK, GoalChosen, NEW x \in Interrupts, IntRead(x) \/ IntStep(x) \/ IntFault(x)
    PROVE  TypeOK' /\ GoalChosen'
<1> DEFINE Seen == [running : BOOLEAN, phase : RowPhases]
<1>1. ipc' \in [Interrupts -> IntPcs]
  BY ZenonT(30) DEF IntRead, IntStep, IntCheck, IntRequest, IntRuntime, IntComplete, IntFault, IntGoto,
         IntPcs, TypeOK
<1>2. pc' = pc /\ UNCHANGED <<queue, guard, scope, snap, job>>
  BY DEF IntRead, IntStep, IntCheck, IntRequest, IntRuntime, IntComplete, IntFault
<1>3. NoRow \in Seen
  BY DEF NoRow, RowPhases
<1>4. CASE IntRead(x)
  <2>1. [running |-> row.running, phase |-> row.phase] \in Seen
    BY DEF TypeOK
  <2>2. seen' \in [Interrupts -> Seen]
    BY <1>4, <2>1 DEF IntRead, TypeOK
  <2> QED BY <1>1, <1>2, <1>4, <2>2 DEF IntRead, TypeOK, GoalChosen
<1>5. CASE IntCheck(x)
  <2>1. PICK ph : ph = IF scope = None THEN "idle" ELSE turn[scope].phase
    OBVIOUS
  <2>2. ph \in RowPhases
    BY <2>1 DEF TypeOK, Turns, RowPhases
  <2>3. [running |-> FALSE, phase |-> ph] \in Seen
    BY <2>2
  <2>4. \/ seen' = [seen EXCEPT ![x] = NoRow]
        \/ seen' = [seen EXCEPT ![x] = [running |-> FALSE, phase |-> ph]]
    BY <1>5, <2>1 DEF IntCheck
  <2>5. seen' \in [Interrupts -> Seen]
    BY <1>3, <2>3, <2>4 DEF TypeOK
  <2> QED BY <1>1, <1>2, <1>5, <2>5 DEF IntCheck, TypeOK, GoalChosen
<1>6. CASE IntRequest(x)
  <2>1. seen' \in [Interrupts -> Seen]
    BY <1>3, <1>6 DEF IntRequest, TypeOK
  <2>2. PICK ph : ph = IF seen[x].phase = "idle" THEN row.phase ELSE seen[x].phase
    OBVIOUS
  <2>3. ph \in RowPhases
    BY <2>2 DEF TypeOK
  <2>4. row' = [row EXCEPT !.intr = TRUE, !.phase = ph]
    BY <1>6, <2>2 DEF IntRequest
  <2>5. row' \in [running : BOOLEAN, phase : RowPhases, intr : BOOLEAN]
    BY <2>3, <2>4 DEF TypeOK
  <2> QED BY <1>1, <1>2, <1>6, <2>1, <2>5 DEF IntRequest, TypeOK, GoalChosen
<1>7. CASE IntRuntime(x)
  <2>1. UNCHANGED <<row, seen, unmarked, env>>
    BY <1>7 DEF IntRuntime
  <2>2. turn' \in [Threads -> Turns] /\ \A s \in Threads : turn'[s].goal = turn[s].goal
    <3>1. CASE scope = None
      BY <1>7, <3>1 DEF IntRuntime, TypeOK
    <3>2. CASE scope # None
      <4>1. PICK b : b = (turn[scope].aborted \/ turn[scope].phase \in AbortPhases)
        OBVIOUS
      <4>2. turn' = [turn EXCEPT ![scope].phase = "interrupted", ![scope].aborted = b]
        BY <1>7, <3>2, <4>1 DEF IntRuntime
      <4>3. scope \in Threads /\ b \in BOOLEAN /\ "interrupted" \in Phases
        BY <3>2, <4>1, Zenon DEF TypeOK, Phases
      <4>4. PICK t \in Turns : t = turn[scope]
        BY <4>3 DEF TypeOK
      <4>5. /\ [t EXCEPT !.phase = "interrupted", !.aborted = b] \in Turns
            /\ [t EXCEPT !.phase = "interrupted", !.aborted = b].goal = t.goal
        BY <4>3 DEF Turns
      <4>6. turn' = [turn EXCEPT ![scope] = [t EXCEPT !.phase = "interrupted", !.aborted = b]]
        BY <4>2, <4>3, <4>4 DEF TypeOK
      <4>7. turn' \in [Threads -> Turns]
        BY <4>5, <4>6 DEF TypeOK
      <4>8. \A s \in Threads : s # scope => turn'[s] = turn[s]
        BY <4>6 DEF TypeOK
      <4>9. turn'[scope].goal = turn[scope].goal
        BY <4>3, <4>4, <4>5, <4>6 DEF TypeOK
      <4> QED BY <4>7, <4>8, <4>9
    <3> QED BY <3>1, <3>2
  <2> QED BY <1>1, <1>2, <2>1, <2>2 DEF TypeOK, GoalChosen
<1>8. CASE IntComplete(x)
  <2>1. row' = [running |-> FALSE, phase |-> "idle", intr |-> FALSE] /\ unmarked' \subseteq Threads
    BY <1>8 DEF IntComplete, ClearRunning, TypeOK
  <2>2. row' \in [running : BOOLEAN, phase : RowPhases, intr : BOOLEAN]
    BY <2>1 DEF RowPhases
  <2> QED BY <1>1, <1>2, <1>8, <2>1, <2>2 DEF IntComplete, TypeOK, GoalChosen
<1>9. CASE IntFault(x)
  <2>1. seen' \in [Interrupts -> Seen] /\ env' \in [faults : Nat, crashes : Nat, edits : Nat]
    BY <1>3, <1>9, FaultType DEF IntFault, TypeOK
  <2> QED BY <1>1, <1>2, <1>9, <2>1 DEF IntFault, TypeOK, GoalChosen
<1> QED BY <1>4, <1>5, <1>6, <1>7, <1>8, <1>9 DEF IntStep

(* An edit of the queue, and a crash.                                       *)
LEMMA OutsideType ==
    ASSUME TypeOK, GoalChosen, queue' \in QueueOf(Adds), Edit \/ Crash
    PROVE  TypeOK' /\ GoalChosen'
<1>1. CASE Edit
  <2>1. env' \in [faults : Nat, crashes : Nat, edits : Nat]
    BY <1>1 DEF Edit, TypeOK
  <2> QED BY <1>1, <2>1 DEF Edit, TypeOK, GoalChosen
<1>2. CASE Crash
  <2>1. env' \in [faults : Nat, crashes : Nat, edits : Nat]
    BY <1>2 DEF Crash, TypeOK
  <2>2. /\ pc' \in [Threads -> Pcs] /\ snap' \in [Threads -> BOOLEAN]
        /\ ipc' \in [Interrupts -> IntPcs]
    BY <1>2 DEF Crash, TypeOK, Pcs, QuietPcs, IntPcs
  <2>3. job' \in [Threads -> Jobs] /\ turn' \in [Threads -> Turns]
    BY <1>2, NoneTyped DEF Crash
  <2>4. seen' \in [Interrupts -> [running : BOOLEAN, phase : RowPhases]]
    BY <1>2 DEF Crash, NoRow, RowPhases
  <2>5. GoalChosen'
    BY <1>2 DEF Crash, GoalChosen
  <2> QED BY <1>2, <2>1, <2>2, <2>3, <2>4, <2>5 DEF Crash, TypeOK
<1> QED BY <1>1, <1>2

-----------------------------------------------------------------------------
Sound == TypeOK /\ QueueSound /\ GoalChosen

(* The initial state satisfies the inductive invariant.                     *)
LEMMA InitSound == Init => Sound
<1> SUFFICES ASSUME Init PROVE Sound
  OBVIOUS
<1>1. TypeOK
  BY InitType
<1>2. QueueSound
  BY <1>1 DEF Init, QueueSound, EmptyQueue, Distinct, Queued, TypeOK
<1>3. GoalChosen
  BY DEF Init, GoalChosen
<1> QED BY <1>1, <1>2, <1>3 DEF Sound

(* Every step keeps it.                                                     *)
LEMMA StepSound == Sound /\ [Next]_vars => Sound'
<1> SUFFICES ASSUME Sound, [Next]_vars PROVE Sound'
  OBVIOUS
<1>1. QueueSound' /\ queue' \in QueueOf(Adds)
  BY QueueStepSound DEF Sound, QueueSound
<1>2. TypeOK /\ GoalChosen
  BY DEF Sound
<1>3. ASSUME NEW r \in Threads,
             Begin(r) \/ Step(r) \/ Answer(r) \/ ModelCheckpoint(r) \/ FaultStep(r)
      PROVE  TypeOK' /\ GoalChosen'
  BY <1>1, <1>2, <1>3, LaunchType, RunTurnType, AfterTurnType, EarlyFaultType DEF Step, FaultStep
<1>4. ASSUME NEW x \in Interrupts, IntRead(x) \/ IntStep(x) \/ IntFault(x)
      PROVE  TypeOK' /\ GoalChosen'
  BY <1>2, <1>4, InterruptType
<1>5. ASSUME Edit \/ Crash PROVE TypeOK' /\ GoalChosen'
  BY <1>1, <1>2, <1>5, OutsideType
<1>6. ASSUME UNCHANGED vars PROVE TypeOK' /\ GoalChosen'
  BY <1>2, <1>6 DEF vars, TypeOK, GoalChosen
<1> QED BY <1>1, <1>3, <1>4, <1>5, <1>6 DEF Next, Sound

(* The types of the variables, for any sets of messages and any bounds.      *)
THEOREM Typing == Spec => []TypeOK
<1>1. Spec => []Sound
  BY InitSound, StepSound, PTL DEF Spec
<1>2. Sound => TypeOK
  BY DEF Sound
<1> QED BY <1>1, <1>2, PTL

-----------------------------------------------------------------------------
(* TurnExclusive.  It is inductive with TypeOK: StartTurn is the only action *)
(* that makes a turn live and marked, and the database's condition lets it   *)
(* through only when no marked turn is live.                                 *)

Marked(r) == Live(r) /\ r \notin unmarked

NoNewMark == row'.running = row.running /\ \A s \in Threads : Marked(s)' => Marked(s)

(* A step that marks no turn, and leaves isrunning, keeps the exclusion.    *)
LEMMA NoNewMarkExclusive ==
    ASSUME TurnExclusive, NoNewMark
    PROVE  TurnExclusive'
BY DEF TurnExclusive, NoNewMark, Marked

(* A turn that throws ends no other and starts none.                        *)
LEMMA ThrowMarks ==
    ASSUME TypeOK, NEW r \in Threads, Throw(r)
    PROVE  \A s \in Threads : Marked(s)' => Marked(s)
BY DEF TypeOK, Throw, EndLaunch, Goto, Marked, Live, LivePcs

(* The same of handleTurnFailure, at its first try and at its second.       *)
LEMMA FailMarks ==
    ASSUME TypeOK, NEW r \in Threads, NEW turns, NEW b, Fail(r, turns, b)
    PROVE  \A s \in Threads : Marked(s)' => Marked(s)
<1>1. CASE turn[r].attempts = 2
  BY <1>1, ThrowMarks DEF Fail
<1>2. CASE turn[r].attempts # 2
  <2>1. /\ pc' = [pc EXCEPT ![r] = "failing"]
        /\ unmarked' = IF Live(r) THEN unmarked ELSE unmarked \cup {r}
    BY <1>2 DEF Fail, Goto
  <2> QED BY <2>1 DEF TypeOK, Marked, Live
<1> QED BY <1>1, <1>2

(* The steps of a message: StartTurn is the only one that makes a mark,     *)
(* EndTurn and Fail the ones that clear isrunning.                          *)
LEMMA ThreadMarks ==
    ASSUME TypeOK, TurnExclusive, NEW r \in Threads,
           Begin(r) \/ Step(r) \/ Answer(r) \/ ModelCheckpoint(r) \/ FaultStep(r)
    PROVE  TurnExclusive'
<1> USE DEF NoNewMark, Goto
<1>1. CASE InputRead(r) \/ AddRead(r) \/ DrainRead(r) \/ ChainRead(r)
  <2>1. NoNewMark
    BY <1>1 DEF InputRead, AddRead, DrainRead, ChainRead, ReadRow, TypeOK, Marked, Live, LivePcs
  <2> QED BY <2>1, NoNewMarkExclusive
<1>2. CASE InputCheck(r) \/ InputLaunch(r) \/ AttachmentsRejected(r)
  <2>1. NoNewMark
    BY <1>2 DEF InputCheck, InputLaunch, AttachmentsRejected, TypeOK, Marked, Live, LivePcs
  <2> QED BY <2>1, NoNewMarkExclusive
<1>3. CASE AddEnqueue(r) \/ AddStart(r) \/ AddFault(r)
  <2>1. NoNewMark
    BY <1>3 DEF AddEnqueue, AddStart, AddFault, TypeOK, Marked, Live, LivePcs
  <2> QED BY <2>1, NoNewMarkExclusive
<1>4. CASE DrainRunning(r) \/ DrainLaunch(r) \/ DrainFault(r) \/ Leave(r)
  <2>1. NoNewMark
    BY <1>4 DEF DrainRunning, DrainLaunch, DrainFault, Leave, Finish, TypeOK, Marked, Live, LivePcs
  <2> QED BY <2>1, NoNewMarkExclusive
<1>5. CASE DrainClaim(r) \/ ChainGo(r) \/ ChainFault(r)
  <2>1. NoNewMark
    BY <1>5 DEF DrainClaim, ChainGo, ChainFault, EndLaunch, TypeOK, Marked, Live, LivePcs
  <2> QED BY <2>1, NoNewMarkExclusive
<1>6. CASE EndHook(r) \/ EndHookFault(r) \/ CompleteClaim(r) \/ CompleteFault(r) \/ Continue(r)
  <2>1. NoNewMark
    BY <1>6 DEF EndHook, EndHookFault, CompleteClaim, CompleteFault, Continue, EndLaunch,
                TypeOK, Marked, Live, LivePcs
  <2> QED BY <2>1, NoNewMarkExclusive
<1>7. CASE StartTurn(r)
  <2>1. CASE row.running
    <3>1. NoNewMark
      BY <1>7, <2>1, ThrowMarks DEF StartTurn
    <3> QED BY <3>1, NoNewMarkExclusive
  <2>2. CASE ~ row.running
    <3>1. \A s \in Threads : ~ Marked(s)
      BY <2>2 DEF TurnExclusive, Marked
    <3>2. row'.running /\ unmarked' = unmarked /\ pc' = [pc EXCEPT ![r] = "scope"]
      BY <1>7, <2>2 DEF StartTurn
    <3>3. \A s \in Threads : Marked(s)' => s = r
      BY <3>1, <3>2 DEF TypeOK, Marked, Live
    <3> QED BY <3>2, <3>3 DEF TurnExclusive, Marked
  <2> QED BY <2>1, <2>2
<1>8. CASE BeginScope(r) \/ AppendInput(r) \/ HookStop(r)
  <2>1. NoNewMark
    BY <1>8 DEF BeginScope, AppendInput, HookStop, TypeOK, Marked, Live, LivePcs
  <2> QED BY <2>1, NoNewMarkExclusive
<1>9. CASE Compact(r) \/ PrepareContext(r) \/ CallModel(r) \/ Answer(r)
  <2>1. NoNewMark
    BY <1>9 DEF Compact, PrepareContext, CallModel, Answer, EnterPhase, TypeOK, Marked, Live, LivePcs
  <2> QED BY <2>1, NoNewMarkExclusive
<1>10. CASE WritePhase(r)
  <2>1. row'.running = row.running
    BY <1>10 DEF WritePhase, TypeOK
  <2>2. pc[r] = "phase" /\ pc' = [pc EXCEPT ![r] = "check"] /\ unmarked' = unmarked
    BY <1>10 DEF WritePhase
  <2>3. NoNewMark
    BY <2>1, <2>2 DEF TypeOK, Marked, Live, LivePcs
  <2> QED BY <2>3, NoNewMarkExclusive
<1>11. CASE Checkpoint(r)
  <2>1. row' = row
    BY <1>11 DEF Checkpoint
  <2>2. CASE InterruptSeen
    <3>1. NoNewMark
      BY <1>11, <2>1, <2>2, ThrowMarks, FailMarks DEF Checkpoint
    <3> QED BY <3>1, NoNewMarkExclusive
  <2>3. CASE ~ InterruptSeen
    <3>1. /\ pc[r] = "check" /\ pc' = [pc EXCEPT ![r] = AfterPhase(turn[r].goal)]
          /\ unmarked' = unmarked
      BY <1>11, <2>3 DEF Checkpoint
    <3>2. \A s \in Threads : Live(s)' => Live(s)
      BY <3>1 DEF TypeOK, Live, LivePcs
    <3>3. NoNewMark
      BY <2>1, <3>1, <3>2 DEF Marked
    <3> QED BY <3>3, NoNewMarkExclusive
  <2> QED BY <2>2, <2>3
<1>12. CASE ModelCheckpoint(r) \/ ModelAborted(r)
  <2>1. NoNewMark
    BY <1>12, FailMarks DEF ModelCheckpoint, ModelAborted
  <2> QED BY <2>1, NoNewMarkExclusive
<1>13. CASE TurnFault(r)
  <2>1. NoNewMark
    BY <1>13, FailMarks, ThrowMarks DEF TurnFault
  <2> QED BY <2>1, NoNewMarkExclusive
<1>14. CASE EndTurn(r)
  <2>1. /\ pc' = [pc EXCEPT ![r] = "ended"]
        /\ unmarked' = (unmarked \cup {s \in Threads : Live(s)}) \ {r}
    BY <1>14 DEF EndTurn, ClearRunning
  <2>2. \A s \in Threads : ~ Marked(s)'
    BY <2>1 DEF TypeOK, Marked, Live, LivePcs
  <2> QED BY <2>2 DEF TurnExclusive, Marked
<1> QED BY <1>1, <1>2, <1>3, <1>4, <1>5, <1>6, <1>7, <1>8, <1>9, <1>10, <1>11, <1>12, <1>13, <1>14
        DEF Begin, Step, Launch, RunTurn, AfterTurn, FaultStep

(* Interrupts, edits and a crash start no turn.                             *)
LEMMA OtherMarks ==
    ASSUME TypeOK, TurnExclusive,
           \/ \E x \in Interrupts : IntRead(x) \/ IntStep(x) \/ IntFault(x)
           \/ Edit \/ Crash \/ UNCHANGED vars
    PROVE  TurnExclusive'
<1>1. ASSUME NEW x \in Interrupts, IntRead(x) \/ IntCheck(x) \/ IntRuntime(x) \/ IntFault(x)
      PROVE  TurnExclusive'
  BY <1>1 DEF IntRead, IntCheck, IntRuntime, IntFault, TurnExclusive, Live
<1>2. ASSUME NEW x \in Interrupts, IntRequest(x) PROVE TurnExclusive'
  <2>1. row'.running = row.running /\ UNCHANGED <<pc, unmarked>>
    BY <1>2 DEF IntRequest, TypeOK
  <2> QED BY <2>1 DEF TurnExclusive, Live
<1>3. ASSUME NEW x \in Interrupts, IntComplete(x) PROVE TurnExclusive'
  <2>1. pc' = pc /\ {s \in Threads : Live(s)} \subseteq unmarked'
    BY <1>3, ThreadsAssumption DEF IntComplete, ClearRunning
  <2> QED BY <2>1 DEF TurnExclusive, Live
<1>4. CASE Edit \/ UNCHANGED vars
  BY <1>4 DEF Edit, vars, TurnExclusive, Live
<1>5. CASE Crash
  <2>1. \A r \in Threads : ~ Live(r)'
    BY <1>5 DEF Crash, Live, LivePcs
  <2> QED BY <2>1 DEF TurnExclusive
<1> QED BY <1>1, <1>2, <1>3, <1>4, <1>5 DEF IntStep

(* isrunning excludes: however many messages race, and whatever fails, a     *)
(* turn whose mark nobody else has cleared is the only such turn, and the    *)
(* session row says that it runs.                                            *)
THEOREM Exclusion == Spec => []TurnExclusive
<1>1. Init => TurnExclusive
  BY DEF Init, TurnExclusive, Live, LivePcs
<1>2. TypeOK /\ TurnExclusive /\ [Next]_vars => TurnExclusive'
  BY ThreadMarks, OtherMarks DEF Next
<1> QED BY <1>1, <1>2, Typing, PTL DEF Spec

(* InterruptKept.  Only three actions clear interruptrequested: StartTurn,   *)
(* which the database lets through when no marked turn is live, and the two  *)
(* that clear isrunning, which take the mark of every other live turn.       *)
RequestKept ==
    row.intr /\ ~ row'.intr =>
        \A r \in Threads : Live(r) /\ r \notin unmarked => ~ Live(r)' \/ r \in unmarked'

(* The steps of a message, the start of a turn among them.                  *)
LEMMA ThreadKeepsRequest ==
    ASSUME TypeOK, TurnExclusive, NEW r \in Threads,
           Begin(r) \/ Step(r) \/ Answer(r) \/ ModelCheckpoint(r) \/ FaultStep(r)
    PROVE  RequestKept
<1>1. CASE StartTurn(r) /\ ~ row.running
  BY <1>1 DEF RequestKept, TurnExclusive
<1>2. CASE EndTurn(r)
  <2>1. /\ pc' = [pc EXCEPT ![r] = "ended"]
        /\ unmarked' = (unmarked \cup {s \in Threads : Live(s)}) \ {r}
    BY <1>2 DEF EndTurn, ClearRunning, Goto
  <2> QED BY <2>1 DEF TypeOK, RequestKept, Live, LivePcs
<1>3. CASE WritePhase(r)
  <2>1. row'.intr = row.intr
    BY <1>3 DEF WritePhase, TypeOK
  <2> QED BY <2>1 DEF RequestKept
<1>4. CASE StartTurn(r) /\ row.running
  BY <1>4 DEF StartTurn, RequestKept
<1>5. ASSUME ~ StartTurn(r), ~ EndTurn(r), ~ WritePhase(r) PROVE row' = row
  <2>1. CASE KeepsQueue(r)
    BY <1>5, <2>1
       DEF KeepsQueue, InputRead, InputCheck, InputLaunch, AttachmentsRejected, AddRead, AddStart,
           AddFault, DrainRead, ChainRead, ReadRow, DrainRunning, DrainLaunch, DrainFault,
           ChainFault, BeginScope, Compact, AppendInput, HookStop, PrepareContext, CallModel,
           Answer, EnterPhase, EndHookFault, CompleteFault, Leave
  <2>2. CASE AddEnqueue(r) \/ DrainClaim(r) \/ ChainGo(r)
    BY <2>2 DEF AddEnqueue, DrainClaim, ChainGo
  <2>3. CASE Checkpoint(r) \/ ModelCheckpoint(r) \/ ModelAborted(r) \/ TurnFault(r)
    BY <2>3 DEF Checkpoint, ModelCheckpoint, ModelAborted, TurnFault
  <2>4. CASE EndHook(r) \/ CompleteClaim(r) \/ Continue(r)
    BY <2>4 DEF EndHook, CompleteClaim, Continue
  <2> QED BY <1>5, <2>1, <2>2, <2>3, <2>4
          DEF KeepsQueue, Begin, Step, Launch, RunTurn, AfterTurn, FaultStep
<1> QED BY <1>1, <1>2, <1>3, <1>4, <1>5 DEF RequestKept

(* An accepted interrupt reaches the turn it is for, however many messages   *)
(* interrupt, start and end turns at once.                                   *)
THEOREM InterruptStays == Spec => InterruptKept
<1>1. ASSUME TypeOK, TurnExclusive, [Next]_vars PROVE [RequestKept]_vars
  <2>1. ASSUME NEW r \in Threads,
               Begin(r) \/ Step(r) \/ Answer(r) \/ ModelCheckpoint(r) \/ FaultStep(r)
        PROVE  RequestKept
    BY <1>1, <2>1, ThreadKeepsRequest
  <2>2. ASSUME NEW x \in Interrupts, IntRead(x) \/ IntCheck(x) \/ IntRuntime(x) \/ IntFault(x)
        PROVE  RequestKept
    BY <2>2 DEF IntRead, IntCheck, IntRuntime, IntFault, RequestKept
  <2>3. ASSUME NEW x \in Interrupts, IntRequest(x) PROVE RequestKept
    <3>1. row'.intr
      BY <1>1, <2>3 DEF IntRequest, TypeOK
    <3> QED BY <3>1 DEF RequestKept
  <2>4. ASSUME NEW x \in Interrupts, IntComplete(x) PROVE RequestKept
    <3>1. {s \in Threads : Live(s)} \subseteq unmarked'
      BY <2>4, ThreadsAssumption DEF IntComplete, ClearRunning
    <3> QED BY <3>1 DEF RequestKept
  <2>5. CASE Edit \/ Crash
    BY <2>5 DEF Edit, Crash, RequestKept
  <2> QED BY <1>1, <2>1, <2>2, <2>3, <2>4, <2>5 DEF Next, IntStep
<1>2. Spec => [][RequestKept]_vars
  BY <1>1, Typing, Exclusion, PTL DEF Spec
<1> QED BY <1>2 DEF InterruptKept, RequestKept

-----------------------------------------------------------------------------
(* GuardAccounted.  A thread that is past taking the guard stays so until    *)
(* Finish, which puts the guard back unless it starts the queue again.       *)

GuardKept ==
    /\ guard' => guard
    /\ \A s \in Threads : pc[s] \in GuardedPcs => pc'[s] \in GuardedPcs

(* A step that takes no guard, and takes no thread from its guarded code.   *)
LEMMA GuardKeptAccounted ==
    ASSUME GuardAccounted, GuardKept
    PROVE  GuardAccounted'
BY DEF GuardAccounted, GuardKept

(* A turn that throws is still under its guard, until it leaves.            *)
LEMMA ThrowGuard ==
    ASSUME TypeOK, NEW r \in Threads, Throw(r)
    PROVE  GuardKept
BY DEF TypeOK, Throw, EndLaunch, Goto, GuardKept, GuardedPcs, EndPcs

(* The same of a turn that fails.                                           *)
LEMMA FailGuard ==
    ASSUME TypeOK, NEW r \in Threads, NEW turns, NEW b, Fail(r, turns, b)
    PROVE  GuardKept
<1>1. CASE turn[r].attempts = 2
  BY <1>1, ThrowGuard DEF Fail
<1>2. CASE turn[r].attempts # 2
  <2>1. pc' = [pc EXCEPT ![r] = "failing"] /\ guard' = guard
    BY <1>2 DEF Fail, Goto
  <2> QED BY <2>1 DEF TypeOK, GuardKept, GuardedPcs, LivePcs
<1> QED BY <1>1, <1>2

(* Giving the guard back, or keeping it for the items still queued.         *)
LEMMA FinishGuard ==
    ASSUME TypeOK, NEW r \in Threads, NEW b \in BOOLEAN, Finish(r, b)
    PROVE  GuardAccounted'
<1>1. PICK again \in BOOLEAN : again = (b /\ HasItems(queue))
  OBVIOUS
<1>2. guard' = again /\ pc' = [pc EXCEPT ![r] = IF again THEN "drain" ELSE "done"]
  BY <1>1 DEF Finish, Goto
<1> QED BY <1>2 DEF TypeOK, GuardAccounted, GuardedPcs, DrainPcs

(* The steps of a message: the guard is set where a thread enters its       *)
(* guarded code and reset where one leaves it.                              *)
LEMMA ThreadGuard ==
    ASSUME TypeOK, GoalChosen, GuardAccounted, NEW r \in Threads,
           Begin(r) \/ Step(r) \/ Answer(r) \/ ModelCheckpoint(r) \/ FaultStep(r)
    PROVE  GuardAccounted'
<1> USE DEF Goto
<1>1. CASE InputRead(r) \/ AddRead(r) \/ DrainRead(r) \/ ChainRead(r)
  <2>1. GuardKept
    BY <1>1 DEF InputRead, AddRead, DrainRead, ChainRead, ReadRow, TypeOK, GuardKept, GuardedPcs,
                DrainPcs, LivePcs, EndPcs
  <2> QED BY <2>1, GuardKeptAccounted
<1>2. CASE InputCheck(r) \/ AttachmentsRejected(r) \/ AddEnqueue(r) \/ AddFault(r)
  <2>1. GuardKept
    BY <1>2 DEF InputCheck, AttachmentsRejected, AddEnqueue, AddFault, TypeOK, GuardKept,
                GuardedPcs, DrainPcs, LivePcs, EndPcs
  <2> QED BY <2>1, GuardKeptAccounted
<1>3. CASE InputLaunch(r)
  BY <1>3 DEF InputLaunch, TypeOK, GuardAccounted, GuardedPcs
<1>4. CASE AddStart(r)
  <2>1. CASE snap[r] \/ guard
    <3>1. GuardKept
      BY <1>4, <2>1 DEF AddStart, TypeOK, GuardKept, GuardedPcs, DrainPcs, LivePcs, EndPcs
    <3> QED BY <3>1, GuardKeptAccounted
  <2>2. CASE ~ (snap[r] \/ guard)
    BY <1>4, <2>2 DEF AddStart, TypeOK, GuardAccounted, GuardedPcs, DrainPcs
  <2> QED BY <2>1, <2>2
<1>5. CASE DrainRunning(r) \/ DrainFault(r) \/ Leave(r)
  BY <1>5, FinishGuard DEF DrainRunning, DrainFault, Leave
<1>6. CASE DrainLaunch(r)
  <2>1. CASE Finish(r, FALSE)
    BY <2>1, FinishGuard
  <2>2. CASE ~ Finish(r, FALSE)
    <3>1. guard' = guard /\ pc' = [pc EXCEPT ![r] = "chain"]
      BY <1>6, <2>2 DEF DrainLaunch
    <3>2. GuardKept
      BY <3>1 DEF TypeOK, GuardKept, GuardedPcs, DrainPcs
    <3> QED BY <3>2, GuardKeptAccounted
  <2> QED BY <2>1, <2>2
<1>7. CASE DrainClaim(r) \/ ChainGo(r) \/ ChainFault(r)
  <2>1. GuardKept
    BY <1>7 DEF DrainClaim, ChainGo, ChainFault, EndLaunch, TypeOK, GuardKept, GuardedPcs,
                DrainPcs, LivePcs, EndPcs
  <2> QED BY <2>1, GuardKeptAccounted
<1>8. CASE EndHook(r) \/ EndHookFault(r) \/ CompleteClaim(r) \/ CompleteFault(r) \/ Continue(r)
  <2>1. GuardKept
    BY <1>8 DEF EndHook, EndHookFault, CompleteClaim, CompleteFault, Continue, EndLaunch,
                TypeOK, GuardKept, GuardedPcs, DrainPcs, EndPcs
  <2> QED BY <2>1, GuardKeptAccounted
<1>9. CASE StartTurn(r)
  <2>1. GuardKept
    BY <1>9, ThrowGuard DEF StartTurn, TypeOK, GuardKept, GuardedPcs, LivePcs
  <2> QED BY <2>1, GuardKeptAccounted
<1>10. CASE BeginScope(r) \/ WritePhase(r) \/ AppendInput(r) \/ HookStop(r) \/ EndTurn(r)
  <2>1. GuardKept
    BY <1>10 DEF BeginScope, WritePhase, AppendInput, HookStop, EndTurn, TypeOK, GuardKept,
                 GuardedPcs, LivePcs, EndPcs
  <2> QED BY <2>1, GuardKeptAccounted
<1>11. CASE Compact(r) \/ PrepareContext(r) \/ CallModel(r) \/ Answer(r)
  <2>1. GuardKept
    BY <1>11 DEF Compact, PrepareContext, CallModel, Answer, EnterPhase, TypeOK, GuardKept,
                 GuardedPcs, LivePcs
  <2> QED BY <2>1, GuardKeptAccounted
<1>12. CASE Checkpoint(r)
  <2>1. CASE InterruptSeen
    <3>1. GuardKept
      BY <1>12, <2>1, ThrowGuard, FailGuard DEF Checkpoint
    <3> QED BY <3>1, GuardKeptAccounted
  <2>2. CASE ~ InterruptSeen
    <3>1. turn[r].goal \in {"compacting", "context", "model", "finalizing"}
      BY <1>12 DEF Checkpoint, GoalChosen
    <3>2. AfterPhase(turn[r].goal) \in GuardedPcs
      BY <3>1 DEF AfterPhase, GuardedPcs, LivePcs
    <3>3. guard' = guard /\ pc' = [pc EXCEPT ![r] = AfterPhase(turn[r].goal)]
      BY <1>12, <2>2 DEF Checkpoint
    <3>4. GuardKept
      BY <3>2, <3>3 DEF TypeOK, GuardKept
    <3> QED BY <3>4, GuardKeptAccounted
  <2> QED BY <2>1, <2>2
<1>13. CASE ModelCheckpoint(r) \/ ModelAborted(r) \/ TurnFault(r)
  <2>1. GuardKept
    BY <1>13, FailGuard, ThrowGuard DEF ModelCheckpoint, ModelAborted, TurnFault
  <2> QED BY <2>1, GuardKeptAccounted
<1> QED BY <1>1, <1>2, <1>3, <1>4, <1>5, <1>6, <1>7, <1>8, <1>9, <1>10, <1>11, <1>12, <1>13
        DEF Begin, Step, Launch, RunTurn, AfterTurn, FaultStep

(* The guard is never left behind, whatever fails and whenever: while it is  *)
(* held some message is between taking it and giving it back.                *)
THEOREM GuardHeldBySomeone == Spec => []GuardAccounted
<1>1. Init => GuardAccounted
  BY DEF Init, GuardAccounted
<1>2. ASSUME Sound, GuardAccounted, [Next]_vars PROVE GuardAccounted'
  <2>1. ASSUME NEW r \in Threads,
               Begin(r) \/ Step(r) \/ Answer(r) \/ ModelCheckpoint(r) \/ FaultStep(r)
        PROVE  GuardAccounted'
    BY <1>2, <2>1, ThreadGuard DEF Sound
  <2>2. ASSUME NEW x \in Interrupts, IntRead(x) \/ IntStep(x) \/ IntFault(x)
        PROVE  GuardAccounted'
    <3>1. UNCHANGED <<guard, pc>>
      BY <2>2 DEF IntRead, IntStep, IntCheck, IntRequest, IntRuntime, IntComplete, IntFault
    <3> QED BY <1>2, <3>1 DEF GuardAccounted
  <2>3. CASE Edit \/ UNCHANGED vars
    BY <1>2, <2>3 DEF Edit, vars, GuardAccounted
  <2>4. CASE Crash
    BY <2>4 DEF Crash, GuardAccounted
  <2> QED BY <1>2, <2>1, <2>2, <2>3, <2>4 DEF Next
<1>3. Spec => []Sound
  BY InitSound, StepSound, PTL DEF Spec
<1> QED BY <1>1, <1>2, <1>3, PTL DEF Spec

-----------------------------------------------------------------------------
(* OneClaimant.  What makes it inductive: an item not yet queued is owned by *)
(* nobody, and a claim takes an item that is in view, hence nobody's.        *)

Claims ==
    /\ OneClaimant
    /\ \A id \in Adds, s \in Threads : NotYet(id) => id \notin Owned(s)

StillLater == \A s \in Threads : NotYet(s)' => NotYet(s)

(* Nothing new comes into view, and nobody's claims change.                  *)
LEMMA ClaimsKept ==
    ASSUME Claims, job' = job, Visible(queue') \subseteq Visible(queue), StillLater
    PROVE  Claims'
<1>1. \A s \in Threads : Owned(s)' = Owned(s)
  BY DEF Owned
<1> QED BY <1>1 DEF Claims, OneClaimant, StillLater, Threads

(* A thread gives up items, which may come back into view.                   *)
LEMMA ClaimsGivenUp ==
    ASSUME Claims, NEW r \in Threads, StillLater,
           \A s \in Threads : s # r => job'[s] = job[s],
           Owned(r)' \subseteq Owned(r),
           job'[r].req # None => job'[r].next # job'[r].req,
           Visible(queue') \subseteq Visible(queue) \cup (Owned(r) \ Owned(r)')
    PROVE  Claims'
<1>1. \A s \in Threads : s # r => Owned(s)' = Owned(s)
  BY DEF Owned
<1>2. \A s, t \in Threads : s # t => Owned(s)' \cap Owned(t)' = {}
  BY <1>1 DEF Claims, OneClaimant
<1>3. \A s \in Threads : Owned(s)' \cap Visible(queue') = {}
  BY <1>1 DEF Claims, OneClaimant
<1>4. \A s \in Threads : job'[s].req # None => job'[s].next # job'[s].req
  BY DEF Claims, OneClaimant
<1>5. \A id \in Adds, s \in Threads : NotYet(id)' => id \notin Owned(s)'
  BY <1>1 DEF Claims, StillLater, Threads
<1> QED BY <1>2, <1>3, <1>4, <1>5 DEF Claims, OneClaimant

(* A thread takes an item that was in view.                                  *)
LEMMA ClaimsTaken ==
    ASSUME Claims, QueueSound, NEW r \in Threads, StillLater,
           NEW id \in Adds, id \in Visible(queue),
           \A s \in Threads : s # r => job'[s] = job[s],
           Owned(r)' \subseteq Owned(r) \cup {id},
           job'[r].req # None => job'[r].next # job'[r].req,
           Visible(queue') \subseteq Visible(queue) \ {id}
    PROVE  Claims'
<1>1. \A s \in Threads : s # r => Owned(s)' = Owned(s)
  BY DEF Owned
<1>2. \A s \in Threads : id \notin Owned(s)
  BY DEF Claims, OneClaimant
<1>3. ~ NotYet(id)'
  <2>1. Queued(queue, id)
    BY VisibleIff
  <2> QED BY <2>1 DEF QueueSound, StillLater, Threads
<1>4. \A s, t \in Threads : s # t => Owned(s)' \cap Owned(t)' = {}
  BY <1>1, <1>2 DEF Claims, OneClaimant
<1>5. \A s \in Threads : Owned(s)' \cap Visible(queue') = {}
  BY <1>1, <1>2 DEF Claims, OneClaimant
<1>6. \A s \in Threads : job'[s].req # None => job'[s].next # job'[s].req
  BY DEF Claims, OneClaimant
<1>7. \A x \in Adds, s \in Threads : NotYet(x)' => x \notin Owned(s)'
  BY <1>1, <1>3 DEF Claims, StillLater, Threads
<1> QED BY <1>4, <1>5, <1>6, <1>7 DEF Claims, OneClaimant

(* The same, of the moves of the queue.                                      *)
LEMMA LessVisible ==
    ASSUME QueueSound
    PROVE  /\ Visible(DropBlankHead(queue)) \subseteq Visible(queue)
           /\ Visible(EmptyQueue) = {}
           /\ \A id : Visible(Delete(queue, id)) \subseteq Visible(queue)
           /\ \A id : Visible(Unclaim(queue, id)) \subseteq Visible(queue) \cup ({id} \ {None})
           /\ \A id \in Adds, b \in BOOLEAN : Visible(Update(queue, id, b)) \subseteq Visible(queue)
           /\ \A id \in NextRunnable(queue) :
                 /\ id \in Adds /\ id \in Visible(queue)
                 /\ Visible(Claim(queue, id)) \subseteq Visible(queue) \ {id}
<1> USE DEF QueueSound
<1>1. Visible(DropBlankHead(queue)) \subseteq Visible(queue)
  BY DropFacts, VisibleIff
<1>2. Visible(EmptyQueue) = {}
  BY DEF Visible, EmptyQueue
<1>3. ASSUME NEW id PROVE Visible(Delete(queue, id)) \subseteq Visible(queue)
  BY DeleteFacts, VisibleIff
<1>4. ASSUME NEW id PROVE Visible(Unclaim(queue, id)) \subseteq Visible(queue) \cup ({id} \ {None})
  <2>1. CASE id = None
    BY <2>1 DEF Unclaim
  <2>2. CASE id # None
    <3>1. Unclaim(queue, id) = Release(queue, id)
      BY <2>2 DEF Unclaim
    <3> QED BY <2>2, <3>1, ReleaseFacts, VisibleIff
  <2> QED BY <2>1, <2>2
<1>5. ASSUME NEW id \in Adds, NEW b \in BOOLEAN
      PROVE  Visible(Update(queue, id, b)) \subseteq Visible(queue)
  BY UpdateFacts, VisibleIff
<1>6. ASSUME NEW id \in NextRunnable(queue)
      PROVE  /\ id \in Adds /\ id \in Visible(queue)
             /\ Visible(Claim(queue, id)) \subseteq Visible(queue) \ {id}
  BY ClaimFacts, VisibleIff
<1> QED BY <1>1, <1>2, <1>3, <1>4, <1>5, <1>6

(* A thread that ends its launch gives up what it had claimed.              *)
LEMMA JobDropped ==
    ASSUME TypeOK, Claims, NEW r \in Threads, StillLater,
           job' = [job EXCEPT ![r] = NoJob],
           Visible(queue') \subseteq Visible(queue) \cup Owned(r)
    PROVE  Claims'
<1>1. job'[r] = NoJob /\ \A s \in Threads : s # r => job'[s] = job[s]
  BY DEF TypeOK
<1>2. Owned(r)' = {}
  BY <1>1 DEF Owned, NoJob
<1>3. job'[r].req = None
  BY <1>1 DEF NoJob
<1> QED BY <1>1, <1>2, <1>3, ClaimsGivenUp

(* A turn that throws releases the item it ran.                             *)
LEMMA ThrowClaims ==
    ASSUME TypeOK, QueueSound, Claims, StillLater, NEW r \in Threads, Throw(r)
    PROVE  Claims'
<1>1. job' = [job EXCEPT ![r] = NoJob] /\ queue' = Unclaim(queue, job[r].req)
  BY DEF Throw, EndLaunch
<1>2. Visible(queue') \subseteq Visible(queue) \cup Owned(r)
  BY <1>1, LessVisible DEF Owned
<1> QED BY <1>1, <1>2, JobDropped

(* A turn that fails keeps its item, or throws.                             *)
LEMMA FailClaims ==
    ASSUME TypeOK, QueueSound, Claims, StillLater, NEW r \in Threads, NEW turns, NEW b,
           Fail(r, turns, b)
    PROVE  Claims'
<1>1. CASE turn[r].attempts = 2
  BY <1>1, ThrowClaims DEF Fail
<1>2. CASE turn[r].attempts # 2
  <2>1. job' = job /\ queue' = queue
    BY <1>2 DEF Fail
  <2> QED BY <2>1, ClaimsKept
<1> QED BY <1>1, <1>2

(* A launch that finishes has no item any more.                             *)
LEMMA FinishClaims ==
    ASSUME TypeOK, Claims, StillLater, NEW r \in Threads, NEW b, Finish(r, b)
    PROVE  Claims'
<1>1. job' = [job EXCEPT ![r] = NoJob] /\ queue' = queue
  BY DEF Finish
<1> QED BY <1>1, JobDropped

(* The steps of a message: an item is taken from those in view only, and    *)
(* comes back into view only from the thread that held it.                  *)
LEMMA ThreadClaims ==
    ASSUME TypeOK, QueueSound, Claims, NEW r \in Threads,
           Begin(r) \/ Step(r) \/ Answer(r) \/ ModelCheckpoint(r) \/ FaultStep(r)
    PROVE  Claims'
<1>1. StillLater
  BY ThreadMove DEF StillLater
<1>2. CASE DrainRunning(r) \/ DrainFault(r) \/ Leave(r)
  BY <1>1, <1>2, FinishClaims DEF DrainRunning, DrainFault, Leave
<1>3. CASE DrainLaunch(r)
  <2>1. CASE Finish(r, FALSE)
    BY <1>1, <2>1, FinishClaims
  <2>2. CASE ~ Finish(r, FALSE)
    <3>1. job' = job /\ queue' = queue
      BY <1>3, <2>2 DEF DrainLaunch
    <3> QED BY <1>1, <3>1, ClaimsKept
  <2> QED BY <2>1, <2>2
<1>4. CASE ChainFault(r) \/ CompleteFault(r)
  <2>1. job' = [job EXCEPT ![r] = NoJob] /\ queue' = queue
    BY <1>4 DEF ChainFault, CompleteFault, EndLaunch
  <2> QED BY <1>1, <2>1, JobDropped
<1>5. CASE EndHookFault(r)
  <2>1. job' = [job EXCEPT ![r].next = None] /\ queue' = queue
    BY <1>5 DEF EndHookFault
  <2>2. job'[r].next = None /\ job'[r].req = job[r].req
    BY <2>1 DEF TypeOK, Jobs
  <2>3. \A s \in Threads : s # r => job'[s] = job[s]
    BY <2>1 DEF TypeOK
  <2>4. Owned(r)' \subseteq Owned(r)
    BY <2>2 DEF Owned
  <2> QED BY <1>1, <2>1, <2>2, <2>3, <2>4, ClaimsGivenUp
<1>6. CASE /\ KeepsQueue(r) /\ ~ EndHookFault(r) /\ ~ ChainFault(r) /\ ~ CompleteFault(r)
           /\ ~ (DrainRunning(r) \/ DrainFault(r) \/ DrainLaunch(r) \/ Leave(r))
  <2>1. queue' = queue
    BY <1>6, KeepsQueueMove
  <2>2. job' = job
    BY <1>6 DEF KeepsQueue, InputRead, InputCheck, InputLaunch, AttachmentsRejected, AddRead,
                AddStart, AddFault, DrainRead, ChainRead, ReadRow, BeginScope, WritePhase, Compact,
                AppendInput, HookStop, PrepareContext, CallModel, Answer, EnterPhase, EndTurn
  <2> QED BY <1>1, <2>1, <2>2, ClaimsKept
<1>7. CASE AddEnqueue(r)
  <2>1. /\ r \in Adds /\ pc[r] = "adding" /\ queue' = Insert(queue, r) /\ job' = job
        /\ pc' = [pc EXCEPT ![r] = "added"]
    BY <1>7 DEF AddEnqueue, Goto
  <2>2. NotYet(r) /\ ~ NotYet(r)'
    BY <2>1 DEF NotYet, TypeOK
  <2>3. /\ \A x : Queued(queue', x) => Queued(queue, x) \/ x = r
        /\ queue'.claimed = queue.claimed
    BY <2>1, <2>2, InsertFacts DEF QueueSound
  <2>4. Visible(queue') \subseteq Visible(queue) \cup {r}
    BY <2>3, VisibleIff
  <2>5. \A s \in Threads : Owned(s)' = Owned(s) /\ r \notin Owned(s)
    BY <2>1, <2>2 DEF Owned, Claims
  <2> QED BY <1>1, <2>1, <2>4, <2>5 DEF Claims, OneClaimant, StillLater, Threads
<1>8. CASE DrainClaim(r)
  <2>1. CASE queue' = DropBlankHead(queue) /\ job' = job
    BY <1>1, <2>1, LessVisible, ClaimsKept
  <2>2. ASSUME NEW id \in NextRunnable(queue), queue' = Claim(queue, id),
               job' = [job EXCEPT ![r] = [req |-> id, next |-> None, number |-> 1]]
        PROVE  Claims'
    <3>1. /\ id \in Adds /\ id \in Visible(queue)
          /\ Visible(queue') \subseteq Visible(queue) \ {id}
      BY <2>2, LessVisible
    <3>2. /\ job'[r] = [req |-> id, next |-> None, number |-> 1]
          /\ \A s \in Threads : s # r => job'[s] = job[s]
      BY <2>2 DEF TypeOK
    <3>3. Owned(r)' \subseteq {id} /\ job'[r].req # job'[r].next
      BY <3>1, <3>2, ThreadsAssumption DEF Owned, Threads
    <3> QED BY <1>1, <3>1, <3>2, <3>3, ClaimsTaken
  <2> QED BY <1>8, <2>1, <2>2 DEF DrainClaim
<1>9. CASE EndHook(r)
  <2>1. CASE queue' = DropBlankHead(queue) /\ job' = [job EXCEPT ![r].next = None]
    <3>1. job'[r].next = None /\ job'[r].req = job[r].req
      BY <2>1 DEF TypeOK, Jobs
    <3>2. \A s \in Threads : s # r => job'[s] = job[s]
      BY <2>1 DEF TypeOK
    <3>3. Owned(r)' \subseteq Owned(r)
      BY <3>1 DEF Owned
    <3>4. Visible(queue') \subseteq Visible(queue)
      BY <2>1, LessVisible
    <3> QED BY <1>1, <3>1, <3>2, <3>3, <3>4, ClaimsGivenUp
  <2>2. ASSUME NEW id \in NextRunnable(queue), queue' = Claim(queue, id),
               job' = [job EXCEPT ![r].next = id]
        PROVE  Claims'
    <3>1. /\ id \in Adds /\ id \in Visible(queue)
          /\ Visible(queue') \subseteq Visible(queue) \ {id}
      BY <2>2, LessVisible
    <3>2. job'[r].next = id /\ job'[r].req = job[r].req
      BY <2>2 DEF TypeOK, Jobs
    <3>3. \A s \in Threads : s # r => job'[s] = job[s]
      BY <2>2 DEF TypeOK
    <3>4. Owned(r)' \subseteq Owned(r) \cup {id}
      BY <3>2 DEF Owned
    <3>5. job'[r].req # None => job'[r].next # job'[r].req
      <4>1. id \notin Owned(r)
        BY <3>1 DEF Claims, OneClaimant
      <4> QED BY <3>2, <4>1 DEF Owned
    <3> QED BY <1>1, <3>1, <3>3, <3>4, <3>5, ClaimsTaken
  <2> QED BY <1>9, <2>1, <2>2 DEF EndHook
<1>10. CASE ChainGo(r)
  <2>1. CASE snap[r]
    <3>1. job' = [job EXCEPT ![r] = NoJob] /\ queue' = Unclaim(queue, job[r].req)
      BY <1>10, <2>1 DEF ChainGo, EndLaunch
    <3>2. Visible(queue') \subseteq Visible(queue) \cup Owned(r)
      BY <3>1, LessVisible DEF Owned
    <3> QED BY <1>1, <3>1, <3>2, JobDropped
  <2>2. CASE ~ snap[r]
    <3>1. job' = job /\ queue' = queue
      BY <1>10, <2>2 DEF ChainGo
    <3> QED BY <1>1, <3>1, ClaimsKept
  <2> QED BY <2>1, <2>2
<1>11. CASE CompleteClaim(r)
  <2>1. Visible(queue') \subseteq Visible(queue)
    <3>1. queue' = queue \/ queue' = Delete(queue, job[r].req)
      BY <1>11 DEF CompleteClaim
    <3> QED BY <3>1, LessVisible
  <2>2. CASE job' = job
    BY <1>1, <2>1, <2>2, ClaimsKept
  <2>3. CASE job' = [job EXCEPT ![r] = NoJob]
    BY <1>1, <2>1, <2>3, JobDropped
  <2> QED BY <1>11, <2>2, <2>3 DEF CompleteClaim, EndLaunch
<1>12. CASE Continue(r)
  <2>1. CASE queue' = Unclaim(queue, job[r].next) /\ EndLaunch(r)
    <3>1. Visible(queue') \subseteq Visible(queue) \cup Owned(r)
      BY <2>1, LessVisible DEF Owned
    <3> QED BY <1>1, <2>1, <3>1, JobDropped DEF EndLaunch
  <2>2. CASE ~ (queue' = Unclaim(queue, job[r].next) /\ EndLaunch(r))
    <3>1. PICK j : j = [req |-> job[r].next, next |-> None, number |-> job[r].number + 1]
      OBVIOUS
    <3>2. job[r].next # None /\ job' = [job EXCEPT ![r] = j] /\ queue' = queue
      BY <1>12, <2>2, <3>1 DEF Continue, TypeOK
    <3>3. job'[r] = j /\ \A s \in Threads : s # r => job'[s] = job[s]
      BY <3>2 DEF TypeOK
    <3>4. job'[r].req = job[r].next /\ job'[r].next = None
      BY <3>1, <3>3
    <3>5. Owned(r)' \subseteq Owned(r)
      BY <3>4 DEF Owned
    <3> QED BY <1>1, <3>2, <3>3, <3>4, <3>5, ClaimsGivenUp
  <2> QED BY <2>1, <2>2
<1>13. CASE StartTurn(r)
  <2>1. CASE row.running
    BY <1>1, <1>13, <2>1, ThrowClaims DEF StartTurn
  <2>2. CASE ~ row.running
    <3>1. job' = job /\ queue' = queue
      BY <1>13, <2>2 DEF StartTurn
    <3> QED BY <1>1, <3>1, ClaimsKept
  <2> QED BY <2>1, <2>2
<1>14. CASE Checkpoint(r)
  <2>1. CASE InterruptSeen
    BY <1>1, <1>14, <2>1, ThrowClaims, FailClaims DEF Checkpoint
  <2>2. CASE ~ InterruptSeen
    <3>1. job' = job /\ queue' = queue
      BY <1>14, <2>2 DEF Checkpoint
    <3> QED BY <1>1, <3>1, ClaimsKept
  <2> QED BY <2>1, <2>2
<1>15. CASE ModelCheckpoint(r) \/ ModelAborted(r) \/ TurnFault(r)
  BY <1>1, <1>15, ThrowClaims, FailClaims DEF ModelCheckpoint, ModelAborted, TurnFault
<1> QED BY <1>2, <1>3, <1>4, <1>5, <1>6, <1>7, <1>8, <1>9, <1>10, <1>11, <1>12, <1>13, <1>14, <1>15
        DEF KeepsQueue, Begin, Step, Launch, RunTurn, AfterTurn, FaultStep

(* A queued request is never claimed twice, nor in view while a message      *)
(* runs it or is about to, whatever is edited, released or fails.            *)
THEOREM ClaimedOnce == Spec => []OneClaimant
<1>1. Init => Claims
  <2> SUFFICES ASSUME Init PROVE Claims
    OBVIOUS
  <2>1. \A s \in Threads : job[s].req = None /\ job[s].next = None
    BY DEF Init, NoJob
  <2>2. \A s \in Threads : Owned(s) = {}
    BY <2>1 DEF Owned
  <2> QED BY <2>1, <2>2 DEF Claims, OneClaimant
<1>2. ASSUME Sound, Claims, [Next]_vars PROVE Claims'
  <2> USE <1>2 DEF Sound
  <2>1. ASSUME NEW r \in Threads,
               Begin(r) \/ Step(r) \/ Answer(r) \/ ModelCheckpoint(r) \/ FaultStep(r)
        PROVE  Claims'
    BY <2>1, ThreadClaims
  <2>2. ASSUME NEW x \in Interrupts, IntRead(x) \/ IntStep(x) \/ IntFault(x)
        PROVE  Claims'
    <3>1. UNCHANGED <<queue, pc, job>>
      BY <2>2 DEF IntRead, IntStep, IntCheck, IntRequest, IntRuntime, IntComplete, IntFault
    <3> QED BY <3>1, ClaimsKept DEF StillLater, NotYet
  <2>3. CASE Edit
    <3>1. Visible(queue') \subseteq Visible(queue)
      BY <2>3, LessVisible DEF Edit
    <3> QED BY <2>3, <3>1, ClaimsKept DEF Edit, StillLater, NotYet
  <2>4. CASE Crash
    <3>1. \A s \in Threads : job'[s].req = None /\ job'[s].next = None
      BY <2>4 DEF Crash, NoJob
    <3>2. \A s \in Threads : Owned(s)' = {}
      BY <3>1 DEF Owned
    <3> QED BY <3>1, <3>2 DEF Claims, OneClaimant
  <2>5. CASE UNCHANGED vars
    BY <2>5, ClaimsKept DEF vars, StillLater, NotYet
  <2> QED BY <2>1, <2>2, <2>3, <2>4, <2>5 DEF Next
<1>3. Spec => []Sound
  BY InitSound, StepSound, PTL DEF Spec
<1>4. Claims => OneClaimant
  BY DEF Claims
<1> QED BY <1>1, <1>2, <1>3, <1>4, PTL DEF Spec
=============================================================================
