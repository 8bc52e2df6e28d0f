--------------------------- MODULE TurnLoopProofs ---------------------------
(***************************************************************************)
(* TurnLoop implements Transcript, for any sets of calls and interrupts    *)
(* and any limits.  Ledger, the invariant that is inductive, says for each *)
(* stretch of the pipeline how many requests have been made, which calls   *)
(* have rows, and that no closing row is there before the stretch is over. *)
(* And a raised signal is heard by every tool (Heard), a turn leaves one    *)
(* closing row (Counted), and its cot_work rows are in order (Orderly).     *)
(***************************************************************************)
EXTENDS TurnLoop, FiniteSetTheorems, TLAPS

-----------------------------------------------------------------------------
(* The rows                                                                 *)

RowsAreSequence == rows \in Seq(Range(rows))

(* One row more, at the end.                                                *)
LEMMA AppendedRow ==
    ASSUME NEW r, RowsAreSequence, Append1(r)
    PROVE  /\ Len(rows) \in Nat /\ rows'[Len(rows) + 1] = r
           /\ \A i \in 1..Len(rows) : rows'[i] = rows[i]
           /\ \A k : OfKind(k) \subseteq 1..Len(rows)
           /\ \A k : OfKind(k)' = IF k = r.kind THEN OfKind(k) \cup {Len(rows) + 1} ELSE OfKind(k)
<1>1. rows' = Append(rows, r) /\ rows \in Seq(Range(rows) \cup {r})
  BY DEF Append1, RowsAreSequence
<1>2. /\ Len(rows) \in Nat /\ DOMAIN rows = 1..Len(rows)
      /\ DOMAIN rows' = 1..(Len(rows) + 1)
      /\ rows'[Len(rows) + 1] = r /\ \A i \in 1..Len(rows) : rows'[i] = rows[i]
  <2>1. r \in Range(rows) \cup {r}
    OBVIOUS
  <2> QED BY <1>1, <2>1
<1>3. \A k : OfKind(k)' = IF k = r.kind THEN OfKind(k) \cup {Len(rows) + 1} ELSE OfKind(k)
  BY <1>2 DEF OfKind
<1> QED BY <1>2, <1>3 DEF OfKind

(* What an appended row adds to the calls of each kind of row.              *)
LEMMA AppendedCalls ==
    ASSUME NEW r, RowsAreSequence, Append1(r), NEW k
    PROVE  /\ RowsAreSequence'
           /\ CallsOf(k)' = IF k = r.kind THEN CallsOf(k) \cup r.calls ELSE CallsOf(k)
           /\ OfKind(k)' = {} <=> OfKind(k) = {} /\ k # r.kind
<1>1. RowsAreSequence'
  <2>1. rows' = Append(rows, r) /\ rows \in Seq(Range(rows) \cup {r})
    BY DEF Append1, RowsAreSequence
  <2>2. rows' \in Seq(Range(rows) \cup {r})
    BY <2>1
  <2>3. rows' \in Seq(Range(rows'))
    BY <2>2 DEF Range
  <2> QED BY <2>3 DEF RowsAreSequence
<1>2. /\ rows'[Len(rows) + 1] = r
      /\ \A i \in OfKind(k) : rows'[i] = rows[i]
  BY AppendedRow
<1>3. OfKind(k)' = IF k = r.kind THEN OfKind(k) \cup {Len(rows) + 1} ELSE OfKind(k)
  BY AppendedRow
<1>4. CallsOf(k)' = UNION {rows'[i].calls : i \in OfKind(k)'}
  BY DEF CallsOf
<1>5. UNION {rows'[i].calls : i \in OfKind(k)} = CallsOf(k)
  BY <1>2 DEF CallsOf
<1>6. CASE k = r.kind
  <2>1. OfKind(k)' = OfKind(k) \cup {Len(rows) + 1}
    BY <1>3, <1>6
  <2>2. CallsOf(k)' = (UNION {rows'[i].calls : i \in OfKind(k)})
                         \cup rows'[Len(rows) + 1].calls
    BY <2>1, <1>4
  <2> QED BY <1>1, <1>2, <1>5, <1>6, <2>1, <2>2
<1>7. CASE k # r.kind
  BY <1>1, <1>3, <1>4, <1>5, <1>7
<1> QED BY <1>6, <1>7

(* Without a new row nothing about the rows changes.                        *)
LEMMA SameRows ==
    ASSUME rows' = rows, NEW k
    PROVE  /\ CallsOf(k)' = CallsOf(k) /\ OfKind(k)' = OfKind(k)
           /\ RowsAreSequence' <=> RowsAreSequence
BY DEF CallsOf, OfKind, RowsAreSequence

-----------------------------------------------------------------------------
(* The invariant                                                            *)

Goals == {"context", "model_request", "tool_execution", "finalizing"}

Entering(phases) == pc \in {"phase", "check"} /\ turn.goal \in phases

Over      == pc \in {"failing", "closed", "ended", "done"}
Asking    == pc \in {"start", "prepare", "refreshed", "prepared"}
             \/ Entering({"context", "model_request"})
Recording == pc \in {"called", "recording"}
Executing == pc \in {"execute", "tools", "commit", "committing", "committed", "kept",
                     "collecting", "collected"}
             \/ Entering({"tool_execution"})

Turns == [phase : Phases, goal : Phases, aborted : BOOLEAN, interrupted : BOOLEAN,
          attempts : Nat]

Closed == OfKind("answer") \cup OfKind("cut") # {}
Open   == CallsOf("call") \ CallsOf("result")

Ledger ==
    /\ turn \in Turns
    /\ pc \in PcsOfTurn
    /\ pc \in {"phase", "check"} => turn.goal \in Goals
    /\ iter \in Nat \ {0} /\ asked \in Nat
    /\ Range(batch) \subseteq Calls
    /\ RowsAreSequence
    /\ CallsOf("result") \subseteq CallsOf("call")
    /\ CallsOf("call") \subseteq Calls
    /\ ~ Over => ~ Closed
    /\ Asking => asked = iter - 1 /\ asked <= MaxIterations /\ Open = {}
    /\ pc = "request" => asked = iter /\ Open = {}
    /\ Recording \/ Executing \/ pc = "resuming" => asked = iter /\ iter <= MaxIterations
    /\ Recording \/ Executing => Open \subseteq Range(batch)
    /\ Executing => Range(batch) \subseteq CallsOf("call")
    /\ pc = "resuming" => Open = {}

(* A failure and an interrupted checkpoint leave the record of the turn what *)
(* it was, but for the signal and the counts.                               *)
LEMMA FailFacts ==
    ASSUME NEW t \in Turns, NEW b \in BOOLEAN, Fail(t, b)
    PROVE  /\ turn' \in Turns /\ turn'.goal = t.goal /\ turn'.aborted = t.aborted
           /\ pc' \in {"failing", "done"}
<1>1. (b \/ t.aborted) \in BOOLEAN
  OBVIOUS
<1>2. t.attempts + 1 \in Nat
  BY DEF Turns
<1> DEFINE i == b \/ t.aborted
<1>3. turn' = [t EXCEPT !.attempts = t.attempts + 1, !.interrupted = i]
  BY DEF Fail
<1> HIDE DEF i
<1>4. turn' \in Turns /\ turn'.goal = t.goal /\ turn'.aborted = t.aborted
  BY <1>1, <1>2, <1>3 DEF Turns, i
<1> QED BY <1>4 DEF Fail

LEMMA StoppedFacts ==
    ASSUME turn \in Turns
    PROVE  Stopped \in Turns /\ Stopped.goal = turn.goal
BY DEF Stopped, Turns

LEMMA InterruptedFacts ==
    ASSUME turn \in Turns
    PROVE  Interrupted \in Turns /\ Interrupted.goal = turn.goal
<1> DEFINE b == turn.aborted \/ turn.phase \in AbortPhases
<1>1. Interrupted = [turn EXCEPT !.phase = "interrupted", !.aborted = b]
  BY DEF Interrupted
<1>2. b \in BOOLEAN
  OBVIOUS
<1> HIDE DEF b
<1> QED BY <1>1, <1>2 DEF Turns, Phases

(* The history and the counts of requests stay.                             *)
Quiet == UNCHANGED <<iter, asked, batch, rows>>

LEMMA QuietStutters ==
    ASSUME Quiet
    PROVE  UNCHANGED Transcribed!vars
BY SameRows DEF Quiet, Transcribed!vars

(* A step that leaves the pipeline where it is, with its goal.              *)
LEMMA QuietStays ==
    ASSUME Ledger, Quiet, pc' = pc, turn' \in Turns, turn'.goal = turn.goal
    PROVE  Ledger'
<1> USE DEF Ledger, Quiet
<1>1. /\ \A k : CallsOf(k)' = CallsOf(k) /\ OfKind(k)' = OfKind(k)
      /\ RowsAreSequence' <=> RowsAreSequence
  BY SameRows
<1>2. Closed' = Closed /\ Open' = Open /\ Range(batch)' = Range(batch)
  BY <1>1 DEF Closed, Open
<1>3. /\ Over' = Over /\ Asking' = Asking /\ Recording' = Recording
      /\ Executing' = Executing
  BY DEF Over, Asking, Recording, Executing, Entering
<1> QED BY <1>1, <1>2, <1>3

(* A failure needs nothing but the rows it finds.                           *)
LEMMA QuietFails ==
    ASSUME Ledger, Quiet, pc' \in {"failing", "done", "ended"}, turn' \in Turns
    PROVE  Ledger'
<1> USE DEF Ledger, Quiet
<1>1. /\ \A k : CallsOf(k)' = CallsOf(k) /\ OfKind(k)' = OfKind(k)
      /\ RowsAreSequence' <=> RowsAreSequence
  BY SameRows
<1>2. Range(batch)' = Range(batch)
  OBVIOUS
<1>3. Over' /\ ~ Asking' /\ ~ Recording' /\ ~ Executing' /\ pc' \in PcsOfTurn
      /\ pc' \notin {"phase", "check", "request", "resuming"}
  BY DEF Over, Asking, Recording, Executing, Entering, PcsOfTurn
<1> QED BY <1>1, <1>2, <1>3

(* A step of the pipeline within a stretch, or on to the next.              *)
LEMMA QuietGoes ==
    ASSUME Ledger, Quiet, turn' \in Turns, ~ Over, pc' \in PcsOfTurn,
           pc' \in {"phase", "check"} => turn'.goal \in Goals,
           Asking' => Asking,
           pc' = "request" => pc = "request",
           Recording' => Recording,
           Executing' => Executing \/ (Recording /\ Range(batch) \subseteq CallsOf("call")),
           pc' # "resuming"
    PROVE  Ledger'
<1> USE DEF Ledger, Quiet
<1>1. /\ \A k : CallsOf(k)' = CallsOf(k) /\ OfKind(k)' = OfKind(k)
      /\ RowsAreSequence' <=> RowsAreSequence
  BY SameRows
<1>2. Closed' = Closed /\ Open' = Open /\ Range(batch)' = Range(batch)
  BY <1>1 DEF Closed, Open
<1> QED BY <1>1, <1>2

(* So a checkpoint goes on or fails.                                        *)
LEMMA CheckFacts ==
    ASSUME Ledger, NEW next, CheckAt(next)
    PROVE  /\ Quiet /\ turn' \in Turns
           /\ \/ pc' = next /\ turn' = turn
              \/ pc' \in {"failing", "done"}
<1>1. Quiet
  BY DEF CheckAt, Quiet, work
<1>2. CASE pc' = next /\ UNCHANGED turn
  BY <1>1, <1>2 DEF Ledger
<1>3. CASE Fail(Stopped, TRUE)
  BY <1>1, <1>3, FailFacts, StoppedFacts DEF Ledger
<1> QED BY <1>2, <1>3 DEF CheckAt

LEMMA InitLedger == Init => Ledger /\ Transcribed!Init
<1> SUFFICES ASSUME Init PROVE Ledger /\ Transcribed!Init
  OBVIOUS
<1>1. \A k : OfKind(k) = {} /\ CallsOf(k) = {}
  BY DEF Init, OfKind, CallsOf
<1>2. turn \in Turns
  BY DEF Init, Turns, Phases
<1>3. Range(batch) = {}
  BY DEF Init, Range
<1>4. RowsAreSequence
  BY DEF Init, RowsAreSequence
<1>5. Ledger
  BY <1>1, <1>2, <1>3, <1>4, LimitsAssumption
     DEF Ledger, Init, PcsOfTurn, Over, Asking, Recording, Executing, Entering, Closed, Open
<1>6. Transcribed!Init
  BY <1>1 DEF Transcribed!Init, Init
<1> QED BY <1>5, <1>6

-----------------------------------------------------------------------------
(* The steps that append rows or ask the model                              *)

Promise == [Transcribed!Next]_(Transcribed!vars)
Kept == Ledger' /\ Promise

LEMMA QuietKept == Quiet => Promise
BY QuietStutters DEF Promise

LEMMA CallModelKept ==
    ASSUME Ledger, CallModel
    PROVE  Kept
<1>1. /\ \A k : CallsOf(k)' = CallsOf(k) /\ OfKind(k)' = OfKind(k)
      /\ RowsAreSequence' <=> RowsAreSequence
  BY SameRows DEF CallModel
<1>2. Closed' = Closed /\ Open' = Open /\ Range(batch)' = Range(batch)
  BY <1>1 DEF Closed, Open, CallModel
<1>3. Asking /\ ~ Over /\ ~ Asking' /\ ~ Recording' /\ ~ Executing'
      /\ ~ Over' /\ pc' = "request" /\ pc' \in PcsOfTurn
  BY DEF Asking, Recording, Executing, Over, Entering, CallModel, PcsOfTurn
<1>4. UNCHANGED <<turn, iter, rows>> /\ asked' = asked + 1
  BY DEF CallModel
<1>5. asked' = iter' /\ asked' \in Nat /\ asked < MaxIterations + 1 /\ Open = {} /\ ~ Closed
  BY <1>3, <1>4, LimitsAssumption DEF Ledger
<1>6. Ledger'
  BY <1>1, <1>2, <1>3, <1>4, <1>5 DEF Ledger
<1>7. Transcribed!Ask
  BY <1>1, <1>4, <1>5 DEF Transcribed!Ask, Open, Closed
<1> QED BY <1>6, <1>7 DEF Kept, Promise, Transcribed!Next

LEMMA RecordCallKept ==
    ASSUME Ledger, RecordCall
    PROVE  Kept
<1>1. PICK i \in Unrecorded : Append1(Row("call", {batch[i]}, 0))
  BY DEF RecordCall
<1> DEFINE c == batch[i]
<1>2. c \in Range(batch) /\ c \notin CallsOf("call")
  BY <1>1 DEF Unrecorded, Range
<1>3. c \in Calls /\ c \notin CallsOf("result")
  BY <1>2 DEF Ledger
<1>5. /\ RowsAreSequence'
      /\ \A k : /\ CallsOf(k)' = IF k = "call" THEN CallsOf(k) \cup {c} ELSE CallsOf(k)
                /\ OfKind(k)' = {} <=> OfKind(k) = {} /\ k # "call"
  <2>1. RowsAreSequence
    BY DEF Ledger
  <2>2. Append1(Row("call", {c}, 0))
    BY <1>1
  <2> HIDE DEF c
  <2>3. Row("call", {c}, 0).kind = "call" /\ Row("call", {c}, 0).calls = {c}
    BY DEF Row
  <2> QED BY <2>1, <2>2, <2>3, AppendedCalls
<1>6. CallsOf("call")' = CallsOf("call") \cup {c} /\ CallsOf("result")' = CallsOf("result")
  BY <1>5
<1>7. Closed' = Closed
  BY <1>5 DEF Closed
<1>8. Open' = Open \cup {c}
  BY <1>3, <1>6 DEF Open
<1>9. UNCHANGED <<turn, iter, asked, batch>> /\ pc' = "recording" /\ Range(batch)' = Range(batch)
  BY DEF RecordCall, work
<1>10. Recording /\ Recording' /\ ~ Over /\ ~ Over' /\ ~ Asking' /\ ~ Executing'
       /\ pc' \in PcsOfTurn
  BY <1>9 DEF RecordCall, Recording, Over, Asking, Executing, Entering, PcsOfTurn
<1>11. Ledger'
  BY <1>2, <1>3, <1>5, <1>6, <1>7, <1>8, <1>9, <1>10 DEF Ledger
<1>12. asked \in 1..(MaxIterations + 1 - 1) /\ ~ Closed
  BY <1>10, LimitsAssumption DEF Ledger
<1>13. c \notin (CallsOf("call") \ CallsOf("result")) \cup CallsOf("result")
  BY <1>2, <1>3
<1>14. UNCHANGED <<asked, CallsOf("result"), Closed>>
  BY <1>6, <1>7, <1>9
<1>15. Transcribed!Call(c)
  <2> HIDE DEF c
  <2>1. asked \in 1..((MaxIterations + 1) - 1)
    BY <1>12, LimitsAssumption
  <2> QED BY ONLY <2>1, <1>8, <1>12, <1>13, <1>14, Zenon DEF Transcribed!Call, Open, Closed
<1> QED BY <1>3, <1>11, <1>15 DEF Kept, Promise, Transcribed!Next

(* A row of results settles what is open, and a second one nothing.         *)
LEMMA ResultsKept ==
    ASSUME Ledger, Executing, Append1(Results), pc' \in {"kept", "resuming"},
           UNCHANGED <<turn, iter, asked, batch>>
    PROVE  Kept
<1> DEFINE B == Range(batch)
<1>1. B \subseteq Calls /\ Open \subseteq B /\ B \subseteq CallsOf("call")
  BY DEF Ledger
<1>2. Results.kind = "result" /\ Results.calls = B
  BY DEF Results, Row
<1>3. /\ RowsAreSequence'
      /\ \A k : /\ CallsOf(k)' = IF k = "result" THEN CallsOf(k) \cup B ELSE CallsOf(k)
                /\ OfKind(k)' = {} <=> OfKind(k) = {} /\ k # "result"
  <2>1. RowsAreSequence
    BY DEF Ledger
  <2> HIDE DEF B
  <2> QED BY <1>2, <2>1, AppendedCalls
<1>4. CallsOf("call")' = CallsOf("call") /\ CallsOf("result")' = CallsOf("result") \cup B
  BY <1>3
<1>5. Closed' = Closed
  BY <1>3 DEF Closed
<1>6. Open' = {} /\ CallsOf("result")' = CallsOf("result") \cup Open
  BY <1>1, <1>4 DEF Open
<1>7. ~ Over /\ ~ Over' /\ ~ Asking' /\ ~ Recording' /\ pc' \in PcsOfTurn
      /\ pc' \notin {"phase", "check", "request"}
  BY DEF Executing, Over, Asking, Recording, Entering, PcsOfTurn
<1>8. Range(batch)' = B
  OBVIOUS
<1>9. Ledger'
  BY <1>1, <1>3, <1>4, <1>5, <1>6, <1>7, <1>8 DEF Ledger
<1>10. ~ Closed
  BY <1>7 DEF Ledger
<1>11. CASE Open # {}
  <2>1. UNCHANGED <<asked, Closed>>
    BY <1>5
  <2>2. Transcribed!Settle
    BY <2>1, <1>6, <1>10, <1>11 DEF Transcribed!Settle, Open, Closed
  <2> QED BY <2>2, <1>9 DEF Transcribed!Next, Promise, Kept
<1>12. CASE Open = {}
  <2>1. UNCHANGED <<asked, Open, CallsOf("result"), Closed>>
    BY <1>5, <1>6, <1>12
  <2>2. UNCHANGED Transcribed!vars
    BY <2>1 DEF Transcribed!vars, Open, Closed
  <2> QED BY <2>2, <1>9 DEF Promise, Kept
<1> QED BY <1>11, <1>12

(* An answer or a failure closes the turn.                                  *)
LEMMA ClosingKept ==
    ASSUME Ledger, NEW kind \in {"answer", "cut"}, Append1(Row(kind, {}, 0)),
           pc' = "closed", UNCHANGED <<turn, iter, asked, batch>>
    PROVE  Kept
<1>1. Row(kind, {}, 0).kind = kind /\ Row(kind, {}, 0).calls = {}
  BY DEF Row
<1>2. /\ RowsAreSequence'
      /\ \A k : /\ CallsOf(k)' = CallsOf(k)
                /\ OfKind(k)' = {} <=> OfKind(k) = {} /\ k # kind
  <2>1. RowsAreSequence
    BY DEF Ledger
  <2> QED BY <1>1, <2>1, AppendedCalls
<1>3. Closed' /\ Open' = Open
  BY <1>2 DEF Closed, Open
<1>4. Over' /\ ~ Asking' /\ ~ Recording' /\ ~ Executing' /\ pc' \in PcsOfTurn
      /\ pc' \notin {"phase", "check", "request", "resuming"}
  BY DEF Over, Asking, Recording, Executing, Entering, PcsOfTurn
<1>5. Ledger'
  BY <1>2, <1>4 DEF Ledger
<1>6. CASE ~ Closed
  <2>1. Closed' = TRUE /\ UNCHANGED <<asked, Open, CallsOf("result")>>
    BY <1>2, <1>3
  <2>2. Transcribed!Close
    BY <2>1, <1>6 DEF Transcribed!Close, Open, Closed
  <2> QED BY <2>2, <1>5 DEF Transcribed!Next, Promise, Kept
<1>7. CASE Closed
  <2>1. UNCHANGED <<asked, Open, CallsOf("result"), Closed>>
    BY <1>2, <1>3, <1>7
  <2>2. UNCHANGED Transcribed!vars
    BY <2>1 DEF Transcribed!vars, Open, Closed
  <2> QED BY <2>2, <1>5 DEF Promise, Kept
<1> QED BY <1>6, <1>7

LEMMA AppendCotKept ==
    ASSUME Ledger, AppendCot
    PROVE  Kept
<1>1. PICK e : Append1(Row("cot", {e.call}, e.n))
  BY DEF AppendCot
<1>2. Row("cot", {e.call}, e.n).kind = "cot"
  BY DEF Row
<1>3. /\ RowsAreSequence'
      /\ \A k : /\ k # "cot" => CallsOf(k)' = CallsOf(k)
                /\ OfKind(k)' = {} <=> OfKind(k) = {} /\ k # "cot"
  <2>1. RowsAreSequence
    BY DEF Ledger
  <2> QED BY <1>1, <1>2, <2>1, AppendedCalls
<1>4. /\ CallsOf("call")' = CallsOf("call") /\ CallsOf("result")' = CallsOf("result")
      /\ Open' = Open /\ Closed' = Closed
  BY <1>3 DEF Open, Closed
<1>5. UNCHANGED <<turn, iter, asked, batch>> /\ pc' = "committed" /\ Range(batch)' = Range(batch)
  BY DEF AppendCot
<1>6. Executing /\ Executing' /\ ~ Over /\ ~ Over' /\ ~ Asking' /\ ~ Recording'
      /\ pc' \in PcsOfTurn
  BY <1>5 DEF AppendCot, Executing, Over, Asking, Recording, Entering, PcsOfTurn
<1>7. Ledger'
  BY <1>3, <1>4, <1>5, <1>6 DEF Ledger
<1>8. Promise
  BY <1>4, <1>5 DEF Promise, Transcribed!vars, Open, Closed
<1> QED BY <1>7, <1>8 DEF Kept

-----------------------------------------------------------------------------
(* The other steps of the pipeline                                          *)

PhaseFacts(phase) ==
    Quiet /\ pc' = "phase" /\ turn' \in Turns /\ turn'.goal = phase

LEMMA EnterPhaseFacts ==
    ASSUME turn \in Turns, NEW phase \in Phases, EnterPhase(phase)
    PROVE  pc' = "phase" /\ turn' \in Turns /\ turn'.goal = phase
BY DEF EnterPhase, Turns

LEMMA EntersKept ==
    ASSUME Ledger, PrepareBeforeLoop \/ RequestPhase \/ HookStops \/ ModelAnswers \/ ToolPhase
    PROVE  Kept
<1>1. turn \in Turns /\ Goals \subseteq Phases
  BY DEF Ledger, Phases, Goals
<1>2. Quiet
  BY DEF PrepareBeforeLoop, RequestPhase, HookStops, ModelAnswers, ToolPhase, Quiet, work
<1> USE DEF Over, Asking, Recording, Executing, Entering, Goals, PcsOfTurn
<1>3. CASE PrepareBeforeLoop
  <2>1. PhaseFacts("context") /\ pc = "start"
    BY <1>1, <1>2, <1>3, EnterPhaseFacts DEF PrepareBeforeLoop, PhaseFacts
  <2> QED BY <2>1, QuietGoes, QuietKept DEF PhaseFacts, Kept
<1>4. CASE RequestPhase
  <2>1. PhaseFacts("model_request") /\ pc = "refreshed"
    BY <1>1, <1>2, <1>4, EnterPhaseFacts DEF RequestPhase, PhaseFacts
  <2> QED BY <2>1, QuietGoes, QuietKept DEF PhaseFacts, Kept
<1>5. CASE HookStops \/ ModelAnswers
  <2>1. PhaseFacts("finalizing") /\ pc \in {"prepared", "called", "collected", "request"}
    BY <1>1, <1>2, <1>5, EnterPhaseFacts DEF HookStops, ModelAnswers, PhaseFacts
  <2> QED BY <2>1, QuietGoes, QuietKept DEF PhaseFacts, Kept
<1>6. CASE ToolPhase
  <2>1. PhaseFacts("tool_execution") /\ pc \in {"called", "recording"}
    BY <1>1, <1>2, <1>6, EnterPhaseFacts DEF ToolPhase, PhaseFacts
  <2>2. Range(batch) \subseteq CallsOf("call")
    BY <1>6 DEF ToolPhase, Unrecorded, Range
  <2> QED BY <2>1, <2>2, QuietGoes, QuietKept DEF PhaseFacts, Kept
<1> QED BY <1>3, <1>4, <1>5, <1>6

(* Where a checkpoint may lead: to the next place of its stretch.           *)
LEMMA ChecksKept ==
    ASSUME Ledger,
           Checkpoint \/ PrepareIteration \/ CommitCot \/ CotCommitted \/ CollectResults
    PROVE  Kept
<1>1. PICK next : /\ CheckAt(next)
                  /\ \/ pc = "check" /\ next = AfterPhase[turn.goal]
                     \/ pc = "prepare" /\ next = "refreshed"
                     \/ pc \in {"commit", "committed", "kept", "collecting"}
                        /\ next \in {"committing", "commit", "collected"}
  BY DEF Checkpoint, PrepareIteration, CommitCot, CotCommitted, CollectResults
<1>2. /\ Quiet /\ turn' \in Turns
      /\ \/ pc' = next /\ turn' = turn
         \/ pc' \in {"failing", "done"}
  BY <1>1, CheckFacts
<1>3. CASE pc' \in {"failing", "done"}
  BY <1>2, <1>3, QuietFails, QuietKept DEF Kept
<1>4. CASE pc' = next /\ turn' = turn
  <2> USE DEF Over, Asking, Recording, Executing, Entering, Goals, PcsOfTurn
  <2>1. CASE pc = "check" /\ next = AfterPhase[turn.goal]
    <3>1. turn.goal \in Goals
      BY <2>1 DEF Ledger
    <3>2. \/ turn.goal = "context" /\ next = "prepare"
          \/ turn.goal = "model_request" /\ next = "prepared"
          \/ turn.goal = "tool_execution" /\ next = "execute"
          \/ turn.goal = "finalizing" /\ next = "answering"
      BY <2>1, <3>1 DEF AfterPhase
    <3> QED BY <1>2, <1>4, <2>1, <3>2, QuietGoes, QuietKept DEF Kept
  <2>2. CASE pc = "prepare" /\ next = "refreshed"
    BY <1>2, <1>4, <2>2, QuietGoes, QuietKept DEF Kept
  <2>3. CASE /\ pc \in {"commit", "committed", "kept", "collecting"}
             /\ next \in {"committing", "commit", "collected"}
    BY <1>2, <1>4, <2>3, QuietGoes, QuietKept DEF Kept
  <2> QED BY <1>1, <2>1, <2>2, <2>3
<1> QED BY <1>2, <1>3, <1>4

LEMMA GoesKept ==
    ASSUME Ledger, WritePhase \/ ExecuteToolCalls \/ Joined \/ NothingAborted
    PROVE  Kept
<1>1. Quiet /\ turn' = turn /\ turn' \in Turns
  BY DEF WritePhase, ExecuteToolCalls, Joined, NothingAborted, Quiet, work, Ledger
<1>2. \/ pc = "phase" /\ pc' = "check" /\ turn.goal \in Goals
      \/ pc = "execute" /\ pc' = "tools"
      \/ pc = "tools" /\ pc' = "commit"
      \/ pc = "commit" /\ pc' = "collecting"
  BY DEF WritePhase, ExecuteToolCalls, Joined, NothingAborted, Ledger
<1>3. Ledger'
  BY <1>1, <1>2, QuietGoes DEF Over, Asking, Recording, Executing, Entering, PcsOfTurn
<1> QED BY <1>1, <1>3, QuietKept DEF Kept

(* Endings and failures.                                                    *)
LEMMA FailsKept ==
    ASSUME Ledger, ModelChecks \/ ModelAborted \/ TurnFault \/ EndTurn \/ Complete
    PROVE  Kept
<1>1. Quiet
  BY DEF ModelChecks, ModelAborted, TurnFault, EndTurn, Complete, Quiet, work
<1>2. turn \in Turns
  BY DEF Ledger
<1>3. turn' \in Turns /\ pc' \in {"failing", "done", "ended"}
  BY <1>2, FailFacts, StoppedFacts
     DEF ModelChecks, ModelAborted, TurnFault, EndTurn, Complete
<1> QED BY <1>1, <1>3, QuietFails, QuietKept DEF Kept

(* The calls of an answer are recorded after it, one by one.                *)
LEMMA ModelCallsKept ==
    ASSUME Ledger, ModelCalls
    PROVE  Kept
<1>1. PICK new \in SUBSET {c \in Calls : tool[c] = "idle"} :
         batch' \in Bijection(1..Cardinality(new), new)
  BY DEF ModelCalls
<1>2. Range(batch') \subseteq Calls
  BY <1>1 DEF Range, Bijection, Injection
<1>3. UNCHANGED <<turn, iter, asked, rows>> /\ pc = "request" /\ pc' = "called"
  BY DEF ModelCalls
<1>4. /\ \A k : CallsOf(k)' = CallsOf(k) /\ OfKind(k)' = OfKind(k)
      /\ RowsAreSequence' <=> RowsAreSequence
  BY <1>3, SameRows
<1>5. Closed' = Closed /\ Open' = Open /\ Range(batch)' = Range(batch')
  BY <1>4 DEF Closed, Open
<1>6. /\ ~ Over /\ ~ Over' /\ ~ Asking' /\ Recording' /\ ~ Executing'
      /\ pc' \in PcsOfTurn
  BY <1>3 DEF Over, Asking, Recording, Executing, Entering, PcsOfTurn
<1>7. asked = iter /\ iter <= MaxIterations /\ Open = {}
  BY <1>3, LimitsAssumption DEF Ledger, ModelCalls, FinalRequest
<1>8. Ledger'
  BY <1>2, <1>3, <1>4, <1>5, <1>6, <1>7 DEF Ledger
<1>9. UNCHANGED Transcribed!vars
  BY <1>3, <1>4 DEF Transcribed!vars
<1> QED BY <1>8, <1>9 DEF Kept, Promise

LEMMA ResumeKept ==
    ASSUME Ledger, Resume
    PROVE  Kept
<1>1. UNCHANGED <<turn, asked, rows>> /\ iter' = iter + 1 /\ batch' = << >>
      /\ pc = "resuming" /\ pc' = "prepare"
  BY DEF Resume
<1>2. Range(batch)' = {}
  BY <1>1 DEF Range
<1>3. /\ \A k : CallsOf(k)' = CallsOf(k) /\ OfKind(k)' = OfKind(k)
      /\ RowsAreSequence' <=> RowsAreSequence
  BY <1>1, SameRows
<1>4. Closed' = Closed /\ Open' = Open
  BY <1>3 DEF Closed, Open
<1>5. /\ ~ Over /\ ~ Over' /\ Asking' /\ ~ Recording' /\ ~ Executing'
      /\ pc' \in PcsOfTurn
  BY <1>1 DEF Over, Asking, Recording, Executing, Entering, PcsOfTurn
<1>6. iter' \in Nat \ {0} /\ asked' = iter' - 1 /\ asked' <= MaxIterations /\ Open = {}
  BY <1>1, LimitsAssumption DEF Ledger
<1>7. Ledger'
  BY <1>1, <1>2, <1>3, <1>4, <1>5, <1>6 DEF Ledger
<1>8. UNCHANGED Transcribed!vars
  BY <1>1, <1>3 DEF Transcribed!vars
<1> QED BY <1>7, <1>8 DEF Kept, Promise

LEMMA PipelineKept ==
    ASSUME Ledger, Pipeline \/ HookStops \/ ModelAnswers \/ ModelCalls \/ ModelChecks \/ TurnFault
    PROVE  Kept
<1>1. CASE KeepAborted
  BY <1>1, ResultsKept DEF KeepAborted, Executing, work
<1>2. CASE AppendResults
  BY <1>2, ResultsKept DEF AppendResults, Executing, work
<1>3. CASE AppendAnswer
  BY <1>3, ClosingKept DEF AppendAnswer, work
<1>4. CASE AppendFailure
  BY <1>4, ClosingKept DEF AppendFailure, work
<1> QED BY <1>1, <1>2, <1>3, <1>4, EntersKept, ChecksKept, GoesKept, FailsKept, CallModelKept,
           RecordCallKept, AppendCotKept, ModelCallsKept, ResumeKept DEF Pipeline

-----------------------------------------------------------------------------
(* The tools and the interrupts                                             *)

(* They leave the pipeline where it is, or a tool that throws fails it.     *)
Beside ==
    /\ Quiet
    /\ turn' \in Turns
    /\ \/ pc' = pc /\ turn'.goal = turn.goal
       \/ pc' \in {"failing", "done"}

LEMMA BesideKept ==
    ASSUME Ledger, Beside
    PROVE  Kept
BY QuietStays, QuietFails, QuietKept DEF Beside, Kept

LEMMA ThrowsFacts ==
    ASSUME Ledger, NEW c \in Calls, NEW t \in {turn, Stopped}, NEW b \in BOOLEAN,
           Throws(c, t, b)
    PROVE  /\ turn' \in Turns
           /\ \/ pc' = pc /\ turn'.goal = turn.goal
              \/ pc' \in {"failing", "done"}
<1>1. t \in Turns /\ t.goal = turn.goal
  BY StoppedFacts DEF Ledger
<1>2. CASE Fail(t, b)
  BY <1>1, <1>2, FailFacts
<1>3. CASE turn' = t /\ pc' = pc
  BY <1>1, <1>3
<1> QED BY <1>2, <1>3 DEF Throws

LEMMA ToolsKept ==
    ASSUME Ledger, NEW c \in Calls,
           \/ ToolStep(c) \/ ToolFails(c) \/ ToolChecks(c) \/ EmitCot(c)
           \/ QuestionAnswered(c) \/ ToolFault(c)
    PROVE  Kept
<1> USE DEF Beside, Quiet, work
<1>1. turn \in Turns /\ Stopped \in Turns /\ Stopped.goal = turn.goal
  BY StoppedFacts DEF Ledger
<1>2. CASE ToolStarts(c) \/ ToolFails(c) \/ EmitCot(c) \/ ProcessEnds(c) \/ ToolCancelled(c)
  <2>1. Beside
    BY <1>1, <1>2 DEF ToolStarts, ToolFails, EmitCot, ProcessEnds, ToolCancelled
  <2> QED BY <2>1, BesideKept
<1>3. CASE ToolChecks(c)
  <2>1. Beside
    BY <1>1, <1>3 DEF ToolChecks
  <2> QED BY <2>1, BesideKept
<1>4. CASE ToolThrows(c)
  <2>1. Beside
    BY <1>4, ThrowsFacts DEF ToolThrows
  <2> QED BY <2>1, BesideKept
<1>5. CASE QuestionAnswered(c)
  <2>1. Quiet
    BY <1>5 DEF QuestionAnswered
  <2>2. CASE Throws(c, Stopped, TRUE)
    BY <2>1, <2>2, ThrowsFacts, BesideKept
  <2>3. CASE UNCHANGED <<turn, pc>>
    BY <1>1, <2>1, <2>3, BesideKept
  <2> QED BY <1>5, <2>2, <2>3 DEF QuestionAnswered
<1>6. CASE ToolFault(c)
  <2>1. Quiet
    BY <1>6 DEF ToolFault
  <2>2. CASE Throws(c, turn, FALSE)
    BY <2>1, <2>2, ThrowsFacts, BesideKept
  <2>3. CASE UNCHANGED <<turn, pc>>
    BY <1>1, <2>1, <2>3, BesideKept
  <2> QED BY <1>6, <2>2, <2>3 DEF ToolFault
<1> QED BY <1>2, <1>3, <1>4, <1>5, <1>6 DEF ToolStep

LEMMA InterruptsKept ==
    ASSUME Ledger, NEW x \in Interrupts, IntAccept(x) \/ IntRequest(x) \/ IntRuntime(x)
    PROVE  Kept
<1>1. Quiet /\ pc' = pc
  BY DEF IntAccept, IntRequest, IntRuntime, Quiet, work
<1>2. turn \in Turns
  BY DEF Ledger
<1>3. Interrupted \in Turns /\ Interrupted.goal = turn.goal
  BY <1>2, InterruptedFacts
<1>4. turn' \in {turn, Interrupted}
  BY DEF IntAccept, IntRequest, IntRuntime
<1> QED BY <1>1, <1>2, <1>3, <1>4, BesideKept DEF Beside

-----------------------------------------------------------------------------

LEMMA StepKept == Ledger /\ [Next]_vars => Kept
<1> SUFFICES ASSUME Ledger, [Next]_vars PROVE Kept
  OBVIOUS
<1>1. CASE UNCHANGED vars
  <2>1. Beside
    BY <1>1 DEF Beside, Quiet, vars, Ledger
  <2> QED BY <2>1, BesideKept
<1>2. CASE Next
  BY <1>2, PipelineKept, ToolsKept, InterruptsKept DEF Next
<1> QED BY <1>1, <1>2

(* Whatever the hooks, the errors and the interrupts do: the model is asked *)
(* again only when each of its calls has a result, no call is recorded or   *)
(* settled twice, none after the request without tools, and nothing but a   *)
(* further closing row follows the closing row of a turn.                   *)
THEOREM Implementation == Spec => HistoryKept
<1>1. Init => Ledger /\ Transcribed!Init
  BY InitLedger
<1>2. Ledger /\ [Next]_vars => Ledger' /\ [Transcribed!Next]_(Transcribed!vars)
  BY StepKept DEF Kept, Promise
<1> QED BY <1>1, <1>2, PTL DEF Spec, HistoryKept, Transcribed!Spec

-----------------------------------------------------------------------------
(* The signal                                                               *)

Heard ==
    /\ turn \in Turns
    /\ tool \in [Calls -> ToolStatuses]
    /\ AbortReachesTools

(* A turn whose tools have been told of its signal.                         *)
LEMMA ToldHears ==
    ASSUME Heard, NEW t \in Turns, turn' \in Turns, turn'.aborted = t.aborted,
           tool' = Told(t)
    PROVE  Heard'
<1>1. Told(t) \in [Calls -> ToolStatuses]
  BY DEF Told, Heard, ToolStatuses
<1>2. t.aborted => \A c \in Calls : Told(t)[c] \notin {"running", "waiting"}
  BY DEF Told
<1> QED BY <1>1, <1>2 DEF Heard, AbortReachesTools

(* A step of one call: it may start only if the signal is down.             *)
LEMMA OneHears ==
    ASSUME Heard, NEW c \in Calls, NEW status \in ToolStatuses, SetTool(c, status),
           turn' = turn, turn.aborted => status \notin {"running", "waiting"}
    PROVE  Heard'
<1>1. tool' \in [Calls -> ToolStatuses]
  BY DEF Heard, SetTool
<1>2. \A d \in Calls : tool'[d] = IF d = c THEN status ELSE tool[d]
  BY DEF Heard, SetTool
<1> QED BY <1>1, <1>2 DEF Heard, AbortReachesTools

LEMMA SameHears ==
    ASSUME Heard, tool' = tool, turn' \in Turns, turn'.aborted = turn.aborted
    PROVE  Heard'
BY DEF Heard, AbortReachesTools

LEMMA ThrowsHears ==
    ASSUME Heard, NEW c \in Calls, NEW t \in Turns, NEW b \in BOOLEAN, Throws(c, t, b)
    PROVE  Heard'
<1>1. turn' \in Turns /\ turn'.aborted = t.aborted
  BY FailFacts DEF Throws
<1>2. Told(t) \in [Calls -> ToolStatuses]
  BY DEF Told, Heard, ToolStatuses
<1>3. t.aborted => \A d \in Calls : Told(t)[d] \notin {"running", "waiting"}
  BY DEF Told
<1>4. tool' = [Told(t) EXCEPT ![c] = "threw"]
  BY DEF Throws
<1>5. tool' \in [Calls -> ToolStatuses] /\ \A d \in Calls : tool'[d] \in {"threw", Told(t)[d]}
  BY <1>2, <1>4 DEF ToolStatuses
<1> QED BY <1>1, <1>3, <1>5 DEF Heard, AbortReachesTools

LEMMA CheckHears ==
    ASSUME Heard, NEW next, CheckAt(next)
    PROVE  Heard'
<1>1. turn \in Turns /\ Stopped \in Turns
  BY StoppedFacts DEF Heard
<1>2. CASE UNCHANGED <<turn, tool>>
  BY <1>1, <1>2, SameHears
<1>3. CASE Fail(Stopped, TRUE) /\ tool' = Told(Stopped)
  <2>1. turn' \in Turns /\ turn'.aborted = Stopped.aborted
    BY <1>1, <1>3, FailFacts
  <2> QED BY <1>1, <1>3, <2>1, ToldHears
<1> QED BY <1>2, <1>3 DEF CheckAt

LEMMA PipelineHears ==
    ASSUME Heard,
           Pipeline \/ HookStops \/ ModelAnswers \/ ModelCalls \/ ModelChecks \/ TurnFault
    PROVE  Heard'
<1>1. turn \in Turns /\ Stopped \in Turns
  BY StoppedFacts DEF Heard
<1>2. CASE Checkpoint \/ PrepareIteration \/ CommitCot \/ CotCommitted \/ CollectResults
  BY <1>2, CheckHears
     DEF Checkpoint, PrepareIteration, CommitCot, CotCommitted, CollectResults
<1>3. CASE PrepareBeforeLoop \/ RequestPhase \/ HookStops \/ ModelAnswers \/ ToolPhase
  <2>1. PICK phase \in Phases : EnterPhase(phase)
    BY <1>3
       DEF PrepareBeforeLoop, RequestPhase, HookStops, ModelAnswers, ToolPhase, Phases
  <2>2. turn' \in Turns /\ turn'.aborted = turn.aborted
    BY <1>1, <2>1 DEF EnterPhase, Turns
  <2>3. tool' = tool
    BY <1>3 DEF PrepareBeforeLoop, RequestPhase, HookStops, ModelAnswers, ToolPhase
  <2> QED BY <2>2, <2>3, SameHears
<1>4. CASE ModelChecks
  <2>1. turn' \in Turns /\ turn'.aborted = Stopped.aborted
    BY <1>1, <1>4, FailFacts DEF ModelChecks
  <2> QED BY <1>1, <1>4, <2>1, ToldHears DEF ModelChecks
<1>5. CASE ModelAborted \/ TurnFault
  <2>1. turn' \in Turns /\ turn'.aborted = turn.aborted
    BY <1>1, <1>5, FailFacts DEF ModelAborted, TurnFault
  <2> QED BY <1>5, <2>1, SameHears DEF ModelAborted, TurnFault
<1>6. CASE ExecuteToolCalls
  <2>1. turn' = turn /\ tool' = [c \in Calls |-> IF c \in Range(batch) THEN "starting"
                                                                     ELSE tool[c]]
    BY <1>6 DEF ExecuteToolCalls
  <2> QED BY <2>1 DEF Heard, AbortReachesTools, ToolStatuses
<1>7. CASE \/ WritePhase \/ CallModel \/ RecordCall \/ Joined \/ AppendCot \/ KeepAborted
           \/ NothingAborted \/ AppendResults \/ Resume \/ AppendAnswer \/ AppendFailure
           \/ EndTurn \/ Complete \/ ModelCalls
  <2>1. turn' = turn /\ tool' = tool
    BY <1>7
       DEF WritePhase, CallModel, RecordCall, Joined, AppendCot, KeepAborted, NothingAborted,
           AppendResults, Resume, AppendAnswer, AppendFailure, EndTurn, Complete, ModelCalls
  <2> QED BY <1>1, <2>1, SameHears
<1> QED BY <1>2, <1>3, <1>4, <1>5, <1>6, <1>7 DEF Pipeline

LEMMA ToolsHear ==
    ASSUME Heard, NEW c \in Calls,
           \/ ToolStep(c) \/ ToolFails(c) \/ ToolChecks(c) \/ EmitCot(c)
           \/ QuestionAnswered(c) \/ ToolFault(c)
    PROVE  Heard'
<1>1. turn \in Turns /\ Stopped \in Turns
  BY StoppedFacts DEF Heard
<1>2. CASE ToolStarts(c)
  <2>1. turn' = turn
    BY <1>2 DEF ToolStarts
  <2>2. PICK status \in ToolStatuses :
           SetTool(c, status) /\ (turn.aborted => status \notin {"running", "waiting"})
    BY <1>2 DEF ToolStarts, ByKind, ToolStatuses
  <2> QED BY <2>1, <2>2, OneHears
<1>3. CASE ToolFails(c) \/ ProcessEnds(c) \/ ToolCancelled(c)
  <2>1. PICK status \in {"ended", "cancelled"} : SetTool(c, status) /\ turn' = turn
    BY <1>3 DEF ToolFails, ProcessEnds, ToolCancelled
  <2> QED BY <2>1, OneHears DEF ToolStatuses
<1>4. CASE ToolChecks(c)
  <2>1. Told(Stopped) \in [Calls -> ToolStatuses]
    BY <1>1 DEF Told, Heard, ToolStatuses
  <2>2. Stopped.aborted => \A d \in Calls : Told(Stopped)[d] \notin {"running", "waiting"}
    BY DEF Told
  <2>3. turn' = Stopped /\ tool' = [Told(Stopped) EXCEPT ![c] = "stopping"]
    BY <1>4 DEF ToolChecks
  <2> HIDE DEF Stopped
  <2>4. /\ tool' \in [Calls -> ToolStatuses]
        /\ \A d \in Calls : tool'[d] \in {"stopping", Told(Stopped)[d]}
    BY <2>1, <2>3 DEF ToolStatuses
  <2> QED BY <1>1, <2>2, <2>3, <2>4 DEF Heard, AbortReachesTools
<1>5. CASE EmitCot(c)
  BY <1>1, <1>5, SameHears DEF EmitCot
<1>6. CASE ToolThrows(c)
  BY <1>1, <1>6, ThrowsHears DEF ToolThrows
<1>7. CASE QuestionAnswered(c)
  <2>1. CASE Throws(c, Stopped, TRUE)
    BY <1>1, <2>1, ThrowsHears
  <2>2. CASE SetTool(c, "ended") /\ UNCHANGED <<turn, pc>>
    BY <2>2, OneHears DEF ToolStatuses
  <2> QED BY <1>7, <2>1, <2>2 DEF QuestionAnswered
<1>8. CASE ToolFault(c)
  <2>1. CASE Throws(c, turn, FALSE)
    BY <1>1, <2>1, ThrowsHears
  <2>2. CASE SetTool(c, "stopping") /\ UNCHANGED <<turn, pc>>
    BY <2>2, OneHears DEF ToolStatuses
  <2> QED BY <1>8, <2>1, <2>2 DEF ToolFault
<1> QED BY <1>2, <1>3, <1>4, <1>5, <1>6, <1>7, <1>8 DEF ToolStep

LEMMA InterruptsHear ==
    ASSUME Heard, NEW x \in Interrupts, IntAccept(x) \/ IntRequest(x) \/ IntRuntime(x)
    PROVE  Heard'
<1>1. turn \in Turns
  BY DEF Heard
<1>2. Interrupted \in Turns
  BY <1>1, InterruptedFacts
<1>3. CASE turn' = Interrupted /\ tool' = Told(Interrupted)
  BY <1>2, <1>3, ToldHears
<1>4. CASE UNCHANGED <<turn, tool>>
  BY <1>1, <1>4, SameHears
<1> QED BY <1>3, <1>4 DEF IntAccept, IntRequest, IntRuntime

LEMMA StepHears == Heard /\ [Next]_vars => Heard'
<1> SUFFICES ASSUME Heard, [Next]_vars PROVE Heard'
  OBVIOUS
<1>1. CASE UNCHANGED vars
  BY <1>1, SameHears DEF vars, Heard
<1>2. CASE Next
  BY <1>2, PipelineHears, ToolsHear, InterruptsHear DEF Next
<1> QED BY <1>1, <1>2

(* However the signal was raised, and whoever raised it, no call runs or    *)
(* waits for its user without having been told, one that starts afterwards  *)
(* or when the turn is over included.                                       *)
THEOREM SignalReachesTools == Spec => []AbortReachesTools
<1>1. Init => Heard
  BY DEF Init, Heard, Turns, Phases, ToolStatuses, AbortReachesTools
<1>2. Heard /\ [Next]_vars => Heard'
  BY StepHears
<1>3. Heard => AbortReachesTools
  BY DEF Heard
<1> QED BY <1>1, <1>2, <1>3, PTL DEF Spec
-----------------------------------------------------------------------------
(* The closing rows                                                         *)

Closings == OfKind("answer") \cup OfKind("cut")

(* Before a turn is over there is no closing row and no failure was handled; *)
(* then each row beyond the first, and each failure, has its own error.     *)
Counted ==
    /\ faults \in Nat
    /\ ~ Over => Closings = {} /\ turn.attempts = 0
    /\ turn.attempts <= 1 + faults
    /\ Cardinality(Closings) <= 1 + faults
    /\ pc = "failing" => Cardinality(Closings) <= faults
    /\ pc \in {"closed", "ended"} => Closings # {}
    /\ pc = "done" => faults > 0 \/ Closings # {}

LEMMA ClosingsFinite ==
    ASSUME Ledger
    PROVE  IsFiniteSet(Closings) /\ Cardinality(Closings) \in Nat
<1>1. Closings \subseteq 1..Len(rows) /\ Len(rows) \in Nat
  BY DEF Ledger, RowsAreSequence, Closings, OfKind
<1>2. IsFiniteSet(1..Len(rows))
  BY <1>1, FS_Interval
<1>3. IsFiniteSet(Closings)
  BY <1>1, <1>2, FS_Subset
<1> QED BY <1>3, FS_CardinalityType

LEMMA SameClosings ==
    ASSUME rows' = rows
    PROVE  Closings' = Closings
BY SameRows DEF Closings

(* One row more of any kind.                                                *)
LEMMA AppendedClosing ==
    ASSUME Ledger, NEW r, Append1(r)
    PROVE  /\ r.kind \notin {"answer", "cut"} => Closings' = Closings
           /\ r.kind \in {"answer", "cut"} =>
                 /\ Closings' # {}
                 /\ Cardinality(Closings') = Cardinality(Closings) + 1
<1>1. \A k : OfKind(k)' = IF k = r.kind THEN OfKind(k) \cup {Len(rows) + 1} ELSE OfKind(k)
  BY AppendedRow DEF Ledger
<1>2. Closings \subseteq 1..Len(rows) /\ Len(rows) \in Nat
  BY AppendedRow DEF Ledger, Closings
<1>4. CASE r.kind \notin {"answer", "cut"}
  BY <1>1, <1>4 DEF Closings
<1>5. CASE r.kind \in {"answer", "cut"}
  <2>1. Closings' = Closings \cup {Len(rows) + 1}
    BY <1>1, <1>5 DEF Closings
  <2>2. Len(rows) + 1 \notin Closings
    BY <1>2
  <2> QED BY <1>5, <2>1, <2>2, ClosingsFinite, FS_AddElement
<1> QED BY <1>4, <1>5

(* No closing row, and the pipeline stays on its side of the end.           *)
LEMMA StaysCounted ==
    ASSUME Counted, Closings' = Closings, faults' = faults, turn'.attempts = turn.attempts,
           pc' = pc \/ (~ Over /\ ~ Over')
    PROVE  Counted'
<1>1. CASE pc' = pc
  <2>1. Over' = Over
    BY <1>1 DEF Over
  <2> QED BY <1>1, <2>1 DEF Counted
<1>2. CASE ~ Over /\ ~ Over'
  <2>1. pc' \notin {"failing", "closed", "ended", "done"}
    BY <1>2 DEF Over
  <2> QED BY <1>2, <2>1 DEF Counted
<1> QED BY <1>1, <1>2

(* A failure: without an error, only while the turn is not over.            *)
LEMMA FailCounted ==
    ASSUME Ledger, Counted, Closings' = Closings,
           NEW t \in Turns, t.attempts = turn.attempts, NEW b \in BOOLEAN, Fail(t, b),
           faults' = faults + 1 \/ (faults' = faults /\ ~ Over)
    PROVE  Counted'
<1>1. turn'.attempts = turn.attempts + 1 /\ turn.attempts \in Nat
  <2>1. turn' = [t EXCEPT !.attempts = @ + 1, !.interrupted = b \/ t.aborted]
    BY DEF Fail
  <2>2. turn'.attempts = t.attempts + 1
    BY <2>1 DEF Turns
  <2> QED BY <2>2 DEF Turns
<1>2. pc' \in {"failing", "done"} /\ Over' /\ (pc' = "done" => ~ turn.attempts < 2)
  <2>1. pc' = IF turn.attempts < 2 THEN "failing" ELSE "done"
    BY Zenon DEF Fail
  <2> QED BY <2>1 DEF Over
<1>3. Cardinality(Closings) \in Nat
  BY ClosingsFinite
<1>4. CASE faults' = faults + 1
  BY ONLY Counted, Closings' = Closings, <1>1, <1>2, <1>3, <1>4 DEF Counted
<1>5. CASE faults' = faults /\ ~ Over
  <2>1. Cardinality(Closings) = 0 /\ turn.attempts = 0
    BY <1>5, FS_EmptySet DEF Counted
  <2> QED BY ONLY Counted, Closings' = Closings, <1>1, <1>2, <1>5, <2>1 DEF Counted
<1> QED BY <1>4, <1>5

LEMMA CheckCounted ==
    ASSUME Ledger, Counted, ~ Over, NEW next, CheckAt(next),
           next \notin {"failing", "closed", "ended", "done"}
    PROVE  Counted'
<1>1. Closings' = Closings /\ faults' = faults
  BY SameClosings DEF CheckAt
<1>2. CASE pc' = next /\ turn' = turn
  BY <1>1, <1>2, StaysCounted DEF Over
<1>3. CASE Fail(Stopped, TRUE)
  <2>1. Stopped \in Turns /\ Stopped.attempts = turn.attempts
    BY StoppedFacts DEF Ledger, Stopped, Turns
  <2> QED BY <1>1, <1>3, <2>1, FailCounted
<1> QED BY <1>2, <1>3 DEF CheckAt

LEMMA ClosingCounted ==
    ASSUME Ledger, Counted, AppendAnswer \/ AppendFailure
    PROVE  Counted'
<1>1. PICK k \in {"answer", "cut"} : Append1(Row(k, {}, 0))
  BY DEF AppendAnswer, AppendFailure
<1>2. Closings' # {} /\ Cardinality(Closings') = Cardinality(Closings) + 1
  <2>1. Row(k, {}, 0).kind = k
    BY DEF Row
  <2> QED BY <1>1, <2>1, AppendedClosing
<1>3. pc' = "closed" /\ Over' /\ turn' = turn /\ faults' = faults
  BY DEF AppendAnswer, AppendFailure, Over
<1>4. Cardinality(Closings) <= faults /\ Cardinality(Closings) \in Nat
  <2>1. CASE pc = "answering"
    <3>1. ~ Over
      BY <2>1 DEF Over
    <3>2. Closings = {} /\ faults \in Nat
      BY <3>1 DEF Counted
    <3>3. Cardinality(Closings) = 0
      BY <3>2, FS_EmptySet
    <3> QED BY <3>2, <3>3
  <2>2. CASE pc = "failing"
    BY <2>2, ClosingsFinite DEF Counted
  <2> QED BY <2>1, <2>2 DEF AppendAnswer, AppendFailure
<1> QED BY ONLY Counted, <1>2, <1>3, <1>4 DEF Counted

LEMMA PipelineCounted ==
    ASSUME Ledger, Counted,
           Pipeline \/ HookStops \/ ModelAnswers \/ ModelCalls \/ ModelChecks \/ TurnFault
    PROVE  Counted'
<1>1. CASE Checkpoint \/ PrepareIteration \/ CommitCot \/ CotCommitted \/ CollectResults
  <2>1. ~ Over
    BY <1>1 DEF Over, Checkpoint, PrepareIteration, CommitCot, CotCommitted, CollectResults
  <2>2. CASE Checkpoint
    <3>1. AfterPhase[turn.goal] \in {"prepare", "prepared", "execute", "answering"}
      BY <2>2 DEF Checkpoint, Ledger, Goals, AfterPhase
    <3> QED BY <2>1, <2>2, <3>1, CheckCounted DEF Checkpoint
  <2>3. CASE PrepareIteration \/ CommitCot \/ CotCommitted \/ CollectResults
    <3>1. PICK next \in {"refreshed", "committing", "commit", "collected"} : CheckAt(next)
      BY <2>3 DEF PrepareIteration, CommitCot, CotCommitted, CollectResults
    <3> QED BY <2>1, <3>1, CheckCounted
  <2> QED BY <1>1, <2>2, <2>3
<1>2. CASE PrepareBeforeLoop \/ RequestPhase \/ HookStops \/ ModelAnswers \/ ToolPhase
  <2>1. PICK phase \in Phases : EnterPhase(phase)
    BY <1>2
       DEF PrepareBeforeLoop, RequestPhase, HookStops, ModelAnswers, ToolPhase, Phases
  <2>2. turn'.attempts = turn.attempts
    BY <2>1 DEF EnterPhase, Ledger, Turns
  <2>3. ~ Over /\ ~ Over'
    BY <1>2, <2>1 DEF Over, EnterPhase, PrepareBeforeLoop, RequestPhase, HookStops,
                      ModelAnswers, ToolPhase
  <2>4. rows' = rows /\ faults' = faults
    BY <1>2 DEF PrepareBeforeLoop, RequestPhase, HookStops, ModelAnswers, ToolPhase
  <2> QED BY <2>2, <2>3, <2>4, SameClosings, StaysCounted
<1>3. CASE ModelChecks
  <2>1. Stopped \in Turns /\ Stopped.attempts = turn.attempts
    BY StoppedFacts DEF Ledger, Stopped, Turns
  <2>2. ~ Over /\ rows' = rows /\ faults' = faults /\ Fail(Stopped, TRUE)
    BY <1>3 DEF Over, ModelChecks
  <2> QED BY <2>1, <2>2, SameClosings, FailCounted
<1>4. CASE ModelAborted \/ TurnFault
  <2>1. turn \in Turns
    BY DEF Ledger
  <2>2. /\ rows' = rows /\ Fail(turn, FALSE)
        /\ faults' = faults + 1 \/ (faults' = faults /\ ~ Over)
    BY <1>4 DEF Over, ModelAborted, TurnFault, Fault
  <2> QED BY <2>1, <2>2, SameClosings, FailCounted
<1>5. CASE AppendAnswer \/ AppendFailure
  BY <1>5, ClosingCounted
<1>6. CASE EndTurn \/ Complete
  <2>1. rows' = rows /\ faults' = faults /\ turn' = turn
    BY <1>6 DEF EndTurn, Complete
  <2>2. Closings' = Closings /\ Closings # {} /\ Over' /\ pc' \in {"ended", "done"}
    BY <1>6, <2>1, SameClosings DEF EndTurn, Complete, Counted, Over
  <2> QED BY ONLY Counted, <2>1, <2>2 DEF Counted
<1>7. CASE RecordCall \/ AppendCot \/ KeepAborted \/ AppendResults
  <2>1. PICK r : Append1(r) /\ r.kind \notin {"answer", "cut"}
    <3>1. \A k, calls, n : Row(k, calls, n).kind = k
      BY DEF Row
    <3>2. CASE RecordCall
      <4>1. PICK i : Append1(Row("call", {batch[i]}, 0))
        BY <3>2 DEF RecordCall
      <4> QED BY <3>1, <4>1
    <3>3. CASE AppendCot
      <4>1. PICK e : Append1(Row("cot", {e.call}, e.n))
        BY <3>3 DEF AppendCot
      <4> QED BY <3>1, <4>1
    <3>4. CASE KeepAborted \/ AppendResults
      <4>1. Append1(Results)
        BY <3>4 DEF KeepAborted, AppendResults
      <4> QED BY <3>1, <4>1 DEF Results
    <3> QED BY <1>7, <3>2, <3>3, <3>4
  <2>2. ~ Over /\ ~ Over' /\ faults' = faults /\ turn' = turn
    BY <1>7 DEF Over, RecordCall, AppendCot, KeepAborted, AppendResults
  <2> QED BY <2>1, <2>2, AppendedClosing, StaysCounted
<1>8. CASE \/ WritePhase \/ CallModel \/ ExecuteToolCalls \/ Joined \/ NothingAborted
           \/ Resume \/ ModelCalls
  <2>1. rows' = rows /\ faults' = faults /\ turn' = turn /\ ~ Over /\ ~ Over'
    BY <1>8 DEF Over, WritePhase, CallModel, ExecuteToolCalls, Joined, NothingAborted,
                Resume, ModelCalls
  <2> QED BY <2>1, SameClosings, StaysCounted
<1> QED BY <1>1, <1>2, <1>3, <1>4, <1>5, <1>6, <1>7, <1>8 DEF Pipeline

(* A tool that throws fails the turn only while the tools are waited for.   *)
LEMMA ThrowsCounted ==
    ASSUME Ledger, Counted, NEW c \in Calls, NEW t \in Turns, t.attempts = turn.attempts,
           NEW b \in BOOLEAN, Throws(c, t, b), rows' = rows,
           faults' = faults \/ faults' = faults + 1
    PROVE  Counted'
<1>1. Closings' = Closings
  BY SameClosings
<1>2. CASE pc = "tools"
  BY <1>1, <1>2, FailCounted DEF Throws, Over
<1>3. CASE pc # "tools"
  <2>1. pc' = pc /\ turn' = t /\ Over' = Over
    BY <1>3 DEF Throws, Over
  <2>2. CASE faults' = faults
    BY <1>1, <2>1, <2>2, StaysCounted
  <2>3. CASE faults' = faults + 1
    <3>1. Cardinality(Closings) \in Nat /\ turn.attempts \in Nat
      BY ClosingsFinite DEF Ledger, Turns
    <3> QED BY ONLY Counted, t.attempts = turn.attempts, <1>1, <2>1, <2>3, <3>1 DEF Counted
  <2> QED BY <2>2, <2>3
<1> QED BY <1>2, <1>3

LEMMA ToolsCounted ==
    ASSUME Ledger, Counted, NEW c \in Calls,
           \/ ToolStep(c) \/ ToolFails(c) \/ ToolChecks(c) \/ EmitCot(c)
           \/ QuestionAnswered(c) \/ ToolFault(c)
    PROVE  Counted'
<1>1. /\ turn \in Turns
      /\ Stopped \in Turns /\ Stopped.attempts = turn.attempts
  BY StoppedFacts DEF Ledger, Stopped, Turns
<1>2. rows' = rows
  BY DEF ToolStep, ToolStarts, ToolThrows, ProcessEnds, ToolCancelled, ToolFails, ToolChecks,
         EmitCot, QuestionAnswered, ToolFault
<1>3. CASE \/ ToolStarts(c) \/ ToolFails(c) \/ EmitCot(c) \/ ProcessEnds(c)
           \/ ToolCancelled(c) \/ ToolChecks(c)
  <2>1. faults' = faults /\ pc' = pc /\ turn' \in {turn, Stopped}
    BY <1>3 DEF ToolStarts, ToolFails, EmitCot, ProcessEnds, ToolCancelled, ToolChecks
  <2> QED BY <1>1, <1>2, <2>1, SameClosings, StaysCounted
<1>4. CASE ToolThrows(c)
  BY <1>1, <1>2, <1>4, ThrowsCounted DEF ToolThrows
<1>5. CASE QuestionAnswered(c)
  <2>1. CASE Throws(c, Stopped, TRUE)
    BY <1>1, <1>2, <1>5, <2>1, ThrowsCounted DEF QuestionAnswered
  <2>2. CASE UNCHANGED <<turn, pc>>
    BY <1>2, <1>5, <2>2, SameClosings, StaysCounted DEF QuestionAnswered
  <2> QED BY <1>5, <2>1, <2>2 DEF QuestionAnswered
<1>6. CASE ToolFault(c)
  <2>0. faults' = faults + 1
    BY <1>6 DEF ToolFault, Fault
  <2>1. CASE Throws(c, turn, FALSE)
    BY <1>1, <1>2, <2>0, <2>1, ThrowsCounted
  <2>2. CASE UNCHANGED <<turn, pc>>
    <3>1. Closings' = Closings /\ Over' = Over
      BY <1>2, <2>2, SameClosings DEF Over
    <3>2. Cardinality(Closings) \in Nat /\ turn.attempts \in Nat
      BY ClosingsFinite DEF Ledger, Turns
    <3> QED BY ONLY Counted, <2>0, <2>2, <3>1, <3>2 DEF Counted
  <2> QED BY <1>6, <2>1, <2>2 DEF ToolFault
<1> QED BY <1>3, <1>4, <1>5, <1>6 DEF ToolStep

LEMMA InterruptsCounted ==
    ASSUME Ledger, Counted, NEW x \in Interrupts, IntAccept(x) \/ IntRequest(x) \/ IntRuntime(x)
    PROVE  Counted'
<1>1. rows' = rows /\ faults' = faults /\ pc' = pc
  BY DEF IntAccept, IntRequest, IntRuntime
<1>2. turn'.attempts = turn.attempts
  <2>1. Interrupted.attempts = turn.attempts
    BY DEF Ledger, Interrupted, Turns
  <2> QED BY <2>1 DEF IntAccept, IntRequest, IntRuntime
<1> QED BY <1>1, <1>2, SameClosings, StaysCounted

(* Whatever fails and is interrupted, a turn leaves one closing row, and one *)
(* more at most for each error that struck.                                 *)
THEOREM OneClosingRow == Spec => []ClosedOnce
<1>1. Init => Counted
  <2> SUFFICES ASSUME Init PROVE Counted
    OBVIOUS
  <2>1. Closings = {} /\ Cardinality({}) = 0
    BY FS_EmptySet DEF Init, Closings, OfKind
  <2> QED BY <2>1 DEF Init, Counted, Over
<1>2. Ledger /\ Counted /\ [Next]_vars => Ledger' /\ Counted'
  <2> SUFFICES ASSUME Ledger, Counted, [Next]_vars PROVE Ledger' /\ Counted'
    OBVIOUS
  <2>1. Ledger'
    BY StepKept DEF Kept
  <2>2. CASE UNCHANGED vars
    BY <2>1, <2>2, SameClosings, StaysCounted DEF vars
  <2>3. CASE Next
    BY <2>1, <2>3, PipelineCounted, ToolsCounted, InterruptsCounted DEF Next
  <2> QED BY <2>2, <2>3
<1>3. Ledger /\ Counted => ClosedOnce
  <2> SUFFICES ASSUME Ledger, Counted PROVE ClosedOnce
    OBVIOUS
  <2>1. Cardinality(Closings) \in Nat /\ (Closings # {} => Cardinality(Closings) # 0)
    BY ClosingsFinite, FS_EmptySet
  <2>2. Cardinality(Closings) <= 1 + faults /\ (pc = "done" => faults > 0 \/ Closings # {})
        /\ faults \in Nat
    BY DEF Counted
  <2> QED BY ONLY <2>1, <2>2 DEF ClosedOnce, Closings
<1> QED BY <1>1, <1>2, <1>3, InitLedger, PTL DEF Spec

-----------------------------------------------------------------------------
(* The order of the cot_work rows                                           *)

CallRows == OfKind("call")
CotRows  == OfKind("cot")

Alive == {"starting", "running", "waiting", "stopping", "closing"}

(* The stretch between the recording of a call and the start of its tool.   *)
Preparing  == pc \in {"recording", "execute"} \/ Entering({"tool_execution"})
Emitting   == Recording \/ Preparing \/ pc = "tools"
Committing == pc \in {"tools", "commit", "committing", "committed"}
Closing    == pc = "answering" \/ Entering({"finalizing"})

Events == Cardinality(pending) + Cardinality(CotRows)

(* What the rows themselves say: one row for each call, before its events,   *)
(* which come call by call and in the order of their numbers.               *)
RowsInOrder ==
    /\ \A j \in CallRows : \E c \in Calls : rows[j].calls = {c}
    /\ \A j, k \in CallRows : rows[j].calls = rows[k].calls => j = k
    /\ \A i \in CotRows : \E j \in CallRows : j < i /\ rows[j].calls = rows[i].calls
    /\ \A i, k \in CotRows, a, b \in CallRows :
          i < k /\ rows[a].calls = rows[i].calls /\ rows[b].calls = rows[k].calls
             => a < b \/ (a = b /\ rows[i].n < rows[k].n)

BatchOnce == batch \in Seq(Calls) /\ IsInjective(batch)

(* The calls of this batch were recorded in its order ...                   *)
BatchInOrder ==
    Recording \/ Executing =>
        \A i, k \in DOMAIN batch, b \in CallRows :
            i < k /\ rows[b].calls = {batch[k]}
               => \E a \in CallRows : a < b /\ rows[a].calls = {batch[i]}

(* ... and after the events of every earlier batch.                         *)
EventsBefore ==
    Emitting => \A i \in CotRows, k \in DOMAIN batch, j \in CallRows :
                    rows[j].calls = {batch[k]} => i < j

(* A tool runs only while the pipeline waits for its batch.                 *)
AliveInBatch == \A c \in Calls : tool[c] \in Alive => pc = "tools" /\ c \in Range(batch)

(* A call with a row was started, or is about to be, or never will be.      *)
RowsStarted ==
    \A c \in CallsOf("call") :
        tool[c] # "idle" \/ (Preparing /\ c \in Range(batch)) \/ Closing

(* The events that wait are of this batch, numbered apart from each other    *)
(* and from those with rows.                                                *)
Waiting ==
    /\ IsFiniteSet(pending)
    /\ ~ Committing => pending = {}
    /\ \A e \in pending : e.call \in Range(batch) /\ e.n \in 1..Events
    /\ \A i \in CotRows : rows[i].n \in 1..Events
    /\ \A e, d \in pending : e.n = d.n => e = d

(* They belong behind the events with rows.                                 *)
WaitingLater ==
    \A e \in pending, i \in CotRows, a, b \in CallRows :
        rows[a].calls = rows[i].calls /\ rows[b].calls = {e.call}
           => a < b \/ (a = b /\ rows[i].n < e.n)

InOrder ==
    /\ BatchOnce
    /\ BatchInOrder
    /\ EventsBefore
    /\ AliveInBatch
    /\ RowsStarted
    /\ Waiting
    /\ WaitingLater

Orderly == RowsInOrder /\ (~ Over => InOrder)

LEMMA RowsFinite ==
    ASSUME Ledger
    PROVE  /\ Len(rows) \in Nat
           /\ CallRows \subseteq 1..Len(rows) /\ CotRows \subseteq 1..Len(rows)
           /\ IsFiniteSet(CotRows) /\ Cardinality(CotRows) \in Nat
<1>1. CallRows \subseteq 1..Len(rows) /\ CotRows \subseteq 1..Len(rows) /\ Len(rows) \in Nat
  BY DEF Ledger, RowsAreSequence, CallRows, CotRows, OfKind
<1>2. IsFiniteSet(1..Len(rows))
  BY <1>1, FS_Interval
<1>3. IsFiniteSet(CotRows)
  BY <1>1, <1>2, FS_Subset
<1> QED BY <1>1, <1>3, FS_CardinalityType

(* No row of a call or an event is new.                                     *)
SameCallsAndCots ==
    /\ CallRows' = CallRows /\ CotRows' = CotRows
    /\ CallsOf("call")' = CallsOf("call")
    /\ \A i \in CallRows \cup CotRows : rows'[i] = rows[i]

LEMMA OtherRows ==
    ASSUME Ledger
    PROVE  /\ rows' = rows => SameCallsAndCots
           /\ \A r : Append1(r) /\ r.kind \notin {"call", "cot"} => SameCallsAndCots
<1>1. rows' = rows => SameCallsAndCots
  BY SameRows DEF SameCallsAndCots, CallRows, CotRows
<1>2. ASSUME NEW r, Append1(r), r.kind \notin {"call", "cot"} PROVE SameCallsAndCots
  <2>1. /\ \A k : OfKind(k)' = IF k = r.kind THEN OfKind(k) \cup {Len(rows) + 1} ELSE OfKind(k)
        /\ \A i \in 1..Len(rows) : rows'[i] = rows[i]
    BY <1>2, AppendedRow DEF Ledger
  <2>2. CallsOf("call")' = CallsOf("call")
    BY <1>2, AppendedCalls DEF Ledger
  <2>3. CallRows' = CallRows /\ CotRows' = CotRows
    BY <1>2, <2>1 DEF CallRows, CotRows
  <2> QED BY <2>1, <2>2, <2>3, RowsFinite DEF SameCallsAndCots
<1> QED BY <1>1, <1>2

LEMMA RowsStayInOrder ==
    ASSUME RowsInOrder, SameCallsAndCots
    PROVE  RowsInOrder'
BY DEF RowsInOrder, SameCallsAndCots

(* A step of the pipeline or of a tool that leaves the batch and the events. *)
LEMMA StaysInOrder ==
    ASSUME Orderly, SameCallsAndCots, UNCHANGED <<batch, pending>>, ~ Over,
           Recording' \/ Executing' => Recording \/ Executing,
           Emitting' => Emitting,
           ~ Committing' => pending = {},
           AliveInBatch', RowsStarted'
    PROVE  Orderly'
<1>1. RowsInOrder' /\ InOrder
  BY RowsStayInOrder DEF Orderly
<1>2. BatchOnce'
  BY <1>1 DEF InOrder, BatchOnce
<1>3. BatchInOrder'
  BY <1>1 DEF InOrder, BatchInOrder, SameCallsAndCots
<1>4. EventsBefore'
  BY <1>1 DEF InOrder, EventsBefore, SameCallsAndCots
<1>5. Waiting'
  <2>1. Events' = Events
    BY DEF Events, SameCallsAndCots
  <2> QED BY <1>1, <2>1 DEF InOrder, Waiting, SameCallsAndCots
<1>6. WaitingLater'
  BY <1>1 DEF InOrder, WaitingLater, SameCallsAndCots
<1> QED BY <1>1, <1>2, <1>3, <1>4, <1>5, <1>6 DEF Orderly, InOrder

(* Once the turn is over only its rows matter.                              *)
LEMMA OverInOrder ==
    ASSUME Orderly, SameCallsAndCots, Over'
    PROVE  Orderly'
BY RowsStayInOrder DEF Orderly

(* Where the pipeline goes with no tool alive and its calls as they were.   *)
LEMMA MovesInOrder ==
    ASSUME Orderly, SameCallsAndCots, UNCHANGED <<batch, pending, tool>>, ~ Over,
           \A c \in Calls : tool[c] \notin Alive,
           Recording' \/ Executing' => Recording \/ Executing,
           Emitting' => Emitting,
           ~ Committing' => pending = {},
           (Preparing => Preparing') \/ Closing',
           Closing => Closing'
    PROVE  Orderly'
<1>1. AliveInBatch'
  BY DEF AliveInBatch
<1>2. RowsStarted'
  BY DEF RowsStarted, Orderly, InOrder, SameCallsAndCots
<1> QED BY <1>1, <1>2, StaysInOrder

(* A step from a place where no tools are waited for.                       *)
LEMMA NoneAlive ==
    ASSUME Orderly, ~ Over, pc # "tools"
    PROVE  \A c \in Calls : tool[c] \notin Alive
BY DEF Orderly, InOrder, AliveInBatch

LEMMA CheckOrderly ==
    ASSUME Ledger, Orderly,
           Checkpoint \/ PrepareIteration \/ CommitCot \/ CotCommitted \/ CollectResults
    PROVE  Orderly'
<1>1. ~ Over /\ pc # "tools"
  BY DEF Over, Checkpoint, PrepareIteration, CommitCot, CotCommitted, CollectResults
<1>2. UNCHANGED <<rows, batch, pending>>
  BY DEF Checkpoint, PrepareIteration, CommitCot, CotCommitted, CollectResults, CheckAt, work
<1>3. SameCallsAndCots
  BY <1>2, OtherRows
<1>4. CASE Over'
  BY <1>3, <1>4, OverInOrder
<1>5. CASE ~ Over'
  <2>1. ASSUME NEW next, CheckAt(next) PROVE pc' = next /\ turn' = turn /\ tool' = tool
    BY <1>5, <2>1 DEF CheckAt, Fail, Over
  <2>2. pending = {} \/ Committing
    BY <1>1 DEF Orderly, InOrder, Waiting
  <2>3. CASE Checkpoint
    <3>1. pc = "check" /\ pc' = AfterPhase[turn.goal] /\ turn' = turn /\ tool' = tool
      BY <2>1, <2>3 DEF Checkpoint
    <3>2. turn.goal \in Goals
      BY <3>1 DEF Ledger
    <3>3. /\ turn.goal \in {"context", "model_request"} => pc' \in {"prepare", "prepared"}
          /\ turn.goal = "tool_execution" => pc' = "execute"
          /\ turn.goal = "finalizing" => pc' = "answering"
      BY <3>1 DEF AfterPhase
    <3>4. /\ Recording' \/ Executing' => Recording \/ Executing
          /\ Emitting' => Emitting
          /\ ~ Committing
          /\ Preparing => Preparing'
          /\ Closing => Closing'
      BY <3>1, <3>2, <3>3
         DEF Goals, Recording, Executing, Emitting, Committing, Preparing, Closing, Entering
    <3> QED BY <1>1, <1>2, <1>3, <2>2, <3>1, <3>4, NoneAlive, MovesInOrder
  <2>4. CASE PrepareIteration \/ CommitCot \/ CotCommitted \/ CollectResults
    <3>1. /\ tool' = tool
          /\ \/ pc = "prepare" /\ pc' = "refreshed"
             \/ pc = "commit" /\ pc' = "committing"
             \/ pc = "committed" /\ pc' = "commit"
             \/ pc \in {"kept", "collecting"} /\ pc' = "collected"
      BY <2>1, <2>4 DEF PrepareIteration, CommitCot, CotCommitted, CollectResults
    <3>2. /\ Recording' \/ Executing' => Recording \/ Executing
          /\ Emitting' => Emitting
          /\ Committing => Committing'
          /\ ~ Preparing /\ ~ Closing
      BY <3>1 DEF Recording, Executing, Emitting, Committing, Preparing, Closing, Entering
    <3> QED BY <1>1, <1>2, <1>3, <2>2, <3>1, <3>2, NoneAlive, MovesInOrder
  <2> QED BY <2>3, <2>4
<1> QED BY <1>4, <1>5

LEMMA EntersOrderly ==
    ASSUME Ledger, Orderly,
           PrepareBeforeLoop \/ RequestPhase \/ HookStops \/ ModelAnswers \/ ToolPhase
    PROVE  Orderly'
<1>1. PICK phase \in Goals : EnterPhase(phase) /\ (phase = "tool_execution" <=> ToolPhase)
                             /\ (phase = "finalizing" <=> HookStops \/ ModelAnswers)
  <2>1. CASE PrepareBeforeLoop
    BY <2>1 DEF PrepareBeforeLoop, RequestPhase, HookStops, ModelAnswers, ToolPhase, Goals
  <2>2. CASE RequestPhase
    BY <2>2 DEF PrepareBeforeLoop, RequestPhase, HookStops, ModelAnswers, ToolPhase, Goals
  <2>3. CASE HookStops \/ ModelAnswers
    <3>1. EnterPhase("finalizing")
      BY <2>3 DEF HookStops, ModelAnswers
    <3>2. ~ ToolPhase
      BY <3>1 DEF EnterPhase, ToolPhase, Ledger, Turns
    <3> QED BY <2>3, <3>1, <3>2 DEF Goals
  <2>4. CASE ToolPhase
    <3>1. EnterPhase("tool_execution")
      BY <2>4 DEF ToolPhase
    <3>2. ~ HookStops /\ ~ ModelAnswers
      BY <3>1 DEF EnterPhase, HookStops, ModelAnswers, Ledger, Turns
    <3> QED BY <2>4, <3>1, <3>2 DEF Goals
  <2> QED BY <2>1, <2>2, <2>3, <2>4
<1>2. UNCHANGED <<rows, batch, pending, tool>>
  BY DEF PrepareBeforeLoop, RequestPhase, HookStops, ModelAnswers, ToolPhase, work
<1>3. SameCallsAndCots
  BY <1>2, OtherRows
<1>4. pc' = "phase" /\ turn'.goal = phase
  BY <1>1 DEF EnterPhase, Ledger, Turns
<1>5. /\ pc \in {"start", "refreshed", "prepared", "called", "collected", "request", "recording"}
      /\ ToolPhase => Recording
      /\ pc = "recording" => ToolPhase
  BY DEF PrepareBeforeLoop, RequestPhase, HookStops, ModelAnswers, ToolPhase, Recording
<1>6. /\ ~ Over /\ pc # "tools"
      /\ Recording' \/ Executing' => Recording \/ Executing
      /\ Emitting' => Emitting
      /\ ~ Committing /\ ~ Closing
      /\ Preparing => Preparing'
  BY <1>1, <1>4, <1>5 DEF Over, Recording, Executing, Emitting, Committing, Preparing, Closing, Entering
<1>7. pending = {}
  BY <1>6 DEF Orderly, InOrder, Waiting
<1> QED BY <1>2, <1>3, <1>6, <1>7, NoneAlive, MovesInOrder

(* A failure, an ending, and what is appended after the last event.         *)
LEMMA EndsOrderly ==
    ASSUME Ledger, Orderly,
           \/ ModelChecks \/ ModelAborted \/ TurnFault \/ EndTurn \/ Complete
           \/ AppendAnswer \/ AppendFailure
    PROVE  Orderly'
<1>1. Over'
  BY DEF ModelChecks, ModelAborted, TurnFault, EndTurn, Complete, AppendAnswer, AppendFailure,
         Fail, Over
<1>2. rows' = rows \/ \E k \in {"answer", "cut"} : Append1(Row(k, {}, 0))
  BY DEF ModelChecks, ModelAborted, TurnFault, EndTurn, Complete, AppendAnswer, AppendFailure
<1>3. \A k : Row(k, {}, 0).kind = k
  BY DEF Row
<1>4. SameCallsAndCots
  BY <1>2, <1>3, OtherRows
<1> QED BY <1>1, <1>4, OverInOrder

LEMMA GoesOrderly ==
    ASSUME Ledger, Orderly,
           WritePhase \/ CallModel \/ NothingAborted \/ KeepAborted \/ AppendResults
    PROVE  Orderly'
<1>1. UNCHANGED <<turn, batch, pending, tool>>
  BY DEF WritePhase, CallModel, NothingAborted, KeepAborted, AppendResults, work
<1>2. rows' = rows \/ Append1(Results)
  BY DEF WritePhase, CallModel, NothingAborted, KeepAborted, AppendResults
<1>3. Results.kind = "result"
  BY DEF Results, Row
<1>4. SameCallsAndCots
  BY <1>2, <1>3, OtherRows
<1>5. \/ pc = "phase" /\ pc' = "check"
      \/ pc = "prepared" /\ pc' = "request"
      \/ pc = "commit" /\ pc' \in {"collecting", "kept"} /\ pending = {}
      \/ pc = "collected" /\ pc' = "resuming"
  BY DEF WritePhase, CallModel, NothingAborted, KeepAborted, AppendResults
<1>6. /\ ~ Over /\ pc # "tools"
      /\ Recording' \/ Executing' => Recording \/ Executing
      /\ Emitting' => Emitting
      /\ Committing => pending = {}
      /\ Preparing => Preparing'
      /\ Closing => Closing'
  BY <1>1, <1>5
     DEF Over, Recording, Executing, Emitting, Committing, Preparing, Closing, Entering
<1>7. pending = {}
  BY <1>6 DEF Orderly, InOrder, Waiting
<1> QED BY <1>1, <1>4, <1>6, <1>7, NoneAlive, MovesInOrder

(* The tools of a batch start together and are waited for together.         *)
LEMMA ToolsBetween ==
    ASSUME Ledger, Orderly, ExecuteToolCalls \/ Joined
    PROVE  Orderly'
<1>1. UNCHANGED <<rows, batch, pending>>
  BY DEF ExecuteToolCalls, Joined, work
<1>2. SameCallsAndCots
  BY <1>1, OtherRows
<1>3. ~ Over /\ ~ Over'
  BY DEF ExecuteToolCalls, Joined, Over
<1>4. InOrder /\ CallsOf("call") \subseteq Calls
  BY <1>3 DEF Orderly, Ledger
<1>5. CASE ExecuteToolCalls
  <2>1. /\ pc = "execute" /\ pc' = "tools"
        /\ tool' = [c \in Calls |-> IF c \in Range(batch) THEN "starting" ELSE tool[c]]
    BY <1>5 DEF ExecuteToolCalls
  <2>2. Executing /\ Emitting /\ Committing'
    BY <2>1 DEF Executing, Emitting, Preparing, Committing
  <2>3. \A c \in Calls : tool[c] \notin Alive
    BY <1>3, <2>1, NoneAlive
  <2>4. AliveInBatch'
    BY <1>1, <2>1, <2>3 DEF AliveInBatch
  <2>5. ~ Closing
    BY <2>1 DEF Closing, Entering
  <2>6. RowsStarted'
    BY <1>2, <1>4, <2>1, <2>5 DEF InOrder, RowsStarted, SameCallsAndCots
  <2> QED BY <1>1, <1>2, <1>3, <2>2, <2>4, <2>6, StaysInOrder
<1>6. CASE Joined
  <2>1. /\ pc = "tools" /\ pc' = "commit" /\ tool' = tool
        /\ \A c \in Range(batch) : tool[c] \in {"ended", "cancelled"}
    BY <1>6 DEF Joined
  <2>2. \A c \in Calls : tool[c] \notin Alive
    BY <1>4, <2>1 DEF InOrder, AliveInBatch, Alive
  <2>3. Executing /\ Committing' /\ ~ Emitting' /\ ~ Preparing /\ ~ Closing
    BY <2>1 DEF Executing, Emitting, Preparing, Committing, Recording, Closing, Entering
  <2> QED BY <1>1, <1>2, <1>3, <2>1, <2>2, <2>3, MovesInOrder
<1> QED BY <1>5, <1>6

(* New calls have no rows yet, for calls with rows were started.            *)
LEMMA ModelCallsOrderly ==
    ASSUME Ledger, Orderly, ModelCalls
    PROVE  Orderly'
<1>1. /\ pc = "request" /\ pc' = "called"
      /\ UNCHANGED <<rows, pending, tool>>
  BY DEF ModelCalls
<1>2. PICK new \in SUBSET {c \in Calls : tool[c] = "idle"} :
         batch' \in Bijection(1..Cardinality(new), new)
  BY DEF ModelCalls
<1>3. SameCallsAndCots
  BY <1>1, OtherRows
<1>4. ~ Over /\ ~ Committing /\ ~ Committing' /\ ~ Preparing /\ ~ Closing
  BY <1>1 DEF Over, Committing, Preparing, Closing, Entering
<1>5. RowsInOrder /\ RowsInOrder' /\ InOrder
  BY <1>3, <1>4, RowsStayInOrder DEF Orderly
<1>6. Cardinality(new) \in Nat
  BY CallsAssumption, FS_Subset, FS_CardinalityType
<1>7. BatchOnce'
  <2>1. batch' \in [1..Cardinality(new) -> Calls] /\ IsInjective(batch')
    BY <1>2 DEF Bijection, Injection
  <2>2. batch' \in Seq(Calls)
    BY <1>6, <2>1
  <2> QED BY <2>1, <2>2 DEF BatchOnce
<1>8. ASSUME NEW k \in DOMAIN batch', NEW j \in CallRows, rows[j].calls = {batch'[k]}
      PROVE  FALSE
  <2>1. tool[batch'[k]] = "idle"
    BY <1>2 DEF Bijection, Injection
  <2>2. batch'[k] \in CallsOf("call")
    BY <1>8 DEF CallsOf, CallRows
  <2> QED BY <1>4, <1>5, <2>1, <2>2 DEF InOrder, RowsStarted
<1>9. BatchInOrder' /\ EventsBefore'
  BY <1>3, <1>8 DEF BatchInOrder, EventsBefore, SameCallsAndCots
<1>10. AliveInBatch'
  BY <1>1, <1>4, NoneAlive DEF AliveInBatch
<1>11. RowsStarted'
  BY <1>1, <1>3, <1>4, <1>5 DEF InOrder, RowsStarted, SameCallsAndCots
<1>12. Waiting' /\ WaitingLater'
  <2>1. pending = {} /\ pending' = {}
    BY <1>1, <1>4, <1>5 DEF InOrder, Waiting
  <2>2. Events' = Events
    BY <1>1, <1>3 DEF Events, SameCallsAndCots
  <2> QED BY <1>3, <1>5, <2>1, <2>2 DEF InOrder, Waiting, WaitingLater, SameCallsAndCots
<1> QED BY <1>5, <1>7, <1>9, <1>10, <1>11, <1>12 DEF Orderly, InOrder

LEMMA ResumeOrderly ==
    ASSUME Ledger, Orderly, Resume
    PROVE  Orderly'
<1>1. /\ pc = "resuming" /\ pc' = "prepare" /\ batch' = << >>
      /\ UNCHANGED <<rows, pending, tool>>
  BY DEF Resume
<1>2. SameCallsAndCots
  BY <1>1, OtherRows
<1>3. ~ Over /\ ~ Committing /\ ~ Preparing /\ ~ Closing
  BY <1>1 DEF Over, Committing, Preparing, Closing, Entering
<1>4. RowsInOrder' /\ InOrder
  BY <1>2, <1>3, RowsStayInOrder DEF Orderly
<1>5. BatchOnce' /\ BatchInOrder' /\ EventsBefore'
  BY <1>1 DEF BatchOnce, BatchInOrder, EventsBefore, IsInjective
<1>6. AliveInBatch'
  BY <1>1, <1>3, NoneAlive DEF AliveInBatch
<1>7. RowsStarted'
  BY <1>1, <1>2, <1>3, <1>4 DEF InOrder, RowsStarted, SameCallsAndCots
<1>8. Waiting' /\ WaitingLater'
  <2>1. pending = {} /\ pending' = {}
    BY <1>1, <1>3, <1>4 DEF InOrder, Waiting
  <2>2. Events' = Events
    BY <1>1, <1>2 DEF Events, SameCallsAndCots
  <2> QED BY <1>2, <1>4, <2>1, <2>2 DEF InOrder, Waiting, WaitingLater, SameCallsAndCots
<1> QED BY <1>4, <1>5, <1>6, <1>7, <1>8 DEF Orderly, InOrder

(* The call recorded is the first of the batch without a row.               *)
LEMMA RecordCallOrderly ==
    ASSUME Ledger, Orderly, RecordCall
    PROVE  Orderly'
<1>1. /\ Recording /\ pc' = "recording"
      /\ UNCHANGED <<batch, pending, tool>>
  BY DEF RecordCall, Recording, work
<1>2. PICK f \in Unrecorded : /\ \A j \in Unrecorded : f <= j
                              /\ Append1(Row("call", {batch[f]}, 0))
  BY DEF RecordCall
<1>3. ~ Over /\ ~ Committing /\ ~ Committing' /\ Preparing' /\ ~ Closing /\ ~ Over'
  BY <1>1 DEF Over, Committing, Preparing, Closing, Entering, Recording
<1>4. RowsInOrder /\ InOrder
  BY <1>3 DEF Orderly
<1> PICK L : L = Len(rows) + 1
  OBVIOUS
<1> PICK r : r = Row("call", {batch[f]}, 0) /\ Append1(r)
  BY <1>2
<1>5. r.kind = "call" /\ r.calls = {batch[f]}
  BY r = Row("call", {batch[f]}, 0) DEF Row
<1>6. /\ CallRows' = CallRows \cup {L} /\ CotRows' = CotRows
      /\ rows'[L].calls = {batch[f]}
      /\ \A i \in CallRows \cup CotRows : rows'[i] = rows[i] /\ i < L /\ i \in Nat
      /\ L \in Nat
  <2>1. RowsAreSequence
    BY DEF Ledger
  <2>2. /\ Len(rows) \in Nat /\ rows'[Len(rows) + 1] = r
        /\ \A i \in 1..Len(rows) : rows'[i] = rows[i]
    BY <2>1, AppendedRow
  <2>6. /\ OfKind("call")' = IF "call" = r.kind THEN OfKind("call") \cup {Len(rows) + 1}
                                                ELSE OfKind("call")
        /\ OfKind("cot")' = IF "cot" = r.kind THEN OfKind("cot") \cup {Len(rows) + 1}
                                              ELSE OfKind("cot")
    BY <2>1, AppendedRow
  <2>3. CallRows' = CallRows \cup {L} /\ CotRows' = CotRows
    BY <1>5, <2>6, L = Len(rows) + 1 DEF CallRows, CotRows
  <2>4. CallRows \subseteq 1..Len(rows) /\ CotRows \subseteq 1..Len(rows)
    BY RowsFinite
  <2>5. \A i \in 1..Len(rows) : i < L /\ i \in Nat
    BY <2>2, L = Len(rows) + 1
  <2>7. L \in Nat /\ rows'[L] = r
    BY <2>2, L = Len(rows) + 1
  <2> QED BY <1>5, <2>2, <2>3, <2>4, <2>5, <2>7
<1>7. CallsOf("call")' = CallsOf("call") \cup {batch[f]}
  BY <1>5, AppendedCalls DEF Ledger
<1>8. /\ f \in DOMAIN batch /\ batch[f] \in Range(batch) /\ batch[f] \in Calls
      /\ batch[f] \notin CallsOf("call")
      /\ \A j \in DOMAIN batch : j < f => batch[j] \in CallsOf("call")
      /\ DOMAIN batch \subseteq Nat
  <2>1. batch \in Seq(Calls)
    BY <1>4 DEF InOrder, BatchOnce
  <2> QED BY <1>2, <2>1 DEF Unrecorded, Range
<1>9. \A c : c \in CallsOf("call") <=> \E j \in CallRows : rows[j].calls = {c}
  <2>1. \A j \in CallRows : \E c \in Calls : rows[j].calls = {c}
    BY <1>4 DEF RowsInOrder
  <2> QED BY <2>1 DEF CallsOf, CallRows
<1>10. RowsInOrder'
  <2>1. \A j \in CallRows' : \E c \in Calls : rows'[j].calls = {c}
    BY <1>4, <1>6, <1>8 DEF RowsInOrder
  <2>2. \A j, k \in CallRows' : rows'[j].calls = rows'[k].calls => j = k
    BY <1>4, <1>6, <1>8, <1>9 DEF RowsInOrder
  <2>3. \A i \in CotRows' : \E j \in CallRows' : j < i /\ rows'[j].calls = rows'[i].calls
    BY <1>4, <1>6 DEF RowsInOrder
  <2>4. \A i \in CotRows : rows[i].calls # {batch[f]}
    BY <1>4, <1>8, <1>9 DEF RowsInOrder
  <2>5. \A i, k \in CotRows', a, b \in CallRows' :
           i < k /\ rows'[a].calls = rows'[i].calls /\ rows'[b].calls = rows'[k].calls
             => a < b \/ (a = b /\ rows'[i].n < rows'[k].n)
    BY <1>4, <1>6, <2>4 DEF RowsInOrder
  <2> QED BY <2>1, <2>2, <2>3, <2>5 DEF RowsInOrder
<1>11. BatchOnce'
  BY <1>1, <1>4 DEF InOrder, BatchOnce
<1>12. BatchInOrder'
  <2> SUFFICES ASSUME NEW i \in DOMAIN batch, NEW k \in DOMAIN batch, NEW b \in CallRows',
                      i < k, rows'[b].calls = {batch[k]}
               PROVE  \E a \in CallRows' : a < b /\ rows'[a].calls = {batch[i]}
    BY <1>1 DEF BatchInOrder
  <2>1. CASE b = L
    <3>1. k = f
      BY <1>4, <1>6, <1>8, <2>1 DEF InOrder, BatchOnce, IsInjective
    <3>2. PICK a \in CallRows : rows[a].calls = {batch[i]}
      BY <1>8, <1>9, <3>1
    <3> QED BY <1>6, <2>1, <3>2
  <2>2. CASE b # L
    <3>1. b \in CallRows /\ rows[b].calls = {batch[k]}
      BY <1>6, <2>2
    <3>2. PICK a \in CallRows : a < b /\ rows[a].calls = {batch[i]}
      BY <1>1, <1>4, <3>1 DEF InOrder, BatchInOrder
    <3> QED BY <1>6, <3>2
  <2> QED BY <2>1, <2>2
<1>13. EventsBefore'
  <2>1. Emitting
    BY <1>1 DEF Emitting
  <2> QED BY <1>1, <1>4, <1>6, <2>1 DEF InOrder, EventsBefore
<1>14. AliveInBatch'
  <2>1. pc # "tools"
    BY <1>1 DEF Recording
  <2> QED BY <1>1, <1>3, <2>1, NoneAlive DEF AliveInBatch
<1>15. RowsStarted'
  BY <1>1, <1>3, <1>4, <1>7, <1>8 DEF InOrder, RowsStarted
<1>16. Waiting' /\ WaitingLater'
  <2>1. pending = {} /\ pending' = {}
    BY <1>1, <1>3, <1>4 DEF InOrder, Waiting
  <2>2. Events' = Events
    BY <1>1, <1>6 DEF Events
  <2> QED BY <1>4, <1>6, <2>1, <2>2 DEF InOrder, Waiting, WaitingLater
<1> QED BY <1>10, <1>11, <1>12, <1>13, <1>14, <1>15, <1>16 DEF Orderly, InOrder

(* The event whose row is written is the first of those that wait.          *)
LEMMA AppendCotOrderly ==
    ASSUME Ledger, Orderly, AppendCot
    PROVE  Orderly'
<1>1. /\ pc = "committing" /\ pc' = "committed"
      /\ UNCHANGED <<batch, tool>>
  BY DEF AppendCot
<1>2. PICK e \in FirstPending : /\ Append1(Row("cot", {e.call}, e.n))
                                /\ pending' = pending \ {e}
  BY DEF AppendCot
<1>3. /\ ~ Over /\ Committing /\ Committing' /\ ~ Preparing /\ ~ Closing /\ Executing
      /\ ~ Emitting' /\ ~ Over'
  BY <1>1 DEF Over, Committing, Preparing, Closing, Entering, Executing, Emitting, Recording
<1>4. RowsInOrder /\ InOrder /\ Range(batch) \subseteq CallsOf("call")
  BY <1>3 DEF Orderly, Ledger
<1> PICK L : L = Len(rows) + 1
  OBVIOUS
<1> PICK r : r = Row("cot", {e.call}, e.n) /\ Append1(r)
  BY <1>2
<1>5. r.kind = "cot" /\ r.calls = {e.call} /\ r.n = e.n
  BY r = Row("cot", {e.call}, e.n) DEF Row
<1>6. /\ CallRows' = CallRows /\ CotRows' = CotRows \cup {L}
      /\ rows'[L].calls = {e.call} /\ rows'[L].n = e.n
      /\ \A i \in CallRows \cup CotRows : rows'[i] = rows[i] /\ i < L /\ i \in Nat
      /\ L \in Nat
  <2>1. RowsAreSequence
    BY DEF Ledger
  <2>2. /\ Len(rows) \in Nat /\ rows'[Len(rows) + 1] = r
        /\ \A i \in 1..Len(rows) : rows'[i] = rows[i]
    BY <2>1, AppendedRow
  <2>6. /\ OfKind("call")' = IF "call" = r.kind THEN OfKind("call") \cup {Len(rows) + 1}
                                                ELSE OfKind("call")
        /\ OfKind("cot")' = IF "cot" = r.kind THEN OfKind("cot") \cup {Len(rows) + 1}
                                              ELSE OfKind("cot")
    BY <2>1, AppendedRow
  <2>3. CallRows' = CallRows /\ CotRows' = CotRows \cup {L}
    BY <1>5, <2>6, L = Len(rows) + 1 DEF CallRows, CotRows
  <2>4. CallRows \subseteq 1..Len(rows) /\ CotRows \subseteq 1..Len(rows)
    BY RowsFinite
  <2>5. \A i \in 1..Len(rows) : i < L /\ i \in Nat
    BY <2>2, L = Len(rows) + 1
  <2>7. L \in Nat /\ rows'[L] = r
    BY <2>2, L = Len(rows) + 1
  <2> QED BY <1>5, <2>2, <2>3, <2>4, <2>5, <2>7
<1>7. CallsOf("call")' = CallsOf("call")
  BY <1>5, AppendedCalls DEF Ledger
<1>8. e \in pending /\ e.call \in Range(batch) /\ e.n \in 1..Events
  BY <1>2, <1>4 DEF FirstPending, InOrder, Waiting
<1>9. PICK c \in CallRows : rows[c].calls = {e.call}
  BY <1>4, <1>8 DEF CallsOf, CallRows, RowsInOrder
<1>10. RowsInOrder'
  <2>1. \A j \in CallRows' : \E d \in Calls : rows'[j].calls = {d}
    BY <1>4, <1>6 DEF RowsInOrder
  <2>2. \A j, k \in CallRows' : rows'[j].calls = rows'[k].calls => j = k
    BY <1>4, <1>6 DEF RowsInOrder
  <2>3. ASSUME NEW i \in CotRows'
        PROVE  \E j \in CallRows' : j < i /\ rows'[j].calls = rows'[i].calls
    <3>1. CASE i = L
      BY <1>6, <1>9, <3>1
    <3>2. CASE i # L
      <4>1. i \in CotRows /\ rows'[i] = rows[i]
        BY <1>6, <3>2
      <4>2. PICK j \in CallRows : j < i /\ rows[j].calls = rows[i].calls
        BY <1>4, <4>1 DEF RowsInOrder
      <4>3. rows'[j] = rows[j] /\ j \in CallRows'
        BY <1>6
      <4> QED BY <4>1, <4>2, <4>3
    <3> QED BY <3>1, <3>2
  <2>4. \A i \in CotRows, a, b \in CallRows :
           rows[a].calls = rows[i].calls /\ rows[b].calls = {e.call}
              => a < b \/ (a = b /\ rows[i].n < e.n)
    BY <1>4, <1>8 DEF InOrder, WaitingLater
  <2>5. ASSUME NEW i \in CotRows', NEW k \in CotRows', NEW a \in CallRows', NEW b \in CallRows',
               i < k, rows'[a].calls = rows'[i].calls, rows'[b].calls = rows'[k].calls
        PROVE  a < b \/ (a = b /\ rows'[i].n < rows'[k].n)
    <3>1. i \in CotRows
      BY <1>6, <2>5
    <3>2. rows'[a] = rows[a] /\ rows'[b] = rows[b] /\ rows'[i] = rows[i]
      BY <1>6, <3>1
    <3>3. CASE k = L
      BY <1>6, <2>4, <2>5, <3>1, <3>2, <3>3
    <3>4. CASE k # L
      <4>1. k \in CotRows /\ rows'[k] = rows[k]
        BY <1>6, <3>4
      <4> QED BY <1>4, <1>6, <2>5, <3>1, <3>2, <4>1 DEF RowsInOrder
    <3> QED BY <3>3, <3>4
  <2> QED BY <2>1, <2>2, <2>3, <2>5 DEF RowsInOrder
<1>11. BatchInOrder'
  <2>0. batch' = batch
    BY <1>1
  <2> SUFFICES ASSUME NEW i \in DOMAIN batch', NEW k \in DOMAIN batch', NEW b \in CallRows',
                      i < k, rows'[b].calls = {batch'[k]}
               PROVE  \E a \in CallRows' : a < b /\ rows'[a].calls = {batch'[i]}
    BY DEF BatchInOrder
  <2>1. b \in CallRows /\ rows'[b] = rows[b]
    BY <1>6
  <2>2. PICK a \in CallRows : a < b /\ rows[a].calls = {batch[i]}
    <3>1. rows[b].calls = {batch[k]}
      BY ONLY <2>0, <2>1, rows'[b].calls = {batch'[k]}
    <3> QED BY ONLY <1>3, <1>4, <2>1, <3>1, i < k,
               i \in DOMAIN batch', k \in DOMAIN batch', <2>0
            DEF InOrder, BatchInOrder
  <2> QED BY <1>6, <2>0, <2>2
<1>11a. BatchOnce' /\ EventsBefore'
  BY <1>1, <1>3, <1>4 DEF InOrder, BatchOnce, EventsBefore
<1>12. AliveInBatch'
  BY <1>1, <1>3, NoneAlive DEF AliveInBatch
<1>13. RowsStarted'
  BY <1>1, <1>3, <1>4, <1>7 DEF InOrder, RowsStarted
<1>14. Waiting'
  <2>1. /\ IsFiniteSet(pending')
        /\ Cardinality(pending') = Cardinality(pending) - 1
        /\ Cardinality(pending) \in Nat
    BY <1>2, <1>4, <1>8, FS_RemoveElement, FS_CardinalityType DEF InOrder, Waiting
  <2>2. Cardinality(CotRows') = Cardinality(CotRows) + 1 /\ Cardinality(CotRows) \in Nat
    <3>1. IsFiniteSet(CotRows) /\ Cardinality(CotRows) \in Nat /\ L \notin CotRows
      BY <1>6, RowsFinite
    <3> QED BY <1>6, <3>1, FS_AddElement
  <2>3. Events' = Events
    BY <2>1, <2>2 DEF Events
  <2>4. \A i \in CotRows' : rows'[i].n \in 1..Events
    BY <1>4, <1>6, <1>8 DEF InOrder, Waiting
  <2> QED BY <1>1, <1>2, <1>3, <1>4, <2>1, <2>3, <2>4 DEF InOrder, Waiting
<1>15. WaitingLater'
  <2> SUFFICES ASSUME NEW d \in pending', NEW i \in CotRows', NEW a \in CallRows',
                      NEW b \in CallRows',
                      rows'[a].calls = rows'[i].calls, rows'[b].calls = {d.call}
               PROVE  a < b \/ (a = b /\ rows'[i].n < d.n)
    BY DEF WaitingLater
  <2>1. d \in pending /\ d # e /\ d.call \in Range(batch) /\ d.n \in 1..Events
    BY <1>2, <1>4 DEF InOrder, Waiting
  <2>2. a \in CallRows /\ b \in CallRows /\ rows'[a] = rows[a] /\ rows'[b] = rows[b]
        /\ a \in Nat /\ b \in Nat
    BY <1>6
  <2>3. CASE i # L
    <3>1. i \in CotRows /\ rows'[i] = rows[i]
      BY <1>6, <2>3
    <3> QED BY <1>4, <2>1, <2>2, <3>1 DEF InOrder, WaitingLater
  <2>4. CASE i = L
    <3>1. rows[a].calls = {e.call} /\ rows[b].calls = {d.call} /\ rows'[i].n = e.n
      BY <1>6, <2>2, <2>4
    <3>2. PICK p, q : /\ p = (CHOOSE m \in DOMAIN batch : batch[m] = e.call)
                      /\ q = (CHOOSE m \in DOMAIN batch : batch[m] = d.call)
      OBVIOUS
    <3>3. p \in DOMAIN batch /\ batch[p] = e.call /\ q \in DOMAIN batch /\ batch[q] = d.call
      BY <1>8, <2>1, <3>2 DEF Range
    <3>4. p < q \/ (p = q /\ e.n <= d.n)
      BY <1>2, <2>1, <3>2, Zenon DEF FirstPending
    <3>5. CASE p < q
      <4>0. rows[b].calls = {batch[q]} /\ rows[a].calls = {batch[p]}
        BY ONLY <3>1, <3>3
      <4>1. PICK m \in CallRows : m < b /\ rows[m].calls = {batch[p]}
        BY ONLY <1>3, <1>4, <2>2, <3>3, <3>5, <4>0 DEF InOrder, BatchInOrder
      <4>2. rows[m].calls = rows[a].calls
        BY ONLY <4>0, <4>1
      <4>3. m = a
        BY ONLY <1>4, <2>2, <4>1, <4>2 DEF RowsInOrder
      <4> QED BY <4>1, <4>3
    <3>6. CASE p = q /\ e.n <= d.n
      <4>0. rows[a].calls = rows[b].calls
        BY ONLY <3>1, <3>3, <3>6
      <4>1. a = b
        BY ONLY <1>4, <2>2, <4>0 DEF RowsInOrder
      <4>2. e.n # d.n
        BY <1>4, <1>8, <2>1 DEF InOrder, Waiting
      <4>3. e.n \in Int /\ d.n \in Int
        BY <1>8, <2>1
      <4> QED BY ONLY <3>1, <3>6, <4>1, <4>2, <4>3
    <3> QED BY <3>4, <3>5, <3>6
  <2> QED BY <2>3, <2>4
<1> QED BY <1>10, <1>11, <1>12, <1>13, <1>14, <1>15, <1>11a DEF Orderly, InOrder

(* A new event has the highest number, and its call a row behind all events. *)
LEMMA EmitOrderly ==
    ASSUME Ledger, Orderly, NEW c \in Calls, EmitCot(c)
    PROVE  Orderly'
<1>1. /\ pc = "tools" /\ tool[c] \in {"running", "stopping"}
      /\ UNCHANGED <<turn, pc, batch, tool, rows>>
  BY DEF EmitCot
<1>2. /\ ~ Over /\ Committing' /\ Emitting /\ Executing /\ Over' = Over
      /\ Preparing' = Preparing /\ Closing' = Closing /\ Recording' = Recording
      /\ Executing' = Executing /\ Emitting' = Emitting
  BY <1>1 DEF Over, Committing, Preparing, Closing, Entering, Executing, Emitting, Recording
<1>3. RowsInOrder /\ InOrder
  BY <1>2 DEF Orderly
<1>4. SameCallsAndCots
  BY <1>1, OtherRows
<1>5. c \in Range(batch)
  BY <1>1, <1>3 DEF InOrder, AliveInBatch, Alive
<1> DEFINE e == [call |-> c, n |-> Events + 1]
<1>6. pending' = pending \cup {e}
  BY DEF EmitCot, Events, CotRows
<1>7. e.call = c /\ e.n = Events + 1
  OBVIOUS
<1> HIDE DEF e
<1>8. /\ Events \in Nat /\ Events' = Events + 1
      /\ IsFiniteSet(pending') /\ e \notin pending
  <2>1. IsFiniteSet(pending) /\ Cardinality(pending) \in Nat /\ Cardinality(CotRows) \in Nat
    BY <1>3, RowsFinite, FS_CardinalityType DEF InOrder, Waiting
  <2>2. Events \in Nat
    BY <2>1 DEF Events
  <2>3. e \notin pending
    BY <1>3, <1>7, <2>2 DEF InOrder, Waiting
  <2>4. IsFiniteSet(pending') /\ Cardinality(pending') = Cardinality(pending) + 1
    BY <1>6, <2>1, <2>3, FS_AddElement
  <2> QED BY <1>4, <2>1, <2>2, <2>3, <2>4 DEF Events, SameCallsAndCots
<1>9. Waiting'
  <2>1. \A d \in pending : d.call \in Range(batch) /\ d.n \in 1..Events
    BY <1>3 DEF InOrder, Waiting
  <2>2. \A d \in pending' : d.call \in Range(batch) /\ d.n \in 1..(Events + 1)
    BY <1>5, <1>6, <1>7, <1>8, <2>1
  <2>3. \A i \in CotRows' : rows'[i].n \in 1..(Events + 1)
    BY <1>3, <1>4, <1>8 DEF InOrder, Waiting, SameCallsAndCots
  <2>4. \A d, g \in pending' : d.n = g.n => d = g
    BY <1>3, <1>6, <1>7, <1>8, <2>1 DEF InOrder, Waiting
  <2> QED BY <1>1, <1>2, <1>8, <2>2, <2>3, <2>4 DEF Waiting
<1>10. WaitingLater'
  <2> SUFFICES ASSUME NEW d \in pending', NEW i \in CotRows, NEW a \in CallRows,
                      NEW b \in CallRows,
                      rows[a].calls = rows[i].calls, rows[b].calls = {d.call}
               PROVE  a < b \/ (a = b /\ rows[i].n < d.n)
    BY <1>1, <1>4 DEF WaitingLater, SameCallsAndCots
  <2>1. CASE d \in pending
    BY <1>3, <2>1 DEF InOrder, WaitingLater
  <2>2. CASE d = e
    <3>1. PICK k \in DOMAIN batch : batch[k] = c
      BY <1>5 DEF Range
    <3>2. i < b
      BY <1>2, <1>3, <1>7, <2>2, <3>1 DEF InOrder, EventsBefore
    <3>3. PICK j \in CallRows : j < i /\ rows[j].calls = rows[i].calls
      BY <1>3 DEF RowsInOrder
    <3>4. j = a
      BY <1>3, <3>3 DEF RowsInOrder
    <3>5. a \in Int /\ b \in Int /\ i \in Int
      BY RowsFinite
    <3> QED BY ONLY <3>2, <3>3, <3>4, <3>5
  <2> QED BY <1>6, <2>1, <2>2
<1>11. RowsInOrder' /\ BatchOnce' /\ BatchInOrder' /\ EventsBefore'
  <2>1. RowsInOrder'
    BY <1>3, <1>4, RowsStayInOrder
  <2>2. CallRows' = CallRows /\ CotRows' = CotRows
    BY <1>4 DEF SameCallsAndCots
  <2>3. BatchOnce'
    BY <1>1, <1>3 DEF InOrder, BatchOnce
  <2>4. BatchInOrder'
    BY <1>1, <1>2, <1>3, <2>2 DEF InOrder, BatchInOrder
  <2>5. EventsBefore'
    BY <1>1, <1>2, <1>3, <2>2 DEF InOrder, EventsBefore
  <2> QED BY <2>1, <2>3, <2>4, <2>5
<1>12. AliveInBatch' /\ RowsStarted'
  BY <1>1, <1>2, <1>3, <1>4 DEF InOrder, AliveInBatch, RowsStarted, SameCallsAndCots
<1> QED BY <1>9, <1>10, <1>11, <1>12 DEF Orderly, InOrder

(* Beside the pipeline: tools and interrupts change what becomes of calls,   *)
(* and never bring one back to life.                                        *)
LEMMA BesideOrderly ==
    ASSUME Ledger, Orderly, UNCHANGED <<rows, batch, pending>>,
           pc' = pc, turn'.goal = turn.goal,
           \A c \in Calls : /\ tool'[c] \in Alive => tool[c] \in Alive
                            /\ tool[c] # "idle" => tool'[c] # "idle"
    PROVE  Orderly'
<1>1. SameCallsAndCots
  BY OtherRows
<1>2. /\ Over' = Over /\ Committing' = Committing /\ Preparing' = Preparing
      /\ Closing' = Closing /\ Recording' = Recording
      /\ Executing' = Executing /\ Emitting' = Emitting
  BY DEF Over, Committing, Preparing, Closing, Entering, Executing, Emitting, Recording
<1>3. CASE Over
  BY <1>1, <1>2, <1>3, OverInOrder
<1>4. CASE ~ Over
  <2>1. InOrder /\ CallsOf("call") \subseteq Calls
    BY <1>4 DEF Orderly, Ledger
  <2>2. AliveInBatch'
    BY <2>1 DEF InOrder, AliveInBatch
  <2>3. RowsStarted'
    BY <1>1, <1>2, <2>1 DEF InOrder, RowsStarted, SameCallsAndCots
  <2>4. ~ Committing' => pending = {}
    BY <1>2, <2>1 DEF InOrder, Waiting
  <2> QED BY <1>1, <1>2, <1>4, <2>2, <2>3, <2>4, StaysInOrder
<1> QED BY <1>3, <1>4

LEMMA ToldAlive ==
    ASSUME NEW t, NEW c \in Calls
    PROVE  /\ Told(t)[c] \in Alive => tool[c] \in Alive
           /\ tool[c] # "idle" => Told(t)[c] # "idle"
BY DEF Told, Alive

(* One call goes on: it was alive, or is not now.                           *)
LEMMA OneGoesOn ==
    ASSUME Ledger, Orderly, Heard, UNCHANGED <<rows, batch, pending, pc>>,
           turn'.goal = turn.goal, NEW c \in Calls, tool[c] \in Alive,
           NEW status \in ToolStatuses \ {"idle"}, SetTool(c, status)
    PROVE  Orderly'
<1>1. tool' = [tool EXCEPT ![c] = status] /\ tool \in [Calls -> ToolStatuses]
  BY DEF SetTool, Heard
<1>2. \A d \in Calls : tool'[d] = IF d = c THEN status ELSE tool[d]
  BY <1>1
<1>3. \A d \in Calls : /\ tool'[d] \in Alive => tool[d] \in Alive
                       /\ tool[d] # "idle" => tool'[d] # "idle"
  BY <1>2
<1> QED BY <1>3, BesideOrderly

(* A call that throws was alive, so the turn is over, or is over now.       *)
LEMMA ThrowsOrderly ==
    ASSUME Ledger, Orderly, UNCHANGED <<rows, batch, pending>>,
           NEW c \in Calls, tool[c] \in Alive, NEW t, NEW b, Throws(c, t, b)
    PROVE  Orderly'
<1>1. Over'
  <2>1. CASE pc = "tools"
    BY <2>1 DEF Throws, Fail, Over
  <2>2. CASE pc # "tools"
    <3>1. Over
      BY <2>2, NoneAlive
    <3> QED BY <2>2, <3>1 DEF Throws, Over
  <2> QED BY <2>1, <2>2
<1> QED BY <1>1, OtherRows, OverInOrder

LEMMA ToolsOrderly ==
    ASSUME Ledger, Orderly, Heard, NEW c \in Calls,
           \/ ToolStep(c) \/ ToolFails(c) \/ ToolChecks(c) \/ EmitCot(c)
           \/ QuestionAnswered(c) \/ ToolFault(c)
    PROVE  Orderly'
<1> USE DEF work
<1>1. CASE ToolStarts(c) \/ ToolFails(c) \/ ProcessEnds(c) \/ ToolCancelled(c)
  <2>1. /\ UNCHANGED <<rows, batch, pending, pc, turn>> /\ tool[c] \in Alive
        /\ \E status \in ToolStatuses \ {"idle"} : SetTool(c, status)
    BY <1>1 DEF ToolStarts, ToolFails, ProcessEnds, ToolCancelled, ByKind, ToolStatuses, Alive
  <2> QED BY <2>1, OneGoesOn
<1>2. CASE ToolThrows(c)
  <2>1. UNCHANGED <<rows, batch, pending>> /\ tool[c] \in Alive /\ Throws(c, Stopped, TRUE)
    BY <1>2 DEF ToolThrows, Alive
  <2> QED BY <2>1, ThrowsOrderly
<1>3. CASE ToolChecks(c)
  <2>1. /\ UNCHANGED <<rows, batch, pending, pc>> /\ tool[c] \in Alive
        /\ turn' = Stopped /\ tool' = [Told(Stopped) EXCEPT ![c] = "stopping"]
    BY <1>3 DEF ToolChecks, Alive
  <2>2. turn'.goal = turn.goal
    BY <2>1, StoppedFacts DEF Ledger
  <2>3. \A d \in Calls : tool'[d] = IF d = c THEN "stopping" ELSE Told(Stopped)[d]
    BY <2>1 DEF Told
  <2>4. \A d \in Calls : /\ tool'[d] \in Alive => tool[d] \in Alive
                         /\ tool[d] # "idle" => tool'[d] # "idle"
    BY <2>1, <2>3, ToldAlive
  <2> QED BY <2>1, <2>2, <2>4, BesideOrderly
<1>4. CASE EmitCot(c)
  BY <1>4, EmitOrderly
<1>5. CASE QuestionAnswered(c)
  <2>1. UNCHANGED <<rows, batch, pending>> /\ tool[c] \in Alive
    BY <1>5 DEF QuestionAnswered, Alive
  <2>2. CASE Throws(c, Stopped, TRUE)
    BY <2>1, <2>2, ThrowsOrderly
  <2>3. CASE SetTool(c, "ended") /\ UNCHANGED <<turn, pc>>
    BY <2>1, <2>3, OneGoesOn DEF ToolStatuses
  <2> QED BY <1>5, <2>2, <2>3 DEF QuestionAnswered
<1>6. CASE ToolFault(c)
  <2>1. UNCHANGED <<rows, batch, pending>> /\ tool[c] \in Alive
    BY <1>6 DEF ToolFault, Alive
  <2>2. CASE Throws(c, turn, FALSE)
    BY <2>1, <2>2, ThrowsOrderly
  <2>3. CASE SetTool(c, "stopping") /\ UNCHANGED <<turn, pc>>
    BY <2>1, <2>3, OneGoesOn DEF ToolStatuses
  <2> QED BY <1>6, <2>2, <2>3 DEF ToolFault
<1> QED BY <1>1, <1>2, <1>3, <1>4, <1>5, <1>6 DEF ToolStep

LEMMA InterruptsOrderly ==
    ASSUME Ledger, Orderly, NEW x \in Interrupts, IntAccept(x) \/ IntRequest(x) \/ IntRuntime(x)
    PROVE  Orderly'
<1>1. UNCHANGED <<rows, batch, pending, pc>>
  BY DEF IntAccept, IntRequest, IntRuntime, work
<1>2. turn \in Turns
  BY DEF Ledger
<1>3. turn' \in {turn, Interrupted} /\ tool' \in {tool, Told(Interrupted)}
  BY DEF IntAccept, IntRequest, IntRuntime
<1>4. turn'.goal = turn.goal
  BY <1>2, <1>3, InterruptedFacts
<1>5. \A c \in Calls : /\ tool'[c] \in Alive => tool[c] \in Alive
                       /\ tool[c] # "idle" => tool'[c] # "idle"
  BY <1>3, ToldAlive
<1> QED BY <1>1, <1>4, <1>5, BesideOrderly

LEMMA StepOrderly ==
    ASSUME Ledger, Heard, Orderly, [Next]_vars
    PROVE  Orderly'
<1>1. CASE UNCHANGED vars
  BY <1>1, BesideOrderly DEF vars
<1>2. CASE Pipeline \/ HookStops \/ ModelAnswers \/ ModelCalls \/ ModelChecks \/ TurnFault
  BY <1>2, CheckOrderly, EntersOrderly, EndsOrderly, GoesOrderly, ToolsBetween,
     ModelCallsOrderly, ResumeOrderly, RecordCallOrderly, AppendCotOrderly DEF Pipeline
<1>3. CASE \E c \in Calls :
              \/ ToolStep(c) \/ ToolFails(c) \/ ToolChecks(c) \/ EmitCot(c)
              \/ QuestionAnswered(c) \/ ToolFault(c)
  BY <1>3, ToolsOrderly
<1>4. CASE \E x \in Interrupts : IntAccept(x) \/ IntRequest(x) \/ IntRuntime(x)
  BY <1>4, InterruptsOrderly
<1> QED BY <1>1, <1>2, <1>3, <1>4 DEF Next

LEMMA InitOrderly == Init => Orderly
<1> SUFFICES ASSUME Init PROVE Orderly
  OBVIOUS
<1>1. CallRows = {} /\ CotRows = {} /\ CallsOf("call") = {}
  BY DEF Init, CallRows, CotRows, OfKind, CallsOf
<1>2. pending = {} /\ batch = << >> /\ IsFiniteSet({})
  BY FS_EmptySet DEF Init
<1>3. RowsInOrder
  BY <1>1 DEF RowsInOrder
<1>4. BatchOnce /\ BatchInOrder /\ EventsBefore
  BY <1>1, <1>2 DEF BatchOnce, IsInjective, BatchInOrder, EventsBefore
<1>5. AliveInBatch /\ RowsStarted
  BY <1>1 DEF AliveInBatch, RowsStarted, Init, Alive
<1>6. Waiting /\ WaitingLater
  BY <1>1, <1>2 DEF Waiting, WaitingLater
<1> QED BY <1>3, <1>4, <1>5, <1>6 DEF Orderly, InOrder

(* However the processes of a batch ran side by side, and whatever stopped   *)
(* them, the cot_work rows are in the order of the calls, and within a call  *)
(* in that of its events.                                                   *)
THEOREM CotWorkInOrder == Spec => []CotInOrder
<1>1. Init => Heard
  BY DEF Init, Heard, Turns, Phases, ToolStatuses, AbortReachesTools
<1>2. Ledger /\ Heard /\ Orderly /\ [Next]_vars => Ledger' /\ Heard' /\ Orderly'
  BY StepKept, StepHears, StepOrderly DEF Kept
<1>3. Ledger /\ Orderly => CotInOrder
  <2> SUFFICES ASSUME Ledger, Orderly PROVE CotInOrder
    OBVIOUS
  <2>1. RowsInOrder
    BY DEF Orderly
  <2> DEFINE CallAt(i) == CHOOSE j \in OfKind("call") : rows[j].calls = rows[i].calls
  <2>2. ASSUME NEW i \in CotRows
        PROVE  CallAt(i) \in CallRows /\ rows[CallAt(i)].calls = rows[i].calls
    <3>1. \E j \in OfKind("call") : rows[j].calls = rows[i].calls
      BY <2>1 DEF RowsInOrder, CallRows
    <3> QED BY <3>1, Zenon DEF CallRows
  <2> HIDE DEF CallAt
  <2>3. \A i, j \in CotRows :
           i < j => CallAt(i) < CallAt(j) \/ (CallAt(i) = CallAt(j) /\ rows[i].n < rows[j].n)
    BY <2>1, <2>2 DEF RowsInOrder
  <2> QED BY <2>3 DEF CotInOrder, CotRows, CallAt
<1> QED BY <1>1, <1>2, <1>3, InitLedger, InitOrderly, PTL DEF Spec
=============================================================================
