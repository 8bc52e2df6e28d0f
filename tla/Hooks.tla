-------------------------------- MODULE Hooks --------------------------------
(***************************************************************************)
(* The hook events of one turn.  At each event the executors of the plan   *)
(* run one after the other: the code's own first, then those of hook.json, *)
(* which are processes.  An executor sees the turn as the executors before *)
(* it left it, and returns an effect; the turn goes on with all effects of *)
(* the event merged into one.  Both are written out field by field, in two *)
(* places: what executors are shown (Show) and what the turn takes (Merge, *)
(* Taken) should be the same.                                              *)
(*                                                                         *)
(* A text is the markers it carries and a body; every value a hook puts in *)
(* place of another is a number of its own.  Rows, tools and the stream of *)
(* the model are in TurnLoop, ToolProcess and ModelCall.                   *)
(***************************************************************************)
EXTENDS Naturals, Sequences

CONSTANTS
    None,           \* an absent field, an empty text
    Inputs,         \* request texts: [marks, body]
    UserHooks,      \* executors of hook.json at each event
    MaxIterations,  \* runtime.maxModelIterations
    RewriterLimit,  \* REWRITER_MAX_ITERATIONS, 8
    MaxEffects      \* bound: effects other than noeffect in the turn

Marks == {"thinking", "skill", "rewriter"}

\* The texts of the requests and those the hooks put in their place.
Bodies == {t.body : t \in Inputs} \cup 0..MaxEffects \cup {None}
Texts == [marks : SUBSET Marks, body : Bodies]

InputsAssumption == Inputs \subseteq Texts
LimitsAssumption == {UserHooks, MaxIterations, RewriterLimit, MaxEffects} \subseteq Nat
NoneAssumption == None \notin Nat /\ None \notin Texts

VARIABLES
    event,     \* the hook event the turn is at, or where it is between two
    todo,      \* executors of the event still to run
    effect,    \* the effects of the event so far, merged
    seen,      \* what the next executor is shown
    turn,      \* the state of the turn
    rewrite,   \* model requests of the rewriter while it runs
    effects    \* effects so far; the last is the number of its values

vars == <<event, todo, effect, seen, turn, rewrite, effects>>

NoEffect == [text |-> None, messages |-> None, append |-> <<>>, tools |-> None,
             calls |-> None, results |-> None, final |-> None, cut |-> FALSE,
             compact |-> FALSE, next |-> None, stop |-> FALSE]

NoContext == [text |-> None, messages |-> <<>>, tools |-> None, calls |-> None,
              results |-> None, final |-> None]

SystemPlan ==
    [received   |-> <<"thinking", "skills", "limit", "rewriter">>,
     prepared   |-> <<"reminder", "images">>,
     request    |-> <<"audit">>,
     responding |-> <<"guard">>,
     called     |-> <<>>,
     collected  |-> <<"loop">>,
     end        |-> <<"search", "search", "usage", "cot", "queue">>]

Events == DOMAIN SystemPlan

UserPlan == [i \in 1..UserHooks |-> "user"]

(* Seeded bug: the hooks of hook.json go first.                             *)
PlanUserFirst(e) == UserPlan \o SystemPlan[e]

Plan(e) == SystemPlan[e] \o UserPlan

-----------------------------------------------------------------------------
(* Effects                                                                  *)

Or(new, old) == IF new # None THEN new ELSE old

Merge(m, e) ==
    [text |-> Or(e.text, m.text), messages |-> Or(e.messages, m.messages),
     append |-> m.append \o e.append, tools |-> Or(e.tools, m.tools),
     calls |-> Or(e.calls, m.calls), results |-> Or(e.results, m.results),
     final |-> Or(e.final, m.final), cut |-> m.cut \/ e.cut,
     compact |-> m.compact \/ e.compact, next |-> Or(m.next, e.next),
     stop |-> m.stop \/ e.stop]

(* Seeded bug: the next executor is shown the tools as they were.           *)
ShowKeepingTools(c, e) ==
    [text |-> Or(e.text, c.text), messages |-> Or(e.messages, c.messages) \o e.append,
     tools |-> c.tools, calls |-> Or(e.calls, c.calls),
     results |-> Or(e.results, c.results), final |-> Or(e.final, c.final)]

Show(c, e) ==
    [text |-> Or(e.text, c.text), messages |-> Or(e.messages, c.messages) \o e.append,
     tools |-> Or(e.tools, c.tools), calls |-> Or(e.calls, c.calls),
     results |-> Or(e.results, c.results), final |-> Or(e.final, c.final)]

(* An executor is done: a stop leaves the others of the event out.          *)
Ran(e) ==
    /\ effect' = Merge(effect, e)
    /\ seen' = Show(seen, e)
    /\ todo' = IF e.stop THEN <<>> ELSE Tail(todo)

Running(hook) == todo # <<>> /\ Head(todo) = hook
Same == UNCHANGED <<event, turn>>
Value == effects + 1
Counted == effects < MaxEffects /\ effects' = Value

Begin(e, t) ==
    /\ event' = e
    /\ turn' = t
    /\ todo' = Plan(e)
    /\ effect' = NoEffect
    /\ seen' = [NoContext EXCEPT !.text = t.text, !.messages = t.messages, !.tools = t.tools,
                                 !.calls = t.calls, !.results = t.results]

Init ==
    /\ \E t \in Inputs, q \in BOOLEAN :
         turn = [text |-> t, messages |-> <<0>>, tools |-> 0, calls |-> None, results |-> None,
                 final |-> None, iter |-> 0, queued |-> q, claimed |-> FALSE, next |-> None,
                 row |-> None, answered |-> FALSE, stopped |-> FALSE]
    /\ event = "loading"
    /\ todo = <<>>
    /\ effect = NoEffect
    /\ seen = NoContext
    /\ rewrite = 0
    /\ effects = 0

(* loadNDXHookRuntime: a hook.json that is no plan ends the turn before it  *)
(* has a row.                                                               *)
Load ==
    /\ event = "loading"
    /\ \/ Begin("received", turn)
       \/ event' = "refused" /\ UNCHANGED <<todo, effect, seen, turn>>
    /\ UNCHANGED <<rewrite, effects>>

-----------------------------------------------------------------------------
(* The system hooks                                                         *)

Text(marks, body) == [marks |-> marks, body |-> body]
Blank(t) == t.marks = {} /\ t.body = None

Thinking ==
    /\ Running("thinking")
    /\ Ran([NoEffect EXCEPT !.text = Text(seen.text.marks \ {"thinking"}, seen.text.body)])
    /\ UNCHANGED <<event, turn, rewrite, effects>>

(* $name takes the place of a skill marker.  A skill that cannot be loaded  *)
(* ends the turn; an error (the row of the skill) leaves the marker.        *)
SkillText == Text(seen.text.marks \ {"skill"},
                  IF "skill" \in seen.text.marks THEN Or(seen.text.body, 0) ELSE seen.text.body)

Skills ==
    /\ Running("skills")
    /\ \/ Ran([NoEffect EXCEPT !.text = SkillText]) /\ UNCHANGED effects
       \/ /\ "skill" \in seen.text.marks
          /\ Counted
          /\ \/ Ran([NoEffect EXCEPT !.text = SkillText, !.final = Value, !.stop = TRUE])
             \/ Ran(NoEffect)
    /\ UNCHANGED <<event, turn, rewrite>>

ContextLimit ==
    /\ Running("limit")
    /\ \/ Ran(NoEffect) /\ UNCHANGED effects
       \/ Counted /\ Ran([NoEffect EXCEPT !.compact = TRUE])
    /\ UNCHANGED <<event, turn, rewrite>>

(* rewriterMarkerHook, before its model requests.                           *)
Original ==
    Text({}, IF "skill" \in seen.text.marks THEN Or(seen.text.body, 0) ELSE seen.text.body)

RewriterStarts ==
    /\ Running("rewriter")
    /\ rewrite = 0
    /\ CASE "rewriter" \notin seen.text.marks ->
              Ran([NoEffect EXCEPT !.text = seen.text]) /\ rewrite' = 0
         [] "rewriter" \in seen.text.marks /\ Blank(Original) ->
              Ran([NoEffect EXCEPT !.text = Original]) /\ rewrite' = 0
         [] OTHER -> rewrite' = 1 /\ UNCHANGED <<todo, effect, seen>>
    /\ UNCHANGED <<event, turn, effects>>

(* Seeded bug: the iterations are not counted.                              *)
RewriterToolsUncounted ==
    /\ Running("rewriter")
    /\ rewrite \in 1..RewriterLimit
    /\ rewrite' = IF rewrite = 1 THEN 2 ELSE 1
    /\ UNCHANGED <<event, todo, effect, seen, turn, effects>>

(* The model calls tools, and is asked again; after the last iteration it   *)
(* is asked without tools.                                                  *)
RewriterTools ==
    /\ Running("rewriter")
    /\ rewrite \in 1..RewriterLimit
    /\ rewrite' = rewrite + 1
    /\ UNCHANGED <<event, todo, effect, seen, turn, effects>>

(* Seeded bug: a failure leaves the request as it is.                       *)
RewriterAnswersRaw ==
    /\ Running("rewriter")
    /\ rewrite > 0
    /\ \/ Counted /\ Ran([NoEffect EXCEPT !.text = Text({}, Value)])
       \/ Ran(NoEffect) /\ UNCHANGED effects
    /\ rewrite' = 0
    /\ Same

(* The rewritten text, or the original one when there is none or the        *)
(* rewriter fails.                                                          *)
RewriterAnswers ==
    /\ Running("rewriter")
    /\ rewrite > 0
    /\ \/ Counted /\ Ran([NoEffect EXCEPT !.text = Text({}, Value)])
       \/ Ran([NoEffect EXCEPT !.text = Original]) /\ UNCHANGED effects
    /\ rewrite' = 0
    /\ Same

Reminder ==
    /\ Running("reminder")
    /\ \/ Ran(NoEffect) /\ UNCHANGED effects
       \/ turn.iter > 1 /\ Counted /\ Ran([NoEffect EXCEPT !.append = <<Value>>])
    /\ UNCHANGED <<event, turn, rewrite>>

Guard ==
    /\ Running("guard")
    /\ \/ Ran(NoEffect) /\ UNCHANGED effects
       \/ Counted /\ Ran([NoEffect EXCEPT !.cut = TRUE])
    /\ UNCHANGED <<event, turn, rewrite>>

LoopDetection ==
    /\ Running("loop")
    /\ \/ Ran(NoEffect) /\ UNCHANGED effects
       \/ Counted /\ Ran([NoEffect EXCEPT !.final = Value, !.stop = TRUE])
    /\ UNCHANGED <<event, turn, rewrite>>

(* The images are put into the messages in place; the drift audit and the   *)
(* records made at the end of a turn change no field of the turn.           *)
OtherSystem ==
    /\ \E hook \in {"images", "audit", "search", "usage", "cot"} : Running(hook)
    /\ Ran(NoEffect)
    /\ UNCHANGED <<event, turn, rewrite, effects>>

Item == 0  \* the queued request, where the values of hooks are from 1 on

(* The next queued request is claimed for this session.                     *)
QueueHook ==
    /\ Running("queue")
    /\ IF turn.queued
       THEN /\ Ran([NoEffect EXCEPT !.next = Item])
            /\ turn' = [turn EXCEPT !.claimed = TRUE]
       ELSE Ran(NoEffect) /\ UNCHANGED turn
    /\ UNCHANGED <<event, rewrite, effects>>

(* A process prints any effect; one that fails or prints none has none.     *)
UserEffects(n) ==
    {[NoEffect EXCEPT !.text = Text({}, n)], [NoEffect EXCEPT !.messages = <<n>>],
     [NoEffect EXCEPT !.append = <<n>>], [NoEffect EXCEPT !.tools = n],
     [NoEffect EXCEPT !.calls = n], [NoEffect EXCEPT !.results = n],
     [NoEffect EXCEPT !.final = n], [NoEffect EXCEPT !.cut = TRUE],
     [NoEffect EXCEPT !.next = n], [NoEffect EXCEPT !.final = n, !.stop = TRUE],
     [NoEffect EXCEPT !.stop = TRUE]}

UserHook ==
    /\ Running("user")
    /\ \/ Ran(NoEffect) /\ UNCHANGED effects
       \/ Counted /\ \E e \in UserEffects(Value) : Ran(e)
    /\ UNCHANGED <<event, turn, rewrite>>

-----------------------------------------------------------------------------
(* What the turn takes of an event, and its way to the next                 *)

Taken(field) == Or(effect[field], turn[field])

TakenMessages ==
    IF effect.messages # None THEN effect.messages ELSE turn.messages \o effect.append

Done(e) == event = e /\ todo = <<>>

(* The answer is recorded and the session made idle before the end event.   *)
Answer(t, final) == Begin("end", [t EXCEPT !.final = final, !.answered = TRUE])

(* handleTurnFailure: it throws when the text of the turn is empty.         *)
Fails(t) ==
    IF Blank(t.text)
    THEN event' = "broken" /\ turn' = t /\ UNCHANGED <<todo, effect, seen>>
    ELSE Answer(t, "error")

(* Each iteration starts from the messages of the history; the tools are    *)
(* those the last one ended with.                                           *)
Iterate(t) ==
    Begin("prepared", [t EXCEPT !.iter = @ + 1, !.messages = <<0>>, !.calls = None,
                                !.results = None])

Received ==
    /\ Done("received")
    /\ LET t == [turn EXCEPT !.text = Taken("text"), !.row = Taken("text"),
                             !.stopped = effect.stop] IN
       IF effect.stop THEN Answer(t, Or(effect.final, "stopped"))
       ELSE Iterate(t) \/ Fails(t)
    /\ UNCHANGED <<rewrite, effects>>

Prepared ==
    /\ Done("prepared")
    /\ LET t == [turn EXCEPT !.messages = TakenMessages, !.tools = Taken("tools"),
                             !.stopped = effect.stop] IN
       IF effect.stop THEN Answer(t, Or(effect.final, "stopped")) ELSE Begin("request", t)
    /\ UNCHANGED <<rewrite, effects>>

Requested ==
    /\ Done("request")
    /\ Begin("responding", turn)
    /\ UNCHANGED <<rewrite, effects>>

(* The model answers with a text or calls tools, which a request after the  *)
(* last iteration cannot do; a hook may cut it off, and it may fail.        *)
Responded ==
    /\ Done("responding")
    /\ \/ ~ effect.cut /\ Answer(turn, "text")
       \/ ~ effect.cut /\ turn.iter <= MaxIterations /\ Begin("called", [turn EXCEPT !.calls = 0])
       \/ Fails(turn)
    /\ UNCHANGED <<rewrite, effects>>

Called ==
    /\ Done("called")
    /\ LET t == [turn EXCEPT !.calls = Taken("calls"), !.stopped = effect.stop] IN
       IF effect.stop THEN Answer(t, Or(effect.final, "stopped"))
       ELSE Begin("collected", [t EXCEPT !.results = 0]) \/ Fails(t)
    /\ UNCHANGED <<rewrite, effects>>

Collected ==
    /\ Done("collected")
    /\ LET t == [turn EXCEPT !.results = Taken("results"), !.stopped = effect.stop] IN
       IF effect.stop THEN Answer(t, Or(effect.final, "stopped"))
       ELSE Iterate(t) \/ Fails(t)
    /\ UNCHANGED <<rewrite, effects>>

(* runQueuedAgentTurns starts the request of the merged effect.             *)
Ended ==
    /\ Done("end")
    /\ event' = "over"
    /\ turn' = [turn EXCEPT !.next = effect.next]
    /\ UNCHANGED <<todo, effect, seen, rewrite, effects>>

Step ==
    \/ Load \/ Thinking \/ Skills \/ ContextLimit
    \/ RewriterStarts \/ RewriterTools \/ RewriterAnswers
    \/ Reminder \/ Guard \/ LoopDetection \/ OtherSystem \/ QueueHook \/ UserHook
    \/ Received \/ Prepared \/ Requested \/ Responded \/ Called \/ Collected \/ Ended

Over == event \in {"over", "broken", "refused"}

Next == Step \/ (Over /\ UNCHANGED vars)

Spec == Init /\ [][Next]_vars /\ WF_vars(Step)

-----------------------------------------------------------------------------
(* Properties                                                               *)

(* What the turn goes on with after an event is what its last executor left *)
(* behind: the text that becomes the user row (request/index.ts:98), the    *)
(* tools the model is offered (iteration/index.ts:61), the calls that are   *)
(* run (tool-call/index.ts:52), the results that are recorded (215).        *)
AppliedAsSeen ==
    todo = <<>> =>
      /\ event = "received" => Taken("text") = seen.text
      /\ event = "prepared" => Taken("tools") = seen.tools
      /\ event = "called" => Taken("calls") = seen.calls
      /\ event = "collected" => Taken("results") = seen.results
      /\ event \in Events => effect.final = seen.final

(* A queued request that the end of the turn claimed is the one that runs   *)
(* next, whatever the hooks of hook.json ask for at turn.end: its claim     *)
(* would otherwise never be completed or released (turnloop/index.ts:36).   *)
ClaimRuns == event = "over" /\ turn.claimed => turn.next = Item

(* The row of the turn carries no thinking marker, and no rewriter marker   *)
(* unless a hook has stopped the turn, even when the rewriter fails.        *)
MarkersGone ==
    turn.row # None =>
      /\ "thinking" \notin turn.row.marks
      /\ "rewriter" \in turn.row.marks => turn.stopped

(* The hooks of a turn come to an end, the rewriter's own model loop too.   *)
HooksEnd == <>Over

(* docs/session-data.md:17 and 452: a turn ends with a response, an         *)
(* interruption or a failure, and a failure is visible as an assistant row. *)
FailureRecorded == event \in {"over", "broken"} => turn.answered

=============================================================================
