---------------------------- MODULE ContextProofs -----------------------------
(***************************************************************************)
(* The stream of an answer, for any paragraphs, limits and bounds: although *)
(* the map of states outlives the response a state was made for, no         *)
(* response is stopped for the length of another; and whatever the provider *)
(* accepts and sends, and wherever a call is retried or aborted, the pages  *)
(* have been shown the whole answer when the call returns.                  *)
(***************************************************************************)
EXTENDS ContextParts, TLAPS


-----------------------------------------------------------------------------
(* The invariant: what stays in the map has not passed its limit, so what   *)
(* passes it is the summary just told of.                                   *)

States == [seen : Nat, limit : Nat]

Responses ==
    [pc : {"idle", "thinking", "candidate", "stopped", "output"}, summary : Seq(Paragraphs),
     longest : Nat, attempt : {1, 2}, why : Whys, limit : Nat]

Within ==
    /\ settings.limit \in Nat
    /\ turn \in [n : Nat, iteration : 1..Iterations]
    /\ DOMAIN guard = 1..Iterations
    /\ \A i \in 1..Iterations :
          guard[i] # None => guard[i] \in States /\ guard[i].seen <= guard[i].limit
    /\ response \in Responses
    /\ StopsItsOwn

LEMMA InitWithin == Init => Within
<1> SUFFICES ASSUME Init PROVE Within
  OBVIOUS
<1>1. Fresh \in Responses /\ Fresh.why = ""
  BY DEF Fresh, Responses, Whys
<1>2. settings.limit \in Nat
  BY GuardAssumption DEF Init
<1>3. Iterations \in Nat \ {0}
  BY GuardAssumption
<1>4. turn \in [n : Nat, iteration : 1..Iterations]
  BY <1>3 DEF Init
<1> QED BY <1>1, <1>2, <1>4 DEF Init, Within, StopsItsOwn

LEMMA LongerFacts ==
    ASSUME NEW n \in Nat, NEW summary \in Seq(Paragraphs)
    PROVE  /\ Longer(n, summary) \in Nat
           /\ Longer(n, summary) >= n /\ Longer(n, summary) >= Len(summary)
           /\ Longer(n, summary) \in {n, Len(summary)}
BY DEF Longer

(* The state of a response, one the map has or a new one, is within.        *)
LEMMA StateFacts ==
    ASSUME Within
    PROVE  State \in States /\ State.seen <= State.limit
<1>1. CASE guard[Key] = None
  <2>1. State = [seen |-> 0, limit |-> settings.limit]
    BY <1>1 DEF State
  <2> QED BY <2>1 DEF States, Within
<1>2. CASE guard[Key] # None
  BY <1>2 DEF State, Within, Key
<1> QED BY <1>1, <1>2

(* Told of a summary, the guard stops the response or keeps a state that is *)
(* within its limit.                                                        *)
LEMMA ObserveWithin ==
    ASSUME Within, Watching, NEW summary \in Seq(Paragraphs), Observe(summary),
           UNCHANGED <<settings, turn>>
    PROVE  Within'
<1> DEFINE n == Longer(State.seen, summary)
           state == [State EXCEPT !.seen = n]
<1>1. State \in States /\ State.seen <= State.limit
  BY StateFacts
<1>2. n \in Nat /\ n \in {State.seen, Len(summary)} /\ Len(summary) \in Nat
  BY <1>1, LongerFacts DEF States
<1>3. PICK why \in Whys : Answer(summary, state, IF why = "" THEN state ELSE None, why)
  <2>1. state = [State EXCEPT !.seen = Longer(@, summary)]
    BY <1>1 DEF States
  <2> HIDE DEF state
  <2> QED BY <2>1 DEF Observe
<1> HIDE DEF n
<1>4. state \in States /\ state.seen = n /\ state.limit = State.limit
  BY <1>1, <1>2 DEF States
<1> HIDE DEF state
<1> DEFINE kept == IF why = "" THEN state ELSE None
           longest == Longer(response.longest, summary)
           pc == IF why = "" THEN response.pc ELSE "stopped"
<1>5. /\ Verdict(summary, state, why)
      /\ guard' = [guard EXCEPT ![Key] = kept]
      /\ response' = [response EXCEPT !.pc = pc, !.summary = summary, !.why = why,
                                      !.longest = longest, !.limit = state.limit]
  BY <1>3 DEF Answer, Within, Responses
<1>6. longest \in Nat /\ longest >= Len(summary)
  BY LongerFacts DEF Within, Responses
<1>7. pc \in {"idle", "thinking", "candidate", "stopped", "output"}
  BY DEF Within, Responses
<1>8. kept # None => kept \in States /\ kept.seen <= kept.limit
  BY <1>4, <1>5 DEF Verdict
<1> HIDE DEF kept, longest, pc
<1>9. \A i \in 1..Iterations :
         guard'[i] # None => guard'[i] \in States /\ guard'[i].seen <= guard'[i].limit
  BY <1>5, <1>8 DEF Within, Key
<1>10. response' \in Responses
  BY <1>4, <1>5, <1>6, <1>7 DEF Within, Responses, States
<1>11. StopsItsOwn'
  <2>1. response'.why = why /\ response'.longest = longest /\ response'.limit = state.limit
    BY <1>5 DEF Within, Responses
  <2>2. why = "length" => n > State.limit
    BY <1>4, <1>5 DEF Verdict
  <2> QED BY <1>1, <1>2, <1>4, <1>6, <2>1, <2>2 DEF StopsItsOwn, States
<1> QED BY <1>5, <1>9, <1>10, <1>11 DEF Within

LEMMA ReasonWithin ==
    ASSUME Within, Reason
    PROVE  Within'
<1>1. PICK p \in Paragraphs : Observe(Append(response.summary, p))
  BY DEF Reason
<1>2. Append(response.summary, p) \in Seq(Paragraphs)
  BY DEF Within, Responses
<1> QED BY <1>1, <1>2, ObserveWithin DEF Reason

LEMMA OtherWithin ==
    ASSUME Within, Begin \/ Retry \/ Output \/ Finish \/ Edit \/ UNCHANGED vars
    PROVE  Within'
<1> USE DEF Within, StopsItsOwn
<1>0. Fresh \in [pc : {"idle"}, summary : Seq(Paragraphs), longest : Nat, attempt : {1},
                 why : {""}, limit : Nat]
  BY DEF Fresh
<1>1. CASE Begin
  <2>1. PICK pc \in {"thinking", "candidate"} : response' = [Fresh EXCEPT !.pc = pc]
    BY <1>1 DEF Begin
  <2>2. response' \in Responses /\ response'.why = ""
    BY <1>0, <2>1 DEF Responses, Whys
  <2> QED BY <1>1, <2>2 DEF Begin
<1>2. CASE Retry
  <2>1. response' = [response EXCEPT !.summary = << >>, !.attempt = 2]
    BY <1>2 DEF Retry
  <2>2. << >> \in Seq(Paragraphs)
    OBVIOUS
  <2>3. response' \in Responses
    BY <2>1, <2>2 DEF Responses
  <2>4. /\ response'.why = response.why /\ response'.longest = response.longest
        /\ response'.limit = response.limit
    BY <2>1 DEF Responses
  <2> QED BY <1>2, <2>3, <2>4 DEF Retry
<1>3. CASE Output
  <2>1. response' = [response EXCEPT !.pc = "output"]
    BY <1>3 DEF Output
  <2>2. response' \in Responses
    BY <2>1 DEF Responses
  <2>3. /\ response'.why = response.why /\ response'.longest = response.longest
        /\ response'.limit = response.limit
    BY <2>1 DEF Responses
  <2>4. guard' = [guard EXCEPT ![Key] = None] /\ UNCHANGED <<settings, turn>>
    BY <1>3 DEF Output, Forget
  <2> QED BY <2>2, <2>3, <2>4 DEF Key
<1>4. CASE Finish
  <2>1. response' = Fresh /\ UNCHANGED <<settings, guard>>
    BY <1>4 DEF Finish
  <2>2. response' \in Responses /\ response'.why = ""
    BY <1>0, <2>1 DEF Responses, Whys
  <2>3. turn' \in [n : Nat, iteration : 1..Iterations]
    <3>1. Iterations \in Nat \ {0} /\ turn.n \in Nat /\ turn.iteration \in 1..Iterations
      BY GuardAssumption
    <3>2. CASE turn.iteration < Iterations /\ turn' = [turn EXCEPT !.iteration = @ + 1]
      <4> DEFINE k == turn.iteration + 1
      <4>1. k \in 1..Iterations
        BY <3>1, <3>2
      <4>2. turn' = [turn EXCEPT !.iteration = k]
        BY <3>2
      <4> HIDE DEF k
      <4> QED BY <4>1, <4>2
    <3>3. CASE turn' = [n |-> turn.n + 1, iteration |-> 1]
      BY <3>1, <3>3
    <3> QED BY <1>4, <3>2, <3>3 DEF Finish
  <2> QED BY <2>1, <2>2, <2>3
<1>5. CASE Edit
  <2>1. PICK n \in Limits : settings' = [limit |-> n, edits |-> settings.edits + 1]
    BY <1>5 DEF Edit
  <2>2. settings'.limit \in Nat
    BY <2>1, GuardAssumption
  <2> QED BY <1>5, <2>2 DEF Edit
<1>6. CASE UNCHANGED vars
  BY <1>6 DEF vars
<1> QED BY <1>1, <1>2, <1>3, <1>4, <1>5, <1>6

(* However the responses of several turns share the states of the map,      *)
(* which the number of an iteration is the key of, and whatever is edited   *)
(* meanwhile: a response that is stopped for its length is too long itself. *)
THEOREM OwnLengthOnly == Spec => []StopsItsOwn
<1>1. Within /\ [Next]_vars => Within'
  BY ReasonWithin, OtherWithin DEF Next, Over
<1>2. Within => StopsItsOwn
  BY DEF Within
<1> QED BY <1>1, <1>2, InitWithin, PTL DEF Spec

-----------------------------------------------------------------------------
(* The call.  What the dispatcher holds (h) and what the pages show (g):    *)
(* what the content and the reasoning of the answer will be once all of it  *)
(* is shown, and that what is held is later than what is shown.             *)

Content(h, g) == IF h.delta THEN h.content ELSE g.text
Thinking(h, g) == IF h.think THEN h.thought ELSE g.thought

Sound(h, g) ==
    /\ DOMAIN h = {"delta", "content", "candidate", "think", "thought"}
    /\ DOMAIN g = {"text", "thought", "last", "calls"}
    /\ h.delta \in BOOLEAN /\ h.think \in BOOLEAN
    /\ h.content \in Seq(Nat) /\ h.thought \in Nat /\ g.last \in Nat

Ordered(h, g, at) ==
    /\ g.last <= at
    /\ h.delta /\ h.content # << >> => g.last <= M!Last(h.content) /\ M!Last(h.content) <= at
    /\ h.think => g.last <= h.thought /\ h.thought <= at
    /\ ~(h.delta /\ h.think)

Held(o) ==
    /\ DOMAIN o = {"pending", "page", "thrown"} /\ o.thrown \in BOOLEAN
    /\ Sound(o.pending, o.page)

(* From o to r the dispatcher loses nothing unless it threw.                *)
Keeps(o, r, at) ==
    /\ Held(r) /\ Ordered(r.pending, r.page, at)
    /\ o.page.last <= r.page.last /\ r.page.calls = o.page.calls
    /\ ~r.thrown => /\ Content(r.pending, r.page) = Content(o.pending, o.page)
                    /\ Thinking(r.pending, r.page) = Thinking(o.pending, o.page)

LEMMA LastFacts ==
    ASSUME NEW s \in Seq(Nat), s # << >>
    PROVE  M!Last(s) \in Nat
BY DEF M!Last

LEMMA ThrownFacts ==
    ASSUME NEW o, Held(o)
    PROVE  LET r == M!Thrown(o) IN
           DOMAIN r = DOMAIN o /\ r.thrown = TRUE /\ r.page = o.page /\ r.pending = o.pending
BY DEF Held, M!Thrown

LEMMA FlushTextFacts ==
    ASSUME NEW o, Held(o), ~o.thrown, NEW at \in Nat, Ordered(o.pending, o.page, at),
           NEW r \in M!FlushText(o)
    PROVE  /\ Keeps(o, r, at)
           /\ ~r.pending.delta /\ r.pending.think = o.pending.think
<1>1. CASE ~o.pending.delta
  <2>1. r = o
    BY <1>1 DEF M!FlushText
  <2> QED BY <1>1, <2>1 DEF Keeps, Held, Sound
<1>2. CASE o.pending.delta
  <2>1. PICK f : f = FALSE
    OBVIOUS
  <2>2. PICK e : e = << >>
    OBVIOUS
  <2>3. PICK taken : taken = [o EXCEPT !.pending.delta = f, !.pending.content = e]
    OBVIOUS
  <2>4. /\ DOMAIN taken = DOMAIN o /\ taken.thrown = o.thrown /\ taken.page = o.page
        /\ DOMAIN taken.pending = DOMAIN o.pending
        /\ taken.pending.delta = f /\ taken.pending.content = e
        /\ taken.pending.think = o.pending.think /\ taken.pending.thought = o.pending.thought
    BY <2>3 DEF Held, Sound
  <2>12. e \in Seq(Nat)
    BY <2>2
  <2>5. Held(taken)
    BY <2>1, <2>12, <2>4 DEF Held, Sound
  <2>6. PICK c : c = o.pending.content
    OBVIOUS
  <2>7. PICK l : l = IF c = << >> THEN o.page.last ELSE M!Last(c)
    OBVIOUS
  <2>8. r = M!Thrown(taken) \/ r = [taken EXCEPT !.page.text = c, !.page.last = l]
    BY <1>2, <2>1, <2>2, <2>3, <2>4, <2>6, <2>7 DEF M!FlushText
  <2>9. c \in Seq(Nat) /\ l \in Nat /\ l <= at /\ o.page.last <= l /\ ~o.pending.think /\ o.page.last \in Nat
    BY <1>2, <2>6, <2>7, LastFacts DEF Held, Sound, Ordered
  <2>10. CASE r = M!Thrown(taken)
    <3>1. DOMAIN r = DOMAIN taken /\ r.thrown = TRUE /\ r.page = taken.page /\ r.pending = taken.pending
      BY <2>5, <2>10, ThrownFacts
    <3>2. Held(r)
      BY <2>5, <3>1 DEF Held
    <3>3. ~r.pending.delta /\ r.pending.think = o.pending.think
      BY <2>1, <2>4, <3>1
    <3>4. Ordered(r.pending, r.page, at)
      BY <2>4, <2>9, <3>1, <3>3 DEF Ordered
    <3> QED BY <2>4, <2>9, <3>1, <3>2, <3>3, <3>4 DEF Keeps
  <2>11. CASE r = [taken EXCEPT !.page.text = c, !.page.last = l]
    <3>1. /\ DOMAIN r = DOMAIN taken /\ r.thrown = taken.thrown /\ r.pending = taken.pending
          /\ DOMAIN r.page = DOMAIN taken.page /\ r.page.text = c /\ r.page.last = l
          /\ r.page.thought = taken.page.thought /\ r.page.calls = taken.page.calls
      BY <2>5, <2>11 DEF Held, Sound
    <3>2. Held(r)
      BY <2>5, <2>9, <3>1 DEF Held, Sound
    <3>3. ~r.pending.delta /\ r.pending.think = o.pending.think
      BY <2>1, <2>4, <3>1
    <3>4. Ordered(r.pending, r.page, at)
      BY <2>9, <3>1, <3>3 DEF Ordered
    <3>5. Content(r.pending, r.page) = Content(o.pending, o.page)
      BY <1>2, <2>6, <3>1, <3>3 DEF Content
    <3>6. Thinking(r.pending, r.page) = Thinking(o.pending, o.page)
      BY <2>4, <3>1 DEF Thinking
    <3> QED BY <2>4, <2>9, <3>1, <3>2, <3>3, <3>4, <3>5, <3>6 DEF Keeps
  <2> QED BY <2>8, <2>10, <2>11
<1> QED BY <1>1, <1>2

LEMMA FlushReasoningFacts ==
    ASSUME NEW o, Held(o), ~o.thrown, NEW at \in Nat, Ordered(o.pending, o.page, at),
           NEW r \in M!FlushReasoning(o)
    PROVE  /\ Keeps(o, r, at)
           /\ ~r.pending.think /\ r.pending.delta = o.pending.delta
<1>1. CASE ~o.pending.think
  <2>1. r = o
    BY <1>1 DEF M!FlushReasoning
  <2> QED BY <1>1, <2>1 DEF Keeps, Held, Sound
<1>2. CASE o.pending.think
  <2>1. PICK f : f = FALSE
    OBVIOUS
  <2>3. PICK taken : taken = [o EXCEPT !.pending.think = f]
    OBVIOUS
  <2>4. /\ DOMAIN taken = DOMAIN o /\ taken.thrown = o.thrown /\ taken.page = o.page
        /\ DOMAIN taken.pending = DOMAIN o.pending
        /\ taken.pending.delta = o.pending.delta /\ taken.pending.content = o.pending.content
        /\ taken.pending.think = f /\ taken.pending.thought = o.pending.thought
    BY <2>3 DEF Held, Sound
  <2>5. Held(taken)
    BY <2>1, <2>4 DEF Held, Sound
  <2>6. PICK c : c = o.pending.thought
    OBVIOUS
  <2>8. r = M!Thrown(taken) \/ r = [taken EXCEPT !.page.thought = c, !.page.last = c]
    BY <1>2, <2>1, <2>3, <2>4, <2>6 DEF M!FlushReasoning
  <2>9. c \in Nat /\ c <= at /\ o.page.last <= c /\ ~o.pending.delta /\ o.page.last \in Nat
    BY <1>2, <2>6 DEF Held, Sound, Ordered
  <2>10. CASE r = M!Thrown(taken)
    <3>1. DOMAIN r = DOMAIN taken /\ r.thrown = TRUE /\ r.page = taken.page /\ r.pending = taken.pending
      BY <2>5, <2>10, ThrownFacts
    <3>2. Held(r)
      BY <2>5, <3>1 DEF Held
    <3>3. ~r.pending.think /\ r.pending.delta = o.pending.delta
      BY <2>1, <2>4, <3>1
    <3>4. Ordered(r.pending, r.page, at)
      BY <2>4, <2>9, <3>1, <3>3 DEF Ordered
    <3> QED BY <2>4, <2>9, <3>1, <3>2, <3>3, <3>4 DEF Keeps
  <2>11. CASE r = [taken EXCEPT !.page.thought = c, !.page.last = c]
    <3>1. /\ DOMAIN r = DOMAIN taken /\ r.thrown = taken.thrown /\ r.pending = taken.pending
          /\ DOMAIN r.page = DOMAIN taken.page /\ r.page.thought = c /\ r.page.last = c
          /\ r.page.text = taken.page.text /\ r.page.calls = taken.page.calls
      BY <2>5, <2>11 DEF Held, Sound
    <3>2. Held(r)
      BY <2>5, <2>9, <3>1 DEF Held, Sound
    <3>3. ~r.pending.think /\ r.pending.delta = o.pending.delta
      BY <2>1, <2>4, <3>1
    <3>4. Ordered(r.pending, r.page, at)
      BY <2>9, <3>1, <3>3 DEF Ordered
    <3>5. Content(r.pending, r.page) = Content(o.pending, o.page)
      BY <2>4, <3>1 DEF Content
    <3>6. Thinking(r.pending, r.page) = Thinking(o.pending, o.page)
      BY <1>2, <2>6, <3>1, <3>3 DEF Thinking
    <3> QED BY <2>4, <2>9, <3>1, <3>2, <3>3, <3>4, <3>5, <3>6 DEF Keeps
  <2> QED BY <2>8, <2>10, <2>11
<1> QED BY <1>1, <1>2

LEMMA FlushFacts ==
    ASSUME NEW o, Held(o), ~o.thrown, NEW at \in Nat, Ordered(o.pending, o.page, at),
           NEW r \in M!Flush(o)
    PROVE  /\ Keeps(o, r, at)
           /\ ~r.thrown => ~r.pending.delta /\ ~r.pending.think
           /\ ~r.pending.delta
<1>1. PICK b \in M!FlushText(o) : IF b.thrown THEN r = b ELSE r \in M!FlushReasoning(b)
  BY DEF M!Flush, M!Then
<1>2. /\ Keeps(o, b, at) /\ Held(b) /\ Ordered(b.pending, b.page, at)
      /\ ~b.pending.delta /\ b.thrown \in BOOLEAN
  BY FlushTextFacts DEF Keeps, Held
<1>3. CASE b.thrown
  BY <1>1, <1>2, <1>3
<1>4. CASE ~b.thrown
  <2>1. r \in M!FlushReasoning(b)
    BY <1>1, <1>4
  <2>2. Keeps(b, r, at) /\ ~r.pending.think /\ r.pending.delta = b.pending.delta
    BY <1>2, <1>4, <2>1, FlushReasoningFacts
  <2>3. o.page.last \in Nat /\ b.page.last \in Nat /\ r.page.last \in Nat
    BY <1>2, <2>2 DEF Keeps, Held, Sound
  <2>4. Keeps(o, r, at)
    BY <1>2, <1>4, <2>2, <2>3 DEF Keeps
  <2> QED BY <1>2, <2>2, <2>4
<1> QED BY <1>2, <1>3, <1>4


(* What a delta, a reasoning or a call leaves of the dispatcher.            *)
Moves(o, r, at) ==
    /\ Held(r) /\ Ordered(r.pending, r.page, at)
    /\ o.page.last <= r.page.last

LEMMA DispatchTextFacts ==
    ASSUME NEW o, Held(o), ~o.thrown, NEW at \in Nat, Ordered(o.pending, o.page, at),
           NEW s, s.at \in Nat, at <= s.at, s.content \in Seq(Nat),
           s.content # << >> => M!Last(s.content) = s.at,
           NEW empty \in BOOLEAN, NEW r \in M!DispatchText(o, s, empty)
    PROVE  /\ Moves(o, r, s.at) /\ r.page.calls = o.page.calls
           /\ ~r.thrown =>
                /\ Thinking(r.pending, r.page) = Thinking(o.pending, o.page)
                /\ ~empty => Content(r.pending, r.page) = s.content
<1> DEFINE changed == o.pending.think \/ (o.pending.delta /\ o.pending.candidate # s.candidate)
           Put(b) == [b EXCEPT !.pending.delta = @ \/ ~empty, !.pending.content = s.content,
                            !.pending.candidate = s.candidate]
<1>1. PICK b \in (IF changed THEN M!Flush(o) ELSE {o}) :
         IF b.thrown THEN r = b ELSE r = Put(b) \/ r \in M!FlushText(Put(b))
  BY DEF M!DispatchText, M!Then, M!MayFlush
<1>2. Keeps(o, b, at) /\ (~b.thrown => ~b.pending.think)
  <2>1. CASE changed
    BY <1>1, <2>1, FlushFacts
  <2>2. CASE ~changed
    <3>1. b = o
      BY <1>1, <2>2
    <3>2. Keeps(o, o, at)
      BY DEF Keeps, Held, Sound
    <3> QED BY <2>2, <3>1, <3>2
  <2> QED BY <2>1, <2>2
<1>3. /\ Held(b) /\ Ordered(b.pending, b.page, at) /\ o.page.last <= b.page.last
      /\ b.page.calls = o.page.calls /\ b.thrown \in BOOLEAN
      /\ o.page.last \in Nat /\ b.page.last \in Nat /\ b.page.last <= s.at
  BY <1>2 DEF Keeps, Held, Sound, Ordered
<1>4. CASE b.thrown
  <2>1. r = b
    BY <1>1, <1>4
  <2>2. Ordered(b.pending, b.page, s.at)
    <3>1. b.pending.content # << >> => M!Last(b.pending.content) \in Nat
      BY <1>3, LastFacts DEF Held, Sound
    <3> QED BY <1>3, <3>1 DEF Ordered, Held, Sound
  <2> QED BY <1>3, <1>4, <2>1, <2>2 DEF Moves
<1>5. CASE ~b.thrown
  <2>1. PICK f : f = (b.pending.delta \/ ~empty)
    OBVIOUS
  <2>2. PICK x, y : x = s.content /\ y = s.candidate
    OBVIOUS
  <2>3. PICK c : c = [b EXCEPT !.pending.delta = f, !.pending.content = x, !.pending.candidate = y]
    OBVIOUS
  <2>4. c = Put(b)
    BY <2>1, <2>2, <2>3
  <2> HIDE DEF Put, changed
  <2>5. /\ DOMAIN c = DOMAIN b /\ c.thrown = b.thrown /\ c.page = b.page
        /\ DOMAIN c.pending = DOMAIN b.pending
        /\ c.pending.delta = f /\ c.pending.content = x
        /\ c.pending.think = b.pending.think /\ c.pending.thought = b.pending.thought
    BY <1>3, <2>3 DEF Held, Sound
  <2>6. f \in BOOLEAN
    BY <2>1
  <2>7. Held(c)
    BY <1>3, <2>2, <2>5, <2>6 DEF Held, Sound
  <2>8. ~c.pending.think
    BY <1>2, <1>5, <2>5
  <2>9. Ordered(c.pending, c.page, s.at)
    BY <1>3, <2>2, <2>5, <2>8 DEF Ordered
  <2>10. Thinking(c.pending, c.page) = Thinking(o.pending, o.page)
    <3>1. Thinking(b.pending, b.page) = Thinking(o.pending, o.page)
      BY <1>2, <1>5 DEF Keeps
    <3> QED BY <2>5, <3>1 DEF Thinking
  <2>11. ~empty => Content(c.pending, c.page) = s.content
    BY <2>1, <2>2, <2>5 DEF Content
  <2>12. ~c.thrown
    BY <1>5, <2>5
  <2>13. r = c \/ r \in M!FlushText(c)
    BY <1>1, <1>5, <2>4
  <2>14. CASE r = c
    BY <1>3, <2>5, <2>7, <2>9, <2>10, <2>11, <2>14 DEF Moves
  <2>15. CASE r \in M!FlushText(c)
    <3>1. Keeps(c, r, s.at)
      BY <2>7, <2>9, <2>12, <2>15, FlushTextFacts
    <3>2. r.page.last \in Nat /\ c.page.last \in Nat
      BY <2>7, <3>1 DEF Keeps, Held, Sound
    <3>3. Moves(o, r, s.at) /\ r.page.calls = o.page.calls
      BY <1>3, <2>5, <3>1, <3>2 DEF Moves, Keeps
    <3> QED BY <2>10, <2>11, <3>1, <3>3 DEF Keeps
  <2> QED BY <2>13, <2>14, <2>15
<1> QED BY <1>3, <1>4, <1>5

LEMMA DispatchReasoningFacts ==
    ASSUME NEW o, Held(o), ~o.thrown, NEW at \in Nat, Ordered(o.pending, o.page, at),
           NEW s, s.at \in Nat, at <= s.at, s.thought = s.at,
           NEW r \in M!DispatchReasoning(o, s)
    PROVE  /\ Moves(o, r, s.at) /\ r.page.calls = o.page.calls
           /\ ~r.thrown =>
                /\ Content(r.pending, r.page) = Content(o.pending, o.page)
                /\ Thinking(r.pending, r.page) = s.thought
<1> DEFINE Put(b) == [b EXCEPT !.pending.think = TRUE, !.pending.thought = s.thought]
<1>1. PICK b \in M!FlushText(o) :
         IF b.thrown THEN r = b ELSE r = Put(b) \/ r \in M!FlushReasoning(Put(b))
  BY DEF M!DispatchReasoning, M!Then, M!MayFlush
<1>2. Keeps(o, b, at) /\ ~b.pending.delta
  BY FlushTextFacts
<1>3. /\ Held(b) /\ Ordered(b.pending, b.page, at) /\ o.page.last <= b.page.last
      /\ b.page.calls = o.page.calls /\ b.thrown \in BOOLEAN
      /\ o.page.last \in Nat /\ b.page.last \in Nat /\ b.page.last <= s.at
  BY <1>2 DEF Keeps, Held, Sound, Ordered
<1>4. CASE b.thrown
  <2>1. r = b
    BY <1>1, <1>4
  <2>2. Ordered(b.pending, b.page, s.at)
    BY <1>2, <1>3 DEF Ordered, Held, Sound
  <2> QED BY <1>3, <1>4, <2>1, <2>2 DEF Moves
<1>5. CASE ~b.thrown
  <2>1. PICK f : f = TRUE
    OBVIOUS
  <2>2. PICK x : x = s.thought
    OBVIOUS
  <2>3. PICK c : c = [b EXCEPT !.pending.think = f, !.pending.thought = x]
    OBVIOUS
  <2>4. c = Put(b)
    BY <2>1, <2>2, <2>3
  <2> HIDE DEF Put
  <2>5. /\ DOMAIN c = DOMAIN b /\ c.thrown = b.thrown /\ c.page = b.page
        /\ DOMAIN c.pending = DOMAIN b.pending
        /\ c.pending.think = f /\ c.pending.thought = x
        /\ c.pending.delta = b.pending.delta /\ c.pending.content = b.pending.content
    BY <1>3, <2>3 DEF Held, Sound
  <2>6. f \in BOOLEAN
    BY <2>1
  <2>7. Held(c)
    BY <1>3, <2>2, <2>5, <2>6 DEF Held, Sound
  <2>8. ~c.pending.delta /\ c.pending.think
    BY <1>2, <2>1, <2>5
  <2>9. Ordered(c.pending, c.page, s.at)
    BY <1>3, <2>2, <2>5, <2>8 DEF Ordered
  <2>10. Content(c.pending, c.page) = Content(o.pending, o.page)
    <3>1. Content(b.pending, b.page) = Content(o.pending, o.page)
      BY <1>2, <1>5 DEF Keeps
    <3> QED BY <2>5, <3>1 DEF Content
  <2>11. Thinking(c.pending, c.page) = s.thought
    BY <2>2, <2>5, <2>8 DEF Thinking
  <2>12. ~c.thrown
    BY <1>5, <2>5
  <2>13. r = c \/ r \in M!FlushReasoning(c)
    BY <1>1, <1>5, <2>4
  <2>14. CASE r = c
    BY <1>3, <2>5, <2>7, <2>9, <2>10, <2>11, <2>14 DEF Moves
  <2>15. CASE r \in M!FlushReasoning(c)
    <3>1. Keeps(c, r, s.at)
      BY <2>7, <2>9, <2>12, <2>15, FlushReasoningFacts
    <3>2. r.page.last \in Nat /\ c.page.last \in Nat
      BY <2>7, <3>1 DEF Keeps, Held, Sound
    <3>3. Moves(o, r, s.at) /\ r.page.calls = o.page.calls
      BY <1>3, <2>5, <3>1, <3>2 DEF Moves, Keeps
    <3> QED BY <2>10, <2>11, <3>1, <3>3 DEF Keeps
  <2> QED BY <2>13, <2>14, <2>15
<1> QED BY <1>3, <1>4, <1>5

LEMMA DispatchCallFacts ==
    ASSUME NEW o, Held(o), ~o.thrown, NEW at \in Nat, Ordered(o.pending, o.page, at),
           NEW id, NEW r \in M!DispatchCall(o, id)
    PROVE  /\ Moves(o, r, at)
           /\ ~r.thrown =>
                /\ Content(r.pending, r.page) = Content(o.pending, o.page)
                /\ Thinking(r.pending, r.page) = Thinking(o.pending, o.page)
                /\ r.page.calls = Append(o.page.calls, id)
<1>1. PICK b \in M!Flush(o) :
         IF b.thrown THEN r = b ELSE r = [b EXCEPT !.page.calls = Append(b.page.calls, id)]
  BY DEF M!DispatchCall, M!Then
<1>2. Keeps(o, b, at)
  BY FlushFacts
<1>3. CASE b.thrown
  BY <1>1, <1>2, <1>3 DEF Keeps, Moves
<1>4. CASE ~b.thrown
  <2>1. PICK x : x = Append(b.page.calls, id)
    OBVIOUS
  <2>2. r = [b EXCEPT !.page.calls = x]
    BY <1>1, <1>4, <2>1
  <2>3. Held(b)
    BY <1>2 DEF Keeps
  <2>4. /\ DOMAIN r = DOMAIN b /\ r.thrown = b.thrown /\ r.pending = b.pending
        /\ DOMAIN r.page = DOMAIN b.page /\ r.page.calls = x /\ r.page.last = b.page.last
        /\ r.page.text = b.page.text /\ r.page.thought = b.page.thought
    BY <2>2, <2>3 DEF Held, Sound
  <2>5. Held(r)
    BY <2>3, <2>4 DEF Held, Sound
  <2>6. Ordered(r.pending, r.page, at)
    BY <1>2, <2>4 DEF Ordered, Keeps
  <2>7. Moves(o, r, at)
    BY <1>2, <2>4, <2>5, <2>6 DEF Moves, Keeps
  <2>8. /\ Content(r.pending, r.page) = Content(o.pending, o.page)
        /\ Thinking(r.pending, r.page) = Thinking(o.pending, o.page)
    BY <1>2, <1>4, <2>4 DEF Keeps, Content, Thinking
  <2> QED BY <1>2, <2>1, <2>4, <2>7, <2>8 DEF Keeps
<1> QED BY <1>3, <1>4


-----------------------------------------------------------------------------
(* The request: every serialization the provider accepts is the one that is *)
(* tried or still to come, and the one tried is the first until an input    *)
(* was rejected, then the last.                                             *)

Choice(c, accepts) ==
    /\ c.modes \in Seq(M!Modes) /\ Len(c.modes) \in 1..2 /\ c.body \in 1..Len(c.modes)
    /\ c.alt \in BOOLEAN /\ (~c.alt => c.body = 1)
    /\ \A m \in accepts : \E i \in c.body..Len(c.modes) : c.modes[i] = m

CallFields == {"n", "pc", "modes", "body", "attempt", "alt", "error"}

Tries(c, accepts) ==
    /\ DOMAIN c = CallFields
    /\ c.pc # "idle" => Choice(c, accepts) /\ (c.alt => c.body = Len(c.modes))

Requesting ==
    /\ world.accepts \subseteq M!Modes /\ rejected \subseteq M!Modes
    /\ signal \in {"none", "interrupt", "timeout"}
    /\ Tries(call, world.accepts)
    /\ M!ServedWhenAccepted

LEMMA TriesFacts ==
    ASSUME NEW c, NEW accepts, Tries(c, accepts), c.pc # "idle",
           NEW d, DOMAIN d = DOMAIN c, d.modes = c.modes, d.body = c.body, d.alt = c.alt
    PROVE  Tries(d, accepts) /\ Choice(d, accepts)
BY DEF Tries, Choice

LEMMA BreakFacts ==
    ASSUME NEW c, NEW accepts, accepts \subseteq M!Modes, DOMAIN c = CallFields, Choice(c, accepts),
           c.alt /\ c.body < Len(c.modes) => c.modes[c.body] \notin accepts,
           NEW d, d = M!Break(c)
    PROVE  /\ Tries(d, accepts) /\ d.pc \in {"try", "failed"} /\ d.error = c.error
           /\ d.pc = "failed" => (c.alt => c.body = Len(c.modes))
<1>1. CASE c.alt /\ c.body < Len(c.modes)
  <2>1. PICK b : b = c.body + 1
    OBVIOUS
  <2>2. d = [c EXCEPT !.pc = "try", !.body = b, !.attempt = 1]
    BY <1>1, <2>1 DEF M!Break
  <2>3. /\ DOMAIN d = CallFields /\ d.pc = "try" /\ d.body = b /\ d.modes = c.modes /\ d.alt = c.alt
        /\ d.error = c.error
    BY <2>2 DEF CallFields
  <2>4. c.body = 1 /\ Len(c.modes) = 2 /\ b = 2
    <3>1. Len(c.modes) \in 1..2 /\ c.body \in 1..Len(c.modes)
      BY DEF Choice
    <3>2. PICK len \in 1..2 : len = Len(c.modes)
      BY <3>1
    <3>3. PICK k \in 1..len : k = c.body
      BY <3>1, <3>2
    <3>4. k < len
      BY <1>1, <3>2, <3>3
    <3>5. k = 1 /\ len = 2
      BY <3>4
    <3> QED BY <2>1, <3>2, <3>3, <3>5
  <2>5. \A m \in accepts : \E i \in b..Len(c.modes) : c.modes[i] = m
    BY <1>1, <2>4 DEF Choice
  <2>6. Choice(d, accepts) /\ d.body = Len(d.modes)
    BY <1>1, <2>3, <2>4, <2>5 DEF Choice
  <2> QED BY <2>3, <2>6 DEF Tries
<1>2. CASE ~(c.alt /\ c.body < Len(c.modes))
  <2>1. d = [c EXCEPT !.pc = "failed"]
    BY <1>2 DEF M!Break
  <2>2. /\ DOMAIN d = CallFields /\ d.pc = "failed" /\ d.body = c.body /\ d.modes = c.modes /\ d.alt = c.alt
        /\ d.error = c.error
    BY <2>1 DEF CallFields
  <2>3. c.alt => c.body = Len(c.modes)
    BY <1>2 DEF Choice
  <2>4. Choice(d, accepts)
    BY <2>2 DEF Choice
  <2> QED BY <2>2, <2>3, <2>4 DEF Tries
<1> QED BY <1>1, <1>2

LEMMA SettleFacts ==
    ASSUME Requesting, call.pc # "idle", NEW e \in M!Errors, M!Possible(e), M!Settle(e),
           UNCHANGED <<world, signal>>
    PROVE  Requesting' /\ call'.pc \in {"waiting", "try", "failed"}
<1>1. PICK c : c = [call EXCEPT !.error = e]
  OBVIOUS
<1>2. DOMAIN call = CallFields /\ Choice(call, world.accepts) /\ (call.alt => call.body = Len(call.modes))
  BY DEF Requesting, Tries
<1>3. /\ DOMAIN c = CallFields /\ c.modes = call.modes /\ c.body = call.body /\ c.alt = call.alt
      /\ c.error = e /\ c.pc = call.pc
  BY <1>1, <1>2 DEF CallFields
<1>4. Choice(c, world.accepts)
  BY <1>2, <1>3 DEF Choice
<1>5. CASE e \in {"network", "toolcall"} /\ call' = [c EXCEPT !.pc = "waiting"] /\ UNCHANGED rejected
  <2>1. PICK d : d = call'
    OBVIOUS
  <2>2. /\ DOMAIN d = CallFields /\ d.modes = c.modes /\ d.body = c.body /\ d.alt = c.alt /\ d.pc = "waiting"
    BY <1>3, <1>5, <2>1 DEF CallFields
  <2>3. Tries(d, world.accepts)
    BY <1>2, <1>3, <2>2, TriesFacts DEF Requesting
  <2> QED BY <1>5, <2>1, <2>2, <2>3 DEF Requesting, M!ServedWhenAccepted
<1>6. CASE /\ e = "input" /\ ~world.strict
           /\ call' = M!Break([c EXCEPT !.alt = TRUE]) /\ rejected' = rejected \cup {M!Mode}
  <2>1. PICK f : f = TRUE
    OBVIOUS
  <2>2. PICK a : a = [c EXCEPT !.alt = f]
    OBVIOUS
  <2>3. PICK d : d = call'
    OBVIOUS
  <2>4. /\ DOMAIN a = CallFields /\ a.modes = call.modes /\ a.body = call.body /\ a.alt = f /\ a.error = e
    BY <1>3, <2>2 DEF CallFields
  <2>5. d = M!Break(a)
    BY <1>6, <2>1, <2>2, <2>3
  <2>6. M!Mode = call.modes[call.body] /\ M!Mode \notin world.accepts /\ M!Mode \in M!Modes
    BY <1>2, <1>6 DEF M!Mode, M!Possible, Choice
  <2>7. Choice(a, world.accepts)
    BY <1>2, <2>1, <2>4 DEF Choice
  <2>8. /\ Tries(d, world.accepts) /\ d.pc \in {"try", "failed"}
        /\ d.pc = "failed" => call.body = Len(call.modes)
    BY <2>1, <2>4, <2>5, <2>6, <2>7, BreakFacts DEF Requesting
  <2>9. d.pc = "failed" => world.accepts = {}
    <3>1. SUFFICES ASSUME d.pc = "failed", NEW m \in world.accepts PROVE FALSE
      OBVIOUS
    <3>2. PICK i \in call.body..Len(call.modes) : call.modes[i] = m
      BY <1>2 DEF Choice
    <3>3. i = call.body
      BY <1>2, <2>8, <3>1, <3>2 DEF Choice
    <3> QED BY <2>6, <3>2, <3>3
  <2>10. rejected' \cap world.accepts = {} /\ rejected' \subseteq M!Modes
    BY <1>6, <2>6 DEF Requesting, M!ServedWhenAccepted
  <2> QED BY <2>3, <2>8, <2>9, <2>10 DEF Requesting, M!ServedWhenAccepted
<1>7. CASE /\ e # "input" \/ world.strict
           /\ call' = M!Break(c) /\ UNCHANGED rejected
  <2>1. PICK d : d = call'
    OBVIOUS
  <2>2. Tries(d, world.accepts) /\ d.pc \in {"try", "failed"} /\ d.error = e
    <3>1. d = M!Break(c)
      BY <1>7, <2>1
    <3>2. c.alt /\ c.body < Len(c.modes) => c.modes[c.body] \notin world.accepts
      BY <1>2, <1>3 DEF Choice
    <3> QED BY <1>3, <1>4, <3>1, <3>2, BreakFacts DEF Requesting
  <2> QED BY <1>7, <2>1, <2>2 DEF Requesting, M!ServedWhenAccepted
<1>8. \/ e \in {"network", "toolcall"} /\ call' = [c EXCEPT !.pc = "waiting"] /\ UNCHANGED rejected
      \/ /\ e = "input" /\ ~world.strict
         /\ call' = M!Break([c EXCEPT !.alt = TRUE]) /\ rejected' = rejected \cup {M!Mode}
      \/ (e # "input" \/ world.strict) /\ call' = M!Break(c) /\ UNCHANGED rejected
  BY <1>1 DEF M!Settle
<1> QED BY <1>5, <1>6, <1>7, <1>8

(* The call fails with the reason of the abort.                             *)
LEMMA AbortedFacts ==
    ASSUME Requesting, call.pc # "idle", NEW e, e # "input", NEW p \in {"failed", "waiting"},
           call' = [call EXCEPT !.pc = p, !.error = e],
           UNCHANGED <<world, signal, rejected>>
    PROVE  Requesting' /\ call'.pc = p
<1>1. PICK d : d = call'
  OBVIOUS
<1>2. DOMAIN call = CallFields
  BY DEF Requesting, Tries
<1>3. /\ DOMAIN d = CallFields /\ d.modes = call.modes /\ d.body = call.body /\ d.alt = call.alt
      /\ d.pc = p /\ d.error = e
  BY <1>1, <1>2 DEF CallFields
<1>4. Tries(d, world.accepts)
  BY <1>2, <1>3, TriesFacts DEF Requesting
<1> QED BY <1>1, <1>3, <1>4 DEF Requesting, M!ServedWhenAccepted

LEMMA CatchFacts ==
    ASSUME Requesting, call.pc # "idle", NEW e \in M!Errors, M!Possible(e), M!Catch(e),
           UNCHANGED <<world, signal>>
    PROVE  Requesting' /\ call'.pc \in {"waiting", "try", "failed"}
<1>1. CASE signal # "none"
  <2>1. call' = [call EXCEPT !.pc = "failed", !.error = signal] /\ UNCHANGED rejected
    BY <1>1 DEF M!Catch
  <2>2. signal # "input"
    BY DEF Requesting
  <2> QED BY <2>1, <2>2, AbortedFacts
<1>2. CASE signal = "none"
  BY <1>2, SettleFacts DEF M!Catch
<1> QED BY <1>1, <1>2


-----------------------------------------------------------------------------
(* The answer: while it is read, and when the call has returned it, what    *)
(* the pages will show is what was read.                                    *)

Current(h, g, s) ==
    /\ s.content # << >> => Content(h, g) = s.content
    /\ s.thought # 0 => Thinking(h, g) = s.thought
    /\ g.calls = s.calls

StreamFields == {"at", "content", "thought", "candidate", "calls", "tagged", "payload", "rank"}

Read(s) ==
    /\ DOMAIN s = StreamFields
    /\ s.at \in Nat /\ s.content \in Seq(Nat) /\ s.thought \in Nat

Reading ==
    /\ Read(stream)
    /\ Sound(pending, shown) /\ Ordered(pending, shown, stream.at)
    /\ call.pc \in {"sent", "reading", "returned"} => Current(pending, shown, stream)
    /\ call.pc = "returned" => ~pending.delta /\ ~pending.think

CallInv == Requesting /\ Reading

InOrder == stream'.at >= stream.at => shown'.last >= shown.last

LEMMA InitCall == M!Init => CallInv
<1> SUFFICES ASSUME M!Init PROVE CallInv
  OBVIOUS
<1>1. /\ call.pc = "idle" /\ DOMAIN call = CallFields /\ call.error = ""
      /\ world.accepts \subseteq M!Modes /\ rejected = {} /\ signal = "none"
  BY DEF M!Init, CallFields
<1>2. Requesting
  BY <1>1 DEF Requesting, Tries, M!ServedWhenAccepted
<1>3. << >> \in Seq(Nat)
  OBVIOUS
<1>4. Read(stream) /\ stream.at = 0
  BY <1>3 DEF M!Init, M!Unread, Read, StreamFields
<1>5. Sound(pending, shown) /\ ~pending.delta /\ ~pending.think /\ shown.last = 0
  BY <1>3 DEF M!Init, Sound
<1>6. Ordered(pending, shown, stream.at)
  BY <1>4, <1>5 DEF Ordered
<1> QED BY <1>1, <1>2, <1>4, <1>5, <1>6 DEF CallInv, Reading

LEMMA OutFacts ==
    ASSUME Reading
    PROVE  /\ Held(M!Out) /\ ~M!Out.thrown
           /\ M!Out.pending = pending /\ M!Out.page = shown
           /\ Ordered(M!Out.pending, M!Out.page, stream.at)
           /\ stream.at \in Nat
BY DEF Reading, Held, M!Out, Read

(* What is left when the call stops reading, for a retry or for good.       *)
LEMMA LeavesFacts ==
    ASSUME Requesting', call'.pc \in {"waiting", "try", "failed"},
           Read(stream'), Sound(pending', shown'), Ordered(pending', shown', stream'.at)
    PROVE  CallInv'
<1>1. call'.pc \notin {"sent", "reading", "returned"}
  OBVIOUS
<1>2. Reading'
  BY <1>1 DEF Reading
<1> QED BY <1>2 DEF CallInv

LEMMA ProceedFacts ==
    ASSUME CallInv, call.pc = "reading", UNCHANGED <<world, signal>>,
           NEW s, Read(s), NEW o, Moves(M!Out, o, s.at),
           ~o.thrown => Current(o.pending, o.page, s),
           M!Proceed(o, s)
    PROVE  CallInv' /\ InOrder
<1>1. pending' = o.pending /\ shown' = o.page /\ stream' = s
  BY DEF M!Proceed
<1>2. /\ Sound(o.pending, o.page) /\ Ordered(o.pending, o.page, s.at) /\ o.thrown \in BOOLEAN
      /\ shown.last <= o.page.last
  BY OutFacts DEF CallInv, Moves, Held
<1>3. shown.last \in Nat /\ o.page.last \in Nat
  BY <1>2 DEF CallInv, Reading, Sound
<1>4. InOrder
  BY <1>1, <1>2, <1>3 DEF InOrder
<1>5. Read(stream') /\ Sound(pending', shown') /\ Ordered(pending', shown', stream'.at)
  BY <1>1, <1>2
<1>6. CASE o.thrown
  <2>1. PICK e \in {"network", "other"} : M!Catch(e)
    BY <1>6 DEF M!Proceed
  <2>2. e \in M!Errors /\ M!Possible(e)
    BY DEF M!Errors, M!Possible
  <2>3. Requesting' /\ call'.pc \in {"waiting", "try", "failed"}
    BY <2>1, <2>2, CatchFacts DEF CallInv
  <2> QED BY <1>4, <1>5, <2>3, LeavesFacts
<1>7. CASE ~o.thrown
  <2>1. UNCHANGED <<call, rejected>>
    BY <1>7 DEF M!Proceed
  <2>2. Requesting'
    BY <2>1 DEF CallInv, Requesting, M!ServedWhenAccepted
  <2>3. Current(pending', shown', stream')
    BY <1>1, <1>7
  <2>4. call'.pc = "reading"
    BY <2>1
  <2>5. Reading'
    BY <1>5, <2>3, <2>4 DEF Reading
  <2> QED BY <1>4, <2>2, <2>5 DEF CallInv
<1> QED BY <1>2, <1>6, <1>7


LEMMA BeginStep == CallInv /\ M!Begin => CallInv' /\ InOrder
<1> SUFFICES ASSUME CallInv, M!Begin PROVE CallInv' /\ InOrder
  OBVIOUS
<1>1. PICK modes \in M!Serializations :
         call' = [n |-> call.n + 1, pc |-> "try", body |-> 1, attempt |-> 1, alt |-> FALSE, error |-> "",
                  modes |-> modes]
  BY DEF M!Begin
<1>2. /\ modes \in Seq(M!Modes) /\ Len(modes) \in 1..2
      /\ \A m \in M!Modes \ rejected : \E i \in 1..Len(modes) : modes[i] = m
  <2>1. CASE rejected = {}
    <3>1. modes = <<"text", "array">> \/ modes = <<"array", "text">>
      BY <2>1 DEF M!Serializations
    <3>2. M!Modes = {"text", "array"} /\ rejected = {}
      BY <2>1 DEF M!Modes
    <3>3. CASE modes = <<"text", "array">>
      <4>1. modes \in Seq(M!Modes) /\ Len(modes) = 2 /\ modes[1] = "text" /\ modes[2] = "array"
        BY <3>2, <3>3
      <4> QED BY <3>2, <4>1
    <3>4. CASE modes = <<"array", "text">>
      <4>1. modes \in Seq(M!Modes) /\ Len(modes) = 2 /\ modes[2] = "text" /\ modes[1] = "array"
        BY <3>2, <3>4
      <4> QED BY <3>2, <4>1
    <3> QED BY <3>1, <3>3, <3>4
  <2>2. CASE rejected # {}
    <3>1. PICK mode \in IF rejected = M!Modes THEN M!Modes ELSE M!Modes \ rejected : modes = <<mode>>
      BY <2>2 DEF M!Serializations
    <3>2. mode \in M!Modes /\ Len(modes) = 1 /\ modes[1] = mode
      BY <3>1
    <3>3. ASSUME NEW m \in M!Modes \ rejected PROVE m = mode
      <4>1. M!Modes = {"text", "array"} /\ rejected # M!Modes
        BY <3>3 DEF M!Modes
      <4>2. PICK x : x \in rejected /\ x \in M!Modes
        BY <2>2 DEF CallInv, Requesting
      <4>3. mode # x /\ m # x
        BY <3>1, <3>3, <4>1, <4>2
      <4> QED BY <3>2, <3>3, <4>1, <4>2, <4>3
    <3>4. modes \in Seq(M!Modes)
      BY <3>1, <3>2
    <3> QED BY <3>2, <3>3, <3>4
  <2> QED BY <2>1, <2>2
<1>3. /\ DOMAIN call' = CallFields /\ call'.pc = "try" /\ call'.body = 1 /\ call'.alt = FALSE
      /\ call'.error = "" /\ call'.modes = modes
  BY <1>1 DEF CallFields
<1>4. world.accepts \subseteq M!Modes \ rejected
  BY DEF CallInv, Requesting, M!ServedWhenAccepted
<1>5. Choice(call', world.accepts)
  <2>1. PICK d : d = call'
    OBVIOUS
  <2>2. d.body = 1 /\ d.modes = modes /\ d.alt = FALSE
    BY <1>3, <2>1
  <2>3. \A m \in world.accepts : \E i \in d.body..Len(d.modes) : d.modes[i] = m
    BY <1>2, <1>4, <2>2
  <2>4. d.alt \in BOOLEAN
    BY <2>2
  <2>6. d.body \in 1..Len(d.modes)
    <3>1. PICK len \in 1..2 : len = Len(modes)
      BY <1>2
    <3>2. 1 \in 1..len
      OBVIOUS
    <3> QED BY <2>2, <3>1, <3>2
  <2>5. Choice(d, world.accepts)
    BY <1>2, <2>2, <2>3, <2>4, <2>6 DEF Choice
  <2> QED BY <2>1, <2>5
<1>6. UNCHANGED <<world, rejected>> /\ signal' = "none" /\ stream' = M!Unread
  BY DEF M!Begin
<1>7. Requesting'
  BY <1>3, <1>5, <1>6 DEF CallInv, Requesting, Tries, M!ServedWhenAccepted
<1>8. << >> \in Seq(Nat)
  OBVIOUS
<1>9. Read(stream') /\ stream'.at = 0
  BY <1>6, <1>8 DEF M!Unread, Read, StreamFields
<1>10. /\ DOMAIN shown' = {"text", "thought", "last", "calls"} /\ shown'.last = 0
  BY DEF M!Begin
<1>11. /\ DOMAIN pending' = {"delta", "content", "candidate", "think", "thought"}
       /\ pending'.delta = FALSE /\ pending'.content = << >> /\ pending'.think = FALSE
       /\ pending'.thought = pending.thought
  <2>1. PICK f : f = FALSE
    OBVIOUS
  <2>2. PICK e : e = << >>
    OBVIOUS
  <2>3. pending' = [pending EXCEPT !.delta = f, !.content = e, !.think = f]
    BY <2>1, <2>2 DEF M!Begin
  <2>4. /\ DOMAIN pending' = DOMAIN pending
        /\ pending'.delta = f /\ pending'.content = e /\ pending'.think = f
        /\ pending'.thought = pending.thought
    BY <2>3 DEF CallInv, Reading, Sound
  <2> QED BY <2>1, <2>2, <2>4 DEF CallInv, Reading, Sound
<1>12. Sound(pending', shown')
  <2>1. pending'.delta \in BOOLEAN /\ pending'.think \in BOOLEAN
    BY <1>11
  <2>2. pending'.thought \in Nat
    BY <1>11 DEF CallInv, Reading, Sound
  <2>3. pending'.content \in Seq(Nat)
    BY <1>8, <1>11
  <2> QED BY <1>10, <1>11, <2>1, <2>2, <2>3 DEF Sound
<1>13. Ordered(pending', shown', stream'.at)
  BY <1>9, <1>10, <1>11 DEF Ordered
<1>14. Reading'
  BY <1>3, <1>9, <1>12, <1>13 DEF Reading
<1>15. InOrder
  <2>1. stream.at \in Nat /\ shown.last \in Nat /\ shown.last <= stream.at
    BY DEF CallInv, Reading, Read, Sound, Ordered
  <2> QED BY <1>9, <1>10, <2>1 DEF InOrder
<1> QED BY <1>7, <1>14, <1>15 DEF CallInv

LEMMA SendStep == CallInv /\ M!Send => CallInv' /\ InOrder
<1> SUFFICES ASSUME CallInv, M!Send PROVE CallInv' /\ InOrder
  OBVIOUS
<1>1. UNCHANGED <<world, rejected, signal>> /\ call.pc = "try"
  BY DEF M!Send
<1>2. CASE signal # "none"
  <2>1. call' = [call EXCEPT !.pc = "failed", !.error = signal] /\ UNCHANGED <<stream, pending, shown>>
    BY <1>2 DEF M!Send
  <2>2. signal # "input"
    BY DEF CallInv, Requesting
  <2>3. Requesting' /\ call'.pc = "failed"
    BY <1>1, <2>1, <2>2, AbortedFacts DEF CallInv
  <2>4. Reading'
    BY <2>1, <2>3 DEF CallInv, Reading
  <2> QED BY <2>1, <2>3, <2>4 DEF CallInv, InOrder, Reading, Sound
<1>3. CASE signal = "none"
  <2>1. /\ call' = [call EXCEPT !.pc = "sent"] /\ stream' = M!Unread
        /\ pending' = [pending EXCEPT !.content = IF pending.content = << >> THEN << >> ELSE <<0>>, !.thought = 0]
        /\ shown' = [text |-> IF shown.text = << >> THEN << >> ELSE <<0>>,
                     thought |-> 0, last |-> 0, calls |-> << >>]
    BY <1>3 DEF M!Send, M!Goto
  <2>2. /\ DOMAIN call' = DOMAIN call /\ call'.modes = call.modes /\ call'.body = call.body
        /\ call'.alt = call.alt /\ call'.pc = "sent"
    BY <2>1 DEF CallInv, Requesting, Tries, CallFields
  <2>3. Tries(call', world.accepts)
    BY <1>1, <2>2, TriesFacts DEF CallInv, Requesting
  <2>4. Requesting'
    BY <1>1, <2>2, <2>3 DEF CallInv, Requesting, M!ServedWhenAccepted
  <2>5. << >> \in Seq(Nat) /\ <<0>> \in Seq(Nat)
    OBVIOUS
  <2>6. /\ Read(stream') /\ stream'.at = 0 /\ stream'.content = << >> /\ stream'.thought = 0
        /\ stream'.calls = << >>
    BY <2>1, <2>5 DEF M!Unread, Read, StreamFields
  <2>7. PICK c : c = IF pending.content = << >> THEN << >> ELSE <<0>>
    OBVIOUS
  <2>8. /\ DOMAIN pending' = DOMAIN pending /\ pending'.delta = pending.delta /\ pending'.think = pending.think
        /\ pending'.content = c /\ pending'.thought = 0
    BY <2>1, <2>7 DEF CallInv, Reading, Sound
  <2>9. c \in Seq(Nat) /\ (c # << >> => M!Last(c) = 0)
    <3>1. M!Last(<<0>>) = 0
      BY DEF M!Last
    <3> QED BY <2>5, <2>7, <3>1
  <2>10. /\ DOMAIN shown' = {"text", "thought", "last", "calls"} /\ shown'.last = 0
         /\ shown'.calls = << >>
    BY <2>1
  <2>11. Sound(pending', shown')
    BY <2>8, <2>9, <2>10 DEF CallInv, Reading, Sound
  <2>12. Ordered(pending', shown', stream'.at)
    BY <2>6, <2>8, <2>9, <2>10 DEF CallInv, Reading, Ordered
  <2>13. Current(pending', shown', stream')
    BY <2>6, <2>10 DEF Current
  <2>14. Reading'
    BY <2>2, <2>6, <2>11, <2>12, <2>13 DEF Reading
  <2>15. InOrder
    <3>1. stream.at \in Nat /\ shown.last \in Nat /\ shown.last <= stream.at
      BY DEF CallInv, Reading, Read, Sound, Ordered
    <3> QED BY <2>6, <2>10, <3>1 DEF InOrder
  <2> QED BY <2>4, <2>14, <2>15 DEF CallInv
<1> QED BY <1>2, <1>3

(* A step that ends the reading and leaves the dispatcher alone.            *)
LEMMA IdleFacts ==
    ASSUME CallInv, Requesting', call'.pc \in {"waiting", "try", "failed"},
           UNCHANGED <<stream, pending, shown>>
    PROVE  CallInv' /\ InOrder
<1>1. Read(stream') /\ Sound(pending', shown') /\ Ordered(pending', shown', stream'.at)
  BY DEF CallInv, Reading
<1>2. InOrder
  BY DEF CallInv, Reading, Sound, InOrder
<1> QED BY <1>1, <1>2, LeavesFacts

LEMMA RefuseStep == CallInv /\ M!Refuse => CallInv' /\ InOrder
<1> SUFFICES ASSUME CallInv, M!Refuse PROVE CallInv' /\ InOrder
  OBVIOUS
<1>1. PICK e \in M!Errors : M!Possible(e) /\ M!Settle(e)
  BY DEF M!Refuse
<1>2. Requesting' /\ call'.pc \in {"waiting", "try", "failed"}
  BY <1>1, SettleFacts DEF CallInv, M!Refuse
<1> QED BY <1>2, IdleFacts DEF M!Refuse

LEMMA FailStep == CallInv /\ M!Fail => CallInv' /\ InOrder
<1> SUFFICES ASSUME CallInv, M!Fail PROVE CallInv' /\ InOrder
  OBVIOUS
<1>1. PICK e \in M!Errors : M!Possible(e) /\ M!Catch(e)
  BY DEF M!Fail
<1>2. Requesting' /\ call'.pc \in {"waiting", "try", "failed"}
  BY <1>1, CatchFacts DEF CallInv, M!Fail
<1> QED BY <1>2, IdleFacts DEF M!Fail

LEMMA AbortStep == CallInv /\ M!Abort => CallInv' /\ InOrder
<1> SUFFICES ASSUME CallInv, M!Abort PROVE CallInv' /\ InOrder
  OBVIOUS
<1>1. signal # "input" /\ call.pc # "idle" /\ call' = [call EXCEPT !.pc = "failed", !.error = signal]
  BY DEF M!Abort, CallInv, Requesting
<1>2. Requesting' /\ call'.pc = "failed"
  BY <1>1, AbortedFacts DEF CallInv, M!Abort
<1> QED BY <1>2, IdleFacts DEF M!Abort

LEMMA EmptyStep == CallInv /\ M!Empty => CallInv' /\ InOrder
<1> SUFFICES ASSUME CallInv, M!Empty PROVE CallInv' /\ InOrder
  OBVIOUS
<1>1. CASE call' = [call EXCEPT !.pc = "waiting", !.error = "empty"]
  <2>1. Requesting' /\ call'.pc = "waiting"
    BY <1>1, AbortedFacts DEF CallInv, M!Empty
  <2> QED BY <2>1, IdleFacts DEF M!Empty
<1>2. CASE call' = M!Break([call EXCEPT !.error = "empty"])
  <2>1. PICK c : c = [call EXCEPT !.error = "empty"]
    OBVIOUS
  <2>2. /\ DOMAIN c = CallFields /\ c.modes = call.modes /\ c.body = call.body /\ c.alt = call.alt
        /\ c.error = "empty"
    BY <2>1 DEF CallInv, Requesting, Tries, CallFields
  <2>3. Choice(call, world.accepts) /\ (call.alt => call.body = Len(call.modes))
    BY DEF CallInv, Requesting, Tries, M!Empty
  <2>4. Choice(c, world.accepts) /\ (c.alt /\ c.body < Len(c.modes) => c.modes[c.body] \notin world.accepts)
    BY <2>2, <2>3 DEF Choice
  <2>5. PICK d : d = call' /\ d = M!Break(c)
    BY <1>2, <2>1
  <2>6. Tries(d, world.accepts) /\ d.pc \in {"try", "failed"} /\ d.error = "empty"
    BY <2>2, <2>4, <2>5, BreakFacts DEF CallInv, Requesting
  <2>7. Requesting'
    BY <2>5, <2>6 DEF CallInv, Requesting, M!Empty, M!ServedWhenAccepted
  <2> QED BY <2>5, <2>6, <2>7, IdleFacts DEF M!Empty
<1> QED BY <1>1, <1>2 DEF M!Empty


LEMMA AcceptStep == CallInv /\ M!Accept => CallInv' /\ InOrder
<1> SUFFICES ASSUME CallInv, M!Accept PROVE CallInv' /\ InOrder
  OBVIOUS
<1>1. PICK p : stream' = [stream EXCEPT !.payload = p]
  BY DEF M!Accept
<1>2. /\ DOMAIN stream' = DOMAIN stream /\ stream'.at = stream.at /\ stream'.content = stream.content
      /\ stream'.thought = stream.thought /\ stream'.calls = stream.calls
  BY <1>1 DEF CallInv, Reading, Read, StreamFields
<1>3. UNCHANGED <<world, rejected, signal, pending, shown>>
  BY DEF M!Accept
<1>4. /\ DOMAIN call' = DOMAIN call /\ call'.modes = call.modes /\ call'.body = call.body
      /\ call'.alt = call.alt /\ call'.pc = "reading" /\ call.pc = "sent"
  BY DEF M!Accept, M!Goto, CallInv, Requesting, Tries, CallFields
<1>5. Tries(call', world.accepts)
  BY <1>4, TriesFacts DEF CallInv, Requesting
<1>6. Requesting'
  BY <1>3, <1>4, <1>5 DEF CallInv, Requesting, M!ServedWhenAccepted
<1>7. Current(pending', shown', stream')
  BY <1>2, <1>3, <1>4 DEF CallInv, Reading, Current
<1>8. Reading'
  BY <1>2, <1>3, <1>4, <1>7 DEF CallInv, Reading, Read
<1> QED BY <1>3, <1>6, <1>8 DEF CallInv, InOrder, Reading, Sound

LEMMA RetryStep == CallInv /\ M!Retry => CallInv' /\ InOrder
<1> SUFFICES ASSUME CallInv, M!Retry PROVE CallInv' /\ InOrder
  OBVIOUS
<1>1. PICK a : call' = [call EXCEPT !.pc = "try", !.attempt = a]
  BY DEF M!Retry
<1>2. UNCHANGED <<world, rejected, signal, stream, pending, shown>> /\ call.pc = "waiting"
  BY DEF M!Retry
<1>3. /\ DOMAIN call' = DOMAIN call /\ call'.modes = call.modes /\ call'.body = call.body
      /\ call'.alt = call.alt /\ call'.pc = "try"
  BY <1>1 DEF CallInv, Requesting, Tries, CallFields
<1>4. Tries(call', world.accepts)
  BY <1>2, <1>3, TriesFacts DEF CallInv, Requesting
<1>5. Requesting'
  BY <1>2, <1>3, <1>4 DEF CallInv, Requesting, M!ServedWhenAccepted
<1> QED BY <1>2, <1>3, <1>5, IdleFacts

(* What happens around the call leaves it as it is.                         *)
LEMMA AroundStep ==
    ASSUME CallInv, M!Interrupt \/ M!Timeout \/ \E mode \in M!Modes : M!OtherRejected(mode)
    PROVE  CallInv' /\ InOrder
<1>1. UNCHANGED <<world, call, stream, pending, shown>>
  BY DEF M!Interrupt, M!Timeout, M!OtherRejected
<1>2. Reading' /\ InOrder
  BY <1>1 DEF CallInv, Reading, InOrder, Sound
<1>3. CASE M!Interrupt \/ M!Timeout
  <2>1. signal' \in {"interrupt", "timeout"} /\ rejected' = rejected
    BY <1>3 DEF M!Interrupt, M!Timeout
  <2>2. Requesting'
    BY <1>1, <2>1 DEF CallInv, Requesting, M!ServedWhenAccepted
  <2> QED BY <1>2, <2>2 DEF CallInv
<1>4. ASSUME NEW mode \in M!Modes, M!OtherRejected(mode) PROVE CallInv' /\ InOrder
  <2>1. mode \notin world.accepts /\ signal' = signal /\ rejected' = rejected \cup {mode}
    BY <1>4 DEF M!OtherRejected
  <2>2. rejected' \subseteq M!Modes /\ rejected' \cap world.accepts = {}
    BY <2>1 DEF CallInv, Requesting, M!ServedWhenAccepted
  <2>3. Requesting'
    BY <1>1, <2>1, <2>2 DEF CallInv, Requesting, M!ServedWhenAccepted
  <2> QED BY <1>2, <2>3 DEF CallInv
<1> QED BY <1>3, <1>4

(* A piece is the latest of what was read.                                  *)
LEMMA AtFacts ==
    ASSUME CallInv
    PROVE  M!At \in Nat /\ M!At # 0 /\ stream.at <= M!At /\ M!At = stream.at + 1
BY DEF CallInv, Reading, Read, M!At

LEMMA LastOfAppended ==
    ASSUME NEW c \in Seq(Nat), NEW n \in Nat
    PROVE  Append(c, n) \in Seq(Nat) /\ Append(c, n) # << >> /\ M!Last(Append(c, n)) = n
<1>1. Append(c, n) \in Seq(Nat) /\ Len(Append(c, n)) = Len(c) + 1 /\ Append(c, n)[Len(c) + 1] = n
  OBVIOUS
<1> QED BY <1>1 DEF M!Last

LEMMA ReasoningStep == CallInv /\ M!Reasoning => CallInv' /\ InOrder
<1> SUFFICES ASSUME CallInv, M!Reasoning PROVE CallInv' /\ InOrder
  OBVIOUS
<1>1. PICK c, s : /\ s = [stream EXCEPT !.at = M!At, !.thought = M!At, !.candidate = c]
                  /\ \E o \in M!DispatchReasoning(M!Out, s) : M!Proceed(o, s)
  BY DEF M!Reasoning
<1>2. PICK o \in M!DispatchReasoning(M!Out, s) : M!Proceed(o, s)
  BY <1>1
<1>3. PICK a : a = M!At
  OBVIOUS
<1>4. s = [stream EXCEPT !.at = a, !.thought = a, !.candidate = c]
  BY <1>1, <1>3
<1>5. /\ DOMAIN s = DOMAIN stream /\ s.at = a /\ s.thought = a
      /\ s.content = stream.content /\ s.calls = stream.calls
  BY <1>4 DEF CallInv, Reading, Read, StreamFields
<1>6. call.pc = "reading" /\ UNCHANGED <<world, signal>>
  BY DEF M!Reasoning, M!MayRead
<1>7. Read(s)
  BY <1>3, <1>5, AtFacts DEF CallInv, Reading, Read
<1>8. /\ Moves(M!Out, o, s.at) /\ o.page.calls = M!Out.page.calls
      /\ ~o.thrown => /\ Content(o.pending, o.page) = Content(M!Out.pending, M!Out.page)
                      /\ Thinking(o.pending, o.page) = s.thought
  BY <1>2, <1>3, <1>5, AtFacts, OutFacts, DispatchReasoningFacts DEF CallInv
<1>9. Current(pending, shown, stream)
  BY <1>6 DEF CallInv, Reading
<1>10. ~o.thrown => Current(o.pending, o.page, s)
  BY <1>5, <1>8, <1>9, OutFacts DEF Current, CallInv
<1> QED BY <1>2, <1>6, <1>7, <1>8, <1>10, ProceedFacts

LEMMA TextStep == CallInv /\ M!Text => CallInv' /\ InOrder
<1> SUFFICES ASSUME CallInv, M!Text PROVE CallInv' /\ InOrder
  OBVIOUS
<1>1. PICK b, c, r, s :
         /\ s = [stream EXCEPT !.at = M!At, !.content = Append(stream.content, M!At), !.tagged = b, !.rank = r,
                               !.candidate = c]
         /\ \E o \in M!DispatchText(M!Out, s, FALSE) : M!Proceed(o, s)
  BY DEF M!Text
<1>2. PICK o \in M!DispatchText(M!Out, s, FALSE) : M!Proceed(o, s)
  BY <1>1
<1>3. PICK a, t : a = M!At /\ t = Append(stream.content, M!At)
  OBVIOUS
<1>4. s = [stream EXCEPT !.at = a, !.content = t, !.tagged = b, !.rank = r, !.candidate = c]
  BY <1>1, <1>3
<1>5. /\ DOMAIN s = DOMAIN stream /\ s.at = a /\ s.content = t
      /\ s.thought = stream.thought /\ s.calls = stream.calls
  BY <1>4 DEF CallInv, Reading, Read, StreamFields
<1>6. call.pc = "reading" /\ UNCHANGED <<world, signal>>
  BY DEF M!Text, M!MayRead
<1>7. t \in Seq(Nat) /\ M!Last(t) = a
  BY <1>3, AtFacts, LastOfAppended DEF CallInv, Reading, Read
<1>8. Read(s)
  BY <1>3, <1>5, <1>7, AtFacts DEF CallInv, Reading, Read
<1>9. /\ Moves(M!Out, o, s.at) /\ o.page.calls = M!Out.page.calls
      /\ ~o.thrown => /\ Thinking(o.pending, o.page) = Thinking(M!Out.pending, M!Out.page)
                      /\ Content(o.pending, o.page) = s.content
  <2>1. PICK f \in BOOLEAN : f = FALSE
    OBVIOUS
  <2>2. o \in M!DispatchText(M!Out, s, f)
    BY <1>2, <2>1
  <2>3. s.at \in Nat /\ stream.at <= s.at /\ s.content \in Seq(Nat) /\ M!Last(s.content) = s.at
    BY <1>3, <1>5, <1>7, AtFacts
  <2> QED BY <2>1, <2>2, <2>3, OutFacts, DispatchTextFacts DEF CallInv
<1>10. Current(pending, shown, stream)
  BY <1>6 DEF CallInv, Reading
<1>11. ~o.thrown => Current(o.pending, o.page, s)
  BY <1>5, <1>9, <1>10, OutFacts DEF Current, CallInv
<1> QED BY <1>2, <1>6, <1>8, <1>9, <1>11, ProceedFacts


LEMMA LaterFacts ==
    ASSUME NEW o, Held(o), NEW at \in Nat, Ordered(o.pending, o.page, at), NEW b \in Nat, at <= b
    PROVE  Ordered(o.pending, o.page, b)
<1>1. o.pending.content # << >> => M!Last(o.pending.content) \in Nat
  BY LastFacts DEF Held, Sound
<1> QED BY <1>1 DEF Held, Sound, Ordered

LEMMA UnthinkStep == CallInv /\ M!Unthink => CallInv' /\ InOrder
<1> SUFFICES ASSUME CallInv, M!Unthink PROVE CallInv' /\ InOrder
  OBVIOUS
<1>1. PICK empty \in BOOLEAN, told \in {TRUE, stream.thought = 0} :
         LET s == [stream EXCEPT !.at = M!At, !.content = IF empty THEN << >> ELSE <<M!At>>,
                                 !.thought = IF told THEN M!At ELSE @, !.candidate = FALSE, !.tagged = FALSE]
         IN  \E o \in M!Then(IF told THEN M!DispatchReasoning(M!Out, s) ELSE {M!Out},
                             LAMBDA b : M!DispatchText(b, s, empty)) : M!Proceed(o, s)
  BY Zenon DEF M!Unthink
<1>13. told \in BOOLEAN
  OBVIOUS
<1>3. PICK a : a = M!At
  OBVIOUS
<1>14. PICK t : t = IF empty THEN << >> ELSE <<a>>
  OBVIOUS
<1>15. PICK h : h = IF told THEN a ELSE stream.thought
  OBVIOUS
<1>16. PICK f : f = FALSE
  OBVIOUS
<1>20. PICK o : LET s == [stream EXCEPT !.at = M!At, !.content = IF empty THEN << >> ELSE <<M!At>>,
                                 !.thought = IF told THEN M!At ELSE @, !.candidate = FALSE, !.tagged = FALSE]
         IN  /\ \E b \in (IF told THEN M!DispatchReasoning(M!Out, s) ELSE {M!Out}) :
                   o \in IF b.thrown THEN {b} ELSE M!DispatchText(b, s, empty)
             /\ M!Proceed(o, s)
  BY <1>1 DEF M!Then
<1>19. PICK s :
           /\ s = [stream EXCEPT !.at = M!At, !.content = IF empty THEN << >> ELSE <<M!At>>,
                                 !.thought = IF told THEN M!At ELSE stream.thought,
                                 !.candidate = FALSE, !.tagged = FALSE]
           /\ \E b \in (IF told THEN M!DispatchReasoning(M!Out, s) ELSE {M!Out}) :
                   o \in IF b.thrown THEN {b} ELSE M!DispatchText(b, s, empty)
           /\ M!Proceed(o, s)
  BY <1>20
<1>4. s = [stream EXCEPT !.at = a, !.content = t, !.thought = h, !.candidate = f, !.tagged = f]
  BY <1>19, <1>3, <1>14, <1>15, <1>16
<1>2. PICK b \in (IF told THEN M!DispatchReasoning(M!Out, s) ELSE {M!Out}) :
         /\ IF b.thrown THEN o = b ELSE o \in M!DispatchText(b, s, empty)
         /\ M!Proceed(o, s)
  BY <1>19
<1>5. /\ DOMAIN s = DOMAIN stream /\ s.at = a /\ s.content = t
      /\ s.thought = h /\ s.calls = stream.calls
  BY <1>4 DEF CallInv, Reading, Read, StreamFields
<1>6. call.pc = "reading" /\ UNCHANGED <<world, signal>>
  BY DEF M!Unthink, M!MayRead
<1>18. (told => h = a) /\ (~told => h = stream.thought)
  BY <1>15
<1>7. a \in Nat /\ stream.at <= a /\ h \in Nat /\ stream.at \in Nat
  <2>1. a \in Nat /\ stream.at <= a /\ stream.thought \in Nat /\ stream.at \in Nat
    BY <1>3, AtFacts DEF CallInv, Reading, Read
  <2> QED BY <1>13, <1>18, <2>1
<1>8. t \in Seq(Nat) /\ (t # << >> => M!Last(t) = a) /\ (~empty => t # << >>) /\ (empty => t = << >>)
  <2>1. <<a>> \in Seq(Nat) /\ << >> \in Seq(Nat) /\ <<a>> # << >> /\ M!Last(<<a>>) = a
    BY <1>7 DEF M!Last
  <2> QED BY <1>14, <2>1
<1>9. Read(s)
  BY <1>5, <1>7, <1>8 DEF CallInv, Reading, Read
<1>10. Current(pending, shown, stream)
  BY <1>6 DEF CallInv, Reading
<1>11. /\ Held(b) /\ Ordered(b.pending, b.page, a) /\ shown.last <= b.page.last
       /\ b.page.calls = shown.calls /\ b.page.last \in Nat
       /\ ~b.thrown => /\ s.thought # 0 => Thinking(b.pending, b.page) = s.thought
  <2>1. CASE told
    <3>1. b \in M!DispatchReasoning(M!Out, s)
      BY <1>2, <2>1
    <3>2. s.at \in Nat /\ stream.at <= s.at /\ s.thought = s.at /\ s.at = a
      BY <1>5, <1>7, <1>18, <2>1
    <3>3. /\ Moves(M!Out, b, a) /\ b.page.calls = M!Out.page.calls
          /\ ~b.thrown => Thinking(b.pending, b.page) = s.thought
      BY <3>1, <3>2, OutFacts, DispatchReasoningFacts DEF CallInv
    <3> QED BY <3>3, OutFacts DEF CallInv, Moves, Held, Sound
  <2>2. CASE ~told
    <3>1. b = M!Out
      BY <1>2, <2>2
    <3>2. Held(b) /\ Ordered(b.pending, b.page, a) /\ b.pending = pending /\ b.page = shown
      BY <1>7, <3>1, OutFacts, LaterFacts DEF CallInv
    <3>3. s.thought = stream.thought
      BY <1>5, <1>18, <2>2
    <3>4. b.page.last \in Nat
      BY <3>2 DEF Held, Sound
    <3> QED BY <1>10, <3>2, <3>3, <3>4 DEF Current
  <2> QED BY <2>1, <2>2
<1>12. Moves(M!Out, o, s.at) /\ (~o.thrown => Current(o.pending, o.page, s))
  <2>1. CASE b.thrown
    <3>1. o = b
      BY <1>2, <2>1
    <3> QED BY <1>5, <1>11, <2>1, <3>1, OutFacts DEF CallInv, Moves
  <2>2. CASE ~b.thrown
    <3>1. o \in M!DispatchText(b, s, empty)
      BY <1>2, <2>2
    <3>2. /\ Moves(b, o, a) /\ o.page.calls = b.page.calls
          /\ ~o.thrown => /\ Thinking(o.pending, o.page) = Thinking(b.pending, b.page)
                          /\ ~empty => Content(o.pending, o.page) = s.content
      BY <1>5, <1>7, <1>8, <1>11, <2>2, <3>1, DispatchTextFacts
    <3>3. shown.last <= o.page.last
      <4>1. shown.last \in Nat /\ o.page.last \in Nat /\ b.page.last <= o.page.last
        BY <3>2 DEF CallInv, Reading, Sound, Moves, Held
      <4> QED BY <1>11, <4>1
    <3>4. Moves(M!Out, o, s.at)
      BY <1>5, <3>2, <3>3, OutFacts DEF CallInv, Moves
    <3>5. ASSUME ~o.thrown PROVE Current(o.pending, o.page, s)
      BY <1>5, <1>8, <1>10, <1>11, <2>2, <3>2, <3>5 DEF Current
    <3> QED BY <3>4, <3>5
  <2> QED BY <2>1, <2>2
<1> QED BY <1>2, <1>6, <1>9, <1>12, ProceedFacts

LEMMA ToolCallStep == CallInv /\ M!ToolCall => CallInv' /\ InOrder
<1> SUFFICES ASSUME CallInv, M!ToolCall PROVE CallInv' /\ InOrder
  OBVIOUS
<1>1. PICK id, s, x : LET seen == id \in M!ToSet(stream.calls) IN
         /\ x = IF seen THEN stream.calls ELSE Append(stream.calls, id)
         /\ s = [stream EXCEPT !.at = M!At, !.calls = x, !.rank = 1]
         /\ \E o \in (IF seen THEN {M!Out} ELSE M!DispatchCall(M!Out, id)) : M!Proceed(o, s)
  BY DEF M!ToolCall
<1> DEFINE seen == id \in M!ToSet(stream.calls)
<1>3. PICK o \in (IF seen THEN {M!Out} ELSE M!DispatchCall(M!Out, id)) : M!Proceed(o, s)
  BY <1>1
<1>4. PICK a : a = M!At
  OBVIOUS
<1>5. s = [stream EXCEPT !.at = a, !.calls = x, !.rank = 1]
  BY <1>1, <1>4
<1>6. /\ DOMAIN s = DOMAIN stream /\ s.at = a /\ s.calls = x
      /\ s.thought = stream.thought /\ s.content = stream.content
  BY <1>5 DEF CallInv, Reading, Read, StreamFields
<1>7. call.pc = "reading" /\ UNCHANGED <<world, signal>>
  BY DEF M!ToolCall, M!MayRead
<1>8. a \in Nat /\ stream.at <= a /\ stream.at \in Nat
  BY <1>4, AtFacts DEF CallInv, Reading, Read
<1>9. Read(s)
  BY <1>6, <1>8 DEF CallInv, Reading, Read
<1>10. Current(pending, shown, stream)
  BY <1>7 DEF CallInv, Reading
<1>11. CASE seen
  <2>1. o = M!Out /\ x = stream.calls
    BY <1>1, <1>3, <1>11
  <2>2. Held(o) /\ Ordered(o.pending, o.page, a) /\ o.pending = pending /\ o.page = shown
    BY <1>8, <2>1, OutFacts, LaterFacts DEF CallInv
  <2>3. Moves(M!Out, o, s.at)
    BY <1>6, <2>1, <2>2 DEF Moves, Held, Sound
  <2>4. Current(o.pending, o.page, s)
    BY <1>6, <1>10, <2>1, <2>2 DEF Current
  <2> QED BY <1>3, <1>7, <1>9, <2>3, <2>4, ProceedFacts
<1>12. CASE ~seen
  <2>1. o \in M!DispatchCall(M!Out, id) /\ x = Append(stream.calls, id)
    BY <1>1, <1>3, <1>12
  <2>2. /\ Moves(M!Out, o, stream.at)
        /\ ~o.thrown => /\ Content(o.pending, o.page) = Content(M!Out.pending, M!Out.page)
                        /\ Thinking(o.pending, o.page) = Thinking(M!Out.pending, M!Out.page)
                        /\ o.page.calls = Append(M!Out.page.calls, id)
    BY <2>1, OutFacts, DispatchCallFacts DEF CallInv
  <2>3. Moves(M!Out, o, s.at)
    BY <1>6, <1>8, <2>2, LaterFacts DEF Moves
  <2>4. ~o.thrown => Current(o.pending, o.page, s)
    BY <1>6, <1>10, <2>1, <2>2, OutFacts DEF Current, CallInv
  <2> QED BY <1>3, <1>7, <1>9, <2>3, <2>4, ProceedFacts
<1> QED BY <1>11, <1>12

(* Returned, the dispatcher has nothing left to flush.                      *)
LEMMA ReturnStep == CallInv /\ M!Return => CallInv' /\ InOrder
<1> SUFFICES ASSUME CallInv, M!Return PROVE CallInv' /\ InOrder
  OBVIOUS
<1>1. PICK x, s : x = M!TextCalls(stream) /\ s = [stream EXCEPT !.calls = x]
  OBVIOUS
<1>2. /\ DOMAIN s = DOMAIN stream /\ s.at = stream.at /\ s.calls = x
      /\ s.thought = stream.thought /\ s.content = stream.content
  BY <1>1 DEF CallInv, Reading, Read, StreamFields
<1>3. PICK new \in BOOLEAN : new = (s.calls # stream.calls)
  OBVIOUS
<1>4. call.pc = "reading" /\ UNCHANGED <<world, signal>>
  BY DEF M!Return
<1>5. Read(s)
  BY <1>2 DEF CallInv, Reading, Read
<1>6. Current(pending, shown, stream)
  BY <1>4 DEF CallInv, Reading
<1>7. CASE M!Proceed(M!Thrown(M!Out), stream)
  <2>1. PICK o : o = M!Thrown(M!Out)
    OBVIOUS
  <2>2. DOMAIN o = DOMAIN M!Out /\ o.thrown = TRUE /\ o.page = shown /\ o.pending = pending
    BY <2>1, OutFacts, ThrownFacts DEF CallInv
  <2>4. Held(o)
    BY <2>2, OutFacts DEF CallInv, Held
  <2>5. Ordered(o.pending, o.page, stream.at)
    BY <2>2, OutFacts DEF CallInv
  <2>3. Moves(M!Out, o, stream.at)
    BY <2>2, <2>4, <2>5, OutFacts DEF CallInv, Moves, Held, Sound
  <2> QED BY <1>4, <1>7, <2>1, <2>2, <2>3, ProceedFacts DEF CallInv, Reading
<1>8. ASSUME NEW o \in (IF new THEN M!DispatchCall(M!Out, "text") ELSE {M!Out}),
             IF o.thrown THEN M!Proceed(o, s)
             ELSE \E end \in M!Flush(o) :
                    /\ stream' = s /\ pending' = end.pending /\ shown' = end.page
                    /\ IF end.thrown THEN call' = [call EXCEPT !.pc = "failed", !.error = "other"]
                       ELSE M!Goto("returned")
                    /\ UNCHANGED rejected
      PROVE  CallInv' /\ InOrder
  <2>1. /\ Moves(M!Out, o, s.at)
        /\ ~o.thrown => Current(o.pending, o.page, s)
    <3>1. CASE new
      <4>1. stream.calls = << >> /\ x = <<"text">>
        BY <1>1, <1>2, <1>3, <3>1 DEF M!TextCalls
      <4>2. o \in M!DispatchCall(M!Out, "text")
        BY <1>8, <3>1
      <4>3. /\ Moves(M!Out, o, stream.at)
            /\ ~o.thrown => /\ Content(o.pending, o.page) = Content(M!Out.pending, M!Out.page)
                            /\ Thinking(o.pending, o.page) = Thinking(M!Out.pending, M!Out.page)
                            /\ o.page.calls = Append(M!Out.page.calls, "text")
        BY <4>2, OutFacts, DispatchCallFacts DEF CallInv
      <4>4. Append(<< >>, "text") = <<"text">>
        OBVIOUS
      <4> QED BY <1>2, <1>6, <4>1, <4>3, <4>4, OutFacts DEF Current, CallInv
    <3>2. CASE ~new
      <4>1. o = M!Out /\ s.calls = stream.calls
        BY <1>3, <1>8, <3>2
      <4>2. Moves(M!Out, o, s.at)
        BY <1>2, <4>1, OutFacts DEF Moves, CallInv, Held, Sound
      <4> QED BY <1>2, <1>6, <4>1, <4>2, OutFacts DEF Current, CallInv
    <3> QED BY <3>1, <3>2
  <2>2. CASE o.thrown
    BY <1>4, <1>5, <1>8, <2>1, <2>2, ProceedFacts
  <2>3. CASE ~o.thrown
    <3>1. PICK end \in M!Flush(o) :
             /\ stream' = s /\ pending' = end.pending /\ shown' = end.page
             /\ IF end.thrown THEN call' = [call EXCEPT !.pc = "failed", !.error = "other"]
                ELSE M!Goto("returned")
             /\ UNCHANGED rejected
      BY <1>8, <2>3
    <3>2. s.at \in Nat /\ Held(o) /\ Ordered(o.pending, o.page, s.at)
      BY <1>5, <2>1 DEF Read, Moves
    <3>3. Keeps(o, end, s.at) /\ (~end.thrown => ~end.pending.delta /\ ~end.pending.think)
      BY <2>3, <3>1, <3>2, FlushFacts
    <3>4. Read(stream') /\ Sound(pending', shown') /\ Ordered(pending', shown', stream'.at)
      BY <1>5, <3>1, <3>3 DEF Keeps, Held
    <3>5. InOrder
      <4>1. shown.last <= o.page.last /\ o.page.last <= end.page.last
        BY <2>1, <3>3, OutFacts DEF CallInv, Moves, Keeps
      <4>2. shown.last \in Nat /\ o.page.last \in Nat /\ end.page.last \in Nat
        BY <3>2, <3>3 DEF CallInv, Reading, Sound, Held, Keeps
      <4> QED BY <3>1, <4>1, <4>2 DEF InOrder
    <3>6. CASE end.thrown
      <4>1. call' = [call EXCEPT !.pc = "failed", !.error = "other"]
        BY <3>1, <3>6
      <4>2. Requesting' /\ call'.pc = "failed"
        BY <1>4, <3>1, <4>1, AbortedFacts DEF CallInv
      <4> QED BY <3>4, <3>5, <4>2, LeavesFacts
    <3>7. CASE ~end.thrown
      <4>1. call' = [call EXCEPT !.pc = "returned"] /\ rejected' = rejected
        BY <3>1, <3>7 DEF M!Goto
      <4>2. /\ DOMAIN call' = DOMAIN call /\ call'.modes = call.modes /\ call'.body = call.body
            /\ call'.alt = call.alt /\ call'.pc = "returned"
        BY <4>1 DEF CallInv, Requesting, Tries, CallFields
      <4>3. Tries(call', world.accepts)
        BY <1>4, <4>2, TriesFacts DEF CallInv, Requesting
      <4>4. Requesting'
        BY <1>4, <4>1, <4>2, <4>3 DEF CallInv, Requesting, M!ServedWhenAccepted
      <4>5. Current(pending', shown', stream')
        BY <2>1, <2>3, <3>1, <3>3, <3>7 DEF Current, Keeps
      <4>6. ~pending'.delta /\ ~pending'.think
        BY <3>1, <3>3, <3>7
      <4>7. Reading'
        BY <3>4, <4>2, <4>5, <4>6 DEF Reading
      <4> QED BY <3>5, <4>4, <4>7 DEF CallInv
    <3> QED BY <3>6, <3>7
  <2> QED BY <2>2, <2>3
<1> QED BY <1>1, <1>3, <1>7, <1>8 DEF M!Return

LEMMA StutterStep == CallInv /\ UNCHANGED M!vars => CallInv' /\ InOrder
<1> SUFFICES ASSUME CallInv, UNCHANGED M!vars PROVE CallInv' /\ InOrder
  OBVIOUS
<1>1. UNCHANGED <<world, rejected, signal, call, stream, pending, shown>>
  BY DEF M!vars
<1> QED BY <1>1 DEF CallInv, Requesting, Reading, M!ServedWhenAccepted, InOrder, Sound

LEMMA CallInductive == CallInv /\ [M!Next]_(M!vars) => CallInv' /\ InOrder
<1> SUFFICES ASSUME CallInv, [M!Next]_(M!vars) PROVE CallInv' /\ InOrder
  OBVIOUS
<1>1. CASE M!Begin  BY <1>1, BeginStep
<1>2. CASE M!Send  BY <1>2, SendStep
<1>3. CASE M!Refuse  BY <1>3, RefuseStep
<1>4. CASE M!Accept  BY <1>4, AcceptStep
<1>5. CASE M!Reasoning  BY <1>5, ReasoningStep
<1>6. CASE M!Text  BY <1>6, TextStep
<1>7. CASE M!Unthink  BY <1>7, UnthinkStep
<1>8. CASE M!ToolCall  BY <1>8, ToolCallStep
<1>9. CASE M!Fail  BY <1>9, FailStep
<1>10. CASE M!Empty  BY <1>10, EmptyStep
<1>11. CASE M!Return  BY <1>11, ReturnStep
<1>12. CASE M!Retry  BY <1>12, RetryStep
<1>13. CASE M!Abort  BY <1>13, AbortStep
<1>14. CASE M!Interrupt \/ M!Timeout \/ \E mode \in M!Modes : M!OtherRejected(mode)
  BY <1>14, AroundStep
<1>15. CASE UNCHANGED M!vars  BY <1>15, StutterStep
<1> QED
  BY <1>1, <1>2, <1>3, <1>4, <1>5, <1>6, <1>7, <1>8, <1>9, <1>10, <1>11, <1>12, <1>13, <1>14, <1>15
  DEF M!Next

LEMMA CallShows == CallInv => M!AnswerShown /\ M!ServedWhenAccepted
BY DEF CallInv, Requesting, Reading, Current, Content, Thinking, M!AnswerShown

(* Whatever the provider takes, cuts into pieces, repeats or breaks off,    *)
(* and whenever the user or the timeout ends it: a call that returns has    *)
(* shown the whole answer in the order it was read, and no call fails for   *)
(* its input while the provider takes the other serialization               *)
(* (createModelStreamDispatcher, requestModelResponse).                     *)
THEOREM AnswersAreShown == M!Spec => AnswerShown
<1>1. CallInv /\ [M!Next]_(M!vars) => CallInv'
  BY CallInductive
<1>2. CallInv /\ [M!Next]_(M!vars) => [InOrder]_(M!vars)
  BY CallInductive
<1>3. M!ShownInOrder <=> [][InOrder]_(M!vars)
  BY DEF M!ShownInOrder, InOrder
<1> QED BY InitCall, CallShows, <1>1, <1>2, <1>3, PTL DEF M!Spec, AnswerShown
===============================================================================
