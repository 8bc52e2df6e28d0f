----------------------------- MODULE ModelCall -----------------------------
(***************************************************************************)
(* One call of the turn loop to the model provider: the request with its   *)
(* two input serializations and transient retries (requestModelResponse),  *)
(* the reader of the stream or payload that answers it, and the dispatcher *)
(* that batches what is read into events for the pages, with the           *)
(* stream-guard hook that may stop the response.  Calls follow one another *)
(* in a turn; the memory of the serializations a provider rejected         *)
(* outlives them and is shared with the calls of other sessions.           *)
(*                                                                         *)
(* What is read is a sequence of pieces, named by their place in it; a     *)
(* content is the sequence of the places of its pieces, and place 0 is     *)
(* whatever an earlier attempt left.                                       *)
(***************************************************************************)
EXTENDS Naturals, SequencesExt

CONSTANTS Ids,        \* ids of the calls a provider asks for
          MaxCalls,   \* bound: calls of the turn
          MaxPieces,  \* bound: pieces of an answer
          Attempts    \* MAX_TRANSIENT_ATTEMPTS

AttemptsAssumption == {MaxCalls, MaxPieces, Attempts} \subseteq Nat \ {0}

Modes == {"text", "array"}
\* How an answer fails: as a transport error, as a tool call or an input
\* the provider could not parse, or as anything else.
Errors == {"network", "toolcall", "input", "other"}

VARIABLES
    world,     \* what the provider accepts, and runtime.strictPrefixCache: fixed
    rejected,  \* rejectedProviderInputModes of the provider's endpoint and model
    signal,    \* the reason of the combined abort signal: "none", "interrupt" or "timeout"
    call,      \* the request: its serializations, its attempt
    stream,    \* what readResponsesStream has read of the attempt's answer
    pending,   \* what the dispatcher holds back
    page       \* what the events of the call showed

vars == <<world, rejected, signal, call, stream, pending, page>>

Unread == [at |-> 0, content |-> << >>, thought |-> 0, candidate |-> TRUE,
           calls |-> << >>, tagged |-> FALSE, payload |-> FALSE, rank |-> 0]
Live == {"try", "sent", "reading", "waiting"}

Init ==
    /\ world \in [accepts: SUBSET Modes, strict: BOOLEAN]
    /\ rejected = {}
    /\ signal = "none"
    /\ call = [n |-> 0, pc |-> "idle", modes |-> << >>, body |-> 0, attempt |-> 0, alt |-> FALSE, error |-> ""]
    /\ stream = Unread
    /\ pending = [delta |-> FALSE, content |-> << >>, candidate |-> FALSE, think |-> FALSE, thought |-> 0]
    /\ page = [text |-> << >>, thought |-> 0, last |-> 0, calls |-> << >>]

Mode == call.modes[call.body]
Goto(pc) == call' = [call EXCEPT !.pc = pc]

(***************************************************************************)
(* The dispatcher: operators from what it holds and what the page has,     *)
(* o = [pending, page, thrown], to what they may become.  A flush takes    *)
(* what waits first; then the stream guard may stop the response, or the   *)
(* event fail, and what was taken is not shown.                            *)
(***************************************************************************)
Out == [pending |-> pending, page |-> page, thrown |-> FALSE]
Thrown(o) == [o EXCEPT !.thrown = TRUE]
Then(os, F(_)) == UNION {IF o.thrown THEN {o} ELSE F(o) : o \in os}

FlushText(o) ==
    IF ~o.pending.delta THEN {o}
    ELSE LET taken == [o EXCEPT !.pending.delta = FALSE, !.pending.content = << >>]
         IN  {Thrown(taken), [taken EXCEPT !.page.text = o.pending.content,
                                           !.page.last = IF o.pending.content = << >> THEN @
                                                           ELSE Last(o.pending.content)]}

FlushReasoning(o) ==
    IF ~o.pending.think THEN {o}
    ELSE LET taken == [o EXCEPT !.pending.think = FALSE]
         IN  {Thrown(taken), [taken EXCEPT !.page.thought = o.pending.thought,
                                           !.page.last = o.pending.thought]}

Flush(o) == Then(FlushText(o), FlushReasoning)

\* Whether a batch is long or old enough to be flushed is open.
MayFlush(o, F(_)) == {o} \cup F(o)

(* Seeded bug: a text does not flush the reasoning that waits.              *)
DispatchTextOver(o, s, empty) ==
    MayFlush([o EXCEPT !.pending.delta = @ \/ ~empty, !.pending.content = s.content,
                       !.pending.candidate = s.candidate], FlushText)

\* dispatcher.text: a delta, empty or not, that makes the content s.content.
DispatchText(o, s, empty) ==
    LET changed == o.pending.think \/ (o.pending.delta /\ o.pending.candidate # s.candidate)
        Put(b) == [b EXCEPT !.pending.delta = @ \/ ~empty, !.pending.content = s.content,
                            !.pending.candidate = s.candidate]
    IN  Then(IF changed THEN Flush(o) ELSE {o}, LAMBDA b : MayFlush(Put(b), FlushText))

\* dispatcher.reasoning: a summary replaces the one before it.
DispatchReasoning(o, s) ==
    LET Put(b) == [b EXCEPT !.pending.think = TRUE, !.pending.thought = s.thought]
    IN  Then(FlushText(o), LAMBDA b : MayFlush(Put(b), FlushReasoning))

\* onToolCall: what waits is flushed before the hook is told of the call.
DispatchCall(o, id) == Then(Flush(o), LAMBDA b : {[b EXCEPT !.page.calls = Append(@, id)]})

(***************************************************************************)
(* The request.                                                            *)
(***************************************************************************)
\* A body that is done with: the next one, when the provider rejected an
\* input, or the error of the last attempt.
Break(c) ==
    IF c.alt /\ c.body < Len(c.modes)
    THEN [c EXCEPT !.pc = "try", !.body = @ + 1, !.attempt = 1]
    ELSE [c EXCEPT !.pc = "failed"]

(* Seeded bug: the serialization to try next is remembered as rejected.     *)
SettleNext(e) ==
    LET c == [call EXCEPT !.error = e] IN
    \/ /\ e \in {"network", "toolcall"} /\ call.attempt < Attempts
       /\ call' = [c EXCEPT !.pc = "waiting"] /\ UNCHANGED rejected
    \/ /\ e = "input" /\ ~world.strict
       /\ call' = Break([c EXCEPT !.alt = TRUE])
       /\ rejected' = rejected \cup (Modes \ {Mode})
    \/ /\ e = "other" \/ (e # "input" /\ call.attempt = Attempts) \/ (e = "input" /\ world.strict)
       /\ call' = Break(c) /\ UNCHANGED rejected

\* What an error of an attempt leads to.
Settle(e) ==
    LET c == [call EXCEPT !.error = e] IN
    \/ /\ e \in {"network", "toolcall"} /\ call.attempt < Attempts
       /\ call' = [c EXCEPT !.pc = "waiting"] /\ UNCHANGED rejected
    \/ /\ e = "input" /\ ~world.strict
       /\ call' = Break([c EXCEPT !.alt = TRUE])
       /\ rejected' = rejected \cup {Mode}
    \/ /\ e = "other" \/ (e # "input" /\ call.attempt = Attempts) \/ (e = "input" /\ world.strict)
       /\ call' = Break(c) /\ UNCHANGED rejected

\* Only an input that the provider does not take is rejected.
Possible(e) == e = "input" => Mode \notin world.accepts

\* The handler of the attempt's exceptions: an abort outweighs them.
Catch(e) ==
    IF signal # "none"
    THEN call' = [call EXCEPT !.pc = "failed", !.error = signal] /\ UNCHANGED rejected
    ELSE Settle(e)

\* The rest of an attempt after the dispatcher came to o.
Proceed(o, s) ==
    /\ pending' = o.pending /\ page' = o.page /\ stream' = s
    /\ IF o.thrown THEN \E e \in {"network", "other"} : Catch(e) ELSE UNCHANGED <<call, rejected>>

\* The serializations to try, in one of the two orders: those the provider
\* is not known to reject, or else the preferred one.
Serializations ==
    IF rejected = {} THEN {<<"text", "array">>, <<"array", "text">>}
    ELSE {<<mode>> : mode \in IF rejected = Modes THEN Modes ELSE Modes \ rejected}

\* callTurnModel enters requestModelResponse.
Begin ==
    /\ call.pc \notin Live /\ call.n < MaxCalls
    /\ \E modes \in Serializations :
         call' = [n |-> call.n + 1, pc |-> "try", body |-> 1, attempt |-> 1, alt |-> FALSE, error |-> "",
                  modes |-> modes]
    /\ signal' = "none" /\ stream' = Unread
    /\ pending' = [pending EXCEPT !.delta = FALSE, !.content = << >>, !.think = FALSE]
    /\ page' = [text |-> << >>, thought |-> 0, last |-> 0, calls |-> << >>]
    /\ UNCHANGED <<world, rejected>>

\* The head of the attempt loop, up to the fetch.
Send ==
    /\ call.pc = "try"
    /\ IF signal # "none"
       THEN /\ call' = [call EXCEPT !.pc = "failed", !.error = signal]
            /\ UNCHANGED <<stream, pending, page>>
       ELSE /\ Goto("sent")
            /\ stream' = Unread
            /\ pending' = [pending EXCEPT !.content = IF @ = << >> THEN @ ELSE <<0>>, !.thought = 0]
            /\ page' = [text |-> IF page.text = << >> THEN << >> ELSE <<0>>,
                        thought |-> 0, last |-> 0, calls |-> << >>]
    /\ UNCHANGED <<world, rejected, signal>>

\* An answer without success, or the fetch fails.
Refuse ==
    /\ call.pc = "sent"
    /\ \E e \in Errors \ {"toolcall"} : Possible(e) /\ Settle(e)
    /\ UNCHANGED <<world, signal, stream, pending, page>>

Accept ==
    /\ call.pc = "sent" /\ Mode \in world.accepts
    /\ \E p \in BOOLEAN : stream' = [stream EXCEPT !.payload = p]
    /\ Goto("reading")
    /\ UNCHANGED <<world, rejected, signal, pending, page>>

(***************************************************************************)
(* The reader.  A stream looks at the signal before each read; the         *)
(* callbacks of both throw at an interrupt.  A payload hands over its      *)
(* reasoning, its calls and its text, in this order.                       *)
(***************************************************************************)
MayRead(rank) ==
    /\ call.pc = "reading" /\ stream.at < MaxPieces
    /\ IF stream.payload THEN signal # "interrupt" /\ rank >= stream.rank ELSE signal = "none"

At == stream.at + 1

\* A reasoning of its own, or one between thinking marks in the text: the
\* marks tell that what follows is no thinking.
Reasoning ==
    /\ MayRead(0)
    /\ \E marked \in (IF stream.payload THEN {FALSE} ELSE BOOLEAN) :
         LET s == [stream EXCEPT !.at = At, !.thought = At, !.candidate = @ /\ ~marked]
         IN  \E o \in DispatchReasoning(Out, s) : Proceed(o, s)
    /\ UNCHANGED <<world, signal>>

Text ==
    /\ MayRead(2) /\ (stream.payload => stream.content = << >>)
    /\ \E tagged \in (IF stream.payload THEN {FALSE} ELSE BOOLEAN) :
         LET s == [stream EXCEPT !.at = At, !.content = Append(@, At), !.tagged = @ \/ tagged, !.rank = 2,
                                 !.candidate = @ /\ ~stream.payload]
         IN  \E o \in DispatchText(Out, s, FALSE) : Proceed(o, s)
    /\ UNCHANGED <<world, signal>>

\* A closing mark without an opening one: the text before it was thinking.
\* What follows it is the content, often nothing.
Unthink ==
    /\ MayRead(2) /\ ~stream.payload /\ stream.content # << >>
    /\ \E empty \in BOOLEAN, told \in {TRUE, stream.thought = 0} :
         LET s == [stream EXCEPT !.at = At, !.content = IF empty THEN << >> ELSE <<At>>,
                                 !.thought = IF told THEN At ELSE @, !.candidate = FALSE, !.tagged = FALSE]
         IN  \E o \in Then(IF told THEN DispatchReasoning(Out, s) ELSE {Out},
                           LAMBDA b : DispatchText(b, s, empty)) :
               Proceed(o, s)
    /\ UNCHANGED <<world, signal>>

\* A call, which a stream may repeat.
ToolCall ==
    /\ MayRead(1)
    /\ \E id \in Ids :
         LET seen == id \in ToSet(stream.calls)
             s == [stream EXCEPT !.at = At, !.calls = IF seen THEN @ ELSE Append(@, id), !.rank = 1]
         IN  /\ stream.payload => ~seen
             /\ \E o \in (IF seen THEN {Out} ELSE DispatchCall(Out, id)) : Proceed(o, s)
    /\ UNCHANGED <<world, signal>>

\* The answer breaks off, reports a failure or cannot be parsed.
Fail ==
    /\ call.pc = "reading"
    /\ \E e \in Errors : Possible(e) /\ Catch(e)
    /\ UNCHANGED <<world, signal, stream, pending, page>>

(***************************************************************************)
(* The end of the answer.  One without content and calls is asked for      *)
(* again; one that is returned has the dispatcher flushed by               *)
(* callTurnModel, where a stop of the guard is the failure of the turn.    *)
(***************************************************************************)
Empty ==
    /\ call.pc = "reading" /\ stream.content = << >> /\ stream.calls = << >>
    /\ IF ~stream.payload /\ call.attempt < Attempts
       THEN call' = [call EXCEPT !.pc = "waiting", !.error = "empty"]
       ELSE call' = Break([call EXCEPT !.error = "empty"])
    /\ UNCHANGED <<world, rejected, signal, stream, pending, page>>

\* The calls a stream without any has in its text are announced at its end.
TextCalls(s) == IF s.calls = << >> /\ s.tagged THEN <<"text">> ELSE s.calls

(* Seeded bug: the answer is returned with what the dispatcher held back.   *)
ReturnUnflushed ==
    /\ call.pc = "reading" /\ (stream.content # << >> \/ stream.calls # << >>)
    /\ LET s == [stream EXCEPT !.calls = TextCalls(stream)] IN
       \E o \in (IF s.calls = stream.calls THEN {Out} ELSE DispatchCall(Out, "text")) :
         IF o.thrown THEN Proceed(o, s)
         ELSE /\ stream' = s /\ pending' = o.pending /\ page' = o.page
              /\ Goto("returned") /\ UNCHANGED rejected
    /\ UNCHANGED <<world, signal>>

Return ==
    /\ call.pc = "reading" /\ (stream.content # << >> \/ stream.calls # << >>)
    /\ LET s == [stream EXCEPT !.calls = TextCalls(stream)]
           new == s.calls # stream.calls
       IN
       \/ /\ new /\ signal = "interrupt"
          /\ Proceed(Thrown(Out), stream)
       \/ /\ new => signal # "interrupt"
          /\ \E o \in (IF new THEN DispatchCall(Out, "text") ELSE {Out}) :
               IF o.thrown THEN Proceed(o, s)
               ELSE \E end \in Flush(o) :
                      /\ stream' = s /\ pending' = end.pending /\ page' = end.page
                      /\ IF end.thrown THEN call' = [call EXCEPT !.pc = "failed", !.error = "other"]
                         ELSE Goto("returned")
                      /\ UNCHANGED rejected
    /\ UNCHANGED <<world, signal>>

\* waitBeforeRetry is over.
Retry ==
    /\ call.pc = "waiting"
    /\ call' = [call EXCEPT !.pc = "try", !.attempt = @ + 1]
    /\ UNCHANGED <<world, rejected, signal, stream, pending, page>>

\* The abort ends the fetch, the read or the wait.
Abort ==
    /\ signal # "none" /\ call.pc \in {"sent", "reading", "waiting"}
    /\ call' = [call EXCEPT !.pc = "failed", !.error = signal]
    /\ UNCHANGED <<world, rejected, signal, stream, pending, page>>

(***************************************************************************)
(* Around the call: the user's interrupt, the request's timeout, and the   *)
(* calls of other sessions to the same provider.                           *)
(***************************************************************************)
Interrupt ==
    /\ call.pc \in Live /\ signal = "none"
    /\ signal' = "interrupt"
    /\ UNCHANGED <<world, rejected, call, stream, pending, page>>

Timeout ==
    /\ call.pc \in Live /\ signal = "none"
    /\ signal' = "timeout"
    /\ UNCHANGED <<world, rejected, call, stream, pending, page>>

OtherRejected(mode) ==
    /\ mode \notin world.accepts /\ ~world.strict
    /\ rejected' = rejected \cup {mode}
    /\ UNCHANGED <<world, signal, call, stream, pending, page>>

Next ==
    \/ Begin \/ Send \/ Refuse \/ Accept
    \/ Reasoning \/ Text \/ Unthink \/ ToolCall \/ Fail
    \/ Empty \/ Return \/ Retry \/ Abort
    \/ Interrupt \/ Timeout
    \/ \E mode \in Modes : OtherRejected(mode)

\* Timers fire, and an abort is noticed.
Spec == Init /\ [][Next]_vars /\ WF_vars(Timeout) /\ WF_vars(Abort) /\ WF_vars(Send)

(***************************************************************************)
(* Properties.                                                             *)
(***************************************************************************)
\* What the events of an attempt show comes in the order it was read: the
\* dispatcher holds back one kind at a time (createModelStreamDispatcher).
ShownInOrder == [][stream'.at >= stream.at => page'.last >= page.last]_vars

\* When a call returns, the pages have the whole content and reasoning of its
\* answer, and the hooks were told of each of its calls once, whatever was
\* read in the attempts that failed before it.
AnswerShown ==
    call.pc = "returned" =>
        /\ stream.content # << >> => page.text = stream.content
        /\ stream.thought # 0 => page.thought = stream.thought
        /\ page.calls = stream.calls

\* A provider that takes one of the serializations is never locked out of it
\* by what was remembered, and no call fails for its input while the other
\* serialization would do, unless runtime.strictPrefixCache forbids it.
ServedWhenAccepted ==
    /\ rejected \cap world.accepts = {}
    /\ call.pc = "failed" /\ call.error = "input" => world.strict \/ world.accepts = {}

=============================================================================
