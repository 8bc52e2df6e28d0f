--------------------------- MODULE ResponseStream ---------------------------
(***************************************************************************)
(* The reader of a provider's streamed answer (readResponsesStream).  The  *)
(* provider's text arrives cut into deltas of its choosing; hidden         *)
(* thinking and textual tool calls are marked in it by tags, and the       *)
(* reader tells them apart as they come.  The same answer in one payload   *)
(* (parseResponsesPayload of a message item) is the reference.             *)
(*                                                                         *)
(* A text is a sequence of words and tags, cut between them; the body of a *)
(* textual call is a word.  White space and its trimming are left out.     *)
(***************************************************************************)
EXTENDS Naturals, SequencesExt

CONSTANTS Answers,    \* bound: the texts the provider may answer
          OwnId,      \* words that as the body of a call give an id of their own
          Natives,    \* ids of the calls that come as items
          Reason      \* what the provider reasons outside its text

Open == "<think>"
Close == "</think>"
Call == "<tool_code>"
EndCall == "</tool_code>"
Tags == {Open, Close, Call, EndCall}

VARIABLES
    answer,   \* what the provider answers: its text and its calls, fixed
    at,       \* how much of the text was sent
    listed,   \* the call items that were sent
    filter,   \* createOutputTextFilter: within a think block, and visible text started
    read,     \* the reader's content, reasoning, candidate flag, calls
    announced,\* the calls the listeners were told of
    pc

vars == <<answer, at, listed, filter, read, announced, pc>>

Position(s, x) == SelectInSeq(s, LAMBDA y : y = x)
From(s, i) == SubSeq(s, i, Len(s))
Upto(s, i) == SubSeq(s, 1, i)

(***************************************************************************)
(* Textual calls.                                                          *)
(***************************************************************************)
\* The blocks of a text, the text without them and the calls in them.  A
\* body of one word is a call; without an id of its own it is the first.
Blocks(text) ==
    LET Step(b, i) ==
            LET open == Position(b.rest, Call)
                tail == From(b.rest, open + 1)
                end == IF open = 0 THEN 0 ELSE Position(tail, EndCall)
                body == Upto(tail, end - 1)
            IN  IF end = 0 THEN b
                ELSE [rest |-> From(tail, end + 1),
                      text |-> b.text \o Upto(b.rest, open - 1),
                      calls |-> IF Len(body) # 1 \/ body[1] \in Tags THEN b.calls
                                ELSE Append(b.calls, [id |-> IF body[1] \in OwnId THEN body[1] ELSE "text1",
                                                      name |-> body[1]])]
        b == FoldLeft(Step, [rest |-> text, text |-> << >>, calls |-> << >>], [i \in 1..Len(text) |-> i])
    IN  [b EXCEPT !.text = @ \o b.rest]

extractTextToolCalls(text) == Blocks(text).calls
stripTextToolCalls(text) == Blocks(text).text

(***************************************************************************)
(* Hidden thinking.                                                        *)
(***************************************************************************)
\* One push of the filter f: the visible text and the thoughts of a delta,
\* a tag at a time.
Push(f, delta) ==
    LET Step(p, i) ==
            LET open == Position(p.rest, Open)
                close == Position(p.rest, Close)
                opens == open # 0 /\ (close = 0 \/ open < close)
            IN  CASE p.rest = << >> -> p
                  [] p.rest # << >> /\ p.inside ->
                       IF close = 0
                       THEN [p EXCEPT !.thoughts = Append(@, p.rest), !.rest = << >>]
                       ELSE [p EXCEPT !.thoughts = Append(@, Upto(p.rest, close - 1)),
                                      !.rest = From(@, close + 1), !.inside = FALSE]
                  [] p.rest # << >> /\ ~p.inside /\ opens ->
                       [p EXCEPT !.text = @ \o Upto(p.rest, open - 1), !.started = @ \/ open > 1,
                                 !.rest = From(@, open + 1), !.inside = TRUE]
                  [] p.rest # << >> /\ ~p.inside /\ ~opens /\ ~p.started /\ close # 0 ->
                       [p EXCEPT !.thoughts = Append(@, Upto(p.rest, close - 1)),
                                 !.rest = From(@, close + 1)]
                  [] OTHER -> [p EXCEPT !.text = @ \o p.rest, !.started = TRUE, !.rest = << >>]
    IN  FoldLeft(Step, [rest |-> delta, text |-> << >>, thoughts |-> << >>,
                        inside |-> f.inside, started |-> f.started],
                 [i \in 1..(2 * Len(delta)) |-> i])

\* appendReasoningContent: a summary that repeats or extends what there is.
Joined(thought, summary) ==
    IF summary = << >> \/ IsSuffix(summary, thought) THEN thought
    ELSE IF IsPrefix(thought, summary) THEN summary
    ELSE thought \o summary

AllJoined(thought, summaries) == FoldLeft(Joined, thought, summaries)

\* parseResponsesPayload of a message item: the whole text at once.
Payload(text) ==
    LET p == Push([inside |-> FALSE, started |-> FALSE], text)
    IN  [content |-> stripTextToolCalls(p.text), calls |-> extractTextToolCalls(p.text),
         thoughts |-> p.thoughts]

(***************************************************************************)
(* The stream.                                                             *)
(***************************************************************************)
Init ==
    /\ answer \in [text : Answers, natives : SUBSET Natives, ends : {"done", "completed", "failed"}]
    /\ at = 0 /\ listed = {}
    /\ filter = [inside |-> FALSE, started |-> FALSE]
    /\ read = [content |-> << >>, thought |-> << >>, candidate |-> TRUE, calls |-> << >>]
    /\ announced = << >>
    /\ pc = "reading"

\* The calls of an event join those read; one whose id is there is dropped.
Merged(old, calls) ==
    FoldLeft(LAMBDA seq, c : IF \E d \in ToSet(seq) : d.id = c.id THEN seq ELSE Append(seq, c), old, calls)

(* Seeded bug: the calls of an event join those read whatever their ids.    *)
EventUnmerged(thoughts, calls, text) ==
    LET p == Push(filter, text) IN
    /\ announced' = announced \o SelectSeq(calls, LAMBDA c : \A d \in ToSet(read.calls) : d.id # c.id)
    /\ filter' = [inside |-> p.inside, started |-> p.started]
    /\ read' = [content |-> read.content \o p.text, thought |-> AllJoined(read.thought, thoughts \o p.thoughts),
                candidate |-> read.candidate /\ p.thoughts = << >>, calls |-> read.calls \o calls]

(* Seeded bug: the thinking that a late end tag closes stays content.       *)
EventUnclosed(thoughts, calls, text) ==
    LET p == Push(filter, text) IN
    /\ announced' = announced \o SelectSeq(calls, LAMBDA c : \A d \in ToSet(read.calls) : d.id # c.id)
    /\ filter' = [inside |-> p.inside, started |-> p.started]
    /\ read' = [content |-> read.content \o p.text, thought |-> AllJoined(read.thought, thoughts \o p.thoughts),
                candidate |-> read.candidate /\ p.thoughts = << >>, calls |-> Merged(read.calls, calls)]

\* What the reader does with an event: its thoughts join the reasoning, its
\* calls are announced unless there before the event, its text is filtered.
\* An end tag in the text with content before it makes thinking of all that.
Event(thoughts, calls, text) ==
    LET end == IF read.content = << >> THEN 0 ELSE Position(text, Close)
        p == Push(filter, From(text, end + 1))
        heard == AllJoined(read.thought, thoughts)
    IN  /\ announced' = announced \o SelectSeq(calls, LAMBDA c : \A d \in ToSet(read.calls) : d.id # c.id)
        /\ filter' = [inside |-> p.inside, started |-> p.started]
        /\ read' = [content |-> IF end # 0 THEN p.text ELSE read.content \o p.text,
                    thought |-> IF end # 0 THEN Joined(heard, read.content \o Upto(text, end - 1))
                                ELSE AllJoined(heard, p.thoughts),
                    candidate |-> read.candidate /\ end = 0 /\ p.thoughts = << >>,
                    calls |-> Merged(read.calls, calls)]

\* A delta: the next words of the answer.
Delta ==
    /\ pc = "reading"
    /\ \E k \in (at + 1)..Len(answer.text) :
          LET delta == SubSeq(answer.text, at + 1, k) IN
          /\ at' = k
          /\ Event(<< >>, extractTextToolCalls(delta), stripTextToolCalls(delta))
    /\ UNCHANGED <<answer, listed, pc>>

Items(ids) == SetToSeq({[id |-> n, name |-> n] : n \in ids})

\* A call that comes as an item.
Item ==
    /\ pc = "reading"
    /\ \E n \in answer.natives \ listed :
          /\ listed' = listed \cup {n}
          /\ Event(<< >>, Items({n}), << >>)
    /\ UNCHANGED <<answer, at, pc>>

\* A delta of the provider's own reasoning.
ReasoningDelta ==
    /\ pc = "reading" /\ Reason \notin ToSet(read.thought)
    /\ read' = [read EXCEPT !.thought = Append(@, Reason)]
    /\ UNCHANGED <<answer, at, listed, filter, announced, pc>>

Sent == at = Len(answer.text)

\* response.completed repeats the whole answer: its thoughts and calls are
\* taken, its text is not.
Completed ==
    LET p == Payload(answer.text) IN
    /\ pc = "reading" /\ Sent /\ answer.ends = "completed"
    /\ Event(p.thoughts, p.calls \o Items(answer.natives), << >>)
    /\ listed' = answer.natives /\ pc' = "ending"
    /\ UNCHANGED <<answer, at>>

\* A failure is passed over only when the provider failed to parse a tool
\* call and the output of the event has one; its text counts then.
Failure ==
    LET p == Payload(answer.text) calls == p.calls \o Items(answer.natives) IN
    /\ pc = "reading" /\ answer.ends = "failed"
    /\ \/ pc' = "thrown" /\ UNCHANGED <<read, filter, announced, listed>>
       \/ /\ calls # << >> /\ pc' = "ending" /\ listed' = answer.natives
          /\ Event(p.thoughts, calls, p.content)
    /\ UNCHANGED <<answer, at>>

\* The stream ends, wherever the provider stops: textual calls that no delta
\* held whole are looked for when there is no call, and blocks are taken out
\* of the content when there is one.
End ==
    LET found == IF read.calls = << >> THEN extractTextToolCalls(read.content) ELSE << >> IN
    /\ pc \in {"reading", "ending"}
    /\ read' = [read EXCEPT !.calls = @ \o found,
                            !.content = IF read.calls \o found = << >> THEN @ ELSE stripTextToolCalls(@)]
    /\ announced' = announced \o found
    /\ pc' = "returned"
    /\ UNCHANGED <<answer, at, listed, filter>>

Over == pc \in {"returned", "thrown"} /\ UNCHANGED vars

Next == Delta \/ Item \/ ReasoningDelta \/ Completed \/ Failure \/ End \/ Over
Spec == Init /\ [][Next]_vars

(***************************************************************************)
(* Properties.                                                             *)
(***************************************************************************)
Whole == pc = "returned" /\ Sent /\ answer.ends # "failed"

\* However the provider cuts its text into deltas, readResponsesStream
\* returns the content that parseResponsesPayload finds in the whole text:
\* no thinking in it, no block of a call, and nothing missing.
AsWhole == Whole => read.content = Payload(answer.text).content

\* However the text is cut, and whether or not the completed event repeats
\* it, the textual call in it is returned, once, and was announced once.
CallsAsWhole ==
    Whole /\ answer.natives = {} =>
        /\ read.calls = Payload(answer.text).calls
        /\ announced = read.calls

=============================================================================
