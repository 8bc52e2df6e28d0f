---------------------------- MODULE StreamGuard ----------------------------
(***************************************************************************)
(* The stream-guard hook (modelResponseStreamGuardHook): told of a         *)
(* response while it is read, it stops one that reasons in circles or too  *)
(* long before any output.  What it knows of a response outlives it: the   *)
(* map of states is the process's, its key is the session and the number   *)
(* of the iteration, which the next turn counts again from one.            *)
(*                                                                         *)
(* One session.  A summary is the sequence of its paragraphs and its       *)
(* length their number.  Whether one of the patterns over a summary's      *)
(* words matches (meta execution, tail block, dense repetition, no output  *)
(* for long) is open.                                                      *)
(***************************************************************************)
EXTENDS Naturals, SequencesExt

CONSTANTS Paragraphs,  \* what a paragraph of a reasoning may say
          Limits,      \* what hooks.StreamGuard.MAX_REASONING_LENGTH may be set to
          Iterations,  \* bound: iterations of a turn
          MaxTurns,    \* bound: turns
          MaxEdits,    \* bound: edits of the settings
          None

ASSUME GuardAssumption ==
    /\ {Iterations, MaxTurns} \subseteq Nat \ {0} /\ MaxEdits \in Nat
    /\ Limits \subseteq Nat /\ Limits # {}

Longest == CHOOSE n \in Limits : \A k \in Limits : k <= n

VARIABLES
    settings,  \* the limit in settings.json, and how often it was edited
    guard,     \* streamGuardState: per iteration None, or [seen, limit]
    turn,      \* the number of the turn and of its iteration
    response   \* the response being read

vars == <<settings, guard, turn, response>>

Fresh == [pc |-> "idle", summary |-> << >>, longest |-> 0, attempt |-> 1, why |-> "", limit |-> 0]

Init ==
    /\ settings \in [limit : Limits, edits : {0}]
    /\ guard = [i \in 1..Iterations |-> None]
    /\ turn = [n |-> 1, iteration |-> 1]
    /\ response = Fresh

Key == turn.iteration
Forget == guard' = [guard EXCEPT ![Key] = None]
Watching == response.pc \in {"thinking", "candidate"}

\* The state of the response: what the map has, or one with the settings'.
State == IF guard[Key] = None THEN [seen |-> 0, limit |-> settings.limit] ELSE guard[Key]

hasRepeatedReasoningParagraph(summary) == ~IsInjective(summary)

\* Why a summary, with what the state has seen, stops the response, if at
\* all; the patterns over words are looked for first and last.
Verdict(summary, state, why) ==
    /\ why = "paragraph" => hasRepeatedReasoningParagraph(summary)
    /\ why = "length" => state.seen > state.limit /\ ~hasRepeatedReasoningParagraph(summary)
    /\ why = "" => state.seen <= state.limit /\ ~hasRepeatedReasoningParagraph(summary)

Longer(n, summary) == IF Len(summary) > n THEN Len(summary) ELSE n

\* The hook's answer to a summary, when it keeps the state as kept.
Answer(summary, state, kept, why) ==
    /\ Verdict(summary, state, why)
    /\ guard' = [guard EXCEPT ![Key] = kept]
    /\ response' = [response EXCEPT !.pc = IF why = "" THEN @ ELSE "stopped", !.summary = summary, !.why = why,
                                    !.longest = Longer(@, summary), !.limit = state.limit]

Whys == {"", "pattern", "paragraph", "length"}

(* Seeded bug: the state of a response that was stopped is kept.            *)
ObserveKept(summary) ==
    LET state == [State EXCEPT !.seen = Longer(@, summary)]
    IN  \E why \in Whys : Answer(summary, state, state, why)

\* detectAndInterrupt: the state is as long as the longest summary it was
\* told of; a response that is stopped takes its state with it.
Observe(summary) ==
    LET state == [State EXCEPT !.seen = Longer(@, summary)]
    IN  \E why \in Whys : Answer(summary, state, IF why = "" THEN state ELSE None, why)

\* A model is called; its answer begins with reasoning, or with text that
\* may turn out to be.
Begin ==
    /\ response.pc = "idle"
    /\ \E pc \in {"thinking", "candidate"} : response' = [Fresh EXCEPT !.pc = pc]
    /\ UNCHANGED <<settings, guard, turn>>

\* More of it is read, before any output.
Reason ==
    /\ Watching /\ Len(response.summary) <= Longest
    /\ \E p \in Paragraphs : Observe(Append(response.summary, p))
    /\ UNCHANGED <<settings, turn>>

\* The attempt fails and the next one reasons afresh.
Retry ==
    /\ Watching /\ response.attempt = 1
    /\ response' = [response EXCEPT !.summary = << >>, !.attempt = 2]
    /\ UNCHANGED <<settings, guard, turn>>

\* Confirmed text, a tool call or reasoning after text: the state is dropped.
Output ==
    /\ Watching
    /\ Forget
    /\ response' = [response EXCEPT !.pc = "output"]
    /\ UNCHANGED <<settings, turn>>

\* The response ends, as it should, by an interrupt or an error.
Finish ==
    /\ response.pc # "idle"
    /\ response' = Fresh
    /\ \/ turn.iteration < Iterations /\ turn' = [turn EXCEPT !.iteration = @ + 1]
       \/ turn.n < MaxTurns /\ turn' = [n |-> turn.n + 1, iteration |-> 1]
    /\ UNCHANGED <<settings, guard>>

Edit ==
    /\ settings.edits < MaxEdits
    /\ \E n \in Limits \ {settings.limit} : settings' = [limit |-> n, edits |-> settings.edits + 1]
    /\ UNCHANGED <<guard, turn, response>>

Over == response.pc # "idle" /\ ~Watching /\ UNCHANGED vars

Next == Begin \/ Reason \/ Retry \/ Output \/ Finish \/ Edit \/ Over
\* A response that goes on goes on reasoning.
Spec == Init /\ [][Next]_vars /\ WF_vars(Reason)

(***************************************************************************)
(* Properties.                                                             *)
(***************************************************************************)
\* A response is stopped for its length only when its own reasoning is
\* longer than the limit its state has, never for what an earlier turn left
\* under the same iteration number.
StopsItsOwn == response.why = "length" => response.longest > response.limit

=============================================================================
