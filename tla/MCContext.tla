------------------------------ MODULE MCContext ------------------------------
(***************************************************************************)
(* What the model is told and how its answer is read: the calls and the    *)
(* guard of their stream, the parsing of an answer, the rows of a session  *)
(* and the budget for them, and the search of other histories. The         *)
(* components share nothing: a behaviour is one of one component, and the  *)
(* others stand still in an initial state.                                 *)
(***************************************************************************)
EXTENDS StreamGuard, ContextParts, TLC

CONSTANTS n1, n3, s1, Sessions, TurnSizes, Size, Prefix, Request, Summaries,
          AverageFloor, OutputFloor, OutputCap, PromptFloor, FallbackCap,
          BudgetTurns, MaxDeletes, Names, SkillOf, Versions, MaxIterations,
          ContextTurns, MaxExtras, Answers, OwnId, Natives, Thought,
          Histories, Words, Queries, Absent, FirstId, RecallLimit, MaxRows,
          MaxCopies

VARIABLES part, \* the component that runs; the others stand still
          rows, count, stats, records, rebuilds, last, turnRows, inline, pc,
          askedBy, iter, wanted, stopped, pre, messages, sent, prefix,
          image, extras, answer, at, listed, filter, read, announced,
          streamPc, searched, lastRow, search, embedding, workers, ending,
          branched, found

B == INSTANCE ContextBudget WITH MaxTurns <- BudgetTurns, Turns <- TurnSizes
T == INSTANCE TurnContext WITH rows <- turnRows, file <- image,
    turn <- askedBy, MaxTurns <- ContextTurns
R == INSTANCE ResponseStream WITH pc <- streamPc, Reason <- Thought
Y == INSTANCE SessionHistory WITH rows <- searched, last <- lastRow,
    answer <- found, Sessions <- Histories

budgetVars == <<rows, count, stats, records, rebuilds, last>>
turnsVars == <<turnRows, inline, pc, askedBy, iter, wanted, stopped, pre,
               messages, sent, prefix, image, extras>>
streamVars == <<answer, at, listed, filter, read, announced, streamPc>>
historyVars == <<searched, lastRow, search, embedding, workers, ending,
                 branched, found>>
all == <<part, vars, modelVars, budgetVars, turnsVars, streamVars,
         historyVars>>

ASSUME MCAssumption ==
    /\ M!AttemptsAssumption /\ B!BudgetAssumption
    /\ T!NamesAssumption /\ T!LimitsAssumption /\ Y!BoundsAssumption

(* A model with a context of 20 thousand tokens, a short turn, a long one *)
(* and an important one.                                                 *)
MCTurns == {[full |-> 2, brief |-> 1, marks |-> {}],
            [full |-> 7, brief |-> 2, marks |-> {"error"}],
            [full |-> 9, brief |-> 1, marks |-> {}]}

MCSkillOf == (n1 :> s1) @@ (n3 :> None)

(* Answers that think first, as a block or up to an end tag, and then call *)
(* a tool between two words.                                              *)
MCThoughts == {<< >>, <<"<think>", "t", "u", "</think>">>, <<"t", "u", "</think>">>,
               <<"<think>", "t", "</think>">>}
MCBlocks == {<< >>, <<"<tool_code>", "f", "</tool_code>">>, <<"<tool_code>", "g", "</tool_code>">>}
MCAnswers == {t \o <<"a">> \o b \o c : t \in MCThoughts, b \in MCBlocks, c \in {<< >>, <<"b", "c">>}}

Symmetry == Permutations(Histories)

MCInit ==
    /\ part \in {"guard", "model", "budget", "turns", "stream", "history"}
    /\ Init /\ (part = "guard" \/ (settings.limit = Longest))
    /\ M!Init /\ (part = "model" \/ (world = [accepts |-> {}, strict |-> FALSE]))
    /\ B!Init
    /\ T!Init /\ (part = "turns" \/ (turnRows = <<>> /\ image = [s \in T!Skills |-> 1]))
    /\ R!Init /\ (part = "stream" \/ (answer = [text |-> <<"a">>, natives |-> {}, ends |-> "done"]))
    /\ Y!Init /\ (part = "history" \/ (~embedding))

GuardStep(A) == part = "guard" /\ A /\ UNCHANGED <<part, modelVars, budgetVars, turnsVars, streamVars, historyVars>>
ModelStep(A) == part = "model" /\ A /\ UNCHANGED <<part, vars, budgetVars, turnsVars, streamVars, historyVars>>
BudgetStep(A) == part = "budget" /\ A /\ UNCHANGED <<part, vars, modelVars, turnsVars, streamVars, historyVars>>
TurnsStep(A) == part = "turns" /\ A /\ UNCHANGED <<part, vars, modelVars, budgetVars, streamVars, historyVars>>
StreamStep(A) == part = "stream" /\ A /\ UNCHANGED <<part, vars, modelVars, budgetVars, turnsVars, historyVars>>
HistoryStep(A) == part = "history" /\ A /\ UNCHANGED <<part, vars, modelVars, budgetVars, turnsVars, streamVars>>

MCNext ==
    \/ GuardStep(Next)
    \/ ModelStep(M!Next)
    \/ BudgetStep(B!Next)
    \/ TurnsStep(T!Next)
    \/ StreamStep(R!Next)
    \/ HistoryStep(Y!Next)

MCSpec == MCInit /\ [][MCNext]_all

(* The average is one of turns, no history is compacted before it leaves   *)
(* less than the reserve and the default turn, and what the compaction     *)
(* model is told fits its budget (AverageOfTurns, NoEarlyCompaction and    *)
(* PromptFits of ContextBudget).                                           *)
BudgetKept == B!AverageOfTurns /\ B!NoEarlyCompaction /\ B!PromptFits

(* A request has a call and its output together or not at all, each        *)
(* selected skill and each image once, what compactions left out is in the *)
(* summary, and the requests of a turn share a prefix that only grows      *)
(* (CallsPaired, SkillKnown, Accounted, ImagesOnce and OneStablePrefix of  *)
(* TurnContext).                                                           *)
RequestSound ==
    /\ [](T!CallsPaired /\ T!SkillKnown /\ T!Accounted /\ T!ImagesOnce)
    /\ T!OneStablePrefix

(* However the provider cuts its text into deltas, content and calls are   *)
(* read as from the whole text (AsWhole and CallsAsWhole of                *)
(* ResponseStream).                                                        *)
ReadAsWhole == R!AsWhole /\ R!CallsAsWhole

(* The anchor of a compact row gives back the rows it was made of, and a   *)
(* search finds a row without a vector by its words alone (RecallExact and *)
(* FoundForAReason of SessionHistory).                                     *)
RecallExact == Y!RecallExact /\ Y!FoundForAReason
=============================================================================
