--------------------------- MODULE ContextBudget ---------------------------
(***************************************************************************)
(* When a session is compacted and what the compaction is told: the        *)
(* estimate of a request's tokens, the judgement whether it leaves room    *)
(* for a turn, the transcript that fits the compaction prompt, and the     *)
(* average turn behind the judgement, one row of turncontextusage that the *)
(* ends of turns and the deletions of turns of all sessions update.        *)
(*                                                                         *)
(* Token counts are small numbers (thousands).  A turn is its number, its  *)
(* full size, the size of its short entry, and what in it marks it.         *)
(***************************************************************************)
EXTENDS Integers, SequencesExt, FiniteSetsExt

CONSTANTS Sessions,
          Turns,       \* bound: [full, brief, marks] of the turns there are
          Size,        \* contextsize of the model
          Prefix,      \* tokens of the developer message and the tool definitions
          Request,     \* tokens of a request
          Summaries,   \* bound: sizes of a summary the model answers
          AverageFloor, OutputFloor, OutputCap, \* 4096, 2048 and 8192
          PromptFloor, FallbackCap,             \* 4096 tokens and 48000 characters
          MaxTurns,    \* bound: turns
          MaxDeletes   \* bound: deletions

BudgetAssumption ==
    /\ {Prefix, Request, AverageFloor, OutputFloor, OutputCap, PromptFloor, FallbackCap, MaxTurns, MaxDeletes} \subseteq Nat
    /\ Size \in Nat \ {0} /\ Summaries \subseteq Nat \ {0}

VARIABLES
    rows,       \* per session: its turns, each with the size of the compact row
                \* that follows it, 0 when none does
    count,      \* turns so far, and deletions
    stats,      \* turncontextusage: [turns, tokens]
    records,    \* detached updates after a turn: the turn, and its tokens once read
    rebuilds,   \* the statistics that a deletion computed and will write
    last        \* the last compaction: the usage that led to it, its prompt

vars == <<rows, count, stats, records, rebuilds, last>>

Least(a, b) == IF a < b THEN a ELSE b
Most(a, b) == IF a < b THEN b ELSE a
PerCent(n, p) == (n * p + 99) \div 100     \* rounded up
Tokens(turns) == FoldLeft(LAMBDA sum, t : sum + t.full, 0, turns)

\* The place of the turn that the latest compact row follows, and the turns
\* after it: with that row, what the model is shown of the session.
CompactAt(turns) == SelectLastInSeq(turns, LAMBDA t : t.tail # 0)
Since(turns) == SubSeq(turns, CompactAt(turns) + 1, Len(turns))
CompactTokens(turns) == IF CompactAt(turns) = 0 THEN 0 ELSE turns[CompactAt(turns)].tail

Init ==
    /\ rows = [s \in Sessions |-> << >>]
    /\ count = [turns |-> 0, deletes |-> 0]
    /\ stats = [turns |-> 0, tokens |-> 0]
    /\ records = {} /\ rebuilds = {}
    /\ last = [used |-> 0, prompt |-> 0]

(***************************************************************************)
(* The judgement.                                                          *)
(***************************************************************************)
avgtokens == IF stats.turns = 0 THEN 0 ELSE (stats.tokens + stats.turns - 1) \div stats.turns

DefaultTurn == Most(AverageFloor, PerCent(Size, 12))
OutputReserve == Least(OutputCap, Most(OutputFloor, PerCent(Size, 8)))

\* calculateDetailedContextUsage: a request with these turns behind it.
Used(turns) == Prefix + CompactTokens(turns) + Tokens(Since(turns)) + Request

\* The tokens of an expected turn: the average, no more than the default.
averageTurnTokens == IF avgtokens = 0 THEN DefaultTurn ELSE Least(avgtokens, DefaultTurn)

(* Seeded bug: the average is taken as it is.                               *)
shouldCompactUncapped(used) ==
    \/ Most(0, Size - used) < OutputReserve + PerCent(IF avgtokens = 0 THEN DefaultTurn ELSE avgtokens, 115)
    \/ used * 100 >= 88 * Size

\* judgeContextAvailability.
shouldCompact(used) ==
    \/ Most(0, Size - used) < OutputReserve + PerCent(averageTurnTokens, 115)
    \/ used * 100 >= 88 * Size

(***************************************************************************)
(* The compaction.                                                         *)
(***************************************************************************)
\* compactTranscriptEntry: a failed tool, the context of a skill, an error or
\* a telling word makes a turn important.
Marks == {"failed tool", "skill", "error", "word"}
Important(t) == t.marks \cap Marks # {}

PromptBudget == Most(PromptFloor, (Size * 55) \div 100)

(* Seeded bug: an important turn is told in full whether it fits or not.    *)
TranscriptOver(turns) ==
    FoldLeft(LAMBDA sum, t : IF Important(t) THEN sum + t.full
                             ELSE IF sum + t.brief <= PromptBudget THEN sum + t.brief ELSE sum, 0, turns)

\* compactTranscript: the turns in order, an important one in full or else
\* in short, another in short, and one that does not fit left out.
Transcript(turns) ==
    LET Fit(sum, t) ==
            IF Important(t) /\ sum + t.full <= PromptBudget THEN sum + t.full
            ELSE IF sum + t.brief <= PromptBudget THEN sum + t.brief ELSE sum
    IN  FoldLeft(Fit, 0, turns)

\* compactSessionHistory: the model's summary of the previous one and the
\* transcript, or these two cut to length when the model fails.
Summary(turns) == Summaries \cup {Least(FallbackCap, CompactTokens(turns) + Transcript(Since(turns)))}

\* A request: the history is compacted first when it leaves too little room,
\* the turn runs to its end, and the update of the average is set off.
Turn(s) ==
    LET full == rows[s] # << >> /\ shouldCompact(Used(rows[s]))
    IN
    /\ count.turns < MaxTurns
    /\ \E t \in Turns, size \in IF full THEN Summary(rows[s]) ELSE {0} :
          LET turn == [n |-> count.turns + 1, full |-> t.full, brief |-> t.brief,
                       marks |-> t.marks, tail |-> 0]
          IN  rows' = [rows EXCEPT ![s] =
                          Append(IF size = 0 THEN @ ELSE [@ EXCEPT ![Len(@)].tail = size], turn)]
    /\ last' = IF full THEN [used |-> Used(rows[s]), prompt |-> Transcript(Since(rows[s]))] ELSE last
    /\ records' = records \cup {[s |-> s, n |-> count.turns + 1, tokens |-> -1]}
    /\ count' = [count EXCEPT !.turns = @ + 1]
    /\ UNCHANGED <<stats, rebuilds>>

(***************************************************************************)
(* The average.                                                            *)
(***************************************************************************)
\* recordTurnContextUsage reads the rows of the turn: none when it is gone.
ReadTurn ==
    /\ \E r \in records :
          /\ r.tokens = -1
          /\ records' = (records \ {r}) \cup
                {[r EXCEPT !.tokens = Tokens(SelectSeq(rows[r.s], LAMBDA t : t.n = r.n))]}
    /\ UNCHANGED <<rows, count, stats, rebuilds, last>>

(* Seeded bug: the turns are not counted.                                   *)
AddTokensOnly ==
    /\ \E r \in records :
          /\ r.tokens # -1
          /\ records' = records \ {r}
          /\ stats' = [turns |-> IF stats.turns = 0 THEN 1 ELSE stats.turns, tokens |-> stats.tokens + r.tokens]
    /\ UNCHANGED <<rows, count, rebuilds, last>>

\* It adds them in one statement.
AddTurn ==
    /\ \E r \in records :
          /\ r.tokens # -1
          /\ records' = records \ {r}
          /\ stats' = [turns |-> stats.turns + 1, tokens |-> stats.tokens + r.tokens]
    /\ UNCHANGED <<rows, count, rebuilds, last>>

\* deleteSessionTurn: the rows go, and then rebuildTurnContextUsage reads
\* those of all sessions.
Delete ==
    /\ count.deletes < MaxDeletes
    /\ \E s \in Sessions : \E i \in DOMAIN rows[s] :
          /\ rows' = [rows EXCEPT ![s] = RemoveAt(@, i)]
    /\ count' = [count EXCEPT !.deletes = @ + 1]
    /\ rebuilds' = rebuilds \cup {[d |-> count.deletes, turns |-> -1, tokens |-> 0]}
    /\ UNCHANGED <<stats, records, last>>

AllTurns(t) == MapThenSumSet(LAMBDA s : Len(t[s]), Sessions)
AllTokens(t) == MapThenSumSet(LAMBDA s : FoldLeft(LAMBDA sum, x : sum + x.full + x.tail, 0, t[s]), Sessions)

Calculate ==
    /\ \E r \in rebuilds :
          /\ r.turns = -1
          /\ rebuilds' = (rebuilds \ {r}) \cup {[r EXCEPT !.turns = AllTurns(rows), !.tokens = AllTokens(rows)]}
    /\ UNCHANGED <<rows, count, stats, records, last>>

Rebuild ==
    /\ \E r \in rebuilds :
          /\ r.turns # -1
          /\ rebuilds' = rebuilds \ {r}
          /\ stats' = [turns |-> r.turns, tokens |-> r.tokens]
    /\ UNCHANGED <<rows, count, records, last>>

Over == count.turns = MaxTurns /\ records = {} /\ rebuilds = {} /\ UNCHANGED vars

Next == (\E s \in Sessions : Turn(s)) \/ ReadTurn \/ AddTurn \/ Delete \/ Calculate \/ Rebuild \/ Over
Spec == Init /\ [][Next]_vars

(***************************************************************************)
(* Properties.                                                             *)
(***************************************************************************)
\* However the updates of finishing turns and the rebuilds of deletions
\* interleave, the row is an average of turns: never larger than a turn and
\* the compact row after it.
AverageOfTurns == stats.tokens <= (Max({t.full : t \in Turns}) + FallbackCap) * stats.turns

\* A history is compacted only when it leaves less than the output reserve
\* and the default turn, however large the turns of other sessions were
\* (docs/session-data.md, "cannot force early compaction").
NoEarlyCompaction ==
    last.used # 0 =>
        \/ Size - last.used < OutputReserve + PerCent(DefaultTurn, 115)
        \/ last.used * 100 >= 88 * Size

\* What the compaction model is told of the turns fits its budget.
PromptFits == last.prompt <= PromptBudget

=============================================================================
