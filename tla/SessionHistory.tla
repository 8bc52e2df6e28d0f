---------------------------- MODULE SessionHistory ----------------------------
(***************************************************************************)
(* What a model can find of earlier sessions: rows of sessiondata under    *)
(* ids of one sequence, the searchable copies the end of a turn makes of   *)
(* its request and its answer, the vectors that a request nobody awaits    *)
(* adds to the copies, compact rows that name what they left out by the    *)
(* ids of its rows, and the tool session_history, which recalls rows by    *)
(* the ids or searches the copies.                                         *)
(* Abstracted: a text is one word or none; the scores of a search are  *)
(* whether they reach their thresholds; times, titles and paths.  A summary *)
(* keeps every anchor it was given, as its prompt asks.                     *)
(***************************************************************************)
EXTENDS Naturals, FiniteSets, FiniteSetsExt, Functions, Sequences

CONSTANTS
    Sessions,    \* sessions of one project
    Words,       \* words of the rows
    Queries,     \* words that are searched for
    Absent,      \* no vector, no settings, no question
    FirstId,     \* dataid of the first row
    RecallLimit, \* rows of an answer to a recall, 50
    MaxRows,     \* bound: rows ever stored
    MaxCopies    \* bound: copies at a time

BoundsAssumption == {FirstId, RecallLimit, MaxRows, MaxCopies} \subseteq Nat

VARIABLES
    rows,      \* sessiondata: dataid -> [session, type, words, anchors]
    last,      \* the last dataid given
    search,    \* sessionsearch: dataid -> is its vector more than zero?
    embedding, \* are embeddings configured?
    workers,   \* dataids whose embedding is asked for
    ending,    \* rows of a turn that ends which are still to be copied
    branched,  \* sessions that were made as a branch
    answer     \* the tool's answer; the model ends with it

vars == <<rows, last, search, embedding, workers, ending, branched, answer>>

Init ==
    /\ rows = [d \in {} |-> Absent]
    /\ last = FirstId - 1
    /\ search = [d \in {} |-> FALSE]
    /\ embedding \in BOOLEAN
    /\ workers = {}
    /\ ending = {}
    /\ branched = {}
    /\ answer = Absent

RowsOf(s) == {d \in DOMAIN rows : rows[d].session = s}
Index == <<search, embedding, workers>>

\* At most one of the words: {} is a text of attachments alone.
Texts == {{}} \cup {{w} : w \in Words}

Row(s, type, words, anchors) == [session |-> s, type |-> type, words |-> words, anchors |-> anchors]

\* appendSessionData, a row for each record of a sequence.
AppendRows(seq) ==
    /\ last + Len(seq) < FirstId + MaxRows
    /\ rows' = [d \in DOMAIN rows \cup (last + 1 .. last + Len(seq)) |->
                    IF d \in DOMAIN rows THEN rows[d] ELSE seq[d - last]]
    /\ last' = last + Len(seq)

-----------------------------------------------------------------------------
(* Turns                                                                    *)

\* Of the rows of a turn, its end copies the request and the answer.
Copied(t) == {last + i : i \in {j \in 1 .. Len(t) : t[j].type \in {"user", "assistant"}}}

Turn(s) ==
    /\ ending = {}
    /\ s \notin branched \/ RowsOf(s) # {}
    /\ \E asked, said \in Texts, tools \in BOOLEAN :
         LET t == IF tools THEN <<Row(s, "user", asked, {}), Row(s, "tool", {}, {}),
                                  Row(s, "assistant", said, {})>>
                  ELSE <<Row(s, "user", asked, {}), Row(s, "assistant", said, {})>>
         IN /\ AppendRows(t)
            /\ ending' = Copied(t)
    /\ UNCHANGED <<Index, branched, answer>>

\* sessionSearchText: nothing is copied of an empty text.
Searchable(d) == rows[d].words # {}

\* recordSessionSearchFromSessionData.  A hook that fails is logged and the next
\* one runs.
Record ==
    /\ ending # {}
    /\ LET d == Min(ending) IN
       /\ ending' = ending \ {d}
       /\ \/ /\ Searchable(d) /\ Cardinality(DOMAIN search) < MaxCopies
             /\ search' = [e \in DOMAIN search \cup {d} |-> IF e = d THEN FALSE ELSE search[e]]
             /\ workers' = IF embedding THEN workers \cup {d} ELSE workers
          \/ UNCHANGED <<search, workers>>
    /\ UNCHANGED <<rows, last, embedding, branched, answer>>

\* launchSessionSearchEmbedding: the row may be gone by the time of the UPDATE.
Embed(d) ==
    /\ workers' = workers \ {d}
    /\ \/ search' = [e \in DOMAIN search |-> search[e] \/ e = d]
       \/ UNCHANGED search
    /\ UNCHANGED <<rows, last, embedding, ending, branched, answer>>

SetEmbedding ==
    /\ embedding' = ~embedding
    /\ UNCHANGED <<rows, last, search, workers, ending, branched, answer>>

Users(s) == {d \in RowsOf(s) : rows[d].type = "user"}
\* sessionTurnRangeForInput: up to the next request.
TurnAt(s, u) == {d \in RowsOf(s) : d >= u /\ \A v \in Users(s) : v <= u \/ d < v}

DeleteTurn(s) ==
    /\ ending = {}
    /\ \E u \in Users(s) :
         /\ rows' = Restrict(rows, DOMAIN rows \ TurnAt(s, u))
         /\ search' = Restrict(search, DOMAIN search \ TurnAt(s, u))
    /\ UNCHANGED <<last, embedding, workers, ending, branched, answer>>

-----------------------------------------------------------------------------
(* Compaction                                                               *)

Compacts(ds) == {d \in ds : rows[d].type = "compact"}
\* listSessionDataForModelContext: from the latest compact row on.
InContext(ds) == IF Compacts(ds) = {} THEN ds ELSE {d \in ds : d >= Max(Compacts(ds))}

\* An anchor names the first and the last row of what a compaction leaves out;
\* "of" is the rows it stands for.
Anchor(g) == [start |-> Min(g), end |-> Max(g), of |-> g]

\* compactTranscript: the rows in groups, each from a request to the next.
Groups(ds) ==
    LET users == {d \in ds : rows[d].type = "user"}
        group(f) == {d \in ds : d >= f /\ \A v \in users : v <= f \/ d < v}
    IN {group(f) : f \in users \cup {Min(ds)}}

\* The anchors of the previous compact row stay, those of its rows are added.
Anchors(ds) ==
    LET context == InContext(ds)
        source == context \ Compacts(ds)
    IN (UNION {rows[d].anchors : d \in context})
           \cup (IF source = {} THEN {} ELSE {Anchor(g) : g \in Groups(source)})

Compact(s) ==
    /\ ending = {}
    /\ InContext(RowsOf(s)) \ Compacts(RowsOf(s)) # {}
    /\ AppendRows(<<Row(s, "compact", {}, Anchors(RowsOf(s)))>>)
    /\ UNCHANGED <<Index, ending, branched, answer>>

\* createBranchSessionFromTurn, compactBranchSession: the source's history up
\* to a turn becomes the first row of another session.
Branch(s, b) ==
    /\ ending = {}
    /\ RowsOf(b) = {} /\ b \notin branched
    /\ \E u \in Users(s) :
         LET upTo == {d \in RowsOf(s) : d <= Max(TurnAt(s, u))}
         IN AppendRows(<<Row(b, "compact", {}, Anchors(upTo))>>)
    /\ branched' = branched \cup {b}
    /\ UNCHANGED <<Index, ending, answer>>

-----------------------------------------------------------------------------
(* session_history                                                          *)

\* Seeded bug: two ids are compared as the texts they are handed over as.
InOrderAsText(a, b) ==
    LET digit(n) == IF n < 10 THEN n ELSE n \div 10
    IN digit(a) < digit(b) \/ (digit(a) = digit(b) /\ a <= b)

\* normalizeRecallInput compares them as BigInt.
InOrder(a, b) == a <= b

\* The smallest n of a set.
First(n, ds) == {d \in ds : Cardinality({e \in ds : e < d}) < n}

\* selectSessionHistoryRecallRows.
RecallRows(s, start, end) == First(RecallLimit, {d \in RowsOf(s) : d \in start .. end})

\* What an anchor says to call: mode recall, scope session, the two ids.  The
\* scope is the session that calls.
Recall(s) ==
    /\ RowsOf(s) # {}
    /\ \E a \in UNION {rows[d].anchors : d \in InContext(RowsOf(s))} :
         LET ok == InOrder(a.start, a.end)
         IN answer' = [mode |-> "recall", anchor |-> a, ok |-> ok,
                       rows |-> IF ok THEN RecallRows(s, a.start, a.end) ELSE {}]
    /\ UNCHANGED <<rows, last, Index, ending, branched>>

\* Seeded bug: the distance to a vector of zeros is taken; it is not a number,
\* and PostgreSQL orders that above every number.
SimilarityTaken(d, near) == near \/ ~search[d]

Similar(d, near) == near /\ search[d]

Scopes(s) == {DOMAIN search, DOMAIN search \cap RowsOf(s)}

\* embedSessionSearchText: a request that can fail; the search goes on without.
Vectors == IF embedding THEN BOOLEAN ELSE {FALSE}

\* A shared word reaches the lexical threshold.
Matches(d, query) == query \in rows[d].words

\* selectSessionHistoryRows.  Which of the vectors are near is any choice.
Search(s) ==
    \E scope \in Scopes(s), query \in Queries, vector \in Vectors,
       near \in SUBSET {d \in DOMAIN search : search[d]} :
        /\ answer' = [mode |-> "search", query |-> query,
                      rows |-> {d \in scope : \/ Matches(d, query)
                                              \/ vector /\ Similar(d, d \in near)}]
        /\ UNCHANGED <<rows, last, Index, ending, branched>>

Step ==
    \/ \E s \in Sessions : \/ Turn(s) \/ DeleteTurn(s) \/ Compact(s)
                           \/ Recall(s) \/ Search(s)
                           \/ \E b \in Sessions : Branch(s, b)
    \/ Record \/ SetEmbedding
    \/ \E d \in workers : Embed(d)

\* The tool changes nothing that another step reads.
Next == answer = Absent /\ Step

Spec == Init /\ [][Next]_vars

-----------------------------------------------------------------------------
\* What is left of the rows an anchor stands for.
Left(a) == First(RecallLimit, {d \in a.of : d \in DOMAIN rows})

(* Whatever was compacted, again and again, and deleted in between: what    *)
(* the anchor of a compact row says to call gives the rows that the anchor  *)
(* was made of, as many as an answer holds, in a session that is no branch. *)
RecallExact ==
    [][\A s \in Sessions : Recall(s) /\ s \notin branched =>
           /\ answer'.ok
           /\ answer'.rows = Left(answer'.anchor)]_vars

(* The same for every session: compact/index.ts writes the call into each   *)
(* entry "for exact original rows".                                         *)
RecallAnywhere ==
    [][\A s \in Sessions : Recall(s) => answer'.rows = Left(answer'.anchor)]_vars

(* A copy that has no vector yet, or never gets one, is found by its words  *)
(* and by them alone: the zeros it holds are near to nothing.               *)
FoundForAReason ==
    [][\A s \in Sessions : Search(s) =>
           \A d \in answer'.rows : search[d] \/ Matches(d, answer'.query)]_vars
=============================================================================
