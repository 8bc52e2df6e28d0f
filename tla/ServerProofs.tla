----------------------------- MODULE ServerProofs -----------------------------
(***************************************************************************)
(* The server around the turns: SelfcheckSound of the runs behind the      *)
(* advisory lock for any number of runs, connections, issues and rows;     *)
(* DialogsTrue of the questions for any number of pages, questions and     *)
(* attaches; ChatsFree for any number of chats and messages; HooksApplied  *)
(* for any hooks of hook.json; and OneServer of the server's lock file for *)
(* any number of processes and pids.                                       *)
(***************************************************************************)
EXTENDS ServerParts, SessionParts, Naturals, Sequences, FiniteSetTheorems,
        SequenceTheorems, TLAPS

-----------------------------------------------------------------------------
(* The selfcheck.                                                           *)

JobTypes == [at : S!JobAt, ticked : BOOLEAN, mode : S!Modes, table : S!Tables, last : Nat,
             todo : SUBSET (Nat \cup Issues), issue : Issues \cup {Nobody}]
CandTypes == [status : S!Statuses, attempts : Nat]

Types ==
    /\ begun \in [S!Tables -> Nat] /\ cursor \in [S!Tables -> Nat]
    /\ visible \in [S!Tables -> SUBSET Nat] /\ late \in [S!Tables -> SUBSET Nat]
    /\ \A t \in S!Tables : begun[t] <= Len(RowIssue[t]) /\ visible[t] \subseteq 1..begun[t]
    /\ cand \in [Issues -> CandTypes]
    /\ running \in BOOLEAN /\ shared \in BOOLEAN
    /\ job \in [Jobs -> JobTypes]

(* A step of job j leaves the other jobs alone and gives j the record e.    *)
Becomes(j, e) == job' = [job EXCEPT ![j] = e]

LEMMA BecomesFacts ==
    ASSUME Types, NEW j \in Jobs, NEW e \in JobTypes, Becomes(j, e)
    PROVE  job' \in [Jobs -> JobTypes] /\ job'[j] = e /\ \A k \in Jobs : k # j => job'[k] = job[k]
BY DEF Types, Becomes

LEMMA EndedFacts ==
    /\ S!Ended \in JobTypes /\ S!Ended.at = "done" /\ ~ S!Ended.ticked /\ S!Ended.todo = {} /\ S!Ended.issue = Nobody
BY DEF S!Ended, JobTypes, S!JobAt, S!Modes, S!Tables

LEMMA GoFacts ==
    ASSUME Types, NEW j \in Jobs, NEW to \in S!JobAt, S!Go(j, to)
    PROVE  \E e \in JobTypes :
              /\ Becomes(j, e) /\ e.at = to
              /\ e.ticked = job[j].ticked /\ e.mode = job[j].mode /\ e.table = job[j].table
              /\ e.last = job[j].last /\ e.todo = job[j].todo /\ e.issue = job[j].issue
<1> DEFINE e == [job[j] EXCEPT !.at = to]
<1>1. job[j] \in JobTypes
  BY DEF Types
<1>2. /\ e \in JobTypes /\ e.at = to
      /\ e.ticked = job[j].ticked /\ e.mode = job[j].mode /\ e.table = job[j].table
      /\ e.last = job[j].last /\ e.todo = job[j].todo /\ e.issue = job[j].issue
  BY <1>1 DEF JobTypes
<1>3. Becomes(j, e)
  BY DEF S!Go, Becomes
<1> QED BY <1>2, <1>3

(* A run between the lock and the unlock.                                   *)
Work(j) ==
    \/ S!Record(j) \/ S!Scan(j) \/ S!Upsert(j) \/ S!WriteCursor(j) \/ S!Select(j)
    \/ \E i \in Issues : S!Mark(j, i)
    \/ S!Skip(j) \/ S!Recommend(j) \/ S!Settle(j) \/ S!Throw(j) \/ S!GiveUp(j)
    \/ S!Finish(j) \/ S!RunFault(j)

Outside == {"idle", "settings", "lock", "done"}

(* A finite set of numbers has a greatest one: of the ranks of its elements, *)
(* which are as many as it has elements, one is its size.                   *)
LEMMA Greatest ==
    ASSUME NEW X \in SUBSET Nat, IsFiniteSet(X), X # {}
    PROVE  S!Max(X) \in X /\ \A x \in X : x <= S!Max(X)
<1> DEFINE Upto(i) == {x \in X : x <= i}
           r == [i \in X |-> Cardinality(Upto(i))]
           N == Cardinality(X)
<1>1. N \in Nat /\ N # 0
  BY FS_CardinalityType, FS_EmptySet
<1>2. \A i \in X : IsFiniteSet(Upto(i)) /\ r[i] \in Nat /\ r[i] <= N /\ r[i] > 0
  <2> TAKE i \in X
  <2>1. Upto(i) \in SUBSET X /\ i \in Upto(i)
    OBVIOUS
  <2>2. IsFiniteSet(Upto(i)) /\ Cardinality(Upto(i)) \in Nat /\ Cardinality(Upto(i)) <= N
    BY <2>1, FS_Subset, FS_CardinalityType
  <2>3. Cardinality(Upto(i)) # 0
    BY <2>1, <2>2, FS_EmptySet
  <2> HIDE DEF Upto, N
  <2> QED BY <2>2, <2>3
<1>3. \A i, k \in X : i < k => r[i] < r[k]
  <2> TAKE i, k \in X
  <2> HAVE i < k
  <2>0. X \subseteq Nat /\ i \in Nat /\ k \in Nat
    OBVIOUS
  <2>1. Upto(i) \in SUBSET Upto(k) /\ k \in Upto(k) /\ k \notin Upto(i)
    <3>1. \A x \in X : x <= i => x <= k
      BY <2>0
    <3>2. ~ (k <= i) /\ k <= k
      BY <2>0
    <3> QED BY <3>1, <3>2
  <2>2. Cardinality(Upto(i)) <= Cardinality(Upto(k)) /\ Cardinality(Upto(i)) # Cardinality(Upto(k))
    <3> HIDE DEF Upto
    <3> QED BY <2>1, <1>2, FS_Subset
  <2>3. r[i] = Cardinality(Upto(i)) /\ r[k] = Cardinality(Upto(k))
    OBVIOUS
  <2>4. r[i] \in Nat /\ r[k] \in Nat
    BY <1>2
  <2> HIDE DEF r, Upto
  <2> QED BY <2>2, <2>3, <2>4
<1>4. DOMAIN r = X
  OBVIOUS
<1> HIDE DEF r, N
<1>5. r \in Injection(X, 1..N)
  <2>1. r \in [X -> 1..N]
    BY <1>1, <1>2, <1>4 DEF r
  <2>2. \A i, k \in X : r[i] = r[k] => i = k
    <3> TAKE i, k \in X
    <3> HAVE r[i] = r[k]
    <3>1. i \in Nat /\ k \in Nat /\ r[i] \in Nat /\ r[k] \in Nat
      BY <1>2
    <3>2. ~ (i < k) /\ ~ (k < i)
      BY <1>3, <3>1
    <3> QED BY <3>1, <3>2
  <2> QED BY <2>1, <2>2 DEF Injection, IsInjective
<1>6. r \in Surjection(X, 1..N)
  <2>1. IsFiniteSet(1..N) /\ Cardinality(1..N) = IF 1 > N THEN 0 ELSE N - 1 + 1
    BY <1>1, FS_Interval
  <2>2. Cardinality(1..N) = N
    BY <1>1, <2>1
  <2> QED BY <1>5, <2>1, <2>2, FS_Injection DEF N
<1>7. PICK m \in X : r[m] = N
  BY <1>1, <1>6 DEF Surjection
<1>8. \A x \in X : m >= x
  <2> TAKE x \in X
  <2>1. m \in Nat /\ x \in Nat /\ r[m] \in Nat /\ r[x] \in Nat /\ r[x] <= r[m]
    BY <1>2, <1>7
  <2>2. ~ (m < x)
    BY <1>3, <2>1
  <2> QED BY <2>1, <2>2
<1>9. m \in X /\ \A x \in X : x <= m
  <2>1. X \subseteq Nat /\ m \in X
    OBVIOUS
  <2> QED BY <1>8, <2>1
<1>10. S!Max(X) \in X /\ \A y \in X : S!Max(X) >= y
  BY <1>8 DEF S!Max
<1>11. X \subseteq Nat
  OBVIOUS
<1> QED BY <1>10, <1>11

LEMMA RowsFinite ==
    ASSUME NEW n \in Nat
    PROVE  IsFiniteSet(1..n)
<1>1. 1 \in Int /\ n \in Int
  OBVIOUS
<1> QED BY <1>1, FS_Interval

(* The instance counts with the Cardinality of FiniteSets.                  *)
LEMMA SameSize == \A X : S!Cardinality(X) = Cardinality(X)
BY DEF S!Cardinality, Cardinality

LEMMA ScanIs ==
    ASSUME NEW j, S!Scan(j)
    PROVE  LET t == job[j].table
               after == {r \in visible[t] : r > cursor[t]}
               batch == {r \in after : Cardinality({x \in after : x <= r}) <= Batch} IN
           /\ job[j].at = "scan"
           /\ job' = [job EXCEPT ![j] = [@ EXCEPT !.at = "upsert", !.todo = batch,
                                                  !.last = S!Max(batch \cup {cursor[t]})]]
           /\ UNCHANGED <<S!rows, S!ledger, locks, running, due, S!ghosts, selfFaults>>
<1> DEFINE t == job[j].table
           after == {r \in visible[t] : r > cursor[t]}
           mine == {r \in after : S!Cardinality({x \in after : x <= r}) <= Batch}
           batch == {r \in after : Cardinality({x \in after : x <= r}) <= Batch}
<1>1. mine = batch
  <2> HIDE DEF after
  <2> QED BY SameSize
<1>2. /\ job[j].at = "scan"
      /\ job' = [job EXCEPT ![j] = [job[j] EXCEPT !.at = "upsert", !.todo = mine,
                                             !.last = S!Max(mine \cup {cursor[t]})]]
      /\ UNCHANGED <<S!rows, S!ledger, locks, running, due, S!ghosts, selfFaults>>
  BY DEF S!Scan
<1> HIDE DEF mine, batch
<1>3. /\ job[j].at = "scan"
      /\ job' = [job EXCEPT ![j] = [job[j] EXCEPT !.at = "upsert", !.todo = batch,
                                             !.last = S!Max(batch \cup {cursor[t]})]]
      /\ UNCHANGED <<S!rows, S!ledger, locks, running, due, S!ghosts, selfFaults>>
  BY <1>1, <1>2
<1> QED BY <1>3 DEF batch

LEMMA WorkFacts ==
    ASSUME Types, NEW j \in Jobs, Work(j)
    PROVE  /\ \E e \in JobTypes : Becomes(j, e) /\ e.at \notin Outside /\ e.ticked = job[j].ticked
           /\ S!Inside(j) /\ UNCHANGED <<running, shared>>
<1> DEFINE Stays == \E e \in JobTypes : Becomes(j, e) /\ e.at \notin Outside /\ e.ticked = job[j].ticked
<1>0. job[j] \in JobTypes
  BY DEF Types
<1>1. ASSUME NEW to \in {"pending", "scan", "settle", "giveup", "unlock"}, S!Go(j, to) PROVE Stays
  BY <1>1, GoFacts DEF S!JobAt, Outside
<1>2. CASE S!Record(j) \/ S!Recommend(j) \/ S!Throw(j) \/ S!Finish(j)
  <2>1. \E to \in {"pending", "scan", "settle", "giveup", "unlock"} : S!Go(j, to)
    BY <1>2 DEF S!Record, S!Recommend, S!Throw, S!Finish
  <2>2. S!Inside(j) /\ UNCHANGED <<running, shared>>
    BY <1>2 DEF S!Record, S!Recommend, S!Throw, S!Finish, S!Inside, S!ghosts
  <2> QED BY <1>1, <2>1, <2>2
<1>3. CASE S!Scan(j)
  <2> DEFINE t == job[j].table
             after == {r \in visible[t] : r > cursor[t]}
             batch == {r \in after : Cardinality({s \in after : s <= r}) <= Batch}
             last == S!Max(batch \cup {cursor[t]})
  <2>1. batch \subseteq Nat /\ last \in Nat
    <3>1. t \in S!Tables /\ visible[t] \subseteq Nat /\ cursor[t] \in Nat /\ IsFiniteSet(visible[t])
      <4>1. t \in S!Tables
        BY <1>0 DEF JobTypes
      <4>2. begun[t] \in Nat
        BY <4>1 DEF Types
      <4>3. IsFiniteSet(1..begun[t])
        BY <4>2, RowsFinite
      <4> QED BY <4>1, <4>3, FS_Subset DEF Types
    <3>2. batch \in SUBSET visible[t]
      OBVIOUS
    <3> HIDE DEF batch, t
    <3>3. IsFiniteSet(batch \cup {cursor[t]})
      BY <3>1, <3>2, FS_Subset, FS_AddElement
    <3> QED BY <3>1, <3>2, <3>3, Greatest
  <2>2. job' = [job EXCEPT ![j] = [@ EXCEPT !.at = "upsert", !.todo = batch, !.last = last]]
    BY <1>3, ScanIs
  <2> HIDE DEF batch, last
  <2> DEFINE e == [job[j] EXCEPT !.at = "upsert", !.todo = batch, !.last = last]
  <2>3. e \in JobTypes /\ e.at = "upsert" /\ e.ticked = job[j].ticked
    BY <1>0, <2>1 DEF JobTypes, S!JobAt
  <2>4. Becomes(j, e)
    BY <2>2 DEF Becomes
  <2> QED BY <1>3, <2>3, <2>4 DEF Outside, S!Scan, S!Inside, S!ghosts
<1>4. CASE S!Upsert(j)
  <2> DEFINE r == S!Min(job[j].todo)
             e == [job[j] EXCEPT !.todo = @ \ {r}]
  <2>1. job' = [job EXCEPT ![j] = e] /\ job[j].at = "upsert"
    BY <1>4 DEF S!Upsert
  <2> HIDE DEF r
  <2>2. e \in JobTypes /\ e.at = "upsert" /\ e.ticked = job[j].ticked
    BY <1>0, <2>1 DEF JobTypes, S!JobAt
  <2> QED BY <1>4, <2>1, <2>2 DEF Outside, Becomes, S!Upsert, S!Inside, S!ghosts
<1>5. CASE S!WriteCursor(j)
  <2> DEFINE e == S!AfterScan(j)
  <2>1. e \in JobTypes /\ e.at \in {"scan", "pending", "finish"} /\ e.ticked = job[j].ticked
    BY <1>0 DEF JobTypes, S!JobAt, S!AfterScan, S!Tables
  <2> QED BY <1>5, <2>1 DEF Outside, Becomes, S!WriteCursor, S!Inside, S!ghosts
<1>6. CASE S!Select(j)
  <2>1. PICK Q \in SUBSET Issues : job' = [job EXCEPT ![j] = [@ EXCEPT !.at = "next", !.todo = Q]]
    BY <1>6 DEF S!Select
  <2> DEFINE e == [job[j] EXCEPT !.at = "next", !.todo = Q]
  <2>2. e \in JobTypes /\ e.at = "next" /\ e.ticked = job[j].ticked
    BY <1>0 DEF JobTypes, S!JobAt
  <2> QED BY <1>6, <2>1, <2>2 DEF Outside, Becomes, S!Select, S!Inside, S!ghosts
<1>7. ASSUME NEW i \in Issues, S!Mark(j, i) PROVE Stays /\ S!Inside(j) /\ UNCHANGED <<running, shared>>
  <2> DEFINE e == [job[j] EXCEPT !.at = "model", !.todo = job[j].todo \ {i}, !.issue = i]
  <2>1. e \in JobTypes /\ e.at = "model" /\ e.ticked = job[j].ticked
    BY <1>0 DEF JobTypes, S!JobAt
  <2>2. Becomes(j, e)
    BY <1>7 DEF Becomes, S!Mark
  <2>3. S!Inside(j) /\ UNCHANGED <<running, shared>>
    BY <1>7 DEF S!Mark, S!Inside
  <2>4. Stays
    <3> HIDE DEF e
    <3> QED BY <2>1, <2>2 DEF Outside
  <2> HIDE DEF Stays
  <2> QED BY <2>3, <2>4
<1>8. CASE S!Skip(j) \/ S!Settle(j) \/ S!GiveUp(j)
  <2> DEFINE e == [job[j] EXCEPT !.at = "next", !.issue = Nobody]
  <2>1. e \in JobTypes /\ e.at = "next" /\ e.ticked = job[j].ticked
    BY <1>0 DEF JobTypes, S!JobAt
  <2> QED BY <1>8, <2>1 DEF Outside, Becomes, S!Skip, S!Settle, S!GiveUp, S!NextCandidate,
    S!Inside, S!ghosts
<1>9. CASE S!RunFault(j)
  <2> DEFINE e == [job[j] EXCEPT !.at = "unlock", !.issue = Nobody]
  <2>1. e \in JobTypes /\ e.at = "unlock" /\ e.ticked = job[j].ticked
    BY <1>0 DEF JobTypes, S!JobAt
  <2> QED BY <1>9, <2>1 DEF Outside, Becomes, S!RunFault, S!Inside
<1> QED BY <1>2, <1>3, <1>4, <1>5, <1>6, <1>7, <1>8, <1>9 DEF Work

(* A step of the scheduler's timer or of the settings menu.                 *)
Schedules(j) == S!Tick(j) \/ S!TickDisabled(j) \/ S!TickStart(j) \/ \E m \in S!Modes : S!Request(j, m)

LEMMA ScheduleFacts ==
    ASSUME Types, NEW j \in Jobs, Schedules(j)
    PROVE  \E e \in JobTypes :
              /\ Becomes(j, e) /\ job[j].at \in {"idle", "settings"} /\ e.at \in Outside
              /\ e.at = "settings" => e.ticked
              /\ \/ UNCHANGED running
                 \/ running' = TRUE /\ e.at = "lock" /\ e.ticked = job[j].ticked /\ job[j].at = "settings"
              /\ UNCHANGED <<S!rows, S!ledger, S!ghosts>>
<1>0. job[j] \in JobTypes
  BY DEF Types
<1>1. CASE S!Tick(j)
  <2> DEFINE e == [job[j] EXCEPT !.at = "settings", !.ticked = TRUE]
  <2>1. e \in JobTypes /\ e.at = "settings" /\ e.ticked
    BY <1>0 DEF JobTypes, S!JobAt
  <2>2. Becomes(j, e)
    BY <1>1 DEF S!Tick, Becomes
  <2> HIDE DEF e
  <2> QED BY <1>1, <2>1, <2>2 DEF S!Tick, Outside
<1>2. CASE S!TickDisabled(j)
  <2>1. Becomes(j, S!Ended)
    BY <1>2 DEF S!TickDisabled, Becomes
  <2> QED BY <1>2, <2>1, EndedFacts DEF S!TickDisabled, Outside
<1>3. CASE S!TickStart(j)
  <2>1. S!Go(j, "lock") /\ running' = TRUE /\ UNCHANGED <<S!rows, S!ledger, S!ghosts>> /\ job[j].at = "settings"
    BY <1>3 DEF S!TickStart
  <2>2. PICK e \in JobTypes : Becomes(j, e) /\ e.at = "lock" /\ e.ticked = job[j].ticked
    BY <2>1, GoFacts DEF S!JobAt
  <2> QED BY <2>1, <2>2 DEF Outside
<1>4. ASSUME NEW m \in S!Modes, S!Request(j, m)
      PROVE  \E e \in JobTypes : Becomes(j, e) /\ e.at = "lock"
  <2> DEFINE e == [job[j] EXCEPT !.at = "lock", !.mode = m]
  <2>1. e \in JobTypes /\ e.at = "lock"
    BY <1>0 DEF JobTypes, S!JobAt
  <2>2. Becomes(j, e)
    BY <1>4 DEF S!Request, Becomes
  <2> HIDE DEF e
  <2> QED BY <2>1, <2>2
<1>5. CASE \E m \in S!Modes : S!Request(j, m)
  <2>1. job[j].at = "idle" /\ UNCHANGED <<S!rows, S!ledger, S!ghosts, running>>
    BY <1>5 DEF S!Request
  <2> QED BY <1>4, <1>5, <2>1 DEF Outside
<1> QED BY <1>1, <1>2, <1>3, <1>5 DEF Schedules

(* The steps, the work of a run taken together.                             *)
LEMMA StepCases ==
    ASSUME S!Next
    PROVE  \/ \E t \in S!Tables : S!BeginRow(t) \/ \E r \in DOMAIN RowIssue[t] : S!CommitRow(t, r)
           \/ S!Wait \/ S!Crash \/ \E c \in Conns : S!CloseIdle(c)
           \/ \E j \in Jobs : \/ Schedules(j)
                              \/ \E c \in Conns : S!Lock(j, c)
                              \/ S!RecordFault(j) \/ \E c \in Conns : S!Unlock(j, c)
                              \/ Work(j)
BY DEF S!Next, S!Scheduling, S!Extracting, S!AnalyzingStep, Work, Schedules

(* What a run at work does to the candidates, and that the cursor it writes *)
(* is the one it has read up to.                                            *)
Judges(j, i) ==
    \/ cand[i].status = "none" /\ cand'[i].status = "pending" /\ S!Upsert(j)
    \/ /\ S!Mark(j, i) /\ cand'[i].status = "analyzing"
    \/ /\ job[j].at \in S!Analyzing /\ job[j].issue = i
       /\ cand'[i].status \in {"skipped", "analyzed", "failed"}
       /\ S!Skip(j) \/ S!Settle(j) \/ S!GiveUp(j)

LEMMA CandSteps ==
    ASSUME S!SelfcheckAssumption, Types, NEW j \in Jobs, Work(j)
    PROVE  /\ cand' \in [Issues -> CandTypes]
           /\ \A i \in Issues : cand'[i] = cand[i] \/ Judges(j, i)
           /\ cursor' \in [S!Tables -> Nat]
           /\ UNCHANGED S!rows
<1>0. /\ cand \in [Issues -> CandTypes] /\ cursor \in [S!Tables -> Nat]
      /\ job[j] \in JobTypes /\ Nobody \notin Issues
  BY DEF Types, S!SelfcheckAssumption
<1> DEFINE Goal == /\ cand' \in [Issues -> CandTypes]
                   /\ \A i \in Issues : cand'[i] = cand[i] \/ Judges(j, i)
                   /\ cursor' \in [S!Tables -> Nat]
                   /\ UNCHANGED S!rows
<1>1. CASE S!Record(j) \/ S!Scan(j) \/ S!Select(j) \/ S!Recommend(j) \/ S!Throw(j) \/ S!Finish(j) \/ S!RunFault(j)
  <2>1. UNCHANGED <<cand, cursor, S!rows>>
    BY <1>1 DEF S!Record, S!Scan, S!Select, S!Recommend, S!Throw, S!Finish, S!RunFault, S!ledger
  <2> QED BY <1>0, <2>1
<1>2. CASE S!Upsert(j)
  <2> DEFINE i == S!IssueOf(job[j].table, S!Min(job[j].todo))
  <2>1. /\ cand' = IF cand[i].status = "none" THEN [cand EXCEPT ![i].status = "pending"] ELSE cand
        /\ UNCHANGED <<cursor, S!rows>>
    BY <1>2 DEF S!Upsert
  <2> HIDE DEF i
  <2>2. cand' \in [Issues -> CandTypes]
    BY <1>0, <2>1 DEF CandTypes, S!Statuses
  <2>3. \A x \in Issues : cand'[x] = cand[x] \/ (cand[x].status = "none" /\ cand'[x].status = "pending")
    BY <1>0, <2>1 DEF CandTypes
  <2> QED BY <1>0, <1>2, <2>1, <2>2, <2>3 DEF Judges
<1>3. CASE S!WriteCursor(j)
  <2>1. /\ cursor' = [cursor EXCEPT ![job[j].table] = job[j].last]
        /\ UNCHANGED <<cand, S!rows>>
    BY <1>3 DEF S!WriteCursor
  <2>2. job[j].last \in Nat
    BY <1>0 DEF JobTypes
  <2> QED BY <1>0, <2>1, <2>2
<1>4. ASSUME NEW i \in Issues, S!Mark(j, i) PROVE Goal
  <2>1. /\ cand' = [cand EXCEPT ![i] = [status |-> "analyzing", attempts |-> @.attempts + 1]]
        /\ UNCHANGED <<cursor, S!rows>>
    BY <1>4 DEF S!Mark
  <2>2. cand[i].attempts + 1 \in Nat
    BY <1>0 DEF CandTypes
  <2>3. cand' \in [Issues -> CandTypes]
    BY <1>0, <2>1, <2>2 DEF CandTypes, S!Statuses
  <2>4. cand'[i].status = "analyzing" /\ \A x \in Issues : x # i => cand'[x] = cand[x]
    BY <1>0, <2>1
  <2> QED BY <1>0, <1>4, <2>1, <2>3, <2>4 DEF Judges
<1>5. ASSUME NEW s \in {"skipped", "analyzed", "failed"}, S!Statused(job[j].issue, s),
             job[j].at \in S!Analyzing, S!Skip(j) \/ S!Settle(j) \/ S!GiveUp(j), UNCHANGED <<cursor, S!rows>>
      PROVE  Goal
  <2>1. cand' = [cand EXCEPT ![job[j].issue].status = s]
    BY <1>5 DEF S!Statused
  <2>2. cand' \in [Issues -> CandTypes]
    BY <1>0, <1>5, <2>1 DEF CandTypes, S!Statuses
  <2>3. \A x \in Issues : cand'[x] = cand[x] \/ (x = job[j].issue /\ cand'[x].status = s)
    BY <1>0, <2>1 DEF CandTypes
  <2> QED BY <1>0, <1>5, <2>2, <2>3 DEF Judges
<1>6. CASE S!Skip(j) \/ S!Settle(j) \/ S!GiveUp(j)
  <2>1. \E s \in {"skipped", "analyzed", "failed"} : S!Statused(job[j].issue, s)
    BY <1>6 DEF S!Skip, S!Settle, S!GiveUp
  <2>2. job[j].at \in S!Analyzing /\ UNCHANGED <<cursor, S!rows>>
    BY <1>6 DEF S!Skip, S!Settle, S!GiveUp, S!Analyzing
  <2> QED BY <1>5, <1>6, <2>1, <2>2
<1> HIDE DEF Goal
<1>7. Goal
  BY <1>1, <1>2, <1>3, <1>4, <1>6 DEF Work, Goal
<1> QED BY <1>7 DEF Goal

LEMMA TypesStep == S!SelfcheckAssumption /\ Types /\ [S!Next]_(S!vars) => Types'
<1> SUFFICES ASSUME S!SelfcheckAssumption, Types, [S!Next]_(S!vars) PROVE Types'
  OBVIOUS
<1> USE Types
<1>1. CASE UNCHANGED S!vars
  BY <1>1 DEF Types, S!vars
<1>2. ASSUME NEW t \in S!Tables, S!BeginRow(t) PROVE Types'
  <2>1. /\ begun[t] < Len(RowIssue[t]) /\ begun' = [begun EXCEPT ![t] = @ + 1]
        /\ UNCHANGED <<visible, late, cursor, cand, running, shared, job>>
    BY <1>2 DEF S!BeginRow, S!ledger, S!ghosts
  <2>2. \A u \in S!Tables : Len(RowIssue[u]) \in Nat /\ begun[u] \in Nat
    BY DEF S!SelfcheckAssumption, S!Tables, Types
  <2>3. begun' \in [S!Tables -> Nat] /\ \A u \in S!Tables : begun'[u] <= Len(RowIssue[u]) /\ begun[u] <= begun'[u]
    BY <2>1, <2>2 DEF Types
  <2>4. \A u \in S!Tables : visible[u] \subseteq 1..begun'[u]
    BY <2>2, <2>3 DEF Types
  <2> QED BY <2>1, <2>3, <2>4 DEF Types
<1>3. ASSUME NEW t \in S!Tables, NEW r \in DOMAIN RowIssue[t], S!CommitRow(t, r) PROVE Types'
  <2>1. /\ r \in 1..begun[t] /\ visible' = [visible EXCEPT ![t] = @ \cup {r}]
        /\ late' = [late EXCEPT ![t] = IF \E v \in visible[t] : v > r THEN @ \cup {r} ELSE @]
        /\ UNCHANGED <<begun, cursor, cand, running, shared, job>>
    BY <1>3 DEF S!CommitRow, S!ledger, S!ghosts
  <2>2. visible' \in [S!Tables -> SUBSET Nat] /\ late' \in [S!Tables -> SUBSET Nat]
    <3>1. r \in Nat
      BY <2>1 DEF Types
    <3> QED BY <2>1, <3>1 DEF Types
  <2>3. \A u \in S!Tables : visible'[u] \subseteq 1..begun[u]
    BY <2>1 DEF Types
  <2> QED BY <2>1, <2>2, <2>3 DEF Types
<1>4. CASE S!Wait \/ \E c \in Conns : S!CloseIdle(c)
  BY <1>4 DEF S!Wait, S!CloseIdle, S!rows, S!ledger, S!ghosts, Types
<1>5. CASE S!Crash
  <2>1. UNCHANGED <<begun, visible, late, cursor, cand, shared>> /\ running' = FALSE
        /\ job' = [j \in Jobs |-> IF job[j].at = "idle" THEN job[j] ELSE S!Ended]
    BY <1>5 DEF S!Crash, S!rows, S!ledger
  <2> QED BY <2>1, EndedFacts DEF Types
<1>6. ASSUME NEW j \in Jobs, Schedules(j) PROVE Types'
  <2>1. UNCHANGED <<begun, visible, late, cursor, cand, shared>> /\ running' \in BOOLEAN
    BY <1>6, ScheduleFacts DEF S!rows, S!ledger, S!ghosts, Types
  <2>2. job' \in [Jobs -> JobTypes]
    BY <1>6, ScheduleFacts, BecomesFacts
  <2> QED BY <2>1, <2>2 DEF Types
<1>7. ASSUME NEW j \in Jobs, NEW c \in Conns, S!Lock(j, c) PROVE Types'
  <2>1. UNCHANGED <<begun, visible, late, cursor, cand>>
    BY <1>7 DEF S!Lock, S!rows, S!ledger
  <2>2. CASE S!Return(j) /\ UNCHANGED shared
    BY <2>1, <2>2, EndedFacts DEF S!Return, Types
  <2>3. CASE S!Go(j, "record") /\ shared' = (shared \/ \E k \in Jobs : S!Inside(k)) /\ UNCHANGED running
    <3>1. job' \in [Jobs -> JobTypes]
      BY <2>3, GoFacts, BecomesFacts DEF S!JobAt
    <3>2. shared' \in BOOLEAN
      BY <2>3
    <3> QED BY <2>1, <2>3, <3>1, <3>2 DEF Types
  <2> QED BY <1>7, <2>2, <2>3 DEF S!Lock
<1>8. ASSUME NEW j \in Jobs, S!RecordFault(j) \/ \E c \in Conns : S!Unlock(j, c) PROVE Types'
  <2>1. UNCHANGED <<begun, visible, late, cursor, cand, shared>> /\ S!Return(j)
    BY <1>8 DEF S!RecordFault, S!Unlock, S!rows, S!ledger, S!ghosts
  <2> QED BY <2>1, EndedFacts DEF S!Return, Types
<1>9. ASSUME NEW j \in Jobs, Work(j) PROVE Types'
  <2>1. PICK e \in JobTypes : Becomes(j, e) /\ UNCHANGED <<running, shared>>
    BY <1>9, WorkFacts
  <2>2. job' \in [Jobs -> JobTypes]
    BY <2>1, BecomesFacts
  <2>3. UNCHANGED <<begun, visible, late>> /\ cand' \in [Issues -> CandTypes] /\ cursor' \in [S!Tables -> Nat]
    BY <1>9, CandSteps DEF S!rows
  <2> QED BY <2>1, <2>2, <2>3 DEF Types
<1> QED BY <1>1, <1>2, <1>3, <1>4, <1>5, <1>6, <1>7, <1>8, <1>9, StepCases

(* The steps of a job, as what they make of its record; only Work(j) starts *)
(* or goes on between the lock and the unlock.                              *)
Leaves(j) ==
    /\ job[j].at \in {"lock", "record", "unlock"} /\ Becomes(j, S!Ended)
    /\ running' = (running /\ ~job[j].ticked)
    /\ UNCHANGED <<S!rows, S!ledger, S!ghosts>>

Enters(j) ==
    \E e \in JobTypes :
       /\ Becomes(j, e) /\ job[j].at = "lock" /\ e.at = "record"
       /\ e.ticked = job[j].ticked
       /\ shared' = (shared \/ \E k \in Jobs : S!Inside(k))
       /\ UNCHANGED <<running, S!rows, S!ledger, orphans>>

LEMMA LockFacts ==
    ASSUME Types, NEW j \in Jobs, NEW c \in Conns, S!Lock(j, c)
    PROVE  (Leaves(j) /\ job[j].at = "lock") \/ Enters(j)
<1>1. CASE S!Return(j) /\ UNCHANGED shared
  <2>1. job[j].at = "lock" /\ UNCHANGED <<S!rows, S!ledger, orphans>>
    BY DEF S!Lock
  <2> QED BY <1>1, <2>1 DEF Leaves, S!Return, Becomes, S!ghosts
<1>2. CASE S!Go(j, "record") /\ shared' = (shared \/ \E k \in Jobs : S!Inside(k)) /\ UNCHANGED running
  <2>1. PICK e \in JobTypes : Becomes(j, e) /\ e.at = "record" /\ e.ticked = job[j].ticked
    BY <1>2, GoFacts DEF S!JobAt
  <2>2. UNCHANGED <<S!rows, S!ledger, orphans>> /\ job[j].at = "lock"
    BY DEF S!Lock
  <2> QED BY <1>2, <2>1, <2>2 DEF Enters
<1> QED BY <1>1, <1>2 DEF S!Lock

LEMMA LeaveFacts ==
    ASSUME Types, NEW j \in Jobs, S!RecordFault(j) \/ \E c \in Conns : S!Unlock(j, c)
    PROVE  Leaves(j)
BY DEF S!RecordFault, S!Unlock, S!Return, Becomes, Leaves

Still == job' = job /\ UNCHANGED <<running, shared, orphans>>

LEMMA StillFacts ==
    ASSUME \/ \E t \in S!Tables : S!BeginRow(t) \/ \E r \in DOMAIN RowIssue[t] : S!CommitRow(t, r)
           \/ S!Wait \/ UNCHANGED S!vars
           \/ \E c \in Conns : S!CloseIdle(c)
    PROVE  Still /\ UNCHANGED S!ledger
BY DEF S!BeginRow, S!CommitRow, S!Wait, S!CloseIdle, S!vars, S!ledger, S!ghosts, Still

(* Every step, by its kind.                                                 *)
LEMMA Kinds ==
    ASSUME S!SelfcheckAssumption, Types, [S!Next]_(S!vars)
    PROVE  \/ Still /\ UNCHANGED S!ledger
           \/ S!Crash
           \/ \E j \in Jobs : Schedules(j) \/ Leaves(j) \/ Enters(j) \/ Work(j)
<1>1. CASE UNCHANGED S!vars
  BY <1>1, StillFacts
<1>2. CASE S!Next
  <2>1. ASSUME NEW j \in Jobs, \E c \in Conns : S!Lock(j, c) PROVE Leaves(j) \/ Enters(j)
    BY <2>1, LockFacts
  <2>2. ASSUME NEW j \in Jobs, S!RecordFault(j) \/ \E c \in Conns : S!Unlock(j, c) PROVE Leaves(j)
    BY <2>2, LeaveFacts
  <2> QED BY <1>2, <2>1, <2>2, StillFacts, StepCases
<1> QED BY <1>1, <1>2

-----------------------------------------------------------------------------
(* The scheduler's flag.                                                    *)

Freed == S!SchedulerFreed /\ \A j \in Jobs : job[j].at = "settings" => job[j].ticked

Keeps(k) == job[k].ticked /\ (S!Inside(k) \/ job[k].at = "lock")

LEMMA FreedStep == S!SelfcheckAssumption /\ Types /\ Freed /\ [S!Next]_(S!vars) => Freed'
<1> SUFFICES ASSUME S!SelfcheckAssumption, Types, Freed, [S!Next]_(S!vars) PROVE Freed'
  OBVIOUS
<1>0. /\ Types'
      /\ running => \E k \in Jobs : Keeps(k)
      /\ \A j \in Jobs : job[j].at = "settings" => job[j].ticked
      /\ \A j \in Jobs : job[j].ticked \in BOOLEAN
  BY TypesStep DEF Freed, S!SchedulerFreed, Keeps, Types, JobTypes
<1>1. SUFFICES /\ running' => \E k \in Jobs : Keeps(k)'
               /\ \A j \in Jobs : job'[j].at = "settings" => job'[j].ticked
  BY DEF Freed, S!SchedulerFreed, Keeps
<1>2. ASSUME NEW k \in Jobs, job'[k] = job[k], Keeps(k) PROVE Keeps(k)'
  BY <1>2 DEF Keeps, S!Inside
<1>3. CASE Still
  BY <1>0, <1>2, <1>3 DEF Still
<1>4. CASE S!Crash
  <2>1. running' = FALSE /\ job' = [j \in Jobs |-> IF job[j].at = "idle" THEN job[j] ELSE S!Ended]
    BY <1>4 DEF S!Crash
  <2>2. \A j \in Jobs : job'[j].at # "settings"
    BY <2>1, EndedFacts
  <2> QED BY <2>1, <2>2
<1>5. ASSUME NEW j \in Jobs, Schedules(j) PROVE <1>1!1
  <2>1. PICK e \in JobTypes :
              /\ Becomes(j, e) /\ job[j].at \in {"idle", "settings"} /\ e.at \in Outside
              /\ e.at = "settings" => e.ticked
              /\ \/ UNCHANGED running
                 \/ running' = TRUE /\ e.at = "lock" /\ e.ticked = job[j].ticked /\ job[j].at = "settings"
    BY <1>5, ScheduleFacts
  <2>2. job'[j] = e /\ \A k \in Jobs : k # j => job'[k] = job[k]
    BY <2>1, BecomesFacts
  <2>3. \A k \in Jobs : job'[k].at = "settings" => job'[k].ticked
    BY <1>0, <2>1, <2>2
  <2>4. CASE UNCHANGED running
    <3>1. ~ Keeps(j)
      BY <2>1 DEF Keeps, S!Inside
    <3> QED BY <1>0, <1>2, <2>2, <2>3, <2>4, <3>1
  <2>5. CASE e.at = "lock" /\ e.ticked = job[j].ticked /\ job[j].at = "settings"
    <3>1. Keeps(j)'
      BY <1>0, <2>2, <2>5 DEF Keeps
    <3> QED BY <2>3, <3>1
  <2> QED BY <2>1, <2>4, <2>5
<1>6. ASSUME NEW j \in Jobs, Leaves(j) PROVE <1>1!1
  <2>1. job'[j] = S!Ended /\ \A k \in Jobs : k # j => job'[k] = job[k]
    BY <1>6, EndedFacts, BecomesFacts DEF Leaves
  <2>2. running' => running /\ ~ job[j].ticked
    BY <1>6 DEF Leaves
  <2>3. running' => \E k \in Jobs : Keeps(k)'
    <3> SUFFICES ASSUME running' PROVE \E k \in Jobs : Keeps(k)'
      OBVIOUS
    <3>1. PICK k \in Jobs : Keeps(k)
      BY <1>0, <2>2
    <3>2. k # j
      BY <2>2, <3>1 DEF Keeps
    <3> QED BY <1>2, <2>1, <3>1, <3>2
  <2> QED BY <1>0, <2>1, <2>3, EndedFacts
<1>7. ASSUME NEW j \in Jobs, NEW e \in JobTypes, Becomes(j, e), e.ticked = job[j].ticked,
             UNCHANGED running, S!Inside(j) \/ job[j].at = "lock", e.at \notin Outside
      PROVE  <1>1!1
  <2>1. job'[j] = e /\ \A k \in Jobs : k # j => job'[k] = job[k]
    BY <1>7, BecomesFacts
  <2>2. Keeps(j) => Keeps(j)'
    BY <1>7, <2>1 DEF Keeps, S!Inside, Outside
  <2>3. running' => \E k \in Jobs : Keeps(k)'
    BY <1>0, <1>2, <1>7, <2>1, <2>2
  <2> QED BY <1>0, <1>7, <2>1, <2>3 DEF Outside
<1>8. ASSUME NEW j \in Jobs, Enters(j) \/ Work(j) PROVE <1>1!1
  <2>1. CASE Enters(j)
    BY <1>7, <2>1 DEF Enters, Outside
  <2>2. CASE Work(j)
    BY <1>7, <2>2, WorkFacts
  <2> QED BY <1>8, <2>1, <2>2
<1> QED BY <1>3, <1>4, <1>5, <1>6, <1>8, Kinds

-----------------------------------------------------------------------------
(* The candidate a run has in hand.                                         *)

(* A run that analyzes has a candidate, which it no longer has to do; what  *)
(* it has to do before and then are issues.                                 *)
InHand ==
    \A j \in Jobs :
        /\ job[j].at \in S!Analyzing => job[j].issue \in Issues \ job[j].todo
        /\ job[j].at \in S!Analyzing \cup {"next"} => job[j].todo \subseteq Issues

(* What the work of a run makes of its record, where the candidates are     *)
(* concerned.                                                               *)
Takes(j, e) ==
    \/ /\ e.at = "next" /\ job[j].at = "pending" /\ e.todo \subseteq Issues /\ UNCHANGED <<cand, orphans>>
       /\ \A i \in e.todo : cand[i].status \in {"pending", "failed"}
    \/ /\ e.at = "model" /\ job[j].at = "next" /\ e.issue \in job[j].todo /\ e.todo = job[j].todo \ {e.issue}
       /\ cand'[e.issue].status = "analyzing" /\ orphans' = orphans \ {e.issue}
       /\ \A i \in Issues : i # e.issue => cand'[i] = cand[i]
    \/ /\ e.at \in S!Analyzing /\ job[j].at \in S!Analyzing
       /\ e.issue = job[j].issue /\ e.todo = job[j].todo /\ UNCHANGED <<cand, orphans>>
    \/ /\ e.at = "next" /\ job[j].at \in S!Analyzing /\ e.todo = job[j].todo
       /\ cand'[job[j].issue].status \in {"skipped", "analyzed", "failed"} /\ UNCHANGED orphans
       /\ \A i \in Issues : i # job[j].issue => cand'[i] = cand[i]
    \/ /\ e.at = "unlock" /\ orphans' = orphans \cup ({job[j].issue} \ {Nobody}) /\ UNCHANGED cand
    \/ /\ e.at \notin S!Analyzing \cup {"next"} /\ job[j].at \notin S!Analyzing /\ UNCHANGED orphans
       /\ \A i \in Issues : cand'[i] = cand[i] \/ (cand[i].status = "none" /\ cand'[i].status = "pending")

LEMMA TakesFacts ==
    ASSUME S!SelfcheckAssumption, Types, InHand, NEW j \in Jobs, Work(j)
    PROVE  \E e \in JobTypes : Becomes(j, e) /\ Takes(j, e)
<1>0. job[j] \in JobTypes /\ cand \in [Issues -> CandTypes]
      /\ (job[j].at \in S!Analyzing => job[j].issue \in Issues)
  BY DEF Types, InHand
<1> DEFINE Goal == \E e \in JobTypes : Becomes(j, e) /\ Takes(j, e)
<1>1. CASE S!Record(j) \/ S!Finish(j)
  <2>1. PICK to \in {"pending", "scan", "unlock"} : S!Go(j, to)
    BY <1>1 DEF S!Record, S!Finish
  <2>2. PICK e \in JobTypes : Becomes(j, e) /\ e.at = to
    BY <2>1, GoFacts DEF S!JobAt
  <2>3. e.at \notin S!Analyzing \cup {"next"} /\ job[j].at \notin S!Analyzing /\ UNCHANGED <<cand, orphans>>
    BY <1>1, <2>2 DEF S!Record, S!Finish, S!Analyzing, S!ghosts, S!ledger
  <2> QED BY <2>2, <2>3 DEF Takes
<1>2. CASE S!Recommend(j) \/ S!Throw(j)
  <2>1. PICK to \in {"settle", "giveup"} : S!Go(j, to)
    BY <1>2 DEF S!Recommend, S!Throw
  <2>2. PICK e \in JobTypes : Becomes(j, e) /\ e.at = to /\ e.issue = job[j].issue /\ e.todo = job[j].todo
    BY <2>1, GoFacts DEF S!JobAt
  <2>3. e.at \in S!Analyzing /\ job[j].at \in S!Analyzing /\ UNCHANGED <<cand, orphans>>
    BY <1>2, <2>2 DEF S!Recommend, S!Throw, S!Analyzing, S!ghosts, S!ledger
  <2> QED BY <2>2, <2>3 DEF Takes
<1>3. CASE S!Scan(j) \/ S!Upsert(j) \/ S!WriteCursor(j)
  <2>1. PICK e \in JobTypes : Becomes(j, e)
    BY WorkFacts
  <2>2. job'[j] = e
    BY <2>1, BecomesFacts
  <2>3. job[j].at \notin S!Analyzing
    BY <1>3 DEF S!Scan, S!Upsert, S!WriteCursor, S!Analyzing
  <2>4. job'[j].at \in {"scan", "upsert", "pending", "finish"}
    <3>0. \A f : job' = [job EXCEPT ![j] = f] => job'[j] = f
      BY DEF Types
    <3>1. CASE S!Scan(j)
      <4> DEFINE t == job[j].table
                 after == {r \in visible[t] : r > cursor[t]}
                 b == {r \in after : Cardinality({x \in after : x <= r}) <= Batch}
                 l == S!Max(b \cup {cursor[t]})
      <4>1. job' = [job EXCEPT ![j] = [job[j] EXCEPT !.at = "upsert", !.todo = b, !.last = l]]
        BY <3>1, ScanIs
      <4> DEFINE f == [job[j] EXCEPT !.at = "upsert", !.todo = b, !.last = l]
      <4> HIDE DEF b, l
      <4>2. f.at = "upsert"
        BY <1>0 DEF JobTypes
      <4>3. job' = [job EXCEPT ![j] = f]
        BY <4>1
      <4> HIDE DEF f
      <4> QED BY <3>0, <4>2, <4>3
    <3>2. CASE S!Upsert(j)
      <4> DEFINE b == job[j].todo \ {S!Min(job[j].todo)}
      <4>1. job' = [job EXCEPT ![j].todo = b]
        BY <3>2 DEF S!Upsert
      <4>2. job[j].at = "upsert"
        BY <3>2 DEF S!Upsert
      <4> HIDE DEF b
      <4>3. job'[j].at = job[j].at
        BY <1>0, <4>1 DEF JobTypes, Types
      <4> QED BY <4>2, <4>3
    <3>3. CASE S!WriteCursor(j)
      BY <1>0, <3>0, <3>3 DEF S!WriteCursor, S!AfterScan, JobTypes
    <3> QED BY <1>3, <3>1, <3>2, <3>3
  <2>5. \A i \in Issues : cand'[i] = cand[i] \/ (cand[i].status = "none" /\ cand'[i].status = "pending")
    <3>1. job[j].at # "next"
      BY <1>3 DEF S!Scan, S!Upsert, S!WriteCursor
    <3>2. \A i \in Issues : Judges(j, i) => cand[i].status = "none" /\ cand'[i].status = "pending"
      BY <2>3, <3>1 DEF Judges, S!Mark
    <3> QED BY <3>2, CandSteps
  <2>6. UNCHANGED orphans
    BY <1>3 DEF S!Scan, S!Upsert, S!WriteCursor, S!ghosts
  <2> QED BY <2>1, <2>2, <2>3, <2>4, <2>5, <2>6 DEF Takes, S!Analyzing
<1>4. CASE S!Select(j)
  <2>1. PICK Q \in SUBSET Issues :
          /\ job' = [job EXCEPT ![j] = [@ EXCEPT !.at = "next", !.todo = Q]]
          /\ \A i \in Q : cand[i].status \in {"pending", "failed"}
    BY <1>4 DEF S!Select
  <2> DEFINE e == [job[j] EXCEPT !.at = "next", !.todo = Q]
  <2>2. e \in JobTypes /\ e.at = "next" /\ e.todo = Q
    BY <1>0 DEF JobTypes, S!JobAt
  <2>3. Becomes(j, e)
    BY <2>1 DEF Becomes
  <2>4. UNCHANGED <<cand, orphans>> /\ job[j].at = "pending"
    BY <1>4 DEF S!Select, S!ghosts, S!ledger
  <2> HIDE DEF e
  <2> QED BY <2>1, <2>2, <2>3, <2>4 DEF Takes
<1>5. ASSUME NEW i \in Issues, S!Mark(j, i) PROVE Goal
  <2> DEFINE e == [job[j] EXCEPT !.at = "model", !.todo = job[j].todo \ {i}, !.issue = i]
  <2>1. e \in JobTypes /\ e.at = "model" /\ e.issue = i /\ e.todo = job[j].todo \ {i}
    BY <1>0 DEF JobTypes, S!JobAt
  <2>2. Becomes(j, e)
    BY <1>5 DEF Becomes, S!Mark
  <2>3. job[j].at = "next" /\ i \in job[j].todo /\ orphans' = orphans \ {i}
    BY <1>5 DEF S!Mark
  <2>4. cand' = [cand EXCEPT ![i] = [status |-> "analyzing", attempts |-> @.attempts + 1]]
    BY <1>5 DEF S!Mark
  <2>5. cand'[i].status = "analyzing" /\ \A x \in Issues : x # i => cand'[x] = cand[x]
    BY <1>0, <2>4
  <2> HIDE DEF e
  <2> QED BY <2>1, <2>2, <2>3, <2>5 DEF Takes
<1>6. CASE S!Skip(j) \/ S!Settle(j) \/ S!GiveUp(j)
  <2> DEFINE e == [job[j] EXCEPT !.at = "next", !.issue = Nobody]
  <2>1. e \in JobTypes /\ e.at = "next" /\ e.todo = job[j].todo
    BY <1>0 DEF JobTypes, S!JobAt
  <2>2. Becomes(j, e)
    BY <1>6 DEF Becomes, S!Skip, S!Settle, S!GiveUp, S!NextCandidate
  <2>3. job[j].at \in S!Analyzing /\ UNCHANGED orphans
    BY <1>6 DEF S!Skip, S!Settle, S!GiveUp, S!ghosts, S!Analyzing
  <2>4. \E s \in {"skipped", "analyzed", "failed"} : cand' = [cand EXCEPT ![job[j].issue].status = s]
    BY <1>6 DEF S!Skip, S!Settle, S!GiveUp, S!Statused
  <2>5. /\ cand'[job[j].issue].status \in {"skipped", "analyzed", "failed"}
        /\ \A x \in Issues : x # job[j].issue => cand'[x] = cand[x]
    BY <1>0, <2>3, <2>4 DEF CandTypes
  <2> HIDE DEF e
  <2> QED BY <2>1, <2>2, <2>3, <2>5 DEF Takes
<1>7. CASE S!RunFault(j)
  <2> DEFINE e == [job[j] EXCEPT !.at = "unlock", !.issue = Nobody]
  <2>1. e \in JobTypes /\ e.at = "unlock"
    BY <1>0 DEF JobTypes, S!JobAt
  <2>2. Becomes(j, e)
    BY <1>7 DEF Becomes, S!RunFault
  <2>3. UNCHANGED cand /\ orphans' = orphans \cup ({job[j].issue} \ {Nobody})
    BY <1>7 DEF S!RunFault, S!ledger
  <2> HIDE DEF e
  <2> QED BY <2>1, <2>2, <2>3 DEF Takes
<1> QED BY <1>1, <1>2, <1>3, <1>4, <1>5, <1>6, <1>7 DEF Work

(* A step that leaves the candidates and the runs that analyze them alone.  *)
Quiet ==
    /\ UNCHANGED <<cand, cursor, orphans>> /\ (shared => shared')
    /\ \A k \in Jobs : \/ job'[k] = job[k]
                       \/ /\ job[k].at \notin S!Analyzing
                          /\ job'[k].at \notin S!Analyzing \cup {"next", "upsert"}

LEMMA QuietFacts ==
    ASSUME Types, \/ Still /\ UNCHANGED S!ledger
                  \/ \E j \in Jobs : Schedules(j) \/ Leaves(j) \/ Enters(j)
    PROVE  Quiet
<1>1. CASE Still /\ UNCHANGED S!ledger
  BY <1>1 DEF Still, Quiet, S!ledger
<1>2. ASSUME NEW j \in Jobs, NEW e \in JobTypes, Becomes(j, e),
             job[j].at \notin S!Analyzing, e.at \notin S!Analyzing \cup {"next", "upsert"},
             UNCHANGED <<cand, cursor, orphans>>, shared => shared'
      PROVE  Quiet
  BY <1>2, BecomesFacts DEF Quiet
<1>3. ASSUME NEW j \in Jobs, Schedules(j) \/ Leaves(j) \/ Enters(j) PROVE Quiet
  <2>1. CASE Schedules(j)
    <3>1. PICK e \in JobTypes :
             /\ Becomes(j, e) /\ job[j].at \in {"idle", "settings"} /\ e.at \in Outside
             /\ UNCHANGED <<S!rows, S!ledger, S!ghosts>>
      BY <2>1, ScheduleFacts
    <3> QED BY <1>2, <3>1 DEF Outside, S!Analyzing, S!ledger, S!ghosts
  <2>2. CASE Leaves(j)
    BY <1>2, <2>2, EndedFacts DEF Leaves, S!Analyzing, S!ledger, S!ghosts
  <2>3. CASE Enters(j)
    <3>1. PICK e \in JobTypes :
             /\ Becomes(j, e) /\ job[j].at = "lock" /\ e.at = "record"
             /\ shared' = (shared \/ \E k \in Jobs : S!Inside(k))
             /\ UNCHANGED <<running, S!rows, S!ledger, orphans>>
      BY <2>3 DEF Enters
    <3>2. shared => shared'
      BY <3>1
    <3> QED BY <1>2, <3>1, <3>2 DEF S!Analyzing, S!ledger
  <2> QED BY <1>3, <2>1, <2>2, <2>3
<1> QED BY <1>1, <1>3

(* A crash leaves no run anywhere.                                          *)
LEMMA CrashFacts ==
    ASSUME Types, S!Crash
    PROVE  /\ \A j \in Jobs : job'[j].at \in {"idle", "done"}
           /\ UNCHANGED <<cand, cursor, shared, S!rows>>
           /\ \A j \in Jobs : job[j].at \in S!Analyzing => job[j].issue \in orphans'
           /\ orphans \subseteq orphans'
BY EndedFacts DEF S!Crash, S!ledger

LEMMA InHandStep == S!SelfcheckAssumption /\ Types /\ InHand /\ [S!Next]_(S!vars) => InHand'
<1> SUFFICES ASSUME S!SelfcheckAssumption, Types, InHand, [S!Next]_(S!vars) PROVE InHand'
  OBVIOUS
<1>1. CASE Quiet
  BY <1>1 DEF InHand, Quiet
<1>2. CASE S!Crash
  BY <1>2, CrashFacts DEF InHand, S!Analyzing
<1>3. ASSUME NEW j \in Jobs, Work(j) PROVE InHand'
  <2>1. PICK e \in JobTypes : Becomes(j, e) /\ Takes(j, e)
    BY <1>3, TakesFacts
  <2>2. job'[j] = e /\ \A k \in Jobs : k # j => job'[k] = job[k]
    BY <2>1, BecomesFacts
  <2>3. /\ e.at \in S!Analyzing => e.issue \in Issues \ e.todo
        /\ e.at \in S!Analyzing \cup {"next"} => e.todo \subseteq Issues
    BY <2>1 DEF Takes, InHand, S!Analyzing
  <2> QED BY <2>2, <2>3 DEF InHand
<1> QED BY <1>1, <1>2, <1>3, Kinds, QuietFacts

LEMMA WorkedStep ==
    S!SelfcheckAssumption /\ Types /\ InHand /\ S!AnalyzingIsWorkedOn /\ [S!Next]_(S!vars) => S!AnalyzingIsWorkedOn'
<1> SUFFICES ASSUME S!SelfcheckAssumption, Types, InHand, S!AnalyzingIsWorkedOn, [S!Next]_(S!vars),
                    NEW i \in Issues, cand'[i].status = "analyzing"
             PROVE  i \in orphans' \/ \E k \in Jobs : job'[k].at \in S!Analyzing /\ job'[k].issue = i
  BY DEF S!AnalyzingIsWorkedOn
<1>0. cand[i].status = "analyzing" =>
         i \in orphans \/ \E k \in Jobs : job[k].at \in S!Analyzing /\ job[k].issue = i
  BY DEF S!AnalyzingIsWorkedOn
<1>1. CASE Quiet
  BY <1>0, <1>1 DEF Quiet
<1>2. CASE S!Crash
  BY <1>0, <1>2, CrashFacts
<1>3. ASSUME NEW j \in Jobs, Work(j)
      PROVE  i \in orphans' \/ \E k \in Jobs : job'[k].at \in S!Analyzing /\ job'[k].issue = i
  <2>1. PICK e \in JobTypes : Becomes(j, e) /\ Takes(j, e)
    BY <1>3, TakesFacts
  <2>2. job'[j] = e /\ \A k \in Jobs : k # j => job'[k] = job[k]
    BY <2>1, BecomesFacts
  <2>3. i # Nobody
    BY DEF S!SelfcheckAssumption
  <2>4. CASE e.at = "model" /\ e.issue = i
    BY <2>2, <2>4 DEF S!Analyzing
  <2>5. CASE ~ (e.at = "model" /\ e.issue = i)
    <3>1. cand[i].status = "analyzing"
      BY <2>1, <2>5 DEF Takes, InHand
    <3>2. CASE i \in orphans
      BY <2>1, <2>5, <3>2 DEF Takes
    <3>3. ASSUME NEW k \in Jobs, job[k].at \in S!Analyzing, job[k].issue = i, k # j
          PROVE  job'[k].at \in S!Analyzing /\ job'[k].issue = i
      BY <2>2, <3>3
    <3>4. CASE job[j].at \in S!Analyzing /\ job[j].issue = i
      BY <2>1, <2>2, <2>3, <3>4 DEF Takes, S!Analyzing
    <3> QED BY <1>0, <3>1, <3>2, <3>3, <3>4
  <2> QED BY <2>4, <2>5
<1> QED BY <1>1, <1>2, <1>3, Kinds, QuietFacts

(* While no two runs have shared the lock, at most one is past it.          *)
Alone == \A j, k \in Jobs : ~ shared /\ S!Inside(j) /\ S!Inside(k) => j = k

LEMMA AloneStep == S!SelfcheckAssumption /\ Types /\ Alone /\ [S!Next]_(S!vars) => Alone'
<1> SUFFICES ASSUME S!SelfcheckAssumption, Types, Alone, [S!Next]_(S!vars), ~ shared' PROVE Alone'
  BY DEF Alone
<1>0. ASSUME NEW k \in Jobs, job'[k] = job[k] PROVE S!Inside(k)' <=> S!Inside(k)
  BY <1>0 DEF S!Inside
<1>1. CASE Still
  BY <1>0, <1>1 DEF Still, Alone
<1>2. CASE S!Crash
  <2>1. \A k \in Jobs : ~ S!Inside(k)'
    BY <1>2, CrashFacts DEF S!Inside
  <2> QED BY <2>1 DEF Alone
<1>3. ASSUME NEW j \in Jobs, NEW e \in JobTypes, Becomes(j, e), ~ shared,
             S!Inside(j)' => S!Inside(j) \/ \A k \in Jobs : ~ S!Inside(k)
      PROVE  Alone'
  <2>1. job'[j] = e /\ \A k \in Jobs : k # j => job'[k] = job[k]
    BY <1>3, BecomesFacts
  <2>2. \A k \in Jobs : k # j /\ S!Inside(k)' => S!Inside(k)
    BY <1>0, <2>1
  <2>3. \A k, n \in Jobs : S!Inside(k) /\ S!Inside(n) => k = n
    BY <1>3 DEF Alone
  <2>4. ASSUME NEW k \in Jobs, NEW n \in Jobs, S!Inside(k)', S!Inside(n)' PROVE k = n
    BY <1>3, <2>2, <2>3, <2>4
  <2> QED BY <2>4 DEF Alone
<1>4. ASSUME NEW j \in Jobs, Schedules(j) \/ Leaves(j) PROVE Alone'
  <2>1. PICK e \in JobTypes : Becomes(j, e) /\ e.at \in Outside /\ UNCHANGED shared
    <3>1. CASE Schedules(j)
      BY <3>1, ScheduleFacts DEF S!ghosts
    <3>2. CASE Leaves(j)
      BY <3>2, EndedFacts DEF Leaves, Outside, S!ghosts
    <3> QED BY <1>4, <3>1, <3>2
  <2>2. ~ S!Inside(j)'
    BY <2>1, BecomesFacts DEF S!Inside, Outside
  <2> QED BY <1>3, <2>1, <2>2
<1>5. ASSUME NEW j \in Jobs, Enters(j) PROVE Alone'
  <2>1. PICK e \in JobTypes : Becomes(j, e) /\ shared' = (shared \/ \E k \in Jobs : S!Inside(k))
    BY <1>5 DEF Enters
  <2>2. ~ shared /\ \A k \in Jobs : ~ S!Inside(k)
    BY <2>1
  <2> QED BY <1>3, <2>1, <2>2
<1>6. ASSUME NEW j \in Jobs, Work(j) PROVE Alone'
  <2>1. PICK e \in JobTypes : Becomes(j, e) /\ UNCHANGED shared /\ S!Inside(j)
    BY <1>6, WorkFacts
  <2> QED BY <1>3, <2>1
<1> QED BY <1>1, <1>2, <1>4, <1>5, <1>6, Kinds

(* Then what it has to judge, and what it is judging, has no verdict yet.   *)
Unjudged ==
    ~ shared => \A j \in Jobs :
        /\ job[j].at \in S!Analyzing \cup {"next"} => \A i \in job[j].todo : cand[i].status \notin S!Final
        /\ job[j].at \in S!Analyzing => cand[job[j].issue].status \notin S!Final

LEMMA UnjudgedStep ==
    S!SelfcheckAssumption /\ Types /\ InHand /\ Alone /\ Unjudged /\ [S!Next]_(S!vars) => Unjudged'
<1> SUFFICES ASSUME S!SelfcheckAssumption, Types, InHand, Alone, Unjudged, [S!Next]_(S!vars),
                    ~ shared', NEW n \in Jobs
             PROVE  /\ job'[n].at \in S!Analyzing \cup {"next"} =>
                          \A i \in job'[n].todo : cand'[i].status \notin S!Final
                    /\ job'[n].at \in S!Analyzing => cand'[job'[n].issue].status \notin S!Final
  BY DEF Unjudged
<1> DEFINE Goal == /\ job'[n].at \in S!Analyzing \cup {"next"} =>
                          \A i \in job'[n].todo : cand'[i].status \notin S!Final
                   /\ job'[n].at \in S!Analyzing => cand'[job'[n].issue].status \notin S!Final
<1>0. ~ shared =>
         /\ job[n].at \in S!Analyzing \cup {"next"} => \A i \in job[n].todo : cand[i].status \notin S!Final
         /\ job[n].at \in S!Analyzing => cand[job[n].issue].status \notin S!Final
  BY DEF Unjudged
<1>1. CASE Quiet
  <2>1. ~ shared /\ UNCHANGED cand
    BY <1>1 DEF Quiet
  <2>2. CASE job'[n] = job[n]
    BY <1>0, <2>1, <2>2
  <2>3. CASE job'[n].at \notin S!Analyzing \cup {"next"}
    BY <2>3
  <2> QED BY <1>1, <2>2, <2>3 DEF Quiet
<1>2. CASE S!Crash
  BY <1>2, CrashFacts DEF S!Analyzing
<1>3. ASSUME NEW j \in Jobs, Work(j) PROVE Goal
  <2>1. PICK e \in JobTypes : Becomes(j, e) /\ Takes(j, e)
    BY <1>3, TakesFacts
  <2>2. job'[j] = e /\ \A k \in Jobs : k # j => job'[k] = job[k]
    BY <2>1, BecomesFacts
  <2>3. S!Inside(j) /\ ~ shared
    BY <1>3, WorkFacts
  <2>4. CASE n # j
    <3>1. ~ S!Inside(n) /\ job'[n] = job[n]
      BY <2>2, <2>3, <2>4 DEF Alone
    <3> QED BY <3>1 DEF S!Inside, S!Analyzing
  <2>5. CASE n = j
    <3>1. /\ job[j].at \in S!Analyzing \cup {"next"} => \A i \in job[j].todo : cand[i].status \notin S!Final
          /\ job[j].at \in S!Analyzing => cand[job[j].issue].status \notin S!Final
      BY <1>0, <2>3, <2>5
    <3>2. /\ job[j].at \in S!Analyzing => job[j].issue \in Issues \ job[j].todo
          /\ job[j].at \in S!Analyzing \cup {"next"} => job[j].todo \subseteq Issues
      BY DEF InHand
    <3>3. /\ e.at \in S!Analyzing \cup {"next"} => \A i \in e.todo : cand'[i].status \notin S!Final
          /\ e.at \in S!Analyzing => cand'[e.issue].status \notin S!Final
      BY <2>1, <3>1, <3>2 DEF Takes, S!Analyzing, S!Final
    <3> QED BY <2>2, <2>5, <3>3
  <2> QED BY <2>4, <2>5
<1> QED BY <1>1, <1>2, <1>3, Kinds, QuietFacts

(* So a verdict stays, unless two runs were past the lock together.         *)
LEMMA JudgedStep ==
    ASSUME S!SelfcheckAssumption, Types, InHand, Unjudged, [S!Next]_(S!vars),
           NEW i \in Issues, cand[i].status \in S!Final
    PROVE  cand'[i].status = cand[i].status \/ shared
<1>1. CASE Quiet
  BY <1>1 DEF Quiet
<1>2. CASE S!Crash
  BY <1>2, CrashFacts
<1>3. ASSUME NEW j \in Jobs, Work(j), ~ shared PROVE cand'[i].status = cand[i].status
  <2>1. PICK e \in JobTypes : Becomes(j, e) /\ Takes(j, e)
    BY <1>3, TakesFacts
  <2>2. /\ job[j].at \in S!Analyzing \cup {"next"} => \A x \in job[j].todo : cand[x].status \notin S!Final
        /\ job[j].at \in S!Analyzing => cand[job[j].issue].status \notin S!Final
    BY <1>3 DEF Unjudged
  <2>3. "none" \notin S!Final
    BY DEF S!Final
  <2> QED BY <2>1, <2>2, <2>3 DEF Takes
<1> QED BY <1>1, <1>2, <1>3, Kinds, QuietFacts

-----------------------------------------------------------------------------
(* The evidence.                                                            *)

Found(t, r) == cand[RowIssue[t][r]].status # "none"
InTime(t) == visible[t] \ late[t]

(* The cursor, and the id a scan has read up to, are those of a row that    *)
(* was visible: only late rows can still come before them.                  *)
Reached(t, x) == x = 0 \/ x \in visible[t]

Evidence ==
    /\ \A t \in S!Tables : /\ Reached(t, cursor[t])
                         /\ \A r \in InTime(t) : r <= cursor[t] => Found(t, r)
    /\ \A j \in Jobs : job[j].at = "upsert" =>
          /\ Reached(job[j].table, job[j].last)
          /\ \A r \in InTime(job[j].table) :
                r <= job[j].last => r \in job[j].todo \/ Found(job[j].table, r)

LEMMA RowSteps ==
    ASSUME S!SelfcheckAssumption, Types, [S!Next]_(S!vars), NEW t \in S!Tables
    PROVE  /\ \A x \in Nat : Reached(t, x) => Reached(t, x)' /\ \A r \in InTime(t)' : r <= x => r \in InTime(t)
           /\ InTime(t)' \subseteq Nat
<1> DEFINE Goal == \A x \in Nat : Reached(t, x) => Reached(t, x)' /\ \A r \in InTime(t)' : r <= x => r \in InTime(t)
<1>1. ASSUME UNCHANGED <<visible, late>> PROVE Goal
  <2>1. InTime(t)' = InTime(t) /\ \A x \in Nat : Reached(t, x)' <=> Reached(t, x)
    BY <1>1 DEF Reached, InTime
  <2> QED BY <2>1
<1>2. ASSUME NEW u \in S!Tables, NEW r0 \in DOMAIN RowIssue[u], S!CommitRow(u, r0) PROVE Goal
  <2>1. /\ r0 \in 1..begun[u] /\ r0 \notin visible[u]
        /\ visible' = [visible EXCEPT ![u] = @ \cup {r0}]
        /\ late' = [late EXCEPT ![u] = IF \E v \in visible[u] : v > r0 THEN @ \cup {r0} ELSE @]
    BY <1>2 DEF S!CommitRow
  <2>2. CASE t # u
    <3>1. visible'[t] = visible[t] /\ late'[t] = late[t]
      BY <2>1, <2>2 DEF Types
    <3> QED BY <3>1 DEF Reached, InTime
  <2>3. CASE t = u
    <3>1. /\ visible'[t] = visible[t] \cup {r0}
          /\ late'[t] = IF \E v \in visible[t] : v > r0 THEN late[t] \cup {r0} ELSE late[t]
      BY <2>1, <2>3 DEF Types
    <3>2. r0 \in Nat /\ r0 > 0
      BY <2>1 DEF Types
    <3>3. ASSUME NEW x \in Nat, Reached(t, x), NEW r \in InTime(t)', r <= x PROVE r \in InTime(t)
      <4>1. r # r0
        <5> SUFFICES ASSUME r = r0 PROVE FALSE
          OBVIOUS
        <5>1. x # 0 /\ x # r0 /\ r0 <= x
          BY <2>1, <2>3, <3>2, <3>3 DEF Reached
        <5>2. x \in visible[t] /\ x > r0
          BY <3>2, <3>3, <5>1 DEF Reached
        <5>3. r0 \in late'[t]
          BY <3>1, <5>2
        <5> QED BY <3>3, <5>3 DEF InTime
      <4> QED BY <3>1, <4>1 DEF InTime
    <3>4. \A x \in Nat : Reached(t, x) => Reached(t, x)'
      BY <3>1 DEF Reached
    <3> QED BY <3>3, <3>4
  <2> QED BY <2>2, <2>3
<1>3. Goal
  <2>1. CASE UNCHANGED S!vars
    BY <1>1, <2>1 DEF S!vars
  <2>2. CASE S!Next
    <3>1. \/ UNCHANGED <<visible, late>>
          \/ \E u \in S!Tables : \E r \in DOMAIN RowIssue[u] : S!CommitRow(u, r)
      <4>1. ASSUME NEW u \in S!Tables, S!BeginRow(u) PROVE UNCHANGED <<visible, late>>
        BY <4>1 DEF S!BeginRow
      <4>2. ASSUME S!Wait \/ S!Crash \/ \E c \in Conns : S!CloseIdle(c) PROVE UNCHANGED <<visible, late>>
        BY <4>2 DEF S!Wait, S!Crash, S!CloseIdle, S!rows
      <4>3. ASSUME NEW j \in Jobs, Schedules(j) PROVE UNCHANGED <<visible, late>>
        BY <4>3, ScheduleFacts DEF S!rows
      <4>4. ASSUME NEW j \in Jobs, S!RecordFault(j) \/ (\E c \in Conns : S!Unlock(j, c)) \/ \E c \in Conns : S!Lock(j, c)
            PROVE  UNCHANGED <<visible, late>>
        BY <4>4 DEF S!RecordFault, S!Unlock, S!Lock, S!rows
      <4>5. ASSUME NEW j \in Jobs, Work(j) PROVE UNCHANGED <<visible, late>>
        BY <4>5, CandSteps DEF S!rows
      <4> HIDE DEF Goal
      <4> QED BY <2>2, <4>1, <4>2, <4>3, <4>4, <4>5, StepCases
    <3> QED BY <1>1, <1>2, <3>1
  <2> QED BY <2>1, <2>2
<1>4. InTime(t)' \subseteq Nat
  BY TypesStep DEF Types, InTime
<1> QED BY <1>3, <1>4

LEMMA FoundStays ==
    ASSUME S!SelfcheckAssumption, Types, [S!Next]_(S!vars), NEW i \in Issues, cand[i].status # "none"
    PROVE  cand'[i].status # "none"
<1>1. CASE Quiet
  BY <1>1 DEF Quiet
<1>2. CASE S!Crash
  BY <1>2, CrashFacts
<1>3. ASSUME NEW j \in Jobs, Work(j) PROVE cand'[i].status # "none"
  BY <1>3, CandSteps DEF Judges
<1> QED BY <1>1, <1>2, <1>3, Kinds, QuietFacts

(* The issue of a row that can be seen.                                     *)
LEMMA IssueFacts ==
    ASSUME S!SelfcheckAssumption, Types, NEW t \in S!Tables, NEW r \in visible[t]
    PROVE  RowIssue[t][r] \in Issues
<1>1. RowIssue[t] \in Seq(Issues)
  BY DEF S!SelfcheckAssumption, S!Tables
<1>2. r \in 1..begun[t] /\ begun[t] <= Len(RowIssue[t]) /\ begun[t] \in Nat
  BY DEF Types
<1>3. Len(RowIssue[t]) \in Nat /\ r \in 1..Len(RowIssue[t])
  BY <1>1, <1>2
<1> QED BY <1>1, <1>3

(* The first Batch rows after the cursor, and nothing in between is left.   *)
LEMMA ScanFacts ==
    ASSUME S!SelfcheckAssumption, Types, Evidence, NEW j \in Jobs, S!Scan(j)
    PROVE  LET t == job[j].table IN
           /\ job'[j].table = t /\ t \in S!Tables /\ Reached(t, job'[j].last)
           /\ job'[j].last \in Nat
           /\ \A r \in InTime(t) : r <= job'[j].last => r \in job'[j].todo \/ r <= cursor[t]
<1> DEFINE t == job[j].table
           after == {r \in visible[t] : r > cursor[t]}
           upto(r) == {s \in after : s <= r}
           batch == {r \in after : Cardinality(upto(r)) <= Batch}
           last == S!Max(batch \cup {cursor[t]})
           e == [job[j] EXCEPT !.at = "upsert", !.todo = batch, !.last = last]
<1>1. job[j] \in JobTypes /\ job' = [job EXCEPT ![j] = e] /\ t \in S!Tables
  BY ScanIs DEF Types, JobTypes
<1>2. visible[t] \subseteq Nat /\ cursor[t] \in Nat /\ IsFiniteSet(visible[t])
  <2> HIDE DEF t
  <2>1. visible[t] \subseteq 1..begun[t] /\ begun[t] \in Nat /\ cursor[t] \in Nat
    BY <1>1 DEF Types
  <2>2. IsFiniteSet(1..begun[t])
    BY <2>1, RowsFinite
  <2> QED BY <2>1, <2>2, FS_Subset
<1>3. batch \subseteq visible[t] /\ after \subseteq visible[t]
  OBVIOUS
<1>4. last \in batch \cup {cursor[t]} /\ last \in Nat
  <2> HIDE DEF batch, t
  <2>1. IsFiniteSet(batch \cup {cursor[t]}) /\ batch \cup {cursor[t]} \subseteq Nat
    BY <1>2, <1>3, FS_Subset, FS_AddElement
  <2>2. batch \cup {cursor[t]} # {}
    OBVIOUS
  <2> QED BY <2>1, <2>2, Greatest
<1>5. Reached(t, last)
  BY <1>1, <1>3, <1>4 DEF Evidence, Reached
<1>6. ASSUME NEW r \in InTime(t), r <= last, ~ (r <= cursor[t]) PROVE r \in batch
  <2>1. r \in after /\ r \in Nat
    BY <1>2, <1>6 DEF InTime
  <2>2. last \in batch
    BY <1>2, <1>4, <1>6
  <2>3. \A s \in after : s \in Nat
    BY <1>2
  <2>4. upto(r) \subseteq upto(last)
    <3> HIDE DEF last, after, t
    <3>1. \A s \in after : s <= r => s <= last
      BY <1>4, <1>6, <2>1, <2>3
    <3> QED BY <3>1
  <2>5. IsFiniteSet(after)
    BY <1>2, <1>3, FS_Subset
  <2>6. IsFiniteSet(upto(last)) /\ Cardinality(upto(last)) <= Batch
    <3>1. upto(last) \in SUBSET after
      OBVIOUS
    <3>2. Cardinality(upto(last)) <= Batch
      <4> HIDE DEF last, after, t
      <4> QED BY <2>2
    <3> HIDE DEF upto, after
    <3> QED BY <2>5, <3>1, <3>2, FS_Subset
  <2>7. Cardinality(upto(r)) <= Cardinality(upto(last)) /\ Cardinality(upto(r)) \in Nat /\ Cardinality(upto(last)) \in Nat
    <3> HIDE DEF upto
    <3> QED BY <2>4, <2>6, FS_Subset, FS_CardinalityType
  <2>8. Cardinality(upto(r)) <= Batch
    <3>1. Batch \in Nat
      BY DEF S!SelfcheckAssumption
    <3> HIDE DEF upto
    <3> QED BY <2>6, <2>7, <3>1
  <2> QED BY <2>1, <2>8
<1>7. job'[j].table = t /\ job'[j].last = last /\ job'[j].todo = batch
  <2> HIDE DEF batch, last
  <2>1. e.table = t /\ e.last = last /\ e.todo = batch
    BY <1>1 DEF JobTypes
  <2> HIDE DEF e
  <2>2. job'[j] = e
    BY <1>1 DEF Types
  <2> QED BY <2>1, <2>2
<1> HIDE DEF batch, last, t
<1> QED BY <1>1, <1>4, <1>5, <1>6, <1>7 DEF t

LEMMA EvidenceStep == S!SelfcheckAssumption /\ Types /\ Evidence /\ [S!Next]_(S!vars) => Evidence'
<1> SUFFICES ASSUME S!SelfcheckAssumption, Types, Evidence, [S!Next]_(S!vars) PROVE Evidence'
  OBVIOUS
<1>0. /\ \A j \in Jobs : job[j] \in JobTypes
      /\ \A t \in S!Tables : cursor[t] \in Nat
      /\ \A j \in Jobs : job[j].last \in Nat /\ job[j].table \in S!Tables
  BY DEF Types, JobTypes
<1>1. ASSUME NEW t \in S!Tables, NEW r \in InTime(t), Found(t, r) PROVE Found(t, r)'
  <2>1. RowIssue[t][r] \in Issues
    BY <1>1, IssueFacts DEF InTime
  <2> QED BY <1>1, <2>1, FoundStays DEF Found
<1>2. \A t \in S!Tables : \A x \in Nat :
         Reached(t, x) => Reached(t, x)' /\ \A r \in InTime(t)' : r <= x => r \in InTime(t)
  BY RowSteps
(* A job that stays as it is keeps its evidence, and so does the cursor.    *)
<1> DEFINE CursorTold(t) == Reached(t, cursor[t]) /\ \A r \in InTime(t) : r <= cursor[t] => Found(t, r)
           ScanTold(j) == job[j].at = "upsert" =>
              /\ Reached(job[j].table, job[j].last)
              /\ \A r \in InTime(job[j].table) :
                    r <= job[j].last => r \in job[j].todo \/ Found(job[j].table, r)
<1>3. SUFFICES (\A t \in S!Tables : CursorTold(t)') /\ \A j \in Jobs : ScanTold(j)'
  BY DEF Evidence
<1>4. (\A t \in S!Tables : CursorTold(t)) /\ \A j \in Jobs : ScanTold(j)
  BY DEF Evidence
<1>5. ASSUME NEW t \in S!Tables, cursor'[t] = cursor[t] PROVE CursorTold(t)'
  <2>1. Reached(t, cursor[t])' /\ \A r \in InTime(t)' : r <= cursor[t] => r \in InTime(t)
    <3>1. Reached(t, cursor[t])
      BY <1>4
    <3>2. \A x \in Nat : Reached(t, x) => (x = 0 \/ x \in visible'[t])
      BY <1>2 DEF Reached
    <3>3. Reached(t, cursor[t])'
      BY <1>0, <1>5, <3>1, <3>2 DEF Reached
    <3> QED BY <1>0, <1>2, <3>1, <3>3
  <2>2. \A r \in InTime(t)' : r <= cursor[t] => Found(t, r)'
    BY <1>1, <1>4, <2>1
  <2> QED BY <1>5, <2>1, <2>2
<1>6. ASSUME NEW j \in Jobs, job'[j] = job[j] PROVE ScanTold(j)'
  <2> SUFFICES ASSUME job[j].at = "upsert"
               PROVE  /\ Reached(job[j].table, job[j].last)'
                      /\ \A r \in InTime(job[j].table)' :
                            r <= job'[j].last => r \in job'[j].todo \/ Found(job[j].table, r)'
    BY <1>6
  <2>1. /\ Reached(job[j].table, job[j].last)
        /\ \A r \in InTime(job[j].table) :
              r <= job[j].last => r \in job[j].todo \/ Found(job[j].table, r)
    BY <1>4
  <2> DEFINE t == job[j].table
             x == job[j].last
  <2>2. t \in S!Tables /\ x \in Nat /\ t' = t /\ x' = x
    BY <1>0, <1>6
  <2>3. \A r \in InTime(t)' : r <= x => r \in InTime(t)
    BY <1>2, <2>1, <2>2
  <2>4. Reached(t, x)'
    <3>1. \A y \in Nat : Reached(t, y) => (y = 0 \/ y \in visible'[t])
      BY <1>2, <2>2 DEF Reached
    <3> QED BY <2>1, <2>2, <3>1 DEF Reached
  <2>5. \A r \in InTime(t)' : r <= x => r \in job[j].todo \/ Found(t, r)'
    BY <1>1, <2>1, <2>2, <2>3
  <2> QED BY <1>6, <2>4, <2>5
<1>7. CASE Quiet
  <2>1. \A t \in S!Tables : CursorTold(t)'
    BY <1>5, <1>7 DEF Quiet
  <2>2. \A j \in Jobs : job'[j] = job[j] \/ job'[j].at # "upsert"
    BY <1>7 DEF Quiet
  <2> QED BY <1>6, <2>1, <2>2
<1>8. CASE S!Crash
  <2>1. \A t \in S!Tables : CursorTold(t)'
    BY <1>5, <1>8, CrashFacts
  <2>2. \A j \in Jobs : job'[j].at # "upsert"
    BY <1>8, CrashFacts
  <2> QED BY <2>1, <2>2
<1>9. ASSUME NEW j \in Jobs, Work(j) PROVE (\A t \in S!Tables : CursorTold(t)') /\ \A k \in Jobs : ScanTold(k)'
  <2>1. PICK e \in JobTypes : Becomes(j, e)
    BY <1>9, WorkFacts
  <2>2. job'[j] = e /\ \A k \in Jobs : k # j => job'[k] = job[k]
    BY <2>1, BecomesFacts
  <2>3. \A k \in Jobs : k # j => ScanTold(k)'
    BY <1>6, <2>2
  <2>4. UNCHANGED S!rows
    BY <1>9, CandSteps
  <2>5. \A t \in S!Tables : InTime(t)' = InTime(t) /\ \A x : Reached(t, x)' <=> Reached(t, x)
    BY <2>4 DEF InTime, Reached, S!rows
  <2>6. CASE S!Scan(j)
    <3>1. \A t \in S!Tables : CursorTold(t)'
      BY <1>5, <2>6 DEF S!Scan, S!ledger
    <3>2. ScanTold(j)'
      BY <1>1, <1>4, <2>5, <2>6, ScanFacts DEF Reached
    <3> QED BY <2>3, <3>1, <3>2
  <2>7. CASE S!Upsert(j)
    <3>0. PICK t \in S!Tables : t = job[j].table
      BY <1>0
    <3>9. PICK low : low = S!Min(job[j].todo)
      OBVIOUS
    <3> DEFINE i == S!IssueOf(t, low)
    <3>1. \A u \in S!Tables : CursorTold(u)'
      BY <1>5, <2>7 DEF S!Upsert
    <3>2. /\ job' = [job EXCEPT ![j].todo = @ \ {low}]
          /\ cand' = IF cand[i].status = "none" THEN [cand EXCEPT ![i].status = "pending"] ELSE cand
          /\ job[j].at = "upsert"
      BY <2>7, <3>0, <3>9 DEF S!Upsert
    <3>3. /\ Reached(t, job[j].last)
          /\ \A r \in InTime(t) : r <= job[j].last => r \in job[j].todo \/ Found(t, r)
      BY <1>4, <3>0, <3>2
    <3>4. ASSUME low \in InTime(t) PROVE Found(t, low)'
      <4>1. i \in Issues
        BY <1>0, <3>4, IssueFacts DEF InTime, S!IssueOf
      <4>2. cand \in [Issues -> CandTypes]
        BY DEF Types
      <4> HIDE DEF i
      <4>3. cand'[i].status # "none"
        BY <3>2, <4>1, <4>2 DEF CandTypes
      <4> QED BY <4>3 DEF Found, i, S!IssueOf
    <3>5. /\ job'[j].table = t /\ job'[j].last = job[j].last /\ job'[j].todo = job[j].todo \ {low}
      <4>1. job[j] \in JobTypes /\ job \in [Jobs -> JobTypes]
        BY DEF Types
      <4> QED BY <3>0, <3>2, <4>1 DEF JobTypes
    <3>6. \A r \in InTime(t) : r <= job[j].last => r \in job[j].todo \ {low} \/ Found(t, r)'
      BY <1>0, <1>1, <3>3, <3>4
    <3>7. InTime(t)' = InTime(t) /\ Reached(t, job[j].last)'
      BY <1>0, <2>4, <2>5, <3>3, <3>5 DEF InTime, Reached, S!rows
    <3>8. ScanTold(j)'
      BY <3>5, <3>6, <3>7 DEF Reached, Found
    <3> QED BY <2>3, <3>1, <3>8
  <2>8. CASE S!WriteCursor(j)
    <3>0. PICK t \in S!Tables : t = job[j].table
      BY <1>0
    <3>1. /\ cursor' = [cursor EXCEPT ![t] = job[j].last] /\ job[j].todo = {} /\ job[j].at = "upsert"
          /\ job' = [job EXCEPT ![j] = S!AfterScan(j)]
      BY <2>8, <3>0 DEF S!WriteCursor
    <3>2. cursor'[t] = job[j].last /\ \A u \in S!Tables : u # t => cursor'[u] = cursor[u]
      BY <1>0, <3>1 DEF Types
    <3>3. Reached(t, job[j].last) /\ \A r \in InTime(t) : r <= job[j].last => Found(t, r)
      BY <1>4, <3>0, <3>1
    <3>4. CursorTold(t)'
      <4>1. Reached(t, cursor[t])'
        BY <2>4, <3>2, <3>3 DEF Reached, S!rows
      <4>2. InTime(t)' = InTime(t)
        BY <2>4 DEF InTime, S!rows
      <4> QED BY <1>0, <1>1, <3>2, <3>3, <4>1, <4>2
    <3>5. \A u \in S!Tables : CursorTold(u)'
      BY <1>5, <3>2, <3>4
    <3>6. job'[j].at # "upsert"
      <4>1. job[j] \in JobTypes /\ job \in [Jobs -> JobTypes]
        BY DEF Types
      <4> QED BY <3>1, <4>1 DEF JobTypes, S!AfterScan
    <3> QED BY <2>3, <3>5, <3>6
  <2>9. CASE ~ (S!Scan(j) \/ S!Upsert(j) \/ S!WriteCursor(j))
    <3>1. UNCHANGED cursor /\ job'[j].at # "upsert"
      <4>1. CASE S!Record(j) \/ S!Recommend(j) \/ S!Throw(j) \/ S!Finish(j)
        <5>1. PICK to \in {"pending", "scan", "settle", "giveup", "unlock"} : S!Go(j, to)
          BY <4>1 DEF S!Record, S!Recommend, S!Throw, S!Finish
        <5>2. job'[j].at = to
          BY <5>1, GoFacts, BecomesFacts DEF S!JobAt
        <5> QED BY <4>1, <5>2 DEF S!Record, S!Recommend, S!Throw, S!Finish, S!ledger
      <4>2. CASE S!Select(j) \/ (\E i \in Issues : S!Mark(j, i)) \/ S!Skip(j) \/ S!Settle(j) \/ S!GiveUp(j) \/ S!RunFault(j)
        <5>1. UNCHANGED cursor
          BY <4>2 DEF S!Select, S!Mark, S!Skip, S!Settle, S!GiveUp, S!RunFault, S!ledger
        <5>2. job[j].at # "upsert" \/ S!RunFault(j)
          BY <4>2 DEF S!Select, S!Mark, S!Skip, S!Settle, S!GiveUp
        <5>3. job'[j].at # "upsert"
          <6>1. ASSUME NEW f \in JobTypes, f.at # "upsert", job' = [job EXCEPT ![j] = f]
                PROVE  job'[j].at # "upsert"
            BY <6>1 DEF Types
          <6>2. CASE S!Select(j)
            <7>1. PICK Q \in SUBSET Issues : job' = [job EXCEPT ![j] = [@ EXCEPT !.at = "next", !.todo = Q]]
              BY <6>2 DEF S!Select
            <7>2. job[j] \in JobTypes
              BY <1>0
            <7>3. [job[j] EXCEPT !.at = "next", !.todo = Q] \in JobTypes
                  /\ [job[j] EXCEPT !.at = "next", !.todo = Q].at = "next"
              BY <7>2 DEF JobTypes, S!JobAt
            <7> QED BY <6>1, <7>1, <7>3
          <6>3. ASSUME NEW to \in {"next", "unlock"},
                       job' = [job EXCEPT ![j] = [@ EXCEPT !.at = to, !.issue = Nobody]]
                PROVE  job'[j].at # "upsert"
            <7>1. job[j] \in JobTypes
              BY <1>0
            <7>2. [job[j] EXCEPT !.at = to, !.issue = Nobody] \in JobTypes
                  /\ [job[j] EXCEPT !.at = to, !.issue = Nobody].at = to
              BY <7>1 DEF JobTypes, S!JobAt
            <7> QED BY <6>1, <6>3, <7>2
          <6>4. ASSUME S!Skip(j) \/ S!Settle(j) \/ S!GiveUp(j) \/ S!RunFault(j) PROVE job'[j].at # "upsert"
            BY <6>3, <6>4 DEF S!Skip, S!Settle, S!GiveUp, S!NextCandidate, S!RunFault
          <6>5. ASSUME NEW i \in Issues, S!Mark(j, i) PROVE job'[j].at # "upsert"
            <7> DEFINE f == [job[j] EXCEPT !.at = "model", !.todo = job[j].todo \ {i}, !.issue = i]
            <7>1. f \in JobTypes /\ f.at = "model"
              BY <1>0 DEF JobTypes, S!JobAt
            <7>2. job' = [job EXCEPT ![j] = f]
              BY <6>5 DEF S!Mark
            <7> HIDE DEF f
            <7> QED BY <6>1, <7>1, <7>2
          <6> QED BY <4>2, <6>2, <6>4, <6>5
        <5> QED BY <5>1, <5>3
      <4> QED BY <1>9, <2>9, <4>1, <4>2 DEF Work
    <3>2. \A t \in S!Tables : CursorTold(t)'
      BY <1>5, <3>1
    <3> QED BY <2>3, <3>1, <3>2
  <2> QED BY <2>6, <2>7, <2>8, <2>9
<1> QED BY <1>7, <1>8, <1>9, Kinds, QuietFacts

-----------------------------------------------------------------------------
SelfcheckInv == Types /\ Freed /\ InHand /\ S!AnalyzingIsWorkedOn /\ Alone /\ Unjudged /\ Evidence

LEMMA InitInv == S!SelfcheckAssumption /\ S!Init => SelfcheckInv
<1> SUFFICES ASSUME S!SelfcheckAssumption, S!Init PROVE SelfcheckInv
  OBVIOUS
<1>1. [S!Ended EXCEPT !.at = "idle"] \in JobTypes /\ [S!Ended EXCEPT !.at = "idle"].at = "idle"
      /\ ~ [S!Ended EXCEPT !.at = "idle"].ticked
  BY DEF S!Ended, JobTypes, S!JobAt, S!Modes, S!Tables
<1>2. \A j \in Jobs : job[j] = [S!Ended EXCEPT !.at = "idle"]
  BY DEF S!Init
<1>3. job \in [Jobs -> JobTypes] /\ \A j \in Jobs : job[j].at = "idle"
  <2>1. job = [j \in Jobs |-> [S!Ended EXCEPT !.at = "idle"]]
    BY DEF S!Init
  <2> QED BY <1>1, <2>1
<1>4. Types
  <2>1. \A t \in S!Tables : Len(RowIssue[t]) \in Nat
    BY DEF S!SelfcheckAssumption, S!Tables
  <2>2. cand \in [Issues -> CandTypes]
    BY DEF S!Init, CandTypes, S!Statuses
  <2>3. /\ begun = [t \in S!Tables |-> 0] /\ cursor = [t \in S!Tables |-> 0]
        /\ visible = [t \in S!Tables |-> {}] /\ late = [t \in S!Tables |-> {}]
        /\ running = FALSE /\ shared = FALSE
    BY DEF S!Init
  <2>4. \A t \in S!Tables : begun[t] <= Len(RowIssue[t]) /\ visible[t] \subseteq 1..begun[t]
    BY <2>1, <2>3
  <2> QED BY <1>3, <2>2, <2>3, <2>4 DEF Types
<1>5. Freed
  BY <1>3 DEF S!Init, Freed, S!SchedulerFreed
<1>6. InHand /\ Alone /\ Unjudged
  BY <1>3 DEF InHand, Alone, Unjudged, S!Inside, S!Analyzing
<1>7. S!AnalyzingIsWorkedOn
  BY DEF S!Init, S!AnalyzingIsWorkedOn
<1>8. Evidence
  BY <1>3 DEF S!Init, Evidence, Reached, InTime
<1> QED BY <1>4, <1>5, <1>6, <1>7, <1>8 DEF SelfcheckInv

LEMMA NextInv == S!SelfcheckAssumption /\ SelfcheckInv /\ [S!Next]_(S!vars) => SelfcheckInv'
BY TypesStep, FreedStep, InHandStep, WorkedStep, AloneStep, UnjudgedStep, EvidenceStep
  DEF SelfcheckInv

LEMMA InvSpec ==
    ASSUME S!SelfcheckAssumption
    PROVE  S!Spec => []SelfcheckInv
<1>1. S!Init => SelfcheckInv
  BY InitInv
<1>2. SelfcheckInv /\ [S!Next]_(S!vars) => SelfcheckInv'
  BY NextInv
<1> QED BY <1>1, <1>2, PTL DEF S!Spec

(* runSelfcheckOnce and startSelfcheckScheduler: the rows a scan passes are *)
(* in their candidates whatever overlapped, failed or crashed; a candidate  *)
(* is "analyzing" only while a run works on it or one was cut off; the      *)
(* scheduler's running is up only while its run is; and a candidate is      *)
(* judged once unless two runs were past the lock.                          *)
THEOREM SelfcheckHolds ==
    ASSUME S!SelfcheckAssumption
    PROVE  S!Spec => SelfcheckSound
<1>1. SelfcheckInv => S!EvidenceKept /\ S!AnalyzingIsWorkedOn /\ S!SchedulerFreed
  BY DEF SelfcheckInv, Evidence, S!EvidenceKept, InTime, Found, Freed
<1>2. SelfcheckInv /\ [S!Next]_(S!vars) =>
        [\A i \in Issues : cand[i].status \in S!Final => cand'[i].status = cand[i].status \/ shared]_(S!vars)
  BY JudgedStep DEF SelfcheckInv
<1> QED BY <1>1, <1>2, InvSpec, PTL DEF S!Spec, SelfcheckSound, S!JudgedOnce

-----------------------------------------------------------------------------
(* The clients.                                                             *)

Messages ==
    {C!Ask(q) : q \in Questions} \cup {C!Closed(q, r) : q \in Questions, r \in C!Outcomes}
    \cup {C!ProtocolError}

(* A message on its way to a page, a close of q among them, and one after   *)
(* every copy of the request q.                                             *)
Has(s, m) == \E i \in DOMAIN s : s[i] = m
IsClose(m, q) == m.type = "closed" /\ m.of = q
HasClose(s, q) == \E i \in DOMAIN s : IsClose(s[i], q)
Followed(s, q) ==
    \A i \in DOMAIN s : s[i] = C!Ask(q) => \E k \in DOMAIN s : k > i /\ IsClose(s[k], q)

LEMMA MessageFacts ==
    /\ C!ProtocolError \in Messages /\ C!ProtocolError.type = "error"
    /\ \A q \in Questions : /\ C!Ask(q) \in Messages
                            /\ C!Ask(q).type = "request" /\ C!Ask(q).of = q
    /\ \A q \in Questions, r \in C!Outcomes :
          /\ C!Closed(q, r) \in Messages /\ C!Closed(q, r).type = "closed"
          /\ C!Closed(q, r).of = q /\ C!Closed(q, r).reason = r
    /\ \A m \in Messages : m.type = "request" => m.of \in Questions /\ m = C!Ask(m.of)
    /\ \A m \in Messages : m.type = "closed" => m.of \in Questions
<1>1. C!ProtocolError \in Messages /\ C!ProtocolError.type = "error"
  BY DEF Messages, C!ProtocolError
<1>2. \A q \in Questions : /\ C!Ask(q) \in Messages
                           /\ C!Ask(q).type = "request" /\ C!Ask(q).of = q
  BY DEF Messages, C!Ask
<1>3. \A q \in Questions, r \in C!Outcomes :
         /\ C!Closed(q, r) \in Messages /\ C!Closed(q, r).type = "closed"
         /\ C!Closed(q, r).of = q /\ C!Closed(q, r).reason = r
  BY DEF Messages, C!Closed
<1>4. ASSUME NEW m \in Messages
      PROVE  \/ m = C!ProtocolError
             \/ \E q \in Questions : m = C!Ask(q)
             \/ \E q \in Questions, r \in C!Outcomes : m = C!Closed(q, r)
  BY DEF Messages
<1>5. \A m \in Messages : m.type = "request" => m.of \in Questions /\ m = C!Ask(m.of)
  BY <1>1, <1>2, <1>3, <1>4
<1>6. \A m \in Messages : m.type = "closed" => m.of \in Questions
  BY <1>1, <1>2, <1>3, <1>4
<1> QED BY <1>1, <1>2, <1>3, <1>5, <1>6

LEMMA AppendFacts ==
    ASSUME NEW s \in Seq(Messages), NEW x \in Messages
    PROVE  /\ Append(s, x) \in Seq(Messages)
           /\ \A m : Has(Append(s, x), m) <=> Has(s, m) \/ m = x
           /\ \A q : HasClose(Append(s, x), q) <=> HasClose(s, q) \/ IsClose(x, q)
           /\ \A q : Followed(s, q) /\ x # C!Ask(q) => Followed(Append(s, x), q)
           /\ \A q \in Questions : IsClose(x, q) => Followed(Append(s, x), q)
<1> PICK t : t = Append(s, x)
  OBVIOUS
<1>1. /\ t \in Seq(Messages) /\ Len(t) = Len(s) + 1
      /\ DOMAIN t = 1..(Len(s) + 1) /\ DOMAIN s = 1..Len(s) /\ Len(s) \in Nat
      /\ \A i \in 1..Len(s) : t[i] = s[i]
      /\ t[Len(s) + 1] = x
  OBVIOUS
<1> PICK n \in Nat : n = Len(s)
  BY <1>1
<1>2. \A m : Has(t, m) <=> Has(s, m) \/ m = x
  BY <1>1 DEF Has
<1>3. \A q : HasClose(t, q) <=> HasClose(s, q) \/ IsClose(x, q)
  <2> HIDE DEF IsClose
  <2> QED BY <1>1 DEF HasClose
<1>4. ASSUME NEW q, Followed(s, q), x # C!Ask(q) PROVE Followed(t, q)
  <2> SUFFICES ASSUME NEW i \in 1..(n + 1), t[i] = C!Ask(q)
               PROVE  \E k \in 1..(n + 1) : k > i /\ IsClose(t[k], q)
    BY <1>1 DEF Followed
  <2>1. i \in 1..n /\ s[i] = C!Ask(q)
    BY <1>1, <1>4
  <2>2. PICK k \in 1..n : k > i /\ IsClose(s[k], q)
    BY <1>1, <1>4, <2>1 DEF Followed
  <2>3. k \in 1..(n + 1) /\ t[k] = s[k]
    BY <1>1, <2>2
  <2> QED BY <2>2, <2>3
<1>5. ASSUME NEW q \in Questions, IsClose(x, q) PROVE Followed(t, q)
  <2> SUFFICES ASSUME NEW i \in 1..(n + 1), t[i] = C!Ask(q)
               PROVE  \E k \in 1..(n + 1) : k > i /\ IsClose(t[k], q)
    BY <1>1 DEF Followed
  <2>1. x # C!Ask(q)
    BY <1>5, MessageFacts DEF IsClose
  <2>2. n + 1 > i /\ n + 1 \in 1..(n + 1)
    BY <1>1, <2>1
  <2> QED BY <1>1, <1>5, <2>2
<1> QED BY <1>1, <1>2, <1>3, <1>4, <1>5

LEMMA TailFacts ==
    ASSUME NEW s \in Seq(Messages), s # << >>
    PROVE  /\ Tail(s) \in Seq(Messages) /\ Head(s) \in Messages
           /\ \A m : Has(s, m) <=> Has(Tail(s), m) \/ m = Head(s)
           /\ \A q : HasClose(s, q) => HasClose(Tail(s), q) \/ IsClose(Head(s), q)
           /\ \A q : Followed(s, q) => Followed(Tail(s), q)
           /\ \A q : Followed(s, q) /\ Head(s) = C!Ask(q) => HasClose(Tail(s), q)
<1> PICK t : t = Tail(s)
  OBVIOUS
<1>1. /\ t \in Seq(Messages) /\ Len(t) = Len(s) - 1 /\ Len(s) \in Nat /\ Len(s) > 0
      /\ DOMAIN t = 1..(Len(s) - 1) /\ DOMAIN s = 1..Len(s)
      /\ \A i \in 1..(Len(s) - 1) : t[i] = s[i + 1]
      /\ s[1] \in Messages /\ Head(s) = s[1]
  OBVIOUS
<1>0. Len(s) - 1 \in Nat
  BY <1>1
<1> PICK n \in Nat : n = Len(s) - 1
  BY <1>0
<1>2. DOMAIN s = 1..(n + 1) /\ DOMAIN t = 1..n /\ \A i \in 1..n : t[i] = s[i + 1] /\ i + 1 \in 1..(n + 1)
  BY <1>1
<1>3. \A i \in 1..(n + 1) : i # 1 => i - 1 \in 1..n /\ (i - 1) + 1 = i
  OBVIOUS
<1>4. \A i \in 1..(n + 1) : i # 1 => s[i] = t[i - 1]
  BY <1>2, <1>3
<1>5. 1 \in 1..(n + 1)
  OBVIOUS
<1>6. ASSUME NEW m PROVE Has(s, m) <=> Has(t, m) \/ m = s[1]
  <2>1. ASSUME NEW i \in 1..n, t[i] = m PROVE Has(s, m)
    BY <1>2, <2>1 DEF Has
  <2>2. ASSUME NEW i \in 1..(n + 1), s[i] = m, i # 1 PROVE Has(t, m)
    BY <1>2, <1>3, <1>4, <2>2 DEF Has
  <2>3. m = s[1] => Has(s, m)
    BY <1>2, <1>5 DEF Has
  <2> QED BY <1>2, <2>1, <2>2, <2>3 DEF Has
<1>7. \A q : HasClose(s, q) => HasClose(t, q) \/ IsClose(s[1], q)
  <2> HIDE DEF IsClose
  <2> QED BY <1>2, <1>3, <1>4 DEF HasClose
<1>8. ASSUME NEW q, Followed(s, q) PROVE Followed(t, q)
  <2> SUFFICES ASSUME NEW i \in 1..n, t[i] = C!Ask(q)
               PROVE  \E k \in 1..n : k > i /\ IsClose(t[k], q)
    BY <1>2 DEF Followed
  <2>1. PICK k \in 1..(n + 1) : k > i + 1 /\ IsClose(s[k], q)
    BY <1>2, <1>8 DEF Followed
  <2>2. k - 1 \in 1..n /\ k - 1 > i /\ k # 1
    BY <2>1
  <2> QED BY <1>4, <2>1, <2>2
<1>9. ASSUME NEW q, Followed(s, q), s[1] = C!Ask(q) PROVE HasClose(t, q)
  <2>1. PICK k \in 1..(n + 1) : k > 1 /\ IsClose(s[k], q)
    BY <1>2, <1>5, <1>9 DEF Followed
  <2>2. k - 1 \in 1..n /\ k # 1
    BY <2>1
  <2> QED BY <1>2, <1>4, <2>1, <2>2 DEF HasClose
<1> QED BY <1>1, <1>6, <1>7, <1>8, <1>9

LEMMA NothingFacts ==
    /\ << >> \in Seq(Messages) /\ \A m : ~ Has(<< >>, m)
    /\ \A q : ~ HasClose(<< >>, q) /\ Followed(<< >>, q)
BY DEF Has, HasClose, Followed

(* The map without its i-th entry.                                          *)
LEMMA RemovedFacts ==
    ASSUME NEW T, NEW s \in Seq(T), NEW i \in DOMAIN s, C!IsInjective(s)
    PROVE  /\ C!RemoveAt(s, i) \in Seq(T) /\ C!IsInjective(C!RemoveAt(s, i))
           /\ C!ToSet(C!RemoveAt(s, i)) = C!ToSet(s) \ {s[i]}
<1>1. Len(s) \in Nat /\ DOMAIN s = 1..Len(s) /\ i \in 1..Len(s) /\ \A k \in 1..Len(s) : s[k] \in T
  OBVIOUS
<1> PICK n \in Nat : n = Len(s)
  BY <1>1
<1> DEFINE a == SubSeq(s, 1, i - 1)
           b == SubSeq(s, i + 1, n)
<1>2. /\ a \in Seq(T) /\ Len(a) = i - 1 /\ \A k \in 1..(i - 1) : a[k] = s[k]
  BY <1>1
<1>3. /\ b \in Seq(T) /\ Len(b) = n - i /\ \A k \in 1..(n - i) : b[k] = s[k + i]
  BY <1>1
<1> PICK t : t = C!RemoveAt(s, i)
  OBVIOUS
<1>4. t = a \o b
  BY DEF C!RemoveAt
<1> HIDE DEF a, b
<1>5. /\ t \in Seq(T) /\ Len(t) = n - 1 /\ DOMAIN t = 1..(n - 1)
      /\ \A k \in 1..(n - 1) : t[k] = IF k <= i - 1 THEN a[k] ELSE b[k - (i - 1)]
  <2>0. i \in 1..n /\ Len(a) = i - 1 /\ Len(b) = n - i
    BY <1>1, <1>2, <1>3
  <2>1. Len(a) + Len(b) = n - 1
    BY ONLY n \in Nat, <2>0
  <2>2. /\ t \in Seq(T) /\ Len(t) = Len(a) + Len(b)
        /\ \A k \in 1..(Len(a) + Len(b)) : t[k] = IF k <= Len(a) THEN a[k] ELSE b[k - Len(a)]
    <3>1. a \in Seq(T) /\ b \in Seq(T)
      BY <1>2, <1>3
    <3> QED BY ONLY <1>4, <3>1, ConcatProperties
  <2>3. DOMAIN t = 1..Len(t)
    BY <2>2
  <2> QED BY <1>2, <2>1, <2>2, <2>3
<1>6. \A k \in 1..(n - 1) : k < i => t[k] = s[k]
  BY <1>1, <1>2, <1>5
<1>7. \A k \in 1..(n - 1) : ~ k < i => t[k] = s[k + 1]
  <2> SUFFICES ASSUME NEW k \in 1..(n - 1), ~ k < i PROVE t[k] = s[k + 1]
    OBVIOUS
  <2>1. ~ k <= i - 1 /\ k - (i - 1) \in 1..(n - i) /\ (k - (i - 1)) + i = k + 1
    BY <1>1
  <2>2. b[k - (i - 1)] = s[(k - (i - 1)) + i]
    BY <1>3, <2>1, Zenon
  <2> QED BY <1>5, <2>1, <2>2
<1>8. \A k \in 1..(n - 1) : k + 1 \in 1..n /\ k \in 1..n /\ k # k + 1
  BY <1>1
<1>9. \A x, y \in 1..n : s[x] = s[y] => x = y
  BY <1>1 DEF C!IsInjective
<1>10. C!IsInjective(t)
  <2> SUFFICES ASSUME NEW x \in 1..(n - 1), NEW y \in 1..(n - 1), t[x] = t[y] PROVE x = y
    BY <1>5 DEF C!IsInjective
  <2>1. CASE x < i /\ y < i
    BY <1>6, <1>8, <1>9, <2>1
  <2>2. CASE ~ x < i /\ ~ y < i
    <3>1. x + 1 = y + 1
      BY <1>7, <1>8, <1>9, <2>2
    <3> QED BY <3>1
  <2>3. CASE x < i /\ ~ y < i
    <3>1. x = y + 1
      BY <1>6, <1>7, <1>8, <1>9, <2>3
    <3> QED BY <1>1, <2>3, <3>1
  <2>4. CASE ~ x < i /\ y < i
    <3>1. x + 1 = y
      BY <1>6, <1>7, <1>8, <1>9, <2>4
    <3> QED BY <1>1, <2>4, <3>1
  <2> QED BY <2>1, <2>2, <2>3, <2>4
<1>11. ASSUME NEW x \in 1..(n - 1) PROVE t[x] \in C!ToSet(s) /\ t[x] # s[i]
  <2>1. CASE x < i
    <3>1. t[x] = s[x] /\ x \in 1..n /\ x # i
      BY <1>1, <1>6, <1>8, <2>1
    <3> QED BY <1>1, <1>9, <3>1 DEF C!ToSet
  <2>2. CASE ~ x < i
    <3>1. t[x] = s[x + 1] /\ x + 1 \in 1..n /\ x + 1 # i
      BY <1>1, <1>7, <1>8, <2>2
    <3> QED BY <1>1, <1>9, <3>1 DEF C!ToSet
  <2> QED BY <2>1, <2>2
<1>12. ASSUME NEW x \in 1..n, x # i PROVE \E y \in 1..(n - 1) : t[y] = s[x]
  <2>1. CASE x < i
    <3>1. x \in 1..(n - 1)
      BY <1>1, <2>1
    <3> QED BY <1>6, <2>1, <3>1
  <2>2. CASE ~ x < i
    <3>1. x - 1 \in 1..(n - 1) /\ ~ x - 1 < i /\ (x - 1) + 1 = x
      BY <1>1, <1>12, <2>2
    <3>2. t[x - 1] = s[(x - 1) + 1]
      BY <1>7, <3>1, Zenon
    <3> QED BY <3>1, <3>2
  <2> QED BY <2>1, <2>2
<1>13. C!ToSet(t) = C!ToSet(s) \ {s[i]}
  <2>1. \A v : v \in C!ToSet(t) => v \in C!ToSet(s) /\ v # s[i]
    BY <1>5, <1>11 DEF C!ToSet
  <2>2. \A v : v \in C!ToSet(s) /\ v # s[i] => v \in C!ToSet(t)
    <3> SUFFICES ASSUME NEW x \in 1..n, s[x] # s[i] PROVE s[x] \in C!ToSet(t)
      BY <1>1 DEF C!ToSet
    <3> QED BY <1>5, <1>12 DEF C!ToSet
  <2> QED BY <2>1, <2>2
<1> QED BY <1>5, <1>10, <1>13
AttachTypes == [at : {"idle", "read", "resend", "done"}, page : Pages \cup {Nobody},
                on : C!Sessions, seen : SUBSET Questions]
QuestionTypes == [at : {"new", "pending", "done"}, on : C!Sessions,
                  end : C!Outcomes \cup {Nobody}]

ClientTypes ==
    /\ conn \in [Pages -> {"new", "open", "lost", "closed"}]
    /\ grants \in [Pages -> SUBSET C!Sessions]
    /\ attach \in [Attaches -> AttachTypes]
    /\ question \in [Questions -> QuestionTypes]
    /\ pending \in Seq(Questions)
    /\ net \in [Pages -> Seq(Messages)]
    /\ answers \in SUBSET [page : Pages, of : Questions, kind : C!Outcomes]
    /\ dialog \in [Pages -> Questions \cup {Nobody}]
    /\ sending \in [Pages -> SUBSET Questions]
    /\ shown \in [Pages -> SUBSET Questions]
    /\ displaced \in [Pages -> SUBSET Questions]

(* The map holds the pending questions, none of which has an outcome.       *)
Registered ==
    /\ C!IsInjective(pending)
    /\ C!Pending = {q \in Questions : question[q].at = "pending"}
    /\ \A q \in Questions : question[q].at # "done" => question[q].end = Nobody

(* A page that is not there has no messages and shows nothing.              *)
Offline ==
    \A p \in Pages :
       /\ conn[p] # "open" => net[p] = << >> /\ dialog[p] = Nobody /\ shown[p] = {}
       /\ conn[p] = "new" => grants[p] = {}

(* What an attach has resent is on the way to its page or has been there.   *)
Handling ==
    \A h \in Attaches : attach[h].at \in {"read", "resend"} =>
       /\ attach[h].page \in Pages /\ conn[attach[h].page] = "open"
       /\ attach[h].at = "read" => attach[h].seen = {}
       /\ attach[h].at = "resend" =>
             /\ attach[h].on \in grants[attach[h].page]
             /\ \A q \in attach[h].seen : \/ q \in shown[attach[h].page]
                                          \/ Has(net[attach[h].page], C!Ask(q))

(* A question is sent only to pages its session is granted to.              *)
Known ==
    \A p \in Pages, q \in Questions :
       /\ q \in shown[p] => question[q].at # "new"
       /\ dialog[p] = q \/ Has(net[p], C!Ask(q)) =>
             question[q].at # "new" /\ question[q].on \in grants[p]

(* The close comes after every copy of the request.                         *)
ClosesLast ==
    \A p \in Pages, q \in Questions : question[q].at = "done" =>
       /\ dialog[p] = q => HasClose(net[p], q)
       /\ Followed(net[p], q)

(* A question that is closed is over, for the reason the pages are told.    *)
Told ==
    \A p \in Pages, m \in Messages : Has(net[p], m) /\ m.type = "closed" =>
       question[m.of].at = "done" /\ m.reason = question[m.of].end

(* The handler that will resend q to p.                                     *)
Resends(h, p, q) ==
    /\ attach[h].at = "resend" /\ q \notin attach[h].seen
    /\ attach[h].page = p /\ attach[h].on = question[q].on

Reaching ==
    \A p \in Pages, q \in Questions :
       question[q].at = "pending" /\ conn[p] = "open" /\ question[q].on \in grants[p] =>
          \/ q \in shown[p] \/ Has(net[p], C!Ask(q))
          \/ \E h \in Attaches : Resends(h, p, q)

Lasting ==
    \A p \in Pages, q \in Questions :
       question[q].at = "pending" /\ conn[p] = "open" /\ q \in shown[p] =>
          \/ dialog[p] = q \/ q \in displaced[p]
          \/ \E a \in answers : a.of = q /\ a.page = p

ClientsInv ==
    /\ ClientTypes /\ Registered /\ Offline /\ Handling /\ Known /\ ClosesLast /\ Told
    /\ Reaching /\ Lasting

LEMMA ClientsInit == C!NoneAssumption /\ C!Init => ClientsInv
<1> SUFFICES ASSUME C!NoneAssumption, C!Init PROVE ClientsInv
  OBVIOUS
<1> USE DEF C!Init
<1>1. ClientTypes
  <2>1. [at |-> "idle", page |-> Nobody, on |-> Root, seen |-> {}] \in AttachTypes
    BY DEF AttachTypes, C!Sessions
  <2>2. [at |-> "new", on |-> Root, end |-> Nobody] \in QuestionTypes
    BY DEF QuestionTypes, C!Sessions
  <2>3. pending \in Seq(Questions) /\ << >> \in Seq(Messages)
    OBVIOUS
  <2> QED BY <2>1, <2>2, <2>3 DEF ClientTypes
<1>2. Registered
  BY DEF Registered, C!IsInjective, C!Pending, C!ToSet
<1>3. Offline /\ Handling
  BY DEF Offline, Handling
<1>4. \A p \in Pages : net[p] = << >> /\ dialog[p] = Nobody /\ shown[p] = {}
  OBVIOUS
<1>5. Known
  BY <1>4, NothingFacts DEF Known, C!NoneAssumption
<1>6. ClosesLast /\ Told /\ Reaching /\ Lasting
  BY <1>4, NothingFacts DEF ClosesLast, Told, Reaching, Lasting
<1> QED BY <1>1, <1>2, <1>3, <1>5, <1>6 DEF ClientsInv

(* What sendJson of m to the pages of T adds to what is on its way.         *)
Sent(T, m) ==
    \A p \in Pages :
       /\ \A x : Has(net[p], x) => Has(net'[p], x)
       /\ \A x : Has(net'[p], x) => Has(net[p], x) \/ (x = m /\ p \in T /\ conn[p] = "open")
       /\ \A q : HasClose(net[p], q) => HasClose(net'[p], q)
       /\ \A q : Followed(net[p], q) /\ m # C!Ask(q) => Followed(net'[p], q)
       /\ p \in T /\ conn[p] = "open" =>
             /\ Has(net'[p], m)
             /\ \A q \in Questions :
                   IsClose(m, q) => HasClose(net'[p], q) /\ Followed(net'[p], q)
       /\ conn[p] # "open" => net'[p] = net[p]

LEMMA SendFacts ==
    ASSUME ClientTypes, NEW T, NEW m \in Messages, C!Send(T, m)
    PROVE  net' \in [Pages -> Seq(Messages)] /\ Sent(T, m)
<1>1. \A p \in Pages : net[p] \in Seq(Messages) /\ Append(net[p], m) \in Seq(Messages)
  BY AppendFacts DEF ClientTypes
<1>2. net' \in [Pages -> Seq(Messages)]
  BY <1>1 DEF C!Send
<1>3. ASSUME NEW p \in Pages, p \in T, conn[p] = "open" PROVE net'[p] = Append(net[p], m)
  BY <1>3 DEF C!Send
<1>4. ASSUME NEW p \in Pages, ~ (p \in T /\ conn[p] = "open") PROVE net'[p] = net[p]
  BY <1>4 DEF C!Send
<1>5. ASSUME NEW p \in Pages, p \in T, conn[p] = "open"
      PROVE  /\ \A x : Has(net[p], x) => Has(net'[p], x)
             /\ \A x : Has(net'[p], x) => Has(net[p], x) \/ x = m
             /\ \A q : HasClose(net[p], q) => HasClose(net'[p], q)
             /\ \A q : Followed(net[p], q) /\ m # C!Ask(q) => Followed(net'[p], q)
             /\ Has(net'[p], m)
             /\ \A q \in Questions :
                   IsClose(m, q) => HasClose(net'[p], q) /\ Followed(net'[p], q)
  <2>1. net'[p] = Append(net[p], m) /\ net[p] \in Seq(Messages)
    BY <1>1, <1>3, <1>5
  <2> QED BY <2>1, AppendFacts
<1> QED BY <1>2, <1>4, <1>5 DEF Sent

LEMMA ConnectInv ==
    ASSUME C!NoneAssumption, ClientsInv, NEW p \in Pages, C!Connect(p)
    PROVE  ClientsInv'
<1> USE DEF ClientsInv
<1>1. /\ conn' = [conn EXCEPT ![p] = "open"] /\ conn[p] = "new"
      /\ UNCHANGED <<grants, attach, question, pending, net, answers, dialog, sending, shown,
                     displaced>>
  BY DEF C!Connect, C!page
<1>2. conn'[p] = "open" /\ \A k \in Pages : k # p => conn'[k] = conn[k]
  BY <1>1 DEF ClientTypes
<1>3. grants[p] = {} /\ shown[p] = {}
  BY <1>1 DEF Offline
<1>4. ClientTypes'
  BY <1>1 DEF ClientTypes
<1>5. Registered'
  BY <1>1 DEF Registered, C!Pending
<1>6. Offline'
  BY <1>1, <1>2 DEF Offline
<1>7. Handling'
  BY <1>1, <1>2 DEF Handling
<1>8. Known' /\ ClosesLast' /\ Told'
  BY <1>1 DEF Known, ClosesLast, Told
<1>9. Reaching'
  BY <1>1, <1>2, <1>3 DEF Reaching, Resends
<1>10. Lasting'
  BY <1>1, <1>2, <1>3 DEF Lasting
<1> QED BY <1>4, <1>5, <1>6, <1>7, <1>8, <1>9, <1>10

LEMMA LeaveInv ==
    ASSUME C!NoneAssumption, ClientsInv, NEW p \in Pages, C!Leave(p)
    PROVE  ClientsInv'
<1> USE DEF ClientsInv
<1>1. /\ net' = [net EXCEPT ![p] = << >>] /\ dialog' = [dialog EXCEPT ![p] = Nobody]
      /\ sending' = [sending EXCEPT ![p] = {}] /\ shown' = [shown EXCEPT ![p] = {}]
      /\ displaced' = [displaced EXCEPT ![p] = {}]
      /\ UNCHANGED <<question, pending, answers>>
  BY DEF C!Leave
<1>2. /\ attach' = [h \in Attaches |-> IF attach[h].page = p THEN C!Done ELSE attach[h]]
      /\ grants' = IF conn'[p] = "closed" THEN [grants EXCEPT ![p] = {}] ELSE grants
  BY DEF C!Leave
<1>3. PICK to \in {"closed", "lost"} : conn' = [conn EXCEPT ![p] = to]
  BY DEF C!Leave
<1>4. conn'[p] \in {"closed", "lost"} /\ \A k \in Pages : k # p => conn'[k] = conn[k]
  BY <1>3 DEF ClientTypes
<1>5. /\ \A k \in Pages : k # p =>
            /\ net'[k] = net[k] /\ dialog'[k] = dialog[k] /\ shown'[k] = shown[k]
            /\ displaced'[k] = displaced[k] /\ grants'[k] = grants[k]
      /\ net'[p] = << >> /\ dialog'[p] = Nobody /\ shown'[p] = {}
  BY <1>1, <1>2 DEF ClientTypes
<1>6. C!Done \in AttachTypes /\ C!Done.at = "done"
  BY DEF C!Done, AttachTypes, C!Sessions
<1>7. attach' \in [Attaches -> AttachTypes]
  BY <1>2, <1>6 DEF ClientTypes
<1>8. ASSUME NEW h \in Attaches, attach'[h].at # "done"
      PROVE  attach'[h] = attach[h] /\ attach[h].page # p
  BY <1>2, <1>6, <1>8
<1>9. \A h \in Attaches : attach[h].page # p => attach'[h] = attach[h]
  BY <1>2
<1>10. ClientTypes'
  <2>1. grants' \in [Pages -> SUBSET C!Sessions] /\ conn' \in [Pages -> {"new", "open", "lost", "closed"}]
    BY <1>2, <1>3 DEF ClientTypes
  <2>2. net' \in [Pages -> Seq(Messages)]
    BY <1>1, NothingFacts DEF ClientTypes
  <2>3. dialog' \in [Pages -> Questions \cup {Nobody}]
    BY <1>1 DEF ClientTypes
  <2> QED BY <1>1, <1>7, <2>1, <2>2, <2>3 DEF ClientTypes
<1>11. Registered'
  BY <1>1 DEF Registered, C!Pending
<1>12. Offline'
  BY <1>4, <1>5 DEF Offline
<1>13. Handling'
  BY <1>4, <1>5, <1>8 DEF Handling
<1>14. Known' /\ ClosesLast' /\ Told'
  BY <1>1, <1>5, NothingFacts DEF Known, ClosesLast, Told, C!NoneAssumption
<1>15. Reaching'
  BY <1>1, <1>4, <1>5, <1>9 DEF Reaching, Resends
<1>16. Lasting'
  BY <1>1, <1>4, <1>5 DEF Lasting
<1> QED BY <1>10, <1>11, <1>12, <1>13, <1>14, <1>15, <1>16

(* A step of handler h alone.                                               *)
LEMMA AttachReceivedInv ==
    ASSUME C!NoneAssumption, ClientsInv, NEW h \in Attaches, NEW p \in Pages, NEW s \in C!Sessions,
           C!AttachReceived(h, p, s)
    PROVE  ClientsInv'
<1> USE DEF ClientsInv
<1>1. UNCHANGED <<conn, grants, question, pending, net, answers, dialog, sending, shown, displaced>>
  BY DEF C!AttachReceived, C!page
<1>2. attach[h].at = "idle" /\ conn[p] = "open"
  BY DEF C!AttachReceived
<1>3. PICK e : /\ e = [at |-> "read", page |-> p, on |-> s, seen |-> {}]
               /\ attach' = [attach EXCEPT ![h] = e]
  BY DEF C!AttachReceived
<1>4. e \in AttachTypes /\ e.at = "read" /\ e.page = p /\ e.seen = {}
  BY <1>3 DEF AttachTypes
<1>5. attach'[h] = e /\ \A k \in Attaches : k # h => attach'[k] = attach[k]
  BY <1>3 DEF ClientTypes
<1>6. ClientTypes'
  BY <1>1, <1>3, <1>4 DEF ClientTypes
<1>7. Registered' /\ Offline' /\ Known' /\ ClosesLast' /\ Told' /\ Lasting'
  BY <1>1 DEF Registered, C!Pending, Offline, Known, ClosesLast, Told, Lasting
<1>8. Handling'
  BY <1>1, <1>2, <1>4, <1>5 DEF Handling
<1>9. Reaching'
  BY <1>1, <1>2, <1>5 DEF Reaching, Resends
<1> QED BY <1>6, <1>7, <1>8, <1>9

(* A message that is neither a request nor a close.                         *)
LEMMA ErrorKeeps ==
    ASSUME C!NoneAssumption, ClientsInv, NEW T, Sent(T, C!ProtocolError),
           UNCHANGED <<conn, grants, question, dialog, shown>>
    PROVE  Offline' /\ Known' /\ ClosesLast' /\ Told'
<1> USE DEF ClientsInv
<1> PICK m : m = C!ProtocolError
  OBVIOUS
<1>1. m.type = "error" /\ \A q \in Questions : m # C!Ask(q)
  BY MessageFacts
<1>2. Offline'
  BY DEF Offline, Sent
<1>3. \A p \in Pages, q \in Questions : Has(net'[p], C!Ask(q)) => Has(net[p], C!Ask(q))
  BY <1>1 DEF Sent
<1>4. Known'
  BY <1>3 DEF Known
<1>5. ClosesLast'
  BY <1>1 DEF ClosesLast, Sent
<1>6. \A p \in Pages, x \in Messages : Has(net'[p], x) /\ x.type = "closed" => Has(net[p], x)
  BY <1>1 DEF Sent
<1>7. Told'
  BY <1>6 DEF Told
<1> QED BY <1>2, <1>4, <1>5, <1>7

LEMMA AttachGrantInv ==
    ASSUME C!NoneAssumption, ClientsInv, NEW h \in Attaches, C!AttachGrant(h)
    PROVE  ClientsInv'
<1> USE DEF ClientsInv
<1> PICK p, s : p = attach[h].page /\ s = attach[h].on
  OBVIOUS
<1>1. UNCHANGED <<conn, question, pending, answers, dialog, sending, shown, displaced>>
  BY DEF C!AttachGrant, C!page
<1>2. attach[h].at = "read" /\ p \in Pages /\ conn[p] = "open" /\ attach[h].seen = {}
  BY DEF C!AttachGrant, Handling
<1>3. Registered'
  BY <1>1 DEF Registered, C!Pending
<1>4. CASE attach' = [attach EXCEPT ![h] = C!Done] /\ C!Send({p}, C!ProtocolError) /\ UNCHANGED grants
  <2>1. C!Done \in AttachTypes /\ C!Done.at = "done"
    BY DEF C!Done, AttachTypes, C!Sessions
  <2>2. attach'[h].at = "done" /\ \A k \in Attaches : k # h => attach'[k] = attach[k]
    BY <1>4, <2>1 DEF ClientTypes
  <2>3. net' \in [Pages -> Seq(Messages)] /\ Sent({p}, C!ProtocolError)
    BY <1>4, MessageFacts, SendFacts
  <2>4. \A k \in Pages, q \in Questions : Has(net[k], C!Ask(q)) => Has(net'[k], C!Ask(q))
    BY <2>3 DEF Sent
  <2>5. ClientTypes'
    BY <1>1, <1>4, <2>1, <2>3 DEF ClientTypes
  <2>6. Offline' /\ Known' /\ ClosesLast' /\ Told'
    BY <1>1, <1>4, <2>3, ErrorKeeps
  <2>7. Handling'
    <3>1. \A k \in Attaches : attach[k].seen \in SUBSET Questions
      BY DEF ClientTypes, AttachTypes
    <3> QED BY <1>1, <1>4, <2>2, <2>4, <3>1 DEF Handling
  <2>8. Reaching'
    BY <1>1, <1>2, <1>4, <2>2, <2>4 DEF Reaching, Resends
  <2>9. Lasting'
    BY <1>1 DEF Lasting
  <2> QED BY <1>3, <2>5, <2>6, <2>7, <2>8, <2>9
<1>5. CASE /\ attach' = [attach EXCEPT ![h].at = "resend"]
           /\ grants' = [grants EXCEPT ![p] = grants[p] \cup {s}] /\ UNCHANGED net
  <2>1. /\ attach'[h].at = "resend" /\ attach'[h].page = p /\ attach'[h].on = s
        /\ attach'[h].seen = {}
        /\ \A k \in Attaches : k # h => attach'[k] = attach[k]
    BY <1>2, <1>5 DEF ClientTypes, AttachTypes
  <2>2. attach' \in [Attaches -> AttachTypes] /\ s \in C!Sessions
    <3>1. attach[h] \in AttachTypes
      BY DEF ClientTypes
    <3>2. s \in C!Sessions /\ [attach[h] EXCEPT !.at = "resend"] \in AttachTypes
      BY <3>1 DEF AttachTypes
    <3>3. attach' = [attach EXCEPT ![h] = [attach[h] EXCEPT !.at = "resend"]]
      BY <1>5
    <3> QED BY <3>2, <3>3 DEF ClientTypes
  <2>3. /\ grants' \in [Pages -> SUBSET C!Sessions] /\ grants'[p] = grants[p] \cup {s}
        /\ \A k \in Pages : k # p => grants'[k] = grants[k]
    BY <1>2, <1>5, <2>2 DEF ClientTypes
  <2>4. \A k \in Pages : grants[k] \subseteq grants'[k]
    BY <2>3
  <2>5. ClientTypes'
    BY <1>1, <1>5, <2>2, <2>3 DEF ClientTypes
  <2>6. Offline'
    BY <1>1, <1>2, <1>5, <2>3 DEF Offline
  <2>7. Handling'
    BY <1>1, <1>2, <1>5, <2>1, <2>3, <2>4 DEF Handling
  <2>8. Known'
    BY <1>1, <1>5, <2>4 DEF Known
  <2>9. ClosesLast' /\ Told' /\ Lasting'
    BY <1>1, <1>5 DEF ClosesLast, Told, Lasting
  <2>10. ASSUME NEW k \in Attaches, NEW r \in Pages, NEW q \in Questions, Resends(k, r, q)
         PROVE  Resends(k, r, q)'
    BY <1>1, <1>2, <2>1, <2>10 DEF Resends
  <2>11. Reaching'
    <3> SUFFICES ASSUME NEW r \in Pages, NEW q \in Questions, question[q].at = "pending",
                        conn[r] = "open", question[q].on \in grants'[r]
                 PROVE  \/ q \in shown[r] \/ Has(net[r], C!Ask(q))
                        \/ \E k \in Attaches : Resends(k, r, q)'
      BY <1>1, <1>5 DEF Reaching
    <3>1. CASE question[q].on \in grants[r]
      BY <2>10, <3>1 DEF Reaching
    <3>2. CASE question[q].on \notin grants[r]
      <4>1. r = p /\ question[q].on = s
        BY <2>3, <3>2
      <4>2. Resends(h, r, q)'
        BY <1>1, <2>1, <4>1 DEF Resends
      <4> QED BY <4>2
    <3> QED BY <3>1, <3>2
  <2> QED BY <1>3, <2>5, <2>6, <2>7, <2>8, <2>9, <2>11
<1> QED BY <1>4, <1>5 DEF C!AttachGrant

(* The request q, sent to pages its session is granted to while it is       *)
(* pending.                                                                 *)
LEMMA AskKeeps ==
    ASSUME C!NoneAssumption, ClientsInv, NEW T, NEW q \in Questions, Sent(T, C!Ask(q)),
           question'[q].at = "pending",
           \A k \in Questions : k # q => question'[k] = question[k],
           \A p \in T : question'[q].on \in grants[p],
           question[q].at = "new" \/ question'[q] = question[q],
           UNCHANGED <<conn, grants, dialog, shown>>
    PROVE  Offline' /\ Known' /\ ClosesLast' /\ Told'
<1> USE DEF ClientsInv
<1>1. \A k \in Questions : C!Ask(k).type = "request" /\ C!Ask(k).of = k
  BY MessageFacts
<1>2. Offline'
  BY DEF Offline, Sent
<1>3. \A p \in Pages, k \in Questions :
         Has(net'[p], C!Ask(k)) => Has(net[p], C!Ask(k)) \/ (k = q /\ p \in T)
  BY <1>1 DEF Sent
<1>4. Known'
  BY <1>3 DEF Known
<1>5. \A p \in Pages, k \in Questions : k # q /\ Followed(net[p], k) => Followed(net'[p], k)
  BY <1>1 DEF Sent
<1>6. ClosesLast'
  BY <1>5 DEF ClosesLast, Sent
<1>7. \A p \in Pages, x \in Messages : Has(net'[p], x) /\ x.type = "closed" => Has(net[p], x)
  BY <1>1 DEF Sent
<1>8. \A x \in Messages : x.type = "closed" => x.of \in Questions
  BY MessageFacts
<1>9. question[q].at # "done"
  OBVIOUS
<1>10. Told'
  BY <1>7, <1>8, <1>9 DEF Told
<1> QED BY <1>2, <1>4, <1>6, <1>10

LEMMA AttachResendInv ==
    ASSUME C!NoneAssumption, ClientsInv, NEW h \in Attaches, C!AttachResend(h)
    PROVE  ClientsInv'
<1> USE DEF ClientsInv
<1> PICK p, s : p = attach[h].page /\ s = attach[h].on
  OBVIOUS
<1>1. /\ attach[h].at = "resend"
      /\ UNCHANGED <<conn, grants, question, pending, answers, dialog, sending, shown, displaced>>
  BY DEF C!AttachResend, C!page
<1>2. p \in Pages /\ conn[p] = "open" /\ s \in grants[p]
  BY <1>1 DEF Handling
<1>3. Registered' /\ Lasting'
  BY <1>1 DEF Registered, C!Pending, Lasting
<1>4. /\ attach[h] \in AttachTypes /\ attach[h].seen \in SUBSET Questions
      /\ \A q \in attach[h].seen : q \in shown[p] \/ Has(net[p], C!Ask(q))
  BY <1>1 DEF Handling, ClientTypes, AttachTypes
<1>5. \A q \in Questions : question[q].at = "pending" => \E i \in DOMAIN pending : pending[i] = q
  BY DEF Registered, C!Pending, C!ToSet
<1>6. CASE C!Left(h) = {} /\ attach' = [attach EXCEPT ![h] = C!Done] /\ UNCHANGED net
  <2>1. C!Done \in AttachTypes /\ C!Done.at = "done"
    BY DEF C!Done, AttachTypes, C!Sessions
  <2>2. attach'[h].at = "done" /\ \A k \in Attaches : k # h => attach'[k] = attach[k]
    BY <1>6, <2>1 DEF ClientTypes
  <2>3. ClientTypes'
    BY <1>1, <1>6, <2>1 DEF ClientTypes
  <2>4. Offline' /\ Known' /\ ClosesLast' /\ Told'
    BY <1>1, <1>6 DEF Offline, Known, ClosesLast, Told
  <2>5. Handling'
    BY <1>1, <1>6, <2>2 DEF Handling
  <2>6. ASSUME NEW q \in Questions, question[q].at = "pending", question[q].on = s
        PROVE  q \in attach[h].seen
    BY <1>5, <1>6, <2>6 DEF C!Left
  <2>7. Reaching'
    <3> SUFFICES ASSUME NEW r \in Pages, NEW q \in Questions, question[q].at = "pending",
                        conn[r] = "open", question[q].on \in grants[r]
                 PROVE  \/ q \in shown[r] \/ Has(net[r], C!Ask(q))
                        \/ \E k \in Attaches : Resends(k, r, q)'
      BY <1>1, <1>6 DEF Reaching
    <3>1. CASE q \in shown[r] \/ Has(net[r], C!Ask(q))
      BY <3>1
    <3>2. ASSUME NEW k \in Attaches, Resends(k, r, q), k # h PROVE Resends(k, r, q)'
      BY <1>1, <2>2, <3>2 DEF Resends
    <3>3. ~ Resends(h, r, q)
      BY <2>6 DEF Resends
    <3> QED BY <3>1, <3>2, <3>3 DEF Reaching
  <2> QED BY <1>3, <2>3, <2>4, <2>5, <2>7
<1>7. ASSUME NEW i \in C!Left(h),
             attach' = [attach EXCEPT ![h].seen = attach[h].seen \cup {pending[i]}],
             C!Send({p}, C!Ask(pending[i]))
      PROVE  ClientsInv'
  <2> PICK q : q = pending[i]
    OBVIOUS
  <2>1. i \in DOMAIN pending /\ question[q].on = s
    BY <1>7 DEF C!Left
  <2>2. q \in Questions /\ question[q].at = "pending"
    BY <2>1 DEF ClientTypes, Registered, C!Pending, C!ToSet
  <2>3. net' \in [Pages -> Seq(Messages)] /\ Sent({p}, C!Ask(q))
    BY <1>7, <2>2, MessageFacts, SendFacts
  <2>4. PICK e : e = [attach[h] EXCEPT !.seen = attach[h].seen \cup {q}]
    OBVIOUS
  <2>5. /\ e \in AttachTypes /\ e.at = "resend" /\ e.page = p /\ e.on = s
        /\ e.seen = attach[h].seen \cup {q}
    BY <1>1, <1>4, <2>2, <2>4 DEF AttachTypes
  <2>6. attach' = [attach EXCEPT ![h] = e]
    BY <1>7, <2>4
  <2>7. attach'[h] = e /\ \A k \in Attaches : k # h => attach'[k] = attach[k]
    BY <2>6 DEF ClientTypes
  <2>8. ClientTypes'
    BY <1>1, <2>3, <2>5, <2>6 DEF ClientTypes
  <2>9. Offline' /\ Known' /\ ClosesLast' /\ Told'
    <3>1. \A k \in {p} : question'[q].on \in grants[k]
      BY <1>1, <1>2, <2>1
    <3> QED BY <1>1, <2>2, <2>3, <3>1, AskKeeps
  <2>10. /\ \A k \in Pages, x \in Questions : Has(net[k], C!Ask(x)) => Has(net'[k], C!Ask(x))
         /\ Has(net'[p], C!Ask(q))
    BY <1>2, <2>3 DEF Sent
  <2>11. Handling'
    <3>1. \A k \in Attaches : attach[k].seen \in SUBSET Questions
      BY DEF ClientTypes, AttachTypes
    <3>2. ASSUME NEW k \in Attaches, k # h, attach'[k].at \in {"read", "resend"}
          PROVE  /\ attach'[k].page \in Pages /\ conn'[attach'[k].page] = "open"
                 /\ attach'[k].at = "read" => attach'[k].seen = {}
                 /\ attach'[k].at = "resend" =>
                       /\ attach'[k].on \in grants'[attach'[k].page]
                       /\ \A x \in attach'[k].seen : \/ x \in shown'[attach'[k].page]
                                                     \/ Has(net'[attach'[k].page], C!Ask(x))
      BY <1>1, <2>7, <2>10, <3>1, <3>2 DEF Handling
    <3>3. \A x \in attach'[h].seen : x \in shown'[p] \/ Has(net'[p], C!Ask(x))
      BY <1>1, <1>2, <1>4, <2>5, <2>7, <2>10
    <3> QED BY <1>1, <1>2, <2>5, <2>7, <3>2, <3>3 DEF Handling
  <2>12. Reaching'
    <3> SUFFICES ASSUME NEW r \in Pages, NEW x \in Questions, question[x].at = "pending",
                        conn[r] = "open", question[x].on \in grants[r]
                 PROVE  \/ x \in shown[r] \/ Has(net'[r], C!Ask(x))
                        \/ \E k \in Attaches : Resends(k, r, x)'
      BY <1>1 DEF Reaching
    <3>1. CASE x \in shown[r] \/ Has(net[r], C!Ask(x))
      BY <2>10, <3>1
    <3>2. ASSUME NEW k \in Attaches, Resends(k, r, x), k # h PROVE Resends(k, r, x)'
      BY <1>1, <2>7, <3>2 DEF Resends
    <3>3. CASE Resends(h, r, x)
      <4>1. r = p
        BY <3>3 DEF Resends
      <4>2. CASE x = q
        BY <2>10, <4>1, <4>2
      <4>3. CASE x # q
        BY <1>1, <2>5, <2>7, <3>3, <4>3 DEF Resends
      <4> QED BY <4>2, <4>3
    <3> QED BY <3>1, <3>2, <3>3 DEF Reaching
  <2> QED BY <1>3, <2>8, <2>9, <2>11, <2>12
<1> QED BY <1>6, <1>7 DEF C!AttachResend

LEMMA AskQuestionInv ==
    ASSUME C!NoneAssumption, ClientsInv, NEW q \in Questions, NEW s \in C!Sessions,
           C!AskQuestion(q, s)
    PROVE  ClientsInv'
<1> USE DEF ClientsInv
<1>1. /\ question[q].at = "new" /\ pending' = Append(pending, q)
      /\ UNCHANGED <<conn, grants, attach, answers, dialog, sending, shown, displaced>>
  BY DEF C!AskQuestion, C!page
<1>2. PICK e : /\ e = [at |-> "pending", on |-> s, end |-> Nobody]
               /\ question' = [question EXCEPT ![q] = e]
  BY DEF C!AskQuestion
<1>3. e \in QuestionTypes /\ e.at = "pending" /\ e.on = s /\ e.end = Nobody
  BY <1>2 DEF QuestionTypes
<1>4. question'[q] = e /\ \A k \in Questions : k # q => question'[k] = question[k]
  BY <1>2 DEF ClientTypes
<1>5. net' \in [Pages -> Seq(Messages)] /\ Sent(C!Owners(s), C!Ask(q))
  BY MessageFacts, SendFacts DEF C!AskQuestion
<1>6. ClientTypes'
  <2>1. pending' \in Seq(Questions)
    BY <1>1 DEF ClientTypes
  <2> QED BY <1>1, <1>2, <1>3, <1>5, <2>1 DEF ClientTypes
<1>7. Registered'
  <2> PICK n \in Nat : n = Len(pending) /\ DOMAIN pending = 1..n
    BY DEF ClientTypes
  <2>1. /\ DOMAIN pending' = 1..(n + 1) /\ pending'[n + 1] = q
        /\ \A i \in 1..n : pending'[i] = pending[i]
    BY <1>1 DEF ClientTypes
  <2>2. \A i \in 1..(n + 1) : i # n + 1 => i \in 1..n
    OBVIOUS
  <2>3. 1..n \subseteq 1..(n + 1) /\ n + 1 \in 1..(n + 1)
    OBVIOUS
  <2>4. \A i \in 1..n : pending[i] # q
    BY <1>1 DEF Registered, C!Pending, C!ToSet
  <2>5. C!IsInjective(pending')
    BY <2>1, <2>2, <2>4 DEF Registered, C!IsInjective
  <2>6. C!ToSet(pending') = C!ToSet(pending) \cup {q}
    <3>1. \A x \in C!ToSet(pending') : x \in C!ToSet(pending) \cup {q}
      BY <2>1, <2>2 DEF C!ToSet
    <3>2. \A x \in C!ToSet(pending) \cup {q} : x \in C!ToSet(pending')
      BY <2>1, <2>3 DEF C!ToSet
    <3> QED BY <3>1, <3>2
  <2>7. C!ToSet(pending) \cup {q} = {k \in Questions : question'[k].at = "pending"}
    BY <1>3, <1>4 DEF Registered, C!Pending
  <2>8. \A k \in Questions : question'[k].at # "done" => question'[k].end = Nobody
    BY <1>3, <1>4 DEF Registered
  <2> QED BY <2>5, <2>6, <2>7, <2>8 DEF Registered, C!Pending
<1>8. Offline' /\ Known' /\ ClosesLast' /\ Told'
  <2>1. \A k \in C!Owners(s) : question'[q].on \in grants[k]
    BY <1>3, <1>4 DEF C!Owners
  <2> QED BY <1>1, <1>3, <1>4, <1>5, <2>1, AskKeeps
<1>9. \A k \in Pages, x \in Questions : Has(net[k], C!Ask(x)) => Has(net'[k], C!Ask(x))
  BY <1>5 DEF Sent
<1>10. Handling'
  <2>1. \A k \in Attaches : attach[k].seen \in SUBSET Questions
    BY DEF ClientTypes, AttachTypes
  <2> QED BY <1>1, <1>9, <2>1 DEF Handling
<1>11. Reaching'
  <2> SUFFICES ASSUME NEW r \in Pages, NEW x \in Questions, question'[x].at = "pending",
                      conn[r] = "open", question'[x].on \in grants[r]
               PROVE  \/ x \in shown[r] \/ Has(net'[r], C!Ask(x))
                      \/ \E k \in Attaches : Resends(k, r, x)'
    BY <1>1 DEF Reaching
  <2>1. CASE x = q
    <3>1. r \in C!Owners(s)
      BY <1>3, <1>4, <2>1 DEF C!Owners, C!Connected
    <3> QED BY <1>5, <2>1, <3>1 DEF Sent
  <2>2. CASE x # q
    <3>1. \A k \in Attaches : Resends(k, r, x) => Resends(k, r, x)'
      BY <1>1, <1>4, <2>2 DEF Resends
    <3> QED BY <1>4, <1>9, <2>2, <3>1 DEF Reaching
  <2> QED BY <2>1, <2>2
<1>12. Lasting'
  <2>1. \A k \in Pages : q \notin shown[k]
    BY <1>1 DEF Known
  <2> QED BY <1>1, <1>4, <2>1 DEF Lasting
<1> QED BY <1>6, <1>7, <1>8, <1>10, <1>11, <1>12

LEMMA FinishInv ==
    ASSUME C!NoneAssumption, ClientsInv, NEW q \in C!Pending, NEW r \in C!Outcomes, C!Finish(q, r),
           UNCHANGED <<conn, grants, attach, dialog, sending, shown, displaced>>,
           answers' \in SUBSET answers, \A a \in answers : a.of # q => a \in answers'
    PROVE  ClientsInv'
<1> USE DEF ClientsInv
<1>1. q \in Questions /\ question[q].at = "pending" /\ question[q].end = Nobody
  BY DEF Registered
<1>2. PICK e : e = [[question[q] EXCEPT !.at = "done"] EXCEPT !.end = r]
  OBVIOUS
<1>3. question' = [question EXCEPT ![q] = e]
  <2>1. question[q] \in QuestionTypes
    BY <1>1 DEF ClientTypes
  <2>3. question' = [question EXCEPT ![q].at = "done", ![q].end = r]
    BY <1>1, <2>1 DEF C!Finish, QuestionTypes, ClientTypes
  <2> QED BY <1>1, <1>2, <2>3 DEF ClientTypes
<1>4. e \in QuestionTypes /\ e.at = "done" /\ e.on = question[q].on /\ e.end = r
  <2>1. question[q] \in QuestionTypes
    BY <1>1 DEF ClientTypes
  <2> QED BY <1>2, <2>1 DEF QuestionTypes
<1>5. question'[q] = e /\ \A k \in Questions : k # q => question'[k] = question[k]
  BY <1>1, <1>3 DEF ClientTypes
<1>6. PICK i \in DOMAIN pending : pending[i] = q /\ pending' = C!RemoveAt(pending, i)
  BY DEF C!Finish
<1>7. /\ pending' \in Seq(Questions) /\ C!IsInjective(pending')
      /\ C!ToSet(pending') = C!ToSet(pending) \ {q}
  BY <1>6, RemovedFacts DEF ClientTypes, Registered
<1> PICK m : m = C!Closed(q, r)
  OBVIOUS
<1>8. /\ m \in Messages /\ m.type = "closed" /\ m.of = q /\ m.reason = r /\ IsClose(m, q)
      /\ \A k \in Questions : m # C!Ask(k) /\ C!Ask(k) \in Messages /\ C!Ask(k).type = "request"
  BY <1>1, MessageFacts DEF IsClose
<1>9. net' \in [Pages -> Seq(Messages)] /\ Sent(C!Owners(question[q].on), m)
  BY <1>8, SendFacts DEF C!Finish
<1>10. \A k \in Pages, x \in Questions : Has(net[k], C!Ask(x)) <=> Has(net'[k], C!Ask(x))
  BY <1>8, <1>9 DEF Sent
<1>11. ClientTypes'
  BY <1>3, <1>4, <1>7, <1>9 DEF ClientTypes
<1>12. Registered'
  <2>1. C!ToSet(pending) \ {q} = {k \in Questions : question'[k].at = "pending"}
    BY <1>1, <1>4, <1>5 DEF Registered, C!Pending
  <2>2. \A k \in Questions : question'[k].at # "done" => question'[k].end = Nobody
    BY <1>4, <1>5 DEF Registered
  <2> QED BY <1>7, <2>1, <2>2 DEF Registered, C!Pending
<1>13. Offline'
  BY <1>9 DEF Offline, Sent
<1>14. Handling'
  <2>1. \A k \in Attaches : attach[k].seen \in SUBSET Questions
    BY DEF ClientTypes, AttachTypes
  <2> QED BY <1>10, <2>1 DEF Handling
<1>15. Known'
  BY <1>4, <1>5, <1>10 DEF Known
<1>16. ClosesLast'
  <2> SUFFICES ASSUME NEW p \in Pages, NEW k \in Questions, question'[k].at = "done"
               PROVE  (dialog[p] = k => HasClose(net'[p], k)) /\ Followed(net'[p], k)
    BY DEF ClosesLast
  <2>1. CASE k # q
    <3>1. question[k].at = "done"
      BY <1>5, <2>1
    <3> QED BY <1>8, <1>9, <3>1 DEF ClosesLast, Sent
  <2>2. CASE k = q
    <3>1. CASE dialog[p] = q \/ Has(net[p], C!Ask(q))
      <4>1. question[q].on \in grants[p]
        BY <1>1, <3>1 DEF Known
      <4>2. conn[p] = "open"
        BY <1>1, <3>1, NothingFacts DEF Offline, C!NoneAssumption
      <4>3. p \in C!Owners(question[q].on)
        BY <4>1, <4>2 DEF C!Owners, C!Connected
      <4> QED BY <1>1, <1>8, <1>9, <2>2, <4>2, <4>3 DEF Sent
    <3>2. CASE ~ (dialog[p] = q \/ Has(net[p], C!Ask(q)))
      <4>1. ~ Has(net'[p], C!Ask(q))
        BY <1>1, <1>10, <3>2
      <4>2. Followed(net'[p], q)
        BY <4>1 DEF Followed, Has
      <4> QED BY <2>2, <3>2, <4>2
    <3> QED BY <3>1, <3>2
  <2> QED BY <2>1, <2>2
<1>17. Told'
  <2> SUFFICES ASSUME NEW p \in Pages, NEW x \in Messages, Has(net'[p], x), x.type = "closed"
               PROVE  question'[x.of].at = "done" /\ x.reason = question'[x.of].end
    BY DEF Told
  <2>1. CASE x = m
    BY <1>4, <1>5, <1>8, <2>1
  <2>2. CASE x # m
    <3>1. Has(net[p], x)
      BY <1>9, <2>2 DEF Sent
    <3>2. x.of \in Questions
      BY MessageFacts
    <3>3. question[x.of].at = "done" /\ x.reason = question[x.of].end
      BY <3>1 DEF Told
    <3>4. x.of # q
      BY <1>1, <3>3
    <3> QED BY <1>5, <3>2, <3>3, <3>4
  <2> QED BY <2>1, <2>2
<1>18. Reaching'
  <2>1. \A k \in Questions : question'[k].at = "pending" => k # q
    BY <1>4, <1>5
  <2>2. \A h \in Attaches, p \in Pages, k \in Questions :
           k # q /\ Resends(h, p, k) => Resends(h, p, k)'
    BY <1>5 DEF Resends
  <2> QED BY <1>5, <1>10, <2>1, <2>2 DEF Reaching
<1>19. Lasting'
  <2>1. \A k \in Questions : question'[k].at = "pending" => k # q
    BY <1>4, <1>5
  <2> QED BY <1>5, <2>1 DEF Lasting
<1> QED BY <1>11, <1>12, <1>13, <1>14, <1>15, <1>16, <1>17, <1>18, <1>19

LEMMA AbortInv ==
    ASSUME C!NoneAssumption, ClientsInv, NEW q \in Questions, C!Abort(q)
    PROVE  ClientsInv'
<1>1. "interrupted" \in C!Outcomes
  BY DEF C!Outcomes
<1>2. /\ q \in C!Pending /\ C!Finish(q, "interrupted")
      /\ UNCHANGED <<conn, grants, attach, answers, dialog, sending, shown, displaced>>
  BY DEF C!Abort, C!page
<1> QED BY <1>1, <1>2, FinishInv

LEMMA RespondInv ==
    ASSUME C!NoneAssumption, ClientsInv, NEW a \in answers, C!Respond(a)
    PROVE  ClientsInv'
<1>1. /\ answers' = answers \ {a}
      /\ UNCHANGED <<conn, grants, attach, dialog, sending, shown, displaced>>
  BY DEF C!Respond, C!page
<1>2. a.of \in Questions /\ a.kind \in C!Outcomes /\ answers' \in SUBSET answers
  BY <1>1 DEF ClientsInv, ClientTypes
<1>3. CASE a.of \in C!Pending /\ C!Finish(a.of, a.kind)
  <2>1. \A b \in answers : b.of # a.of => b \in answers'
    BY <1>1
  <2> QED BY <1>1, <1>2, <1>3, <2>1, FinishInv
<1>4. CASE a.of \notin C!Pending /\ C!Send({a.page}, C!ProtocolError) /\ UNCHANGED <<question, pending>>
  <2> USE DEF ClientsInv
  <2>1. net' \in [Pages -> Seq(Messages)] /\ Sent({a.page}, C!ProtocolError)
    BY <1>4, MessageFacts, SendFacts
  <2>2. ClientTypes'
    BY <1>1, <1>2, <1>4, <2>1 DEF ClientTypes
  <2>3. Registered'
    BY <1>4 DEF Registered, C!Pending
  <2>4. Offline' /\ Known' /\ ClosesLast' /\ Told'
    BY <1>1, <1>4, <2>1, ErrorKeeps
  <2>5. \A k \in Pages, q \in Questions : Has(net[k], C!Ask(q)) => Has(net'[k], C!Ask(q))
    BY <2>1 DEF Sent
  <2>6. Handling'
    <3>1. \A k \in Attaches : attach[k].seen \in SUBSET Questions
      BY DEF ClientTypes, AttachTypes
    <3> QED BY <1>1, <2>5, <3>1 DEF Handling
  <2>7. Reaching'
    BY <1>1, <1>4, <2>5 DEF Reaching, Resends
  <2>8. Lasting'
    <3>1. question[a.of].at # "pending"
      BY <1>2, <1>4 DEF Registered
    <3> QED BY <1>1, <1>4, <3>1 DEF Lasting
  <2> QED BY <2>2, <2>3, <2>4, <2>6, <2>7, <2>8
<1> QED BY <1>3, <1>4 DEF C!Respond

LEMMA DeliverInv ==
    ASSUME C!NoneAssumption, ClientsInv, NEW p \in Pages, C!Deliver(p)
    PROVE  ClientsInv'
<1> USE DEF ClientsInv
<1> PICK m, rest : m = Head(net[p]) /\ rest = Tail(net[p])
  OBVIOUS
<1>1. /\ net[p] # << >> /\ net' = [net EXCEPT ![p] = rest]
      /\ UNCHANGED <<conn, grants, attach, question, pending, answers, sending>>
  BY DEF C!Deliver
<1>2. net[p] \in Seq(Messages)
  BY DEF ClientTypes
<1>3. /\ rest \in Seq(Messages) /\ m \in Messages
      /\ \A x : Has(net[p], x) <=> Has(rest, x) \/ x = m
      /\ \A q : HasClose(net[p], q) => HasClose(rest, q) \/ IsClose(m, q)
      /\ \A q : Followed(net[p], q) => Followed(rest, q)
      /\ \A q : Followed(net[p], q) /\ m = C!Ask(q) => HasClose(rest, q)
  BY <1>1, <1>2, TailFacts
<1>4. net'[p] = rest /\ \A k \in Pages : k # p => net'[k] = net[k]
  BY <1>1 DEF ClientTypes
<1>5. net' \in [Pages -> Seq(Messages)]
  BY <1>1, <1>3 DEF ClientTypes
<1>6. conn[p] = "open"
  BY <1>1 DEF Offline
<1>7. \A k \in Pages : \A x : Has(net'[k], x) => Has(net[k], x)
  BY <1>3, <1>4
<1>8. \A k \in Pages : \A q : Followed(net[k], q) => Followed(net'[k], q)
  BY <1>3, <1>4
<1>9. Registered' /\ Told'
  BY <1>1, <1>7 DEF Registered, C!Pending, Told
<1>10. \A k \in Attaches : attach[k].seen \in SUBSET Questions
  BY DEF ClientTypes, AttachTypes
<1>11. CASE m.type = "request"
  <2> PICK q : q = m.of
    OBVIOUS
  <2>1. q \in Questions /\ m = C!Ask(q) /\ Has(net[p], C!Ask(q))
    BY <1>3, <1>11, MessageFacts
  <2>2. /\ dialog' = [dialog EXCEPT ![p] = q]
        /\ shown' = [shown EXCEPT ![p] = shown[p] \cup {q}]
        /\ displaced' = [displaced EXCEPT ![p] = (displaced[p] \cup {dialog[p]}) \ {Nobody, q}]
    BY <1>11 DEF C!Deliver
  <2>3. /\ dialog'[p] = q /\ shown'[p] = shown[p] \cup {q}
        /\ displaced'[p] = (displaced[p] \cup {dialog[p]}) \ {Nobody, q}
        /\ \A k \in Pages : k # p =>
              dialog'[k] = dialog[k] /\ shown'[k] = shown[k] /\ displaced'[k] = displaced[k]
    BY <2>2 DEF ClientTypes
  <2>4. ClientTypes'
    <3>1. (displaced[p] \cup {dialog[p]}) \ {Nobody, q} \in SUBSET Questions
      BY DEF ClientTypes
    <3>2. shown[p] \cup {q} \in SUBSET Questions
      BY <2>1 DEF ClientTypes
    <3>3. /\ displaced' \in [Pages -> SUBSET Questions] /\ shown' \in [Pages -> SUBSET Questions]
          /\ dialog' \in [Pages -> Questions \cup {Nobody}]
      BY <2>1, <2>2, <3>1, <3>2 DEF ClientTypes
    <3> QED BY <1>1, <1>5, <3>3 DEF ClientTypes
  <2>5. Offline'
    BY <1>1, <1>4, <1>6, <2>3 DEF Offline
  <2>6. \A k \in Pages, x \in Questions :
           x \in shown[k] \/ Has(net[k], C!Ask(x)) => x \in shown'[k] \/ Has(net'[k], C!Ask(x))
    <3>1. \A x \in Questions : m = C!Ask(x) => x = q
      BY <2>1, MessageFacts
    <3> QED BY <1>3, <1>4, <2>3, <3>1
  <2>7. Handling'
    BY <1>1, <1>10, <2>6 DEF Handling
  <2>8. Known'
    <3>1. question[q].at # "new" /\ question[q].on \in grants[p]
      BY <2>1 DEF Known
    <3>2. \A k \in Pages, x \in Questions : x \in shown'[k] => question[x].at # "new"
      BY <2>3, <3>1 DEF Known
    <3>3. \A k \in Pages, x \in Questions :
             dialog'[k] = x => question[x].at # "new" /\ question[x].on \in grants[k]
      BY <2>3, <3>1 DEF Known
    <3>4. \A k \in Pages, x \in Questions :
             Has(net'[k], C!Ask(x)) => question[x].at # "new" /\ question[x].on \in grants[k]
      BY <1>7 DEF Known
    <3> QED BY <1>1, <3>2, <3>3, <3>4 DEF Known
  <2>9. ClosesLast'
    <3>1. ASSUME NEW x \in Questions, question[x].at = "done", dialog'[p] = x
          PROVE  HasClose(net'[p], x)
      BY <1>3, <1>4, <2>1, <2>3, <3>1 DEF ClosesLast
    <3> QED BY <1>1, <1>4, <1>8, <2>3, <3>1 DEF ClosesLast
  <2>10. Reaching'
    BY <1>1, <2>6 DEF Reaching, Resends
  <2>11. Lasting'
    <3> SUFFICES ASSUME NEW k \in Pages, NEW x \in Questions, question[x].at = "pending",
                        conn[k] = "open", x \in shown'[k]
                 PROVE  \/ dialog'[k] = x \/ x \in displaced'[k]
                        \/ \E a \in answers : a.of = x /\ a.page = k
      BY <1>1 DEF Lasting
    <3>1. CASE k = p /\ x # q
      <4>1. x \in shown[p] /\ x # Nobody
        BY <2>3, <3>1 DEF C!NoneAssumption
      <4> QED BY <2>3, <3>1, <4>1 DEF Lasting
    <3>2. CASE k = p /\ x = q
      BY <2>3, <3>2
    <3>3. CASE k # p
      BY <2>3, <3>3 DEF Lasting
    <3> QED BY <3>1, <3>2, <3>3
  <2> QED BY <1>9, <2>4, <2>5, <2>7, <2>8, <2>9, <2>10, <2>11
<1>12. CASE m.type # "request"
  <2>1. UNCHANGED <<shown, displaced>>
    BY <1>12 DEF C!Deliver
  <2>2. dialog' = [dialog EXCEPT ![p] = IF IsClose(m, dialog[p]) THEN Nobody ELSE dialog[p]]
    <3>1. CASE m.type = "closed"
      <4>1. dialog' = [dialog EXCEPT ![p] = IF dialog[p] = m.of THEN Nobody ELSE dialog[p]]
        BY <3>1 DEF C!Deliver
      <4> QED BY <3>1, <4>1 DEF IsClose
    <3>2. CASE m.type # "closed"
      <4>1. dialog' = dialog
        BY <1>12, <3>2 DEF C!Deliver
      <4> QED BY <3>2, <4>1 DEF IsClose, ClientTypes
    <3> QED BY <3>1, <3>2
  <2>3. /\ dialog'[p] = IF IsClose(m, dialog[p]) THEN Nobody ELSE dialog[p]
        /\ \A k \in Pages : k # p => dialog'[k] = dialog[k]
    BY <2>2 DEF ClientTypes
  <2>4. ClientTypes'
    BY <1>1, <1>5, <2>1, <2>2 DEF ClientTypes
  <2>5. Offline'
    BY <1>1, <1>4, <1>6, <2>1, <2>3 DEF Offline
  <2>6. \A x \in Questions : m # C!Ask(x)
    BY <1>12, MessageFacts
  <2>7. \A k \in Pages, x \in Questions : Has(net[k], C!Ask(x)) => Has(net'[k], C!Ask(x))
    BY <1>3, <1>4, <2>6
  <2>8. Handling'
    BY <1>1, <1>10, <2>1, <2>7 DEF Handling
  <2>9. Known'
    BY <1>1, <1>7, <2>1, <2>3 DEF Known, C!NoneAssumption
  <2>10. ClosesLast'
    <3>1. ASSUME NEW x \in Questions, question[x].at = "done", dialog'[p] = x
          PROVE  HasClose(net'[p], x)
      <4>1. dialog[p] = x /\ ~ IsClose(m, x)
        BY <2>3, <3>1 DEF C!NoneAssumption
      <4> QED BY <1>3, <1>4, <3>1, <4>1 DEF ClosesLast
    <3> QED BY <1>1, <1>4, <1>8, <2>3, <3>1 DEF ClosesLast
  <2>11. Reaching'
    BY <1>1, <2>1, <2>7 DEF Reaching, Resends
  <2>12. Lasting'
    <3>1. ASSUME NEW x \in Questions, question[x].at = "pending" PROVE ~ IsClose(m, x)
      BY <1>3, <3>1 DEF Told, IsClose
    <3> QED BY <1>1, <2>1, <2>3, <3>1 DEF Lasting
  <2> QED BY <1>9, <2>4, <2>5, <2>8, <2>9, <2>10, <2>11, <2>12
<1> QED BY <1>11, <1>12

LEMMA SubmitInv ==
    ASSUME C!NoneAssumption, ClientsInv, NEW p \in Pages, C!Submit(p)
    PROVE  ClientsInv'
<1> USE DEF ClientsInv
<1>1. /\ sending' = [sending EXCEPT ![p] = sending[p] \cup {dialog[p]}] /\ dialog[p] # Nobody
      /\ UNCHANGED <<conn, grants, attach, question, pending, net, answers, dialog, shown, displaced>>
  BY DEF C!Submit
<1>2. ClientTypes'
  <2>1. sending[p] \cup {dialog[p]} \in SUBSET Questions
    BY <1>1 DEF ClientTypes
  <2>2. sending' \in [Pages -> SUBSET Questions]
    BY <1>1, <2>1 DEF ClientTypes
  <2> QED BY <1>1, <2>2 DEF ClientTypes
<1>3. Registered' /\ Offline' /\ Handling'
  BY <1>1 DEF Registered, C!Pending, Offline, Handling
<1>4. Known' /\ ClosesLast' /\ Told'
  BY <1>1 DEF Known, ClosesLast, Told
<1>5. Reaching' /\ Lasting'
  BY <1>1 DEF Reaching, Resends, Lasting
<1> QED BY <1>2, <1>3, <1>4, <1>5

LEMMA AnswerInv ==
    ASSUME C!NoneAssumption, ClientsInv, NEW p \in Pages, NEW q \in Questions, NEW r \in C!Outcomes,
           C!Answer(p, q, r), sending' \in [Pages -> SUBSET Questions]
    PROVE  ClientsInv'
<1> USE DEF ClientsInv
<1>1. /\ conn[p] = "open" /\ answers' = answers \cup {[page |-> p, of |-> q, kind |-> r]}
      /\ dialog' = [dialog EXCEPT ![p] = Nobody]
      /\ displaced' = [displaced EXCEPT ![p] = (displaced[p] \cup {dialog[p]}) \ {Nobody, q}]
      /\ UNCHANGED <<conn, grants, attach, question, pending, net, shown>>
  BY DEF C!Answer
<1>2. /\ dialog'[p] = Nobody /\ displaced'[p] = (displaced[p] \cup {dialog[p]}) \ {Nobody, q}
      /\ \A k \in Pages : k # p => dialog'[k] = dialog[k] /\ displaced'[k] = displaced[k]
  BY <1>1 DEF ClientTypes
<1>3. ClientTypes'
  <2>1. (displaced[p] \cup {dialog[p]}) \ {Nobody, q} \in SUBSET Questions
    BY DEF ClientTypes
  <2>2. displaced' \in [Pages -> SUBSET Questions] /\ dialog' \in [Pages -> Questions \cup {Nobody}]
    BY <1>1, <2>1 DEF ClientTypes
  <2>3. answers' \in SUBSET [page : Pages, of : Questions, kind : C!Outcomes]
    BY <1>1 DEF ClientTypes
  <2> QED BY <1>1, <2>2, <2>3 DEF ClientTypes
<1>4. Registered' /\ Offline' /\ Handling'
  BY <1>1, <1>2 DEF Registered, C!Pending, Offline, Handling
<1>5. Known' /\ ClosesLast' /\ Told'
  BY <1>1, <1>2 DEF Known, ClosesLast, Told, C!NoneAssumption
<1>6. Reaching'
  BY <1>1 DEF Reaching, Resends
<1>7. Lasting'
  <2> SUFFICES ASSUME NEW k \in Pages, NEW x \in Questions, question[x].at = "pending",
                      conn[k] = "open", x \in shown[k]
               PROVE  \/ dialog'[k] = x \/ x \in displaced'[k]
                      \/ \E a \in answers' : a.of = x /\ a.page = k
    BY <1>1 DEF Lasting
  <2>1. answers \subseteq answers'
    BY <1>1
  <2>2. CASE k = p /\ x = q
    <3>1. [page |-> p, of |-> q, kind |-> r] \in answers'
      BY <1>1
    <3> QED BY <2>2, <3>1
  <2>3. CASE k = p /\ x # q
    <3>1. x # Nobody
      BY DEF C!NoneAssumption
    <3> QED BY <1>2, <2>1, <2>3, <3>1 DEF Lasting
  <2>4. CASE k # p
    BY <1>2, <2>1, <2>4 DEF Lasting
  <2> QED BY <2>2, <2>3, <2>4
<1> QED BY <1>3, <1>4, <1>5, <1>6, <1>7

LEMMA SendAnswerInv ==
    ASSUME C!NoneAssumption, ClientsInv, NEW p \in Pages, NEW q \in Questions, C!SendAnswer(p, q)
    PROVE  ClientsInv'
<1>1. PICK r \in {"answered", "cancelled"} : C!Answer(p, q, r)
  BY DEF C!SendAnswer
<1>2. r \in C!Outcomes
  BY DEF C!Outcomes
<1>3. sending' \in [Pages -> SUBSET Questions]
  <2>1. sending' = [sending EXCEPT ![p] = sending[p] \ {q}]
    BY DEF C!SendAnswer
  <2> QED BY <2>1 DEF ClientsInv, ClientTypes
<1> QED BY <1>1, <1>2, <1>3, AnswerInv

LEMMA CancelInv ==
    ASSUME C!NoneAssumption, ClientsInv, NEW p \in Pages, C!Cancel(p)
    PROVE  ClientsInv'
<1>1. "cancelled" \in C!Outcomes
  BY DEF C!Outcomes
<1>2. C!Answer(p, dialog[p], "cancelled") /\ dialog[p] # Nobody /\ UNCHANGED sending
  BY DEF C!Cancel
<1>3. dialog[p] \in Questions /\ sending' \in [Pages -> SUBSET Questions]
  BY <1>2 DEF ClientsInv, ClientTypes
<1> QED BY <1>1, <1>2, <1>3, AnswerInv

LEMMA ClientsStep == C!NoneAssumption /\ ClientsInv /\ [C!Next]_(C!vars) => ClientsInv'
<1> SUFFICES ASSUME C!NoneAssumption, ClientsInv, [C!Next]_(C!vars) PROVE ClientsInv'
  OBVIOUS
<1>1. CASE UNCHANGED C!vars
  <2>1. UNCHANGED <<conn, grants, attach, question, pending, net, answers, dialog, sending, shown,
                    displaced>>
    BY <1>1 DEF C!vars
  <2> USE DEF ClientsInv
  <2>2. ClientTypes' /\ Registered' /\ Offline' /\ Handling'
    BY <2>1 DEF ClientTypes, Registered, C!Pending, Offline, Handling
  <2>3. Known' /\ ClosesLast' /\ Told'
    BY <2>1 DEF Known, ClosesLast, Told
  <2>4. Reaching' /\ Lasting'
    BY <2>1 DEF Reaching, Resends, Lasting
  <2> QED BY <2>2, <2>3, <2>4
<1>2. CASE C!Next
  <2>1. CASE \E p \in Pages : \/ C!Connect(p) \/ C!Leave(p) \/ C!Deliver(p) \/ C!Submit(p)
                              \/ C!Cancel(p)
                              \/ \E q \in Questions : C!SendAnswer(p, q)
    BY <2>1, ConnectInv, LeaveInv, DeliverInv, SubmitInv, CancelInv, SendAnswerInv
  <2>2. CASE \E h \in Attaches : \/ \E p \in Pages, s \in C!Sessions : C!AttachReceived(h, p, s)
                                 \/ C!AttachGrant(h) \/ C!AttachResend(h)
    BY <2>2, AttachReceivedInv, AttachGrantInv, AttachResendInv
  <2>3. CASE \E q \in Questions : \/ \E s \in C!Sessions : C!AskQuestion(q, s)
                                  \/ C!Abort(q)
    BY <2>3, AskQuestionInv, AbortInv
  <2>4. CASE \E a \in answers : C!Respond(a)
    BY <2>4, RespondInv
  <2> QED BY <1>2, <2>1, <2>2, <2>3, <2>4 DEF C!Next
<1> QED BY <1>1, <1>2

LEMMA DialogsInv ==
    ASSUME C!NoneAssumption, ClientsInv
    PROVE  DialogsTrue
<1> USE DEF ClientsInv
<1>1. \A q \in C!Pending : q \in Questions /\ question[q].at = "pending"
  BY DEF Registered
<1>2. C!NoQuestionMissed
  <2> SUFFICES ASSUME NEW q \in C!Pending, NEW p \in C!Owners(question[q].on), conn[p] = "open"
               PROVE  \/ q \in shown[p] \/ C!Resending(p, q)
                      \/ \E i \in DOMAIN net[p] : net[p][i] = C!Ask(q)
    BY DEF C!NoQuestionMissed
  <2>1. p \in Pages /\ question[q].on \in grants[p]
    BY DEF C!Owners, C!Connected
  <2>2. \/ q \in shown[p] \/ Has(net[p], C!Ask(q))
        \/ \E h \in Attaches : Resends(h, p, q)
    BY <1>1, <2>1 DEF Reaching
  <2> QED BY <2>2 DEF Has, Resends, C!Resending
<1>3. C!NoStaleDialog
  <2> SUFFICES ASSUME NEW p \in Pages, net[p] = << >>, dialog[p] # Nobody
               PROVE  dialog[p] \in C!Pending
    BY DEF C!NoStaleDialog
  <2> PICK q : q = dialog[p]
    OBVIOUS
  <2>1. q \in Questions /\ question[q].at # "new"
    BY DEF ClientTypes, Known
  <2>2. question[q].at # "done"
    BY <2>1, NothingFacts DEF ClosesLast
  <2>3. question[q].at \in {"new", "pending", "done"}
    BY <2>1 DEF ClientTypes, QuestionTypes
  <2> QED BY <2>1, <2>2, <2>3 DEF Registered
<1>4. C!ClosedAsEnded
  <2> SUFFICES ASSUME NEW p \in Pages, NEW i \in DOMAIN net[p], net[p][i].type = "closed"
               PROVE  net[p][i].reason = question[net[p][i].of].end
    BY DEF C!ClosedAsEnded
  <2>1. net[p][i] \in Messages
    BY DEF ClientTypes
  <2>2. Has(net[p], net[p][i])
    BY DEF Has
  <2> QED BY <2>1, <2>2 DEF Told
<1>5. C!ShownUntilOver
  BY <1>1 DEF Lasting, C!ShownUntilOver
<1> QED BY <1>2, <1>3, <1>4, <1>5 DEF DialogsTrue

(* requestSessionClientQuestion, finish, attachSessionGrant and the page:   *)
(* whatever the order of attaches, questions, answers, aborts and leaves, a *)
(* pending question reaches every page its session is granted to and stays  *)
(* there until it is over, answered or displaced, and one that is over is   *)
(* closed after every copy of it, for the reason it ended.                  *)
THEOREM DialogsHold ==
    ASSUME C!NoneAssumption
    PROVE  C!Spec => []DialogsTrue
<1>1. C!Init => ClientsInv
  BY ClientsInit
<1>2. ClientsInv /\ [C!Next]_(C!vars) => ClientsInv'
  BY ClientsStep
<1>3. ClientsInv => DialogsTrue
  BY DialogsInv
<1> QED BY <1>1, <1>2, <1>3, PTL DEF C!Spec

-----------------------------------------------------------------------------
(* The chats.                                                               *)

ReqPcs == K!ServerPcs \cup {"unused", "created", "completed", "failed", "over"}
ReqTypes == [at : ReqPcs, from : K!Keys \cup {None}, key : K!Keys \cup {None},
             chat : K!Chats \cup {None}, live : BOOLEAN]
Looks == {None, "free", "sent", "row"}

ChatTypes ==
    /\ surface \in K!Keys \cup {None} /\ actions \subseteq K!Keys
    /\ ui \in [K!Keys -> Looks]
    /\ req \in [K!Requests -> ReqTypes]
    /\ row \in [K!Chats -> BOOLEAN \cup {None}]
    /\ \A l \in loads : l.chat \in K!Chats

(* A submission the page still waits for.                                   *)
Active(r) == req[r].live /\ req[r].at \notin {"unused", "over"}

(* A request has a chat; only a page that waits for it is told of it; and   *)
(* the model of the chat, which the request has created if it was sent from *)
(* the draft, is the one to follow once it is created.                      *)
Addressed ==
    \A r \in K!Requests :
        /\ req[r].at # "unused" => req[r].chat \in K!Chats /\ req[r].key \in K!Keys
        /\ req[r].at \in {"created", "completed", "failed"} => req[r].live
        /\ req[r].at \in {"creating", "created"} => req[r].chat = r /\ req[r].key = K!Draft
        /\ Active(r) /\ req[r].at \notin {"creating", "created", "failed"} => req[r].key = req[r].chat

(* A submission the page waits for is among those under way, and the only   *)
(* one from there.                                                          *)
Noted ==
    \A r \in K!Requests : Active(r) =>
        /\ req[r].from \in actions
        /\ \A q \in K!Requests : Active(q) /\ req[q].from = req[r].from => q = r

(* A chat locked for a submission has one.                                  *)
LockedForOne == \A c \in K!Chats : ui[c] = "sent" => \E r \in K!Requests : Active(r) /\ req[r].key = c

ChatInv == ChatTypes /\ Addressed /\ Noted /\ LockedForOne /\ K!LockedByCutOff

(* A step of request r leaves the others alone and gives it the record e.   *)
Reaches(r, e) == req' = [req EXCEPT ![r] = e]

LEMMA ReachesFacts ==
    ASSUME ChatTypes, NEW r \in K!Requests, NEW e \in ReqTypes, Reaches(r, e)
    PROVE  req' \in [K!Requests -> ReqTypes] /\ req'[r] = e /\ \A q \in K!Requests : q # r => req'[q] = req[q]
BY DEF ChatTypes, Reaches

LEMMA ChatGoFacts ==
    ASSUME ChatTypes, NEW r \in K!Requests, NEW to \in ReqPcs, K!Go(r, to)
    PROVE  \E e \in ReqTypes :
              /\ Reaches(r, e) /\ e.at = to
              /\ e.from = req[r].from /\ e.key = req[r].key /\ e.chat = req[r].chat /\ e.live = req[r].live
<1> DEFINE e == [req[r] EXCEPT !.at = to]
<1>1. req[r] \in ReqTypes
  BY DEF ChatTypes
<1>2. /\ e \in ReqTypes /\ e.at = to
      /\ e.from = req[r].from /\ e.key = req[r].key /\ e.chat = req[r].chat /\ e.live = req[r].live
  BY <1>1 DEF ReqTypes
<1>3. Reaches(r, e)
  BY DEF K!Go, Reaches
<1> QED BY <1>2, <1>3

(* A request goes on and no chat of the page changes: it stays with the     *)
(* page, or the page no longer waited for it.                               *)
LEMMA GoesOn ==
    ASSUME ChatInv, NEW r \in K!Requests, NEW to \in ReqPcs, K!Go(r, to),
           UNCHANGED <<surface, ui, actions>>, row' \in [K!Chats -> BOOLEAN \cup {None}], loads' = loads,
           req[r].at \notin {"unused", "created", "completed", "failed", "over"},
           to \notin {"unused", "creating"}, to = "created" => req[r].at = "creating",
           to = "over" => ~ req[r].live,
           to \in {"created", "completed", "failed"} => req[r].live,
           req[r].at = "creating" => to \in {"created", "failed", "over"}
    PROVE  ChatTypes' /\ Addressed' /\ Noted' /\ LockedForOne'
<1>1. PICK e \in ReqTypes :
              /\ Reaches(r, e) /\ e.at = to
              /\ e.from = req[r].from /\ e.key = req[r].key /\ e.chat = req[r].chat /\ e.live = req[r].live
  BY ChatGoFacts DEF ChatInv
<1>2. req' \in [K!Requests -> ReqTypes] /\ req'[r] = e /\ \A q \in K!Requests : q # r => req'[q] = req[q]
  BY <1>1, ReachesFacts DEF ChatInv
<1>3. ChatTypes'
  BY <1>2 DEF ChatInv, ChatTypes
<1>4. Active(r)' <=> Active(r)
  BY <1>1, <1>2 DEF Active
<1>5. \A q \in K!Requests : /\ Active(q)' <=> Active(q)
                            /\ req'[q].from = req[q].from /\ req'[q].key = req[q].key
  BY <1>1, <1>2, <1>4 DEF Active
<1>6. Addressed'
  BY <1>1, <1>2, <1>4 DEF ChatInv, Addressed, Active
<1>7. Noted'
  BY <1>5 DEF ChatInv, Noted
<1>8. LockedForOne'
  BY <1>5 DEF ChatInv, LockedForOne
<1> QED BY <1>3, <1>6, <1>7, <1>8

(* The states in which a turn has marked the chat.                          *)
LEMMA TurnIsServer == K!TurnPcs \subseteq K!ServerPcs /\ K!ServerPcs \subseteq ReqPcs
BY DEF K!ServerPcs, ReqPcs

(* A request that has not marked the chat, or still has, goes on.           *)
LEMMA MarkedStays ==
    ASSUME ChatInv, NEW r \in K!Requests, NEW e \in ReqTypes, Reaches(r, e),
           e.chat = req[r].chat \/ req[r].at \notin K!TurnPcs,
           req[r].at \in K!TurnPcs => e.at \in K!TurnPcs \/ req[r].chat \in hurt',
           \A c \in K!Chats : row'[c] = TRUE => row[c] = TRUE, hurt \subseteq hurt'
    PROVE  K!LockedByCutOff'
<1>1. /\ req'[r] = e /\ \A q \in K!Requests : q # r => req'[q] = req[q]
  BY ReachesFacts DEF ChatInv
<1> SUFFICES ASSUME NEW c \in K!Chats, row'[c] = TRUE, c \notin hurt'
             PROVE  \E q \in K!Requests : req'[q].chat = c /\ req'[q].at \in K!TurnPcs
  BY DEF K!LockedByCutOff, K!Running
<1>2. PICK q \in K!Requests : req[q].chat = c /\ req[q].at \in K!TurnPcs
  BY DEF ChatInv, K!LockedByCutOff, K!Running
<1>3. CASE q = r
  BY <1>1, <1>2, <1>3
<1>4. CASE q # r
  BY <1>1, <1>2, <1>4
<1> QED BY <1>3, <1>4

LEMMA ChatInitInv ==
    ASSUME K!BoundsAssumption, K!NoneAssumption, K!Init
    PROVE  ChatInv
<1> USE DEF K!Init
<1>1. \A r \in K!Requests : req[r] = K!Unused
  OBVIOUS
<1>2. K!Unused \in ReqTypes /\ K!Unused.at = "unused"
  BY DEF K!Unused, ReqTypes, ReqPcs
<1>3. req \in [K!Requests -> ReqTypes]
  BY <1>2
<1>4. ChatTypes
  BY <1>3 DEF ChatTypes, Looks
<1>5. \A r \in K!Requests : ~ Active(r)
  BY <1>1, <1>2 DEF Active
<1>6. Addressed
  <2>1. \A r \in K!Requests : req[r].at = "unused"
    BY <1>1, <1>2
  <2> QED BY <2>1, <1>5 DEF Addressed
<1>7. Noted
  BY <1>5 DEF Noted
<1>8. \A c \in K!Chats : ui[c] = None /\ row[c] = None
  BY DEF K!Keys
<1>9. LockedForOne /\ K!LockedByCutOff
  BY <1>8 DEF LockedForOne, K!LockedByCutOff, K!Running, K!NoneAssumption
<1> QED BY <1>4, <1>6, <1>7, <1>9 DEF ChatInv

-----------------------------------------------------------------------------
(* The page.                                                                *)

LEMMA KeysFacts ==
    ASSUME K!BoundsAssumption
    PROVE  K!Draft \in K!Keys /\ K!Chats \subseteq K!Keys /\ K!Draft \notin K!Chats
           /\ K!Requests = K!Chats
BY DEF K!BoundsAssumption, K!Draft, K!Keys, K!Chats, K!Requests

(* The requests and the rows stay, and the models of chats at most stop     *)
(* being locked for a submission.                                           *)
LEMMA OnlyLooks ==
    ASSUME ChatInv, UNCHANGED <<req, actions, row, hurt>>,
           surface' \in K!Keys \cup {None}, ui' \in [K!Keys -> Looks],
           \A l \in loads' : l.chat \in K!Chats,
           \A c \in K!Chats : ui'[c] = "sent" =>
               ui[c] = "sent" \/ \E r \in K!Requests : Active(r) /\ req[r].key = c
    PROVE  ChatInv'
<1>1. ChatTypes'
  BY DEF ChatInv, ChatTypes
<1>2. Addressed' /\ Noted' /\ K!LockedByCutOff'
  BY DEF ChatInv, Addressed, Noted, Active, K!LockedByCutOff, K!Running
<1>3. LockedForOne'
  BY DEF ChatInv, LockedForOne, Active
<1> QED BY <1>1, <1>2, <1>3 DEF ChatInv

LEMMA OpenFacts ==
    ASSUME K!BoundsAssumption, K!NoneAssumption, NEW k \in K!Keys \cup {None},
           NEW models \in [K!Keys -> Looks], K!Open(k, models),
           \A l \in loads : l.chat \in K!Chats
    PROVE  /\ surface' = k /\ ui' \in [K!Keys -> Looks]
           /\ \A c \in K!Chats : ui'[c] = models[c]
           /\ \A l \in loads' : l.chat \in K!Chats
<1>1. ui' = models \/ ui' = [models EXCEPT ![K!Draft] = "free"]
  BY DEF K!Open
<1>2. ui' \in [K!Keys -> Looks] /\ \A c \in K!Chats : ui'[c] = models[c]
  BY <1>1, KeysFacts DEF Looks
<1>3. \A l \in loads' : l \in loads \/ (k \in K!Chats /\ l.chat = k)
  BY DEF K!Open
<1> QED BY <1>2, <1>3 DEF K!Open

LEMMA NavigateInv ==
    ASSUME K!BoundsAssumption, K!NoneAssumption, ChatInv, NEW k \in K!Keys \cup {None}, K!Navigate(k)
    PROVE  ChatInv'
<1>1. K!Open(k, ui) /\ UNCHANGED <<actions, req, row, folder, del, hurt>>
  BY DEF K!Navigate, K!store
<1>2. ui \in [K!Keys -> Looks] /\ \A l \in loads : l.chat \in K!Chats
  BY DEF ChatInv, ChatTypes
<1>3. /\ surface' = k /\ ui' \in [K!Keys -> Looks]
      /\ \A c \in K!Chats : ui'[c] = ui[c]
      /\ \A l \in loads' : l.chat \in K!Chats
  BY <1>1, <1>2, OpenFacts
<1> QED BY <1>1, <1>3, OnlyLooks

LEMMA ChatSubmitInv ==
    ASSUME K!BoundsAssumption, K!NoneAssumption, ChatInv, NEW r \in K!Requests, K!Submit(r)
    PROVE  ChatInv'
<1> DEFINE e == [at |-> IF surface = K!Draft THEN "creating" ELSE "arrived",
                 from |-> surface, key |-> surface, live |-> TRUE,
                 chat |-> IF surface = K!Draft THEN r ELSE surface]
<1>1. /\ req[r].at = "unused" /\ surface \in K!Keys /\ surface \notin actions
      /\ actions' = actions \cup {surface} /\ ui' = [ui EXCEPT ![surface] = "sent"]
      /\ UNCHANGED <<surface, loads, row, folder, del, hurt>>
  BY DEF K!Submit, K!store
<1>2. Reaches(r, e)
  BY DEF K!Submit, Reaches
<1>3. e.chat \in K!Chats /\ e.key = surface /\ e.from = surface /\ e.live /\ e.at \in {"creating", "arrived"}
      /\ (e.at # "creating" => e.key = e.chat) /\ (e.at = "creating" => e.chat = r /\ e.key = K!Draft)
  BY <1>1, KeysFacts DEF K!Keys
<1>4. e \in ReqTypes
  <2>1. e.at \in ReqPcs
    BY <1>3 DEF ReqPcs, K!ServerPcs
  <2> QED BY <1>1, <1>3, <2>1 DEF ReqTypes
<1> HIDE DEF e
<1>5. req' \in [K!Requests -> ReqTypes] /\ req'[r] = e /\ \A q \in K!Requests : q # r => req'[q] = req[q]
  BY <1>2, <1>4, ReachesFacts DEF ChatInv
<1>6. Active(r)' /\ ~ Active(r)
  BY <1>1, <1>3, <1>5 DEF Active
<1>7. \A q \in K!Requests : q # r => (Active(q)' <=> Active(q))
  BY <1>5 DEF Active
<1>8. ChatTypes'
  <2>1. ui' \in [K!Keys -> Looks]
    BY <1>1 DEF ChatInv, ChatTypes, Looks
  <2> QED BY <1>1, <1>5, <2>1 DEF ChatInv, ChatTypes
<1>9. Addressed'
  <2> SUFFICES ASSUME NEW q \in K!Requests
               PROVE /\ req'[q].at # "unused" => req'[q].chat \in K!Chats /\ req'[q].key \in K!Keys
                     /\ req'[q].at \in {"created", "completed", "failed"} => req'[q].live
                     /\ req'[q].at \in {"creating", "created"} => req'[q].chat = q /\ req'[q].key = K!Draft
                     /\ Active(q)' /\ req'[q].at \notin {"creating", "created", "failed"} => req'[q].key = req'[q].chat
    BY DEF Addressed
  <2>1. CASE q = r
    BY <2>1, <1>1, <1>3, <1>5
  <2>2. CASE q # r
    BY <2>2, <1>5, <1>7 DEF ChatInv, Addressed
  <2> QED BY <2>1, <2>2
<1>10. Noted'
  BY <1>1, <1>3, <1>5, <1>6, <1>7 DEF ChatInv, Noted
<1>11. LockedForOne'
  <2> SUFFICES ASSUME NEW c \in K!Chats, ui'[c] = "sent"
               PROVE  \E q \in K!Requests : Active(q)' /\ req'[q].key = c
    BY DEF LockedForOne
  <2>1. CASE c = surface
    BY <2>1, <1>3, <1>5, <1>6
  <2>2. CASE c # surface
    <3>1. ui[c] = "sent"
      BY <2>2, <1>1, KeysFacts DEF ChatInv, ChatTypes
    <3>2. PICK q \in K!Requests : Active(q) /\ req[q].key = c
      BY <3>1 DEF ChatInv, LockedForOne
    <3> QED BY <3>2, <1>5, <1>6, <1>7
  <2> QED BY <2>1, <2>2
<1>12. K!LockedByCutOff'
  BY <1>1, <1>2, <1>4, MarkedStays DEF K!TurnPcs
<1> QED BY <1>8, <1>9, <1>10, <1>11, <1>12 DEF ChatInv

LEMMA CreatedInv ==
    ASSUME K!BoundsAssumption, K!NoneAssumption, ChatInv, NEW r \in K!Requests, K!Created(r)
    PROVE  ChatInv'
<1> DEFINE e == [req[r] EXCEPT !.at = "arrived", !.key = r]
           models == [ui EXCEPT ![K!Draft] = "sent", ![r] = "sent"]
<1>0. r \in K!Chats /\ r \in K!Keys
  BY KeysFacts
<1>1. /\ req[r].at = "created" /\ K!Open(r, models)
      /\ UNCHANGED <<actions, row, folder, del, hurt>>
  BY DEF K!Created, K!store
<1>2. Reaches(r, e)
  BY DEF K!Created, Reaches
<1>3. req[r] \in ReqTypes /\ req[r].live /\ Active(r)
  BY <1>1 DEF ChatInv, ChatTypes, Addressed, Active
<1>4. e \in ReqTypes /\ e.at = "arrived" /\ e.key = r /\ e.from = req[r].from /\ e.chat = req[r].chat /\ e.live
  BY <1>0, <1>3 DEF ReqTypes, ReqPcs, K!ServerPcs
<1>5. models \in [K!Keys -> Looks] /\ \A c \in K!Chats : c # r => models[c] = ui[c]
  BY KeysFacts DEF ChatInv, ChatTypes, Looks
<1> HIDE DEF e, models
<1>6. req' \in [K!Requests -> ReqTypes] /\ req'[r] = e /\ \A q \in K!Requests : q # r => req'[q] = req[q]
  BY <1>2, <1>4, ReachesFacts DEF ChatInv
<1>7. /\ surface' = r /\ ui' \in [K!Keys -> Looks]
      /\ \A c \in K!Chats : ui'[c] = models[c]
      /\ \A l \in loads' : l.chat \in K!Chats
  BY <1>0, <1>1, <1>5, OpenFacts DEF ChatInv, ChatTypes
<1>8. \A q \in K!Requests : (Active(q)' <=> Active(q)) /\ req'[q].from = req[q].from
  BY <1>3, <1>4, <1>6 DEF Active
<1>9. ChatTypes'
  BY <1>0, <1>1, <1>6, <1>7 DEF ChatInv, ChatTypes
<1>10. Addressed'
  <2>1. e.chat = r
    BY <1>1, <1>4 DEF ChatInv, Addressed
  <2> QED BY <1>0, <1>1, <1>4, <1>6, <1>8, <2>1 DEF ChatInv, Addressed
<1>11. Noted'
  BY <1>1, <1>6, <1>8 DEF ChatInv, Noted
<1>12. LockedForOne'
  <2> SUFFICES ASSUME NEW c \in K!Chats, ui'[c] = "sent"
               PROVE  \E q \in K!Requests : Active(q)' /\ req'[q].key = c
    BY DEF LockedForOne
  <2>1. CASE c = r
    BY <2>1, <1>3, <1>4, <1>6, <1>8
  <2>2. CASE c # r
    <3>1. PICK q \in K!Requests : Active(q) /\ req[q].key = c
      BY <2>2, <1>5, <1>7 DEF ChatInv, LockedForOne
    <3>2. CASE q = r
      <4>1. req[r].key = K!Draft
        BY <1>1 DEF ChatInv, Addressed
      <4> QED BY <3>1, <3>2, <4>1, KeysFacts
    <3> QED BY <3>1, <3>2, <1>6, <1>8
  <2> QED BY <2>1, <2>2
<1>13. K!LockedByCutOff'
  BY <1>1, <1>2, <1>4, MarkedStays DEF K!TurnPcs
<1> QED BY <1>9, <1>10, <1>11, <1>12, <1>13 DEF ChatInv

LEMMA ProgressInv ==
    ASSUME K!BoundsAssumption, K!NoneAssumption, ChatInv, NEW r \in K!Requests, K!Progress(r)
    PROVE  ChatInv'
<1>1. /\ req[r].at = "looping" /\ req[r].live
      /\ UNCHANGED <<surface, actions, req, loads, row, hurt>>
  BY DEF K!Progress, K!store
<1>2. Active(r) /\ req[r].chat \in K!Chats /\ req[r].key = req[r].chat
  BY <1>1 DEF ChatInv, Addressed, Active
<1>3. ui' = ui \/ ui' = [ui EXCEPT ![req[r].chat] = None] \/ ui' = [ui EXCEPT ![req[r].chat] = "sent"]
  BY DEF K!Progress
<1>4. ui' \in [K!Keys -> Looks] /\ \A c \in K!Chats : c # req[r].chat => ui'[c] = ui[c]
  BY <1>2, <1>3, KeysFacts DEF ChatInv, ChatTypes, Looks
<1>5. \A c \in K!Chats : ui'[c] = "sent" =>
         ui[c] = "sent" \/ \E q \in K!Requests : Active(q) /\ req[q].key = c
  BY <1>2, <1>4
<1> QED BY <1>1, <1>4, <1>5, OnlyLooks DEF ChatInv, ChatTypes

(* The page has been told how a request it waited for went.                 *)
LEMMA ToldInv ==
    ASSUME K!BoundsAssumption, K!NoneAssumption, ChatInv, NEW r \in K!Requests,
           req[r].at \in {"completed", "failed"},
           ui' = [ui EXCEPT ![req[r].key] = "free"],
           actions' = actions \ {req[r].from}, K!Go(r, "over"),
           UNCHANGED <<surface, loads, row, hurt>>
    PROVE  ChatInv'
<1>0. "over" \in ReqPcs
  BY DEF ReqPcs
<1>1. PICK e \in ReqTypes :
              /\ Reaches(r, e) /\ e.at = "over"
              /\ e.from = req[r].from /\ e.key = req[r].key /\ e.chat = req[r].chat /\ e.live = req[r].live
  BY <1>0, ChatGoFacts DEF ChatInv
<1>2. req' \in [K!Requests -> ReqTypes] /\ req'[r] = e /\ \A q \in K!Requests : q # r => req'[q] = req[q]
  BY <1>1, ReachesFacts DEF ChatInv
<1>3. Active(r) /\ ~ Active(r)' /\ req[r].key \in K!Keys
  BY <1>1, <1>2 DEF ChatInv, Addressed, Active
<1>4. \A q \in K!Requests : q # r => (Active(q)' <=> Active(q))
  BY <1>2 DEF Active
<1>5. ui' \in [K!Keys -> Looks] /\ ui'[req[r].key] = "free"
      /\ \A c \in K!Keys : c # req[r].key => ui'[c] = ui[c]
  BY <1>3 DEF ChatInv, ChatTypes, Looks
<1>6. ChatTypes'
  BY <1>2, <1>5 DEF ChatInv, ChatTypes
<1>7. Addressed'
  BY <1>1, <1>2, <1>3, <1>4 DEF ChatInv, Addressed
<1>8. Noted'
  <2> SUFFICES ASSUME NEW q \in K!Requests, Active(q)'
               PROVE  /\ req'[q].from \in actions'
                      /\ \A p \in K!Requests : Active(p)' /\ req'[p].from = req'[q].from => p = q
    BY DEF Noted
  <2>1. q # r /\ Active(q) /\ req'[q] = req[q]
    BY <1>2, <1>3, <1>4
  <2>2. req[q].from \in actions /\ req[q].from # req[r].from
    BY <1>3, <2>1 DEF ChatInv, Noted
  <2>3. \A p \in K!Requests : Active(p)' => p # r /\ Active(p) /\ req'[p] = req[p]
    BY <1>2, <1>3, <1>4
  <2> QED BY <2>1, <2>2, <2>3 DEF ChatInv, Noted
<1>9. LockedForOne'
  <2> SUFFICES ASSUME NEW c \in K!Chats, ui'[c] = "sent"
               PROVE  \E q \in K!Requests : Active(q)' /\ req'[q].key = c
    BY DEF LockedForOne
  <2>1. c # req[r].key /\ ui[c] = "sent"
    BY <1>5, KeysFacts
  <2>2. PICK q \in K!Requests : Active(q) /\ req[q].key = c
    BY <2>1 DEF ChatInv, LockedForOne
  <2> QED BY <2>1, <2>2, <1>2, <1>4
<1>10. K!LockedByCutOff'
  BY <1>1, <1>2, MarkedStays DEF K!TurnPcs
<1> QED BY <1>6, <1>7, <1>8, <1>9, <1>10 DEF ChatInv

LEMMA CompletedInv ==
    ASSUME K!BoundsAssumption, K!NoneAssumption, ChatInv, NEW r \in K!Requests, K!Completed(r)
    PROVE  ChatInv'
<1>1. /\ req[r].at = "completed" /\ ui' = [ui EXCEPT ![req[r].chat] = "free"]
      /\ actions' = actions \ {req[r].from} /\ K!Go(r, "over")
      /\ UNCHANGED <<surface, loads, row, hurt>>
  BY DEF K!Completed, K!store
<1>2. req[r].key = req[r].chat
  BY <1>1 DEF ChatInv, Addressed, Active
<1> QED BY <1>1, <1>2, ToldInv

LEMMA FailedInv ==
    ASSUME K!BoundsAssumption, K!NoneAssumption, ChatInv, NEW r \in K!Requests, K!Failed(r)
    PROVE  ChatInv'
<1>1. /\ req[r].at = "failed" /\ ui' = [ui EXCEPT ![req[r].key] = "free"]
      /\ actions' = actions \ {req[r].from} /\ K!Go(r, "over")
      /\ UNCHANGED <<surface, loads, row, hurt>>
  BY DEF K!Failed, K!store
<1> QED BY <1>1, ToldInv

LEMMA LoadedInv ==
    ASSUME K!BoundsAssumption, K!NoneAssumption, ChatInv, NEW l \in loads, K!Loaded(l)
    PROVE  ChatInv'
<1>1. /\ ui' = [ui EXCEPT ![l.chat] = IF l.running THEN "row" ELSE "free"]
      /\ loads' = loads \ {l}
      /\ UNCHANGED <<surface, actions, req, row, hurt>>
  BY DEF K!Loaded, K!store
<1>2. l.chat \in K!Chats /\ l.chat \in K!Keys
  BY KeysFacts DEF ChatInv, ChatTypes
<1>3. ui' = [ui EXCEPT ![l.chat] = "row"] \/ ui' = [ui EXCEPT ![l.chat] = "free"]
  BY <1>1
<1>4. ui' \in [K!Keys -> Looks] /\ \A c \in K!Chats : ui'[c] = "sent" => ui[c] = "sent"
  BY <1>2, <1>3, KeysFacts DEF ChatInv, ChatTypes, Looks
<1> QED BY <1>1, <1>4, OnlyLooks DEF ChatInv, ChatTypes

LEMMA ReloadInv ==
    ASSUME K!BoundsAssumption, K!NoneAssumption, ChatInv, K!Reload
    PROVE  ChatInv'
<1>1. /\ surface' = None /\ ui' = [k \in K!Keys |-> None] /\ actions' = {} /\ loads' = {}
      /\ row' = row /\ hurt' = hurt
  BY DEF K!Reload, K!store
<1>2. \A r \in K!Requests :
         \/ /\ req[r].at \in K!ServerPcs
            /\ req'[r] = [req[r] EXCEPT !.live = FALSE]
         \/ req[r].at = "unused" /\ req'[r] = req[r]
         \/ req[r].at \notin K!ServerPcs \cup {"unused"} /\ req'[r] = [req[r] EXCEPT !.live = FALSE, !.at = "over"]
  <2> TAKE r \in K!Requests
  <2>1. req'[r] = CASE req[r].at \in K!ServerPcs -> [req[r] EXCEPT !.live = FALSE]
                    [] req[r].at = "unused" -> req[r]
                    [] OTHER -> [req[r] EXCEPT !.live = FALSE, !.at = "over"]
    BY DEF K!Reload
  <2>2. "unused" \notin K!ServerPcs
    BY DEF K!ServerPcs, K!TurnPcs
  <2> QED BY <2>1, <2>2
<1>3. DOMAIN req' = K!Requests /\ req' = [r \in K!Requests |-> req'[r]]
  <2> DEFINE F(r) == CASE req[r].at \in K!ServerPcs -> [req[r] EXCEPT !.live = FALSE]
                       [] req[r].at = "unused" -> req[r]
                       [] OTHER -> [req[r] EXCEPT !.live = FALSE, !.at = "over"]
  <2>1. req' = [r \in K!Requests |-> F(r)]
    BY DEF K!Reload
  <2> HIDE DEF F
  <2> QED BY <2>1
<1>4. \A r \in K!Requests :
         /\ req'[r] \in ReqTypes
         /\ req'[r].key = req[r].key /\ req'[r].chat = req[r].chat
         /\ req'[r].at = req[r].at \/ (req[r].at \notin K!ServerPcs \cup {"unused"} /\ req'[r].at = "over")
         /\ req'[r].at \in K!ServerPcs \cup {"unused", "over"}
         /\ req'[r].at # "unused" => ~ req'[r].live
  <2> TAKE r \in K!Requests
  <2>1. req[r] \in ReqTypes
    BY DEF ChatInv, ChatTypes
  <2>2. CASE req[r].at \in K!ServerPcs /\ req'[r] = [req[r] EXCEPT !.live = FALSE]
    BY <2>1, <2>2 DEF ReqTypes
  <2>3. CASE req[r].at = "unused" /\ req'[r] = req[r]
    BY <2>1, <2>3
  <2>4. CASE req[r].at \notin K!ServerPcs \cup {"unused"} /\ req'[r] = [req[r] EXCEPT !.live = FALSE, !.at = "over"]
    BY <2>1, <2>4 DEF ReqTypes, ReqPcs
  <2> QED BY <1>2, <2>2, <2>3, <2>4
<1>5. ChatTypes'
  <2>1. req' \in [K!Requests -> ReqTypes]
    BY <1>3, <1>4
  <2>2. ui' \in [K!Keys -> Looks]
    BY <1>1 DEF Looks
  <2> QED BY <1>1, <2>1, <2>2 DEF ChatInv, ChatTypes
<1>6. \A r \in K!Requests : ~ Active(r)'
  BY <1>4 DEF Active
<1>7. Addressed'
  <2>1. \A r \in K!Requests : req'[r].at \notin {"created", "completed", "failed"}
    BY <1>4 DEF K!ServerPcs, K!TurnPcs
  <2>2. \A r \in K!Requests : /\ req'[r].at # "unused" => req[r].at # "unused"
                              /\ req'[r].at = "creating" => req[r].at = "creating"
    BY <1>4
  <2> QED BY <1>4, <1>6, <2>1, <2>2 DEF ChatInv, Addressed
<1>8. Noted'
  BY <1>6 DEF Noted
<1>9. LockedForOne'
  BY <1>1, KeysFacts DEF LockedForOne, K!NoneAssumption
<1>10. K!LockedByCutOff'
  <2>1. \A r \in K!Requests : req[r].at \in K!TurnPcs => req'[r].at \in K!TurnPcs
    BY <1>4, TurnIsServer
  <2> QED BY <1>1, <1>4, <2>1 DEF ChatInv, K!LockedByCutOff, K!Running
<1> QED BY <1>5, <1>7, <1>8, <1>9, <1>10 DEF ChatInv

-----------------------------------------------------------------------------
(* The server.                                                              *)

LEMMA ReplyFacts ==
    ASSUME NEW r, NEW to, K!Reply(r, to)
    PROVE  \/ K!Go(r, to) /\ req[r].live
           \/ K!Go(r, "over") /\ ~ req[r].live
BY DEF K!Reply

(* What a step of the server leaves of the page.                            *)
LEMMA ServerStep ==
    ASSUME ChatInv, NEW r \in K!Requests, NEW to \in ReqPcs, K!Go(r, to),
           UNCHANGED <<surface, ui, actions, loads>>,
           row' \in [K!Chats -> BOOLEAN \cup {None}],
           req[r].at \in K!ServerPcs,
           to \notin {"unused", "creating"}, to = "created" => req[r].at = "creating",
           to = "over" => ~ req[r].live,
           to \in {"created", "completed", "failed"} => req[r].live,
           req[r].at = "creating" => to \in {"created", "failed", "over"},
           \/ \A c \in K!Chats : row'[c] = TRUE => row[c] = TRUE
           \/ /\ to \in K!TurnPcs
              /\ \A c \in K!Chats : row'[c] = TRUE => row[c] = TRUE \/ c = req[r].chat,
           req[r].at \in K!TurnPcs =>
              to \in K!TurnPcs \/ row'[req[r].chat] # TRUE \/ req[r].chat \in hurt',
           hurt \subseteq hurt'
    PROVE  ChatInv'
<1>1. req[r].at \notin {"unused", "created", "completed", "failed", "over"}
  BY DEF K!ServerPcs, K!TurnPcs
<1>2. ChatTypes' /\ Addressed' /\ Noted' /\ LockedForOne'
  BY <1>1, GoesOn
<1>3. PICK e \in ReqTypes :
              /\ Reaches(r, e) /\ e.at = to
              /\ e.from = req[r].from /\ e.key = req[r].key /\ e.chat = req[r].chat /\ e.live = req[r].live
  BY ChatGoFacts DEF ChatInv
<1>4. req'[r] = e /\ \A q \in K!Requests : q # r => req'[q] = req[q]
  BY <1>3, ReachesFacts DEF ChatInv
<1>5. K!LockedByCutOff'
  <2> SUFFICES ASSUME NEW c \in K!Chats, row'[c] = TRUE, c \notin hurt'
               PROVE  \E q \in K!Requests : req'[q].chat = c /\ req'[q].at \in K!TurnPcs
    BY DEF K!LockedByCutOff, K!Running
  <2>1. CASE to \in K!TurnPcs /\ c = req[r].chat
    BY <2>1, <1>3, <1>4
  <2>2. CASE ~ (to \in K!TurnPcs /\ c = req[r].chat)
    <3>1. row[c] = TRUE /\ c \notin hurt
      BY <2>2
    <3>2. PICK q \in K!Requests : req[q].chat = c /\ req[q].at \in K!TurnPcs
      BY <3>1 DEF ChatInv, K!LockedByCutOff, K!Running
    <3>3. q # r
      BY <2>2, <3>2
    <3> QED BY <3>2, <3>3, <1>4
  <2> QED BY <2>1, <2>2
<1> QED BY <1>2, <1>5 DEF ChatInv

LEMMA CreateInv ==
    ASSUME K!BoundsAssumption, K!NoneAssumption, ChatInv, NEW r \in K!Requests, K!Create(r)
    PROVE  ChatInv'
<1>1. req[r].at = "creating" /\ UNCHANGED <<surface, ui, actions, loads, hurt>>
  BY DEF K!Create, K!page
<1>2. row' = row \/ row' = [row EXCEPT ![r] = FALSE]
  BY DEF K!Create
<1>3. /\ row' \in [K!Chats -> BOOLEAN \cup {None}]
      /\ \A c \in K!Chats : row'[c] = TRUE => row[c] = TRUE
  BY <1>2, KeysFacts DEF ChatInv, ChatTypes
<1>4. K!Reply(r, "created") \/ K!Reply(r, "failed")
  BY DEF K!Create
<1>5. \E to \in {"created", "failed", "over"} :
          K!Go(r, to) /\ (to = "over" => ~ req[r].live) /\ (to \in {"created", "failed"} => req[r].live)
  BY <1>4, ReplyFacts
<1>6. /\ {"created", "failed", "over"} \subseteq ReqPcs /\ req[r].at \in K!ServerPcs
      /\ req[r].at \notin K!TurnPcs
  BY <1>1 DEF ReqPcs, K!ServerPcs, K!TurnPcs
<1> QED BY <1>1, <1>3, <1>5, <1>6, ServerStep

LEMMA CheckInv ==
    ASSUME K!BoundsAssumption, K!NoneAssumption, ChatInv, NEW r \in K!Requests, K!Check(r)
    PROVE  ChatInv'
<1>1. req[r].at = "arrived" /\ UNCHANGED <<surface, ui, actions, loads, row, hurt>>
  BY DEF K!Check, K!page, K!store
<1>2. K!Go(r, "checked") \/ K!Reply(r, "failed")
  BY DEF K!Check
<1>3. \E to \in {"checked", "failed", "over"} :
          K!Go(r, to) /\ (to = "over" => ~ req[r].live) /\ (to = "failed" => req[r].live)
  BY <1>2, ReplyFacts
<1>4. /\ {"checked", "failed", "over"} \subseteq ReqPcs /\ req[r].at \in K!ServerPcs
      /\ req[r].at \notin K!TurnPcs
  BY <1>1 DEF ReqPcs, K!ServerPcs, K!TurnPcs
<1>5. row' \in [K!Chats -> BOOLEAN \cup {None}] /\ hurt \subseteq hurt'
  BY <1>1 DEF ChatInv, ChatTypes
<1> QED BY <1>1, <1>3, <1>4, <1>5, ServerStep

LEMMA ReadRowInv ==
    ASSUME K!BoundsAssumption, K!NoneAssumption, ChatInv, NEW l \in loads, K!ReadRow(l)
    PROVE  ChatInv'
<1> DEFINE m == [l EXCEPT !.at = "read", !.running = K!Running(l.chat)]
<1>1. UNCHANGED <<surface, ui, actions, req, row, hurt>>
  BY DEF K!ReadRow, K!page, K!store
<1>2. loads' = (loads \ {l}) \cup (IF K!There(l.chat) THEN {m} ELSE {})
  BY DEF K!ReadRow
<1>3. m.chat = l.chat
  OBVIOUS
<1> HIDE DEF m
<1>4. \A n \in loads' : n.chat \in K!Chats
  BY <1>2, <1>3 DEF ChatInv, ChatTypes
<1>5. surface \in K!Keys \cup {None} /\ ui \in [K!Keys -> Looks]
  BY DEF ChatInv, ChatTypes
<1> QED BY <1>1, <1>4, <1>5, OnlyLooks

LEMMA RowsGo ==
    ASSUME ChatInv, UNCHANGED <<ui, actions, req, loads, hurt>>,
           surface' \in {surface, None},
           row' \in [K!Chats -> BOOLEAN \cup {None}],
           \A c \in K!Chats : row'[c] = TRUE => row[c] = TRUE
    PROVE  ChatInv'
<1>1. ChatTypes'
  BY DEF ChatInv, ChatTypes
<1>2. Addressed' /\ Noted' /\ LockedForOne'
  BY DEF ChatInv, Addressed, Noted, LockedForOne, Active
<1>3. K!LockedByCutOff'
  BY DEF ChatInv, K!LockedByCutOff, K!Running
<1> QED BY <1>1, <1>2, <1>3 DEF ChatInv

LEMMA DeletionsInv ==
    ASSUME K!BoundsAssumption, K!NoneAssumption, ChatInv,
           (\E c \in K!Chats : K!DeleteCheck(c) \/ K!Delete(c)) \/ K!DeleteFolder
    PROVE  ChatInv'
<1>0. row \in [K!Chats -> BOOLEAN \cup {None}] /\ None # TRUE
  BY DEF ChatInv, ChatTypes, K!NoneAssumption
<1>1. ASSUME NEW c \in K!Chats, K!DeleteCheck(c) PROVE ChatInv'
  BY <1>0, <1>1, RowsGo DEF K!DeleteCheck, K!page
<1>2. ASSUME NEW c \in K!Chats, K!Delete(c) PROVE ChatInv'
  <2>1. row' = [row EXCEPT ![c] = None] /\ surface' \in {surface, None} /\ UNCHANGED <<ui, actions, req, loads, hurt>>
    BY <1>2 DEF K!Delete
  <2>2. /\ row' \in [K!Chats -> BOOLEAN \cup {None}]
        /\ \A d \in K!Chats : row'[d] = TRUE => row[d] = TRUE
    BY <1>0, <2>1
  <2> QED BY <2>1, <2>2, RowsGo
<1>3. CASE K!DeleteFolder
  <2>1. row' = [c \in K!Chats |-> None] /\ surface' \in {surface, None} /\ UNCHANGED <<ui, actions, req, loads, hurt>>
    BY <1>3 DEF K!DeleteFolder
  <2>2. /\ row' \in [K!Chats -> BOOLEAN \cup {None}]
        /\ \A d \in K!Chats : row'[d] = TRUE => row[d] = TRUE
    BY <1>0, <2>1
  <2> QED BY <2>1, <2>2, RowsGo
<1> QED BY <1>1, <1>2, <1>3

(* The turn.                                                                *)
LEMMA StartInv ==
    ASSUME K!BoundsAssumption, K!NoneAssumption, ChatInv, NEW r \in K!Requests, K!Start(r)
    PROVE  ChatInv'
<1>1. req[r].at = "checked" /\ UNCHANGED <<surface, ui, actions, loads, hurt>>
  BY DEF K!Start, K!page
<1>2. /\ {"started", "failed", "over"} \subseteq ReqPcs /\ req[r].at \in K!ServerPcs
      /\ req[r].at \notin K!TurnPcs /\ "started" \in K!TurnPcs
  BY <1>1 DEF ReqPcs, K!ServerPcs, K!TurnPcs
<1>3. CASE row' = [row EXCEPT ![req[r].chat] = TRUE] /\ K!Go(r, "started")
  <2>1. /\ row' \in [K!Chats -> BOOLEAN \cup {None}]
        /\ \A c \in K!Chats : row'[c] = TRUE => row[c] = TRUE \/ c = req[r].chat
    BY <1>3 DEF ChatInv, ChatTypes
  <2> QED BY <1>1, <1>2, <1>3, <2>1, ServerStep
<1>4. CASE K!Reply(r, "failed") /\ row' = row
  <2>1. \E to \in {"failed", "over"} :
          K!Go(r, to) /\ (to = "over" => ~ req[r].live) /\ (to = "failed" => req[r].live)
    BY <1>4, ReplyFacts
  <2>2. row' \in [K!Chats -> BOOLEAN \cup {None}]
    BY <1>4 DEF ChatInv, ChatTypes
  <2> QED BY <1>1, <1>2, <1>4, <2>1, <2>2, ServerStep
<1> QED BY <1>3, <1>4 DEF K!Start

(* A turn that goes on to another state of it.                              *)
LEMMA TurnGoes ==
    ASSUME ChatInv, NEW r \in K!Requests, NEW to \in K!TurnPcs, K!Go(r, to), req[r].at \in K!TurnPcs,
           UNCHANGED <<surface, ui, actions, loads, row, hurt>>
    PROVE  ChatInv'
<1>1. /\ to \in ReqPcs /\ req[r].at \in K!ServerPcs /\ req[r].at # "creating"
      /\ to \notin {"unused", "creating", "created", "completed", "failed", "over"}
  BY TurnIsServer DEF K!TurnPcs
<1>2. row' \in [K!Chats -> BOOLEAN \cup {None}]
  BY DEF ChatInv, ChatTypes
<1> QED BY <1>1, <1>2, ServerStep

(* A turn that leaves with its chat free, or cut off.                       *)
LEMMA TurnLeaves ==
    ASSUME ChatInv, NEW r \in K!Requests, NEW to \in {"reading", "completed", "failed", "over"}, K!Go(r, to),
           to = "over" => ~ req[r].live, to \in {"completed", "failed"} => req[r].live,
           req[r].at \in K!TurnPcs \cup {"reading"},
           UNCHANGED <<surface, ui, actions, loads>>,
           row' = row \/ row' = [row EXCEPT ![req[r].chat] = FALSE],
           hurt \subseteq hurt',
           req[r].at \in K!TurnPcs => row' # row \/ req[r].chat \in hurt' \/ row[req[r].chat] # TRUE
    PROVE  ChatInv'
<1>1. /\ to \in ReqPcs /\ to \notin {"unused", "creating", "created"}
      /\ req[r].at \in K!ServerPcs /\ req[r].at # "creating"
  BY DEF ReqPcs, K!ServerPcs, K!TurnPcs
<1>2. req[r].chat \in K!Chats
  BY DEF ChatInv, Addressed, K!TurnPcs
<1>3. /\ row' \in [K!Chats -> BOOLEAN \cup {None}]
      /\ \A c \in K!Chats : row'[c] = TRUE => row[c] = TRUE
      /\ row' # row => row'[req[r].chat] # TRUE
  BY <1>2 DEF ChatInv, ChatTypes
<1> QED BY <1>1, <1>3, ServerStep

LEMMA CutOffInv ==
    ASSUME ChatInv, NEW r \in K!Requests, K!CutOff(r), req[r].at \in K!TurnPcs,
           UNCHANGED <<surface, ui, actions, loads>>
    PROVE  ChatInv'
<1>1. \E to \in {"failed", "over"} :
          K!Go(r, to) /\ (to = "over" => ~ req[r].live) /\ (to = "failed" => req[r].live)
  BY ReplyFacts DEF K!CutOff
<1>2. row' = row /\ hurt \subseteq hurt' /\ req[r].chat \in hurt'
  BY DEF K!CutOff
<1> QED BY <1>1, <1>2, TurnLeaves

LEMMA EndsInv ==
    ASSUME ChatInv, NEW r \in K!Requests, req[r].at \in K!TurnPcs,
           row' = [row EXCEPT ![req[r].chat] = FALSE], UNCHANGED <<surface, ui, actions, loads, hurt>>,
           NEW to \in {"reading", "failed", "over"}, K!Go(r, to),
           to = "over" => ~ req[r].live, to = "failed" => req[r].live
    PROVE  ChatInv'
<1>1. row' = row => row[req[r].chat] # TRUE
  <2>1. req[r].chat \in K!Chats
    BY DEF ChatInv, Addressed, K!TurnPcs
  <2> QED BY <2>1 DEF ChatInv, ChatTypes
<1> QED BY <1>1, TurnLeaves

LEMMA TurnInv ==
    ASSUME K!BoundsAssumption, K!NoneAssumption, ChatInv, NEW r \in K!Requests, K!Turn(r)
    PROVE  ChatInv'
<1>1. CASE K!Start(r)
  BY <1>1, StartInv
<1>2. CASE K!Input(r)
  <2>1. req[r].at \in K!TurnPcs /\ UNCHANGED <<surface, ui, actions, loads>> /\ "looping" \in K!TurnPcs
    BY <1>2 DEF K!Input, K!page, K!TurnPcs
  <2>2. (K!Go(r, "looping") /\ UNCHANGED <<row, hurt>>) \/ K!CutOff(r)
    BY <1>2 DEF K!Input
  <2> QED BY <2>1, <2>2, TurnGoes, CutOffInv
<1>3. CASE K!Answer(r)
  <2>1. /\ req[r].at \in K!TurnPcs /\ {"ending", "failing"} \subseteq K!TurnPcs
        /\ UNCHANGED <<surface, ui, actions, loads, row, hurt>>
    BY <1>3 DEF K!Answer, K!page, K!store, K!TurnPcs
  <2>2. K!Go(r, "ending") \/ K!Go(r, "failing")
    BY <1>3 DEF K!Answer
  <2> QED BY <2>1, <2>2, TurnGoes
<1>4. CASE K!End(r)
  <2>1. /\ req[r].at \in K!TurnPcs /\ "failing" \in K!TurnPcs
        /\ UNCHANGED <<surface, ui, actions, loads, hurt>>
    BY <1>4 DEF K!End, K!page, K!TurnPcs
  <2>2. \/ row' = [row EXCEPT ![req[r].chat] = FALSE] /\ K!Go(r, "reading")
        \/ K!Go(r, "failing") /\ row' = row
    BY <1>4 DEF K!End
  <2> QED BY <2>1, <2>2, TurnGoes, EndsInv
<1>5. CASE K!RecordError(r)
  <2>1. req[r].at \in K!TurnPcs /\ UNCHANGED <<surface, ui, actions, loads>> /\ "failEnding" \in K!TurnPcs
    BY <1>5 DEF K!RecordError, K!page, K!TurnPcs
  <2>2. (K!Go(r, "failEnding") /\ UNCHANGED <<row, hurt>>) \/ K!CutOff(r)
    BY <1>5 DEF K!RecordError
  <2> QED BY <2>1, <2>2, TurnGoes, CutOffInv
<1>6. CASE K!FailEnd(r)
  <2>1. req[r].at \in K!TurnPcs /\ UNCHANGED <<surface, ui, actions, loads>>
    BY <1>6 DEF K!FailEnd, K!page, K!TurnPcs
  <2>2. \/ row' = [row EXCEPT ![req[r].chat] = FALSE] /\ K!Reply(r, "failed") /\ UNCHANGED hurt
        \/ K!CutOff(r)
    BY <1>6 DEF K!FailEnd
  <2>3. K!Reply(r, "failed") => \E to \in {"failed", "over"} :
          K!Go(r, to) /\ (to = "over" => ~ req[r].live) /\ (to = "failed" => req[r].live)
    BY ReplyFacts
  <2> QED BY <2>1, <2>2, <2>3, EndsInv, CutOffInv
<1>7. CASE K!Read(r)
  <2>1. /\ req[r].at = "reading" /\ req[r].at \notin K!TurnPcs
        /\ UNCHANGED <<surface, ui, actions, loads, row, hurt>>
    BY <1>7 DEF K!Read, K!page, K!store, K!TurnPcs
  <2>2. K!Reply(r, "completed") \/ K!Reply(r, "failed")
    BY <1>7 DEF K!Read
  <2>3. \E to \in {"completed", "failed", "over"} :
          K!Go(r, to) /\ (to = "over" => ~ req[r].live) /\ (to \in {"completed", "failed"} => req[r].live)
    BY <2>2, ReplyFacts
  <2> QED BY <2>1, <2>3, TurnLeaves
<1> QED BY <1>1, <1>2, <1>3, <1>4, <1>5, <1>6, <1>7 DEF K!Turn

LEMMA CrashInv ==
    ASSUME K!BoundsAssumption, K!NoneAssumption, ChatInv, K!Crash
    PROVE  ChatInv'
<1> DEFINE F(r) == IF req[r].at \in K!ServerPcs
                   THEN [req[r] EXCEPT !.at = IF req[r].live THEN "failed" ELSE "over"] ELSE req[r]
<1>1. /\ UNCHANGED <<surface, ui, actions, row>> /\ \A l \in loads' : l \in loads
      /\ hurt \subseteq hurt'
      /\ \A q \in K!Requests : req[q].at \in K!TurnPcs => req[q].chat \in hurt'
  BY DEF K!Crash, K!page
<1>2. req' = [r \in K!Requests |-> F(r)]
  BY DEF K!Crash
<1>3. \A r \in K!Requests :
         /\ F(r) \in ReqTypes
         /\ F(r).from = req[r].from /\ F(r).key = req[r].key /\ F(r).chat = req[r].chat /\ F(r).live = req[r].live
         /\ \/ req[r].at \in K!ServerPcs /\ F(r).at = "failed" /\ req[r].live
            \/ req[r].at \in K!ServerPcs /\ F(r).at = "over" /\ ~ req[r].live
            \/ req[r].at \notin K!ServerPcs /\ F(r).at = req[r].at
  <2> TAKE r \in K!Requests
  <2>1. req[r] \in ReqTypes
    BY DEF ChatInv, ChatTypes
  <2>2. CASE req[r].at \in K!ServerPcs /\ req[r].live
    <3>1. F(r) = [req[r] EXCEPT !.at = "failed"]
      BY <2>2
    <3> HIDE DEF F
    <3> QED BY <2>1, <2>2, <3>1 DEF ReqTypes, ReqPcs
  <2>3. CASE req[r].at \in K!ServerPcs /\ ~ req[r].live
    <3>1. F(r) = [req[r] EXCEPT !.at = "over"]
      BY <2>3
    <3> HIDE DEF F
    <3> QED BY <2>1, <2>3, <3>1 DEF ReqTypes, ReqPcs
  <2>4. CASE req[r].at \notin K!ServerPcs
    BY <2>1, <2>4
  <2> QED BY <2>2, <2>3, <2>4
<1> HIDE DEF F
<1>4. ChatTypes'
  BY <1>1, <1>2, <1>3 DEF ChatInv, ChatTypes
<1>5. \A r \in K!Requests :
         /\ req'[r].from = req[r].from /\ req'[r].key = req[r].key /\ req'[r].chat = req[r].chat /\ req'[r].live = req[r].live
         /\ \/ req[r].at \in K!ServerPcs /\ req'[r].at = "failed" /\ req[r].live
            \/ req[r].at \in K!ServerPcs /\ req'[r].at = "over" /\ ~ req[r].live
            \/ req[r].at \notin K!ServerPcs /\ req'[r].at = req[r].at
  BY <1>2, <1>3
<1>6. \A r \in K!Requests : Active(r)' <=> Active(r)
  BY <1>5 DEF Active, K!ServerPcs, K!TurnPcs
<1>7. Addressed'
  <2>1. "unused" \notin K!ServerPcs
    BY DEF K!ServerPcs, K!TurnPcs
  <2>2. \A r \in K!Requests : req'[r].at = "over" => ~ Active(r)'
    BY DEF Active
  <2>3. \A r \in K!Requests :
           /\ req[r].at # "unused" => req[r].chat \in K!Chats /\ req[r].key \in K!Keys
           /\ req[r].at \in {"created", "completed", "failed"} => req[r].live
           /\ req[r].at \in {"creating", "created"} => req[r].chat = r /\ req[r].key = K!Draft
           /\ Active(r) /\ req[r].at \notin {"creating", "created", "failed"} => req[r].key = req[r].chat
    BY DEF ChatInv, Addressed
  <2> QED BY <1>5, <1>6, <2>1, <2>2, <2>3 DEF Addressed
<1>8. Noted' /\ LockedForOne'
  BY <1>1, <1>5, <1>6 DEF ChatInv, Noted, LockedForOne
<1>9. K!LockedByCutOff'
  BY <1>1, <1>5, TurnIsServer DEF ChatInv, K!LockedByCutOff, K!Running
<1> QED BY <1>4, <1>7, <1>8, <1>9 DEF ChatInv

LEMMA ChatStepInv ==
    ASSUME K!BoundsAssumption, K!NoneAssumption
    PROVE  ChatInv /\ [K!Next]_(K!vars) => ChatInv'
<1> SUFFICES ASSUME ChatInv, [K!Next]_(K!vars) PROVE ChatInv'
  OBVIOUS
<1>1. CASE UNCHANGED K!vars
  <2>1. UNCHANGED <<surface, ui, actions, req, loads, row, hurt>>
    BY <1>1 DEF K!vars, K!page, K!store
  <2>2. surface \in K!Keys \cup {None} /\ ui \in [K!Keys -> Looks] /\ \A l \in loads : l.chat \in K!Chats
    BY DEF ChatInv, ChatTypes
  <2> QED BY <2>1, <2>2, OnlyLooks
<1>2. ASSUME NEW k \in K!Keys \cup {None}, K!Navigate(k) PROVE ChatInv'
  BY <1>2, NavigateInv
<1>3. ASSUME NEW r \in K!Requests, K!Submit(r) \/ K!Created(r) \/ K!Progress(r) \/ K!Completed(r) \/ K!Failed(r)
      PROVE  ChatInv'
  BY <1>3, ChatSubmitInv, CreatedInv, ProgressInv, CompletedInv, FailedInv
<1>4. ASSUME NEW l \in loads, K!Loaded(l) \/ K!ReadRow(l) PROVE ChatInv'
  BY <1>4, LoadedInv, ReadRowInv
<1>5. ASSUME NEW r \in K!Requests, K!Create(r) \/ K!Check(r) \/ K!Turn(r) PROVE ChatInv'
  BY <1>5, CreateInv, CheckInv, TurnInv
<1>6. CASE (\E c \in K!Chats : K!DeleteCheck(c) \/ K!Delete(c)) \/ K!DeleteFolder
  BY <1>6, DeletionsInv
<1>7. CASE K!Reload
  BY <1>7, ReloadInv
<1>8. CASE K!Crash
  BY <1>8, CrashInv
<1> QED BY <1>1, <1>2, <1>3, <1>4, <1>5, <1>6, <1>7, <1>8 DEF K!Next

(* submitChat, runChatSessionTurn and the handlers between them: whatever   *)
(* the order of reloads, loads, deletions, errors and crashes, a chat is    *)
(* locked on the page only while a submission from it, or from the draft it *)
(* was created from, is under way, and a row says that it runs only while a *)
(* turn does, or after one was cut off outside its try block.               *)
THEOREM ChatsSetFree ==
    ASSUME K!BoundsAssumption, K!NoneAssumption
    PROVE  K!Spec => []ChatsFree
<1>1. K!Init => ChatInv
  BY ChatInitInv
<1>2. ChatInv /\ [K!Next]_(K!vars) => ChatInv'
  BY ChatStepInv
<1>3. ChatInv => ChatsFree
  <2> SUFFICES ASSUME ChatInv, actions = {}, NEW c \in K!Chats, ui[c] = "sent" PROVE FALSE
    BY DEF ChatsFree, K!ChatsFree, ChatInv
  <2>1. PICK r \in K!Requests : Active(r) /\ req[r].key = c
    BY DEF ChatInv, LockedForOne
  <2> QED BY <2>1 DEF ChatInv, Noted
<1> QED BY <1>1, <1>2, <1>3, PTL DEF K!Spec

-----------------------------------------------------------------------------
(* The hooks of a turn.                                                     *)

Executors == {"thinking", "skills", "limit", "rewriter", "reminder", "images", "audit", "guard", "loop",
              "search", "usage", "cot", "queue", "user"}
TurnFields == {"text", "messages", "tools", "calls", "results", "final", "iter", "queued", "claimed",
               "next", "row", "answered", "stopped"}
Between == {"loading", "refused", "broken", "over"}

HookTypes ==
    /\ event \in H2!Events \cup Between
    /\ DOMAIN turn = TurnFields
    /\ turn.text \in H2!Texts
    /\ effects \in Nat
    /\ todo \in Seq(Executors)
    /\ todo # << >> => event \in H2!Events
    /\ event \in H2!Events => seen.text \in H2!Texts

(* How many executors of the event have run, or were left out by a stop.    *)
Behind == Len(H2!Plan(event)) - Len(todo)

(* What is still to run is the rest of the plan.                            *)
RestOfPlan ==
    event \in H2!Events =>
        /\ Len(todo) <= Len(H2!Plan(event))
        /\ \A i \in 1..Len(todo) : todo[i] = H2!Plan(event)[i + Behind]

(* The effects so far put on the turn give what the next executor is shown. *)
ShownAsMerged ==
    event \in H2!Events =>
        /\ H2!Or(effect.text, turn.text) = seen.text
        /\ H2!Or(effect.tools, turn.tools) = seen.tools
        /\ H2!Or(effect.calls, turn.calls) = seen.calls
        /\ H2!Or(effect.results, turn.results) = seen.results
        /\ effect.final = seen.final
        /\ effect.stop => todo = << >>

(* A marker is gone once its hook has run, and the row is made after that.  *)
Unmarked ==
    /\ event = "received" =>
          /\ Behind >= 1 => "thinking" \notin seen.text.marks
          /\ Behind >= 4 => "rewriter" \notin seen.text.marks \/ effect.stop
    /\ turn.row # None =>
          /\ "thinking" \notin turn.row.marks
          /\ "rewriter" \in turn.row.marks => turn.stopped /\ event \in {"end", "over"}

(* Nobody asks for another turn before the queue does.                      *)
QueueFirst ==
    /\ event = "end" /\ Behind <= 4 => effect.next = None
    /\ turn.claimed => \/ event = "end" /\ effect.next = H2!Item
                       \/ event = "over" /\ turn.next = H2!Item

HookInv == HookTypes /\ RestOfPlan /\ ShownAsMerged /\ Unmarked /\ QueueFirst

LEMMA PlanFacts ==
    ASSUME H2!LimitsAssumption
    PROVE  /\ H2!Events = {"received", "prepared", "request", "responding", "called", "collected", "end"}
           /\ \A e \in H2!Events : H2!Plan(e) \in Seq(Executors)
           /\ Len(H2!Plan("received")) >= 4
           /\ H2!Plan("received")[1] = "thinking" /\ H2!Plan("received")[4] = "rewriter"
           /\ Len(H2!Plan("end")) >= 5
           /\ \A i \in 1..4 : H2!Plan("end")[i] \notin {"user", "queue"}
           /\ \A e \in H2!Events : \A i \in 1..Len(H2!Plan(e)) :
                 H2!Plan(e)[i] = "queue" => e = "end" /\ i = 5
<1>0. H2!Events = {"received", "prepared", "request", "responding", "called", "collected", "end"}
  BY DEF H2!Events, H2!SystemPlan
<1>1. UserHooks \in Nat
  BY DEF H2!LimitsAssumption
<1>2. /\ H2!UserPlan \in Seq(Executors) /\ Len(H2!UserPlan) = UserHooks
      /\ \A i \in 1..UserHooks : H2!UserPlan[i] = "user"
  <2>1. PICK u : u = [i \in 1..UserHooks |-> "user"]
    OBVIOUS
  <2>2. u \in [1..UserHooks -> Executors]
    <3>1. "user" \in Executors
      BY DEF Executors
    <3> QED BY <2>1, <3>1
  <2>3. u \in Seq(Executors)
    BY <1>1, <2>2, SeqDef
  <2>4. Len(u) = UserHooks
    <3>1. DOMAIN u = 1..UserHooks
      BY <2>2
    <3>2. Len(u) \in Nat /\ DOMAIN u = 1..Len(u)
      BY <2>3, LenProperties
    <3> QED BY <1>1, <3>1, <3>2
  <2> QED BY <2>1, <2>3, <2>4 DEF H2!UserPlan
<1>3. /\ H2!SystemPlan["received"] = <<"thinking", "skills", "limit", "rewriter">>
      /\ H2!SystemPlan["prepared"] = <<"reminder", "images">>
      /\ H2!SystemPlan["request"] = <<"audit">>
      /\ H2!SystemPlan["responding"] = <<"guard">>
      /\ H2!SystemPlan["called"] = << >>
      /\ H2!SystemPlan["collected"] = <<"loop">>
      /\ H2!SystemPlan["end"] = <<"search", "search", "usage", "cot", "queue">>
  BY DEF H2!SystemPlan
<1>4. \A e \in H2!Events : /\ H2!SystemPlan[e] \in Seq(Executors)
                           /\ \A i \in 1..Len(H2!SystemPlan[e]) : H2!SystemPlan[e][i] = "queue" => e = "end" /\ i = 5
  <2>1. \A e \in H2!Events : H2!SystemPlan[e] \in Seq(Executors)
    <3>1. H2!SystemPlan["received"] \in Seq(Executors) /\ H2!SystemPlan["prepared"] \in Seq(Executors)
      <4>1. <<"thinking", "skills", "limit", "rewriter">> \in Seq(Executors) /\ <<"reminder", "images">> \in Seq(Executors)
        BY DEF Executors
      <4> QED BY <1>3, <4>1
    <3>2. H2!SystemPlan["request"] \in Seq(Executors) /\ H2!SystemPlan["responding"] \in Seq(Executors)
          /\ H2!SystemPlan["collected"] \in Seq(Executors)
      <4>1. <<"audit">> \in Seq(Executors) /\ <<"guard">> \in Seq(Executors) /\ <<"loop">> \in Seq(Executors)
        BY DEF Executors
      <4> QED BY <1>3, <4>1
    <3>3. H2!SystemPlan["called"] \in Seq(Executors)
      <4>1. << >> \in Seq(Executors)
        OBVIOUS
      <4> QED BY <1>3, <4>1
    <3>4. H2!SystemPlan["end"] \in Seq(Executors)
      <4>1. <<"search", "search", "usage", "cot", "queue">> \in Seq(Executors)
        BY DEF Executors
      <4> QED BY <1>3, <4>1
    <3> QED BY <1>0, <3>1, <3>2, <3>3, <3>4
  <2>2. ASSUME NEW e \in H2!Events, NEW i \in 1..Len(H2!SystemPlan[e]), H2!SystemPlan[e][i] = "queue"
        PROVE  e = "end" /\ i = 5
    <3>1. CASE e = "received"
      <4>1. i \in 1..4
        BY <2>2, <3>1, <1>3
      <4> QED BY <2>2, <3>1, <4>1, <1>3
    <3>2. CASE e = "prepared"
      <4>1. i \in 1..2
        BY <2>2, <3>2, <1>3
      <4> QED BY <2>2, <3>2, <4>1, <1>3
    <3>3. CASE e \in {"request", "responding", "collected"}
      <4>1. i \in 1..1
        BY <2>2, <3>3, <1>3
      <4> QED BY <2>2, <3>3, <4>1, <1>3
    <3>4. CASE e = "called"
      BY <2>2, <3>4, <1>3
    <3>5. CASE e = "end"
      <4>1. i \in 1..5
        BY <2>2, <3>5, <1>3
      <4> QED BY <2>2, <3>5, <4>1, <1>3
    <3> QED BY <1>0, <3>1, <3>2, <3>3, <3>4, <3>5
  <2> QED BY <2>1, <2>2
<1>5. \A e \in H2!Events : H2!Plan(e) = H2!SystemPlan[e] \o H2!UserPlan
  BY DEF H2!Plan
<1>6. \A e \in H2!Events :
         /\ H2!Plan(e) \in Seq(Executors) /\ Len(H2!Plan(e)) = Len(H2!SystemPlan[e]) + UserHooks
         /\ \A i \in 1..Len(H2!SystemPlan[e]) : H2!Plan(e)[i] = H2!SystemPlan[e][i]
         /\ \A i \in 1..Len(H2!Plan(e)) : i > Len(H2!SystemPlan[e]) => H2!Plan(e)[i] = "user"
  <2> TAKE e \in H2!Events
  <2>1. PICK s : s = H2!SystemPlan[e]
    OBVIOUS
  <2>2. PICK u : u = H2!UserPlan
    OBVIOUS
  <2>3. s \in Seq(Executors) /\ u \in Seq(Executors) /\ Len(u) = UserHooks /\ \A i \in 1..UserHooks : u[i] = "user"
    BY <2>1, <2>2, <1>2, <1>4
  <2>4. /\ s \o u \in Seq(Executors) /\ Len(s \o u) = Len(s) + UserHooks
        /\ \A i \in 1..Len(s) : (s \o u)[i] = s[i]
        /\ \A i \in 1..Len(s \o u) : i > Len(s) => (s \o u)[i] = u[i - Len(s)] /\ i - Len(s) \in 1..UserHooks
    BY <2>3, <1>1
  <2>5. H2!Plan(e) = s \o u
    BY <2>1, <2>2, <1>5
  <2> QED BY <2>1, <2>3, <2>4, <2>5
<1>7. Len(H2!SystemPlan["received"]) = 4 /\ Len(H2!SystemPlan["end"]) = 5
  BY <1>3
<1>75. "received" \in H2!Events /\ "end" \in H2!Events
  BY <1>0
<1>8. /\ \A e \in H2!Events : H2!Plan(e) \in Seq(Executors)
      /\ Len(H2!Plan("received")) >= 4 /\ Len(H2!Plan("end")) >= 5
  <2>1. Len(H2!Plan("received")) = 4 + UserHooks /\ Len(H2!Plan("end")) = 5 + UserHooks
    BY <1>6, <1>7, <1>75
  <2> QED BY <1>1, <1>6, <2>1
<1>9. H2!Plan("received")[1] = "thinking" /\ H2!Plan("received")[4] = "rewriter"
  <2>1. 1 \in 1..4 /\ 4 \in 1..4
    OBVIOUS
  <2>2. H2!Plan("received")[1] = H2!SystemPlan["received"][1] /\ H2!Plan("received")[4] = H2!SystemPlan["received"][4]
    BY <1>6, <1>7, <1>75, <2>1
  <2> QED BY <2>2, <1>3
<1>10. \A i \in 1..4 : H2!Plan("end")[i] \notin {"user", "queue"}
  <2> TAKE i \in 1..4
  <2>1. H2!Plan("end")[i] = H2!SystemPlan["end"][i]
    <3>1. i \in 1..5
      OBVIOUS
    <3> QED BY <1>6, <1>7, <1>75, <3>1
  <2> QED BY <2>1, <1>3
<1>11. \A e \in H2!Events : \A i \in 1..Len(H2!Plan(e)) :
                 H2!Plan(e)[i] = "queue" => e = "end" /\ i = 5
  <2> TAKE e \in H2!Events
  <2> TAKE i \in 1..Len(H2!Plan(e))
  <2>1. PICK n \in Nat : n = Len(H2!SystemPlan[e])
    BY <1>4
  <2>2. i <= n => i \in 1..n
    OBVIOUS
  <2> QED BY <2>1, <2>2, <1>4, <1>6
<1> QED BY <1>0, <1>8, <1>9, <1>10, <1>11

(* The next executor is the next of the plan, and then the rest is.         *)
LEMMA NextOfPlan ==
    ASSUME H2!LimitsAssumption, HookInv, NEW hook, H2!Running(hook), event' = event,
           todo' = << >> \/ todo' = Tail(todo)
    PROVE  /\ event \in H2!Events /\ Behind \in Nat /\ Behind + 1 \in 1..Len(H2!Plan(event))
           /\ H2!Plan(event)[Behind + 1] = hook
           /\ todo' \in Seq(Executors) /\ RestOfPlan'
           /\ todo' = Tail(todo) => Behind' = Behind + 1
           /\ todo' = << >> => Behind' = Len(H2!Plan(event))
<1>1. event \in H2!Events /\ todo \in Seq(Executors) /\ todo # << >> /\ todo[1] = hook
  BY DEF H2!Running, HookInv, HookTypes
<1>2. PICK p \in Seq(Executors) : p = H2!Plan(event)
  BY <1>1, PlanFacts
<1>3. /\ Len(todo) \in Nat /\ Len(todo) >= 1 /\ Len(p) \in Nat /\ Len(todo) <= Len(p)
      /\ \A i \in 1..Len(todo) : todo[i] = p[i + (Len(p) - Len(todo))]
  BY <1>1, <1>2 DEF HookInv, RestOfPlan, Behind
<1>4. PICK k \in Nat : k = Len(p) - Len(todo) /\ k + 1 \in 1..Len(p)
  BY <1>3
<1>5. p[k + 1] = hook
  <2>0. 1 \in 1..Len(todo)
    BY <1>3
  <2>1. todo[1] = p[1 + k]
    BY <1>3, <1>4, <2>0
  <2>2. 1 + k = k + 1
    OBVIOUS
  <2> QED BY <2>1, <2>2, <1>1
<1>6. H2!Plan(event)' = p
  BY <1>2 DEF H2!Plan, H2!SystemPlan, H2!UserPlan
<1>7. Behind = k /\ Behind' = Len(p) - Len(todo')
  BY <1>2, <1>4, <1>6 DEF Behind
<1>8. CASE todo' = << >>
  <2>1. Len(todo') = 0
    BY <1>8
  <2>2. RestOfPlan'
    BY <2>1, <1>3, <1>6 DEF RestOfPlan
  <2>3. Behind' = Len(p)
    BY <2>1, <1>3, <1>7
  <2>4. todo' = Tail(todo) => Behind' = Behind + 1
    <3> HAVE todo' = Tail(todo)
    <3>1. Len(todo') = Len(todo) - 1
      BY <1>1
    <3> QED BY <3>1, <1>3, <1>4, <1>7
  <2>5. todo' \in Seq(Executors)
    BY <1>8
  <2> QED BY <1>1, <1>2, <1>4, <1>5, <1>7, <2>2, <2>3, <2>4, <2>5
<1>9. CASE todo' = Tail(todo)
  <2>1. /\ todo' \in Seq(Executors) /\ Len(todo') = Len(todo) - 1
        /\ \A i \in 1..Len(todo') : todo'[i] = todo[i + 1] /\ i + 1 \in 1..Len(todo)
    BY <1>1, <1>9
  <2>2. Behind' = k + 1
    BY <2>1, <1>3, <1>4, <1>7
  <2>3. \A i \in 1..Len(todo') : todo'[i] = p[i + (k + 1)]
    <3> TAKE i \in 1..Len(todo')
    <3>1. todo'[i] = todo[i + 1] /\ i + 1 \in 1..Len(todo)
      BY <2>1
    <3>2. todo[i + 1] = p[(i + 1) + k]
      BY <3>1, <1>3, <1>4
    <3>3. (i + 1) + k = i + (k + 1)
      BY <1>3, <2>1
    <3> QED BY <3>1, <3>2, <3>3
  <2>4. Len(todo') <= Len(p)
    BY <2>1, <1>3
  <2>5. RestOfPlan'
    BY <2>2, <2>3, <2>4, <1>6 DEF RestOfPlan
  <2>6. todo' = << >> => Behind' = Len(p)
    BY <1>3, <1>7
  <2> QED BY <1>1, <1>2, <1>4, <1>5, <1>7, <2>1, <2>2, <2>5, <2>6
<1> QED BY <1>8, <1>9

LEMMA TextsFacts ==
    ASSUME H2!LimitsAssumption, H2!InputsAssumption, H2!NoneAssumption
    PROVE  /\ \A t \in H2!Texts : t # None /\ t.marks \subseteq H2!Marks /\ t.body \in H2!Bodies
           /\ \A m \in SUBSET H2!Marks, b \in H2!Bodies : H2!Text(m, b) \in H2!Texts /\ H2!Text(m, b).marks = m
           /\ None \in H2!Bodies /\ 0 \in H2!Bodies
           /\ \A n \in 1..MaxEffects : n \in H2!Bodies /\ n # None
           /\ H2!Item # None
<1>1. 0 \in 0..MaxEffects /\ \A n \in 1..MaxEffects : n \in 0..MaxEffects /\ n \in Nat
  BY DEF H2!LimitsAssumption
<1> QED BY <1>1 DEF H2!Texts, H2!Bodies, H2!Text, H2!Item, H2!NoneAssumption

LEMMA EffectFacts ==
    /\ H2!NoEffect.text = None /\ H2!NoEffect.tools = None /\ H2!NoEffect.calls = None /\ H2!NoEffect.results = None
    /\ H2!NoEffect.final = None /\ H2!NoEffect.next = None /\ H2!NoEffect.stop = FALSE /\ H2!NoEffect.messages = None
BY DEF H2!NoEffect

(* An executor does what those of its name do.                              *)
Fitting(hook, e) ==
    /\ e.text = None \/ (e.text \in H2!Texts /\ e.text.marks \subseteq seen.text.marks)
    /\ hook = "thinking" => e.text # None /\ "thinking" \notin e.text.marks /\ ~ e.stop
    /\ hook = "rewriter" => e.text # None /\ "rewriter" \notin e.text.marks
    /\ hook \notin {"user", "queue"} => e.next = None

LEMMA RanFacts ==
    ASSUME NEW e, H2!Ran(e)
    PROVE  /\ effect'.text = H2!Or(e.text, effect.text) /\ effect'.tools = H2!Or(e.tools, effect.tools)
           /\ effect'.calls = H2!Or(e.calls, effect.calls) /\ effect'.results = H2!Or(e.results, effect.results)
           /\ effect'.final = H2!Or(e.final, effect.final) /\ effect'.next = H2!Or(effect.next, e.next)
           /\ effect'.stop = (effect.stop \/ e.stop)
           /\ seen'.text = H2!Or(e.text, seen.text) /\ seen'.tools = H2!Or(e.tools, seen.tools)
           /\ seen'.calls = H2!Or(e.calls, seen.calls) /\ seen'.results = H2!Or(e.results, seen.results)
           /\ seen'.final = H2!Or(e.final, seen.final)
           /\ todo' = IF e.stop THEN << >> ELSE Tail(todo)
<1>1. effect' = H2!Merge(effect, e) /\ seen' = H2!Show(seen, e) /\ todo' = IF e.stop THEN << >> ELSE Tail(todo)
  BY DEF H2!Ran
<1>2. /\ H2!Merge(effect, e).text = H2!Or(e.text, effect.text) /\ H2!Merge(effect, e).tools = H2!Or(e.tools, effect.tools)
      /\ H2!Merge(effect, e).calls = H2!Or(e.calls, effect.calls)
      /\ H2!Merge(effect, e).results = H2!Or(e.results, effect.results)
      /\ H2!Merge(effect, e).final = H2!Or(e.final, effect.final) /\ H2!Merge(effect, e).next = H2!Or(effect.next, e.next)
      /\ H2!Merge(effect, e).stop = (effect.stop \/ e.stop)
  BY DEF H2!Merge
<1>3. /\ H2!Show(seen, e).text = H2!Or(e.text, seen.text) /\ H2!Show(seen, e).tools = H2!Or(e.tools, seen.tools)
      /\ H2!Show(seen, e).calls = H2!Or(e.calls, seen.calls) /\ H2!Show(seen, e).results = H2!Or(e.results, seen.results)
      /\ H2!Show(seen, e).final = H2!Or(e.final, seen.final)
  BY DEF H2!Show
<1> QED BY <1>1, <1>2, <1>3

(* One executor ran.                                                        *)
LEMMA RanInv ==
    ASSUME H2!LimitsAssumption, H2!InputsAssumption, H2!NoneAssumption, HookInv,
           NEW hook, H2!Running(hook), NEW e, H2!Ran(e), Fitting(hook, e),
           event' = event, effects' \in Nat,
           \/ turn' = turn /\ (hook = "queue" => e.next = None)
           \/ hook = "queue" /\ turn' = [turn EXCEPT !.claimed = TRUE] /\ e.next = H2!Item
    PROVE  HookInv'
<1>1. /\ effect'.text = H2!Or(e.text, effect.text) /\ effect'.tools = H2!Or(e.tools, effect.tools)
      /\ effect'.calls = H2!Or(e.calls, effect.calls) /\ effect'.results = H2!Or(e.results, effect.results)
      /\ effect'.final = H2!Or(e.final, effect.final) /\ effect'.next = H2!Or(effect.next, e.next)
      /\ effect'.stop = (effect.stop \/ e.stop)
      /\ seen'.text = H2!Or(e.text, seen.text) /\ seen'.tools = H2!Or(e.tools, seen.tools)
      /\ seen'.calls = H2!Or(e.calls, seen.calls) /\ seen'.results = H2!Or(e.results, seen.results)
      /\ seen'.final = H2!Or(e.final, seen.final)
      /\ todo' = IF e.stop THEN << >> ELSE Tail(todo)
  BY RanFacts
<1>2. todo' = << >> \/ todo' = Tail(todo)
  BY <1>1
<1>3. /\ event \in H2!Events /\ Behind \in Nat /\ Behind + 1 \in 1..Len(H2!Plan(event))
      /\ H2!Plan(event)[Behind + 1] = hook
      /\ todo' \in Seq(Executors) /\ RestOfPlan'
      /\ todo' = Tail(todo) => Behind' = Behind + 1
      /\ todo' = << >> => Behind' = Len(H2!Plan(event))
  BY <1>2, NextOfPlan
<1>4. todo # << >> /\ ~ effect.stop
  BY <1>3 DEF H2!Running, HookInv, ShownAsMerged
<1>5. /\ DOMAIN turn' = TurnFields
      /\ turn'.text = turn.text /\ turn'.tools = turn.tools /\ turn'.calls = turn.calls /\ turn'.results = turn.results
      /\ turn'.row = turn.row /\ turn'.stopped = turn.stopped
      /\ turn'.claimed => turn.claimed \/ (hook = "queue" /\ e.next = H2!Item)
  <2>1. DOMAIN turn = TurnFields
    BY DEF HookInv, HookTypes
  <2>2. CASE turn' = turn
    BY <2>1, <2>2
  <2>3. CASE hook = "queue" /\ turn' = [turn EXCEPT !.claimed = TRUE] /\ e.next = H2!Item
    BY <2>1, <2>3 DEF TurnFields
  <2> QED BY <2>2, <2>3
<1>6. seen.text \in H2!Texts /\ seen'.text \in H2!Texts /\ seen'.text.marks \subseteq seen.text.marks
      /\ (hook = "thinking" => "thinking" \notin seen'.text.marks)
      /\ (hook = "rewriter" => "rewriter" \notin seen'.text.marks)
  <2>1. seen.text \in H2!Texts
    BY <1>3 DEF HookInv, HookTypes
  <2> QED BY <1>1, <2>1 DEF Fitting, H2!Or
<1>7. HookTypes'
  BY <1>3, <1>5, <1>6 DEF HookInv, HookTypes
<1>8. ShownAsMerged'
  <2>1. e.stop => todo' = << >>
    BY <1>1
  <2>2. H2!Or(effect'.text, turn'.text) = seen'.text /\ H2!Or(effect'.tools, turn'.tools) = seen'.tools
    BY <1>1, <1>3, <1>5 DEF HookInv, ShownAsMerged, H2!Or
  <2>3. H2!Or(effect'.calls, turn'.calls) = seen'.calls /\ H2!Or(effect'.results, turn'.results) = seen'.results
    BY <1>1, <1>3, <1>5 DEF HookInv, ShownAsMerged, H2!Or
  <2>4. effect'.final = seen'.final /\ (effect'.stop => todo' = << >>)
    BY <1>1, <1>3, <1>4, <2>1 DEF HookInv, ShownAsMerged, H2!Or
  <2> QED BY <2>2, <2>3, <2>4 DEF ShownAsMerged
<1>9. Unmarked'
  <2>1. ASSUME event = "received"
        PROVE  /\ Behind' >= 1 => "thinking" \notin seen'.text.marks
               /\ Behind' >= 4 => "rewriter" \notin seen'.text.marks \/ effect'.stop
    <3>1. /\ Behind = 0 => hook = "thinking"
          /\ Behind = 3 => hook = "rewriter"
      BY <1>3, <2>1, PlanFacts
    <3>2. /\ Behind >= 1 => "thinking" \notin seen.text.marks
          /\ Behind >= 4 => "rewriter" \notin seen.text.marks
      BY <1>4, <2>1 DEF HookInv, Unmarked
    <3>3. "thinking" \notin seen'.text.marks
      BY <1>3, <1>6, <3>1, <3>2
    <3>4. e.stop \/ Behind' = Behind + 1
      BY <1>1, <1>3
    <3>5. e.stop => effect'.stop
      BY <1>1
    <3>6. Behind >= 3 => "rewriter" \notin seen'.text.marks
      BY <1>3, <1>6, <3>1, <3>2
    <3> QED BY <1>3, <3>3, <3>4, <3>5, <3>6
  <2>2. turn'.row # None =>
          /\ "thinking" \notin turn'.row.marks
          /\ "rewriter" \in turn'.row.marks => turn'.stopped /\ event \in {"end", "over"}
    BY <1>5 DEF HookInv, Unmarked
  <2> QED BY <2>1, <2>2 DEF Unmarked
<1>10. QueueFirst'
  <2>1. event = "end" /\ Behind' <= 4 => effect'.next = None
    <3> HAVE event = "end" /\ Behind' <= 4
    <3>1. Len(H2!Plan("end")) >= 5 /\ \A i \in 1..4 : H2!Plan("end")[i] \notin {"user", "queue"}
      BY PlanFacts
    <3>2. ~ (todo' = << >> /\ Behind' = Len(H2!Plan(event))) \/ Len(H2!Plan("end")) <= 4
      OBVIOUS
    <3>3. Len(H2!Plan("end")) \in Nat
      BY PlanFacts, <1>3
    <3>4. Behind' = Behind + 1
      BY <1>2, <1>3, <3>1, <3>2, <3>3
    <3>5. Behind + 1 \in 1..4 /\ Behind <= 4
      BY <1>3, <3>4
    <3>6. hook \notin {"user", "queue"}
      BY <1>3, <3>1, <3>5
    <3>7. effect.next = None /\ e.next = None
      BY <3>5, <3>6 DEF HookInv, QueueFirst, Fitting
    <3> QED BY <1>1, <3>7 DEF H2!Or
  <2>2. turn'.claimed => event = "end" /\ effect'.next = H2!Item
    <3> HAVE turn'.claimed
    <3>1. CASE turn.claimed
      <4>1. event = "end" /\ effect.next = H2!Item
        BY <1>3, <3>1, PlanFacts DEF HookInv, QueueFirst
      <4> QED BY <1>1, <4>1, TextsFacts DEF H2!Or
    <3>2. CASE hook = "queue" /\ e.next = H2!Item
      <4>1. event = "end" /\ Behind + 1 = 5
        BY <1>3, <3>2, PlanFacts
      <4>2. effect.next = None
        BY <1>3, <4>1 DEF HookInv, QueueFirst
      <4> QED BY <1>1, <3>2, <4>1, <4>2, TextsFacts DEF H2!Or
    <3> QED BY <1>5, <3>1, <3>2
  <2> QED BY <2>1, <2>2 DEF QueueFirst
<1> QED BY <1>3, <1>7, <1>8, <1>9, <1>10 DEF HookInv

(* The events one after the other.                                          *)
LEMMA BeginInv ==
    ASSUME H2!LimitsAssumption, H2!InputsAssumption, H2!NoneAssumption,
           NEW e \in H2!Events, NEW t, H2!Begin(e, t), DOMAIN t = TurnFields,
           t.text \in H2!Texts, ~ t.claimed, effects' \in Nat,
           t.row # None => /\ "thinking" \notin t.row.marks
                           /\ "rewriter" \in t.row.marks => t.stopped /\ e = "end"
    PROVE  HookInv'
<1>1. event' = e /\ turn' = t /\ todo' = H2!Plan(e) /\ effect' = H2!NoEffect
  BY DEF H2!Begin
<1>2. /\ seen'.text = t.text /\ seen'.tools = t.tools /\ seen'.calls = t.calls /\ seen'.results = t.results
      /\ seen'.final = None
  <2>1. seen' = [H2!NoContext EXCEPT !.text = t.text, !.messages = t.messages, !.tools = t.tools,
                                     !.calls = t.calls, !.results = t.results]
    BY DEF H2!Begin
  <2> QED BY <2>1 DEF H2!NoContext
<1>3. H2!Plan(e) \in Seq(Executors)
  BY PlanFacts
<1>4. PICK p \in Seq(Executors) : p = H2!Plan(e)
  BY <1>3
<1>5. H2!Plan(event)' = p
  BY <1>1, <1>4 DEF H2!Plan, H2!SystemPlan, H2!UserPlan
<1>6. Behind' = 0 /\ todo' = p
  BY <1>1, <1>4, <1>5 DEF Behind
<1>7. HookTypes'
  BY <1>1, <1>2, <1>6 DEF HookTypes
<1>8. RestOfPlan'
  BY <1>4, <1>5, <1>6 DEF RestOfPlan
<1>9. ShownAsMerged'
  BY <1>1, <1>2, EffectFacts DEF ShownAsMerged, H2!Or
<1>10. Unmarked'
  BY <1>1, <1>6 DEF Unmarked
<1>11. QueueFirst'
  BY <1>1, <1>6, EffectFacts DEF QueueFirst
<1> QED BY <1>7, <1>8, <1>9, <1>10, <1>11 DEF HookInv

(* The turn between two events: nothing is claimed yet, and what the hooks  *)
(* of the event left is what the next was shown.                            *)
LEMMA DoneFacts ==
    ASSUME H2!LimitsAssumption, H2!InputsAssumption, H2!NoneAssumption, HookInv,
           NEW e \in H2!Events \ {"end"}, H2!Done(e)
    PROVE  /\ event = e /\ DOMAIN turn = TurnFields /\ turn.text \in H2!Texts /\ ~ turn.claimed
           /\ H2!Taken("text") = seen.text /\ H2!Taken("tools") = seen.tools
           /\ H2!Taken("calls") = seen.calls /\ H2!Taken("results") = seen.results
           /\ seen.text \in H2!Texts
           /\ turn.row # None => "thinking" \notin turn.row.marks /\ "rewriter" \notin turn.row.marks
<1>1. event = e /\ e \notin {"end", "over"}
  BY PlanFacts DEF H2!Done
<1>2. DOMAIN turn = TurnFields /\ turn.text \in H2!Texts /\ seen.text \in H2!Texts
  BY <1>1 DEF HookInv, HookTypes
<1>3. ~ turn.claimed
  BY <1>1 DEF HookInv, QueueFirst
<1>4. turn.row # None => "thinking" \notin turn.row.marks /\ "rewriter" \notin turn.row.marks
  BY <1>1 DEF HookInv, Unmarked
<1>5. /\ H2!Taken("text") = seen.text /\ H2!Taken("tools") = seen.tools
      /\ H2!Taken("calls") = seen.calls /\ H2!Taken("results") = seen.results
  BY <1>1 DEF HookInv, ShownAsMerged, H2!Taken
<1> QED BY <1>1, <1>2, <1>3, <1>4, <1>5

LEMMA TurnAnswerInv ==
    ASSUME H2!LimitsAssumption, H2!InputsAssumption, H2!NoneAssumption,
           NEW t, NEW final, H2!Answer(t, final), DOMAIN t = TurnFields,
           t.text \in H2!Texts, ~ t.claimed, effects' \in Nat,
           t.row # None => "thinking" \notin t.row.marks /\ ("rewriter" \in t.row.marks => t.stopped)
    PROVE  HookInv'
<1> DEFINE u == [t EXCEPT !.final = final, !.answered = TRUE]
<1>1. H2!Begin("end", u)
  BY DEF H2!Answer
<1>2. DOMAIN u = TurnFields /\ u.text = t.text /\ u.claimed = t.claimed /\ u.row = t.row /\ u.stopped = t.stopped
  BY DEF TurnFields
<1> HIDE DEF u
<1>3. "end" \in H2!Events
  BY PlanFacts
<1> QED BY <1>1, <1>2, <1>3, BeginInv

LEMMA FailsInv ==
    ASSUME H2!LimitsAssumption, H2!InputsAssumption, H2!NoneAssumption, HookInv, todo = << >>,
           NEW t, H2!Fails(t), DOMAIN t = TurnFields,
           t.text \in H2!Texts, ~ t.claimed, effects' \in Nat,
           t.row # None => "thinking" \notin t.row.marks /\ "rewriter" \notin t.row.marks
    PROVE  HookInv'
<1>1. CASE H2!Answer(t, "error")
  BY <1>1, TurnAnswerInv
<1>2. CASE event' = "broken" /\ turn' = t /\ UNCHANGED <<todo, effect, seen>>
  <2>1. "broken" \notin H2!Events
    BY PlanFacts
  <2>2. HookTypes' /\ RestOfPlan' /\ ShownAsMerged'
    BY <1>2, <2>1 DEF HookInv, HookTypes, RestOfPlan, ShownAsMerged, Between
  <2>3. Unmarked' /\ QueueFirst'
    BY <1>2 DEF Unmarked, QueueFirst
  <2> QED BY <2>2, <2>3 DEF HookInv
<1> QED BY <1>1, <1>2 DEF H2!Fails

LEMMA IterateInv ==
    ASSUME H2!LimitsAssumption, H2!InputsAssumption, H2!NoneAssumption,
           NEW t, H2!Iterate(t), DOMAIN t = TurnFields,
           t.text \in H2!Texts, ~ t.claimed, effects' \in Nat,
           t.row # None => "thinking" \notin t.row.marks /\ "rewriter" \notin t.row.marks
    PROVE  HookInv'
<1> DEFINE u == [t EXCEPT !.iter = t.iter + 1, !.messages = <<0>>, !.calls = None, !.results = None]
<1>1. H2!Begin("prepared", u)
  BY DEF H2!Iterate
<1>2. DOMAIN u = TurnFields /\ u.text = t.text /\ u.claimed = t.claimed /\ u.row = t.row
  BY DEF TurnFields
<1> HIDE DEF u
<1>3. "prepared" \in H2!Events
  BY PlanFacts
<1> QED BY <1>1, <1>2, <1>3, BeginInv

LEMMA ReceivedInv ==
    ASSUME H2!LimitsAssumption, H2!InputsAssumption, H2!NoneAssumption, HookInv, H2!Received
    PROVE  HookInv'
<1> DEFINE t == [turn EXCEPT !.text = H2!Taken("text"), !.row = H2!Taken("text"), !.stopped = effect.stop]
<1>0. H2!Done("received") /\ "received" \in H2!Events \ {"end"}
  BY PlanFacts DEF H2!Received
<1>1. /\ event = "received" /\ DOMAIN turn = TurnFields /\ ~ turn.claimed
      /\ H2!Taken("text") = seen.text /\ seen.text \in H2!Texts
  BY <1>0, DoneFacts
<1>2. DOMAIN t = TurnFields /\ t.text = seen.text /\ t.row = seen.text /\ t.stopped = effect.stop /\ t.claimed = turn.claimed
  BY <1>1 DEF TurnFields
<1>3. /\ effects' = effects /\ effects' \in Nat
      /\ IF effect.stop THEN H2!Answer(t, H2!Or(effect.final, "stopped"))
         ELSE H2!Iterate(t) \/ H2!Fails(t)
  BY DEF H2!Received, HookInv, HookTypes
<1> HIDE DEF t
<1>4. "thinking" \notin seen.text.marks /\ ("rewriter" \in seen.text.marks => effect.stop)
  <2>1. todo = << >> /\ Len(todo) = 0
    BY <1>0 DEF H2!Done
  <2>2. Behind >= 4
    <3>1. Len(H2!Plan("received")) >= 4 /\ H2!Plan("received") \in Seq(Executors)
      BY PlanFacts
    <3>2. Len(H2!Plan("received")) \in Nat
      BY <3>1
    <3> QED BY <1>1, <2>1, <3>1, <3>2 DEF Behind
  <2>3. Behind >= 1
    <3>1. H2!Plan("received") \in Seq(Executors)
      BY PlanFacts
    <3>2. Len(H2!Plan("received")) \in Nat
      BY <3>1
    <3> QED BY <1>1, <2>1, <2>2, <3>2 DEF Behind
  <2> QED BY <1>1, <2>2, <2>3 DEF HookInv, Unmarked
<1>5. CASE effect.stop
  BY <1>1, <1>2, <1>3, <1>4, <1>5, TurnAnswerInv
<1>6. CASE ~ effect.stop
  <2>1. todo = << >>
    BY <1>0 DEF H2!Done
  <2> QED BY <1>1, <1>2, <1>3, <1>4, <1>6, <2>1, IterateInv, FailsInv
<1> QED BY <1>5, <1>6

LEMMA PreparedInv ==
    ASSUME H2!LimitsAssumption, H2!InputsAssumption, H2!NoneAssumption, HookInv, H2!Prepared
    PROVE  HookInv'
<1> DEFINE t == [turn EXCEPT !.messages = H2!TakenMessages, !.tools = H2!Taken("tools"), !.stopped = effect.stop]
<1>0. H2!Done("prepared") /\ {"prepared", "request"} \subseteq H2!Events \ {"end"}
  BY PlanFacts DEF H2!Prepared
<1>1. /\ DOMAIN turn = TurnFields /\ turn.text \in H2!Texts /\ ~ turn.claimed
      /\ turn.row # None => "thinking" \notin turn.row.marks /\ "rewriter" \notin turn.row.marks
  BY <1>0, DoneFacts
<1>2. DOMAIN t = TurnFields /\ t.text = turn.text /\ t.row = turn.row /\ t.claimed = turn.claimed
  BY <1>1 DEF TurnFields
<1>3. /\ effects' \in Nat
      /\ H2!Answer(t, H2!Or(effect.final, "stopped")) \/ H2!Begin("request", t)
  BY DEF H2!Prepared, HookInv, HookTypes
<1> HIDE DEF t
<1> QED BY <1>0, <1>1, <1>2, <1>3, TurnAnswerInv, BeginInv

LEMMA RequestedInv ==
    ASSUME H2!LimitsAssumption, H2!InputsAssumption, H2!NoneAssumption, HookInv, H2!Requested
    PROVE  HookInv'
<1>0. H2!Done("request") /\ {"request", "responding"} \subseteq H2!Events \ {"end"}
  BY PlanFacts DEF H2!Requested
<1>1. /\ DOMAIN turn = TurnFields /\ turn.text \in H2!Texts /\ ~ turn.claimed
      /\ turn.row # None => "thinking" \notin turn.row.marks /\ "rewriter" \notin turn.row.marks
  BY <1>0, DoneFacts
<1>2. effects' \in Nat /\ H2!Begin("responding", turn)
  BY DEF H2!Requested, HookInv, HookTypes
<1> QED BY <1>0, <1>1, <1>2, BeginInv

LEMMA RespondedInv ==
    ASSUME H2!LimitsAssumption, H2!InputsAssumption, H2!NoneAssumption, HookInv, H2!Responded
    PROVE  HookInv'
<1> DEFINE t == [turn EXCEPT !.calls = 0]
<1>0. H2!Done("responding") /\ {"responding", "called"} \subseteq H2!Events \ {"end"} /\ todo = << >>
  BY PlanFacts DEF H2!Responded, H2!Done
<1>1. /\ DOMAIN turn = TurnFields /\ turn.text \in H2!Texts /\ ~ turn.claimed
      /\ turn.row # None => "thinking" \notin turn.row.marks /\ "rewriter" \notin turn.row.marks
  BY <1>0, DoneFacts
<1>2. DOMAIN t = TurnFields /\ t.text = turn.text /\ t.row = turn.row /\ t.claimed = turn.claimed
  BY <1>1 DEF TurnFields
<1>3. /\ effects' \in Nat
      /\ H2!Answer(turn, "text") \/ H2!Begin("called", t) \/ H2!Fails(turn)
  BY DEF H2!Responded, HookInv, HookTypes
<1> HIDE DEF t
<1> QED BY <1>0, <1>1, <1>2, <1>3, TurnAnswerInv, BeginInv, FailsInv

LEMMA CalledInv ==
    ASSUME H2!LimitsAssumption, H2!InputsAssumption, H2!NoneAssumption, HookInv, H2!Called
    PROVE  HookInv'
<1> DEFINE t == [turn EXCEPT !.calls = H2!Taken("calls"), !.stopped = effect.stop]
           u == [t EXCEPT !.results = 0]
<1>0. H2!Done("called") /\ {"called", "collected"} \subseteq H2!Events \ {"end"} /\ todo = << >>
  BY PlanFacts DEF H2!Called, H2!Done
<1>1. /\ DOMAIN turn = TurnFields /\ turn.text \in H2!Texts /\ ~ turn.claimed
      /\ turn.row # None => "thinking" \notin turn.row.marks /\ "rewriter" \notin turn.row.marks
  BY <1>0, DoneFacts
<1>2. DOMAIN t = TurnFields /\ t.text = turn.text /\ t.row = turn.row /\ t.claimed = turn.claimed
  BY <1>1 DEF TurnFields
<1>3. /\ effects' \in Nat
      /\ H2!Answer(t, H2!Or(effect.final, "stopped")) \/ H2!Begin("collected", u) \/ H2!Fails(t)
  BY DEF H2!Called, HookInv, HookTypes
<1> HIDE DEF t
<1>4. DOMAIN u = TurnFields /\ u.text = t.text /\ u.row = t.row /\ u.claimed = t.claimed
  BY <1>2 DEF TurnFields
<1> HIDE DEF u
<1> QED BY <1>0, <1>1, <1>2, <1>3, <1>4, TurnAnswerInv, BeginInv, FailsInv

LEMMA CollectedInv ==
    ASSUME H2!LimitsAssumption, H2!InputsAssumption, H2!NoneAssumption, HookInv, H2!Collected
    PROVE  HookInv'
<1> DEFINE t == [turn EXCEPT !.results = H2!Taken("results"), !.stopped = effect.stop]
<1>0. H2!Done("collected") /\ "collected" \in H2!Events \ {"end"} /\ todo = << >>
  BY PlanFacts DEF H2!Collected, H2!Done
<1>1. /\ DOMAIN turn = TurnFields /\ turn.text \in H2!Texts /\ ~ turn.claimed
      /\ turn.row # None => "thinking" \notin turn.row.marks /\ "rewriter" \notin turn.row.marks
  BY <1>0, DoneFacts
<1>2. DOMAIN t = TurnFields /\ t.text = turn.text /\ t.row = turn.row /\ t.claimed = turn.claimed
  BY <1>1 DEF TurnFields
<1>3. /\ effects' \in Nat
      /\ H2!Answer(t, H2!Or(effect.final, "stopped")) \/ H2!Iterate(t) \/ H2!Fails(t)
  BY DEF H2!Collected, HookInv, HookTypes
<1> HIDE DEF t
<1> QED BY <1>0, <1>1, <1>2, <1>3, TurnAnswerInv, IterateInv, FailsInv

LEMMA EndedInv ==
    ASSUME H2!LimitsAssumption, H2!InputsAssumption, H2!NoneAssumption, HookInv, H2!Ended
    PROVE  HookInv'
<1>1. /\ event = "end" /\ todo = << >> /\ event' = "over" /\ turn' = [turn EXCEPT !.next = effect.next]
      /\ UNCHANGED <<todo, effect, seen, effects>>
  BY DEF H2!Ended, H2!Done
<1>2. DOMAIN turn = TurnFields
  BY DEF HookInv, HookTypes
<1>3. /\ DOMAIN turn' = TurnFields /\ turn'.next = effect.next
      /\ turn'.text = turn.text /\ turn'.row = turn.row /\ turn'.claimed = turn.claimed /\ turn'.stopped = turn.stopped
  BY <1>1, <1>2 DEF TurnFields
<1>4. "over" \notin H2!Events
  BY PlanFacts
<1>5. HookTypes' /\ RestOfPlan' /\ ShownAsMerged'
  BY <1>1, <1>3, <1>4 DEF HookInv, HookTypes, RestOfPlan, ShownAsMerged, Between
<1>6. Unmarked' /\ QueueFirst'
  BY <1>1, <1>3 DEF HookInv, Unmarked, QueueFirst
<1> QED BY <1>5, <1>6 DEF HookInv

LEMMA LoadInv ==
    ASSUME H2!LimitsAssumption, H2!InputsAssumption, H2!NoneAssumption, HookInv, H2!Load
    PROVE  HookInv'
<1>1. /\ event = "loading" /\ effects' \in Nat
      /\ \/ H2!Begin("received", turn)
         \/ event' = "refused" /\ UNCHANGED <<todo, effect, seen, turn>>
  <2>1. event = "loading" /\ effects \in Nat /\ effects' = effects
    BY DEF H2!Load, HookInv, HookTypes
  <2> QED BY <2>1 DEF H2!Load
<1>2. /\ DOMAIN turn = TurnFields /\ turn.text \in H2!Texts
      /\ turn.row # None => "thinking" \notin turn.row.marks /\ "rewriter" \notin turn.row.marks
      /\ ~ turn.claimed
  BY <1>1 DEF HookInv, HookTypes, Unmarked, QueueFirst
<1>3. CASE H2!Begin("received", turn)
  <2>1. "received" \in H2!Events
    BY PlanFacts
  <2> QED BY <1>1, <1>2, <1>3, <2>1, BeginInv
<1>4. CASE event' = "refused" /\ UNCHANGED <<todo, effect, seen, turn>>
  <2>1. "loading" \notin H2!Events /\ "refused" \notin H2!Events
    BY PlanFacts
  <2>2. HookTypes' /\ RestOfPlan' /\ ShownAsMerged'
    BY <1>1, <1>4, <2>1 DEF HookInv, HookTypes, RestOfPlan, ShownAsMerged, Between
  <2>3. Unmarked' /\ QueueFirst'
    BY <1>2, <1>4 DEF Unmarked, QueueFirst
  <2> QED BY <2>2, <2>3 DEF HookInv
<1> QED BY <1>1, <1>3, <1>4

-----------------------------------------------------------------------------
(* The executors.                                                           *)

(* What an executor of its own name does to the turn, with what it changes. *)
LEMMA PlainInv ==
    ASSUME H2!LimitsAssumption, H2!InputsAssumption, H2!NoneAssumption, HookInv,
           NEW hook, H2!Running(hook), hook # "queue", NEW e, H2!Ran(e), Fitting(hook, e),
           event' = event, turn' = turn, effects' = effects \/ effects' = effects + 1
    PROVE  HookInv'
<1>1. effects' \in Nat
  BY DEF HookInv, HookTypes
<1> QED BY <1>1, RanInv

LEMMA NoEffectFits ==
    ASSUME NEW hook, hook \notin {"thinking", "rewriter"}
    PROVE  Fitting(hook, H2!NoEffect)
BY EffectFacts DEF Fitting

LEMMA RunningFacts ==
    ASSUME HookInv, NEW hook, H2!Running(hook)
    PROVE  seen.text \in H2!Texts
BY DEF HookInv, HookTypes, H2!Running

LEMMA ThinkingInv ==
    ASSUME H2!LimitsAssumption, H2!InputsAssumption, H2!NoneAssumption, HookInv, H2!Thinking
    PROVE  HookInv'
<1> DEFINE v == H2!Text(seen.text.marks \ {"thinking"}, seen.text.body)
           e == [H2!NoEffect EXCEPT !.text = v]
<1>1. H2!Running("thinking") /\ H2!Ran(e) /\ UNCHANGED <<event, turn, effects>>
  BY DEF H2!Thinking
<1>2. seen.text \in H2!Texts
  BY <1>1, RunningFacts
<1>3. v \in H2!Texts /\ v.marks = seen.text.marks \ {"thinking"} /\ v # None
  <2>1. seen.text.marks \ {"thinking"} \in SUBSET H2!Marks /\ seen.text.body \in H2!Bodies
    BY <1>2, TextsFacts
  <2> QED BY <2>1, TextsFacts
<1> HIDE DEF v
<1>4. e.text = v /\ e.stop = FALSE /\ e.next = None
  BY DEF H2!NoEffect
<1> HIDE DEF e
<1>5. Fitting("thinking", e)
  BY <1>3, <1>4 DEF Fitting
<1> QED BY <1>1, <1>5, PlainInv

LEMMA SkillTextFacts ==
    ASSUME H2!LimitsAssumption, H2!InputsAssumption, H2!NoneAssumption, seen.text \in H2!Texts
    PROVE  H2!SkillText \in H2!Texts /\ H2!SkillText.marks \subseteq seen.text.marks /\ H2!SkillText # None
<1> DEFINE b == IF "skill" \in seen.text.marks THEN H2!Or(seen.text.body, 0) ELSE seen.text.body
<1>1. seen.text.marks \ {"skill"} \in SUBSET H2!Marks /\ b \in H2!Bodies
  BY TextsFacts DEF H2!Or
<1>2. H2!SkillText = H2!Text(seen.text.marks \ {"skill"}, b)
  BY DEF H2!SkillText
<1> HIDE DEF b
<1> QED BY <1>1, <1>2, TextsFacts

LEMMA SkillsInv ==
    ASSUME H2!LimitsAssumption, H2!InputsAssumption, H2!NoneAssumption, HookInv, H2!Skills
    PROVE  HookInv'
<1> DEFINE v == H2!SkillText
           e == [H2!NoEffect EXCEPT !.text = v]
           f == [H2!NoEffect EXCEPT !.text = v, !.final = H2!Value, !.stop = TRUE]
<1>1. H2!Running("skills") /\ UNCHANGED <<event, turn>>
  BY DEF H2!Skills
<1>2. H2!Ran(e) \/ H2!Ran(f) \/ H2!Ran(H2!NoEffect)
  BY DEF H2!Skills
<1>3. effects' = effects \/ effects' = effects + 1
  BY DEF H2!Skills, H2!Counted, H2!Value
<1>4. v \in H2!Texts /\ v.marks \subseteq seen.text.marks
  BY <1>1, RunningFacts, SkillTextFacts
<1> HIDE DEF v
<1>5. e.text = v /\ e.next = None /\ f.text = v /\ f.next = None
  BY DEF H2!NoEffect
<1> HIDE DEF e, f
<1>6. Fitting("skills", e) /\ Fitting("skills", f) /\ Fitting("skills", H2!NoEffect)
  BY <1>4, <1>5, NoEffectFits DEF Fitting
<1> QED BY <1>1, <1>2, <1>3, <1>6, PlainInv

(* Hooks that leave the text alone and ask for nothing next.                *)
LEMMA OthersInv ==
    ASSUME H2!LimitsAssumption, H2!InputsAssumption, H2!NoneAssumption, HookInv,
           H2!ContextLimit \/ H2!Reminder \/ H2!Guard \/ H2!LoopDetection \/ H2!OtherSystem
    PROVE  HookInv'
<1>1. \E hook \in {"limit", "reminder", "guard", "loop", "images", "audit", "search", "usage", "cot"} :
         /\ H2!Running(hook) /\ UNCHANGED <<event, turn>>
         /\ effects' = effects \/ effects' = effects + 1
         /\ \/ H2!Ran(H2!NoEffect)
            \/ H2!Ran([H2!NoEffect EXCEPT !.compact = TRUE])
            \/ H2!Ran([H2!NoEffect EXCEPT !.append = <<H2!Value>>])
            \/ H2!Ran([H2!NoEffect EXCEPT !.cut = TRUE])
            \/ H2!Ran([H2!NoEffect EXCEPT !.final = H2!Value, !.stop = TRUE])
  <2>1. CASE H2!ContextLimit
    BY <2>1 DEF H2!ContextLimit, H2!Counted, H2!Value
  <2>2. CASE H2!Reminder
    BY <2>2 DEF H2!Reminder, H2!Counted, H2!Value
  <2>3. CASE H2!Guard
    BY <2>3 DEF H2!Guard, H2!Counted, H2!Value
  <2>4. CASE H2!LoopDetection
    BY <2>4 DEF H2!LoopDetection, H2!Counted, H2!Value
  <2>5. CASE H2!OtherSystem
    BY <2>5 DEF H2!OtherSystem
  <2> QED BY <2>1, <2>2, <2>3, <2>4, <2>5
<1>2. PICK hook \in {"limit", "reminder", "guard", "loop", "images", "audit", "search", "usage", "cot"} :
         /\ H2!Running(hook) /\ UNCHANGED <<event, turn>>
         /\ effects' = effects \/ effects' = effects + 1
         /\ \/ H2!Ran(H2!NoEffect)
            \/ H2!Ran([H2!NoEffect EXCEPT !.compact = TRUE])
            \/ H2!Ran([H2!NoEffect EXCEPT !.append = <<H2!Value>>])
            \/ H2!Ran([H2!NoEffect EXCEPT !.cut = TRUE])
            \/ H2!Ran([H2!NoEffect EXCEPT !.final = H2!Value, !.stop = TRUE])
  BY <1>1
<1>3. ASSUME NEW e, H2!Ran(e), e.text = None, e.next = None
      PROVE  HookInv'
  <2>1. Fitting(hook, e)
    BY <1>3 DEF Fitting
  <2> QED BY <1>2, <1>3, <2>1, PlainInv
<1>4. /\ H2!NoEffect.text = None /\ H2!NoEffect.next = None
      /\ [H2!NoEffect EXCEPT !.compact = TRUE].text = None /\ [H2!NoEffect EXCEPT !.compact = TRUE].next = None
  BY DEF H2!NoEffect
<1>5. /\ [H2!NoEffect EXCEPT !.append = <<H2!Value>>].text = None /\ [H2!NoEffect EXCEPT !.append = <<H2!Value>>].next = None
      /\ [H2!NoEffect EXCEPT !.cut = TRUE].text = None /\ [H2!NoEffect EXCEPT !.cut = TRUE].next = None
  BY DEF H2!NoEffect
<1>6. /\ [H2!NoEffect EXCEPT !.final = H2!Value, !.stop = TRUE].text = None
      /\ [H2!NoEffect EXCEPT !.final = H2!Value, !.stop = TRUE].next = None
  BY DEF H2!NoEffect
<1> QED BY <1>2, <1>3, <1>4, <1>5, <1>6

LEMMA OriginalFacts ==
    ASSUME H2!LimitsAssumption, H2!InputsAssumption, H2!NoneAssumption, seen.text \in H2!Texts
    PROVE  H2!Original \in H2!Texts /\ H2!Original.marks = {} /\ H2!Original # None
<1> DEFINE b == IF "skill" \in seen.text.marks THEN H2!Or(seen.text.body, 0) ELSE seen.text.body
<1>1. {} \in SUBSET H2!Marks /\ b \in H2!Bodies
  BY TextsFacts DEF H2!Or
<1>2. H2!Original = H2!Text({}, b)
  BY DEF H2!Original
<1> HIDE DEF b
<1> QED BY <1>1, <1>2, TextsFacts

LEMMA ValueFacts ==
    ASSUME H2!LimitsAssumption, H2!InputsAssumption, H2!NoneAssumption, HookInv, H2!Counted
    PROVE  /\ H2!Value \in 1..MaxEffects /\ effects' = effects + 1
           /\ H2!Text({}, H2!Value) \in H2!Texts /\ H2!Text({}, H2!Value).marks = {} /\ H2!Text({}, H2!Value) # None
<1>1. H2!Value \in 1..MaxEffects /\ effects' = effects + 1
  BY DEF H2!Counted, H2!Value, HookInv, HookTypes, H2!LimitsAssumption
<1>2. H2!Value \in H2!Bodies /\ {} \in SUBSET H2!Marks
  BY <1>1, TextsFacts
<1> QED BY <1>1, <1>2, TextsFacts

(* The rewriter puts a text without its marker in place of the request.     *)
LEMMA RewritesInv ==
    ASSUME H2!LimitsAssumption, H2!InputsAssumption, H2!NoneAssumption, HookInv, H2!Running("rewriter"),
           NEW v, v \in H2!Texts, v.marks \subseteq seen.text.marks, "rewriter" \notin v.marks, v # None,
           H2!Ran([H2!NoEffect EXCEPT !.text = v]),
           UNCHANGED <<event, turn>>, effects' = effects \/ effects' = effects + 1
    PROVE  HookInv'
<1> DEFINE e == [H2!NoEffect EXCEPT !.text = v]
<1>1. e.text = v /\ e.stop = FALSE /\ e.next = None
  BY DEF H2!NoEffect
<1>2. H2!Ran(e)
  OBVIOUS
<1> HIDE DEF e
<1>3. Fitting("rewriter", e)
  BY <1>1 DEF Fitting
<1> QED BY <1>2, <1>3, PlainInv

LEMMA StillInv ==
    ASSUME HookInv, UNCHANGED <<event, todo, effect, seen, turn, effects>>
    PROVE  HookInv'
<1>1. Behind' = Behind /\ H2!Plan(event)' = H2!Plan(event)
  BY DEF Behind, H2!Plan, H2!SystemPlan, H2!UserPlan
<1>2. HookTypes' /\ RestOfPlan' /\ ShownAsMerged'
  BY <1>1 DEF HookInv, HookTypes, RestOfPlan, ShownAsMerged
<1>3. Unmarked' /\ QueueFirst'
  BY <1>1 DEF HookInv, Unmarked, QueueFirst
<1> QED BY <1>2, <1>3 DEF HookInv

LEMMA RewriterInv ==
    ASSUME H2!LimitsAssumption, H2!InputsAssumption, H2!NoneAssumption, HookInv,
           H2!RewriterStarts \/ H2!RewriterTools \/ H2!RewriterAnswers
    PROVE  HookInv'
<1>1. H2!Running("rewriter") /\ UNCHANGED <<event, turn>>
  BY DEF H2!RewriterStarts, H2!RewriterTools, H2!RewriterAnswers, H2!Same
<1>2. seen.text \in H2!Texts /\ seen.text # None
  BY <1>1, RunningFacts, TextsFacts
<1>3. CASE H2!RewriterStarts
  <2>1. \/ "rewriter" \notin seen.text.marks /\ H2!Ran([H2!NoEffect EXCEPT !.text = seen.text])
        \/ H2!Ran([H2!NoEffect EXCEPT !.text = H2!Original])
        \/ UNCHANGED <<todo, effect, seen>>
    BY <1>3 DEF H2!RewriterStarts
  <2>2. effects' = effects
    BY <1>3 DEF H2!RewriterStarts
  <2>3. CASE "rewriter" \notin seen.text.marks /\ H2!Ran([H2!NoEffect EXCEPT !.text = seen.text])
    BY <1>1, <1>2, <2>2, <2>3, RewritesInv
  <2>4. CASE H2!Ran([H2!NoEffect EXCEPT !.text = H2!Original])
    BY <1>1, <1>2, <2>2, <2>4, OriginalFacts, RewritesInv
  <2>5. CASE UNCHANGED <<todo, effect, seen>>
    BY <1>1, <2>2, <2>5, StillInv
  <2> QED BY <2>1, <2>3, <2>4, <2>5
<1>4. CASE H2!RewriterTools
  BY <1>4, StillInv DEF H2!RewriterTools
<1>5. CASE H2!RewriterAnswers
  <2>1. \/ H2!Counted /\ H2!Ran([H2!NoEffect EXCEPT !.text = H2!Text({}, H2!Value)])
        \/ effects' = effects /\ H2!Ran([H2!NoEffect EXCEPT !.text = H2!Original])
    BY <1>5 DEF H2!RewriterAnswers
  <2>2. CASE H2!Counted /\ H2!Ran([H2!NoEffect EXCEPT !.text = H2!Text({}, H2!Value)])
    BY <1>1, <2>2, ValueFacts, RewritesInv
  <2>3. CASE effects' = effects /\ H2!Ran([H2!NoEffect EXCEPT !.text = H2!Original])
    BY <1>1, <1>2, <2>3, OriginalFacts, RewritesInv
  <2> QED BY <2>1, <2>2, <2>3
<1> QED BY <1>3, <1>4, <1>5

LEMMA QueueHookInv ==
    ASSUME H2!LimitsAssumption, H2!InputsAssumption, H2!NoneAssumption, HookInv, H2!QueueHook
    PROVE  HookInv'
<1> DEFINE e == [H2!NoEffect EXCEPT !.next = H2!Item]
<1>1. H2!Running("queue") /\ UNCHANGED <<event, effects>> /\ effects' \in Nat
  BY DEF H2!QueueHook, HookInv, HookTypes
<1>2. e.text = None /\ e.next = H2!Item
  BY DEF H2!NoEffect
<1>3. \/ H2!Ran(e) /\ turn' = [turn EXCEPT !.claimed = TRUE]
      \/ H2!Ran(H2!NoEffect) /\ turn' = turn
  BY DEF H2!QueueHook
<1> HIDE DEF e
<1>4. Fitting("queue", e) /\ Fitting("queue", H2!NoEffect)
  BY <1>2, EffectFacts DEF Fitting
<1> QED BY <1>1, <1>2, <1>3, <1>4, EffectFacts, RanInv

LEMMA UserHookInv ==
    ASSUME H2!LimitsAssumption, H2!InputsAssumption, H2!NoneAssumption, HookInv, H2!UserHook
    PROVE  HookInv'
<1>1. H2!Running("user") /\ UNCHANGED <<event, turn>>
  BY DEF H2!UserHook
<1>2. seen.text \in H2!Texts
  BY <1>1, RunningFacts
<1>3. CASE H2!Ran(H2!NoEffect) /\ effects' = effects
  BY <1>1, <1>3, NoEffectFits, PlainInv
<1>4. CASE H2!Counted /\ \E e \in H2!UserEffects(H2!Value) : H2!Ran(e)
  <2>1. PICK e \in H2!UserEffects(H2!Value) : H2!Ran(e)
    BY <1>4
  <2>2. PICK n : n = H2!Value
    OBVIOUS
  <2>3. PICK v : v = H2!Text({}, H2!Value)
    OBVIOUS
  <2>4. v \in H2!Texts /\ v.marks = {} /\ effects' = effects + 1
    BY <1>4, <2>3, ValueFacts
  <2>5. e.text = None \/ e.text = v
    <3>1. e \in {[H2!NoEffect EXCEPT !.text = v], [H2!NoEffect EXCEPT !.messages = <<n>>],
                 [H2!NoEffect EXCEPT !.append = <<n>>], [H2!NoEffect EXCEPT !.tools = n],
                 [H2!NoEffect EXCEPT !.calls = n], [H2!NoEffect EXCEPT !.results = n],
                 [H2!NoEffect EXCEPT !.final = n], [H2!NoEffect EXCEPT !.cut = TRUE],
                 [H2!NoEffect EXCEPT !.next = n], [H2!NoEffect EXCEPT !.final = n, !.stop = TRUE],
                 [H2!NoEffect EXCEPT !.stop = TRUE]}
      BY <2>1, <2>2, <2>3 DEF H2!UserEffects
    <3> QED BY <3>1 DEF H2!NoEffect
  <2>6. Fitting("user", e)
    BY <2>4, <2>5 DEF Fitting
  <2> QED BY <1>1, <2>1, <2>4, <2>6, PlainInv
<1> QED BY <1>3, <1>4 DEF H2!UserHook

LEMMA HookInitInv ==
    ASSUME H2!LimitsAssumption, H2!InputsAssumption, H2!NoneAssumption, H2!Init
    PROVE  HookInv
<1>1. PICK t \in Inputs, q \in BOOLEAN :
         turn = [text |-> t, messages |-> <<0>>, tools |-> 0, calls |-> None, results |-> None,
                 final |-> None, iter |-> 0, queued |-> q, claimed |-> FALSE, next |-> None,
                 row |-> None, answered |-> FALSE, stopped |-> FALSE]
  BY DEF H2!Init
<1>2. event = "loading" /\ todo = << >> /\ effects = 0
  BY DEF H2!Init
<1>3. "loading" \notin H2!Events
  BY PlanFacts
<1>4. DOMAIN turn = TurnFields /\ turn.text = t /\ turn.row = None /\ turn.claimed = FALSE
  BY <1>1 DEF TurnFields
<1>5. t \in H2!Texts
  BY DEF H2!InputsAssumption
<1>6. HookTypes /\ RestOfPlan /\ ShownAsMerged
  BY <1>2, <1>3, <1>4, <1>5 DEF HookTypes, RestOfPlan, ShownAsMerged, Between
<1>7. Unmarked /\ QueueFirst
  BY <1>2, <1>4 DEF Unmarked, QueueFirst
<1> QED BY <1>6, <1>7 DEF HookInv

LEMMA HookStepInv ==
    ASSUME H2!LimitsAssumption, H2!InputsAssumption, H2!NoneAssumption
    PROVE  HookInv /\ [H2!Next]_(H2!vars) => HookInv'
<1> SUFFICES ASSUME HookInv, [H2!Next]_(H2!vars) PROVE HookInv'
  OBVIOUS
<1>1. CASE UNCHANGED H2!vars
  BY <1>1, StillInv DEF H2!vars
<1>2. CASE H2!Step
  <2>1. CASE H2!Load \/ H2!Thinking \/ H2!Skills
    BY <2>1, LoadInv, ThinkingInv, SkillsInv
  <2>2. CASE H2!ContextLimit \/ H2!Reminder \/ H2!Guard \/ H2!LoopDetection \/ H2!OtherSystem
    BY <2>2, OthersInv
  <2>3. CASE H2!RewriterStarts \/ H2!RewriterTools \/ H2!RewriterAnswers
    BY <2>3, RewriterInv
  <2>4. CASE H2!QueueHook \/ H2!UserHook
    BY <2>4, QueueHookInv, UserHookInv
  <2>5. CASE H2!Received \/ H2!Prepared \/ H2!Requested \/ H2!Responded
    BY <2>5, ReceivedInv, PreparedInv, RequestedInv, RespondedInv
  <2>6. CASE H2!Called \/ H2!Collected \/ H2!Ended
    BY <2>6, CalledInv, CollectedInv, EndedInv
  <2> QED BY <1>2, <2>1, <2>2, <2>3, <2>4, <2>5, <2>6 DEF H2!Step
<1> QED BY <1>1, <1>2 DEF H2!Next

(* runHookEvent, mergeHookEffects and nextHookContext: with any number of   *)
(* hooks in hook.json and any effects of theirs, what the turn goes on with *)
(* is what the last executor was shown and left, the claim of the queue is  *)
(* the next request, and the row of the turn has no marker left.            *)
THEOREM HooksAppliedAsShown ==
    ASSUME H2!LimitsAssumption, H2!InputsAssumption, H2!NoneAssumption
    PROVE  H2!Spec => []HooksApplied
<1>1. H2!Init => HookInv
  BY HookInitInv
<1>2. HookInv /\ [H2!Next]_(H2!vars) => HookInv'
  BY HookStepInv
<1>3. HookInv => HooksApplied
  <2> SUFFICES ASSUME HookInv PROVE HooksApplied
    OBVIOUS
  <2>1. H2!AppliedAsSeen
    BY PlanFacts DEF HookInv, ShownAsMerged, H2!AppliedAsSeen, H2!Taken
  <2>2. H2!ClaimRuns
    BY DEF HookInv, QueueFirst, H2!ClaimRuns
  <2>3. H2!MarkersGone
    BY DEF HookInv, Unmarked, H2!MarkersGone
  <2> QED BY <2>1, <2>2, <2>3 DEF HooksApplied
<1> QED BY <1>1, <1>2, <1>3, PTL DEF H2!Spec

-----------------------------------------------------------------------------
(* The lock file.                                                           *)

(* Living processes have pids of their own.                                 *)
OwnPids == \A p, q \in Procs : Living(p) /\ Living(q) /\ pid[p] = pid[q] => p = q

(* Only servers start up, and while it is not crowded one at a time.        *)
OneStarts ==
    /\ \A p \in Procs : at[p] \in Starting \cup {"up"} => p \in Servers
    /\ ~crowded => \A p, q \in Procs : at[p] \in Starting /\ at[q] \in Starting => p = q

(* A server that has created the file, or is about to remove one, is alone: *)
(* no server is up.                                                         *)
NoneUp ==
    ~crowded => \A p \in Procs :
        /\ at[p] = "opened" => file = [by |-> p, written |-> FALSE]
        /\ at[p] \in {"opened", "remove"} => \A q \in Procs : at[q] # "up"

LockInv == LockTypeOK /\ OwnPids /\ OneStarts /\ NoneUp /\ OneServer

USE LockAssumption

LEMMA InitLockInv == Init => LockInv
<1> SUFFICES ASSUME Init PROVE LockInv
  OBVIOUS
<1> USE DEF Init, NoFile
<1>1. LockTypeOK
  BY DEF LockTypeOK, Ats
<1>2. \A p \in Procs : at[p] = "new"
  OBVIOUS
<1>3. OwnPids /\ OneStarts /\ NoneUp /\ OneServer
  BY <1>2 DEF OwnPids, OneStarts, NoneUp, OneServer, Living, Starting, Servers
<1>4. QED
  BY <1>1, <1>3 DEF LockInv

LEMMA StartLockInv ==
  ASSUME LockInv, NEW p \in Procs, NEW n \in Pids, Start(p, n)
  PROVE  LockInv'
<1> USE DEF Start, Go
<1>1. LockTypeOK'
  BY DEF LockInv, LockTypeOK, Ats
<1>2. OwnPids'
  BY DEF LockInv, LockTypeOK, OwnPids, Living
<1>3. OneStarts'
  BY DEF LockInv, LockTypeOK, OneStarts, Starting, Servers
<1>4. file' = file /\ (~crowded' => ~crowded)
  OBVIOUS
<1>5. \A q \in Procs : at'[q] \in {"up", "opened", "remove"} => at'[q] = at[q]
  BY DEF LockInv, LockTypeOK
<1>6. \A q \in Procs : at[q] # "up" => at'[q] # "up"
  BY DEF LockInv, LockTypeOK
<1>7. NoneUp'
  BY <1>4, <1>5, <1>6 DEF LockInv, NoneUp
<1>8. OneServer'
  <2>1. \A q \in Servers : at'[q] = "up" => at[q] = "up"
    BY <1>5 DEF Servers
  <2>2. crowded' \/ OneServer
    BY <1>4 DEF LockInv
  <2>3. QED
    BY <1>4, <2>1, <2>2 DEF OneServer
<1>9. QED
  BY <1>1, <1>2, <1>3, <1>7, <1>8 DEF LockInv

LEMMA OpenLockInv ==
  ASSUME LockInv, NEW p \in Procs, Open(p)
  PROVE  LockInv'
<1> USE DEF Open, Go, NoFile
<1>1. LockTypeOK'
  <2>1. at' \in [Procs -> Ats]
    <3>1. at \in [Procs -> Ats]
      BY DEF LockInv, LockTypeOK
    <3>2. at' = [at EXCEPT ![p] = "opened"] \/ at' = [at EXCEPT ![p] = "check"]
      OBVIOUS
    <3>3. QED
      BY <3>1, <3>2 DEF Ats
  <2>2. file' \in [by : Procs \cup {None}, written : BOOLEAN]
    <3>1. file' = [by |-> p, written |-> FALSE] \/ file' = file
      OBVIOUS
    <3>2. file \in [by : Procs \cup {None}, written : BOOLEAN]
      BY DEF LockInv, LockTypeOK
    <3>3. [by |-> p, written |-> FALSE] \in [by : Procs \cup {None}, written : BOOLEAN]
      OBVIOUS
    <3>4. QED
      BY <3>1, <3>2, <3>3
  <2>3. pid' \in [Procs -> Pids \cup {None}] /\ crowded' \in BOOLEAN
    BY DEF LockInv, LockTypeOK
  <2>4. QED
    BY <2>1, <2>2, <2>3 DEF LockTypeOK
<1>2. OwnPids'
  BY DEF LockInv, LockTypeOK, OwnPids, Living
<1>3. OneStarts'
  BY DEF LockInv, LockTypeOK, OneStarts, Starting, Servers
<1>4. NoneUp'
  <2>1. \A q \in Procs \ {p} : at'[q] = at[q]
    BY DEF LockInv, LockTypeOK
  <2>2. CASE file = NoFile
    <3>1. at'[p] = "opened" /\ file' = [by |-> p, written |-> FALSE]
      BY <2>2 DEF LockInv, LockTypeOK
    <3>2. ~crowded => \A q \in Procs : at[q] # "up"
      BY <2>2 DEF LockInv, OneStarts, OneServer
    <3>3. ~crowded => \A q \in Procs \ {p} : at[q] \notin {"opened", "remove"}
      BY DEF LockInv, OneStarts, Starting
    <3>4. QED
      BY <2>1, <3>1, <3>2, <3>3 DEF NoneUp
  <2>3. CASE file # NoFile
    <3>1. at'[p] = "check" /\ file' = file
      BY <2>3 DEF LockInv, LockTypeOK
    <3>2. QED
      BY <2>1, <3>1 DEF LockInv, NoneUp
  <2>4. QED
    BY <2>2, <2>3
<1>5. OneServer'
  <2>1. \A q \in Servers : at'[q] = "up" => at[q] = "up"
    BY DEF LockInv, LockTypeOK, Servers
  <2>2. CASE file = NoFile
    <3>1. ~crowded => \A q \in Servers : at[q] # "up"
      BY <2>2 DEF LockInv, OneServer
    <3>2. QED
      BY <2>1, <3>1 DEF OneServer
  <2>3. CASE file # NoFile
    BY <2>1, <2>3 DEF LockInv, OneServer
  <2>4. QED
    BY <2>2, <2>3
<1>6. QED
  BY <1>1, <1>2, <1>3, <1>4, <1>5 DEF LockInv

LEMMA WriteLockInv ==
  ASSUME LockInv, NEW p \in Procs, Write(p)
  PROVE  LockInv'
<1> USE DEF Write, Go
<1>1. LockTypeOK'
  BY DEF LockInv, LockTypeOK, Ats
<1>2. OwnPids'
  BY DEF LockInv, LockTypeOK, OwnPids, Living
<1>3. OneStarts'
  BY DEF LockInv, LockTypeOK, OneStarts, Starting, Servers
<1>4. NoneUp'
  BY DEF LockInv, LockTypeOK, NoneUp, OneStarts, Starting
<1>5. OneServer'
  <2>1. ~crowded => file' = [by |-> p, written |-> TRUE]
    <3>1. ~crowded => file = [by |-> p, written |-> FALSE]
      BY DEF LockInv, NoneUp
    <3>2. ~crowded => file.by = p /\ file' = [file EXCEPT !.written = TRUE]
      BY <3>1
    <3>3. QED
      BY <3>1, <3>2
  <2>2. ~crowded => \A q \in Servers : at'[q] = "up" => q = p
    BY DEF LockInv, LockTypeOK, NoneUp, Servers
  <2>3. QED
    BY <2>1, <2>2 DEF OneServer
<1>6. QED
  BY <1>1, <1>2, <1>3, <1>4, <1>5 DEF LockInv

(* A server that is up is not taken for a stale one: its pid is its own,    *)
(* and a living process has it.                                             *)
LEMMA UpIsNotStale ==
  ASSUME LockInv, ~crowded, NEW p \in Procs, at[p] = "check",
         NEW q \in Procs, at[q] = "up"
  PROVE  ~Stale(p)
<1>1. q \in Servers /\ file = [by |-> q, written |-> TRUE]
  BY DEF LockInv, OneStarts, OneServer
<1>2. Living(p) /\ Living(q) /\ p # q
  BY DEF Living
<1>3. pid[q] # pid[p]
  BY <1>2 DEF LockInv, OwnPids
<1>4. QED
  BY <1>1, <1>2, <1>3 DEF Stale

LEMMA CheckLockInv ==
  ASSUME LockInv, NEW p \in Procs, Check(p)
  PROVE  LockInv'
<1> USE DEF Check, Go
<1>1. LockTypeOK'
  BY DEF LockInv, LockTypeOK, Ats
<1>2. OwnPids'
  BY DEF LockInv, LockTypeOK, OwnPids, Living
<1>3. OneStarts'
  BY DEF LockInv, LockTypeOK, OneStarts, Starting, Servers
<1>4. NoneUp'
  <2> SUFFICES ASSUME ~crowded', NEW q \in Procs PROVE
        /\ at'[q] = "opened" => file' = [by |-> q, written |-> FALSE]
        /\ at'[q] \in {"opened", "remove"} => \A r \in Procs : at'[r] # "up"
    BY DEF NoneUp
  <2>1. CASE q = p
    BY <2>1, UpIsNotStale DEF LockInv, LockTypeOK
  <2>2. CASE q # p
    BY <2>2 DEF LockInv, LockTypeOK, NoneUp
  <2>3. QED
    BY <2>1, <2>2
<1>5. OneServer'
  BY DEF LockInv, LockTypeOK, OneServer, Servers
<1>6. QED
  BY <1>1, <1>2, <1>3, <1>4, <1>5 DEF LockInv

LEMMA RemoveLockInv ==
  ASSUME LockInv, NEW p \in Procs, Remove(p)
  PROVE  LockInv'
<1> USE DEF Remove, Go, NoFile
<1>1. LockTypeOK'
  BY DEF LockInv, LockTypeOK, Ats
<1>2. OwnPids'
  BY DEF LockInv, LockTypeOK, OwnPids, Living
<1>3. OneStarts'
  BY DEF LockInv, LockTypeOK, OneStarts, Starting, Servers
<1>4. NoneUp'
  BY DEF LockInv, LockTypeOK, NoneUp, OneStarts, Starting
<1>5. OneServer'
  BY DEF LockInv, LockTypeOK, NoneUp, OneServer, Servers
<1>6. QED
  BY <1>1, <1>2, <1>3, <1>4, <1>5 DEF LockInv

LEMMA ReleaseLockInv ==
  ASSUME LockInv, NEW p \in Procs, Release(p)
  PROVE  LockInv'
<1> USE DEF Release, Go, NoFile
<1>1. LockTypeOK'
  BY DEF LockInv, LockTypeOK, Ats
<1>2. OwnPids'
  BY DEF LockInv, LockTypeOK, OwnPids, Living
<1>3. OneStarts'
  BY DEF LockInv, LockTypeOK, OneStarts, Starting, Servers
<1>4. NoneUp'
  BY DEF LockInv, LockTypeOK, NoneUp
<1>5. OneServer'
  BY DEF LockInv, LockTypeOK, OneStarts, OneServer, Servers
<1>6. QED
  BY <1>1, <1>2, <1>3, <1>4, <1>5 DEF LockInv

LEMMA ExitLockInv ==
  ASSUME LockInv, NEW p \in Procs, Exit(p)
  PROVE  LockInv'
<1> USE DEF Exit, Go
<1>1. LockTypeOK'
  BY DEF LockInv, LockTypeOK, Ats
<1>2. OwnPids'
  BY DEF LockInv, LockTypeOK, OwnPids, Living
<1>3. OneStarts'
  BY DEF LockInv, LockTypeOK, OneStarts, Starting, Servers
<1>4. NoneUp' /\ OneServer'
  BY DEF LockInv, LockTypeOK, NoneUp, OneServer, Servers
<1>5. QED
  BY <1>1, <1>2, <1>3, <1>4 DEF LockInv

LEMMA StepLockInv == LockInv /\ [Next]_vars => LockInv'
<1> SUFFICES ASSUME LockInv, [Next]_vars PROVE LockInv'
  OBVIOUS
<1>1. CASE UNCHANGED vars
  BY <1>1 DEF vars, LockInv, LockTypeOK, OwnPids, OneStarts, NoneUp, OneServer, Living
<1>2. CASE Next
  <2>1. PICK p \in Procs :
            Step(p) \/ Release(p) \/ Exit(p) \/ \E n \in Pids : Start(p, n)
    BY <1>2 DEF Next
  <2>2. QED
    BY <2>1, OpenLockInv, WriteLockInv, CheckLockInv, RemoveLockInv, ReleaseLockInv,
      ExitLockInv, StartLockInv
    DEF Step
<1>3. QED
  BY <1>1, <1>2

(* acquireAgentServerInstanceLock: servers that start one after the other   *)
(* are up one at a time, and the file names the one that is.                *)
THEOREM OneServerAtATime == Spec => []OneServer
<1>1. Init => LockInv
  BY InitLockInv
<1>2. LockInv /\ [Next]_vars => LockInv'
  BY StepLockInv
<1>3. LockInv => OneServer
  BY DEF LockInv
<1>4. QED
  BY <1>1, <1>2, <1>3, PTL DEF Spec

===============================================================================
