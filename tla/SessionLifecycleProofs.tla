----------------------- MODULE SessionLifecycleProofs -----------------------
(***************************************************************************)
(* The safety properties of SessionLifecycle, for any sets of turns and    *)
(* messages and any number of errors.  Each part states what is inductive  *)
(* together with the types and goes through the actions once.              *)
(***************************************************************************)
EXTENDS SessionLifecycle, FiniteSetTheorems, TLAPS

-----------------------------------------------------------------------------
(* The types.                                                               *)

Rows == [exists : BOOLEAN, running : BOOLEAN, phase : Phases, intr : BOOLEAN]
TurnKinds == {"user", "answer", "failure", "again"}
Entries == [of : Turns \cup Interrupts \cup Branches,
            kind : TurnKinds \cup {"interrupt", "compact", "error"}]
TurnPcs == LivePcs \cup {"idle", "leaving", "throw", "done"}
DelPcs == {"idle", "request", "runtime", "complete", "poll", "delete", "done"}
CutPcs == {"idle", "check", "list", "delete", "done"}
BranchPcs == {"idle", "check", "list", "create", "start", "mark", "announce", "compact",
              "append", "end", "catch", "fail", "failRow", "tell", "tellFailed", "done",
              "gone", "unhandled"}
IntPcs == {"idle", "append", "request", "runtime", "complete", "done"}
Somewhere == Sessions \cup {None}
Someone == Turns \cup {None}

Types ==
    /\ row \in [Sessions -> Rows]
    /\ data \in [Sessions -> Seq(Entries)]
    /\ scope \in [Sessions -> [turn : Someone, phase : Phases]]
    /\ turn \in [Turns -> [at : TurnPcs, on : Somewhere, tries : Nat]]
    /\ del \in [Deletes -> [at : DelPcs, on : Somewhere, phase : Phases]]
    /\ cut \in [Cuts -> [at : CutPcs, of : Someone, ids : SUBSET Entries]]
    /\ branch \in [Branches -> [at : BranchPcs, of : Someone, src : SUBSET Entries]]
    /\ intr \in [Interrupts -> [at : IntPcs, on : Somewhere, phase : Phases]]
    /\ fresh \in [Deletes -> SUBSET Turns]
    /\ faults \in Nat

(* A message that is under way, and a turn, has a session; a session that is *)
(* not there has no history.                                                 *)
Placed ==
    /\ \A t \in Turns : turn[t].at # "idle" => turn[t].on \in Sessions
    /\ \A d \in Deletes : del[d].at # "idle" => del[d].on \in Sessions
    /\ \A x \in Interrupts : intr[x].at # "idle" => intr[x].on \in Sessions
    /\ \A s \in Sessions : ~ row[s].exists => row[s] = NoRow /\ data[s] = << >>

Typed == Types /\ Placed

-----------------------------------------------------------------------------
(* Without: what is left of a history keeps its order.                       *)

(* A subsequence: what is left of rows stands at the places p, in order.    *)
Selects(p, rest, rows) ==
    /\ p \in [1..Len(rest) -> 1..Len(rows)]
    /\ \A m, n \in 1..Len(rest) : m < n => p[m] < p[n]
    /\ \A n \in 1..Len(rest) : rest[n] = rows[p[n]]

LEMMA WithoutFacts ==
    ASSUME NEW E, NEW rows \in Seq(E), NEW ids
    PROVE  /\ Without(rows, ids) \in Seq(E)
           /\ \E p : /\ Selects(p, Without(rows, ids), rows)
                     /\ \A i \in 1..Len(rows) :
                           rows[i] \notin ids <=> \E n \in 1..Len(Without(rows, ids)) : p[n] = i
<1> DEFINE kept == {i \in DOMAIN rows : rows[i] \notin ids}
           Upto(i) == {j \in kept : j <= i}
           r == [i \in kept |-> Cardinality(Upto(i))]
           N == Cardinality(kept)
<1>1. kept \subseteq 1..Len(rows) /\ kept \subseteq Int
  OBVIOUS
<1>2. IsFiniteSet(kept) /\ N \in Nat
  <2>1. IsFiniteSet(1..Len(rows))
    BY FS_Interval
  <2> QED BY <1>1, <2>1, FS_Subset, FS_CardinalityType
<1>3. \A i \in kept : IsFiniteSet(Upto(i)) /\ r[i] \in Nat /\ r[i] <= N /\ r[i] > 0
  <2> TAKE i \in kept
  <2>1. Upto(i) \in SUBSET kept
    OBVIOUS
  <2>2. IsFiniteSet(Upto(i)) /\ Cardinality(Upto(i)) \in Nat /\ Cardinality(Upto(i)) <= N
    BY <1>2, <2>1, FS_Subset, FS_CardinalityType
  <2>3. i \in Upto(i)
    BY <1>1
  <2>4. Cardinality(Upto(i)) # 0
    BY <2>2, <2>3, FS_EmptySet
  <2> HIDE DEF kept, Upto, N
  <2> QED BY <2>2, <2>4
<1>4. \A i, j \in kept : i < j => r[i] < r[j]
  <2> TAKE i, j \in kept
  <2> HAVE i < j
  <2>1. Upto(i) \in SUBSET Upto(j) /\ j \in Upto(j) /\ j \notin Upto(i)
    BY <1>1
  <2>2. Cardinality(Upto(i)) <= Cardinality(Upto(j)) /\ Cardinality(Upto(i)) # Cardinality(Upto(j))
    <3> HIDE DEF Upto
    <3> QED BY <2>1, <1>3, FS_Subset
  <2>3. r[i] = Cardinality(Upto(i)) /\ r[j] = Cardinality(Upto(j))
    OBVIOUS
  <2>4. r[i] \in Nat /\ r[j] \in Nat
    BY <1>3
  <2> HIDE DEF r, Upto, kept
  <2> QED BY <2>2, <2>3, <2>4
<1>r. \A i \in kept : r[i] \in Int /\ 0 < r[i] /\ r[i] <= N
  <2> HIDE DEF kept, Upto, r, N
  <2> QED BY <1>3
<1> HIDE DEF r
<1>5. r \in Injection(kept, 1..N)
  <2>1. r \in [kept -> 1..N]
    <3>1. \A i \in kept : r[i] \in 1..N
      <4> HIDE DEF kept, N
      <4> QED BY <1>2, <1>r
    <3> QED BY <3>1 DEF r
  <2>2. \A i, j \in kept : r[i] = r[j] => i = j
    <3> TAKE i, j \in kept
    <3>1. i \in Int /\ j \in Int /\ r[i] \in Nat /\ r[j] \in Nat
      BY <1>1, <1>3
    <3>2. (i < j => r[i] < r[j]) /\ (j < i => r[j] < r[i])
      BY <1>4
    <3> HIDE DEF kept
    <3> QED BY <3>1, <3>2
  <2> HIDE DEF kept, N
  <2> QED BY <2>1, <2>2 DEF Injection, IsInjective
<1>6. r \in Surjection(kept, 1..N)
  <2>1. IsFiniteSet(1..N) /\ Cardinality(1..N) = N
    <3> HIDE DEF N
    <3>1. IsFiniteSet(1..N) /\ Cardinality(1..N) = IF 1 > N THEN 0 ELSE N - 1 + 1
      BY <1>2, FS_Interval
    <3> QED BY <1>2, <3>1
  <2> QED BY <1>5, <2>1, FS_Injection
<1>7. \A n \in 1..N : \E i \in kept : r[i] = n
  <2> HIDE DEF kept, N
  <2> QED BY <1>6 DEF Surjection
<1> DEFINE p == [n \in 1..N |-> CHOOSE i \in kept : r[i] = n]
           rest == [n \in 1..N |-> rows[p[n]]]
<1>8. \A n \in 1..N : p[n] \in kept /\ r[p[n]] = n
  <2> HIDE DEF kept, N
  <2> QED BY <1>7
<1>9. Without(rows, ids) = rest
  <2>1. \A n \in 1..N : p[n] = CHOOSE i \in kept : Cardinality(Upto(i)) = n
    <3> TAKE n \in 1..N
    <3>1. \A i \in kept : r[i] = Cardinality(Upto(i))
      BY DEF r
    <3>2. (CHOOSE i \in kept : r[i] = n) = (CHOOSE i \in kept : Cardinality(Upto(i)) = n)
      <4> HIDE DEF kept, Upto
      <4> QED BY <3>1, Zenon
    <3> HIDE DEF kept, Upto, N
    <3> QED BY <3>2
  <2>2. Without(rows, ids) = [n \in 1..N |-> rows[CHOOSE i \in kept : Cardinality(Upto(i)) = n]]
    BY DEF Without
  <2> HIDE DEF kept, Upto, N, p
  <2> QED BY <2>1, <2>2
<1>10. \A m, n \in 1..N : m < n => p[m] < p[n]
  <2> TAKE m, n \in 1..N
  <2> HAVE m < n
  <2>1. p[m] \in kept /\ p[n] \in kept /\ r[p[m]] = m /\ r[p[n]] = n
    BY <1>8
  <2>2. p[m] \in Int /\ p[n] \in Int
    BY <2>1, <1>1
  <2>3. p[n] < p[m] => n < m
    <3> HIDE DEF kept, p
    <3> QED BY <1>4, <2>1
  <2>4. p[n] # p[m]
    <3> HIDE DEF kept, p, N
    <3> QED BY <2>1
  <2>5. m \in Int /\ n \in Int
    <3> HIDE DEF N
    <3> QED BY <1>2
  <2> HIDE DEF p, kept, N
  <2> QED BY <2>2, <2>3, <2>4, <2>5
<1>11. \A n \in 1..N : p[n] \in 1..Len(rows) /\ rows[p[n]] \in E /\ rows[p[n]] \notin ids
  <2> TAKE n \in 1..N
  <2>1. p[n] \in kept
    BY <1>8
  <2> HIDE DEF p, N
  <2> QED BY <2>1, <1>1
<1>12. \A i \in 1..Len(rows) : rows[i] \notin ids => \E n \in 1..N : p[n] = i
  <2> TAKE i \in 1..Len(rows)
  <2> HAVE rows[i] \notin ids
  <2>1. i \in kept
    OBVIOUS
  <2>2. r[i] \in 1..N
    <3> HIDE DEF kept, N
    <3> QED BY <2>1, <1>2, <1>r
  <2>3. p[r[i]] \in kept /\ r[p[r[i]]] = r[i]
    BY <2>2, <1>8
  <2>4. p[r[i]] = i
    <3> HIDE DEF kept, p, N
    <3>1. p[r[i]] \in Int /\ i \in Int
      BY <2>1, <2>3, <1>1
    <3>2. (p[r[i]] < i => r[p[r[i]]] < r[i]) /\ (i < p[r[i]] => r[i] < r[p[r[i]]])
      BY <2>1, <2>3, <1>4
    <3>3. r[i] \in Nat
      BY <2>1, <1>3
    <3> QED BY <2>3, <3>1, <3>2, <3>3
  <2> HIDE DEF p, N
  <2> QED BY <2>2, <2>4
<1>13. DOMAIN p = 1..N
  OBVIOUS
<1> HIDE DEF kept, N, p
<1>14. rest \in Seq(E) /\ Len(rest) = N /\ \A n \in 1..N : rest[n] = rows[p[n]]
  BY <1>2, <1>11
<1>15. p \in [1..N -> 1..Len(rows)]
  BY <1>11, <1>13 DEF p
<1> HIDE DEF rest
<1>16. Selects(p, rest, rows)
  BY <1>10, <1>14, <1>15 DEF Selects
<1>17. \A i \in 1..Len(rows) : rows[i] \notin ids <=> \E n \in 1..N : p[n] = i
  BY <1>11, <1>12
<1> QED BY <1>9, <1>14, <1>16, <1>17

LEMMA Records ==
    /\ NoRow \in Rows /\ IdleRow \in Rows
    /\ NoScope \in [turn : Someone, phase : Phases]
    /\ \A p \in Phases \ {"idle"} :
          [exists |-> TRUE, running |-> TRUE, phase |-> p, intr |-> FALSE] \in Rows
    /\ \A v \in BOOLEAN : [IdleRow EXCEPT !.intr = v]
                = [exists |-> TRUE, running |-> FALSE, phase |-> "idle", intr |-> v]
<1>1. NoRow \in Rows /\ IdleRow \in Rows
  BY DEF NoRow, IdleRow, Rows, Phases
<1>2. /\ IdleRow.exists = TRUE /\ IdleRow.running = FALSE
      /\ IdleRow.phase = "idle" /\ IdleRow.intr = FALSE
  BY DEF NoRow, IdleRow
<1>3. ASSUME NEW v \in BOOLEAN
      PROVE  [IdleRow EXCEPT !.intr = v]
                = [exists |-> TRUE, running |-> FALSE, phase |-> "idle", intr |-> v]
  <2> DEFINE a == [IdleRow EXCEPT !.intr = v]
             b == [exists |-> TRUE, running |-> FALSE, phase |-> "idle", intr |-> v]
  <2>1. a \in Rows /\ a.exists = IdleRow.exists /\ a.running = IdleRow.running
        /\ a.phase = IdleRow.phase /\ a.intr = v
    BY <1>1 DEF Rows
  <2>2. b \in Rows /\ b.exists = TRUE /\ b.running = FALSE /\ b.phase = "idle" /\ b.intr = v
    BY DEF Rows, Phases
  <2> HIDE DEF a, b
  <2>3. a = b
    BY <1>1, <1>2, <2>1, <2>2 DEF Rows
  <2> QED BY <2>3 DEF a, b
<1> QED BY <1>1, <1>3 DEF Rows, NoScope, Someone, Phases

LEMMA InitTyped == Init => Typed
<1> SUFFICES ASSUME Init PROVE Typed
  OBVIOUS
<1> USE DEF Init
<1>1. row \in [Sessions -> Rows] /\ scope \in [Sessions -> [turn : Someone, phase : Phases]]
  BY Records
<1>2. data \in [Sessions -> Seq(Entries)]
  OBVIOUS
<1>3. turn \in [Turns -> [at : TurnPcs, on : Somewhere, tries : Nat]]
  BY DEF TurnPcs, Somewhere
<1>4. /\ del \in [Deletes -> [at : DelPcs, on : Somewhere, phase : Phases]]
      /\ intr \in [Interrupts -> [at : IntPcs, on : Somewhere, phase : Phases]]
  BY DEF DelPcs, IntPcs, Somewhere, Phases
<1>5. /\ cut \in [Cuts -> [at : CutPcs, of : Someone, ids : SUBSET Entries]]
      /\ branch \in [Branches -> [at : BranchPcs, of : Someone, src : SUBSET Entries]]
  BY DEF CutPcs, BranchPcs, Someone
<1>6. fresh \in [Deletes -> SUBSET Turns] /\ faults \in Nat
  OBVIOUS
<1>7. Types
  BY <1>1, <1>2, <1>3, <1>4, <1>5, <1>6 DEF Types
<1>8. \A s \in Sessions : ~ row[s].exists => row[s] = NoRow /\ data[s] = << >>
  BY DEF IdleRow, NoRow
<1>9. Placed
  BY <1>8 DEF Placed
<1> QED BY <1>7, <1>9 DEF Typed

(* The queries shared by the messages, and what they leave of the types.    *)
LEMMA ClearRunningTyped ==
    ASSUME Types, Placed, NEW s \in Sessions, NEW k \in BOOLEAN, NEW by, ClearRunning(s, k, by)
    PROVE  /\ row' \in [Sessions -> Rows]
           /\ \A z \in Sessions : row'[z].exists = row[z].exists
           /\ \A z \in Sessions : z # s => row'[z] = row[z]
           /\ row[s].exists
           /\ ~ row'[s].running
           /\ row'[s].intr = (k /\ row[s].intr)
           /\ unmarked' = unmarked \cup (LiveOn(s) \ {by})
<1> DEFINE kept == (k /\ row[s].intr)
           new == [exists |-> TRUE, running |-> FALSE, phase |-> "idle", intr |-> kept]
<1>1. row' = [row EXCEPT ![s] = [IdleRow EXCEPT !.intr = kept]] /\ row[s].exists
  BY DEF ClearRunning
<1>2. row[s] \in Rows /\ row \in [Sessions -> Rows]
  BY DEF Types
<1>3. kept \in BOOLEAN /\ "idle" \in Phases
  BY <1>2 DEF Rows, Phases
<1> HIDE DEF kept
<1>4. [IdleRow EXCEPT !.intr = kept] = new
  BY Records, <1>3
<1>5. new \in Rows /\ new.exists /\ ~ new.running /\ new.intr = kept
  BY <1>3 DEF Rows
<1> HIDE DEF new
<1>6. row' \in [Sessions -> Rows] /\ row'[s] = new /\ \A z \in Sessions : z # s => row'[z] = row[z]
  BY <1>1, <1>2, <1>4, <1>5
<1>7. unmarked' = unmarked \cup (LiveOn(s) \ {by})
  BY DEF ClearRunning
<1>8. \A z \in Sessions : row'[z].exists = row[z].exists
  <2>1. row[s].exists = TRUE /\ new.exists = TRUE
    BY <1>1, <1>2, <1>5 DEF Rows, new
  <2> QED BY <1>6, <2>1
<1> QED BY <1>1, <1>5, <1>6, <1>7, <1>8 DEF kept

LEMMA RequestTyped ==
    ASSUME Types, Placed, NEW s \in Sessions, NEW p \in Phases, RequestInterrupt(s, p)
    PROVE  /\ row' \in [Sessions -> Rows]
           /\ \A z \in Sessions : /\ row'[z].exists = row[z].exists
                                  /\ row'[z].running = row[z].running
           /\ \A z \in Sessions : z # s => row'[z] = row[z]
           /\ row[s].exists
           /\ missed' = IF \E t \in LiveOn(s) : turn[t].at \in LookPcs
                        THEN missed \ {s} ELSE missed \cup {s}
<1> DEFINE new == [row[s] EXCEPT !.intr = TRUE, !.phase = IF p = "idle" THEN @ ELSE p]
<1>1. row[s] \in Rows /\ row \in [Sessions -> Rows]
  BY DEF Types
<1>2. new \in Rows /\ new.exists = row[s].exists /\ new.running = row[s].running
  BY <1>1 DEF Rows
<1>3. row' = [row EXCEPT ![s] = new]
  <2>1. row' = [row EXCEPT ![s].intr = TRUE, ![s].phase = IF p = "idle" THEN @ ELSE p]
    BY DEF RequestInterrupt
  <2> QED BY <1>1, <2>1 DEF Rows
<1> HIDE DEF new
<1>4. row' \in [Sessions -> Rows] /\ row'[s] = new /\ \A z \in Sessions : z # s => row'[z] = row[z]
  BY <1>1, <1>2, <1>3
<1> QED BY <1>2, <1>4 DEF RequestInterrupt

LEMMA RuntimeTyped ==
    ASSUME Types, NEW s \in Sessions, RuntimeInterrupt(s)
    PROVE  /\ scope' \in [Sessions -> [turn : Someone, phase : Phases]]
           /\ \A z \in Sessions : scope'[z].turn = scope[z].turn
<1>1. scope[s] \in [turn : Someone, phase : Phases] /\ "interrupted" \in Phases
  BY DEF Types, Phases
<1>2. CASE scope' = [scope EXCEPT ![s].phase = "interrupted"]
  BY <1>1, <1>2 DEF Types
<1>3. CASE scope' = scope
  BY <1>3 DEF Types
<1> QED BY <1>2, <1>3 DEF RuntimeInterrupt

LEMMA AppendTyped ==
    ASSUME Types, NEW s \in Sessions, NEW of \in Turns \cup Interrupts \cup Branches,
           NEW kind \in TurnKinds \cup {"interrupt", "compact", "error"}, AppendRow(s, of, kind)
    PROVE  /\ data' \in [Sessions -> Seq(Entries)]
           /\ data'[s] = Append(data[s], Entry(of, kind))
           /\ \A z \in Sessions : z # s => data'[z] = data[z]
<1>1. Entry(of, kind) \in Entries
  BY DEF Entry, Entries
<1>2. data[s] \in Seq(Entries) /\ data \in [Sessions -> Seq(Entries)]
  BY DEF Types
<1>3. data' = [data EXCEPT ![s] = Append(data[s], Entry(of, kind))]
  BY DEF AppendRow
<1> HIDE DEF Entry
<1>4. Append(data[s], Entry(of, kind)) \in Seq(Entries)
  BY <1>1, <1>2
<1> QED BY <1>2, <1>3, <1>4

(* Where a turn or a message goes, the rest of its record stays.            *)
OthersStay(t) == \A u \in Turns : u # t => turn'[u] = turn[u]

LEMMA GotoFacts ==
    ASSUME Types, NEW t \in Turns, NEW p \in TurnPcs, Goto(t, p)
    PROVE  /\ turn' \in [Turns -> [at : TurnPcs, on : Somewhere, tries : Nat]]
           /\ turn'[t].at = p /\ turn'[t].on = turn[t].on /\ turn'[t].tries = turn[t].tries
           /\ OthersStay(t)
<1> DEFINE r == [turn[t] EXCEPT !.at = p]
<1>1. turn' = [turn EXCEPT ![t] = r]
  BY DEF Goto, Types
<1>2. turn[t] \in [at : TurnPcs, on : Somewhere, tries : Nat]
  BY DEF Types
<1>3. r \in [at : TurnPcs, on : Somewhere, tries : Nat]
      /\ r.at = p /\ r.on = turn[t].on /\ r.tries = turn[t].tries
  BY <1>2
<1> HIDE DEF r
<1> QED BY <1>1, <1>3 DEF Types, OthersStay

LEMMA FailFacts ==
    ASSUME Types, NEW t \in Turns, NEW p \in TurnPcs, Fail(t, p)
    PROVE  /\ turn' \in [Turns -> [at : TurnPcs, on : Somewhere, tries : Nat]]
           /\ turn'[t].at = IF turn[t].tries < 2 THEN p ELSE "throw"
           /\ turn'[t].tries = IF turn[t].tries < 2 THEN turn[t].tries + 1 ELSE turn[t].tries
           /\ turn'[t].on = turn[t].on
           /\ OthersStay(t)
<1> DEFINE at == IF turn[t].tries < 2 THEN p ELSE "throw"
           n == IF turn[t].tries < 2 THEN turn[t].tries + 1 ELSE turn[t].tries
<1>1. turn[t] \in [at : TurnPcs, on : Somewhere, tries : Nat]
  BY DEF Types
<1>2. at \in TurnPcs /\ n \in Nat
  BY <1>1 DEF TurnPcs
<1>3. turn' = [turn EXCEPT ![t] = [turn[t] EXCEPT !.at = at, !.tries = n]]
  <2>1. turn' = [turn EXCEPT ![t].at = at, ![t].tries = IF @ < 2 THEN @ + 1 ELSE @]
    BY DEF Fail
  <2> HIDE DEF at
  <2> QED BY <1>1, <2>1 DEF Types
<1> HIDE DEF at, n
<1>4. /\ turn' \in [Turns -> [at : TurnPcs, on : Somewhere, tries : Nat]]
      /\ turn'[t].at = at /\ turn'[t].tries = n /\ turn'[t].on = turn[t].on
      /\ OthersStay(t)
  BY <1>1, <1>2, <1>3 DEF Types, OthersStay
<1> QED BY <1>4 DEF at, n

LEMMA DelGotoFacts ==
    ASSUME Types, NEW d \in Deletes, NEW p \in DelPcs, DelGoto(d, p)
    PROVE  /\ del' \in [Deletes -> [at : DelPcs, on : Somewhere, phase : Phases]]
           /\ del'[d].at = p /\ del'[d].on = del[d].on
           /\ \A z \in Deletes : z # d => del'[z] = del[z]
<1> DEFINE r == [del[d] EXCEPT !.at = p]
<1>1. del' = [del EXCEPT ![d] = r]
  BY DEF DelGoto, Types
<1>2. del[d] \in [at : DelPcs, on : Somewhere, phase : Phases]
  BY DEF Types
<1>3. r \in [at : DelPcs, on : Somewhere, phase : Phases] /\ r.at = p /\ r.on = del[d].on
  BY <1>2
<1> HIDE DEF r
<1> QED BY <1>1, <1>3 DEF Types

LEMMA BranchGotoFacts ==
    ASSUME Types, NEW b \in Branches, NEW p \in BranchPcs, BranchGoto(b, p)
    PROVE  /\ branch' \in [Branches -> [at : BranchPcs, of : Someone, src : SUBSET Entries]]
           /\ branch'[b].at = p /\ branch'[b].of = branch[b].of /\ branch'[b].src = branch[b].src
           /\ \A z \in Branches : z # b => branch'[z] = branch[z]
<1>1. branch' = [branch EXCEPT ![b] = [branch[b] EXCEPT !.at = p]]
  BY DEF BranchGoto, Types
<1> QED BY <1>1 DEF Types

LEMMA IntGotoFacts ==
    ASSUME Types, NEW x \in Interrupts, NEW p \in IntPcs, IntGoto(x, p)
    PROVE  /\ intr' \in [Interrupts -> [at : IntPcs, on : Somewhere, phase : Phases]]
           /\ intr'[x].at = p /\ intr'[x].on = intr[x].on
           /\ \A z \in Interrupts : z # x => intr'[z] = intr[z]
<1>1. intr' = [intr EXCEPT ![x] = [intr[x] EXCEPT !.at = p]]
  BY DEF IntGoto, Types
<1> QED BY <1>1 DEF Types

LEMMA TurnTyped ==
    ASSUME Typed, NEW t \in Turns, Turn(t)
    PROVE  Typed'
<1> USE DEF Typed
<1>0. turn[t] \in [at : TurnPcs, on : Somewhere, tries : Nat] /\ None \notin Sessions
  BY NamesAssumption DEF Types, Sessions
<1>1. ASSUME NEW s \in Sessions, StartTurn(t, s) PROVE Typed'
  <2>1. CASE row[s].running
    <3>1. turn' = [turn EXCEPT ![t] = [at |-> "done", on |-> s, tries |-> 0]]
          /\ UNCHANGED <<row, data, scope, messages, fresh, faults>>
      BY <1>1, <2>1 DEF StartTurn
    <3>2. [at |-> "done", on |-> s, tries |-> 0] \in [at : TurnPcs, on : Somewhere, tries : Nat]
      BY DEF TurnPcs, Somewhere
    <3>3. Types'
      BY <3>1, <3>2 DEF Types, messages
    <3>4. Placed'
      BY <3>1, <3>2 DEF Types, messages, Placed
    <3> QED BY <3>3, <3>4
  <2>2. CASE ~ row[s].running
    <3> DEFINE r == [exists |-> TRUE, running |-> TRUE, phase |-> "starting", intr |-> FALSE]
    <3>1. /\ turn' = [turn EXCEPT ![t] = [at |-> "scope", on |-> s, tries |-> 0]]
          /\ row' = [row EXCEPT ![s] = r]
          /\ fresh' = [d \in Deletes |-> IF del[d].at = "delete" /\ del[d].on = s
                                         THEN fresh[d] \cup {t} ELSE fresh[d]]
          /\ UNCHANGED <<data, scope, messages, faults>>
      BY <1>1, <2>2 DEF StartTurn
    <3>2. [at |-> "scope", on |-> s, tries |-> 0] \in [at : TurnPcs, on : Somewhere, tries : Nat]
      BY DEF TurnPcs, LivePcs, LookPcs, Somewhere
    <3>3. r \in Rows /\ r.exists = TRUE
      BY Records DEF Phases
    <3> HIDE DEF r
    <3>4. fresh' \in [Deletes -> SUBSET Turns]
      BY <3>1 DEF Types
    <3>5. Types'
      BY <3>1, <3>2, <3>3, <3>4 DEF Types, messages
    <3>6. Placed'
      BY <3>1, <3>2, <3>3 DEF Types, messages, Placed
    <3> QED BY <3>5, <3>6
  <2> QED BY <2>1, <2>2
<1>2. CASE BeginScope(t)
  <2>1. turn[t].on \in Sessions
    BY <1>2 DEF BeginScope, Placed
  <2>2. PICK p \in {"compacting", "input"} : Goto(t, p)
    BY <1>2 DEF BeginScope
  <2>3. p \in TurnPcs
    BY DEF TurnPcs, LivePcs, LookPcs
  <2>4. /\ scope' = [scope EXCEPT ![turn[t].on] = [turn |-> t, phase |-> "starting"]]
        /\ UNCHANGED <<row, data, messages, fresh, faults>>
        /\ turn[t].at = "scope"
    BY <1>2 DEF BeginScope
  <2>5. [turn |-> t, phase |-> "starting"] \in [turn : Someone, phase : Phases]
    BY DEF Someone, Phases
  <2>6. Types'
    BY <2>2, <2>3, <2>4, <2>5, GotoFacts DEF Types, messages
  <2>7. Placed'
    BY <2>1, <2>2, <2>3, <2>4, GotoFacts DEF Placed, messages, OthersStay
  <2> QED BY <2>6, <2>7
<1>3. ASSUME NEW p \in {"compacting", "model", "finalizing"},
             NEW check \in {"checkCompacting", "checkModel", "checkFinalizing"},
             SetPhase(t, p, check)
      PROVE  Typed'
  <2>1. turn[t].at = p /\ UNCHANGED <<data, messages, fresh, faults>> /\ turn[t].on \in Sessions
    BY <1>3 DEF SetPhase, Placed
  <2>2. p \in Phases /\ p \in TurnPcs /\ check \in TurnPcs /\ "throw" \in TurnPcs /\ "failed" \in TurnPcs
    BY DEF Phases, TurnPcs, LivePcs, LookPcs
  <2>3. scope' \in [Sessions -> [turn : Someone, phase : Phases]]
    <3> DEFINE s == turn[t].on
               new == [scope[s] EXCEPT !.phase = IF @ # "idle" /\ scope[s].turn = t THEN p ELSE @]
    <3>1. scope[s] \in [turn : Someone, phase : Phases]
      BY <2>1 DEF Types
    <3>2. new \in [turn : Someone, phase : Phases]
      BY <3>1, <2>2
    <3>3. scope' = [scope EXCEPT ![s].phase = IF @ # "idle" /\ scope[s].turn = t THEN p ELSE @]
      BY <1>3 DEF SetPhase
    <3>4. scope' = [scope EXCEPT ![s] = new]
      BY <2>1, <3>1, <3>3 DEF Types
    <3> HIDE DEF new
    <3> QED BY <3>2, <3>4 DEF Types
  <2>4. /\ row' \in [Sessions -> Rows]
        /\ \A s \in Sessions : row'[s].exists = row[s].exists
        /\ \A s \in Sessions : ~ row[s].exists => row'[s] = row[s]
    <3>1. CASE UNCHANGED row
      BY <3>1 DEF Types
    <3>2. CASE row' = [row EXCEPT ![turn[t].on].phase = p] /\ row[turn[t].on].exists
      <4>1. row' = [row EXCEPT ![turn[t].on] = [row[turn[t].on] EXCEPT !.phase = p]]
        BY <3>2, <2>1 DEF Types
      <4>2. [row[turn[t].on] EXCEPT !.phase = p] \in Rows
            /\ [row[turn[t].on] EXCEPT !.phase = p].exists = row[turn[t].on].exists
        <5>1. row[turn[t].on] \in Rows
        BY <2>1 DEF Types
      <5> QED BY <5>1, <2>2 DEF Rows
      <4> QED BY <4>1, <4>2, <3>2, <2>1 DEF Types
    <3> QED BY <1>3, <3>1, <3>2 DEF SetPhase
  <2>5. /\ turn' \in [Turns -> [at : TurnPcs, on : Somewhere, tries : Nat]]
        /\ turn'[t].on = turn[t].on /\ OthersStay(t)
    <3>1. Goto(t, check) \/ Goto(t, "throw") \/ Fail(t, "failed")
      BY <1>3 DEF SetPhase
    <3> QED BY <3>1, <2>2, GotoFacts, FailFacts
  <2>6. Types'
    BY <2>1, <2>3, <2>4, <2>5 DEF Types, messages
  <2>7. Placed'
    BY <2>1, <2>4, <2>5 DEF Placed, messages, OthersStay
  <2> QED BY <2>6, <2>7
<1>4. ASSUME UNCHANGED <<row, data, scope, messages, fresh>>, faults' \in Nat,
             turn[t].at # "idle",
             NEW p \in TurnPcs, Goto(t, p) \/ Fail(t, p)
      PROVE  Typed'
  <2>1. /\ turn' \in [Turns -> [at : TurnPcs, on : Somewhere, tries : Nat]]
        /\ turn'[t].on = turn[t].on /\ OthersStay(t)
    BY <1>4, GotoFacts, FailFacts
  <2>2. Types'
    BY <2>1, <1>4 DEF Types, messages
  <2>3. Placed'
    BY <2>1, <1>4 DEF Placed, messages, OthersStay
  <2> QED BY <2>2, <2>3
<1>5. ASSUME NEW p \in {"compacting", "model", "finalizing"},
             NEW check \in {"checkCompacting", "checkModel", "checkFinalizing"},
             NEW next \in {"input", "finalizing", "answer"},
             Checkpoint(t, check, p, next)
      PROVE  Typed'
  <2>1. UNCHANGED <<row, data, scope, messages, fresh, faults>> /\ turn[t].at # "idle"
    BY <1>5 DEF Checkpoint
  <2>2. \E z \in {"throw", "stopped", next} : Goto(t, z) \/ Fail(t, z)
    BY <1>5 DEF Checkpoint
  <2>3. {"throw", "stopped", next} \subseteq TurnPcs
    BY DEF TurnPcs, LivePcs, LookPcs
  <2>4. faults' \in Nat
    BY <2>1 DEF Types
  <2> QED BY <2>1, <2>2, <2>3, <2>4, <1>4
<1>6. ASSUME UNCHANGED <<row, scope, messages, fresh, faults>>, turn[t].at # "idle",
             row[turn[t].on].exists,
             NEW kind \in TurnKinds, AppendRow(turn[t].on, t, kind),
             NEW p \in TurnPcs, Goto(t, p)
      PROVE  Typed'
  <2>1. turn[t].on \in Sessions
    BY <1>6 DEF Placed
  <2>2. /\ data' \in [Sessions -> Seq(Entries)]
        /\ \A s \in Sessions : s # turn[t].on => data'[s] = data[s]
    BY <1>6, <2>1, AppendTyped
  <2>3. /\ turn' \in [Turns -> [at : TurnPcs, on : Somewhere, tries : Nat]]
        /\ turn'[t].on = turn[t].on /\ OthersStay(t)
    BY <1>6, GotoFacts
  <2>4. Types'
    BY <2>2, <2>3, <1>6 DEF Types, messages
  <2>5. Placed'
    BY <2>1, <2>2, <2>3, <1>6 DEF Placed, messages, OthersStay
  <2> QED BY <2>4, <2>5
<1> DEFINE ends == {"model", "throw", "end", "failed", "stopped", "endFailed", "endStopped", "leaving"}
<1>7. ends \subseteq TurnPcs /\ {"user", "answer", "failure", "again"} \subseteq TurnKinds /\ faults \in Nat
  BY DEF TurnPcs, LivePcs, LookPcs, Types, TurnKinds
<1>8. CASE AppendInput(t)
  <2>1. UNCHANGED <<row, scope, messages, fresh, faults>> /\ turn[t].at # "idle"
    BY <1>8 DEF AppendInput, history
  <2>2. CASE row[turn[t].on].exists
    BY <1>6, <1>7, <1>8, <2>1, <2>2 DEF AppendInput
  <2>3. CASE ~ row[turn[t].on].exists
    BY <1>4, <1>7, <1>8, <2>1, <2>3 DEF AppendInput
  <2> QED BY <2>2, <2>3
<1>9. CASE AppendAnswer(t)
  <2>1. UNCHANGED <<row, scope, messages, fresh, faults>> /\ turn[t].at # "idle"
    BY <1>9 DEF AppendAnswer, history
  <2>2. CASE row[turn[t].on].exists
    BY <1>6, <1>7, <1>9, <2>1, <2>2 DEF AppendAnswer
  <2>3. CASE ~ row[turn[t].on].exists
    BY <1>4, <1>7, <1>9, <2>1, <2>3 DEF AppendAnswer
  <2> QED BY <2>2, <2>3
<1>10. CASE AppendFailure(t)
  <2>1. UNCHANGED <<row, scope, messages, fresh, faults>> /\ turn[t].at \in {"failed", "stopped"}
    BY <1>10 DEF AppendFailure, history
  <2>2. CASE row[turn[t].on].exists
    <3>1. \E kind \in {"failure", "again"} : AppendRow(turn[t].on, t, kind)
      BY <1>10, <2>2 DEF AppendFailure
    <3>2. \E p \in {"endFailed", "endStopped"} : Goto(t, p)
      BY <1>10, <2>2 DEF AppendFailure
    <3> QED BY <1>6, <1>7, <2>1, <2>2, <3>1, <3>2
  <2>3. CASE ~ row[turn[t].on].exists
    <3>1. Fail(t, turn[t].at) /\ UNCHANGED data /\ turn[t].at \in TurnPcs
      BY <1>10, <1>7, <2>1, <2>3 DEF AppendFailure
    <3> QED BY <1>4, <1>7, <2>1, <3>1
  <2> QED BY <2>2, <2>3
<1>11. CASE EndTurn(t)
  <2>1. /\ UNCHANGED <<data, scope, messages, fresh, faults>>
        /\ turn[t].at \in {"end", "endFailed", "endStopped"} /\ turn[t].on \in Sessions
    BY <1>11 DEF EndTurn, Placed
  <2>2. CASE row[turn[t].on].exists
    <3>1. ClearRunning(turn[t].on, turn[t].at # "endStopped", t) /\ Goto(t, "leaving")
      BY <1>11, <2>2 DEF EndTurn
    <3>2. /\ row' \in [Sessions -> Rows]
          /\ \A z \in Sessions : row'[z].exists = row[z].exists
          /\ \A z \in Sessions : z # turn[t].on => row'[z] = row[z]
      BY <2>1, <3>1, ClearRunningTyped
    <3>3. /\ turn' \in [Turns -> [at : TurnPcs, on : Somewhere, tries : Nat]]
          /\ turn'[t].on = turn[t].on /\ OthersStay(t)
      BY <3>1, <1>7, GotoFacts
    <3>4. Types'
      BY <2>1, <3>2, <3>3 DEF Types, messages
    <3>5. Placed'
      BY <2>1, <2>2, <3>2, <3>3 DEF Placed, messages, OthersStay
    <3> QED BY <3>4, <3>5
  <2>3. CASE ~ row[turn[t].on].exists
    <3>1. (\E p \in {"stopped", "failed"} : Fail(t, p)) /\ UNCHANGED row
      BY <1>11, <2>3 DEF EndTurn
    <3> QED BY <1>4, <1>7, <2>1, <3>1
  <2> QED BY <2>2, <2>3
<1>12. CASE Leave(t)
  <2>1. /\ UNCHANGED <<row, data, messages, fresh, faults>>
        /\ turn[t].at \in {"leaving", "throw"} /\ turn[t].on \in Sessions
    BY <1>12 DEF Leave, Placed, history
  <2>2. /\ turn' \in [Turns -> [at : TurnPcs, on : Somewhere, tries : Nat]]
        /\ turn'[t].on = turn[t].on /\ OthersStay(t)
    <3>1. turn' = [turn EXCEPT ![t] = [turn[t] EXCEPT !.at = "done", !.tries = 0]]
      BY <1>12 DEF Leave, Types
    <3>2. "done" \in TurnPcs
      BY DEF TurnPcs
    <3> QED BY <1>0, <3>1, <3>2 DEF Types, OthersStay
  <2>3. scope' \in [Sessions -> [turn : Someone, phase : Phases]]
    BY <1>12, Records DEF Leave, LeaveScope, Types
  <2>4. Types'
    BY <2>1, <2>2, <2>3 DEF Types, messages
  <2>5. Placed'
    BY <2>1, <2>2 DEF Placed, messages, OthersStay
  <2> QED BY <2>4, <2>5
<1>13. CASE TurnFault(t)
  <2>1. UNCHANGED <<row, data, scope, messages, fresh>> /\ turn[t].at # "idle"
    BY <1>13 DEF TurnFault, LivePcs, LookPcs
  <2>2. \E p \in {"throw", "stopped", "failed"} : Goto(t, p) \/ Fail(t, p)
    BY <1>13 DEF TurnFault
  <2>3. faults' \in Nat
    BY <1>13, <1>7 DEF TurnFault, Fault
  <2> QED BY <1>4, <1>7, <2>1, <2>2, <2>3
<1> QED BY <1>1, <1>2, <1>3, <1>5, <1>8, <1>9, <1>10, <1>11, <1>12, <1>13 DEF Turn

LEMMA DeleteTyped ==
    ASSUME Typed, NEW d \in Deletes, Delete(d)
    PROVE  Typed'
<1> USE DEF Typed
<1>0. del[d] \in [at : DelPcs, on : Somewhere, phase : Phases] /\ None \notin Sessions
  BY NamesAssumption DEF Types, Sessions
<1>1. ASSUME UNCHANGED <<data, turn, cut, branch, intr, faults>>,
             row' \in [Sessions -> Rows],
             \A s \in Sessions : row'[s].exists = row[s].exists,
             \A s \in Sessions : ~ row[s].exists => row'[s] = row[s],
             scope' \in [Sessions -> [turn : Someone, phase : Phases]],
             fresh' \in [Deletes -> SUBSET Turns],
             del' \in [Deletes -> [at : DelPcs, on : Somewhere, phase : Phases]],
             del'[d].on \in Sessions, \A z \in Deletes : z # d => del'[z] = del[z]
      PROVE  Typed'
  <2>1. Types'
    BY <1>1 DEF Types
  <2>2. Placed'
    BY <1>1 DEF Placed
  <2> QED BY <2>1, <2>2
<1>2. /\ row \in [Sessions -> Rows] /\ fresh \in [Deletes -> SUBSET Turns]
      /\ scope \in [Sessions -> [turn : Someone, phase : Phases]]
      /\ del \in [Deletes -> [at : DelPcs, on : Somewhere, phase : Phases]]
  BY DEF Types
<1>3. {"done", "poll", "complete", "delete", "request", "runtime"} \subseteq DelPcs /\ "idle" \in Phases
  BY DEF DelPcs, Phases
<1>4. ASSUME NEW s \in Sessions, DeleteSelect(d, s) PROVE Typed'
  <2>1. PICK at \in {"request", "delete"}, p \in Phases :
           del' = [del EXCEPT ![d] = [at |-> at, on |-> s, phase |-> p]]
    <3>1. scope[s].phase \in Phases
      BY <1>2
    <3> QED BY <1>3, <1>4, <3>1 DEF DeleteSelect
  <2>2. [at |-> at, on |-> s, phase |-> p] \in [at : DelPcs, on : Somewhere, phase : Phases]
    BY <1>3 DEF Somewhere
  <2>3. UNCHANGED <<data, turn, cut, branch, intr, faults, row, scope, fresh>>
    BY <1>4 DEF DeleteSelect, DelOnly
  <2> QED BY <1>1, <1>2, <2>1, <2>2, <2>3
<1>5. CASE DeleteRequest(d)
  <2>1. UNCHANGED <<data, turn, cut, branch, intr, faults, scope, fresh>>
    BY <1>5 DEF DeleteRequest, DelOnly
  <2>2. del[d].on \in Sessions /\ del[d].phase \in Phases
    BY <1>0, <1>5 DEF DeleteRequest, Placed
  <2>3. CASE row[del[d].on].exists
    <3>1. /\ RequestInterrupt(del[d].on, del[d].phase)
          /\ del' = [del EXCEPT ![d] = [del[d] EXCEPT !.at = "runtime", !.phase = "idle"]]
      BY <1>5, <2>3, <1>2 DEF DeleteRequest
    <3>2. /\ row' \in [Sessions -> Rows]
          /\ \A s \in Sessions : row'[s].exists = row[s].exists
          /\ \A s \in Sessions : s # del[d].on => row'[s] = row[s]
      BY <2>2, <3>1, RequestTyped
    <3>3. /\ [del[d] EXCEPT !.at = "runtime", !.phase = "idle"] \in [at : DelPcs, on : Somewhere, phase : Phases]
          /\ [del[d] EXCEPT !.at = "runtime", !.phase = "idle"].on = del[d].on
      BY <1>0, <1>3
    <3>4. /\ del' \in [Deletes -> [at : DelPcs, on : Somewhere, phase : Phases]]
          /\ del'[d].on = del[d].on /\ \A z \in Deletes : z # d => del'[z] = del[z]
      BY <1>2, <3>1, <3>3
    <3> QED BY <1>1, <1>2, <2>1, <2>2, <2>3, <3>2, <3>4
  <2>4. CASE ~ row[del[d].on].exists
    <3>1. DelGoto(d, "done") /\ UNCHANGED row
      BY <1>5, <2>4 DEF DeleteRequest
    <3> QED BY <1>1, <1>2, <1>3, <2>1, <2>2, <3>1, DelGotoFacts
  <2> QED BY <2>3, <2>4
<1>6. CASE DeleteRuntime(d)
  <2>1. UNCHANGED <<data, turn, cut, branch, intr, faults, row, fresh>> /\ RuntimeInterrupt(del[d].on)
    BY <1>6 DEF DeleteRuntime, DelOnly
  <2>2. del[d].on \in Sessions
    BY <1>6 DEF DeleteRuntime, Placed
  <2>3. \E p \in {"poll", "complete"} : DelGoto(d, p)
    BY <1>6 DEF DeleteRuntime
  <2> QED BY <1>1, <1>2, <1>3, <2>1, <2>2, <2>3, RuntimeTyped, DelGotoFacts
<1>7. CASE DeleteComplete(d)
  <2>1. UNCHANGED <<data, turn, cut, branch, intr, faults, scope, fresh>>
    BY <1>7 DEF DeleteComplete, DelOnly
  <2>2. del[d].on \in Sessions
    BY <1>7 DEF DeleteComplete, Placed
  <2>3. CASE row[del[d].on].exists
    <3>1. ClearRunning(del[d].on, FALSE, None) /\ DelGoto(d, "poll")
      BY <1>7, <2>3 DEF DeleteComplete
    <3>2. /\ row' \in [Sessions -> Rows]
          /\ \A s \in Sessions : row'[s].exists = row[s].exists
          /\ \A s \in Sessions : s # del[d].on => row'[s] = row[s]
      BY <2>2, <3>1, ClearRunningTyped
    <3> QED BY <1>1, <1>2, <1>3, <2>1, <2>2, <2>3, <3>1, <3>2, DelGotoFacts
  <2>4. CASE ~ row[del[d].on].exists
    <3>1. DelGoto(d, "done") /\ UNCHANGED row
      BY <1>7, <2>4 DEF DeleteComplete
    <3> QED BY <1>1, <1>2, <1>3, <2>1, <2>2, <3>1, DelGotoFacts
  <2> QED BY <2>3, <2>4
<1>8. CASE DeletePoll(d)
  <2>1. UNCHANGED <<data, turn, cut, branch, intr, faults, row, scope>>
    BY <1>8 DEF DeletePoll, DelOnly
  <2>2. del[d].on \in Sessions
    BY <1>8 DEF DeletePoll, Placed
  <2>3. \E p \in {"done", "delete"} : DelGoto(d, p)
    BY <1>8 DEF DeletePoll
  <2>4. fresh' \in [Deletes -> SUBSET Turns]
    BY <1>2, <1>8 DEF DeletePoll
  <2> QED BY <1>1, <1>2, <1>3, <2>1, <2>2, <2>3, <2>4, DelGotoFacts
<1>9. CASE DeleteRows(d)
  <2>1. /\ UNCHANGED <<turn, cut, branch, intr, faults, scope, fresh>> /\ DelGoto(d, "done")
        /\ row' = [row EXCEPT ![del[d].on] = NoRow] /\ data' = [data EXCEPT ![del[d].on] = << >>]
    BY <1>9 DEF DeleteRows, history
  <2>2. del[d].on \in Sessions
    BY <1>9 DEF DeleteRows, Placed
  <2>3. << >> \in Seq(Entries)
    OBVIOUS
  <2>4. /\ del' \in [Deletes -> [at : DelPcs, on : Somewhere, phase : Phases]]
        /\ del'[d].on = del[d].on /\ \A z \in Deletes : z # d => del'[z] = del[z]
    BY <2>1, <1>3, DelGotoFacts
  <2>5. Types'
    BY <2>1, <2>3, <2>4, Records DEF Types
  <2>6. Placed'
    <3>1. \A s \in Sessions : s # del[d].on => row'[s] = row[s] /\ data'[s] = data[s]
      BY <2>1, <1>2 DEF Types
    <3>2. row'[del[d].on] = NoRow /\ data'[del[d].on] = << >>
      BY <2>1, <2>2, <1>2 DEF Types
    <3> QED BY <2>1, <2>2, <2>4, <3>1, <3>2 DEF Placed
  <2> QED BY <2>5, <2>6
<1> QED BY <1>4, <1>5, <1>6, <1>7, <1>8, <1>9 DEF Delete

(* What a message reads of the history are rows of it.                      *)
LEMMA TurnRangeRows ==
    ASSUME NEW rows \in Seq(Entries), NEW t
    PROVE  TurnRange(rows, t) \subseteq Entries /\ RowsThrough(rows, t) \subseteq Entries
<1>1. \A i \in DOMAIN rows : rows[i] \in Entries
  OBVIOUS
<1>2. TurnRange(rows, t) \subseteq Entries
  BY <1>1 DEF TurnRange, TurnPlaces
<1>3. RowsThrough(rows, t) \subseteq Entries
  BY <1>1 DEF RowsThrough
<1> QED BY <1>2, <1>3

LEMMA CutTyped ==
    ASSUME Typed, NEW c \in Cuts, Cut(c)
    PROVE  Typed'
<1> USE DEF Typed
<1> DEFINE CutStates == [at : CutPcs, of : Someone, ids : SUBSET Entries]
<1>0. cut[c] \in CutStates /\ cut \in [Cuts -> CutStates] /\ Source \in Sessions
      /\ data[Source] \in Seq(Entries)
  BY DEF Types, Sessions
<1>1. UNCHANGED <<row, scope, turn, del, branch, intr, fresh, faults>>
  BY DEF Cut, CutReceived, CutCheck, CutList, CutDelete, CutOnly, history
<1>2. cut' \in [Cuts -> CutStates]
  <2>1. ASSUME NEW t \in Turns, CutReceived(c, t) PROVE cut' \in [Cuts -> CutStates]
    <3>1. [at |-> "check", of |-> t, ids |-> {}] \in CutStates
      BY DEF CutPcs, Someone
    <3> QED BY <1>0, <2>1, <3>1 DEF CutReceived
  <2>2. CASE CutCheck(c)
    <3>1. PICK p \in {"list", "done"} : cut' = [cut EXCEPT ![c].at = p]
      BY <2>2 DEF CutCheck
    <3>2. cut' = [cut EXCEPT ![c] = [cut[c] EXCEPT !.at = p]]
      BY <1>0, <3>1
    <3> QED BY <1>0, <3>2 DEF CutPcs
  <2>3. CASE CutList(c)
    <3> DEFINE ids == TurnRange(data[Source], cut[c].of)
    <3>1. PICK p \in {"delete", "done"} : cut' = [cut EXCEPT ![c].ids = ids, ![c].at = p]
      BY <2>3 DEF CutList
    <3>2. ids \in SUBSET Entries
      BY <1>0, TurnRangeRows
    <3> HIDE DEF ids
    <3>3. cut' = [cut EXCEPT ![c] = [cut[c] EXCEPT !.ids = ids, !.at = p]]
      BY <1>0, <3>1
    <3> QED BY <1>0, <3>2, <3>3 DEF CutPcs
  <2>4. CASE CutDelete(c)
    <3>1. [at |-> "done", of |-> None, ids |-> {}] \in CutStates
      BY DEF CutPcs, Someone
    <3> QED BY <1>0, <2>4, <3>1 DEF CutDelete
  <2> QED BY <2>1, <2>2, <2>3, <2>4 DEF Cut
<1>3. /\ data' \in [Sessions -> Seq(Entries)]
      /\ \A s \in Sessions : data[s] = << >> => data'[s] = << >>
  <2>1. CASE UNCHANGED data
    BY <2>1 DEF Types
  <2>2. CASE CutDelete(c)
    <3> DEFINE rest == Without(data[Source], cut[c].ids)
    <3>1. data' = [data EXCEPT ![Source] = rest]
      BY <2>2 DEF CutDelete
    <3>2. rest \in Seq(Entries) /\ \E p : Selects(p, rest, data[Source])
      BY <1>0, WithoutFacts
    <3> HIDE DEF rest
    <3>3. data[Source] = << >> => rest = << >>
      BY <1>0, <3>2 DEF Selects
    <3> QED BY <1>0, <3>1, <3>2, <3>3 DEF Types
  <2> QED BY <2>1, <2>2 DEF Cut, CutReceived, CutCheck, CutList
<1>4. Types'
  BY <1>1, <1>2, <1>3 DEF Types
<1>5. Placed'
  BY <1>1, <1>3 DEF Placed
<1> QED BY <1>4, <1>5

LEMMA BranchTyped ==
    ASSUME Typed, NEW b \in Branches, Branch(b)
    PROVE  Typed'
<1> USE DEF Typed
<1> DEFINE BranchStates == [at : BranchPcs, of : Someone, src : SUBSET Entries]
<1>0. /\ branch[b] \in BranchStates /\ branch \in [Branches -> BranchStates]
      /\ Source \in Sessions /\ b \in Sessions /\ data[Source] \in Seq(Entries)
      /\ row \in [Sessions -> Rows] /\ data \in [Sessions -> Seq(Entries)] /\ faults \in Nat
  BY DEF Types, Sessions
<1>1. UNCHANGED <<scope, turn, aborted, del, cut, intr, missed, fresh, overtaken>>
  BY DEF Branch, BranchReceived, BranchCheck, BranchList, BranchCreate, BranchStart, BranchMark,
         BranchAnnounce, BranchCompact, BranchAppend, BranchEnds, BranchEnd, BranchFailRow,
         BranchTell, BranchFault, BranchOnly
<1>2. BranchPcs = BranchPcs \cup {"check", "list", "create", "start", "mark", "announce", "compact",
              "append", "end", "catch", "fail", "failRow", "tell", "tellFailed", "done",
              "gone", "unhandled"}
  BY DEF BranchPcs
<1>3. ASSUME branch' \in [Branches -> BranchStates], faults' \in Nat,
             row' \in [Sessions -> Rows], data' \in [Sessions -> Seq(Entries)],
             \A s \in Sessions : ~ row'[s].exists => row'[s] = row[s] /\ data'[s] = data[s]
      PROVE  Typed'
  <2>1. Types'
    BY <1>1, <1>3 DEF Types
  <2>2. Placed'
    BY <1>1, <1>3 DEF Placed
  <2> QED BY <2>1, <2>2
<1>4. ASSUME NEW p \in BranchPcs, BranchGoto(b, p) PROVE branch' \in [Branches -> BranchStates]
  BY <1>4, BranchGotoFacts
<1>5. ASSUME NEW t \in Turns, BranchReceived(b, t) PROVE Typed'
  <2>1. [at |-> "check", of |-> t, src |-> {}] \in BranchStates
    BY DEF BranchPcs, Someone
  <2>2. branch' = [branch EXCEPT ![b] = [at |-> "check", of |-> t, src |-> {}]]
        /\ UNCHANGED <<row, data, faults>>
    BY <1>5 DEF BranchReceived
  <2> QED BY <1>0, <1>3, <2>1, <2>2
<1>6. ASSUME UNCHANGED <<row, data>>, faults' \in Nat, NEW p \in BranchPcs, BranchGoto(b, p)
      PROVE  Typed'
  BY <1>0, <1>3, <1>4, <1>6
<1>7. CASE BranchCheck(b)
  <2>1. (\E p \in {"list", "done"} : BranchGoto(b, p)) /\ UNCHANGED <<row, data, faults>>
    BY <1>7 DEF BranchCheck
  <2> QED BY <1>0, <1>2, <1>6, <2>1
<1>8. CASE BranchList(b)
  <2> DEFINE src == RowsThrough(data[Source], branch[b].of)
  <2>1. PICK p \in {"create", "done"} : branch' = [branch EXCEPT ![b].src = src, ![b].at = p]
    BY <1>8 DEF BranchList
  <2>2. src \in SUBSET Entries
    BY <1>0, TurnRangeRows
  <2> HIDE DEF src
  <2>3. branch' = [branch EXCEPT ![b] = [branch[b] EXCEPT !.src = src, !.at = p]]
    BY <1>0, <2>1
  <2>4. branch' \in [Branches -> BranchStates]
    BY <1>0, <1>2, <2>2, <2>3
  <2> QED BY <1>0, <1>3, <1>8, <2>4 DEF BranchList
<1>9. CASE BranchCreate(b)
  <2>1. [at |-> "start", of |-> None, src |-> {}] \in BranchStates
    BY DEF BranchPcs, Someone
  <2>2. /\ branch' = [branch EXCEPT ![b] = [at |-> "start", of |-> None, src |-> {}]]
        /\ row' = [row EXCEPT ![b] = IdleRow] /\ UNCHANGED <<data, faults>>
    BY <1>9 DEF BranchCreate
  <2>3. IdleRow \in Rows /\ IdleRow.exists = TRUE
    BY Records DEF IdleRow, NoRow
  <2> QED BY <1>0, <1>3, <2>1, <2>2, <2>3
<1>10. CASE BranchStart(b)
  <2>1. CASE UNCHANGED row
    <3>1. \E p \in {"mark", "done"} : BranchGoto(b, p)
      BY <1>10 DEF BranchStart
    <3> QED BY <1>0, <1>2, <1>6, <1>10, <2>1, <3>1 DEF BranchStart
  <2>2. CASE /\ row' = [row EXCEPT ![b] = [exists |-> TRUE, running |-> TRUE,
                                           phase |-> "starting", intr |-> FALSE]]
             /\ BranchGoto(b, "mark")
    <3> DEFINE r == [exists |-> TRUE, running |-> TRUE, phase |-> "starting", intr |-> FALSE]
    <3>1. r \in Rows /\ r.exists = TRUE /\ row' = [row EXCEPT ![b] = r]
      BY <2>2, Records DEF Phases
    <3> HIDE DEF r
    <3> QED BY <1>0, <1>2, <1>3, <1>4, <1>10, <2>2, <3>1 DEF BranchStart
  <2> QED BY <1>10, <2>1, <2>2 DEF BranchStart
<1>11. CASE BranchMark(b)
  <2>1. CASE UNCHANGED row
    <3>1. \E p \in {"announce", "done"} : BranchGoto(b, p)
      BY <1>11 DEF BranchMark
    <3> QED BY <1>0, <1>2, <1>6, <1>11, <2>1, <3>1 DEF BranchMark
  <2>2. CASE row[b].exists /\ row' = [row EXCEPT ![b].phase = "compacting"] /\ BranchGoto(b, "announce")
    <3>1. row[b] \in Rows /\ "compacting" \in Phases
      BY <1>0 DEF Phases
    <3>2. row' = [row EXCEPT ![b] = [row[b] EXCEPT !.phase = "compacting"]]
      BY <1>0, <2>2
    <3>3. [row[b] EXCEPT !.phase = "compacting"] \in Rows /\ [row[b] EXCEPT !.phase = "compacting"].exists
      BY <2>2, <3>1 DEF Rows
    <3> QED BY <1>0, <1>2, <1>3, <1>4, <1>11, <2>2, <3>2, <3>3 DEF BranchMark
  <2> QED BY <1>11, <2>1, <2>2 DEF BranchMark
<1>12. CASE BranchAnnounce(b)
  BY <1>0, <1>2, <1>6, <1>12 DEF BranchAnnounce
<1>13. CASE BranchCompact(b)
  <2>1. (\E p \in {"append", "catch"} : BranchGoto(b, p)) /\ UNCHANGED <<row, data, faults>>
    BY <1>13 DEF BranchCompact
  <2> QED BY <1>0, <1>2, <1>6, <2>1
<1>14. ASSUME NEW p \in BranchPcs, BranchGoto(b, p), UNCHANGED <<row, faults>>, row[b].exists,
              NEW kind \in {"compact", "error"}, AppendRow(b, b, kind)
       PROVE  Typed'
  BY <1>0, <1>3, <1>4, <1>14, AppendTyped
<1>15. CASE BranchAppend(b)
  <2>1. CASE row[b].exists
    BY <1>2, <1>14, <1>15, <2>1 DEF BranchAppend
  <2>2. CASE ~ row[b].exists
    BY <1>0, <1>2, <1>6, <1>15, <2>2 DEF BranchAppend
  <2> QED BY <2>1, <2>2
<1>16. ASSUME NEW p, NEW next \in BranchPcs, NEW orElse \in BranchPcs, BranchEnd(b, p, next, orElse)
       PROVE  Typed'
  <2>1. CASE row[b].exists
    <3>1. ClearRunning(b, TRUE, None) /\ BranchGoto(b, next) /\ UNCHANGED <<data, faults>>
      BY <1>16, <2>1 DEF BranchEnd
    <3>2. /\ row' \in [Sessions -> Rows]
          /\ \A z \in Sessions : row'[z].exists = row[z].exists
          /\ \A z \in Sessions : z # b => row'[z] = row[z]
      BY <1>0, <3>1, ClearRunningTyped
    <3> QED BY <1>0, <1>3, <1>4, <2>1, <3>1, <3>2
  <2>2. CASE ~ row[b].exists
    BY <1>0, <1>6, <1>16, <2>2 DEF BranchEnd
  <2> QED BY <2>1, <2>2
<1>17. CASE BranchEnds(b)
  <2>1. \E p, next, orElse \in BranchPcs : BranchEnd(b, p, next, orElse)
    BY <1>2, <1>17 DEF BranchEnds
  <2> QED BY <1>16, <2>1
<1>18. CASE BranchFailRow(b)
  <2>1. CASE row[b].exists
    BY <1>2, <1>14, <1>18, <2>1 DEF BranchFailRow
  <2>2. CASE ~ row[b].exists
    BY <1>0, <1>2, <1>6, <1>18, <2>2 DEF BranchFailRow
  <2> QED BY <2>1, <2>2
<1>19. CASE BranchTell(b)
  BY <1>0, <1>2, <1>6, <1>19 DEF BranchTell
<1>20. CASE BranchFault(b)
  <2>1. \E p \in {"gone", "catch", "fail", "failRow", "unhandled"} : BranchGoto(b, p)
    BY <1>20 DEF BranchFault
  <2>2. UNCHANGED <<row, data>> /\ faults' \in Nat
    BY <1>0, <1>20 DEF BranchFault, Fault
  <2> QED BY <1>2, <1>6, <2>1, <2>2
<1> QED BY <1>5, <1>7, <1>8, <1>9, <1>10, <1>11, <1>12, <1>13, <1>15, <1>17, <1>18, <1>19, <1>20
        DEF Branch

LEMMA InterruptTyped ==
    ASSUME Typed, NEW x \in Interrupts, Interrupt(x)
    PROVE  Typed'
<1> USE DEF Typed
<1> DEFINE IntStates == [at : IntPcs, on : Somewhere, phase : Phases]
<1>0. /\ intr[x] \in IntStates /\ intr \in [Interrupts -> IntStates]
      /\ row \in [Sessions -> Rows] /\ data \in [Sessions -> Seq(Entries)]
      /\ scope \in [Sessions -> [turn : Someone, phase : Phases]]
  BY DEF Types
<1>1. UNCHANGED <<turn, del, cut, branch, fresh, overtaken, faults>>
  BY DEF Interrupt, IntRead, IntAppend, IntRequest, IntRuntime, IntComplete, IntOnly
<1>2. {"append", "request", "runtime", "complete", "done"} \subseteq IntPcs /\ "idle" \in Phases
  BY DEF IntPcs, Phases
<1>3. ASSUME row' \in [Sessions -> Rows], data' \in [Sessions -> Seq(Entries)],
             scope' \in [Sessions -> [turn : Someone, phase : Phases]],
             \A s \in Sessions : row'[s].exists = row[s].exists,
             \A s \in Sessions : ~ row[s].exists => row'[s] = row[s] /\ data'[s] = data[s],
             intr' \in [Interrupts -> IntStates], intr'[x].on \in Sessions,
             \A z \in Interrupts : z # x => intr'[z] = intr[z]
      PROVE  Typed'
  <2>1. Types'
    BY <1>1, <1>3 DEF Types
  <2>2. Placed'
    BY <1>1, <1>3 DEF Placed
  <2> QED BY <2>1, <2>2
<1>4. ASSUME NEW s \in Sessions, IntRead(x, s) PROVE Typed'
  <2>1. /\ intr' = [intr EXCEPT ![x] = [at |-> "append", on |-> s, phase |-> scope[s].phase]]
        /\ UNCHANGED <<row, data, scope>>
    BY <1>4 DEF IntRead
  <2>2. [at |-> "append", on |-> s, phase |-> scope[s].phase] \in IntStates
    BY <1>0, <1>2 DEF Somewhere
  <2> QED BY <1>0, <1>3, <2>1, <2>2
<1>5. intr[x].at # "idle" => intr[x].on \in Sessions
  BY DEF Placed
<1>6. CASE IntAppend(x)
  <2>1. CASE row[intr[x].on].exists
    <3>1. /\ AppendRow(intr[x].on, x, "interrupt") /\ IntGoto(x, "request")
          /\ UNCHANGED <<row, scope>> /\ intr[x].at = "append"
      BY <1>6, <2>1 DEF IntAppend
    <3> QED BY <1>0, <1>2, <1>3, <1>5, <2>1, <3>1, AppendTyped, IntGotoFacts
  <2>2. CASE ~ row[intr[x].on].exists
    <3>1. IntGoto(x, "done") /\ UNCHANGED <<row, data, scope>> /\ intr[x].at = "append"
      BY <1>6, <2>2 DEF IntAppend
    <3> QED BY <1>0, <1>2, <1>3, <1>5, <3>1, IntGotoFacts
  <2> QED BY <2>1, <2>2
<1>7. CASE IntRequest(x)
  <2>0. UNCHANGED <<data, scope>> /\ intr[x].at = "request" /\ intr[x].phase \in Phases
    BY <1>0, <1>7 DEF IntRequest
  <2>1. CASE row[intr[x].on].exists
    <3>1. /\ RequestInterrupt(intr[x].on, intr[x].phase)
          /\ intr' = [intr EXCEPT ![x] = [intr[x] EXCEPT !.at = "runtime", !.phase = "idle"]]
      BY <1>0, <1>7, <2>1 DEF IntRequest
    <3>2. /\ row' \in [Sessions -> Rows]
          /\ \A s \in Sessions : row'[s].exists = row[s].exists
          /\ \A s \in Sessions : s # intr[x].on => row'[s] = row[s]
      BY <1>5, <2>0, <3>1, RequestTyped
    <3>3. /\ [intr[x] EXCEPT !.at = "runtime", !.phase = "idle"] \in IntStates
          /\ [intr[x] EXCEPT !.at = "runtime", !.phase = "idle"].on = intr[x].on
      BY <1>0, <1>2
    <3>4. /\ intr' \in [Interrupts -> IntStates]
          /\ intr'[x].on = intr[x].on /\ \A z \in Interrupts : z # x => intr'[z] = intr[z]
      BY <1>0, <3>1, <3>3
    <3> QED BY <1>0, <1>3, <1>5, <2>0, <2>1, <3>2, <3>4
  <2>2. CASE ~ row[intr[x].on].exists
    <3>1. IntGoto(x, "done") /\ UNCHANGED row
      BY <1>7, <2>2 DEF IntRequest
    <3> QED BY <1>0, <1>2, <1>3, <1>5, <2>0, <3>1, IntGotoFacts
  <2> QED BY <2>1, <2>2
<1>8. CASE IntRuntime(x)
  <2>1. UNCHANGED <<row, data>> /\ RuntimeInterrupt(intr[x].on) /\ intr[x].at = "runtime"
    BY <1>8 DEF IntRuntime
  <2>2. \E p \in {"done", "complete"} : IntGoto(x, p)
    BY <1>8 DEF IntRuntime
  <2> QED BY <1>0, <1>2, <1>3, <1>5, <2>1, <2>2, RuntimeTyped, IntGotoFacts
<1>9. CASE IntComplete(x)
  <2>1. UNCHANGED <<data, scope>> /\ IntGoto(x, "done") /\ intr[x].at = "complete"
    BY <1>9 DEF IntComplete
  <2>2. CASE row[intr[x].on].exists
    <3>1. ClearRunning(intr[x].on, FALSE, None)
      BY <1>9, <2>2 DEF IntComplete
    <3>2. /\ row' \in [Sessions -> Rows]
          /\ \A s \in Sessions : row'[s].exists = row[s].exists
          /\ \A s \in Sessions : s # intr[x].on => row'[s] = row[s]
      BY <1>5, <2>1, <3>1, ClearRunningTyped
    <3> QED BY <1>0, <1>2, <1>3, <1>5, <2>1, <2>2, <3>2, IntGotoFacts
  <2>3. CASE ~ row[intr[x].on].exists
    <3>1. UNCHANGED row
      BY <1>9, <2>3 DEF IntComplete
    <3> QED BY <1>0, <1>2, <1>3, <1>5, <2>1, <3>1, IntGotoFacts
  <2> QED BY <2>2, <2>3
<1> QED BY <1>4, <1>6, <1>7, <1>8, <1>9 DEF Interrupt

LEMMA StutterTyped ==
    ASSUME Typed, UNCHANGED vars
    PROVE  Typed'
BY DEF Typed, Types, Placed, vars

LEMMA StepTyped ==
    ASSUME Typed, [Next]_vars
    PROVE  Typed'
BY TurnTyped, DeleteTyped, CutTyped, BranchTyped, InterruptTyped, StutterTyped DEF Next

LEMMA AlwaysTyped == Spec => []Typed
BY InitTyped, StepTyped, PTL DEF Spec

-----------------------------------------------------------------------------
(* DeleteSparesTurns                                                        *)

(* A live turn that is still marked has its session running, or gone; a     *)
(* deletion that is about to delete knows of every live turn that is        *)
(* unmarked or came after its last look.  A branch has a row, and turns and *)
(* deletions, only after its message created it.                            *)
Unborn == {"idle", "check", "list", "create"}

LiveIsMarked ==
    \A t \in Turns : Live(t) /\ t \notin unmarked =>
        row[turn[t].on].running \/ ~ row[turn[t].on].exists

BornFirst ==
    \A b \in Branches : branch[b].at \in Unborn =>
        /\ ~ row[b].exists
        /\ \A t \in Turns : turn[t].on # b
        /\ \A d \in Deletes : del[d].on # b

DeleterKnows(d) ==
    del[d].at = "delete" /\ row[del[d].on].exists => LiveOn(del[d].on) \subseteq fresh[d] \cup unmarked

Marks == LiveIsMarked /\ BornFirst /\ \A d \in Deletes : DeleterKnows(d)

LEMMA InitMarks == Init => Marks
<1> SUFFICES ASSUME Init PROVE Marks
  OBVIOUS
<1>1. None \notin Branches /\ Source \notin Branches
  BY NamesAssumption
<1>2. LiveIsMarked
  BY DEF Init, LiveIsMarked, Live, LivePcs, LookPcs
<1>3. BornFirst
  BY <1>1 DEF Init, BornFirst, NoRow, Sessions
<1>4. \A d \in Deletes : DeleterKnows(d)
  BY DEF Init, DeleterKnows
<1> QED BY <1>2, <1>3, <1>4 DEF Marks

(* What most steps do to the marks: no turn becomes live that is not         *)
(* unmarked, no session appears, and where isrunning is cleared the live     *)
(* turns are unmarked.                                                       *)
TurnsCalm ==
    /\ \A u \in Turns : turn'[u].on = turn[u].on
    /\ \A u \in Turns : Live(u)' => Live(u) \/ u \in unmarked'
    /\ unmarked \subseteq unmarked'

RowsCalm ==
    \A s \in Sessions :
        /\ row'[s].exists => row[s].exists
        /\ row[s].running /\ row'[s].exists =>
              row'[s].running \/ \A u \in Turns : Live(u)' /\ turn[u].on = s => u \in unmarked'

DeletesCalm ==
    \A d \in Deletes :
        \/ del'[d] = del[d] /\ fresh'[d] = fresh[d]
        \/ /\ del'[d].on \in Sessions
           /\ del'[d].on = del[d].on \/ row[del'[d].on].exists
           /\ del'[d].at = "delete" => ~ row[del'[d].on].running

BranchesCalm == \A b \in Branches : branch'[b].at \in Unborn => branch[b].at \in Unborn

LEMMA CalmMarks ==
    ASSUME Typed, Marks, TurnsCalm, RowsCalm, DeletesCalm, BranchesCalm
    PROVE  Marks'
<1>1. \A t \in Turns : Live(t) => turn[t].on \in Sessions
  BY DEF Typed, Placed, Live, LivePcs, LookPcs
<1>2. LiveIsMarked'
  <2> SUFFICES ASSUME NEW t \in Turns, Live(t)', t \notin unmarked', row'[turn'[t].on].exists
               PROVE  row'[turn'[t].on].running
    BY DEF LiveIsMarked
  <2>1. Live(t) /\ t \notin unmarked /\ turn'[t].on = turn[t].on
    BY DEF TurnsCalm
  <2>2. row[turn[t].on].exists /\ turn[t].on \in Sessions
    BY <1>1, <2>1 DEF RowsCalm
  <2>3. row[turn[t].on].running
    BY <2>1, <2>2 DEF Marks, LiveIsMarked
  <2> QED BY <2>1, <2>2, <2>3 DEF RowsCalm
<1>3. BornFirst'
  <2> SUFFICES ASSUME NEW b \in Branches, branch'[b].at \in Unborn
               PROVE  /\ ~ row'[b].exists
                      /\ \A t \in Turns : turn'[t].on # b
                      /\ \A d \in Deletes : del'[d].on # b
    BY DEF BornFirst
  <2>1. /\ ~ row[b].exists /\ b \in Sessions
        /\ \A t \in Turns : turn[t].on # b
        /\ \A d \in Deletes : del[d].on # b
    BY DEF Marks, BornFirst, BranchesCalm, Sessions
  <2> QED BY <2>1 DEF RowsCalm, TurnsCalm, DeletesCalm
<1>4. ASSUME NEW d \in Deletes PROVE DeleterKnows(d)'
  <2> SUFFICES ASSUME del'[d].at = "delete", row'[del'[d].on].exists,
                      NEW t \in Turns, Live(t)', turn'[t].on = del'[d].on,
                      t \notin unmarked'
               PROVE  t \in fresh'[d]
    BY DEF DeleterKnows, LiveOn
  <2>1. Live(t) /\ t \notin unmarked /\ turn[t].on = del'[d].on /\ turn[t].on \in Sessions
    BY <1>1 DEF TurnsCalm
  <2>2. row[del'[d].on].exists
    BY <2>1 DEF RowsCalm
  <2>3. CASE del'[d] = del[d] /\ fresh'[d] = fresh[d]
    BY <2>1, <2>2, <2>3 DEF Marks, DeleterKnows, LiveOn
  <2>4. CASE del'[d].at = "delete" => ~ row[del'[d].on].running
    BY <2>1, <2>2, <2>4 DEF Marks, LiveIsMarked
  <2> QED BY <2>3, <2>4 DEF DeletesCalm
<1> QED BY <1>2, <1>3, <1>4 DEF Marks

RowsStay ==
    \A s \in Sessions : /\ row'[s].exists = row[s].exists
                        /\ row'[s].running = row[s].running
                        /\ row'[s].intr = row[s].intr

LEMMA SetPhaseFacts ==
    ASSUME Typed, NEW t \in Turns, NEW p \in {"compacting", "model", "finalizing"},
           NEW check \in {"checkCompacting", "checkModel", "checkFinalizing"},
           SetPhase(t, p, check)
    PROVE  /\ turn[t].at = p /\ RowsStay
           /\ turn'[t].on = turn[t].on /\ OthersStay(t)
           /\ \/ /\ row[turn[t].on].exists /\ UNCHANGED missed
                 /\ turn'[t].at = check /\ turn'[t].tries = turn[t].tries
              \/ ~ row[turn[t].on].exists /\ turn'[t].at \in {"throw", "failed"} /\ Overlooked(t)
           /\ \A s \in Sessions : scope'[s].turn = scope[s].turn
<1>1. turn[t].at = p /\ turn[t].on \in Sessions
  BY DEF SetPhase, Typed, Placed
<1>2. check \in TurnPcs /\ "throw" \in TurnPcs /\ "failed" \in TurnPcs /\ p \in Phases
  BY DEF Phases, TurnPcs, LivePcs, LookPcs
<1>3. RowsStay
  <2>1. CASE UNCHANGED row
    BY <2>1 DEF RowsStay
  <2>2. CASE row' = [row EXCEPT ![turn[t].on].phase = p]
    <3>1. row[turn[t].on] \in Rows /\ row \in [Sessions -> Rows]
      BY <1>1 DEF Typed, Types
    <3> DEFINE r == [row[turn[t].on] EXCEPT !.phase = p]
    <3>2. r.exists = row[turn[t].on].exists /\ r.running = row[turn[t].on].running
          /\ r.intr = row[turn[t].on].intr
      BY <3>1 DEF Rows
    <3>3. row' = [row EXCEPT ![turn[t].on] = r]
      BY <2>2, <3>1
    <3> HIDE DEF r
    <3> QED BY <1>1, <3>1, <3>2, <3>3 DEF RowsStay
  <2> QED BY <2>1, <2>2 DEF SetPhase
<1>4. \A s \in Sessions : scope'[s].turn = scope[s].turn
  <2> DEFINE s == turn[t].on
             new == [scope[s] EXCEPT !.phase = IF @ # "idle" /\ scope[s].turn = t THEN p ELSE @]
  <2>1. scope[s] \in [turn : Someone, phase : Phases]
    BY <1>1 DEF Typed, Types
  <2>2. new.turn = scope[s].turn
    BY <2>1
  <2>3. scope' = [scope EXCEPT ![s].phase = IF @ # "idle" /\ scope[s].turn = t THEN p ELSE @]
    BY DEF SetPhase
  <2>4. scope' = [scope EXCEPT ![s] = new]
    BY <1>1, <2>1, <2>3 DEF Typed, Types
  <2> HIDE DEF new
  <2> QED BY <2>2, <2>4 DEF Typed, Types
<1>5. CASE row[turn[t].on].exists
  <2>1. Goto(t, check) /\ UNCHANGED missed
    BY <1>5 DEF SetPhase
  <2>2. turn'[t].at = check /\ turn'[t].tries = turn[t].tries /\ turn'[t].on = turn[t].on /\ OthersStay(t)
    BY <1>2, <2>1, GotoFacts DEF Typed
  <2> QED BY <1>1, <1>3, <1>4, <1>5, <2>1, <2>2
<1>6. CASE ~ row[turn[t].on].exists
  <2>1. (Goto(t, "throw") \/ Fail(t, "failed")) /\ Overlooked(t)
    BY <1>6 DEF SetPhase
  <2>2. turn'[t].at \in {"throw", "failed"} /\ turn'[t].on = turn[t].on /\ OthersStay(t)
    BY <1>2, <2>1, GotoFacts, FailFacts DEF Typed
  <2> QED BY <1>1, <1>3, <1>4, <1>6, <2>1, <2>2
<1> QED BY <1>5, <1>6

LEMMA CheckpointFacts ==
    ASSUME Typed, NEW t \in Turns, NEW p \in {"compacting", "model", "finalizing"},
           NEW check \in {"checkCompacting", "checkModel", "checkFinalizing"},
           NEW next \in {"input", "finalizing", "answer"}, Checkpoint(t, check, p, next)
    PROVE  /\ turn[t].at = check
           /\ UNCHANGED <<row, data, scope, messages, fresh, unmarked, overtaken, faults>>
           /\ turn'[t].on = turn[t].on /\ OthersStay(t)
           /\ \/ /\ ~ row[turn[t].on].intr /\ UNCHANGED missed
                 /\ turn'[t].at = next /\ turn'[t].tries = turn[t].tries
              \/ p = "compacting" /\ turn'[t].at = "throw" /\ Overlooked(t)
              \/ /\ p # "compacting" /\ UNCHANGED missed
                 /\ turn'[t].at = IF turn[t].tries < 2 THEN "stopped" ELSE "throw"
                 /\ turn'[t].tries = IF turn[t].tries < 2 THEN turn[t].tries + 1 ELSE turn[t].tries
<1>1. {"throw", "stopped", next} \subseteq TurnPcs
  BY DEF TurnPcs, LivePcs, LookPcs
<1>2. turn[t].at = check /\ UNCHANGED <<row, data, scope, messages, fresh, unmarked, overtaken, faults>>
  BY DEF Checkpoint
<1>3. \/ ~ row[turn[t].on].intr /\ UNCHANGED missed /\ Goto(t, next)
      \/ p = "compacting" /\ Goto(t, "throw") /\ Overlooked(t)
      \/ p # "compacting" /\ Fail(t, "stopped") /\ UNCHANGED missed
  BY DEF Checkpoint
<1> QED BY <1>1, <1>2, <1>3, GotoFacts, FailFacts DEF Typed

(* What a turn's step other than the first does to rows and turns.          *)
LEMMA TurnEffects ==
    ASSUME Typed, NEW t \in Turns, Turn(t), ~ \E s \in Sessions : StartTurn(t, s)
    PROVE  /\ UNCHANGED <<messages, fresh>> /\ unmarked \subseteq unmarked'
           /\ turn[t].at # "idle" /\ turn[t].on \in Sessions
           /\ turn'[t].on = turn[t].on /\ OthersStay(t)
           /\ Live(t)' => Live(t) \/ t \in unmarked'
           /\ \/ RowsStay
              \/ /\ EndTurn(t) /\ row[turn[t].on].exists
                 /\ ClearRunning(turn[t].on, turn[t].at # "endStopped", t)
                 /\ turn'[t].at = "leaving"
<1> DEFINE ends == {"compacting", "input", "model", "throw", "end", "failed", "stopped", "endFailed",
                    "endStopped", "leaving", "done"}
<1>1. ends \subseteq TurnPcs /\ {"leaving", "throw", "done"} \cap LivePcs = {}
  BY DEF TurnPcs, LivePcs, LookPcs
<1>2. {"scope", "compacting", "checkCompacting", "input", "model", "checkModel", "finalizing",
       "checkFinalizing", "answer", "end", "failed", "stopped", "endFailed", "endStopped"} \subseteq LivePcs
  BY DEF LivePcs, LookPcs
<1>3. "idle" \notin LivePcs
  BY DEF LivePcs, LookPcs
<1>4. turn[t].at # "idle" => turn[t].on \in Sessions
  BY DEF Typed, Placed
<1>5. ASSUME NEW p \in ends, Goto(t, p) \/ Fail(t, p)
      PROVE  turn'[t].on = turn[t].on /\ OthersStay(t)
  BY <1>1, <1>5, GotoFacts, FailFacts DEF Typed
<1>6. UNCHANGED row => RowsStay
  BY DEF RowsStay
<1>7. CASE BeginScope(t)
  <2>1. (\E p \in {"compacting", "input"} : Goto(t, p)) /\ turn[t].at = "scope"
        /\ UNCHANGED <<row, messages, fresh, unmarked>>
    BY <1>7 DEF BeginScope
  <2> QED BY <1>2, <1>3, <1>4, <1>5, <1>6, <2>1 DEF Live
<1>8. ASSUME NEW p \in {"compacting", "model", "finalizing"},
             NEW check \in {"checkCompacting", "checkModel", "checkFinalizing"},
             SetPhase(t, p, check)
      PROVE  /\ UNCHANGED <<messages, fresh, unmarked>> /\ Live(t)
             /\ turn[t].at # "idle" /\ RowsStay /\ turn'[t].on = turn[t].on /\ OthersStay(t)
  <2>1. UNCHANGED <<messages, fresh, unmarked>>
    BY <1>8 DEF SetPhase
  <2> QED BY <1>2, <1>8, <2>1, SetPhaseFacts DEF Live
<1>9. ASSUME NEW p \in {"compacting", "model", "finalizing"},
             NEW check \in {"checkCompacting", "checkModel", "checkFinalizing"},
             NEW next \in {"input", "finalizing", "answer"},
             Checkpoint(t, check, p, next)
      PROVE  /\ UNCHANGED <<messages, fresh, unmarked>> /\ Live(t)
             /\ turn[t].at # "idle" /\ RowsStay /\ turn'[t].on = turn[t].on /\ OthersStay(t)
  BY <1>2, <1>6, <1>9, CheckpointFacts DEF Live
<1>10. CASE AppendInput(t) \/ AppendAnswer(t) \/ AppendFailure(t)
  <2>1. UNCHANGED <<row, messages, history>> /\ turn[t].at \in {"input", "answer", "failed", "stopped"}
    BY <1>10 DEF AppendInput, AppendAnswer, AppendFailure
  <2>2. \E p \in ends : Goto(t, p) \/ Fail(t, p)
    BY <1>10 DEF AppendInput, AppendAnswer, AppendFailure
  <2> QED BY <1>2, <1>3, <1>4, <1>5, <1>6, <2>1, <2>2 DEF history, Live
<1>11. CASE EndTurn(t)
  <2>1. UNCHANGED <<messages, fresh>> /\ turn[t].at \in {"end", "endFailed", "endStopped"}
    BY <1>11 DEF EndTurn
  <2>2. CASE row[turn[t].on].exists
    <3>1. ClearRunning(turn[t].on, turn[t].at # "endStopped", t) /\ Goto(t, "leaving")
      BY <1>11, <2>2 DEF EndTurn
    <3>2. unmarked \subseteq unmarked'
      BY <3>1 DEF ClearRunning
    <3>3. turn'[t].at = "leaving"
      BY <1>1, <3>1, GotoFacts DEF Typed
    <3> QED BY <1>2, <1>3, <1>4, <1>5, <1>11, <2>1, <2>2, <3>1, <3>2, <3>3 DEF Live
  <2>3. CASE ~ row[turn[t].on].exists
    <3>1. (\E p \in {"stopped", "failed"} : Fail(t, p)) /\ UNCHANGED <<row, unmarked>>
      BY <1>11, <2>3 DEF EndTurn
    <3> QED BY <1>2, <1>3, <1>4, <1>5, <1>6, <2>1, <3>1 DEF Live
  <2> QED BY <2>2, <2>3
<1>12. CASE Leave(t)
  <2>1. UNCHANGED <<row, messages, history>> /\ turn[t].at \in {"leaving", "throw"}
    BY <1>12 DEF Leave
  <2>2. turn' = [turn EXCEPT ![t] = [turn[t] EXCEPT !.at = "done", !.tries = 0]]
    BY <1>12 DEF Leave, Typed, Types
  <2>3. turn'[t].on = turn[t].on /\ OthersStay(t) /\ turn'[t].at = "done"
    BY <2>2 DEF Typed, Types, OthersStay
  <2> QED BY <1>1, <1>4, <1>6, <2>1, <2>3 DEF history, Live
<1>13. CASE TurnFault(t)
  <2>1. UNCHANGED <<row, messages, fresh>> /\ turn[t].at \in LivePcs \cup {"leaving"}
    BY <1>13 DEF TurnFault
  <2>2. \E p \in {"throw", "stopped", "failed"} : Goto(t, p) \/ Fail(t, p)
    BY <1>13 DEF TurnFault
  <2>3. unmarked \subseteq unmarked' /\ (turn[t].at = "leaving" => t \in unmarked')
    BY <1>13 DEF TurnFault
  <2> QED BY <1>3, <1>4, <1>5, <1>6, <2>1, <2>2, <2>3 DEF Live
<1> QED BY <1>4, <1>7, <1>8, <1>9, <1>10, <1>11, <1>12, <1>13 DEF Turn

LEMMA TurnMarks ==
    ASSUME Typed, Marks, NEW t \in Turns, Turn(t)
    PROVE  Marks'
<1>1. ASSUME NEW s \in Sessions, StartTurn(t, s) PROVE Marks'
  <2>0. turn[t].at = "idle" /\ row[s].exists /\ UNCHANGED <<messages, unmarked>>
    BY <1>1 DEF StartTurn
  <2>1. CASE row[s].running
    <3>1. turn' = [turn EXCEPT ![t] = [at |-> "done", on |-> s, tries |-> 0]] /\ UNCHANGED <<row, fresh>>
      BY <1>1, <2>1 DEF StartTurn
    <3>2. /\ \A u \in Turns : Live(u)' => Live(u) /\ turn'[u].on = turn[u].on
          /\ \A u \in Turns : turn'[u].on \in {turn[u].on, s}
      BY <3>1 DEF Live, LivePcs, LookPcs, Typed, Types
    <3>3. LiveIsMarked'
      BY <2>0, <3>1, <3>2 DEF Marks, LiveIsMarked
    <3>4. BornFirst'
      BY <2>0, <3>1, <3>2 DEF Marks, BornFirst, messages
    <3>5. ASSUME NEW d \in Deletes PROVE DeleterKnows(d)'
      BY <2>0, <3>1, <3>2 DEF Marks, DeleterKnows, messages, LiveOn
    <3> QED BY <3>3, <3>4, <3>5 DEF Marks
  <2>2. CASE ~ row[s].running
    <3> DEFINE r == [exists |-> TRUE, running |-> TRUE, phase |-> "starting", intr |-> FALSE]
    <3>1. /\ turn' = [turn EXCEPT ![t] = [at |-> "scope", on |-> s, tries |-> 0]]
          /\ row' = [row EXCEPT ![s] = r]
          /\ fresh' = [d \in Deletes |-> IF del[d].at = "delete" /\ del[d].on = s
                                         THEN fresh[d] \cup {t} ELSE fresh[d]]
      BY <1>1, <2>2 DEF StartTurn
    <3>2. /\ \A u \in Turns : u # t => turn'[u] = turn[u]
          /\ turn'[t].on = s
      BY <3>1 DEF Typed, Types
    <3>3. r.running /\ r.exists
      OBVIOUS
    <3> HIDE DEF r
    <3>4. /\ row'[s].running /\ row'[s].exists /\ \A z \in Sessions : z # s => row'[z] = row[z]
      BY <3>1, <3>3 DEF Typed, Types
    <3>5. \A u \in Turns : Live(u) => turn[u].on \in Sessions
      BY DEF Typed, Placed, Live, LivePcs, LookPcs
    <3>6. LiveIsMarked'
      BY <2>0, <3>2, <3>4, <3>5 DEF Marks, LiveIsMarked, Live
    <3>7. BornFirst'
      BY <2>0, <3>2, <3>4 DEF Marks, BornFirst, messages, Sessions
    <3>8. ASSUME NEW d \in Deletes PROVE DeleterKnows(d)'
      <4> SUFFICES ASSUME del[d].at = "delete", row'[del[d].on].exists,
                          NEW u \in Turns, Live(u)', turn'[u].on = del[d].on
                   PROVE  u \in fresh'[d] \cup unmarked
        BY <2>0 DEF DeleterKnows, LiveOn, messages
      <4>1. del[d].on \in Sessions /\ row[del[d].on].exists
        BY <2>0, <3>4 DEF Typed, Placed
      <4>2. CASE u = t
        BY <3>1, <3>2, <4>2
      <4>3. CASE u # t
        BY <3>1, <3>2, <4>1, <4>3 DEF Marks, DeleterKnows, LiveOn, Live
      <4> QED BY <4>2, <4>3
    <3> QED BY <3>6, <3>7, <3>8 DEF Marks
  <2> QED BY <2>1, <2>2
<1>2. CASE ~ \E s \in Sessions : StartTurn(t, s)
  <2>1. /\ UNCHANGED <<messages, fresh>> /\ unmarked \subseteq unmarked'
        /\ turn[t].on \in Sessions
        /\ turn'[t].on = turn[t].on /\ OthersStay(t)
        /\ Live(t)' => Live(t) \/ t \in unmarked'
        /\ RowsStay \/ (ClearRunning(turn[t].on, turn[t].at # "endStopped", t) /\ turn'[t].at = "leaving")
    BY <1>2, TurnEffects
  <2>2. TurnsCalm
    BY <2>1 DEF TurnsCalm, OthersStay, Live
  <2>3. DeletesCalm /\ BranchesCalm
    BY <2>1 DEF DeletesCalm, BranchesCalm, messages
  <2>4. RowsCalm
    <3>1. CASE RowsStay
      BY <3>1 DEF RowsStay, RowsCalm
    <3>2. CASE ClearRunning(turn[t].on, turn[t].at # "endStopped", t) /\ turn'[t].at = "leaving"
      <4>1. /\ \A z \in Sessions : row'[z].exists = row[z].exists
            /\ \A z \in Sessions : z # turn[t].on => row'[z] = row[z]
            /\ unmarked' = unmarked \cup (LiveOn(turn[t].on) \ {t})
        BY <2>1, <3>2, ClearRunningTyped DEF Typed
      <4>2. ~ Live(t)'
        BY <3>2 DEF Live, LivePcs, LookPcs
      <4>3. \A u \in Turns : Live(u)' /\ turn[u].on = turn[t].on => u \in unmarked'
        BY <2>1, <4>1, <4>2 DEF LiveOn, Live, OthersStay
      <4> QED BY <4>1, <4>3 DEF RowsCalm
    <3> QED BY <2>1, <3>1, <3>2
  <2> QED BY <2>2, <2>3, <2>4, CalmMarks
<1> QED BY <1>1, <1>2

(* The other messages move no turn.                                         *)
LEMMA TurnsStill ==
    ASSUME UNCHANGED turn, unmarked \subseteq unmarked'
    PROVE  TurnsCalm /\ \A u \in Turns : Live(u)' = Live(u)
BY DEF TurnsCalm, Live

LEMMA ClearRunningCalm ==
    ASSUME Typed, UNCHANGED turn, NEW s \in Sessions, NEW k \in BOOLEAN, ClearRunning(s, k, None)
    PROVE  TurnsCalm /\ RowsCalm
<1>1. /\ \A z \in Sessions : row'[z].exists = row[z].exists
      /\ \A z \in Sessions : z # s => row'[z] = row[z]
      /\ unmarked' = unmarked \cup (LiveOn(s) \ {None})
  BY ClearRunningTyped DEF Typed
<1>2. \A u \in Turns : Live(u)' /\ turn[u].on = s => u \in unmarked'
  BY <1>1, NamesAssumption DEF LiveOn, Live
<1> QED BY <1>1, <1>2, TurnsStill DEF RowsCalm

LEMMA RequestCalm ==
    ASSUME Typed, NEW s \in Sessions, NEW p \in Phases, RequestInterrupt(s, p)
    PROVE  RowsCalm
BY RequestTyped DEF Typed, RowsCalm

LEMMA DeleteMarks ==
    ASSUME Typed, Marks, NEW d \in Deletes, Delete(d)
    PROVE  Marks'
<1>1. UNCHANGED <<turn, branch>>
  BY DEF Delete, DeleteSelect, DeleteRequest, DeleteRuntime, DeleteComplete, DeletePoll, DeleteRows, DelOnly
<1>2. BranchesCalm
  BY <1>1 DEF BranchesCalm
<1>3. del[d] \in [at : DelPcs, on : Somewhere, phase : Phases] /\ (del[d].at # "idle" => del[d].on \in Sessions)
  BY DEF Typed, Types, Placed
<1>4. UNCHANGED row => RowsCalm
  BY DEF RowsCalm
<1>5. UNCHANGED unmarked => TurnsCalm
  BY <1>1, TurnsStill
<1>6. {"done", "poll", "complete", "delete", "request", "runtime"} \subseteq DelPcs
  BY DEF DelPcs
<1>7. ASSUME UNCHANGED fresh, NEW p \in DelPcs \ {"delete"}, DelGoto(d, p), del[d].at # "idle"
      PROVE  DeletesCalm
  BY <1>3, <1>7, DelGotoFacts DEF Typed, DeletesCalm
<1>8. ASSUME NEW s \in Sessions, DeleteSelect(d, s) PROVE Marks'
  <2>1. UNCHANGED <<row, unmarked, fresh>> /\ row[s].exists
    BY <1>8 DEF DeleteSelect
  <2> DEFINE at == IF row[s].running THEN "request" ELSE "delete"
             p == IF row[s].running THEN scope[s].phase ELSE "idle"
  <2>2. del' = [del EXCEPT ![d] = [at |-> at, on |-> s, phase |-> p]]
    BY <1>8 DEF DeleteSelect
  <2>3. at = "delete" => ~ row[s].running
    OBVIOUS
  <2> HIDE DEF at, p
  <2>4. DeletesCalm
    BY <2>1, <2>2, <2>3 DEF DeletesCalm, Typed, Types
  <2> QED BY <1>2, <1>4, <1>5, <2>1, <2>4, CalmMarks
<1>9. CASE DeleteRequest(d)
  <2>1. UNCHANGED <<unmarked, fresh>> /\ del[d].at = "request"
    BY <1>9 DEF DeleteRequest
  <2>2. CASE row[del[d].on].exists
    <3>1. /\ RequestInterrupt(del[d].on, del[d].phase)
          /\ del' = [del EXCEPT ![d] = [del[d] EXCEPT !.at = "runtime", !.phase = "idle"]]
      BY <1>9, <2>2 DEF DeleteRequest, Typed, Types
    <3>2. /\ del'[d].at = "runtime" /\ del'[d].on = del[d].on
          /\ \A z \in Deletes : z # d => del'[z] = del[z]
      BY <1>3, <3>1 DEF Typed, Types
    <3>3. DeletesCalm
      BY <1>3, <2>1, <3>2 DEF DeletesCalm
    <3> QED BY <1>2, <1>3, <1>5, <2>1, <3>1, <3>3, RequestCalm, CalmMarks
  <2>3. CASE ~ row[del[d].on].exists
    <3>1. DelGoto(d, "done") /\ UNCHANGED row
      BY <1>9, <2>3 DEF DeleteRequest
    <3> QED BY <1>2, <1>4, <1>5, <1>6, <1>7, <2>1, <3>1, CalmMarks
  <2> QED BY <2>2, <2>3
<1>10. CASE DeleteRuntime(d)
  <2>1. /\ UNCHANGED <<row, unmarked, fresh>> /\ del[d].at = "runtime"
        /\ \E p \in {"poll", "complete"} : DelGoto(d, p)
    BY <1>10 DEF DeleteRuntime
  <2> QED BY <1>2, <1>4, <1>5, <1>6, <1>7, <2>1, CalmMarks
<1>11. CASE DeleteComplete(d)
  <2>1. UNCHANGED fresh /\ del[d].at = "complete"
    BY <1>11 DEF DeleteComplete
  <2>2. CASE row[del[d].on].exists
    <3>1. ClearRunning(del[d].on, FALSE, None) /\ DelGoto(d, "poll")
      BY <1>11, <2>2 DEF DeleteComplete
    <3> QED BY <1>1, <1>2, <1>3, <1>6, <1>7, <2>1, <3>1, ClearRunningCalm, CalmMarks
  <2>3. CASE ~ row[del[d].on].exists
    <3>1. DelGoto(d, "done") /\ UNCHANGED <<row, unmarked>>
      BY <1>11, <2>3 DEF DeleteComplete
    <3> QED BY <1>2, <1>4, <1>5, <1>6, <1>7, <2>1, <3>1, CalmMarks
  <2> QED BY <2>2, <2>3
<1>12. CASE DeletePoll(d)
  <2>1. /\ UNCHANGED <<row, unmarked>> /\ del[d].at = "poll"
        /\ fresh' = [fresh EXCEPT ![d] = {}]
        /\ DelGoto(d, IF row[del[d].on].running THEN "done" ELSE "delete")
    BY <1>12 DEF DeletePoll
  <2>2. /\ del'[d].at = (IF row[del[d].on].running THEN "done" ELSE "delete")
        /\ del'[d].on = del[d].on
        /\ \A z \in Deletes : z # d => del'[z] = del[z]
    BY <1>6, <2>1, DelGotoFacts DEF Typed
  <2>3. DeletesCalm
    BY <1>3, <2>1, <2>2 DEF DeletesCalm, Typed, Types
  <2> QED BY <1>2, <1>4, <1>5, <2>1, <2>3, CalmMarks
<1>13. CASE DeleteRows(d)
  <2>1. /\ UNCHANGED <<unmarked, fresh>> /\ del[d].at = "delete"
        /\ row' = [row EXCEPT ![del[d].on] = NoRow] /\ DelGoto(d, "done")
    BY <1>13 DEF DeleteRows, history
  <2>2. RowsCalm
    <3>1. ~ NoRow.exists
      BY DEF NoRow
    <3> QED BY <1>3, <2>1, <3>1 DEF RowsCalm, Typed, Types
  <2> QED BY <1>2, <1>5, <1>6, <1>7, <2>1, <2>2, CalmMarks
<1> QED BY <1>8, <1>9, <1>10, <1>11, <1>12, <1>13 DEF Delete

LEMMA CutMarks ==
    ASSUME Typed, Marks, NEW c \in Cuts, Cut(c)
    PROVE  Marks'
<1>1. UNCHANGED <<row, turn, del, branch, fresh, unmarked>>
  BY DEF Cut, CutReceived, CutCheck, CutList, CutDelete, CutOnly, history
<1> QED BY <1>1 DEF Marks, LiveIsMarked, BornFirst, DeleterKnows, LiveOn, Live

(* What a branch's step does to its row: nothing, or it creates the row,    *)
(* marks it as running, sets its phase, or ends the turn of the compaction.  *)
BranchMoves(b) ==
    \/ UNCHANGED <<row, unmarked>> /\ (branch'[b].at \in Unborn => branch[b].at \in Unborn)
    \/ /\ branch[b].at = "create" /\ branch'[b].at = "start"
       /\ row'[b] = IdleRow /\ UNCHANGED unmarked
    \/ /\ branch[b].at = "start" /\ branch'[b].at = "mark"
       /\ row[b].exists /\ row'[b].exists /\ row'[b].running /\ ~ row'[b].intr /\ UNCHANGED unmarked
    \/ branch[b].at = "mark" /\ branch'[b].at = "announce" /\ RowsStay /\ UNCHANGED unmarked
    \/ /\ branch[b].at \in {"end", "catch", "fail"} /\ branch'[b].at \in {"tell", "fail", "failRow"}
       /\ row[b].exists /\ ClearRunning(b, TRUE, None)

LEMMA BranchEffects ==
    ASSUME Typed, NEW b \in Branches, Branch(b)
    PROVE  /\ UNCHANGED <<scope, turn, aborted, del, cut, intr, missed, fresh, overtaken>>
           /\ \A z \in Branches : z # b => branch'[z] = branch[z]
           /\ \A s \in Sessions : s # b => row'[s] = row[s]
           /\ BranchMoves(b)
<1>0. /\ branch \in [Branches -> [at : BranchPcs, of : Someone, src : SUBSET Entries]]
      /\ row \in [Sessions -> Rows] /\ b \in Sessions
  BY DEF Typed, Types, Sessions
<1>1. UNCHANGED <<scope, turn, aborted, del, cut, intr, missed, fresh, overtaken>>
  BY DEF Branch, BranchReceived, BranchCheck, BranchList, BranchCreate, BranchStart, BranchMark,
         BranchAnnounce, BranchCompact, BranchAppend, BranchEnds, BranchEnd, BranchFailRow,
         BranchTell, BranchFault, BranchOnly
<1>2. BranchPcs = BranchPcs \cup {"check", "list", "create", "start", "mark", "announce", "compact",
              "append", "end", "catch", "fail", "failRow", "tell", "tellFailed", "done",
              "gone", "unhandled"}
  BY DEF BranchPcs
<1> DEFINE Others == /\ \A z \in Branches : z # b => branch'[z] = branch[z]
                     /\ \A s \in Sessions : s # b => row'[s] = row[s]
<1> SUFFICES Others /\ BranchMoves(b)
  BY <1>1
<1>3. ASSUME NEW p \in BranchPcs \ Unborn, BranchGoto(b, p), UNCHANGED <<row, unmarked>>
      PROVE  Others /\ BranchMoves(b)
  BY <1>3, BranchGotoFacts DEF Typed, BranchMoves
<1>4. ASSUME NEW t \in Turns, BranchReceived(b, t) PROVE Others /\ BranchMoves(b)
  <2>1. branch' = [branch EXCEPT ![b] = [at |-> "check", of |-> t, src |-> {}]]
        /\ UNCHANGED <<row, unmarked>> /\ branch[b].at = "idle"
    BY <1>4 DEF BranchReceived
  <2> QED BY <1>0, <2>1 DEF BranchMoves, Unborn
<1>5. CASE BranchCheck(b)
  <2>1. (\E p \in {"list", "done"} : BranchGoto(b, p)) /\ UNCHANGED <<row, unmarked>>
        /\ branch[b].at = "check"
    BY <1>5 DEF BranchCheck
  <2>2. Others
    BY <1>2, <2>1, BranchGotoFacts DEF Typed
  <2> QED BY <2>1, <2>2 DEF BranchMoves, Unborn
<1>6. CASE BranchList(b)
  <2> DEFINE src == RowsThrough(data[Source], branch[b].of)
  <2>1. PICK p \in {"create", "done"} : branch' = [branch EXCEPT ![b].src = src, ![b].at = p]
    BY <1>6 DEF BranchList
  <2> HIDE DEF src
  <2>2. branch[b].at = "list" /\ UNCHANGED <<row, unmarked>>
    BY <1>6 DEF BranchList
  <2> QED BY <1>0, <2>1, <2>2 DEF BranchMoves, Unborn
<1>7. CASE BranchCreate(b)
  <2>1. /\ branch' = [branch EXCEPT ![b] = [at |-> "start", of |-> None, src |-> {}]]
        /\ row' = [row EXCEPT ![b] = IdleRow] /\ UNCHANGED unmarked /\ branch[b].at = "create"
    BY <1>7 DEF BranchCreate
  <2> QED BY <1>0, <2>1 DEF BranchMoves
<1>8. CASE BranchStart(b)
  <2>1. CASE row[b].exists /\ ~ row[b].running
    <3> DEFINE r == [exists |-> TRUE, running |-> TRUE, phase |-> "starting", intr |-> FALSE]
    <3>1. row' = [row EXCEPT ![b] = r] /\ BranchGoto(b, "mark") /\ UNCHANGED unmarked
          /\ branch[b].at = "start"
      BY <1>8, <2>1 DEF BranchStart
    <3>2. r.exists /\ r.running /\ ~ r.intr
      OBVIOUS
    <3> HIDE DEF r
    <3> QED BY <1>0, <1>2, <2>1, <3>1, <3>2, BranchGotoFacts DEF Typed, BranchMoves
  <2>2. CASE ~ (row[b].exists /\ ~ row[b].running)
    <3>1. BranchGoto(b, "done") /\ UNCHANGED <<row, unmarked>> /\ "done" \in BranchPcs \ Unborn
      BY <1>2, <1>8, <2>2 DEF BranchStart, Unborn
    <3> QED BY <1>3, <3>1
  <2> QED BY <2>1, <2>2
<1>9. CASE BranchMark(b)
  <2>1. CASE row[b].exists
    <3>1. row' = [row EXCEPT ![b].phase = "compacting"] /\ BranchGoto(b, "announce")
          /\ UNCHANGED unmarked /\ branch[b].at = "mark"
      BY <1>9, <2>1 DEF BranchMark
    <3>2. row[b] \in Rows
      BY <1>0
    <3> DEFINE r == [row[b] EXCEPT !.phase = "compacting"]
    <3>3. r.exists = row[b].exists /\ r.running = row[b].running /\ r.intr = row[b].intr
      BY <3>2 DEF Rows
    <3>4. row' = [row EXCEPT ![b] = r]
      BY <1>0, <3>1
    <3> HIDE DEF r
    <3>5. RowsStay /\ \A s \in Sessions : s # b => row'[s] = row[s]
      BY <1>0, <3>3, <3>4 DEF RowsStay
    <3> QED BY <1>2, <3>1, <3>5, BranchGotoFacts DEF Typed, BranchMoves
  <2>2. CASE ~ row[b].exists
    <3>1. BranchGoto(b, "done") /\ UNCHANGED <<row, unmarked>> /\ "done" \in BranchPcs \ Unborn
      BY <1>2, <1>9, <2>2 DEF BranchMark, Unborn
    <3> QED BY <1>3, <3>1
  <2> QED BY <2>1, <2>2
<1>10. CASE BranchAnnounce(b) \/ BranchCompact(b) \/ BranchAppend(b) \/ BranchFailRow(b) \/ BranchTell(b)
            \/ BranchFault(b)
  <2>1. UNCHANGED <<row, unmarked>>
    BY <1>10 DEF BranchAnnounce, BranchCompact, BranchAppend, BranchFailRow, BranchTell, BranchFault
  <2>2. \E p \in {"compact", "append", "catch", "end", "tellFailed", "unhandled", "done", "gone",
                  "fail", "failRow"} : BranchGoto(b, p)
    BY <1>10 DEF BranchAnnounce, BranchCompact, BranchAppend, BranchFailRow, BranchTell, BranchFault
  <2>3. {"compact", "append", "catch", "end", "tellFailed", "unhandled", "done", "gone",
         "fail", "failRow"} \subseteq BranchPcs \ Unborn
    BY <1>2 DEF Unborn
  <2> QED BY <1>3, <2>1, <2>2, <2>3
<1>11. CASE BranchEnds(b)
  <2>1. PICK p \in {"end", "catch", "fail"}, next \in {"tell", "fail", "failRow"},
             orElse \in {"catch", "fail", "failRow"} : BranchEnd(b, p, next, orElse)
    BY <1>11 DEF BranchEnds
  <2>2. next \in BranchPcs /\ orElse \in BranchPcs \ Unborn
    BY <1>2 DEF Unborn
  <2>3. CASE row[b].exists
    <3>1. ClearRunning(b, TRUE, None) /\ BranchGoto(b, next) /\ branch[b].at = p
      BY <2>1, <2>3 DEF BranchEnd
    <3>2. \A s \in Sessions : s # b => row'[s] = row[s]
      BY <1>0, <3>1, ClearRunningTyped DEF Typed
    <3> QED BY <2>2, <2>3, <3>1, <3>2, BranchGotoFacts DEF Typed, BranchMoves
  <2>4. CASE ~ row[b].exists
    BY <1>3, <2>1, <2>2, <2>4 DEF BranchEnd
  <2> QED BY <2>3, <2>4
<1> QED BY <1>4, <1>5, <1>6, <1>7, <1>8, <1>9, <1>10, <1>11 DEF Branch

LEMMA BranchMarks ==
    ASSUME Typed, Marks, NEW b \in Branches, Branch(b)
    PROVE  Marks'
<1>1. /\ UNCHANGED <<turn, del, fresh>>
      /\ \A z \in Branches : z # b => branch'[z] = branch[z]
      /\ \A s \in Sessions : s # b => row'[s] = row[s]
      /\ BranchMoves(b) /\ b \in Sessions
  BY BranchEffects DEF Sessions
<1>2. DeletesCalm
  BY <1>1 DEF DeletesCalm
<1>3. CASE branch[b].at = "create" /\ branch'[b].at = "start" /\ UNCHANGED unmarked
  <2>1. /\ \A t \in Turns : turn[t].on # b
        /\ \A d \in Deletes : del[d].on # b
        /\ \A u \in Turns : Live(u)' = Live(u)
        /\ \A u \in Turns : Live(u) => turn[u].on \in Sessions
        /\ \A d \in Deletes : del[d].at = "delete" => del[d].on \in Sessions
    BY <1>1, <1>3 DEF Marks, BornFirst, Unborn, Live, Typed, Placed, LivePcs, LookPcs
  <2>2. LiveIsMarked'
    BY <1>1, <1>3, <2>1 DEF Marks, LiveIsMarked
  <2>3. BornFirst'
    BY <1>1, <1>3, <2>1 DEF Marks, BornFirst, Unborn, Sessions
  <2>4. ASSUME NEW d \in Deletes PROVE DeleterKnows(d)'
    <3>1. LiveOn(del[d].on)' = LiveOn(del[d].on)
      BY <1>1, <2>1 DEF LiveOn
    <3>2. del[d].at = "delete" => row'[del[d].on] = row[del[d].on]
      BY <1>1, <2>1
    <3> QED BY <1>1, <1>3, <3>1, <3>2 DEF Marks, DeleterKnows
  <2> QED BY <2>2, <2>3, <2>4 DEF Marks
<1>4. CASE UNCHANGED <<row, unmarked>> /\ (branch'[b].at \in Unborn => branch[b].at \in Unborn)
  BY <1>1, <1>2, <1>4, TurnsStill, CalmMarks DEF RowsCalm, BranchesCalm
<1>5. CASE /\ branch[b].at = "start" /\ branch'[b].at = "mark"
           /\ row[b].exists /\ row'[b].exists /\ row'[b].running /\ UNCHANGED unmarked
  <2>1. RowsCalm /\ BranchesCalm
    BY <1>1, <1>5 DEF RowsCalm, BranchesCalm, Unborn
  <2> QED BY <1>1, <1>2, <1>5, <2>1, TurnsStill, CalmMarks
<1>6. CASE branch[b].at = "mark" /\ branch'[b].at = "announce" /\ RowsStay /\ UNCHANGED unmarked
  <2>1. RowsCalm /\ BranchesCalm
    BY <1>1, <1>6 DEF RowsCalm, BranchesCalm, Unborn, RowsStay
  <2> QED BY <1>1, <1>2, <1>6, <2>1, TurnsStill, CalmMarks
<1>7. CASE branch'[b].at \in {"tell", "fail", "failRow"} /\ ClearRunning(b, TRUE, None)
  <2>1. RowsCalm /\ TurnsCalm
    BY <1>1, <1>7, ClearRunningCalm
  <2>2. BranchesCalm
    BY <1>1, <1>7 DEF BranchesCalm, Unborn
  <2> QED BY <1>2, <2>1, <2>2, CalmMarks
<1> QED BY <1>1, <1>3, <1>4, <1>5, <1>6, <1>7 DEF BranchMoves

LEMMA InterruptMarks ==
    ASSUME Typed, Marks, NEW x \in Interrupts, Interrupt(x)
    PROVE  Marks'
<1>1. UNCHANGED <<turn, del, branch, fresh>>
  BY DEF Interrupt, IntRead, IntAppend, IntRequest, IntRuntime, IntComplete, IntOnly
<1>2. DeletesCalm /\ BranchesCalm
  BY <1>1 DEF DeletesCalm, BranchesCalm
<1>3. CASE UNCHANGED <<row, unmarked>>
  <2>1. RowsCalm
    BY <1>3 DEF RowsCalm
  <2> QED BY <1>1, <1>2, <1>3, <2>1, TurnsStill, CalmMarks
<1>4. intr[x].at # "idle" => intr[x].on \in Sessions
  BY DEF Typed, Placed
<1>5. CASE IntRequest(x)
  <2>1. UNCHANGED unmarked /\ intr[x].at = "request" /\ intr[x].phase \in Phases
    BY <1>5 DEF IntRequest, Typed, Types
  <2>2. UNCHANGED row \/ RequestInterrupt(intr[x].on, intr[x].phase)
    BY <1>5 DEF IntRequest
  <2> QED BY <1>1, <1>2, <1>3, <1>4, <2>1, <2>2, RequestCalm, TurnsStill, CalmMarks
<1>6. CASE IntComplete(x)
  <2>1. intr[x].at = "complete" /\ (UNCHANGED <<row, unmarked>> \/ ClearRunning(intr[x].on, FALSE, None))
    BY <1>6 DEF IntComplete
  <2> QED BY <1>1, <1>2, <1>3, <1>4, <2>1, ClearRunningCalm, CalmMarks
<1>7. CASE (\E s \in Sessions : IntRead(x, s)) \/ IntAppend(x) \/ IntRuntime(x)
  BY <1>3, <1>7 DEF IntRead, IntAppend, IntRuntime
<1> QED BY <1>5, <1>6, <1>7 DEF Interrupt

LEMMA StepMarks ==
    ASSUME Typed, Marks, [Next]_vars
    PROVE  Marks'
<1>1. CASE UNCHANGED vars
  BY <1>1 DEF vars, Marks, LiveIsMarked, BornFirst, DeleterKnows, LiveOn, Live
<1> QED BY <1>1, TurnMarks, DeleteMarks, CutMarks, BranchMarks, InterruptMarks DEF Next

LEMMA AlwaysMarks == Spec => []Marks
BY AlwaysTyped, InitMarks, StepMarks, PTL DEF Spec

(* deleteSession takes a session that is there from under no turn its last   *)
(* look could have seen: whatever starts, is interrupted or deleted at the   *)
(* same time, the live turns it takes the row from started after that look,  *)
(* or ran on when an interrupt had cleared isrunning.                        *)
THEOREM DeletionSparesTurns == Spec => DeleteSparesTurns
<1>1. Marks => [\A d \in Deletes :
                   del[d].at = "delete" /\ del'[d].at = "done" /\ row[del[d].on].exists =>
                       LiveOn(del[d].on) \subseteq fresh[d] \cup unmarked]_vars
  BY DEF Marks, DeleterKnows
<1> QED BY <1>1, AlwaysMarks, PTL DEF DeleteSparesTurns

-----------------------------------------------------------------------------
(* BranchSettles                                                            *)

(* What the other messages do to rows: nothing, or they request an           *)
(* interrupt, clear isrunning, or delete a row.                              *)
MessageMoves ==
    \/ UNCHANGED <<row, missed>>
    \/ \E s \in Sessions, p \in Phases : RequestInterrupt(s, p)
    \/ \E s \in Sessions : ClearRunning(s, FALSE, None) /\ UNCHANGED missed
    \/ \E s \in Sessions : row' = [row EXCEPT ![s] = NoRow] /\ UNCHANGED missed

LEMMA MessageEffects ==
    ASSUME Typed,
           \/ \E d \in Deletes : Delete(d)
           \/ \E c \in Cuts : Cut(c)
           \/ \E x \in Interrupts : Interrupt(x)
    PROVE  UNCHANGED <<turn, branch, faults>> /\ MessageMoves
<1>1. ASSUME NEW d \in Deletes, Delete(d) PROVE UNCHANGED <<turn, branch, faults>> /\ MessageMoves
  <2>1. UNCHANGED <<turn, branch, faults>>
    BY <1>1 DEF Delete, DeleteSelect, DeleteRequest, DeleteRuntime, DeleteComplete, DeletePoll,
                DeleteRows, DelOnly
  <2>2. del[d].phase \in Phases /\ (del[d].at # "idle" => del[d].on \in Sessions)
    BY DEF Typed, Types, Placed
  <2>3. CASE DeleteRequest(d)
    BY <2>1, <2>2, <2>3 DEF DeleteRequest, MessageMoves
  <2>4. CASE DeleteComplete(d)
    BY <2>1, <2>2, <2>4 DEF DeleteComplete, MessageMoves
  <2>5. CASE DeleteRows(d)
    BY <2>1, <2>2, <2>5 DEF DeleteRows, MessageMoves, history
  <2>6. CASE (\E s \in Sessions : DeleteSelect(d, s)) \/ DeleteRuntime(d) \/ DeletePoll(d)
    BY <2>1, <2>6 DEF DeleteSelect, DeleteRuntime, DeletePoll, MessageMoves
  <2> QED BY <1>1, <2>3, <2>4, <2>5, <2>6 DEF Delete
<1>2. ASSUME NEW c \in Cuts, Cut(c) PROVE UNCHANGED <<turn, branch, faults>> /\ MessageMoves
  BY <1>2 DEF Cut, CutReceived, CutCheck, CutList, CutDelete, CutOnly, history, MessageMoves
<1>3. ASSUME NEW x \in Interrupts, Interrupt(x) PROVE UNCHANGED <<turn, branch, faults>> /\ MessageMoves
  <2>1. UNCHANGED <<turn, branch, faults>>
    BY <1>3 DEF Interrupt, IntRead, IntAppend, IntRequest, IntRuntime, IntComplete, IntOnly
  <2>2. intr[x].phase \in Phases /\ (intr[x].at # "idle" => intr[x].on \in Sessions)
    BY DEF Typed, Types, Placed
  <2>3. CASE IntRequest(x)
    BY <2>1, <2>2, <2>3 DEF IntRequest, MessageMoves
  <2>4. CASE IntComplete(x)
    BY <2>1, <2>2, <2>4 DEF IntComplete, MessageMoves
  <2>5. CASE (\E s \in Sessions : IntRead(x, s)) \/ IntAppend(x) \/ IntRuntime(x)
    BY <2>1, <2>5 DEF IntRead, IntAppend, IntRuntime, MessageMoves
  <2> QED BY <1>3, <2>3, <2>4, <2>5 DEF Interrupt
<1> QED BY <1>1, <1>2, <1>3

LEMMA MessageRunning ==
    ASSUME Typed, MessageMoves
    PROVE  \A s \in Sessions : row'[s].running => row[s].running
<1>1. ASSUME NEW s \in Sessions, NEW p \in Phases, RequestInterrupt(s, p)
      PROVE  \A z \in Sessions : row'[z].running => row[z].running
  BY <1>1, RequestTyped DEF Typed
<1>2. ASSUME NEW s \in Sessions, ClearRunning(s, FALSE, None)
      PROVE  \A z \in Sessions : row'[z].running => row[z].running
  BY <1>2, ClearRunningTyped DEF Typed
<1>3. ASSUME NEW s \in Sessions, row' = [row EXCEPT ![s] = NoRow]
      PROVE  \A z \in Sessions : row'[z].running => row[z].running
  <2>1. ~ NoRow.running
    BY DEF NoRow
  <2> QED BY <1>3, <2>1 DEF Typed, Types
<1> QED BY <1>1, <1>2, <1>3 DEF MessageMoves

(* A branch that is marked as running, by no turn, is in its compaction or   *)
(* has seen as many errors as the attempts to end it that it has behind it.  *)
Unowned(b) == \A t \in Turns : turn[t].on # b

EndsTried(b) ==
    /\ branch[b].at \notin Unborn \cup {"start", "tell"}
    /\ branch[b].at = "fail" => faults >= 1
    /\ branch[b].at \in {"failRow", "tellFailed", "done", "unhandled"} => faults >= 2

Settled ==
    /\ \A t \in Turns : turn[t].at = "idle" => turn[t].on = None
    /\ \A b \in Branches : row[b].running /\ Unowned(b) => EndsTried(b)

LEMMA InitSettled == Init => Settled
<1>1. ~ NoRow.running
  BY DEF NoRow
<1> QED BY <1>1, NamesAssumption DEF Init, Settled, Sessions

(* A step of others leaves the branch with its errors.                      *)
LEMMA OthersSettled ==
    ASSUME Settled, NEW b \in Branches, branch'[b] = branch[b],
           faults \in Nat, faults' \in Nat, faults' >= faults,
           row'[b].running => row[b].running \/ ~ Unowned(b)',
           Unowned(b)' => Unowned(b)
    PROVE  row'[b].running /\ Unowned(b)' => EndsTried(b)'
<1> SUFFICES ASSUME row'[b].running, Unowned(b)' PROVE EndsTried(b)'
  OBVIOUS
<1>1. EndsTried(b)
  BY DEF Settled
<1> QED BY <1>1 DEF EndsTried

LEMMA TurnSettled ==
    ASSUME Typed, Settled, NEW t \in Turns, Turn(t)
    PROVE  Settled'
<1>1. ASSUME NEW s \in Sessions, StartTurn(t, s) PROVE Settled'
  <2>1. /\ UNCHANGED <<branch, faults>> /\ turn[t].at = "idle" /\ faults \in Nat
        /\ \A z \in Sessions : row'[z].running => row[z].running \/ z = s
    <3>1. row' = row \/ row' = [row EXCEPT ![s] = [exists |-> TRUE, running |-> TRUE,
                                          phase |-> "starting", intr |-> FALSE]]
      BY <1>1 DEF StartTurn
    <3> QED BY <1>1, <3>1 DEF StartTurn, messages, Typed, Types
  <2>2. /\ turn'[t].on = s /\ turn'[t].at # "idle" /\ OthersStay(t)
    <3>1. \E at \in {"done", "scope"} : turn' = [turn EXCEPT ![t] = [at |-> at, on |-> s, tries |-> 0]]
      BY <1>1 DEF StartTurn
    <3> QED BY <3>1 DEF Typed, Types, OthersStay
  <2>3. \A u \in Turns : turn'[u].at = "idle" => turn'[u].on = None
    BY <2>2 DEF Settled, OthersStay
  <2>4. ASSUME NEW b \in Branches PROVE row'[b].running /\ Unowned(b)' => EndsTried(b)'
    <3>1. turn[t].on = None /\ None # b /\ b \in Sessions
      BY <2>1, NamesAssumption DEF Settled, Sessions
    <3>2. Unowned(b)' => Unowned(b)
      BY <2>2, <3>1 DEF Unowned, OthersStay
    <3>3. row'[b].running => row[b].running \/ ~ Unowned(b)'
      BY <2>1, <2>2, <3>1 DEF Unowned
    <3>4. faults' \in Nat /\ faults' >= faults /\ branch'[b] = branch[b]
      BY <2>1
    <3> QED BY <2>1, <3>2, <3>3, <3>4, OthersSettled
  <2> QED BY <2>3, <2>4 DEF Settled
<1>2. CASE ~ \E s \in Sessions : StartTurn(t, s)
  <2>1. /\ UNCHANGED messages /\ turn[t].at # "idle" /\ turn[t].on \in Sessions
        /\ turn'[t].on = turn[t].on /\ OthersStay(t)
        /\ RowsStay \/ ClearRunning(turn[t].on, turn[t].at # "endStopped", t)
    BY <1>2, TurnEffects
  <2>2. \A s \in Sessions : row'[s].running => row[s].running
    <3>1. CASE RowsStay
      BY <3>1 DEF RowsStay
    <3>2. CASE ClearRunning(turn[t].on, turn[t].at # "endStopped", t)
      BY <2>1, <3>2, ClearRunningTyped DEF Typed
    <3> QED BY <2>1, <3>1, <3>2
  <2>3. faults \in Nat /\ faults' \in Nat /\ faults' >= faults
    <3>1. faults' = faults \/ faults' = faults + 1
      BY <1>2 DEF Turn, BeginScope, SetPhase, Checkpoint, AppendInput, AppendAnswer, AppendFailure,
                  EndTurn, Leave, TurnFault, Fault
    <3> QED BY <3>1 DEF Typed, Types
  <2>4. turn'[t].at # "idle"
    <3>1. turn' \in [Turns -> [at : TurnPcs, on : Somewhere, tries : Nat]]
      BY TurnTyped DEF Typed, Types
    <3>2. turn'[t].at # "idle"
      <4> DEFINE ends == {"compacting", "input", "model", "throw", "end", "failed", "stopped", "endFailed",
                          "endStopped", "leaving", "checkCompacting", "checkModel", "checkFinalizing",
                          "finalizing", "answer"}
      <4>1. ends \subseteq TurnPcs /\ "idle" \notin ends /\ "throw" # "idle"
        BY DEF TurnPcs, LivePcs, LookPcs
      <4>2. CASE Leave(t)
        <5>1. turn' = [turn EXCEPT ![t] = [turn[t] EXCEPT !.at = "done", !.tries = 0]]
          BY <4>2 DEF Leave, Typed, Types
        <5> QED BY <5>1 DEF Typed, Types
      <4>3. ASSUME NEW p \in ends, Goto(t, p) \/ Fail(t, p) PROVE turn'[t].at # "idle"
        BY <4>1, <4>3, GotoFacts, FailFacts DEF Typed
      <4>4. CASE AppendFailure(t)
        <5>1. turn[t].at \in ends
          BY <4>4 DEF AppendFailure
        <5> QED BY <4>3, <4>4, <5>1 DEF AppendFailure
      <4>5. CASE ~ Leave(t) /\ ~ AppendFailure(t)
        <5>1. \E p \in ends : Goto(t, p) \/ Fail(t, p)
          BY <1>2, <4>5 DEF Turn, BeginScope, SetPhase, Checkpoint, AppendInput, AppendAnswer,
                            EndTurn, TurnFault
        <5> QED BY <4>3, <5>1
      <4> QED BY <4>2, <4>4, <4>5
    <3> QED BY <3>2
  <2>5. ASSUME NEW b \in Branches PROVE row'[b].running /\ Unowned(b)' => EndsTried(b)'
    <3>1. Unowned(b)' => Unowned(b)
      BY <2>1 DEF Unowned, OthersStay
    <3>2. branch'[b] = branch[b] /\ (row'[b].running => row[b].running)
      BY <2>1, <2>2 DEF messages, Sessions
    <3> QED BY <2>3, <3>1, <3>2, OthersSettled
  <2> QED BY <2>1, <2>4, <2>5 DEF Settled, OthersStay
<1> QED BY <1>1, <1>2

LEMMA BranchSettled ==
    ASSUME Typed, Settled, NEW b \in Branches, Branch(b)
    PROVE  Settled'
<1>1. /\ UNCHANGED turn
      /\ \A z \in Branches : z # b => branch'[z] = branch[z]
      /\ \A s \in Sessions : s # b => row'[s] = row[s]
      /\ BranchMoves(b) /\ b \in Sessions /\ Branches \subseteq Sessions
  BY BranchEffects DEF Sessions
<1>2. faults \in Nat /\ faults' \in Nat /\ faults' >= faults
  <2>1. faults' = faults \/ faults' = faults + 1
    BY DEF Branch, BranchReceived, BranchCheck, BranchList, BranchCreate, BranchStart, BranchMark,
           BranchAnnounce, BranchCompact, BranchAppend, BranchEnds, BranchEnd, BranchFailRow,
           BranchTell, BranchFault, Fault
  <2> QED BY <2>1 DEF Typed, Types
<1>3. ASSUME NEW z \in Branches, z # b PROVE row'[z].running /\ Unowned(z)' => EndsTried(z)'
  BY <1>1, <1>2, <1>3, OthersSettled DEF Unowned
<1>4. row'[b].running /\ Unowned(b)' => EndsTried(b)'
  <2> SUFFICES ASSUME row'[b].running, Unowned(b)' PROVE EndsTried(b)'
    OBVIOUS
  <2>1. Unowned(b)
    BY <1>1 DEF Unowned
  <2>2. CASE branch[b].at = "create" /\ row'[b] = IdleRow
    <3>1. ~ IdleRow.running
      BY DEF IdleRow, NoRow
    <3> QED BY <2>2, <3>1
  <2>3. CASE branch'[b].at \in {"mark", "announce"}
    BY <2>3 DEF EndsTried, Unborn
  <2>4. CASE ClearRunning(b, TRUE, None)
    BY <1>1, <2>4, ClearRunningTyped DEF Typed
  <2>5. CASE UNCHANGED <<row, unmarked>>
    <3>1. row[b].running /\ EndsTried(b)
      BY <2>1, <2>5 DEF Settled
    <3>2. row[b].exists
      <4>1. ~ NoRow.running
        BY DEF NoRow
      <4> QED BY <1>1, <3>1, <4>1 DEF Typed, Placed
    <3>3. ASSUME NEW p \in BranchPcs \ (Unborn \cup {"start", "tell"}), BranchGoto(b, p),
                 p = "fail" => faults' >= 1,
                 p \in {"failRow", "tellFailed", "done", "unhandled"} => faults' >= 2
          PROVE  EndsTried(b)'
      <4>1. branch'[b].at = p
        BY <3>3, BranchGotoFacts DEF Typed
      <4> QED BY <3>3, <4>1 DEF EndsTried
    <3>4. {"mark", "announce", "compact", "append", "end", "catch", "fail", "failRow", "tellFailed",
           "done", "gone", "unhandled"} \subseteq BranchPcs \ (Unborn \cup {"start", "tell"})
      BY DEF BranchPcs, Unborn
    <3>5. ~ (\E t \in Turns : BranchReceived(b, t)) /\ ~ BranchCheck(b) /\ ~ BranchList(b)
          /\ ~ BranchCreate(b) /\ ~ BranchStart(b)
      BY <3>1 DEF BranchReceived, BranchCheck, BranchList, BranchCreate, BranchStart, EndsTried, Unborn
    <3>6. CASE BranchMark(b)
      BY <3>2, <3>3, <3>4, <3>6 DEF BranchMark
    <3>7. CASE BranchAnnounce(b) \/ BranchCompact(b)
      <4>1. \E p \in {"compact", "append", "catch"} : BranchGoto(b, p)
        BY <3>7 DEF BranchAnnounce, BranchCompact
      <4> QED BY <3>3, <3>4, <4>1
    <3>8. CASE BranchAppend(b)
      BY <3>2, <3>3, <3>4, <3>8 DEF BranchAppend
    <3>9. CASE BranchEnds(b)
      <4>1. \E p, next, orElse : BranchEnd(b, p, next, orElse)
        BY <3>9 DEF BranchEnds
      <4>2. ClearRunning(b, TRUE, None)
        BY <3>2, <4>1 DEF BranchEnd
      <4> QED BY <2>4, <4>2
    <3>10. CASE BranchFailRow(b)
      <4>1. faults' = faults /\ branch[b].at = "failRow" /\ BranchGoto(b, "tellFailed")
        BY <3>2, <3>10 DEF BranchFailRow
      <4>2. faults' >= 2
        BY <3>1, <4>1 DEF EndsTried
      <4> QED BY <3>3, <3>4, <4>1, <4>2
    <3>11. CASE BranchTell(b)
      <4>1. faults' = faults /\ branch[b].at = "tellFailed" /\ BranchGoto(b, "done")
        BY <3>1, <3>11 DEF BranchTell, EndsTried
      <4>2. faults' >= 2
        BY <3>1, <4>1 DEF EndsTried
      <4> QED BY <3>3, <3>4, <4>1, <4>2
    <3>12. CASE BranchFault(b)
      <4>1. faults' = faults + 1 /\ faults \in Nat
        BY <1>2, <3>12 DEF BranchFault, Fault
      <4>2. \/ BranchGoto(b, "gone") \/ BranchGoto(b, "catch")
            \/ branch[b].at = "catch" /\ BranchGoto(b, "fail")
            \/ branch[b].at = "fail" /\ BranchGoto(b, "failRow")
            \/ branch[b].at \in {"failRow", "tellFailed"} /\ BranchGoto(b, "unhandled")
        BY <3>1, <3>12 DEF BranchFault, EndsTried
      <4>3. faults' >= 1 /\ (branch[b].at \in {"fail", "failRow", "tellFailed"} => faults' >= 2)
        BY <3>1, <4>1 DEF EndsTried
      <4> QED BY <3>3, <3>4, <4>2, <4>3
    <3> QED BY <3>5, <3>6, <3>7, <3>8, <3>9, <3>10, <3>11, <3>12 DEF Branch
  <2> QED BY <1>1, <2>2, <2>3, <2>4, <2>5 DEF BranchMoves
<1>5. \A t \in Turns : turn'[t].at = "idle" => turn'[t].on = None
  BY <1>1 DEF Settled
<1> QED BY <1>3, <1>4, <1>5 DEF Settled

LEMMA StepSettled ==
    ASSUME Typed, Settled, [Next]_vars
    PROVE  Settled'
<1>1. CASE UNCHANGED vars
  BY <1>1 DEF vars, Settled, Unowned, EndsTried
<1>2. CASE \/ \E d \in Deletes : Delete(d)
           \/ \E c \in Cuts : Cut(c)
           \/ \E x \in Interrupts : Interrupt(x)
  <2>1. /\ UNCHANGED <<turn, branch, faults>> /\ Branches \subseteq Sessions
        /\ \A s \in Sessions : row'[s].running => row[s].running
    BY <1>2, MessageEffects, MessageRunning DEF Sessions
  <2> QED BY <2>1 DEF Settled, Unowned, EndsTried
<1> QED BY <1>1, <1>2, TurnSettled, BranchSettled DEF Next

(* finishBranchSessionCompact ends the row of the branch, whatever fails in  *)
(* it: two errors must strike, one after the other, before the branch is     *)
(* left marked as running with no turn in it.                                *)
THEOREM BranchesSettle == Spec => []BranchSettles
<1>1. ASSUME Typed, Settled PROVE BranchSettles
  <2> SUFFICES ASSUME NEW b \in Branches, branch[b].at \in {"done", "unhandled"}, row[b].running,
                      faults < 2, Unowned(b)
               PROVE  FALSE
    BY DEF BranchSettles, Unowned
  <2>1. faults >= 2 /\ faults \in Nat
    BY <1>1 DEF Settled, EndsTried, Typed, Types
  <2> QED BY <2>1
<1>2. Spec => []Settled
  BY AlwaysTyped, InitSettled, StepSettled, PTL DEF Spec
<1> QED BY <1>1, <1>2, AlwaysTyped, PTL


-----------------------------------------------------------------------------
(* StrandedRequestWasLate                                                   *)

(* A turn here is still to look at the request, or is the one that ends      *)
(* because of it; before its last look it has met no error.                  *)
Answers == LookPcs \cup {"stopped", "endStopped"}

LookedFor(s) == \E t \in Turns : turn[t].on = s /\ turn[t].at \in Answers

Requests ==
    /\ \A t \in Turns : turn[t].at \in LookPcs => turn[t].tries = 0
    /\ \A s \in Sessions : row[s].intr /\ s \notin missed => LookedFor(s)

LEMMA InitRequests == Init => Requests
BY DEF Init, Requests, IdleRow, NoRow, LookPcs

(* A step of a turn that leaves no request to nobody.                        *)
Hands(t) ==
    /\ turn[t].on \in Sessions /\ turn'[t].on = turn[t].on /\ OthersStay(t)
    /\ turn'[t].at \in LookPcs => turn'[t].tries = 0
    /\ missed \subseteq missed'
    /\ \A s \in Sessions : row'[s].intr => row[s].intr
    /\ row'[turn[t].on].intr =>
          \/ turn[t].on \in missed'
          \/ turn'[t].at \in Answers
          \/ turn[t].at \notin Answers

LEMMA HandsRequests ==
    ASSUME Requests, NEW t \in Turns, Hands(t)
    PROVE  Requests'
<1>1. \A u \in Turns : turn'[u].at \in LookPcs => turn'[u].tries = 0
  BY DEF Hands, OthersStay, Requests
<1>2. ASSUME NEW s \in Sessions, row'[s].intr, s \notin missed' PROVE LookedFor(s)'
  <2>1. PICK u \in Turns : turn[u].on = s /\ turn[u].at \in Answers
    BY <1>2 DEF Hands, Requests, LookedFor
  <2>2. CASE u # t
    BY <2>1, <2>2 DEF Hands, OthersStay, LookedFor
  <2>3. CASE u = t
    BY <1>2, <2>1, <2>3 DEF Hands, LookedFor
  <2> QED BY <2>2, <2>3
<1> QED BY <1>1, <1>2 DEF Requests

LEMMA TurnRequests ==
    ASSUME Typed, Requests, NEW t \in Turns, Turn(t)
    PROVE  Requests'
<1>1. ASSUME NEW s \in Sessions, StartTurn(t, s) PROVE Requests'
  <2>1. CASE row[s].running
    <3>1. /\ turn' = [turn EXCEPT ![t] = [at |-> "done", on |-> s, tries |-> 0]]
          /\ UNCHANGED <<row, missed>> /\ turn[t].at = "idle"
      BY <1>1, <2>1 DEF StartTurn
    <3>2. OthersStay(t) /\ turn'[t].at = "done" /\ "done" \notin LookPcs /\ "idle" \notin Answers
      BY <3>1 DEF OthersStay, Typed, Types, LookPcs, Answers
    <3> QED BY <3>1, <3>2 DEF Requests, LookedFor, OthersStay
  <2>2. CASE ~ row[s].running
    <3> DEFINE r == [exists |-> TRUE, running |-> TRUE, phase |-> "starting", intr |-> FALSE]
    <3>1. /\ turn' = [turn EXCEPT ![t] = [at |-> "scope", on |-> s, tries |-> 0]]
          /\ row' = [row EXCEPT ![s] = r] /\ missed' = missed \ {s} /\ turn[t].at = "idle"
      BY <1>1, <2>2 DEF StartTurn
    <3>2. OthersStay(t) /\ turn'[t].tries = 0 /\ "idle" \notin Answers
      BY <3>1 DEF OthersStay, Typed, Types, LookPcs, Answers
    <3>3. ~ row'[s].intr /\ \A z \in Sessions : z # s => row'[z] = row[z]
      BY <3>1 DEF Typed, Types
    <3> QED BY <3>1, <3>2, <3>3 DEF Requests, LookedFor, OthersStay
  <2> QED BY <2>1, <2>2
<1>2. CASE ~ \E s \in Sessions : StartTurn(t, s)
  <2>1. /\ turn[t].on \in Sessions /\ turn'[t].on = turn[t].on /\ OthersStay(t)
    BY <1>2, TurnEffects
  <2>2. SUFFICES Hands(t)
    BY HandsRequests
  <2>3. \A s \in Sessions : row[s].intr => row[s].exists
    <3>1. ~ NoRow.intr
      BY DEF NoRow
    <3> QED BY <3>1 DEF Typed, Placed
  <2>4. Overlooked(t) => missed \subseteq missed' /\ (row[turn[t].on].intr => turn[t].on \in missed')
    BY DEF Overlooked
  <2>5. turn[t].at \in LookPcs => turn[t].tries = 0
    BY DEF Requests
  <2>6. /\ {"scope", "compacting", "checkCompacting", "input", "model", "checkModel", "finalizing",
            "checkFinalizing"} \subseteq LookPcs
        /\ LookPcs \subseteq Answers /\ "stopped" \in Answers /\ "endStopped" \in Answers
        /\ LookPcs \cap {"answer", "end", "failed", "stopped", "endFailed", "endStopped", "throw",
                         "leaving", "done"} = {}
        /\ Answers \cap {"answer", "end", "failed", "endFailed", "throw", "leaving", "done"} = {}
        /\ LookPcs \subseteq TurnPcs
        /\ {"answer", "end", "failed", "stopped", "endFailed", "endStopped", "throw",
            "leaving", "done"} \subseteq TurnPcs
    BY DEF LookPcs, Answers, TurnPcs, LivePcs
  <2>7. ASSUME NEW p \in TurnPcs, Goto(t, p)
        PROVE  turn'[t].at = p /\ turn'[t].tries = turn[t].tries
    BY <2>7, GotoFacts DEF Typed
  <2>8. ASSUME NEW p \in TurnPcs, Fail(t, p)
        PROVE  turn'[t].at = IF turn[t].tries < 2 THEN p ELSE "throw"
    BY <2>8, FailFacts DEF Typed
  <2>9. ASSUME RowsStay \/ UNCHANGED row PROVE \A s \in Sessions : row'[s].intr = row[s].intr
    BY <2>9 DEF RowsStay
  <2>10. CASE BeginScope(t)
    <3>1. turn[t].at = "scope" /\ UNCHANGED <<row, missed>>
          /\ \E p \in {"compacting", "input"} : Goto(t, p)
      BY <2>10 DEF BeginScope
    <3> QED BY <2>1, <2>5, <2>6, <2>7, <3>1 DEF Hands
  <2>11. ASSUME NEW p \in {"compacting", "model", "finalizing"},
                NEW check \in {"checkCompacting", "checkModel", "checkFinalizing"},
                SetPhase(t, p, check)
         PROVE  Hands(t)
    <3>1. /\ turn[t].at = p /\ RowsStay
          /\ \/ UNCHANGED missed /\ turn'[t].at = check /\ turn'[t].tries = turn[t].tries
             \/ ~ row[turn[t].on].exists /\ turn'[t].at \in {"throw", "failed"} /\ Overlooked(t)
      BY <2>11, SetPhaseFacts
    <3> QED BY <2>1, <2>3, <2>4, <2>5, <2>6, <2>9, <3>1 DEF Hands
  <2>12. ASSUME NEW p \in {"compacting", "model", "finalizing"},
                NEW check \in {"checkCompacting", "checkModel", "checkFinalizing"},
                NEW next \in {"input", "finalizing", "answer"},
                Checkpoint(t, check, p, next)
         PROVE  Hands(t)
    <3>1. /\ turn[t].at = check /\ UNCHANGED row
          /\ \/ /\ ~ row[turn[t].on].intr /\ UNCHANGED missed
                /\ turn'[t].at = next /\ turn'[t].tries = turn[t].tries
             \/ turn'[t].at = "throw" /\ Overlooked(t)
             \/ UNCHANGED missed /\ turn'[t].at = IF turn[t].tries < 2 THEN "stopped" ELSE "throw"
      BY <2>12, CheckpointFacts
    <3>2. turn[t].tries = 0
      BY <2>5, <2>6, <3>1
    <3> QED BY <2>1, <2>4, <2>6, <2>9, <3>1, <3>2 DEF Hands
  <2>13. CASE AppendInput(t)
    <3>1. turn[t].at = "input" /\ UNCHANGED <<row, missed>>
          /\ \/ Goto(t, "model")
             \/ ~ row[turn[t].on].exists /\ Goto(t, "throw")
      BY <2>13 DEF AppendInput, history
    <3> QED BY <2>1, <2>3, <2>5, <2>6, <2>7, <3>1 DEF Hands
  <2>14. CASE AppendAnswer(t)
    <3>1. turn[t].at = "answer" /\ UNCHANGED <<row, missed>> /\ (Goto(t, "end") \/ Fail(t, "failed"))
      BY <2>14 DEF AppendAnswer, history
    <3> QED BY <2>1, <2>6, <2>7, <2>8, <3>1 DEF Hands
  <2>15. CASE AppendFailure(t)
    <3>1. /\ turn[t].at \in {"failed", "stopped"} /\ UNCHANGED <<row, missed>>
          /\ \/ Goto(t, IF turn[t].at = "failed" THEN "endFailed" ELSE "endStopped")
             \/ ~ row[turn[t].on].exists /\ Fail(t, turn[t].at)
      BY <2>15 DEF AppendFailure, history
    <3> QED BY <2>1, <2>3, <2>6, <2>7, <2>8, <3>1 DEF Hands
  <2>16. CASE EndTurn(t)
    <3>1. turn[t].at \in {"end", "endFailed", "endStopped"} /\ UNCHANGED missed
      BY <2>16 DEF EndTurn
    <3>2. CASE row[turn[t].on].exists
      <4>1. ClearRunning(turn[t].on, turn[t].at # "endStopped", t) /\ Goto(t, "leaving")
        BY <2>16, <3>2 DEF EndTurn
      <4>2. turn'[t].at = "leaving"
        BY <2>6, <2>7, <4>1
      <4>3. /\ row'[turn[t].on].intr = (turn[t].at # "endStopped" /\ row[turn[t].on].intr)
            /\ \A z \in Sessions : z # turn[t].on => row'[z] = row[z]
        BY <2>1, <4>1, ClearRunningTyped DEF Typed
      <4> QED BY <2>1, <2>6, <3>1, <4>2, <4>3 DEF Hands
    <3>3. CASE ~ row[turn[t].on].exists
      <4>1. (Fail(t, "stopped") \/ Fail(t, "failed")) /\ UNCHANGED row
        BY <2>16, <3>3 DEF EndTurn
      <4> QED BY <2>1, <2>3, <2>6, <2>8, <3>1, <3>3, <4>1 DEF Hands
    <3> QED BY <3>2, <3>3
  <2>17. CASE Leave(t)
    <3>1. UNCHANGED <<row, missed>> /\ turn[t].at \in {"leaving", "throw"}
      BY <2>17 DEF Leave, history
    <3>2. turn' = [turn EXCEPT ![t] = [turn[t] EXCEPT !.at = "done", !.tries = 0]]
      BY <2>17 DEF Leave, Typed, Types
    <3>3. turn'[t].at = "done"
      BY <3>2 DEF Typed, Types
    <3> QED BY <2>1, <2>6, <3>1, <3>3 DEF Hands
  <2>18. CASE TurnFault(t)
    <3>1. /\ UNCHANGED row /\ Overlooked(t)
          /\ \/ Goto(t, "throw")
             \/ \E p \in {"stopped", "failed"} : Fail(t, p)
      BY <2>18 DEF TurnFault
    <3> QED BY <2>1, <2>4, <2>6, <2>7, <2>8, <3>1 DEF Hands
  <2> QED BY <1>2, <2>10, <2>11, <2>12, <2>13, <2>14, <2>15, <2>16, <2>17, <2>18 DEF Turn
<1> QED BY <1>1, <1>2

LEMMA MessageRequests ==
    ASSUME Typed, Requests, UNCHANGED turn, MessageMoves
    PROVE  Requests'
<1>1. CASE UNCHANGED <<row, missed>>
  BY <1>1 DEF Requests, LookedFor
<1>2. ASSUME NEW s \in Sessions, NEW p \in Phases, RequestInterrupt(s, p) PROVE Requests'
  <2>1. /\ missed' = IF \E t \in LiveOn(s) : turn[t].at \in LookPcs
                     THEN missed \ {s} ELSE missed \cup {s}
        /\ \A z \in Sessions : z # s => row'[z] = row[z]
    BY <1>2, RequestTyped DEF Typed
  <2>2. s \notin missed' => LookedFor(s)
    BY <2>1 DEF LookedFor, LiveOn, Answers
  <2> QED BY <2>1, <2>2 DEF Requests, LookedFor
<1>3. ASSUME NEW s \in Sessions, ClearRunning(s, FALSE, None), UNCHANGED missed PROVE Requests'
  <2>1. ~ row'[s].intr /\ \A z \in Sessions : z # s => row'[z] = row[z]
    BY <1>3, ClearRunningTyped DEF Typed
  <2> QED BY <1>3, <2>1 DEF Requests, LookedFor
<1>4. ASSUME NEW s \in Sessions, row' = [row EXCEPT ![s] = NoRow], UNCHANGED missed PROVE Requests'
  <2>1. ~ row'[s].intr /\ \A z \in Sessions : z # s => row'[z] = row[z]
    BY <1>4 DEF NoRow, Typed, Types
  <2> QED BY <1>4, <2>1 DEF Requests, LookedFor
<1> QED BY <1>1, <1>2, <1>3, <1>4 DEF MessageMoves

LEMMA BranchRequests ==
    ASSUME Typed, Requests, NEW b \in Branches, Branch(b)
    PROVE  Requests'
<1>1. /\ UNCHANGED <<turn, missed>> /\ \A s \in Sessions : s # b => row'[s] = row[s]
      /\ BranchMoves(b) /\ b \in Sessions
  BY BranchEffects DEF Sessions
<1>2. row'[b].intr => row[b].intr
  <2>1. ~ IdleRow.intr
    BY DEF IdleRow, NoRow
  <2>2. CASE ClearRunning(b, TRUE, None)
    BY <1>1, <2>2, ClearRunningTyped DEF Typed
  <2> QED BY <1>1, <2>1, <2>2 DEF BranchMoves, RowsStay
<1> QED BY <1>1, <1>2 DEF Requests, LookedFor

LEMMA StepRequests ==
    ASSUME Typed, Requests, [Next]_vars
    PROVE  Requests'
<1>1. CASE UNCHANGED vars
  BY <1>1 DEF vars, Requests, LookedFor
<1> QED BY <1>1, TurnRequests, BranchRequests, MessageEffects, MessageRequests DEF Next

(* requestSessionInterrupt, the checkpoints of a turn and the updates that   *)
(* end it: a request that outlives every turn of its session is one that no  *)
(* turn could still answer when it was made, or when its turn failed.        *)
THEOREM StrandedRequestsAreLate == Spec => []StrandedRequestWasLate
<1>1. ASSUME Requests PROVE StrandedRequestWasLate
  <2> SUFFICES ASSUME NEW s \in Sessions, row[s].intr, LiveOn(s) = {}, s \notin missed
               PROVE  FALSE
    BY DEF StrandedRequestWasLate
  <2> QED BY <1>1 DEF Requests, LookedFor, Answers, LiveOn, Live, LivePcs
<1>2. Spec => []Requests
  BY AlwaysTyped, InitRequests, StepRequests, PTL DEF Spec
<1> QED BY <1>1, <1>2, PTL

-----------------------------------------------------------------------------
(* BranchOfFinishedTurns                                                    *)

(* Before its user row is stored; when it is over, but for its row and queue.*)
Before == {"idle", "scope", "compacting", "checkCompacting", "input"}
Over == {"throw", "done"}

Past(t) == turn[t].at \notin Before
Open(t) == turn[t].at \notin Over /\ t \notin overtaken

(* The rows of a turn are in its session, once it has come to its user row. *)
Written ==
    \A s \in Sessions : \A i \in DOMAIN data[s] :
        /\ data[s][i].of \in Turns => Past(data[s][i].of) /\ turn[data[s][i].of].on = s
        /\ data[s][i].kind \in TurnKinds => data[s][i].of \in Turns

(* A turn that no other has overtaken has the entry of its session, and its *)
(* user row while the session is there.                                     *)
Entered ==
    \A t \in Turns :
        Open(t) /\ turn[t].at \notin {"idle", "scope"} => scope[turn[t].on].turn = t

HasUserRow(t) == \E i \in DOMAIN data[turn[t].on] : data[turn[t].on][i] = Entry(t, "user")

Asked == \A t \in Turns : Open(t) /\ Past(t) /\ row[turn[t].on].exists => HasUserRow(t)

(* What a message knows that waits to list the rows of turn "of": the user  *)
(* row of a turn that still runs comes after that of "of", and before the   *)
(* other rows of the turn.  So what it lists is of turns that are over.     *)
Behind(of, t) ==
    \A f, i \in DOMAIN data[Source] :
        data[Source][f] = Entry(of, "user") /\ data[Source][i].of = t =>
            \E j \in DOMAIN data[Source] : f < j /\ j <= i /\ data[Source][j] = Entry(t, "user")

Clear(of) == \A t \in Turns : Open(t) => Behind(of, t)
Finished(rs) == \A e \in rs : e.of \in Turns => ~ Open(e.of)

Reads(r) ==
    /\ r.of \in Turns => Past(r.of)
    /\ r.at = "list" => Clear(r.of)
    /\ Finished(r.rows)

Readings ==
    {[at |-> cut[c].at, of |-> cut[c].of, rows |-> cut[c].ids] : c \in Cuts}
    \cup {[at |-> branch[b].at, of |-> branch[b].of, rows |-> branch[b].src] : b \in Branches}

Reading == \A r \in Readings : Reads(r)

Ordered == Written /\ Entered /\ Asked /\ Reading

LEMMA InitOrdered == Init => Ordered
<1> SUFFICES ASSUME Init PROVE Ordered
  OBVIOUS
<1>1. \A s \in Sessions : data[s] = << >>
  BY DEF Init
<1>2. Written
  BY <1>1 DEF Written
<1>3. Entered /\ Asked
  BY DEF Init, Entered, Asked, Past, Before
<1>4. Reading
  <2>1. \A r \in Readings : r = [at |-> "idle", of |-> None, rows |-> {}]
    BY DEF Init, Readings
  <2> QED BY <2>1, NamesAssumption DEF Reading, Reads, Finished
<1> QED BY <1>2, <1>3, <1>4 DEF Ordered

(* What a step does to turns: they go on; and to the entries in memory, to  *)
(* the rows of sessions and to the histories.                               *)
Onward ==
    /\ \A u \in Turns : /\ Past(u) => Past(u)'
                        /\ Open(u)' => Open(u)
                        /\ turn[u].at = "idle" \/ turn'[u].on = turn[u].on
    /\ overtaken \subseteq overtaken'

Keeps ==
    \A u \in Turns :
        Open(u)' /\ turn'[u].at \notin {"idle", "scope"} =>
            \/ scope'[turn'[u].on].turn = u
            \/ turn[u].at \notin {"idle", "scope"}
               /\ scope'[turn[u].on].turn = scope[turn[u].on].turn

Births ==
    \A s \in Sessions : row'[s].exists => row[s].exists \/ \A u \in Turns : turn'[u].on # s

Asks ==
    \A u \in Turns : Open(u)' /\ Past(u)' =>
        Past(u) \/ data'[turn'[u].on] = Append(data[turn'[u].on], Entry(u, "user"))

Appends(s, e) ==
    /\ data' = [data EXCEPT ![s] = Append(data[s], e)]
    /\ row[s].exists
    /\ e.kind \in TurnKinds => e.of \in Turns
    /\ e.of \in Turns =>
          /\ turn[e.of].on = s /\ turn'[e.of].on = s /\ Past(e.of)'
          /\ e.kind = "user" <=> ~ Past(e.of)
          /\ turn[e.of].at \notin {"idle", "scope"} \cup Over

Writes ==
    \/ UNCHANGED data
    \/ \E s \in Sessions, e \in Entries : Appends(s, e)
    \/ \E s \in Sessions : data' = [data EXCEPT ![s] = << >>] /\ ~ row'[s].exists
    \/ \E c \in Cuts : /\ cut[c].at = "delete"
                       /\ data' = [data EXCEPT ![Source] = Without(data[Source], cut[c].ids)]

Effects == Onward /\ Keeps /\ Births /\ Asks /\ Writes

(* A turn passes from before its user row to after it by storing it, or     *)
(* throws.                                                                  *)
LEMMA TurnPasses ==
    ASSUME Typed, NEW t \in Turns, Turn(t), ~ \E s \in Sessions : StartTurn(t, s)
    PROVE  /\ turn[t].at \in Before =>
                 \/ turn'[t].at \in {"compacting", "checkCompacting", "input", "throw"}
                 \/ AppendInput(t) /\ row[turn[t].on].exists /\ turn'[t].at = "model"
           /\ turn[t].at \notin Before => turn'[t].at \notin Before
           /\ turn[t].at \in Over => turn'[t].at \in Over
<1> DEFINE late == {"checkModel", "checkFinalizing", "finalizing", "answer", "end", "failed", "stopped",
                    "endFailed", "endStopped", "leaving", "model"}
           early == {"compacting", "checkCompacting", "input"}
           Passes == /\ turn[t].at \in Before =>
                           \/ turn'[t].at \in early \cup {"throw"}
                           \/ AppendInput(t) /\ row[turn[t].on].exists /\ turn'[t].at = "model"
                     /\ turn[t].at \notin Before => turn'[t].at \notin Before
                     /\ turn[t].at \in Over => turn'[t].at \in Over
<1> SUFFICES Passes
  OBVIOUS
<1>1. late \cup early \cup {"throw"} \subseteq TurnPcs
  BY DEF TurnPcs, LivePcs, LookPcs
<1>2. /\ late \cap Before = {} /\ early \subseteq Before /\ "scope" \in Before
      /\ (late \cup early \cup {"scope"}) \cap Over = {} /\ Over \cap Before = {} /\ Over = {"throw", "done"}
  BY DEF Before, Over
<1>3. ASSUME turn[t].at \in early \cup {"scope"}, NEW p \in early \cup {"throw"}, Goto(t, p)
      PROVE  Passes
  BY <1>1, <1>2, <1>3, GotoFacts DEF Typed
<1>4. ASSUME turn[t].at \in late, NEW p \in late, Goto(t, p) \/ Fail(t, p)
      PROVE  Passes
  BY <1>1, <1>2, <1>4, GotoFacts, FailFacts DEF Typed
<1>5. CASE BeginScope(t)
  BY <1>3, <1>5 DEF BeginScope
<1>6. CASE SetPhase(t, "compacting", "checkCompacting")
  <2>1. turn[t].at = "compacting" /\ \E p \in early \cup {"throw"} : Goto(t, p)
    BY <1>6 DEF SetPhase
  <2> QED BY <1>3, <2>1
<1>7. ASSUME NEW p \in {"model", "finalizing"}, NEW check \in {"checkModel", "checkFinalizing"},
             SetPhase(t, p, check)
      PROVE  Passes
  <2>1. turn[t].at = p /\ (Goto(t, check) \/ Fail(t, "failed"))
    BY <1>7 DEF SetPhase
  <2> QED BY <1>4, <2>1
<1>8. CASE Checkpoint(t, "checkCompacting", "compacting", "input")
  <2>1. turn[t].at = "checkCompacting" /\ (Goto(t, "throw") \/ Goto(t, "input"))
    BY <1>8 DEF Checkpoint
  <2> QED BY <1>3, <2>1
<1>9. ASSUME NEW p \in {"model", "finalizing"}, NEW check \in {"checkModel", "checkFinalizing"},
             NEW next \in {"finalizing", "answer"}, Checkpoint(t, check, p, next)
      PROVE  Passes
  <2>1. turn[t].at = check /\ (Goto(t, next) \/ Fail(t, "stopped"))
    BY <1>9 DEF Checkpoint
  <2> QED BY <1>4, <2>1
<1>10. CASE AppendInput(t)
  <2>1. turn[t].at = "input"
    BY <1>10 DEF AppendInput
  <2>2. CASE row[turn[t].on].exists
    <3>1. Goto(t, "model")
      BY <1>10, <2>2 DEF AppendInput
    <3>2. turn'[t].at = "model"
      BY <1>1, <3>1, GotoFacts DEF Typed
    <3> QED BY <1>2, <1>10, <2>1, <2>2, <3>2
  <2>3. CASE ~ row[turn[t].on].exists
    BY <1>3, <1>10, <2>1, <2>3 DEF AppendInput
  <2> QED BY <2>2, <2>3
<1>11. CASE AppendAnswer(t) \/ EndTurn(t)
  <2>1. turn[t].at \in late /\ \E p \in late : Goto(t, p) \/ Fail(t, p)
    BY <1>11 DEF AppendAnswer, EndTurn
  <2> QED BY <1>4, <2>1
<1>12. CASE AppendFailure(t)
  <2>1. turn[t].at \in {"failed", "stopped"}
        /\ \E p \in {"endFailed", "endStopped", turn[t].at} : Goto(t, p) \/ Fail(t, p)
    BY <1>12 DEF AppendFailure
  <2> QED BY <1>4, <2>1
<1>13. CASE Leave(t)
  <2>1. turn' = [turn EXCEPT ![t] = [turn[t] EXCEPT !.at = "done", !.tries = 0]]
        /\ turn[t].at \in {"leaving", "throw"}
    BY <1>13 DEF Leave, Typed, Types
  <2>2. turn'[t].at = "done"
    BY <2>1 DEF Typed, Types
  <2> QED BY <1>2, <2>1, <2>2
<1>14. CASE TurnFault(t)
  <2>1. turn[t].at \in LivePcs \cup {"leaving"}
    BY <1>14 DEF TurnFault
  <2>2. CASE turn[t].at \in {"scope", "compacting", "checkCompacting", "input"}
    <3>1. Goto(t, "throw")
      BY <1>14, <2>2 DEF TurnFault
    <3> QED BY <1>3, <2>2, <3>1
  <2>3. CASE turn[t].at \notin {"scope", "compacting", "checkCompacting", "input"}
    <3>1. turn[t].at \in late
      BY <2>1, <2>3 DEF LivePcs, LookPcs
    <3>2. \E p \in {"stopped", "failed"} : Fail(t, p)
      BY <1>14, <2>3 DEF TurnFault
    <3> QED BY <1>4, <3>1, <3>2
  <2> QED BY <2>2, <2>3
<1> QED BY <1>5, <1>6, <1>7, <1>8, <1>9, <1>10, <1>11, <1>12, <1>13, <1>14 DEF Turn

LEMMA StartOnward ==
    ASSUME Typed, Entered, NEW t \in Turns, NEW s \in Sessions, StartTurn(t, s)
    PROVE  Effects
<1>1. /\ turn[t].at = "idle" /\ row[s].exists /\ UNCHANGED <<data, scope, overtaken>>
      /\ \E at \in {"done", "scope"} : turn' = [turn EXCEPT ![t] = [at |-> at, on |-> s, tries |-> 0]]
  BY DEF StartTurn
<1>2. OthersStay(t) /\ turn'[t].at \in {"done", "scope"}
  BY <1>1 DEF OthersStay, Typed, Types
<1>3. Onward
  BY <1>1, <1>2 DEF Onward, OthersStay, Past, Open, Before, Over
<1>4. Keeps
  BY <1>1, <1>2 DEF Keeps, OthersStay, Open, Over
<1>5. Births
  <2>1. row' = row \/ row' = [row EXCEPT ![s] = [exists |-> TRUE, running |-> TRUE,
                                                phase |-> "starting", intr |-> FALSE]]
    BY DEF StartTurn
  <2> QED BY <1>1, <2>1 DEF Births, Typed, Types
<1>6. Asks
  BY <1>1, <1>2 DEF Asks, OthersStay, Past, Open, Before, Over
<1> QED BY <1>1, <1>3, <1>4, <1>5, <1>6 DEF Effects, Writes

LEMMA TurnOnward ==
    ASSUME Typed, Entered, NEW t \in Turns, Turn(t), ~ \E s \in Sessions : StartTurn(t, s)
    PROVE  Effects
<1>1. /\ turn[t].at # "idle" /\ turn[t].on \in Sessions
      /\ turn'[t].on = turn[t].on /\ OthersStay(t)
      /\ \A s \in Sessions : row'[s].exists = row[s].exists
  <2>1. /\ turn[t].at # "idle" /\ turn[t].on \in Sessions
        /\ turn'[t].on = turn[t].on /\ OthersStay(t)
        /\ RowsStay \/ ClearRunning(turn[t].on, turn[t].at # "endStopped", t)
    BY TurnEffects
  <2>2. CASE RowsStay
    BY <2>1, <2>2 DEF RowsStay
  <2>3. CASE ClearRunning(turn[t].on, turn[t].at # "endStopped", t)
    BY <2>1, <2>3, ClearRunningTyped DEF Typed
  <2> QED BY <2>1, <2>2, <2>3
<1>2. /\ turn[t].at \in Before =>
            \/ turn'[t].at \in {"compacting", "checkCompacting", "input", "throw"}
            \/ AppendInput(t) /\ row[turn[t].on].exists /\ turn'[t].at = "model"
      /\ turn[t].at \notin Before => turn'[t].at \notin Before
      /\ turn[t].at \in Over => turn'[t].at \in Over
  BY TurnPasses
<1>3. /\ overtaken \subseteq overtaken'
      /\ BeginScope(t) \/ Leave(t) \/ \A s \in Sessions : scope'[s].turn = scope[s].turn
      /\ ~ BeginScope(t) => turn[t].at # "scope" \/ turn'[t].at = "throw"
  <2>1. CASE BeginScope(t)
    BY <2>1 DEF BeginScope
  <2>2. ASSUME NEW p \in {"compacting", "model", "finalizing"},
               NEW check \in {"checkCompacting", "checkModel", "checkFinalizing"},
               SetPhase(t, p, check)
        PROVE  /\ UNCHANGED overtaken /\ turn[t].at # "scope"
               /\ \A s \in Sessions : scope'[s].turn = scope[s].turn
    <3>1. UNCHANGED overtaken
      BY <2>2 DEF SetPhase
    <3> QED BY <2>2, <3>1, SetPhaseFacts
  <2>3. ASSUME NEW p, NEW next,
               NEW check \in {"checkCompacting", "checkModel", "checkFinalizing"},
               Checkpoint(t, check, p, next)
        PROVE  UNCHANGED <<overtaken, scope>> /\ turn[t].at # "scope"
    BY <2>3 DEF Checkpoint
  <2>4. CASE AppendInput(t) \/ AppendAnswer(t) \/ AppendFailure(t) \/ EndTurn(t)
    BY <2>4 DEF AppendInput, AppendAnswer, AppendFailure, EndTurn, history
  <2>5. CASE Leave(t)
    BY <2>5 DEF Leave, history
  <2>6. CASE TurnFault(t)
    <3>1. UNCHANGED <<scope, overtaken>>
      BY <2>6 DEF TurnFault
    <3>2. turn[t].at = "scope" => turn'[t].at = "throw"
      <4>1. "throw" \in TurnPcs
        BY DEF TurnPcs
      <4>2. turn[t].at = "scope" => Goto(t, "throw")
        BY <2>6 DEF TurnFault
      <4> QED BY <4>1, <4>2, GotoFacts DEF Typed
    <3> QED BY <3>1, <3>2
  <2> QED BY <2>1, <2>2, <2>3, <2>4, <2>5, <2>6 DEF Turn
<1>4. Onward
  <2>1. \A u \in Turns : u # t => turn'[u] = turn[u]
    BY <1>1 DEF OthersStay
  <2>2. ASSUME NEW u \in Turns
        PROVE  /\ Past(u) => Past(u)'
               /\ Open(u)' => Open(u)
               /\ turn'[u].on = turn[u].on
    BY <1>1, <1>2, <1>3, <2>1 DEF Past, Open
  <2> QED BY <1>3, <2>2 DEF Onward
<1>5. Keeps
  <2> SUFFICES ASSUME NEW u \in Turns, Open(u)', turn'[u].at \notin {"idle", "scope"}
               PROVE  \/ scope'[turn'[u].on].turn = u
                      \/ turn[u].at \notin {"idle", "scope"}
                         /\ scope'[turn[u].on].turn = scope[turn[u].on].turn
    BY DEF Keeps
  <2>0. turn[u].at # "idle" => turn[u].on \in Sessions
    BY DEF Typed, Placed
  <2>1. CASE BeginScope(t)
    <3>1. /\ scope' = [scope EXCEPT ![turn[t].on] = [turn |-> t, phase |-> "starting"]]
          /\ overtaken' = overtaken \cup ({scope[turn[t].on].turn} \ {None})
      BY <2>1 DEF BeginScope
    <3>2. CASE u = t
      BY <1>1, <3>1, <3>2 DEF Typed, Types
    <3>3. CASE u # t
      <4>1. turn'[u] = turn[u] /\ Open(u)
        BY <1>1, <1>4, <3>3 DEF OthersStay, Onward
      <4>2. scope[turn[u].on].turn = u
        BY <4>1 DEF Entered
      <4>3. turn[u].on # turn[t].on
        BY <3>1, <4>2, NamesAssumption DEF Open
      <4> QED BY <2>0, <3>1, <4>1, <4>2, <4>3 DEF Typed, Types
    <3> QED BY <3>2, <3>3
  <2>2. CASE Leave(t)
    <3>1. /\ scope' = [scope EXCEPT ![turn[t].on] = IF @.turn = t THEN NoScope ELSE @]
          /\ turn[t].at \in {"leaving", "throw"}
      BY <2>2 DEF Leave, LeaveScope
    <3>2. turn'[t].at = "done"
      <4>1. turn' = [turn EXCEPT ![t] = [turn[t] EXCEPT !.at = "done", !.tries = 0]]
        BY <2>2 DEF Leave, Typed, Types
      <4> QED BY <4>1 DEF Typed, Types
    <3>3. u # t
      BY <3>2 DEF Open, Over
    <3>4. turn'[u] = turn[u] /\ Open(u)
      BY <1>1, <1>4, <3>3 DEF OthersStay, Onward
    <3>5. scope[turn[u].on].turn = u
      BY <3>4 DEF Entered
    <3>6. CASE turn[u].on = turn[t].on
      <4>1. scope[turn[t].on].turn # t
        BY <3>3, <3>5, <3>6
      <4>2. scope' = [scope EXCEPT ![turn[t].on] = scope[turn[t].on]]
        BY <3>1, <4>1
      <4> QED BY <2>0, <3>4, <3>5, <3>6, <4>2, <1>1 DEF Typed, Types
    <3>7. CASE turn[u].on # turn[t].on
      BY <2>0, <3>1, <3>4, <3>5, <3>7 DEF Typed, Types
    <3> QED BY <3>6, <3>7
  <2>3. CASE ~ BeginScope(t) /\ ~ Leave(t)
    <3>1. \A s \in Sessions : scope'[s].turn = scope[s].turn
      BY <1>3, <2>3
    <3>2. turn[u].at \notin {"idle", "scope"}
      <4>1. CASE u = t
        BY <1>1, <1>3, <2>3, <4>1 DEF Open, Over
      <4>2. CASE u # t
        BY <1>1, <4>2 DEF OthersStay
      <4> QED BY <4>1, <4>2
    <3> QED BY <2>0, <3>1, <3>2
  <2> QED BY <2>1, <2>2, <2>3
<1>6. Births
  BY <1>1 DEF Births
<1>7. ASSUME NEW kind \in TurnKinds, AppendRow(turn[t].on, t, kind), row[turn[t].on].exists,
             kind = "user" <=> ~ Past(t), Past(t)', turn[t].at \notin {"idle", "scope"} \cup Over
      PROVE  Writes
  <2> DEFINE e == Entry(t, kind)
  <2>1. e \in Entries /\ e.of = t /\ e.kind = kind
    BY DEF Entry, Entries
  <2>2. data' = [data EXCEPT ![turn[t].on] = Append(data[turn[t].on], e)]
    BY <1>7 DEF AppendRow
  <2> HIDE DEF e
  <2>3. Appends(turn[t].on, e)
    BY <1>1, <1>7, <2>1, <2>2 DEF Appends
  <2> QED BY <1>1, <2>1, <2>3 DEF Writes
<1>8. \/ UNCHANGED data
      \/ /\ row[turn[t].on].exists
         /\ \/ AppendInput(t) /\ AppendRow(turn[t].on, t, "user") /\ Goto(t, "model")
            \/ AppendAnswer(t) /\ AppendRow(turn[t].on, t, "answer")
            \/ AppendFailure(t) /\ \E kind \in {"failure", "again"} : AppendRow(turn[t].on, t, kind)
  <2>1. CASE AppendInput(t) \/ AppendAnswer(t) \/ AppendFailure(t)
    BY <2>1 DEF AppendInput, AppendAnswer, AppendFailure
  <2>2. CASE ~ (AppendInput(t) \/ AppendAnswer(t) \/ AppendFailure(t))
    BY <1>1, <2>2 DEF Turn, StartTurn, BeginScope, SetPhase, Checkpoint, EndTurn, Leave, TurnFault
  <2> QED BY <2>1, <2>2
<1>9. CASE AppendInput(t) /\ AppendRow(turn[t].on, t, "user") /\ Goto(t, "model") /\ row[turn[t].on].exists
  <2>1. turn[t].at = "input"
    BY <1>9 DEF AppendInput
  <2>2. turn'[t].at = "model"
    <3>1. "model" \in TurnPcs
      BY DEF TurnPcs, LivePcs, LookPcs
    <3> QED BY <1>9, <3>1, GotoFacts DEF Typed
  <2>3. ~ Past(t) /\ Past(t)' /\ turn[t].at \notin {"idle", "scope"} \cup Over
    BY <2>1, <2>2 DEF Past, Before, Over
  <2>4. data'[turn[t].on] = Append(data[turn[t].on], Entry(t, "user"))
    BY <1>1, <1>9, AppendTyped DEF TurnKinds, Typed
  <2>5. Asks
    BY <1>1, <2>4 DEF Asks, OthersStay, Past
  <2> QED BY <1>4, <1>5, <1>6, <1>7, <1>9, <2>3, <2>5 DEF Effects, TurnKinds
<1>10. CASE ~ (AppendInput(t) /\ row[turn[t].on].exists)
  <2>1. Asks
    BY <1>1, <1>2, <1>10 DEF Asks, OthersStay, Past, Open, Before, Over
  <2>2. Writes
    <3>1. CASE UNCHANGED data
      BY <3>1 DEF Writes
    <3>2. CASE row[turn[t].on].exists /\ AppendAnswer(t) /\ AppendRow(turn[t].on, t, "answer")
      <4>1. turn[t].at = "answer"
        BY <3>2 DEF AppendAnswer
      <4> QED BY <1>2, <1>7, <3>2, <4>1 DEF Past, Before, Over, TurnKinds
    <3>3. CASE row[turn[t].on].exists /\ AppendFailure(t)
               /\ \E kind \in {"failure", "again"} : AppendRow(turn[t].on, t, kind)
      <4>1. turn[t].at \in {"failed", "stopped"}
        BY <3>3 DEF AppendFailure
      <4> QED BY <1>2, <1>7, <3>3, <4>1 DEF Past, Before, Over, TurnKinds
    <3> QED BY <1>8, <1>10, <3>1, <3>2, <3>3
  <2> QED BY <1>4, <1>5, <1>6, <2>1, <2>2 DEF Effects
<1>11. CASE AppendInput(t) /\ row[turn[t].on].exists
  <2>1. AppendRow(turn[t].on, t, "user") /\ Goto(t, "model")
    BY <1>11 DEF AppendInput
  <2> QED BY <1>9, <1>11, <2>1
<1> QED BY <1>10, <1>11

(* The messages leave the turns, and the entries in memory their turns.     *)
LEMMA StillEffects ==
    ASSUME Typed, UNCHANGED <<turn, overtaken>>, Births, Writes,
           \A s \in Sessions : scope'[s].turn = scope[s].turn
    PROVE  Effects
<1>1. Onward /\ Asks
  BY DEF Onward, Asks, Past, Open
<1>2. \A u \in Turns : turn[u].at # "idle" => turn[u].on \in Sessions
  BY DEF Typed, Placed
<1>3. Keeps
  BY <1>2 DEF Keeps
<1> QED BY <1>1, <1>3 DEF Effects

LEMMA MessageOnward ==
    ASSUME Typed,
           \/ \E d \in Deletes : Delete(d)
           \/ \E c \in Cuts : Cut(c)
           \/ \E x \in Interrupts : Interrupt(x)
    PROVE  Effects
<1>1. UNCHANGED <<turn, overtaken>>
  BY DEF Delete, DeleteSelect, DeleteRequest, DeleteRuntime, DeleteComplete, DeletePoll, DeleteRows, DelOnly,
         Cut, CutReceived, CutCheck, CutList, CutDelete, CutOnly, history,
         Interrupt, IntRead, IntAppend, IntRequest, IntRuntime, IntComplete, IntOnly
<1>2. Births
  <2>1. MessageMoves
    BY MessageEffects
  <2>2. ASSUME NEW s \in Sessions, row' = [row EXCEPT ![s] = NoRow] PROVE Births
    BY <2>2 DEF Births, NoRow, Typed, Types
  <2>3. ASSUME NEW s \in Sessions, NEW p \in Phases, RequestInterrupt(s, p) PROVE Births
    BY <2>3, RequestTyped DEF Births, Typed
  <2>4. ASSUME NEW s \in Sessions, ClearRunning(s, FALSE, None) PROVE Births
    BY <2>4, ClearRunningTyped DEF Births, Typed
  <2>5. CASE UNCHANGED row
    BY <2>5 DEF Births
  <2> QED BY <2>1, <2>2, <2>3, <2>4, <2>5 DEF MessageMoves
<1>3. UNCHANGED scope => \A s \in Sessions : scope'[s].turn = scope[s].turn
  OBVIOUS
<1>4. UNCHANGED data => Writes
  BY DEF Writes
<1>5. ASSUME NEW d \in Deletes, Delete(d) PROVE Effects
  <2>1. del[d].at # "idle" => del[d].on \in Sessions
    BY DEF Typed, Placed
  <2>2. CASE DeleteRows(d)
    <3>1. /\ row' = [row EXCEPT ![del[d].on] = NoRow]
          /\ data' = [data EXCEPT ![del[d].on] = << >>]
          /\ UNCHANGED scope /\ del[d].on \in Sessions
      BY <2>1, <2>2 DEF DeleteRows
    <3>2. ~ row'[del[d].on].exists
      BY <3>1 DEF NoRow, Typed, Types
    <3> QED BY <1>1, <1>2, <3>1, <3>2, StillEffects DEF Writes
  <2>3. CASE DeleteRuntime(d)
    <3>1. RuntimeInterrupt(del[d].on) /\ UNCHANGED data /\ del[d].on \in Sessions
      BY <2>1, <2>3 DEF DeleteRuntime, DelOnly
    <3> QED BY <1>1, <1>2, <1>4, <3>1, RuntimeTyped, StillEffects DEF Typed
  <2>4. CASE (\E s \in Sessions : DeleteSelect(d, s)) \/ DeleteRequest(d) \/ DeleteComplete(d) \/ DeletePoll(d)
    <3>1. UNCHANGED <<scope, data>>
      BY <2>4 DEF DeleteSelect, DeleteRequest, DeleteComplete, DeletePoll, DelOnly
    <3> QED BY <1>1, <1>2, <1>3, <1>4, <3>1, StillEffects
  <2> QED BY <1>5, <2>2, <2>3, <2>4 DEF Delete
<1>6. ASSUME NEW c \in Cuts, Cut(c) PROVE Effects
  <2>1. UNCHANGED scope
    BY <1>6 DEF Cut, CutReceived, CutCheck, CutList, CutDelete, CutOnly
  <2>2. \/ UNCHANGED data
        \/ cut[c].at = "delete" /\ data' = [data EXCEPT ![Source] = Without(data[Source], cut[c].ids)]
    BY <1>6 DEF Cut, CutReceived, CutCheck, CutList, CutDelete
  <2>3. Writes
    BY <2>2 DEF Writes
  <2> QED BY <1>1, <1>2, <1>3, <2>1, <2>3, StillEffects
<1>7. ASSUME NEW x \in Interrupts, Interrupt(x) PROVE Effects
  <2>1. intr[x].at # "idle" => intr[x].on \in Sessions
    BY DEF Typed, Placed
  <2>2. CASE IntAppend(x)
    <3>1. UNCHANGED scope /\ intr[x].on \in Sessions
      BY <2>1, <2>2 DEF IntAppend
    <3>2. CASE UNCHANGED data
      BY <1>1, <1>2, <1>3, <1>4, <3>1, <3>2, StillEffects
    <3>3. CASE row[intr[x].on].exists /\ AppendRow(intr[x].on, x, "interrupt")
      <4> DEFINE e == Entry(x, "interrupt")
      <4>1. e \in Entries /\ e.kind \notin TurnKinds /\ e.of \notin Turns
        BY NamesAssumption DEF Entry, Entries, TurnKinds
      <4>2. data' = [data EXCEPT ![intr[x].on] = Append(data[intr[x].on], e)]
        BY <3>3 DEF AppendRow
      <4> HIDE DEF e
      <4>3. Appends(intr[x].on, e)
        BY <3>3, <4>1, <4>2 DEF Appends
      <4>4. Writes
        BY <3>1, <4>1, <4>3 DEF Writes
      <4> QED BY <1>1, <1>2, <1>3, <3>1, <4>4, StillEffects
    <3> QED BY <2>2, <3>2, <3>3 DEF IntAppend
  <2>3. CASE IntRuntime(x)
    <3>1. RuntimeInterrupt(intr[x].on) /\ UNCHANGED data /\ intr[x].on \in Sessions
      BY <2>1, <2>3 DEF IntRuntime
    <3> QED BY <1>1, <1>2, <1>4, <3>1, RuntimeTyped, StillEffects DEF Typed
  <2>4. CASE (\E s \in Sessions : IntRead(x, s)) \/ IntRequest(x) \/ IntComplete(x)
    <3>1. UNCHANGED <<scope, data>>
      BY <2>4 DEF IntRead, IntRequest, IntComplete
    <3> QED BY <1>1, <1>2, <1>3, <1>4, <3>1, StillEffects
  <2> QED BY <1>7, <2>2, <2>3, <2>4 DEF Interrupt
<1> QED BY <1>5, <1>6, <1>7

LEMMA BranchOnward ==
    ASSUME Typed, Marks, NEW b \in Branches, Branch(b)
    PROVE  Effects
<1>1. /\ UNCHANGED <<turn, overtaken, scope>> /\ \A s \in Sessions : s # b => row'[s] = row[s]
      /\ BranchMoves(b) /\ b \in Sessions
  BY BranchEffects DEF Sessions
<1>2. Births
  <2>1. CASE branch[b].at = "create"
    <3>1. \A t \in Turns : turn'[t].on # b
      BY <1>1, <2>1 DEF Marks, BornFirst, Unborn
    <3> QED BY <1>1, <3>1 DEF Births
  <2>2. CASE branch[b].at # "create"
    <3>1. row'[b].exists => row[b].exists
      BY <1>1, <2>2 DEF BranchMoves, RowsStay
    <3> QED BY <1>1, <3>1 DEF Births
  <2> QED BY <2>1, <2>2
<1>3. \/ UNCHANGED data
      \/ row[b].exists /\ \E kind \in {"compact", "error"} : AppendRow(b, b, kind)
  BY DEF Branch, BranchReceived, BranchCheck, BranchList, BranchCreate, BranchStart, BranchMark,
         BranchAnnounce, BranchCompact, BranchAppend, BranchEnds, BranchEnd, BranchFailRow,
         BranchTell, BranchFault
<1>4. Writes
  <2>1. CASE UNCHANGED data
    BY <2>1 DEF Writes
  <2>2. ASSUME NEW kind \in {"compact", "error"}, row[b].exists, AppendRow(b, b, kind) PROVE Writes
    <3> DEFINE e == Entry(b, kind)
    <3>1. e \in Entries /\ e.kind \notin TurnKinds /\ e.of \notin Turns
      BY NamesAssumption DEF Entry, Entries, TurnKinds
    <3>2. data' = [data EXCEPT ![b] = Append(data[b], e)]
      BY <2>2 DEF AppendRow
    <3> HIDE DEF e
    <3>3. Appends(b, e)
      BY <2>2, <3>1, <3>2 DEF Appends
    <3> QED BY <1>1, <3>1, <3>3 DEF Writes
  <2> QED BY <1>3, <2>1, <2>2
<1> QED BY <1>1, <1>2, <1>4, StillEffects

LEMMA StepEffects ==
    ASSUME Typed, Marks, Entered, Next
    PROVE  Effects
BY StartOnward, TurnOnward, MessageOnward, BranchOnward DEF Next

(* The rows after a step, by what it did to them.                           *)
LEMMA AppendedRows ==
    ASSUME Typed, NEW s \in Sessions, NEW e \in Entries, Appends(s, e)
    PROVE  /\ data'[s] \in Seq(Entries) /\ Len(data'[s]) = Len(data[s]) + 1 /\ Len(data[s]) \in Nat
           /\ \A i \in 1..Len(data[s]) : data'[s][i] = data[s][i]
           /\ data'[s][Len(data[s]) + 1] = e
           /\ \A z \in Sessions : z # s => data'[z] = data[z]
<1>1. data[s] \in Seq(Entries) /\ data' = [data EXCEPT ![s] = Append(data[s], e)]
      /\ data \in [Sessions -> Seq(Entries)]
  BY DEF Appends, Typed, Types
<1>2. data'[s] = Append(data[s], e) /\ \A z \in Sessions : z # s => data'[z] = data[z]
  BY <1>1
<1> QED BY <1>1, <1>2

LEMMA CutRows ==
    ASSUME Typed, NEW c \in Cuts, data' = [data EXCEPT ![Source] = Without(data[Source], cut[c].ids)]
    PROVE  /\ data'[Source] \in Seq(Entries) /\ \A z \in Sessions : z # Source => data'[z] = data[z]
           /\ \E p : /\ Selects(p, data'[Source], data[Source])
                     /\ \A i \in 1..Len(data[Source]) :
                           data[Source][i] \notin cut[c].ids <=> \E n \in 1..Len(data'[Source]) : p[n] = i
<1>1. data[Source] \in Seq(Entries) /\ Source \in Sessions /\ data \in [Sessions -> Seq(Entries)]
  BY DEF Typed, Types, Sessions
<1>2. data'[Source] = Without(data[Source], cut[c].ids) /\ \A z \in Sessions : z # Source => data'[z] = data[z]
  BY <1>1
<1> QED BY <1>1, <1>2, WithoutFacts

LEMMA RowOrigin ==
    ASSUME Typed, Writes, NEW s \in Sessions, NEW i \in DOMAIN data'[s]
    PROVE  \/ \E k \in DOMAIN data[s] : data'[s][i] = data[s][k]
           \/ \E e \in Entries : Appends(s, e) /\ data'[s][i] = e
<1>0. data[s] \in Seq(Entries)
  BY DEF Typed, Types
<1>1. CASE UNCHANGED data
  BY <1>1
<1>2. ASSUME NEW z \in Sessions, NEW e \in Entries, Appends(z, e)
      PROVE  \/ \E k \in DOMAIN data[s] : data'[s][i] = data[s][k]
             \/ Appends(s, e) /\ data'[s][i] = e
  <2>1. CASE s = z
    <3>1. /\ data'[s] \in Seq(Entries) /\ Len(data'[s]) = Len(data[s]) + 1 /\ Len(data[s]) \in Nat
          /\ \A k \in 1..Len(data[s]) : data'[s][k] = data[s][k]
          /\ data'[s][Len(data[s]) + 1] = e
      BY <1>2, <2>1, AppendedRows
    <3>2. i \in 1..Len(data[s]) \/ i = Len(data[s]) + 1
      BY <3>1
    <3>3. DOMAIN data[s] = 1..Len(data[s])
      BY <1>0
    <3> QED BY <1>2, <2>1, <3>1, <3>2, <3>3
  <2>2. CASE s # z
    BY <1>2, <2>2, AppendedRows
  <2> QED BY <2>1, <2>2
<1>3. ASSUME NEW z \in Sessions, data' = [data EXCEPT ![z] = << >>]
      PROVE  \E k \in DOMAIN data[s] : data'[s][i] = data[s][k]
  BY <1>3 DEF Typed, Types
<1>4. ASSUME NEW c \in Cuts, data' = [data EXCEPT ![Source] = Without(data[Source], cut[c].ids)]
      PROVE  \E k \in DOMAIN data[s] : data'[s][i] = data[s][k]
  <2>1. CASE s = Source
    <3>1. PICK p : Selects(p, data'[Source], data[Source])
      BY <1>4, CutRows
    <3>2. data'[Source] \in Seq(Entries)
      BY <1>4, CutRows
    <3>3. p[i] \in 1..Len(data[Source]) /\ data'[Source][i] = data[Source][p[i]]
      BY <2>1, <3>1, <3>2 DEF Selects
    <3> QED BY <1>0, <2>1, <3>3
  <2>2. CASE s # Source
    BY <1>4, <2>2, CutRows
  <2> QED BY <2>1, <2>2
<1> QED BY <1>1, <1>2, <1>3, <1>4 DEF Writes

LEMMA WrittenKept ==
    ASSUME Typed, Written, Effects
    PROVE  Written'
<1> SUFFICES ASSUME NEW s \in Sessions, NEW i \in DOMAIN data'[s]
             PROVE  /\ data'[s][i].of \in Turns => turn'[data'[s][i].of].at \notin Before /\ turn'[data'[s][i].of].on = s
                    /\ data'[s][i].kind \in TurnKinds => data'[s][i].of \in Turns
  BY DEF Written, Past
<1>1. CASE \E k \in DOMAIN data[s] : data'[s][i] = data[s][k]
  <2>1. PICK k \in DOMAIN data[s] : data'[s][i] = data[s][k]
    BY <1>1
  <2>2. /\ data[s][k].of \in Turns => Past(data[s][k].of) /\ turn[data[s][k].of].on = s
        /\ data[s][k].kind \in TurnKinds => data[s][k].of \in Turns
    BY DEF Written
  <2>3. ASSUME NEW u \in Turns, Past(u) PROVE Past(u)' /\ turn'[u].on = turn[u].on
    BY <2>3 DEF Effects, Onward, Past, Before
  <2>4. PICK u : u = data[s][k].of
    OBVIOUS
  <2>5. data'[s][i].of = u
    BY <2>1, <2>4
  <2>6. u \in Turns => Past(u)' /\ turn'[u].on = s
    BY <2>2, <2>3, <2>4
  <2>7. data'[s][i].kind = data[s][k].kind
    BY <2>1
  <2> QED BY <2>2, <2>4, <2>5, <2>6, <2>7 DEF Past
<1>2. ASSUME NEW e \in Entries, Appends(s, e), data'[s][i] = e PROVE
                    /\ data'[s][i].of \in Turns => turn'[data'[s][i].of].at \notin Before /\ turn'[data'[s][i].of].on = s
                    /\ data'[s][i].kind \in TurnKinds => data'[s][i].of \in Turns
  <2>1. /\ e.of \in Turns => Past(e.of)' /\ turn'[e.of].on = s
        /\ e.kind \in TurnKinds => e.of \in Turns
    BY <1>2 DEF Appends
  <2> QED BY <1>2, <2>1 DEF Past
<1> QED BY <1>1, <1>2, RowOrigin DEF Effects

LEMMA EnteredKept ==
    ASSUME Entered, Effects
    PROVE  Entered'
<1> SUFFICES ASSUME NEW t \in Turns, Open(t)', turn'[t].at \notin {"idle", "scope"}
             PROVE  scope'[turn'[t].on].turn = t
  BY DEF Entered
<1>1. CASE scope'[turn'[t].on].turn = t
  BY <1>1
<1>2. CASE turn[t].at \notin {"idle", "scope"} /\ scope'[turn[t].on].turn = scope[turn[t].on].turn
  <2>1. Open(t) /\ turn'[t].on = turn[t].on
    BY <1>2 DEF Effects, Onward
  <2> QED BY <1>2, <2>1 DEF Entered
<1> QED BY <1>1, <1>2 DEF Effects, Keeps

(* A deletion of a turn's rows takes none of a turn that still runs.        *)
LEMMA CutSpares ==
    ASSUME Typed, Reading, NEW c \in Cuts, NEW t \in Turns, Open(t)
    PROVE  \A i \in DOMAIN data[Source] : data[Source][i].of = t => data[Source][i] \notin cut[c].ids
<1> DEFINE r == [at |-> cut[c].at, of |-> cut[c].of, rows |-> cut[c].ids]
<1>1. r \in Readings
  BY DEF Readings
<1>2. Finished(r.rows)
  BY <1>1 DEF Reading, Reads
<1>3. Finished(cut[c].ids)
  BY <1>2
<1> QED BY <1>3 DEF Finished

LEMMA AskedKept ==
    ASSUME Typed, Typed', Asked, Reading, Effects
    PROVE  Asked'
<1> SUFFICES ASSUME NEW t \in Turns, Open(t)', Past(t)', row'[turn'[t].on].exists
             PROVE  HasUserRow(t)'
  BY DEF Asked
<1>1. turn'[t].on \in Sessions
  BY DEF Typed, Placed, Past, Before
<1>2. CASE data'[turn'[t].on] = Append(data[turn'[t].on], Entry(t, "user"))
  <2> DEFINE rows == data[turn'[t].on]
             e == Entry(t, "user")
  <2>1. rows \in Seq(Entries)
    BY <1>1 DEF Typed, Types
  <2> HIDE DEF rows, e
  <2>2. Len(rows) + 1 \in DOMAIN Append(rows, e) /\ Append(rows, e)[Len(rows) + 1] = e
    BY <2>1
  <2>3. data'[turn'[t].on] = Append(rows, e)
    BY <1>2 DEF rows, e
  <2>4. \E i \in DOMAIN data'[turn'[t].on] : data'[turn'[t].on][i] = e
    BY <2>2, <2>3
  <2> QED BY <2>4 DEF HasUserRow, e
<1>3. CASE Past(t)
  <2>1. Open(t) /\ turn'[t].on = turn[t].on
    BY <1>3 DEF Effects, Onward, Past, Before
  <2>2. row[turn[t].on].exists /\ turn[t].on \in Sessions
    BY <1>1, <2>1 DEF Effects, Births
  <2>3. PICK s \in Sessions : s = turn[t].on
    BY <2>2
  <2>4. PICK i \in DOMAIN data[s] : data[s][i] = Entry(t, "user")
    BY <1>3, <2>1, <2>2, <2>3 DEF Asked, HasUserRow
  <2>5. data[s] \in Seq(Entries)
    BY DEF Typed, Types
  <2> SUFFICES \E k \in DOMAIN data'[s] : data'[s][k] = Entry(t, "user")
    BY <2>1, <2>3 DEF HasUserRow
  <2>6. CASE UNCHANGED data
    BY <2>4, <2>6
  <2>7. ASSUME NEW z \in Sessions, NEW e \in Entries, Appends(z, e)
        PROVE  \E k \in DOMAIN data'[s] : data'[s][k] = Entry(t, "user")
    BY <2>4, <2>5, <2>7, AppendedRows
  <2>8. ASSUME NEW z \in Sessions, data' = [data EXCEPT ![z] = << >>], ~ row'[z].exists
        PROVE  \E k \in DOMAIN data'[s] : data'[s][k] = Entry(t, "user")
    <3>1. z # s
      BY <2>1, <2>3, <2>8
    <3> QED BY <2>4, <2>8, <3>1 DEF Typed, Types
  <2>9. ASSUME NEW c \in Cuts, data' = [data EXCEPT ![Source] = Without(data[Source], cut[c].ids)]
        PROVE  \E k \in DOMAIN data'[s] : data'[s][k] = Entry(t, "user")
    <3>1. CASE s # Source
      BY <2>4, <2>9, <3>1, CutRows
    <3>2. CASE s = Source
      <4>1. PICK p : /\ Selects(p, data'[Source], data[Source])
                     /\ \A j \in 1..Len(data[Source]) :
                           data[Source][j] \notin cut[c].ids <=> \E n \in 1..Len(data'[Source]) : p[n] = j
        BY <2>9, CutRows
      <4>2. data'[Source] \in Seq(Entries)
        BY <2>9, CutRows
      <4>3. data[Source][i] \notin cut[c].ids
        <5>1. Entry(t, "user").of = t
          BY DEF Entry
        <5> QED BY <2>1, <2>4, <3>2, <5>1, CutSpares
      <4>4. PICK n \in 1..Len(data'[Source]) : p[n] = i
        BY <2>4, <2>5, <3>2, <4>1, <4>3
      <4>5. data'[Source][n] = data[Source][i]
        BY <4>1, <4>4 DEF Selects
      <4> QED BY <2>4, <3>2, <4>2, <4>4, <4>5
    <3> QED BY <3>1, <3>2
  <2> QED BY <2>6, <2>7, <2>8, <2>9 DEF Effects, Writes
<1> QED BY <1>2, <1>3 DEF Effects, Asks

LEMMA BehindKept ==
    ASSUME Typed, Written, Asked, Reading, Effects, NEW of, of \in Turns => Past(of),
           NEW t \in Turns, Open(t)', Behind(of, t)
    PROVE  Behind(of, t)'
<1> DEFINE rows == data[Source]
           last == Len(rows) + 1
           u(x) == Entry(x, "user")
<1> SUFFICES ASSUME NEW f \in DOMAIN data'[Source], NEW i \in DOMAIN data'[Source],
                    data'[Source][f] = u(of), data'[Source][i].of = t
             PROVE  \E j \in DOMAIN data'[Source] : f < j /\ j <= i /\ data'[Source][j] = u(t)
  BY DEF Behind
<1>0. Source \in Sessions /\ rows \in Seq(Entries) /\ Len(rows) \in Nat
  BY DEF Sessions, Typed, Types
<1>1. Open(t) /\ (\A x : u(x).of = x /\ u(x).kind = "user")
  BY DEF Effects, Onward, Entry
<1>2. \A k, n \in DOMAIN rows : rows[k] = u(of) /\ rows[n].of = t =>
          \E j \in DOMAIN rows : k < j /\ j <= n /\ rows[j] = u(t)
  BY DEF Behind
<1>3. CASE UNCHANGED rows
  BY <1>2, <1>3
<1>4. ASSUME NEW s \in Sessions, NEW e \in Entries, Appends(s, e), s = Source
      PROVE  \E j \in DOMAIN data'[Source] : f < j /\ j <= i /\ data'[Source][j] = u(t)
  <2>1. /\ data'[Source] \in Seq(Entries) /\ Len(data'[Source]) = last
        /\ \A k \in 1..Len(rows) : data'[Source][k] = rows[k]
        /\ data'[Source][last] = e
    BY <1>4, AppendedRows
  <2>2. f # last
    <3> SUFFICES ASSUME e = u(of) PROVE FALSE
      BY <2>1
    <3>1. of \in Turns /\ ~ Past(of)
      BY <1>1, <1>4 DEF Appends, TurnKinds
    <3> QED BY <3>1
  <2>3. f \in DOMAIN rows /\ rows[f] = u(of) /\ f < last
    <3> HIDE DEF rows, u
    <3> QED BY <1>0, <2>1, <2>2
  <2>4. CASE i \in DOMAIN rows
    <3>0. data'[Source][i] = rows[i]
      BY <1>0, <2>1, <2>4
    <3>1. rows[i].of = t
      BY <3>0
    <3>2. PICK j \in DOMAIN rows : f < j /\ j <= i /\ rows[j] = u(t)
      BY <1>2, <2>3, <2>4, <3>1
    <3> HIDE DEF rows, u
    <3> QED BY <1>0, <2>1, <3>2
  <2>5. CASE i \notin DOMAIN rows
    <3>1. i = last /\ e.of = t
      <4> HIDE DEF rows
      <4> QED BY <1>0, <2>1, <2>5
    <3>2. CASE e.kind = "user"
      <4>1. e = u(t)
        BY <3>1, <3>2 DEF Entry, Entries
      <4> HIDE DEF rows, u
      <4> QED BY <1>0, <2>1, <2>3, <3>1, <4>1
    <3>3. CASE e.kind # "user"
      <4>1. turn[t].on = Source /\ Past(t) /\ row[Source].exists
        BY <1>4, <3>1, <3>3 DEF Appends
      <4>2. PICK k \in DOMAIN rows : rows[k] = u(t)
        BY <1>1, <4>1 DEF Asked, HasUserRow
      <4>3. PICK j \in DOMAIN rows : f < j /\ j <= k /\ rows[j] = u(t)
        BY <1>1, <1>2, <2>3, <4>2
      <4> HIDE DEF rows, u
      <4> QED BY <1>0, <2>1, <3>1, <4>3
    <3> QED BY <3>2, <3>3
  <2> QED BY <2>4, <2>5
<1>5. ASSUME NEW s \in Sessions, data' = [data EXCEPT ![s] = << >>]
      PROVE  \E j \in DOMAIN data'[Source] : f < j /\ j <= i /\ data'[Source][j] = u(t)
  <2>1. CASE s = Source
    <3>1. data'[Source] = << >>
      BY <1>0, <1>5, <2>1 DEF Typed, Types
    <3> QED BY <3>1
  <2>2. CASE s # Source
    <3>1. data'[Source] = rows
      BY <1>0, <1>5, <2>2 DEF Typed, Types
    <3> QED BY <1>3, <3>1
  <2> QED BY <2>1, <2>2
<1>6. ASSUME NEW c \in Cuts, data' = [data EXCEPT ![Source] = Without(data[Source], cut[c].ids)]
      PROVE  \E j \in DOMAIN data'[Source] : f < j /\ j <= i /\ data'[Source][j] = u(t)
  <2>1. PICK p : /\ Selects(p, data'[Source], rows)
                 /\ \A k \in 1..Len(rows) :
                       rows[k] \notin cut[c].ids <=> \E n \in 1..Len(data'[Source]) : p[n] = k
    BY <1>6, CutRows
  <2>2. data'[Source] \in Seq(Entries) /\ Len(data'[Source]) \in Nat
    <3>1. data'[Source] \in Seq(Entries)
      BY <1>6, CutRows
    <3> QED BY <3>1
  <2>3. /\ p[f] \in 1..Len(rows) /\ rows[p[f]] = u(of)
        /\ p[i] \in 1..Len(rows) /\ rows[p[i]].of = t
    <3> HIDE DEF u, rows
    <3> QED BY <2>1, <2>2 DEF Selects
  <2>4. PICK k \in DOMAIN rows : p[f] < k /\ k <= p[i] /\ rows[k] = u(t)
    BY <1>0, <1>2, <2>3
  <2>5. rows[k] \notin cut[c].ids
    BY <1>1, <2>4, CutSpares
  <2>6. PICK j \in 1..Len(data'[Source]) : p[j] = k
    <3> HIDE DEF u, rows
    <3> QED BY <1>0, <2>1, <2>4, <2>5
  <2>7. data'[Source][j] = u(t)
    <3> HIDE DEF u, rows
    <3> QED BY <2>1, <2>4, <2>6 DEF Selects
  <2>8. f < j /\ j <= i
    <3> HIDE DEF u, rows
    <3>1. f \in 1..Len(data'[Source]) /\ i \in 1..Len(data'[Source])
      BY <2>2
    <3>2. (j < f => p[j] < p[f]) /\ (i < j => p[i] < p[j])
      BY <2>1, <2>6, <3>1 DEF Selects
    <3>3. p[f] \in Nat /\ p[i] \in Nat /\ k \in Nat /\ f \in Nat /\ i \in Nat /\ j \in Nat
      BY <1>0, <2>2, <2>3, <2>4, <2>6, <3>1
    <3> QED BY <2>4, <2>6, <3>2, <3>3
  <2> QED BY <2>2, <2>7, <2>8
<1>7. ASSUME NEW s \in Sessions, NEW e \in Entries, Appends(s, e), s # Source
      PROVE  \E j \in DOMAIN data'[Source] : f < j /\ j <= i /\ data'[Source][j] = u(t)
  <2>1. data'[Source] = rows
    BY <1>0, <1>7, AppendedRows
  <2> QED BY <1>3, <2>1
<1> QED BY <1>3, <1>4, <1>5, <1>6, <1>7 DEF Effects, Writes

LEMMA ReadsKept ==
    ASSUME Typed, Written, Asked, Reading, Effects, NEW r, Reads(r)
    PROVE  Reads(r)'
<1>1. r.of \in Turns => Past(r.of)'
  BY DEF Reads, Effects, Onward
<1>2. ASSUME NEW t \in Turns, Open(t)', r.at = "list" PROVE Behind(r.of, t)'
  <2>1. Open(t)
    BY <1>2 DEF Effects, Onward
  <2>2. Behind(r.of, t) /\ (r.of \in Turns => Past(r.of))
    BY <1>2, <2>1 DEF Reads, Clear
  <2> QED BY <1>2, <2>2, BehindKept
<1>3. Finished(r.rows)'
  <2>1. \A t \in Turns : Open(t)' => Open(t)
    BY DEF Effects, Onward
  <2> QED BY <2>1 DEF Reads, Finished
<1>4. r.at = "list" => Clear(r.of)'
  BY <1>2 DEF Clear
<1> QED BY <1>1, <1>3, <1>4 DEF Reads

(* What assertSessionHistoryMutationAllowed is for.                         *)
LEMMA AllowedIsClear ==
    ASSUME Typed, Written, Entered, MutationAllowed(Source), NEW of
    PROVE  Clear(of)
<1> SUFFICES ASSUME NEW t \in Turns, Open(t),
                    NEW i \in DOMAIN data[Source], data[Source][i].of = t
             PROVE  FALSE
  BY DEF Clear, Behind
<1>1. Past(t) /\ turn[t].on = Source
  BY DEF Written, Sessions
<1>2. scope[Source].turn = t
  BY <1>1 DEF Entered, Past, Before
<1>3. scope[Source].turn = None
  BY DEF MutationAllowed, NoScope
<1> QED BY <1>2, <1>3, NamesAssumption

LEMMA ListedFinished ==
    ASSUME Typed, NEW of, Clear(of)
    PROVE  /\ Finished(TurnRange(data[Source], of))
           /\ Finished(RowsThrough(data[Source], of))
<1> DEFINE rows == data[Source]
<1>0. rows \in Seq(Entries) /\ Len(rows) \in Nat
  BY DEF Sessions, Typed, Types
<1>1. ASSUME NEW k \in TurnPlaces(rows, of), NEW j \in DOMAIN rows, j <= k,
             rows[j].of \in Turns, Open(rows[j].of)
      PROVE  FALSE
  <2>1. PICK f \in 1..k : rows[f] = Entry(of, "user") /\ \A n \in (f + 1)..k : ~ IsUserRow(rows[n])
    BY <1>1 DEF TurnPlaces
  <2>2. k \in DOMAIN rows /\ f \in DOMAIN rows
    <3>1. k \in DOMAIN rows
      BY <1>1 DEF TurnPlaces
    <3> HIDE DEF rows
    <3> QED BY <1>0, <2>1, <3>1
  <2>3. Behind(of, rows[j].of)
    BY <1>1 DEF Clear
  <2>4. PICK n \in DOMAIN rows : f < n /\ n <= j /\ rows[n] = Entry(rows[j].of, "user")
    BY <1>1, <2>1, <2>2, <2>3 DEF Behind
  <2>5. IsUserRow(rows[n])
    BY <2>4 DEF IsUserRow, Entry
  <2>6. n \in (f + 1)..k
    <3> HIDE DEF rows
    <3> QED BY <1>0, <1>1, <2>2, <2>4
  <2> QED BY <2>1, <2>5, <2>6
<1>2. Finished(TurnRange(rows, of))
  <2> SUFFICES ASSUME NEW e \in TurnRange(rows, of), e.of \in Turns, Open(e.of) PROVE FALSE
    BY DEF Finished
  <2>1. PICK k \in TurnPlaces(rows, of) : e = rows[k]
    BY DEF TurnRange
  <2>2. k \in DOMAIN rows /\ k <= k
    <3>1. k \in DOMAIN rows
      BY <2>1 DEF TurnPlaces
    <3> HIDE DEF rows
    <3> QED BY <1>0, <3>1
  <2> HIDE DEF rows
  <2> QED BY <1>1, <2>1, <2>2
<1>3. Finished(RowsThrough(rows, of))
  <2> SUFFICES ASSUME NEW e \in RowsThrough(rows, of), e.of \in Turns, Open(e.of) PROVE FALSE
    BY DEF Finished
  <2>1. PICK j \in DOMAIN rows : e = rows[j] /\ \E k \in TurnPlaces(rows, of) : j <= k
    BY DEF RowsThrough
  <2> HIDE DEF rows
  <2> QED BY <1>1, <2>1
<1> QED BY <1>2, <1>3

(* What a message has read after a step was already so before it.           *)
LEMMA CutReads ==
    ASSUME Typed, Ordered, NEW c \in Cuts, Cut(c)
    PROVE  Reads([at |-> cut'[c].at, of |-> cut'[c].of, rows |-> cut'[c].ids])
<1> DEFINE old == [at |-> cut[c].at, of |-> cut[c].of, rows |-> cut[c].ids]
<1>0. cut \in [Cuts -> [at : CutPcs, of : Someone, ids : SUBSET Entries]]
  BY DEF Typed, Types
<1>1. /\ cut[c].of \in Turns => Past(cut[c].of)
      /\ cut[c].at = "list" => Clear(cut[c].of)
      /\ Finished(cut[c].ids)
  <2>1. old \in Readings
    BY DEF Readings
  <2>2. Reads(old)
    BY <2>1 DEF Ordered, Reading
  <2> QED BY <2>2 DEF Reads
<1>2. ASSUME NEW t \in Turns, CutReceived(c, t)
      PROVE  Reads([at |-> cut'[c].at, of |-> cut'[c].of, rows |-> cut'[c].ids])
  <2>1. cut'[c].at = "check" /\ cut'[c].of = t /\ cut'[c].ids = {} /\ Known(t)
    BY <1>0, <1>2 DEF CutReceived
  <2>2. Past(t)
    BY <2>1 DEF Known, Entry, Ordered, Written, Sessions
  <2> QED BY <2>1, <2>2 DEF Reads, Finished
<1>3. CASE CutCheck(c)
  <2>1. PICK p \in {"list", "done"} : /\ cut' = [cut EXCEPT ![c].at = p]
                                      /\ p = "list" => MutationAllowed(Source)
    BY <1>3 DEF CutCheck
  <2>2. cut'[c].at = p /\ cut'[c].of = cut[c].of /\ cut'[c].ids = cut[c].ids
    BY <1>0, <2>1
  <2>3. p = "list" => Clear(cut[c].of)
    BY <2>1, AllowedIsClear DEF Ordered
  <2> QED BY <1>1, <2>2, <2>3 DEF Reads
<1>4. CASE CutList(c)
  <2> DEFINE ids == TurnRange(data[Source], cut[c].of)
  <2>1. PICK p \in {"delete", "done"} : /\ cut' = [cut EXCEPT ![c].ids = ids, ![c].at = p]
                                        /\ cut[c].at = "list"
    BY <1>4 DEF CutList
  <2>2. Finished(ids)
    BY <1>1, <2>1, ListedFinished
  <2> HIDE DEF ids
  <2>3. cut'[c].at = p /\ cut'[c].of = cut[c].of /\ cut'[c].ids = ids
    BY <1>0, <2>1
  <2> QED BY <1>1, <2>2, <2>3 DEF Reads
<1>5. CASE CutDelete(c)
  <2>1. cut'[c].at = "done" /\ cut'[c].of = None /\ cut'[c].ids = {}
    BY <1>0, <1>5 DEF CutDelete
  <2> QED BY <2>1, NamesAssumption DEF Reads, Finished
<1> QED BY <1>2, <1>3, <1>4, <1>5 DEF Cut

LEMMA BranchReads ==
    ASSUME Typed, Ordered, NEW b \in Branches, Branch(b)
    PROVE  Reads([at |-> branch'[b].at, of |-> branch'[b].of, rows |-> branch'[b].src])
<1> DEFINE old == [at |-> branch[b].at, of |-> branch[b].of, rows |-> branch[b].src]
           Told == Reads([at |-> branch'[b].at, of |-> branch'[b].of, rows |-> branch'[b].src])
<1>0. branch \in [Branches -> [at : BranchPcs, of : Someone, src : SUBSET Entries]]
  BY DEF Typed, Types
<1>1. /\ branch[b].of \in Turns => Past(branch[b].of)
      /\ branch[b].at = "list" => Clear(branch[b].of)
      /\ Finished(branch[b].src)
  <2>1. old \in Readings
    BY DEF Readings
  <2>2. Reads(old)
    BY <2>1 DEF Ordered, Reading
  <2> QED BY <2>2 DEF Reads
<1>2. ASSUME NEW p, p = "list" => Clear(branch[b].of), BranchGoto(b, p)
      PROVE  Told
  <2>1. branch'[b].at = p /\ branch'[b].of = branch[b].of /\ branch'[b].src = branch[b].src
    BY <1>0, <1>2 DEF BranchGoto
  <2> QED BY <1>1, <1>2, <2>1 DEF Reads
<1>3. ASSUME NEW t \in Turns, BranchReceived(b, t) PROVE Told
  <2>1. branch'[b].at = "check" /\ branch'[b].of = t /\ branch'[b].src = {} /\ Known(t)
    BY <1>0, <1>3 DEF BranchReceived
  <2>2. Past(t)
    BY <2>1 DEF Known, Entry, Ordered, Written, Sessions
  <2> QED BY <2>1, <2>2 DEF Reads, Finished
<1>4. CASE BranchCheck(b)
  <2>1. PICK p \in {"list", "done"} : BranchGoto(b, p) /\ (p = "list" => MutationAllowed(Source))
    BY <1>4 DEF BranchCheck
  <2>2. p = "list" => Clear(branch[b].of)
    BY <2>1, AllowedIsClear DEF Ordered
  <2> QED BY <1>2, <2>1, <2>2
<1>5. CASE BranchList(b)
  <2> DEFINE src == RowsThrough(data[Source], branch[b].of)
  <2>1. PICK p \in {"create", "done"} : /\ branch' = [branch EXCEPT ![b].src = src, ![b].at = p]
                                        /\ branch[b].at = "list"
    BY <1>5 DEF BranchList
  <2>2. Finished(src)
    BY <1>1, <2>1, ListedFinished
  <2> HIDE DEF src
  <2>3. branch'[b].at = p /\ branch'[b].of = branch[b].of /\ branch'[b].src = src
    BY <1>0, <2>1
  <2> QED BY <1>1, <2>2, <2>3 DEF Reads
<1>6. CASE BranchCreate(b)
  <2>1. branch'[b].at = "start" /\ branch'[b].of = None /\ branch'[b].src = {}
    BY <1>0, <1>6 DEF BranchCreate
  <2> QED BY <2>1, NamesAssumption DEF Reads, Finished
<1>7. CASE ~ (BranchCheck(b) \/ BranchList(b) \/ BranchCreate(b) \/ \E t \in Turns : BranchReceived(b, t))
  <2>1. \E p \in {"mark", "done", "announce", "compact", "append", "catch", "end", "tell", "fail",
                  "failRow", "tellFailed", "unhandled", "gone"} : BranchGoto(b, p)
    BY <1>7 DEF Branch, BranchStart, BranchMark, BranchAnnounce, BranchCompact, BranchAppend, BranchEnds,
                BranchEnd, BranchFailRow, BranchTell, BranchFault
  <2> QED BY <1>2, <2>1
<1> QED BY <1>3, <1>4, <1>5, <1>6, <1>7

LEMMA NewReads ==
    ASSUME Typed, Ordered, Next
    PROVE  \A r \in Readings' : Reads(r)
<1> DEFINE ofCut(c) == [at |-> cut[c].at, of |-> cut[c].of, rows |-> cut[c].ids]
           ofBranch(b) == [at |-> branch[b].at, of |-> branch[b].of, rows |-> branch[b].src]
<1>1. (\A c \in Cuts : Reads(ofCut(c))) /\ (\A b \in Branches : Reads(ofBranch(b)))
  BY DEF Ordered, Reading, Readings
<1>2. CASE UNCHANGED <<cut, branch>>
  <2>1. Readings' = Readings
    BY <1>2 DEF Readings
  <2> QED BY <2>1 DEF Ordered, Reading
<1>3. ASSUME NEW c \in Cuts, Cut(c) PROVE \A r \in Readings' : Reads(r)
  <2>1. UNCHANGED branch /\ \A z \in Cuts : z # c => cut'[z] = cut[z]
    BY <1>3 DEF Cut, CutReceived, CutCheck, CutList, CutDelete, CutOnly, Typed, Types
  <2>2. \A z \in Cuts : Reads([at |-> cut'[z].at, of |-> cut'[z].of, rows |-> cut'[z].ids])
    BY <1>1, <1>3, <2>1, CutReads
  <2> QED BY <1>1, <2>1, <2>2 DEF Readings
<1>4. ASSUME NEW b \in Branches, Branch(b) PROVE \A r \in Readings' : Reads(r)
  <2>1. UNCHANGED cut /\ \A z \in Branches : z # b => branch'[z] = branch[z]
    BY <1>4, BranchEffects
  <2>2. \A z \in Branches : Reads([at |-> branch'[z].at, of |-> branch'[z].of, rows |-> branch'[z].src])
    BY <1>1, <1>4, <2>1, BranchReads
  <2> QED BY <1>1, <2>1, <2>2 DEF Readings
<1>5. CASE \/ \E t \in Turns : Turn(t)
           \/ \E d \in Deletes : Delete(d)
           \/ \E x \in Interrupts : Interrupt(x)
  <2>1. UNCHANGED <<cut, branch>>
    <3>1. ASSUME NEW t \in Turns, Turn(t) PROVE UNCHANGED <<cut, branch>>
      BY <3>1, TurnEffects DEF StartTurn, messages
    <3>2. ASSUME NEW d \in Deletes, Delete(d) PROVE UNCHANGED <<cut, branch>>
      BY <3>2 DEF Delete, DeleteSelect, DeleteRequest, DeleteRuntime, DeleteComplete, DeletePoll,
                  DeleteRows, DelOnly
    <3>3. ASSUME NEW x \in Interrupts, Interrupt(x) PROVE UNCHANGED <<cut, branch>>
      BY <3>3 DEF Interrupt, IntRead, IntAppend, IntRequest, IntRuntime, IntComplete, IntOnly
    <3> QED BY <1>5, <3>1, <3>2, <3>3
  <2> QED BY <1>2, <2>1
<1> QED BY <1>3, <1>4, <1>5 DEF Next

LEMMA StepOrdered ==
    ASSUME Typed, Typed', Marks, Ordered, [Next]_vars
    PROVE  Ordered'
<1>1. CASE UNCHANGED vars
  BY <1>1 DEF vars, Ordered, Written, Entered, Asked, HasUserRow, Reading, Readings, Reads, Clear,
              Behind, Finished, Past, Open
<1>2. CASE Next
  <2>1. Effects
    BY <1>2, StepEffects DEF Ordered
  <2>2. Written' /\ Entered' /\ Asked'
    BY <2>1, WrittenKept, EnteredKept, AskedKept DEF Ordered
  <2>3. ASSUME NEW r \in Readings' PROVE Reads(r)'
    <3>1. Reads(r)
      BY <1>2, <2>3, NewReads
    <3> QED BY <2>1, <3>1, ReadsKept DEF Ordered
  <2>4. Reading'
    BY <2>3 DEF Reading
  <2> QED BY <2>2, <2>4 DEF Ordered
<1> QED BY <1>1, <1>2

LEMMA AlwaysOrdered == Spec => []Ordered
BY AlwaysTyped, AlwaysMarks, InitOrdered, StepOrdered, PTL DEF Spec

(* createBranchSessionFromTurn summarizes rows of turns that are over: the   *)
(* check it makes, before the query that lists the rows, is enough, unless a *)
(* turn has taken another's entry in activeTurns.                            *)
THEOREM BranchesOfFinishedTurns == Spec => []BranchOfFinishedTurns
<1>1. ASSUME Typed, Ordered PROVE BranchOfFinishedTurns
  <2> SUFFICES ASSUME NEW b \in Branches, NEW e \in branch[b].src, e.of \in LiveOn(Source),
                      e.of \notin overtaken
               PROVE  FALSE
    BY DEF BranchOfFinishedTurns
  <2>1. Finished(branch[b].src)
    <3> DEFINE r == [at |-> branch[b].at, of |-> branch[b].of, rows |-> branch[b].src]
    <3>1. r \in Readings
      BY DEF Readings
    <3>2. Finished(r.rows)
      BY <1>1, <3>1 DEF Ordered, Reading, Reads
    <3> QED BY <3>2
  <2>2. e.of \in Turns /\ Open(e.of)
    BY DEF LiveOn, Live, LivePcs, LookPcs, Open, Over
  <2> QED BY <2>1, <2>2 DEF Finished
<1> QED BY <1>1, AlwaysTyped, AlwaysOrdered, PTL

-----------------------------------------------------------------------------
(* WholeTurns                                                               *)

(* As long as no turn has been overtaken: a row of a turn has the turn's    *)
(* user row at or before it, no other user row is between them, and none is *)
(* after the user row of a turn that runs.  What a message is about to      *)
(* delete are all rows of a turn that is over and no other user row.        *)
Follow ==
    \A s \in Sessions : \A i \in DOMAIN data[s] : data[s][i].of \in Turns =>
        \E j \in DOMAIN data[s] : j <= i /\ data[s][j] = Entry(data[s][i].of, "user")

Together ==
    \A s \in Sessions : \A i, j, k \in DOMAIN data[s] :
        data[s][i].kind = "user" /\ data[s][j].of = data[s][i].of /\ i < k /\ k <= j =>
            data[s][k].kind # "user"

LastAsked ==
    \A t \in Turns : Open(t) /\ Past(t) /\ row[turn[t].on].exists =>
        \A i, j \in DOMAIN data[turn[t].on] :
            data[turn[t].on][i] = Entry(t, "user") /\ i < j => data[turn[t].on][j].kind # "user"

Ready(r) ==
    /\ r.of \in Turns /\ ~ Open(r.of)
    /\ \A e \in r.rows : e.kind = "user" => e.of = r.of
    /\ \A i \in DOMAIN data[Source] : data[Source][i].of = r.of => data[Source][i] \in r.rows

Plans == {[of |-> cut[c].of, rows |-> cut[c].ids] : c \in {d \in Cuts : cut[d].at = "delete"}}

Cutting == \A r \in Plans : Ready(r)

Unbroken == overtaken = {} => Follow /\ Together /\ LastAsked /\ Cutting

LEMMA InitUnbroken == Init => Unbroken
BY DEF Init, Unbroken, Follow, Together, LastAsked, Past, Before, Cutting, Plans

(* What a step leaves of the rows of a session stands at the places p, in   *)
(* order, and only a deletion of all rows or of a turn's takes rows.        *)
Sifts(s, p) ==
    /\ \A n \in DOMAIN data'[s] : p[n] \in DOMAIN data[s] /\ data'[s][n] = data[s][p[n]]
    /\ \A m, n \in DOMAIN data'[s] : m < n => p[m] < p[n]
    /\ \A i \in DOMAIN data[s] :
          \/ \E n \in DOMAIN data'[s] : p[n] = i
          \/ DOMAIN data'[s] = {}
          \/ \E c \in Cuts : /\ s = Source /\ cut[c].at = "delete" /\ data[s][i] \in cut[c].ids
                             /\ \A n \in DOMAIN data'[s] : data'[s][n] \notin cut[c].ids

LEMMA RowsMove ==
    ASSUME Typed, Writes, NEW s \in Sessions
    PROVE  /\ data[s] \in Seq(Entries)
           /\ (\E p : Sifts(s, p)) \/ (\E e \in Entries : Appends(s, e))
<1>0. data[s] \in Seq(Entries) /\ data \in [Sessions -> Seq(Entries)] /\ Source \in Sessions
  BY DEF Typed, Types, Sessions
<1>1. ASSUME data'[s] = data[s] PROVE \E p : Sifts(s, p)
  <2> DEFINE p == [n \in DOMAIN data[s] |-> n]
  <2>1. Sifts(s, p)
    BY <1>1 DEF Sifts
  <2> QED BY <2>1
<1>2. ASSUME DOMAIN data'[s] = {} PROVE \E p : Sifts(s, p)
  BY <1>2 DEF Sifts
<1>3. ASSUME NEW z \in Sessions, NEW e \in Entries, Appends(z, e), z # s
      PROVE  data'[s] = data[s]
  BY <1>3, AppendedRows
<1>4. ASSUME NEW z \in Sessions, data' = [data EXCEPT ![z] = << >>]
      PROVE  data'[s] = data[s] \/ DOMAIN data'[s] = {}
  <2>1. data'[s] = data[s] \/ data'[s] = << >>
    BY <1>0, <1>4
  <2> QED BY <2>1
<1>5. ASSUME NEW c \in Cuts, cut[c].at = "delete",
             data' = [data EXCEPT ![Source] = Without(data[Source], cut[c].ids)]
      PROVE  \E p : Sifts(s, p)
  <2>1. CASE s # Source
    <3>1. data'[s] = data[s]
      BY <1>0, <1>5, <2>1
    <3> QED BY <1>1, <3>1
  <2>2. CASE s = Source
    <3>1. PICK p : /\ Selects(p, data'[Source], data[Source])
                   /\ \A i \in 1..Len(data[Source]) :
                         data[Source][i] \notin cut[c].ids <=> \E n \in 1..Len(data'[Source]) : p[n] = i
      BY <1>5, CutRows
    <3>0. data'[Source] \in Seq(Entries)
      BY <1>5, CutRows
    <3>2. data'[s] \in Seq(Entries) /\ DOMAIN data'[s] = 1..Len(data'[s])
          /\ DOMAIN data[s] = 1..Len(data[s])
      BY <1>0, <2>2, <3>0
    <3>3. \A n \in DOMAIN data'[s] : p[n] \in DOMAIN data[s] /\ data'[s][n] = data[s][p[n]]
      BY <2>2, <3>1, <3>2 DEF Selects
    <3>4. \A m, n \in DOMAIN data'[s] : m < n => p[m] < p[n]
      BY <2>2, <3>1, <3>2 DEF Selects
    <3>5. \A n \in DOMAIN data'[s] : data'[s][n] \notin cut[c].ids
      <4>1. TAKE n \in DOMAIN data'[s]
      <4>2. p[n] \in 1..Len(data[Source]) /\ n \in 1..Len(data'[Source])
        BY <2>2, <3>2, <3>3
      <4>3. data[Source][p[n]] \notin cut[c].ids
        BY <3>1, <4>2
      <4> QED BY <2>2, <3>3, <4>3
    <3>6. \A i \in DOMAIN data[s] : (\E n \in DOMAIN data'[s] : p[n] = i) \/ data[s][i] \in cut[c].ids
      BY <2>2, <3>1, <3>2
    <3>7. Sifts(s, p)
      BY <1>5, <2>2, <3>3, <3>4, <3>5, <3>6 DEF Sifts
    <3> QED BY <3>7
  <2> QED BY <2>1, <2>2
<1>6. \/ data'[s] = data[s]
      \/ \E e \in Entries : Appends(s, e)
      \/ DOMAIN data'[s] = {}
      \/ \E p : Sifts(s, p)
  BY <1>3, <1>4, <1>5 DEF Writes
<1> QED BY <1>0, <1>1, <1>2, <1>6

LEMMA FollowKept ==
    ASSUME Typed, Typed', Ordered, Effects, overtaken = {}, Follow, Cutting
    PROVE  Follow'
<1> SUFFICES ASSUME NEW s \in Sessions, NEW i \in DOMAIN data'[s], NEW t \in Turns, data'[s][i].of = t
             PROVE  \E j \in DOMAIN data'[s] : j <= i /\ data'[s][j] = Entry(t, "user")
  BY DEF Follow
<1> DEFINE u == Entry(t, "user")
<1>0. u.of = t /\ u.kind = "user"
  BY DEF Entry
<1>1. \A k \in DOMAIN data[s] : data[s][k].of = t => \E j \in DOMAIN data[s] : j <= k /\ data[s][j] = u
  BY DEF Follow
<1> HIDE DEF u
<1>2. ASSUME NEW p, Sifts(s, p) PROVE \E j \in DOMAIN data'[s] : j <= i /\ data'[s][j] = u
  <2>1. p[i] \in DOMAIN data[s] /\ data'[s][i] = data[s][p[i]]
    BY <1>2 DEF Sifts
  <2>2. PICK k \in DOMAIN data[s] : k <= p[i] /\ data[s][k] = u
    BY <1>1, <2>1
  <2>3. PICK n \in DOMAIN data'[s] : p[n] = k
    <3>1. ASSUME NEW c \in Cuts, s = Source, cut[c].at = "delete", data[s][k] \in cut[c].ids,
                 \A n \in DOMAIN data'[s] : data'[s][n] \notin cut[c].ids
          PROVE  FALSE
      <4> DEFINE r == [of |-> cut[c].of, rows |-> cut[c].ids]
      <4>1. r \in Plans
        BY <3>1 DEF Plans
      <4>2. Ready(r)
        BY <4>1 DEF Cutting
      <4>3. t = cut[c].of
        BY <1>0, <2>2, <3>1, <4>2 DEF Ready
      <4>4. data[s][p[i]] \in cut[c].ids
        BY <2>1, <3>1, <4>2, <4>3 DEF Ready
      <4> QED BY <2>1, <3>1, <4>4
    <3> QED BY <1>2, <2>2, <3>1 DEF Sifts
  <2>4. data'[s][n] = u
    BY <1>2, <2>2, <2>3 DEF Sifts
  <2>5. n <= i
    <3>1. data[s] \in Seq(Entries) /\ data'[s] \in Seq(Entries)
      BY DEF Typed, Types
    <3>2. n \in Nat /\ i \in Nat /\ p[i] \in Nat /\ k \in Nat
      BY <3>1, <2>1, <2>2
    <3>3. i < n => p[i] < p[n]
      BY <1>2 DEF Sifts
    <3> QED BY <2>2, <2>3, <3>2, <3>3
  <2> QED BY <2>4, <2>5
<1>3. ASSUME NEW e \in Entries, Appends(s, e) PROVE \E j \in DOMAIN data'[s] : j <= i /\ data'[s][j] = u
  <2> DEFINE last == Len(data[s]) + 1
  <2>1. /\ data'[s] \in Seq(Entries) /\ Len(data'[s]) = last /\ Len(data[s]) \in Nat
        /\ \A k \in 1..Len(data[s]) : data'[s][k] = data[s][k]
        /\ data'[s][last] = e /\ DOMAIN data[s] = 1..Len(data[s])
    BY <1>3, AppendedRows, RowsMove DEF Effects
  <2>2. i \in Nat /\ (i \in DOMAIN data[s] \/ i = last) /\ \A k \in DOMAIN data[s] : k \in Nat /\ k <= last
        /\ k \in DOMAIN data'[s]
    BY <2>1
  <2>3. CASE i \in DOMAIN data[s]
    BY <1>1, <2>1, <2>2, <2>3
  <2>4. CASE i = last /\ e.kind = "user"
    <3>1. e = u
      BY <2>1, <2>4 DEF u, Entry, Entries
    <3> QED BY <2>1, <2>2, <2>4, <3>1
  <2>5. CASE i = last /\ e.kind # "user"
    <3>1. e.of = t
      BY <2>1, <2>5
    <3>2. Past(t) /\ turn[t].on = s /\ turn[t].at \notin Over /\ row[s].exists
      BY <1>3, <2>5, <3>1 DEF Appends
    <3>3. HasUserRow(t)
      BY <3>2 DEF Open, Ordered, Asked
    <3>4. PICK j \in DOMAIN data[s] : data[s][j] = u
      BY <3>2, <3>3 DEF HasUserRow, u
    <3> QED BY <2>1, <2>2, <2>5, <3>4
  <2> QED BY <2>2, <2>3, <2>4, <2>5
<1> QED BY <1>2, <1>3, RowsMove DEF u, Effects

LEMMA TogetherKept ==
    ASSUME Typed, Typed', Ordered, Effects, overtaken = {}, Together, LastAsked
    PROVE  Together'
<1> SUFFICES ASSUME NEW s \in Sessions, NEW i \in DOMAIN data'[s], NEW j \in DOMAIN data'[s],
                    NEW k \in DOMAIN data'[s], data'[s][i].kind = "user",
                    data'[s][j].of = data'[s][i].of, i < k, k <= j
             PROVE  data'[s][k].kind # "user"
  BY DEF Together
<1>1. ASSUME NEW p, Sifts(s, p) PROVE data'[s][k].kind # "user"
  <2>1. \A n \in DOMAIN data'[s] : p[n] \in DOMAIN data[s] /\ data'[s][n] = data[s][p[n]]
    BY <1>1 DEF Sifts
  <2>2. p[i] < p[k] /\ p[k] <= p[j]
    <3>1. p[i] < p[k] /\ (k < j => p[k] < p[j])
      BY <1>1 DEF Sifts
    <3>2. data[s] \in Seq(Entries) /\ data'[s] \in Seq(Entries)
      BY DEF Typed, Types
    <3>3. \A n \in DOMAIN data[s] : n \in Nat
      BY <3>2
    <3>4. \A n \in DOMAIN data'[s] : n \in Nat
      BY <3>2
    <3>5. p[k] \in Nat /\ p[j] \in Nat /\ k \in Nat /\ j \in Nat
      BY <2>1, <3>3, <3>4
    <3> QED BY <3>1, <3>5
  <2>3. data[s][p[i]].kind = "user" /\ data[s][p[j]].of = data[s][p[i]].of
    BY <2>1
  <2>4. data[s][p[k]].kind # "user"
    BY <2>1, <2>2, <2>3 DEF Together
  <2> QED BY <2>1, <2>4
<1>2. ASSUME NEW e \in Entries, Appends(s, e) PROVE data'[s][k].kind # "user"
  <2> DEFINE last == Len(data[s]) + 1
  <2>1. /\ data'[s] \in Seq(Entries) /\ Len(data'[s]) = last /\ Len(data[s]) \in Nat
        /\ \A n \in 1..Len(data[s]) : data'[s][n] = data[s][n]
        /\ data'[s][last] = e /\ DOMAIN data[s] = 1..Len(data[s])
    BY <1>2, AppendedRows, RowsMove DEF Effects
  <2>2. /\ i \in DOMAIN data[s]
        /\ j \in DOMAIN data[s] \/ j = last
        /\ k \in DOMAIN data[s] \/ k = last
        /\ j \in DOMAIN data[s] => k \in DOMAIN data[s]
    <3>0. DOMAIN data'[s] = 1..last
      BY <2>1
    <3>1. i \in 1..last /\ j \in 1..last /\ k \in 1..last /\ i < k /\ k <= j
      <4> HIDE DEF last
      <4> QED BY <3>0
    <3>2. DOMAIN data[s] = 1..Len(data[s]) /\ Len(data[s]) \in Nat
      BY <2>1
    <3> QED BY <3>1, <3>2
  <2>3. CASE j \in DOMAIN data[s]
    BY <2>1, <2>2, <2>3 DEF Together
  <2>4. CASE j = last
    <3>1. data[s][i].kind = "user" /\ e.of = data[s][i].of
      BY <2>1, <2>2, <2>4
    <3>2. PICK t : t = e.of
      OBVIOUS
    <3>3. t \in Turns /\ Past(t)
      BY <2>2, <3>1, <3>2 DEF Ordered, Written, TurnKinds
    <3>4. e.kind # "user"
      BY <1>2, <3>2, <3>3 DEF Appends
    <3>5. turn[t].on = s /\ row[s].exists /\ Open(t)
      BY <1>2, <3>2, <3>3 DEF Appends, Open
    <3>6. data[s][i] = Entry(t, "user")
      <4>1. data[s][i] \in Entries
        BY <2>1, <2>2
      <4> QED BY <3>1, <3>2, <4>1 DEF Entry, Entries
    <3>7. CASE k \in DOMAIN data[s]
      BY <2>1, <2>2, <3>3, <3>5, <3>6, <3>7 DEF LastAsked
    <3>8. CASE k = last
      BY <2>1, <3>4, <3>8
    <3> QED BY <2>2, <3>7, <3>8
  <2> QED BY <2>2, <2>3, <2>4
<1> QED BY <1>1, <1>2, RowsMove DEF Effects

LEMMA LastAskedKept ==
    ASSUME Typed, Typed', Ordered, Effects, overtaken = {}, LastAsked
    PROVE  LastAsked'
<1> SUFFICES ASSUME NEW t \in Turns, Open(t)', Past(t)', row'[turn'[t].on].exists,
                    NEW i \in DOMAIN data'[turn'[t].on], NEW j \in DOMAIN data'[turn'[t].on],
                    data'[turn'[t].on][i] = Entry(t, "user"), i < j
             PROVE  data'[turn'[t].on][j].kind # "user"
  BY DEF LastAsked
<1>1. turn'[t].on \in Sessions
  BY DEF Typed, Placed, Past, Before
<1>2. PICK s \in Sessions : s = turn'[t].on
  BY <1>1
<1>3. /\ i \in DOMAIN data'[s] /\ j \in DOMAIN data'[s] /\ data'[s][i] = Entry(t, "user")
      /\ row'[s].exists /\ data[s] \in Seq(Entries) /\ data'[s] \in Seq(Entries)
  BY <1>2 DEF Typed, Types
<1> SUFFICES data'[s][j].kind # "user"
  BY <1>2
<1>4. Open(t) /\ row[s].exists
  BY <1>2, <1>3 DEF Effects, Onward, Births
<1>5. Entry(t, "user").of = t
  BY DEF Entry
<1>6. CASE ~ Past(t)
  <2> DEFINE e == Entry(t, "user")
  <2>1. data'[s] = Append(data[s], e)
    BY <1>2, <1>6 DEF Effects, Asks
  <2> HIDE DEF e
  <2>2. i \in DOMAIN data[s] /\ data[s][i] = data'[s][i]
    BY <1>3, <2>1
  <2>3. data[s][i].of = t
    BY <1>3, <1>5, <2>2
  <2> QED BY <1>6, <2>2, <2>3 DEF Ordered, Written
<1>7. CASE Past(t)
  <2>1. turn[t].on = s
    BY <1>2, <1>7 DEF Effects, Onward, Past, Before
  <2>2. \A m, n \in DOMAIN data[s] : data[s][m] = Entry(t, "user") /\ m < n => data[s][n].kind # "user"
    BY <1>4, <1>7, <2>1 DEF LastAsked
  <2>3. ASSUME NEW p, Sifts(s, p) PROVE data'[s][j].kind # "user"
    <3>1. p[i] \in DOMAIN data[s] /\ p[j] \in DOMAIN data[s] /\ p[i] < p[j]
          /\ data'[s][i] = data[s][p[i]] /\ data'[s][j] = data[s][p[j]]
      BY <1>3, <2>3 DEF Sifts
    <3> QED BY <1>3, <2>2, <3>1
  <2>4. ASSUME NEW e \in Entries, Appends(s, e) PROVE data'[s][j].kind # "user"
    <3> DEFINE last == Len(data[s]) + 1
    <3>1. /\ Len(data'[s]) = last /\ Len(data[s]) \in Nat
          /\ \A n \in 1..Len(data[s]) : data'[s][n] = data[s][n]
          /\ data'[s][last] = e /\ DOMAIN data[s] = 1..Len(data[s])
      BY <1>3, <2>4, AppendedRows
    <3>2. i \in DOMAIN data[s] /\ (j \in DOMAIN data[s] \/ j = last)
      BY <1>3, <3>1
    <3>3. CASE j \in DOMAIN data[s]
      BY <1>3, <2>2, <3>1, <3>2, <3>3
    <3>4. CASE j = last
      <4> SUFFICES ASSUME e.kind = "user" PROVE FALSE
        BY <3>1, <3>4
      <4>1. PICK u : u = e.of
        OBVIOUS
      <4>2. /\ u \in Turns /\ ~ Past(u) /\ turn[u].on = s
            /\ turn[u].at \notin {"idle", "scope"} \cup Over
        BY <2>4, <4>1 DEF Appends, TurnKinds
      <4>3. scope[s].turn = u
        BY <4>2 DEF Ordered, Entered, Open
      <4>4. scope[s].turn = t
        BY <1>4, <1>7, <2>1 DEF Ordered, Entered, Past, Before
      <4> QED BY <1>7, <4>2, <4>3, <4>4
    <3> QED BY <3>2, <3>3, <3>4
  <2> QED BY <2>3, <2>4, RowsMove DEF Effects
<1> QED BY <1>6, <1>7

(* What a message lists to delete is whole.                                 *)
LEMMA ListedWhole ==
    ASSUME Typed, Ordered, Follow, Together, NEW of, Clear(of),
           TurnRange(data[Source], of) # {}
    PROVE  Ready([of |-> of, rows |-> TurnRange(data[Source], of)])
<1> DEFINE rows == data[Source]
<1>0. rows \in Seq(Entries) /\ Len(rows) \in Nat /\ Source \in Sessions
  BY DEF Sessions, Typed, Types
<1>1. \E k \in TurnPlaces(rows, of) : \E f \in 1..k : rows[f] = Entry(of, "user")
  BY DEF TurnRange, TurnPlaces
<1>k. PICK k \in TurnPlaces(rows, of) : \E f \in 1..k : rows[f] = Entry(of, "user")
  BY <1>1
<1>f. PICK f \in 1..k : rows[f] = Entry(of, "user")
  BY <1>k
<1>2. k \in DOMAIN rows /\ f \in DOMAIN rows
  <2>1. k \in DOMAIN rows
    BY <1>k DEF TurnPlaces
  <2> HIDE DEF rows
  <2> QED BY <1>0, <1>f, <2>1
<1>3. Entry(of, "user").of = of /\ Entry(of, "user").kind = "user"
  BY DEF Entry
<1>4. of \in Turns
  BY <1>0, <1>f, <1>2, <1>3 DEF Ordered, Written, TurnKinds
<1>5. Entry(of, "user") \in TurnRange(rows, of)
  <2>1. f \in TurnPlaces(rows, of)
    <3> HIDE DEF rows
    <3>1. f \in 1..f /\ (f + 1)..f = {}
      BY <1>0, <1>2
    <3> QED BY <1>f, <1>2, <3>1 DEF TurnPlaces
  <2> QED BY <1>f, <2>1 DEF TurnRange
<1>6. ~ Open(of)
  <2>1. Finished(TurnRange(rows, of))
    BY ListedFinished
  <2> QED BY <1>3, <1>4, <1>5, <2>1 DEF Finished
<1>7. ASSUME NEW e \in TurnRange(rows, of), e.kind = "user" PROVE e.of = of
  <2>1. PICK n \in TurnPlaces(rows, of) : e = rows[n]
    BY DEF TurnRange
  <2>2. PICK g \in 1..n : rows[g] = Entry(of, "user") /\ \A m \in (g + 1)..n : ~ IsUserRow(rows[m])
    BY <2>1 DEF TurnPlaces
  <2>3. n \in DOMAIN rows
    BY <2>1 DEF TurnPlaces
  <2>4. g = n
    <3> HIDE DEF rows
    <3>1. g < n => n \in (g + 1)..n
      BY <1>0, <2>2, <2>3
    <3>2. ~ g < n
      BY <1>7, <2>1, <2>2, <3>1 DEF IsUserRow
    <3> QED BY <1>0, <2>2, <2>3, <3>2
  <2> QED BY <1>3, <2>1, <2>2, <2>4
<1>8. ASSUME NEW i \in DOMAIN rows, rows[i].of = of PROVE rows[i] \in TurnRange(rows, of)
  <2>1. PICK g \in DOMAIN rows : g <= i /\ rows[g] = Entry(of, "user")
    BY <1>0, <1>4, <1>8 DEF Follow
  <2>2. g \in 1..i
    <3> HIDE DEF rows
    <3> QED BY <1>0, <2>1
  <2>3. ASSUME NEW m \in (g + 1)..i PROVE ~ IsUserRow(rows[m])
    <3>1. m \in DOMAIN rows /\ g < m /\ m <= i
      <4> HIDE DEF rows
      <4> QED BY <1>0, <2>1, <2>3
    <3> QED BY <1>0, <1>3, <1>8, <2>1, <3>1 DEF Together, IsUserRow
  <2>4. i \in TurnPlaces(rows, of)
    BY <2>1, <2>2, <2>3 DEF TurnPlaces
  <2> QED BY <2>4 DEF TurnRange
<1> DEFINE r == [of |-> of, rows |-> TurnRange(data[Source], of)]
<1>9. r.of = of /\ r.rows = TurnRange(rows, of)
  OBVIOUS
<1> HIDE DEF r
<1>10. Ready(r)
  BY <1>4, <1>6, <1>7, <1>8, <1>9 DEF Ready
<1> QED BY <1>10 DEF r

LEMMA NewPlans ==
    ASSUME Typed, Ordered, Follow, Together, Cutting, Next
    PROVE  \A r \in Plans' : Ready(r)
<1> SUFFICES ASSUME NEW c \in Cuts, cut'[c].at = "delete"
             PROVE  Ready([of |-> cut'[c].of, rows |-> cut'[c].ids])
  BY DEF Plans
<1>0. cut \in [Cuts -> [at : CutPcs, of : Someone, ids : SUBSET Entries]]
  BY DEF Typed, Types
<1>1. CASE cut'[c] = cut[c]
  BY <1>1 DEF Cutting, Plans
<1>2. CASE Cut(c)
  <2>1. CutList(c)
    <3>1. ASSUME NEW t \in Turns, CutReceived(c, t) PROVE FALSE
      BY <1>0, <3>1 DEF CutReceived
    <3>2. CASE CutCheck(c)
      BY <1>0, <3>2 DEF CutCheck
    <3>3. CASE CutDelete(c)
      BY <1>0, <3>3 DEF CutDelete
    <3> QED BY <1>2, <3>1, <3>2, <3>3 DEF Cut
  <2> DEFINE ids == TurnRange(data[Source], cut[c].of)
  <2>2. /\ cut[c].at = "list"
        /\ cut' = [cut EXCEPT ![c].ids = ids, ![c].at = IF ids = {} THEN "done" ELSE "delete"]
    BY <2>1 DEF CutList
  <2> HIDE DEF ids
  <2>3. cut'[c].of = cut[c].of /\ cut'[c].ids = ids /\ ids # {}
    BY <1>0, <2>2
  <2>4. Clear(cut[c].of)
    <3> DEFINE old == [at |-> cut[c].at, of |-> cut[c].of, rows |-> cut[c].ids]
    <3>1. old \in Readings
      BY DEF Readings
    <3>2. Reads(old)
      BY <3>1 DEF Ordered, Reading
    <3> QED BY <2>2, <3>2 DEF Reads
  <2> QED BY <2>3, <2>4, ListedWhole DEF ids
<1>3. ASSUME NEW z \in Cuts, z # c, Cut(z) PROVE cut'[c] = cut[c]
  BY <1>0, <1>3 DEF Cut, CutReceived, CutCheck, CutList, CutDelete
<1>4. ASSUME NEW t \in Turns, Turn(t) PROVE UNCHANGED cut
  BY <1>4, TurnEffects DEF StartTurn, messages
<1>5. ASSUME NEW d \in Deletes, Delete(d) PROVE UNCHANGED cut
  BY <1>5 DEF Delete, DeleteSelect, DeleteRequest, DeleteRuntime, DeleteComplete, DeletePoll,
              DeleteRows, DelOnly
<1>6. ASSUME NEW x \in Interrupts, Interrupt(x) PROVE UNCHANGED cut
  BY <1>6 DEF Interrupt, IntRead, IntAppend, IntRequest, IntRuntime, IntComplete, IntOnly
<1>7. ASSUME NEW b \in Branches, Branch(b) PROVE UNCHANGED cut
  BY <1>7, BranchEffects
<1> QED BY <1>1, <1>2, <1>3, <1>4, <1>5, <1>6, <1>7 DEF Next

LEMMA ReadyKept ==
    ASSUME Typed, Ordered, Effects, overtaken = {}, NEW r, Ready(r)
    PROVE  Ready(r)'
<1>1. ~ Open(r.of)'
  BY DEF Ready, Effects, Onward
<1>2. ASSUME NEW i \in DOMAIN data'[Source], data'[Source][i].of = r.of
      PROVE  data'[Source][i] \in r.rows
  <2>1. CASE \E k \in DOMAIN data[Source] : data'[Source][i] = data[Source][k]
    BY <1>2, <2>1 DEF Ready
  <2>2. ASSUME NEW e \in Entries, Appends(Source, e), data'[Source][i] = e PROVE FALSE
    <3>1. e.of = r.of
      BY <1>2, <2>2
    <3>2. turn[r.of].at \notin Over
      BY <2>2, <3>1 DEF Appends, Ready
    <3> QED BY <3>2 DEF Ready, Open
  <2> QED BY <2>1, <2>2, RowOrigin DEF Effects, Sessions
<1> QED BY <1>1, <1>2 DEF Ready

LEMMA StepUnbroken ==
    ASSUME Typed, Typed', Marks, Ordered, Unbroken, [Next]_vars
    PROVE  Unbroken'
<1>1. CASE UNCHANGED vars
  BY <1>1 DEF vars, Unbroken, Follow, Together, LastAsked, Cutting, Plans, Ready, Past, Open
<1>2. CASE Next
  <2> SUFFICES ASSUME overtaken' = {} PROVE Follow' /\ Together' /\ LastAsked' /\ Cutting'
    BY DEF Unbroken
  <2>1. Effects
    BY <1>2, StepEffects DEF Ordered
  <2>2. overtaken = {} /\ Follow /\ Together /\ LastAsked /\ Cutting
    BY <2>1 DEF Effects, Onward, Unbroken
  <2>3. ASSUME NEW r \in Plans' PROVE Ready(r)'
    BY <1>2, <2>1, <2>2, <2>3, NewPlans, ReadyKept
  <2>4. Cutting'
    BY <2>3 DEF Cutting
  <2> QED BY <2>1, <2>2, <2>4, FollowKept, TogetherKept, LastAskedKept
<1> QED BY <1>1, <1>2

(* deleteSessionTurn takes whole turns: what is left of the history has a    *)
(* question before every answer, however the deletions, the branches and the *)
(* turns interleave, unless a turn has taken another's entry in activeTurns. *)
THEOREM TurnsStayWhole == Spec => []WholeTurns
<1>1. ASSUME Typed, Ordered, Unbroken PROVE WholeTurns
  <2> SUFFICES ASSUME NEW s \in Sessions, NEW i \in DOMAIN data[s],
                      data[s][i].kind \in {"answer", "failure", "again"}, overtaken = {}
               PROVE  \E j \in 1..(i - 1) : data[s][j] = Entry(data[s][i].of, "user")
    BY DEF WholeTurns
  <2>1. data[s][i].of \in Turns
    BY <1>1 DEF Ordered, Written, TurnKinds
  <2>2. PICK j \in DOMAIN data[s] : j <= i /\ data[s][j] = Entry(data[s][i].of, "user")
    BY <1>1, <2>1 DEF Unbroken, Follow
  <2>3. j # i
    BY <2>2 DEF Entry
  <2>4. data[s] \in Seq(Entries)
    BY <1>1 DEF Typed, Types
  <2>5. j \in 1..(i - 1)
    BY <2>2, <2>3, <2>4
  <2> QED BY <2>2, <2>5
<1>2. Spec => []Unbroken
  BY AlwaysTyped, AlwaysMarks, AlwaysOrdered, InitUnbroken, StepUnbroken, PTL DEF Spec
<1> QED BY <1>1, <1>2, AlwaysTyped, AlwaysOrdered, PTL
=============================================================================
