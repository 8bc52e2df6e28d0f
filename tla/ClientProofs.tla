---------------------------- MODULE ClientProofs ----------------------------
(***************************************************************************)
(* The invariants of the registry for any set of item ids, and what the    *)
(* editing dialogs and the requests of a page owe, for any constants.      *)
(***************************************************************************)
EXTENDS ClientParts, RequestQueueProofs

(* Types, no repeats, and what makes them inductive: a fresh id is not      *)
(* queued.                                                                  *)
Sound ==
    /\ TypeOK
    /\ NoRepeats
    /\ \A id \in fresh : ~ Queued(queue, id)

(* At whatever position an item goes in, nothing else comes or changes.     *)
Inserted(q, id) ==
    {Insert(q, id), InsertFront(q, id)}
    \cup {InsertBefore(q, id, a) : a \in Ids} \cup {InsertAfter(q, id, a) : a \in Ids}

(* What the four insertions have in common.                                 *)
LEMMA InsertedFacts ==
    ASSUME NEW q \in QueueOf(Ids), Distinct(q), NEW id \in Ids, ~ Queued(q, id),
           NEW p \in Inserted(q, id)
    PROVE  /\ p \in QueueOf(Ids) /\ Distinct(p)
           /\ \A x : Queued(p, x) => Queued(q, x) \/ x = id
           /\ p.claimed = q.claimed /\ p.blank = q.blank
<1>1. CASE p = Insert(q, id)
  BY <1>1, InsertFacts
<1>2. CASE p = InsertFront(q, id)
  BY <1>2, InsertFrontFacts
<1>3. ASSUME NEW a \in Ids, p = InsertBefore(q, id, a) \/ p = InsertAfter(q, id, a)
      PROVE  /\ p \in QueueOf(Ids) /\ Distinct(p)
             /\ \A x : Queued(p, x) => Queued(q, x) \/ x = id
             /\ p.claimed = q.claimed /\ p.blank = q.blank
  <2>1. PICK offset \in {0, 1} : p = InsertNextTo(q, id, a, offset)
    BY <1>3 DEF InsertBefore, InsertAfter
  <2> QED BY <2>1, InsertNextToFacts
<1> QED BY <1>1, <1>2, <1>3 DEF Inserted

(* No operation adds to the blank items but an edit of an unclaimed item.    *)
LEMMA BlankFacts ==
    ASSUME NEW q \in QueueOf(Ids), Distinct(q), NEW id \in Ids, NEW blank
    PROVE  /\ DropBlankHead(q).blank \subseteq q.blank
           /\ Claim(q, id).blank \subseteq q.blank
           /\ Release(q, id).blank = q.blank
           /\ Delete(q, id).blank \subseteq q.blank
           /\ Delete(q, id).claimed \subseteq q.claimed
           /\ Update(q, id, blank).blank \cap q.claimed \subseteq q.blank
<1>1. DropBlankHead(q).blank \subseteq q.blank
  BY DEF DropBlankHead
<1>2. Claim(q, id).blank \subseteq q.blank
  <2>1. DropBlankHead(q) \in QueueOf(Ids)
    BY DropFacts
  <2>2. Claim(q, id).blank = DropBlankHead(q).blank
    BY <2>1, Zenon DEF Claim, DropBlankHead
  <2> QED BY <1>1, <2>2
<1>3. Release(q, id).blank = q.blank
  BY DEF Release, QueueOf
<1>4. CASE ~ Queued(q, id)
  BY <1>1, <1>2, <1>3, <1>4 DEF Delete, Update
<1>5. CASE Queued(q, id)
  <2>1. Delete(q, id).blank = q.blank \ {id} /\ Delete(q, id).claimed = q.claimed \ {id}
    BY <1>5, Zenon DEF Delete
  <2>2. CASE id \in q.claimed
    BY <1>1, <1>2, <1>3, <2>1, <2>2 DEF Update
  <2>3. CASE id \notin q.claimed
    <3>1. PICK b : b = IF blank THEN q.blank \cup {id} ELSE q.blank \ {id}
      OBVIOUS
    <3>2. Update(q, id, blank) = [q EXCEPT !.blank = b]
      BY <1>5, <2>3, <3>1, Zenon DEF Update
    <3>3. Update(q, id, blank).blank = b
      BY <3>2, WithBlank
    <3> QED BY <1>1, <1>2, <1>3, <2>1, <2>3, <3>1, <3>3
  <2> QED BY <2>2, <2>3
<1> QED BY <1>4, <1>5

-----------------------------------------------------------------------------
(* One pass over the calls, for the types and the two invariants at once.    *)
LEMMA StepKeeps ==
    ASSUME Sound, ClaimedNotBlank, [Next]_vars
    PROVE  Sound' /\ ClaimedNotBlank'
<1> USE DEF Sound, TypeOK, NoRepeats, ClaimedNotBlank
<1>1. ASSUME NEW id \in Ids, NEW blank \in BOOLEAN, Add(id, blank)
      PROVE  Sound' /\ ClaimedNotBlank'
  <2>1. PICK p \in Inserted(queue, id) : queue' = Update(p, id, blank)
    BY <1>1 DEF Add, Inserted
  <2>2. id \in fresh /\ fresh' = fresh \ {id} /\ ~ Queued(queue, id)
    BY <1>1 DEF Add
  <2>3. /\ p \in QueueOf(Ids) /\ Distinct(p)
        /\ \A x : Queued(p, x) => Queued(queue, x) \/ x = id
        /\ p.claimed = queue.claimed /\ p.blank = queue.blank
    BY <2>1, <2>2, InsertedFacts
  <2>4. /\ queue' \in QueueOf(Ids) /\ Distinct(queue')
        /\ \A x : Queued(queue', x) => Queued(p, x)
        /\ queue'.claimed = p.claimed
    BY <2>1, <2>3, UpdateFacts
  <2>5. queue'.blank \cap p.claimed \subseteq p.blank
    BY <2>1, <2>3, BlankFacts
  <2>6. Sound'
    BY <2>2, <2>3, <2>4
  <2> QED BY <2>3, <2>4, <2>5, <2>6
<1>2. ASSUME NEW id \in Ids, NEW blank \in BOOLEAN, Edit(id, blank)
      PROVE  Sound' /\ ClaimedNotBlank'
  <2>1. queue' = Update(queue, id, blank) /\ fresh' = fresh
    BY <1>2 DEF Edit
  <2>2. Sound' /\ queue'.claimed = queue.claimed
    BY <2>1, UpdateFacts
  <2>3. queue'.blank \cap queue.claimed \subseteq queue.blank
    BY <2>1, BlankFacts
  <2> QED BY <2>2, <2>3
<1>3. ASSUME NEW id \in Ids, Remove(id) PROVE Sound' /\ ClaimedNotBlank'
  <2>1. queue' = Delete(queue, id) /\ fresh' = fresh
    BY <1>3 DEF Remove
  <2>2. Sound'
    BY <2>1, DeleteFacts
  <2>3. queue'.blank \subseteq queue.blank /\ queue'.claimed \subseteq queue.claimed
    BY <2>1, BlankFacts
  <2> QED BY <2>2, <2>3
<1>4. ASSUME NEW id \in Ids, ReleaseClaim(id) PROVE Sound' /\ ClaimedNotBlank'
  <2>1. queue' = Release(queue, id) /\ fresh' = fresh
    BY <1>4 DEF ReleaseClaim
  <2>2. Sound' /\ queue'.claimed = queue.claimed \ {id}
    BY <2>1, ReleaseFacts
  <2>3. queue'.blank = queue.blank
    BY <2>1, BlankFacts
  <2> QED BY <2>2, <2>3
<1>5. CASE ClaimNextRunnable
  <2>1. fresh' = fresh
    BY <1>5 DEF ClaimNextRunnable
  <2>2. CASE queue' = DropBlankHead(queue)
    <3>1. Sound' /\ queue'.claimed = queue.claimed
      BY <2>1, <2>2, DropFacts
    <3>2. queue'.blank \subseteq queue.blank
      BY <2>2 DEF DropBlankHead
    <3> QED BY <3>1, <3>2
  <2>3. ASSUME NEW id \in NextRunnable(queue), queue' = Claim(queue, id)
        PROVE  Sound' /\ ClaimedNotBlank'
    <3>1. Sound' /\ queue'.claimed = queue.claimed \cup {id} /\ id \in Ids
      BY <2>1, <2>3, ClaimFacts
    <3>2. id \notin queue.blank
      BY DEF NextRunnable, RunnableAt
    <3>3. queue'.blank \subseteq queue.blank
      BY <2>3, <3>1, BlankFacts
    <3> QED BY <3>1, <3>2, <3>3
  <2> QED BY <1>5, <2>2, <2>3 DEF ClaimNextRunnable
<1>6. CASE Clear
  BY <1>6 DEF Clear, EmptyQueue, QueueOf, Distinct, Queued
<1>7. CASE UNCHANGED vars
  BY <1>7 DEF vars
<1> QED BY <1>1, <1>2, <1>3, <1>4, <1>5, <1>6, <1>7 DEF Next

(* The registry starts with no queue at all.                                *)
LEMMA InitKeeps == Init => Sound /\ ClaimedNotBlank
BY DEF Init, Sound, TypeOK, NoRepeats, ClaimedNotBlank, EmptyQueue, QueueOf, Distinct, Queued

(* An item is in the queue once, whatever inserts, edits, claims, releases   *)
(* and deletes came before.                                                  *)
THEOREM ItemsOnce == Spec => []NoRepeats
<1>1. Spec => [](Sound /\ ClaimedNotBlank)
  BY InitKeeps, StepKeeps, PTL DEF Spec
<1>2. Sound => NoRepeats
  BY DEF Sound
<1> QED BY <1>1, <1>2, PTL

(* A request that is claimed has content until its claim is given up.        *)
THEOREM ClaimsHaveContent == Spec => []ClaimedNotBlank
BY InitKeeps, StepKeeps, PTL DEF Spec

-----------------------------------------------------------------------------
(* The order of the items                                                   *)

Once(s) == \A i, j \in 1..Len(s) : s[i] = s[j] => i = j

(* Two items that are in both sequences stand in the same order in both.    *)
SameOrder(s, t) ==
    \A i, j \in 1..Len(s), m, n \in 1..Len(t) :
        i < j /\ s[i] = t[m] /\ s[j] = t[n] => m < n

(* The places before k move by lo, the others by hi.                        *)
Shift(i, k, lo, hi) == IF i < k THEN i + lo ELSE i + hi

LEMMA DistinctIsOnce ==
    ASSUME NEW q \in QueueOf(Ids)
    PROVE  Distinct(q) <=> Once(q.items)
<1>1. q.items \in Seq(Ids)
  BY Fields
<1> QED BY <1>1 DEF Distinct, Once

(* Items moved together, and no farther ahead than those behind them, keep   *)
(* their order.                                                             *)
LEMMA MovedInOrder ==
    ASSUME NEW s \in Seq(Ids), NEW t \in Seq(Ids), Once(t),
           NEW lo \in Int, NEW hi \in Int, lo <= hi, NEW k \in Int,
           \A i \in 1..Len(s) : /\ Shift(i, k, lo, hi) \in 1..Len(t)
                                /\ t[Shift(i, k, lo, hi)] = s[i]
    PROVE  SameOrder(s, t)
<1>1. ASSUME NEW i \in 1..Len(s), NEW m \in 1..Len(t), s[i] = t[m]
      PROVE  m = Shift(i, k, lo, hi)
  BY <1>1 DEF Once
<1>2. ASSUME NEW i \in 1..Len(s), NEW j \in 1..Len(s), i < j
      PROVE  Shift(i, k, lo, hi) < Shift(j, k, lo, hi)
  BY ONLY <1>2, i \in Int, j \in Int, lo \in Int, hi \in Int, lo <= hi, k \in Int DEF Shift
<1> QED BY <1>1, <1>2 DEF SameOrder

LEMMA OrderBothWays ==
    ASSUME NEW s \in Seq(Ids), NEW t \in Seq(Ids), Once(s), SameOrder(t, s)
    PROVE  SameOrder(s, t)
<1> SUFFICES ASSUME NEW i \in 1..Len(s), NEW j \in 1..Len(s),
                    NEW m \in 1..Len(t), NEW n \in 1..Len(t),
                    i < j, s[i] = t[m], s[j] = t[n]
             PROVE  m < n
  BY DEF SameOrder
<1>1. n < m => j < i
  BY DEF SameOrder
<1>2. m # n
  <2>1. m = n => i = j
    BY DEF Once
  <2> QED BY <2>1
<1> QED BY <1>1, <1>2

LEMMA SameItemsSameOrder ==
    ASSUME NEW s \in Seq(Ids), Once(s)
    PROVE  SameOrder(s, s)
BY DEF SameOrder, Once

(* One item put in.                                                         *)
LEMMA SpliceInOrder ==
    ASSUME NEW s \in Seq(Ids), NEW id \in Ids, NEW k \in 1..(Len(s) + 1),
           NEW t, t = Spliced(s, id, k), Once(t)
    PROVE  SameOrder(s, t)
<1>1. t \in Seq(Ids) /\ Len(t) = Len(s) + 1
  BY Splice
<1>2. \A j \in 1..(k - 1) : t[j] = s[j]
  BY Splice
<1>3. ASSUME NEW j \in (k + 1)..(Len(s) + 1) PROVE t[j] = s[j - 1]
  BY ONLY <1>3, t = Spliced(s, id, k), s \in Seq(Ids), id \in Ids,
          k \in 1..(Len(s) + 1), j \in (k + 1)..(Len(s) + 1), SplicedAfter
<1>4. Len(s) \in Nat /\ k \in Int
  OBVIOUS
<1>5. ASSUME NEW i \in 1..Len(s)
      PROVE  Shift(i, k, 0, 1) \in 1..Len(t) /\ t[Shift(i, k, 0, 1)] = s[i]
  <2>1. CASE i < k
    <3>1. Shift(i, k, 0, 1) = i /\ i \in 1..(k - 1) /\ i \in 1..(Len(s) + 1)
      BY ONLY <1>4, <2>1, i \in 1..Len(s) DEF Shift
    <3> QED BY <1>1, <1>2, <3>1
  <2>2. CASE i >= k
    <3>1. /\ Shift(i, k, 0, 1) = i + 1 /\ i + 1 \in (k + 1)..(Len(s) + 1)
          /\ i + 1 \in 1..(Len(s) + 1) /\ (i + 1) - 1 = i
      BY ONLY <1>4, <2>2, k \in 1..(Len(s) + 1), i \in 1..Len(s) DEF Shift
    <3>2. t[i + 1] = s[(i + 1) - 1]
      BY <1>3, <3>1
    <3> QED BY <1>1, <3>1, <3>2
  <2> QED BY <1>4, <2>1, <2>2
<1>6. 0 \in Int /\ 1 \in Int /\ 0 <= 1
  OBVIOUS
<1> QED BY ONLY <1>1, <1>4, <1>5, <1>6, s \in Seq(Ids), Once(t), MovedInOrder, ZenonT(30)

(* One item appended.                                                       *)
LEMMA AppendInOrder ==
    ASSUME NEW s \in Seq(Ids), NEW id \in Ids, Once(Append(s, id))
    PROVE  SameOrder(s, Append(s, id))
<1> PICK t : t = Append(s, id)
  OBVIOUS
<1>1. t \in Seq(Ids) /\ \A i \in 1..Len(s) : i \in 1..Len(t) /\ t[i] = s[i]
  BY t = Append(s, id)
<1>2. ASSUME NEW i \in 1..Len(s)
      PROVE  Shift(i, 0, 0, 0) \in 1..Len(t) /\ t[Shift(i, 0, 0, 0)] = s[i]
  <2>1. Shift(i, 0, 0, 0) = i
    BY DEF Shift
  <2> QED BY <1>1, <2>1
<1>3. 0 \in Int /\ 0 <= 0
  OBVIOUS
<1>4. Once(t)
  BY t = Append(s, id)
<1>5. SameOrder(s, t)
  BY ONLY <1>1, <1>2, <1>3, <1>4, s \in Seq(Ids), MovedInOrder
<1> QED BY <1>5, t = Append(s, id)

(* One item taken out.                                                      *)
LEMMA CutInOrder ==
    ASSUME NEW s \in Seq(Ids), Once(s), NEW k \in 1..Len(s), NEW t, t = Without(s, k)
    PROVE  SameOrder(s, t)
<1>1. t \in Seq(Ids) /\ Len(t) = Len(s) - 1
  BY Cut
<1>2. k \in Int /\ 0 \in Int /\ 1 \in Int /\ 0 <= 1
  OBVIOUS
<1>3. ASSUME NEW j \in 1..Len(t)
      PROVE  Shift(j, k, 0, 1) \in 1..Len(s) /\ s[Shift(j, k, 0, 1)] = t[j]
  <2>1. j \in 1..(Len(s) - 1) /\ j \in Int
    BY <1>1
  <2>2. \/ j < k /\ j \in 1..Len(s) /\ t[j] = s[j]
        \/ j >= k /\ j + 1 \in 1..Len(s) /\ t[j] = s[j + 1]
    BY ONLY <2>1, s \in Seq(Ids), k \in 1..Len(s), t = Without(s, k), CutFrom
  <2>3. /\ j < k => Shift(j, k, 0, 1) = j
        /\ j >= k => Shift(j, k, 0, 1) = j + 1
    BY ONLY <1>2, <2>1 DEF Shift
  <2> QED BY <2>2, <2>3
<1>4. SameOrder(t, s)
  BY ONLY <1>1, <1>2, <1>3, s \in Seq(Ids), Once(s), MovedInOrder, ZenonT(30)
<1> QED BY <1>1, <1>4, OrderBothWays

(* A head dropped.                                                          *)
LEMMA DropInOrder ==
    ASSUME NEW s \in Seq(Ids), Once(s), NEW n \in 0..Len(s),
           NEW t, t = SubSeq(s, n + 1, Len(s))
    PROVE  /\ t \in Seq(Ids) /\ Len(t) = Len(s) - n
           /\ \A j \in 1..(Len(s) - n) : t[j] = s[j + n]
           /\ SameOrder(s, t)
<1>1. n + 1 \in 1..(Len(s) + 1) /\ Len(s) \in Nat /\ n \in Int
  OBVIOUS
<1>2. t \in Seq(Ids) /\ Len(t) = Len(s) - (n + 1) + 1
  BY ONLY <1>1, s \in Seq(Ids), t = SubSeq(s, n + 1, Len(s)), Slices
<1>3. \A j \in 1..(Len(s) - (n + 1) + 1) : t[j] = s[j + (n + 1) - 1]
  BY ONLY <1>1, s \in Seq(Ids), t = SubSeq(s, n + 1, Len(s)), Slices
<1>4. Len(t) = Len(s) - n
  BY <1>1, <1>2
<1>5. ASSUME NEW j \in 1..(Len(s) - n) PROVE t[j] = s[j + n]
  <2>1. j \in 1..(Len(s) - (n + 1) + 1) /\ j + (n + 1) - 1 = j + n
    BY <1>1
  <2> QED BY <1>3, <2>1
<1>6. ASSUME NEW j \in 1..Len(t)
      PROVE  Shift(j, 0, n, n) \in 1..Len(s) /\ s[Shift(j, 0, n, n)] = t[j]
  <2>1. j \in 1..(Len(s) - n) /\ Shift(j, 0, n, n) = j + n /\ j + n \in 1..Len(s)
    BY ONLY <1>1, <1>4, n \in 0..Len(s), j \in 1..Len(t) DEF Shift
  <2> QED BY <1>5, <2>1
<1>7. 0 \in Int /\ n \in Int /\ n <= n
  BY <1>1
<1>8. SameOrder(t, s)
  BY ONLY <1>2, <1>6, <1>7, s \in Seq(Ids), Once(s), MovedInOrder
<1>9. SameOrder(s, t)
  BY <1>2, <1>8, OrderBothWays
<1> QED BY <1>2, <1>4, <1>5, <1>9

(* The order, call by call. *)
LEMMA InsertNextToInOrder ==
    ASSUME NEW q \in QueueOf(Ids), Distinct(q), NEW id \in Ids, ~ Queued(q, id),
           NEW k \in 1..(Len(q.items) + 1)
    PROVE  SameOrder(q.items, InsertAt(q, id, k).items)
<1>1. PICK s, t : s = q.items /\ t = Spliced(s, id, k)
  OBVIOUS
<1>2. InsertAt(q, id, k) = [items |-> t, claimed |-> q.claimed, blank |-> q.blank]
  BY <1>1, WithItems, Zenon DEF InsertAt, Spliced
<1>3. InsertAt(q, id, k).items = t
  BY ONLY <1>2
<1>4. InsertAt(q, id, k) \in QueueOf(Ids) /\ Distinct(InsertAt(q, id, k))
  BY InsertAtFacts
<1>5. Once(t)
  BY ONLY <1>3, <1>4, DistinctIsOnce
<1>6. s \in Seq(Ids) /\ k \in 1..(Len(s) + 1)
  BY <1>1, Fields
<1>7. SameOrder(s, t)
  BY ONLY <1>1, <1>5, <1>6, id \in Ids, SpliceInOrder
<1> QED BY ONLY <1>1, <1>3, <1>7

LEMMA InsertInOrder ==
    ASSUME NEW q \in QueueOf(Ids), Distinct(q), NEW id \in Ids, ~ Queued(q, id)
    PROVE  /\ SameOrder(q.items, Insert(q, id).items)
           /\ SameOrder(q.items, InsertFront(q, id).items)
<1>1. q.items \in Seq(Ids)
  BY Fields
<1>2. SameOrder(q.items, Insert(q, id).items)
  <2>1. Insert(q, id).items = Append(q.items, id)
    BY WithItems, Zenon DEF Insert
  <2>2. Once(Append(q.items, id))
    BY <2>1, InsertFacts, DistinctIsOnce
  <2> QED BY ONLY <1>1, <2>1, <2>2, id \in Ids, AppendInOrder
<1>3. SameOrder(q.items, InsertFront(q, id).items)
  <2>1. PICK t : t = <<id>> \o q.items
    OBVIOUS
  <2>2. InsertFront(q, id).items = t
    BY <2>1, WithItems, Zenon DEF InsertFront
  <2>3. SubSeq(q.items, 1, 0) = << >> /\ SubSeq(q.items, 1, Len(q.items)) = q.items
    BY <1>1
  <2>4. << >> \o <<id>> = <<id>> /\ 1 - 1 = 0
    OBVIOUS
  <2>5. Spliced(q.items, id, 1) = <<id>> \o q.items
    BY ONLY <2>3, <2>4, Zenon DEF Spliced
  <2>6. 1 \in 1..(Len(q.items) + 1)
    BY <1>1
  <2>7. Once(t)
    BY <2>2, InsertFrontFacts, DistinctIsOnce
  <2>8. SameOrder(q.items, t)
    BY ONLY <1>1, <2>1, <2>5, <2>6, <2>7, id \in Ids, SpliceInOrder
  <2> QED BY <2>2, <2>8
<1> QED BY <1>2, <1>3

LEMMA InsertedInOrder ==
    ASSUME NEW q \in QueueOf(Ids), Distinct(q), NEW id \in Ids, ~ Queued(q, id),
           NEW p \in Inserted(q, id)
    PROVE  SameOrder(q.items, p.items)
<1>1. CASE p = Insert(q, id) \/ p = InsertFront(q, id)
  BY <1>1, InsertInOrder
<1>2. ASSUME NEW a \in Ids, p = InsertBefore(q, id, a) \/ p = InsertAfter(q, id, a)
      PROVE  SameOrder(q.items, p.items)
  <2>1. PICK offset \in {0, 1} : p = InsertNextTo(q, id, a, offset)
    BY <1>2 DEF InsertBefore, InsertAfter
  <2>2. CASE ~ Queued(q, a)
    <3>1. p = Insert(q, id)
      BY <2>1, <2>2 DEF InsertNextTo
    <3> QED BY <3>1, InsertInOrder
  <2>3. CASE Queued(q, a)
    <3>1. PICK n : n = CHOOSE k \in DOMAIN q.items : q.items[k] = a
      OBVIOUS
    <3>2. n \in DOMAIN q.items
      BY <2>3, <3>1 DEF Queued
    <3>3. q.items \in Seq(Ids)
      BY Fields
    <3>4. PICK k : k = offset + n
      OBVIOUS
    <3>5. k \in 1..(Len(q.items) + 1)
      BY <3>2, <3>3, <3>4
    <3>6. p = InsertAt(q, id, k)
      BY <2>1, <2>3, <3>1, <3>4, Zenon DEF InsertNextTo
    <3> QED BY <3>5, <3>6, InsertNextToInOrder
  <2> QED BY <2>2, <2>3
<1> QED BY <1>1, <1>2 DEF Inserted

(* An edit and a release leave the items where they are.                    *)
LEMMA ItemsUnmoved ==
    ASSUME NEW q \in QueueOf(Ids), Distinct(q), NEW id \in Ids, NEW blank
    PROVE  Update(q, id, blank).items = q.items /\ Release(q, id).items = q.items
<1>1. Release(q, id).items = q.items
  BY WithClaimed, Zenon DEF Release
<1>2. CASE ~ Queued(q, id) \/ id \in q.claimed
  BY <1>1, <1>2 DEF Update
<1>3. CASE ~ (~ Queued(q, id) \/ id \in q.claimed)
  <2>1. PICK b : b = IF blank THEN q.blank \cup {id} ELSE q.blank \ {id}
    OBVIOUS
  <2>2. Update(q, id, blank) = [items |-> q.items, claimed |-> q.claimed, blank |-> b]
    BY <1>3, <2>1, WithBlank, Zenon DEF Update
  <2>3. Update(q, id, blank).items = q.items
    BY ONLY <2>2
  <2> QED BY <1>1, <2>3
<1> QED BY <1>2, <1>3

LEMMA DeleteInOrder ==
    ASSUME NEW q \in QueueOf(Ids), Distinct(q), NEW id \in Ids
    PROVE  SameOrder(q.items, Delete(q, id).items)
<1>1. q.items \in Seq(Ids) /\ Once(q.items)
  BY Fields, DistinctIsOnce
<1>2. CASE ~ Queued(q, id)
  BY <1>1, <1>2, SameItemsSameOrder DEF Delete
<1>3. CASE Queued(q, id)
  <2>1. PICK s : s = q.items
    OBVIOUS
  <2>2. PICK k : k = CHOOSE n \in DOMAIN s : s[n] = id
    OBVIOUS
  <2>3. k \in 1..Len(s)
    BY <1>1, <1>3, <2>1, <2>2 DEF Queued
  <2>4. Delete(q, id) = [items |-> Without(s, k), claimed |-> q.claimed \ {id},
                         blank |-> q.blank \ {id}]
    BY <1>3, <2>1, <2>2, Zenon DEF Delete, Without
  <2>5. Delete(q, id).items = Without(s, k)
    BY ONLY <2>4
  <2>6. SameOrder(s, Without(s, k))
    BY ONLY <1>1, <2>1, <2>3, CutInOrder
  <2> QED BY <2>1, <2>5, <2>6
<1> QED BY <1>2, <1>3

(* claimNextRunnable(): the head goes, and with it blank items only.        *)
LEMMA DropKeeps ==
    ASSUME NEW q \in QueueOf(Ids), Distinct(q), NEW id
    PROVE  /\ SameOrder(q.items, DropBlankHead(q).items)
           /\ Claim(q, id).items = DropBlankHead(q).items
           /\ \A x : Queued(q, x) /\ x \notin q.blank => Queued(DropBlankHead(q), x)
<1>1. PICK s, n : s = q.items /\ n = Cardinality(BlankHead(q))
  OBVIOUS
<1>2. s \in Seq(Ids) /\ Once(s) /\ n \in 0..Len(s) /\ Len(s) \in Nat
  BY <1>1, Fields, DistinctIsOnce, BlankHeadSize
<1>3. PICK t : t = SubSeq(s, n + 1, Len(s))
  OBVIOUS
<1>4. DropBlankHead(q).items = t
  BY <1>1, <1>3, Zenon DEF DropBlankHead
<1>5. /\ t \in Seq(Ids) /\ Len(t) = Len(s) - n
      /\ \A j \in 1..(Len(s) - n) : t[j] = s[j + n]
      /\ SameOrder(s, t)
  BY ONLY <1>2, <1>3, DropInOrder
<1>6. Claim(q, id).items = DropBlankHead(q).items
  <2>1. DropBlankHead(q) \in QueueOf(Ids)
    BY DropFacts
  <2> QED BY <2>1, WithClaimed, Zenon DEF Claim
<1>7. ASSUME NEW x, Queued(q, x), x \notin q.blank PROVE Queued(DropBlankHead(q), x)
  <2>1. PICK k \in 1..Len(s) : s[k] = x
    BY <1>1, <1>2, <1>7 DEF Queued
  <2>2. BlankHead(q) \subseteq 1..(k - 1)
    <3> SUFFICES ASSUME NEW j \in BlankHead(q), j >= k PROVE FALSE
      BY <1>1, <1>2 DEF BlankHead
    <3>1. j \in Int /\ k \in 1..j
      BY <1>1, <1>2 DEF BlankHead
    <3>2. q.items[k] \in q.blank
      BY <3>1 DEF BlankHead
    <3> QED BY <1>1, <1>7, <2>1, <3>2
  <2>3. k - 1 \in Nat
    BY <1>2
  <2>4. IsFiniteSet(1..(k - 1)) /\ Cardinality(1..(k - 1)) = k - 1
    BY <2>3, FS_Interval
  <2>5. n <= k - 1
    BY <1>1, <2>2, <2>4, FS_Subset
  <2>6. k - n \in 1..(Len(s) - n) /\ (k - n) + n = k
    BY ONLY <1>2, <2>5, k \in 1..Len(s)
  <2>7. t[k - n] = x
    BY <1>5, <2>1, <2>6
  <2>8. k - n \in DOMAIN t
    BY ONLY <1>5, <2>6
  <2> QED BY <1>4, <2>7, <2>8 DEF Queued
<1> QED BY <1>1, <1>4, <1>5, <1>6, <1>7

(* Where an item stands.                                                    *)
LEMMA AtIs ==
    ASSUME NEW q \in QueueOf(Ids), NEW x, Queued(q, x)
    PROVE  At(q, x) \in 1..Len(q.items) /\ q.items[At(q, x)] = x
<1>1. q.items \in Seq(Ids)
  BY Fields
<1> QED BY <1>1 DEF At, Queued

(* One step of each of the three action properties. *)
OrderStep ==
    \A a, b \in Ids :
        /\ Queued(queue, a) /\ Queued(queue, b)
        /\ Queued(queue', a) /\ Queued(queue', b)
        /\ At(queue, a) < At(queue, b)
        => At(queue', a) < At(queue', b)

FirstStep ==
    \A id \in queue'.claimed \ queue.claimed, a \in Ids :
        Queued(queue, a) /\ At(queue, a) < At(queue, id)
            => a \in queue.claimed \cup queue.blank

LossStep ==
    ClaimNextRunnable =>
        \A id \in Ids : Queued(queue, id) /\ id \notin queue.blank => Queued(queue', id)

LEMMA OrderOfItems ==
    ASSUME Sound, Sound', SameOrder(queue.items, queue'.items)
    PROVE  OrderStep
<1> SUFFICES ASSUME NEW a \in Ids, NEW b \in Ids,
                    Queued(queue, a), Queued(queue, b), Queued(queue', a), Queued(queue', b),
                    At(queue, a) < At(queue, b)
             PROVE  At(queue', a) < At(queue', b)
  BY DEF OrderStep
<1>1. queue \in QueueOf(Ids) /\ queue' \in QueueOf(Ids)
  BY DEF Sound, TypeOK
<1>2. /\ At(queue, a) \in 1..Len(queue.items) /\ queue.items[At(queue, a)] = a
      /\ At(queue, b) \in 1..Len(queue.items) /\ queue.items[At(queue, b)] = b
  BY <1>1, AtIs
<1>3. /\ At(queue', a) \in 1..Len(queue'.items) /\ queue'.items[At(queue', a)] = a
      /\ At(queue', b) \in 1..Len(queue'.items) /\ queue'.items[At(queue', b)] = b
  BY <1>1, AtIs
<1> QED BY <1>2, <1>3 DEF SameOrder

(* Everything before the item that is claimed is claimed or blank.          *)
LEMMA ClaimIsFirst ==
    ASSUME NEW q \in QueueOf(Ids), Distinct(q), NEW id \in NextRunnable(q),
           NEW a, Queued(q, a), At(q, a) < At(q, id)
    PROVE  a \in q.claimed \cup q.blank
<1>1. PICK k \in RunnableAt(q) : id = q.items[k] /\ \A j \in RunnableAt(q) : k <= j
  BY DEF NextRunnable
<1>2. k \in 1..Len(q.items) /\ q.items \in Seq(Ids)
  BY Fields DEF RunnableAt
<1>3. Queued(q, id)
  BY <1>1, <1>2 DEF Queued
<1>4. At(q, id) = k
  BY <1>1, <1>2, <1>3, AtIs DEF Distinct
<1>5. At(q, a) \in 1..Len(q.items) /\ q.items[At(q, a)] = a
  BY AtIs
<1>6. At(q, a) \notin RunnableAt(q)
  BY <1>1, <1>2, <1>4, <1>5
<1> QED BY <1>2, <1>5, <1>6 DEF RunnableAt

(* Every call keeps the order; only claimNextRunnable() claims.             *)
LEMMA StepInOrder ==
    ASSUME Sound, ClaimedNotBlank, [Next]_vars
    PROVE  OrderStep /\ FirstStep
<1>1. Sound'
  BY StepKeeps
<1>2. queue \in QueueOf(Ids) /\ Distinct(queue) /\ \A id \in fresh : ~ Queued(queue, id)
  BY DEF Sound, TypeOK, NoRepeats
<1>3. queue.items \in Seq(Ids) /\ Once(queue.items)
  BY <1>2, Fields, DistinctIsOnce
<1>4. queue'.claimed \subseteq queue.claimed => FirstStep
  BY DEF FirstStep
<1>5. SameOrder(queue.items, queue'.items) => OrderStep
  BY <1>1, OrderOfItems
<1>6. ASSUME NEW id \in Ids, NEW blank \in BOOLEAN, Add(id, blank)
      PROVE  OrderStep /\ FirstStep
  <2>1. PICK p \in Inserted(queue, id) : queue' = Update(p, id, blank)
    BY <1>6 DEF Add, Inserted
  <2>2. ~ Queued(queue, id)
    BY <1>2, <1>6 DEF Add
  <2>3. p \in QueueOf(Ids) /\ Distinct(p) /\ p.claimed = queue.claimed
    BY <1>2, <2>1, <2>2, InsertedFacts
  <2>4. SameOrder(queue.items, p.items)
    BY <1>2, <2>1, <2>2, InsertedInOrder
  <2>5. queue'.items = p.items
    BY <2>1, <2>3, ItemsUnmoved
  <2>6. queue'.claimed = p.claimed
    BY <2>1, <2>3, UpdateFacts
  <2> QED BY <1>4, <1>5, <2>3, <2>4, <2>5, <2>6
<1>7. ASSUME NEW id \in Ids, NEW blank \in BOOLEAN, Edit(id, blank)
      PROVE  OrderStep /\ FirstStep
  <2>1. queue' = Update(queue, id, blank)
    BY <1>7 DEF Edit
  <2>2. queue'.items = queue.items /\ queue'.claimed = queue.claimed
    BY <1>2, <2>1, ItemsUnmoved, UpdateFacts
  <2> QED BY <1>3, <1>4, <1>5, <2>2, SameItemsSameOrder
<1>8. ASSUME NEW id \in Ids, Remove(id) PROVE OrderStep /\ FirstStep
  <2>1. queue' = Delete(queue, id)
    BY <1>8 DEF Remove
  <2>2. queue'.claimed \subseteq queue.claimed
    BY <1>2, <2>1, BlankFacts
  <2>3. SameOrder(queue.items, queue'.items)
    BY <1>2, <2>1, DeleteInOrder
  <2> QED BY <1>4, <1>5, <2>2, <2>3
<1>9. ASSUME NEW id \in Ids, ReleaseClaim(id) PROVE OrderStep /\ FirstStep
  <2>1. queue' = Release(queue, id)
    BY <1>9 DEF ReleaseClaim
  <2>2. queue'.items = queue.items /\ queue'.claimed = queue.claimed \ {id}
    BY <1>2, <2>1, ItemsUnmoved, ReleaseFacts
  <2> QED BY <1>3, <1>4, <1>5, <2>2, SameItemsSameOrder
<1>10. CASE ClaimNextRunnable
  <2>1. CASE queue' = DropBlankHead(queue)
    <3>1. SameOrder(queue.items, queue'.items)
      BY <1>2, <2>1, DropKeeps
    <3>2. queue'.claimed = queue.claimed
      BY <1>2, <2>1, DropFacts
    <3> QED BY <1>4, <1>5, <3>1, <3>2
  <2>2. ASSUME NEW id \in NextRunnable(queue), queue' = Claim(queue, id)
        PROVE  OrderStep /\ FirstStep
    <3>1. SameOrder(queue.items, queue'.items)
      BY <1>2, <2>2, DropKeeps
    <3>2. queue'.claimed = queue.claimed \cup {id}
      BY <1>2, <2>2, ClaimFacts
    <3>3. FirstStep
      BY <1>2, <3>2, ClaimIsFirst DEF FirstStep
    <3> QED BY <1>5, <3>1, <3>3
  <2> QED BY <1>10, <2>1, <2>2 DEF ClaimNextRunnable
<1>11. CASE Clear
  <2>1. queue'.claimed = {} /\ queue'.items = << >>
    BY <1>11 DEF Clear, EmptyQueue
  <2>2. OrderStep
    BY <2>1 DEF OrderStep, Queued
  <2> QED BY <1>4, <2>1, <2>2
<1>12. CASE UNCHANGED vars
  <2>1. queue' = queue
    BY <1>12 DEF vars
  <2> QED BY <1>3, <1>4, <1>5, <2>1, SameItemsSameOrder
<1> QED BY <1>6, <1>7, <1>8, <1>9, <1>10, <1>11, <1>12 DEF Next

(* Looking for the next request loses none that has content.                *)
LEMMA NothingLost ==
    ASSUME Sound
    PROVE  LossStep
<1> SUFFICES ASSUME ClaimNextRunnable, NEW x \in Ids, Queued(queue, x), x \notin queue.blank
             PROVE  Queued(queue', x)
  BY DEF LossStep
<1>1. queue \in QueueOf(Ids) /\ Distinct(queue)
  BY DEF Sound, TypeOK, NoRepeats
<1>2. Queued(DropBlankHead(queue), x)
  BY <1>1, DropKeeps
<1>3. queue'.items = DropBlankHead(queue).items
  BY <1>1, DropKeeps DEF ClaimNextRunnable
<1> QED BY <1>2, <1>3 DEF Queued

(* Whatever is inserted, edited, claimed, released and deleted: the items    *)
(* that stay keep their order, a claim takes the earliest request that can   *)
(* run, none with content is lost looking for it, and what is claimed keeps  *)
(* its content.                                                             *)
THEOREM QueueStaysInOrder == Spec => QueueKept
<1>1. Spec => [](Sound /\ ClaimedNotBlank)
  BY InitKeeps, StepKeeps, PTL DEF Spec
<1>2. Sound /\ ClaimedNotBlank /\ [Next]_vars => [OrderStep]_vars /\ [FirstStep]_vars /\ [LossStep]_vars
  BY StepInOrder, NothingLost
<1>3. Spec => [][OrderStep]_vars /\ [][FirstStep]_vars /\ [][LossStep]_vars
  BY <1>1, <1>2, PTL DEF Spec
<1>4. Spec => OrderKept
  BY <1>3, Zenon DEF OrderKept, OrderStep
<1>5. Spec => ClaimTakesFirst
  BY <1>3, Zenon DEF ClaimTakesFirst, FirstStep
<1>6. Spec => ClaimLosesNothing
  BY <1>3, Zenon DEF ClaimLosesNothing, LossStep
<1> QED BY <1>4, <1>5, <1>6, ClaimsHaveContent, PTL DEF QueueKept

-----------------------------------------------------------------------------
(***************************************************************************)
(* The editing of the queue.                                               *)
(***************************************************************************)
(* The files an item can hold: a pick and the message that carried it.      *)
FileSets == SUBSET (Picks \X (0 .. MaxSent))

Contents == [text : Nat, files : FileSets]

Lists == UNION {[ids -> Contents] : ids \in SUBSET Nat}

Keeping(m) == IF m.keepAttachmentIds = Absent THEN {} ELSE m.keepAttachmentIds

(* A message that carries content carries what can be kept of it.           *)
Carried(m) == m.type \in {"add", "update"} => m.text \in Nat /\ Q!Written(m) \in FileSets

(* An update on the wire says what its dialog held.                         *)
SaysDraft(m) ==
    m.type = "update" =>
      /\ m.text = m.meant.text
      /\ Q!Written(m) = {<<k, m.n>> : k \in m.meant.picks}
      /\ Keeping(m) = m.meant.keep
      /\ \A a \in m.meant.keep : Q!Takes(m.model, {a})

(* The queue holds items with content; what pages and messages hold of them *)
(* came from there, and nothing that fits was refused.                      *)
EditInv ==
    /\ sent \in 0 .. MaxSent
    /\ body \in Seq(Contents)
    /\ edited \in QueueOf(1 .. Len(body)) /\ Distinct(edited)
    /\ shown \in Seq(Lists) /\ shown # << >>
    /\ \A p \in Pages : editor[p] # << >> => editor[p][2] \in Contents
    /\ \A m \in inside : Carried(m) /\ SaysDraft(m)
    /\ Q!ComposedIsAccepted

LEMMA SameFinite ==
    /\ \A S : Q!IsFiniteSet(S) <=> IsFiniteSet(S)
    /\ \A S : Q!Cardinality(S) = Cardinality(S)
BY Zenon DEF Q!IsFiniteSet, IsFiniteSet, Q!Cardinality, Cardinality

LEMMA SameQueue ==
    /\ \A q, id : Q!Queued(q, id) <=> Queued(q, id)
    /\ \A q : Q!Visible(q) = Visible(q)
    /\ \A q, id : Q!Insert(q, id) = Insert(q, id)
    /\ \A q, id : Q!InsertFront(q, id) = InsertFront(q, id)
    /\ \A q, id, a : Q!InsertBefore(q, id, a) = InsertBefore(q, id, a)
    /\ \A q, id, a : Q!InsertAfter(q, id, a) = InsertAfter(q, id, a)
    /\ \A q, id : Q!Delete(q, id) = Delete(q, id)
    /\ \A q, id : Q!Release(q, id) = Release(q, id)
    /\ \A q : Q!DropBlankHead(q) = DropBlankHead(q)
    /\ \A q : Q!NextRunnable(q) = NextRunnable(q)
    /\ \A q, id : Q!Claim(q, id) = Claim(q, id)
    /\ Q!EmptyQueue = EmptyQueue
<1>1. /\ \A q, id : Q!Queued(q, id) <=> Queued(q, id)
      /\ \A q : Q!Visible(q) = Visible(q)
      /\ \A q, id : Q!Insert(q, id) = Insert(q, id)
      /\ \A q, id : Q!InsertFront(q, id) = InsertFront(q, id)
      /\ \A q, id : Q!Release(q, id) = Release(q, id)
      /\ Q!EmptyQueue = EmptyQueue
  BY DEF Q!Queued, Queued, Q!Visible, Visible, Q!Insert, Insert, Q!InsertFront, InsertFront,
         Q!Release, Release, Q!EmptyQueue, EmptyQueue
<1>2. \A q, id, a, k : Q!InsertNextTo(q, id, a, k) = InsertNextTo(q, id, a, k)
  BY Zenon DEF Q!InsertNextTo, InsertNextTo, Q!InsertAt, InsertAt, Q!Insert, Insert, Q!Queued, Queued
<1>3. /\ \A q, id, a : Q!InsertBefore(q, id, a) = InsertBefore(q, id, a)
      /\ \A q, id, a : Q!InsertAfter(q, id, a) = InsertAfter(q, id, a)
  BY <1>2, Zenon DEF Q!InsertBefore, InsertBefore, Q!InsertAfter, InsertAfter
<1>4. \A q, id : Q!Delete(q, id) = Delete(q, id)
  BY Zenon DEF Q!Delete, Delete, Q!Queued, Queued
<1>5. \A q : Q!DropBlankHead(q) = DropBlankHead(q)
  BY SameFinite, Zenon DEF Q!DropBlankHead, DropBlankHead, Q!BlankHead, BlankHead
<1>6. \A q : Q!NextRunnable(q) = NextRunnable(q)
  BY Zenon DEF Q!NextRunnable, NextRunnable, Q!RunnableAt, RunnableAt
<1>7. \A q, id : Q!Claim(q, id) = Claim(q, id)
  BY <1>5, Zenon DEF Q!Claim, Claim
<1> QED BY <1>1, <1>3, <1>4, <1>5, <1>6, <1>7

(* The optional fields are left out when empty, and only then.              *)
LEMMA FieldFacts ==
    ASSUME Q!QueueEditingAssumption, NEW set \in (SUBSET Picks) \cup FileSets
    PROVE  /\ set # Absent
           /\ (Q!Field(set) = Absent) <=> (set = {})
           /\ set # {} => Q!Field(set) = set
BY DEF Q!QueueEditingAssumption, Q!Field, FileSets

(* The guards take what a page composed of files that fit.                  *)
LEMMA GuardsTake ==
    ASSUME Q!QueueEditingAssumption, NEW picks \in SUBSET Picks, picks # {},
           picks \cap Misfits = {}, Cardinality(picks) <= FileLimit
    PROVE  Q!ValidAttachments(picks)
<1>1. IsFiniteSet(picks)
  BY FS_Subset, SameFinite DEF Q!QueueEditingAssumption
<1>2. Cardinality(picks) \in Nat /\ Cardinality(picks) # 0
  BY <1>1, FS_CardinalityType, FS_EmptySet
<1>3. FileLimit \in Nat
  BY DEF Q!QueueEditingAssumption
<1>4. Cardinality(picks) \in 1 .. FileLimit
  BY <1>2, <1>3
<1> QED BY <1>4, FieldFacts, SameFinite DEF Q!ValidAttachments

LEMMA AddTaken ==
    ASSUME Q!QueueEditingAssumption, NEW n \in 1 .. MaxSent, NEW model, NEW text \in Nat,
           NEW picks \in Q!Attachable(model), text # 0 \/ picks # {},
           NEW m, m = Q!AddMessage(n, text, picks, model)
    PROVE  /\ Carried(m) /\ SaysDraft(m)
           /\ Q!Fits(m) => Q!Accepts(m)
           /\ m.attachments # Absent => Q!Takes(m.model, m.attachments)
<1>1. /\ m.type = "add" /\ m.n = n /\ m.text = text /\ m.model = model
      /\ m.attachments = Q!Field(picks) /\ m.meant.picks = picks
  BY DEF Q!AddMessage
<1>2. picks \in SUBSET Picks /\ Q!Takes(model, picks)
  BY DEF Q!Attachable
<1>3. MaxSent \in Nat
  BY DEF Q!QueueEditingAssumption
<1>4. Q!Written(m) \in FileSets
  BY <1>1, <1>2, <1>3, FieldFacts DEF Q!Written, FileSets
<1>5. Q!Fits(m) => Q!Accepts(m)
  BY <1>1, <1>2, FieldFacts, GuardsTake, SameFinite DEF Q!Fits, Q!Accepts
<1> QED BY <1>1, <1>2, <1>4, <1>5, FieldFacts DEF Carried, SaysDraft

LEMMA UpdateTaken ==
    ASSUME Q!QueueEditingAssumption, NEW n \in 1 .. MaxSent, NEW id, NEW model, NEW text \in Nat,
           NEW item \in Contents, NEW keep \in Q!Kept(item, model),
           NEW picks \in Q!NewFiles(model),
           NEW m, m = Q!UpdateMessage(n, id, text, model, keep, picks)
    PROVE  /\ Carried(m) /\ SaysDraft(m)
           /\ Q!Fits(m) => Q!Accepts(m)
           /\ m.attachments # Absent => Q!Takes(m.model, m.attachments)
<1>1. /\ m.type = "update" /\ m.n = n /\ m.text = text /\ m.model = model
      /\ m.attachments = Q!Field(picks) /\ m.keepAttachmentIds = Q!Field(keep)
      /\ m.meant.text = text /\ m.meant.picks = picks /\ m.meant.keep = keep
  BY DEF Q!UpdateMessage
<1>2. picks \in SUBSET Picks /\ Q!Takes(model, picks)
  BY DEF Q!NewFiles, Q!Attachable
<1>3. keep \in FileSets /\ Q!Takes(model, keep)
  BY DEF Q!Kept, Contents, FileSets
<1>4. MaxSent \in Nat
  BY DEF Q!QueueEditingAssumption
<1>5. Q!Written(m) = {<<k, n>> : k \in picks}
  BY <1>1, <1>2, FieldFacts DEF Q!Written
<1>6. Q!Written(m) \in FileSets
  BY <1>2, <1>4, <1>5 DEF FileSets
<1>7. Q!Fits(m) => Q!Accepts(m)
  BY <1>1, <1>2, FieldFacts, GuardsTake, SameFinite DEF Q!Fits, Q!Accepts
<1>8. Keeping(m) = keep
  <2>1. keep \in (SUBSET Picks) \cup FileSets
    BY <1>3
  <2>2. (Q!Field(keep) = Absent) <=> (keep = {})
    BY <2>1, FieldFacts
  <2>3. keep # {} => Q!Field(keep) = keep
    BY <2>1, FieldFacts
  <2> QED BY <1>1, <2>2, <2>3 DEF Keeping
<1>9. \A a \in keep : Q!Takes(model, {a})
  BY <1>3 DEF Q!Takes
<1> QED BY <1>1, <1>2, <1>5, <1>6, <1>7, <1>8, <1>9, FieldFacts DEF Carried, SaysDraft

LEMMA EditInit == Q!QueueEditingAssumption /\ Q!Init => EditInv
<1> SUFFICES ASSUME Q!QueueEditingAssumption, Q!Init  PROVE EditInv
  OBVIOUS
<1>1. MaxSent \in Nat
  BY DEF Q!QueueEditingAssumption
<1>2. PICK files : files = {<<k, 0>> : k \in Picks \ Misfits}
  OBVIOUS
<1>3. files \in FileSets
  BY <1>1, <1>2 DEF FileSets
<1>4. PICK item : item = [text |-> 0, files |-> files]
  OBVIOUS
<1>5. item \in Contents
  BY <1>3, <1>4 DEF Contents
<1>6. body = <<item>>
  BY <1>2, <1>4 DEF Q!Init
<1>7. body \in Seq(Contents) /\ Len(body) = 1
  BY <1>5, <1>6
<1>8. body \in [1 .. 1 -> Contents]
  BY <1>5, <1>6
<1>9. body \in Lists
  BY <1>8 DEF Lists
<1>10. shown \in Seq(Lists) /\ shown # << >>
  BY <1>9 DEF Q!Init
<1>11. EmptyQueue \in QueueOf(1 .. 1) /\ Distinct(EmptyQueue) /\ ~ Queued(EmptyQueue, 1)
  BY DEF EmptyQueue, QueueOf, Distinct, Queued
<1>12. edited = Insert(EmptyQueue, 1)
  BY SameQueue DEF Q!Init
<1>13. edited \in QueueOf(1 .. Len(body)) /\ Distinct(edited)
  BY <1>7, <1>11, <1>12, InsertFacts
<1>14. \A p \in Pages : editor[p] = << >>
  BY DEF Q!Init
<1>15. sent \in 0 .. MaxSent /\ inside = {} /\ denied = {}
  BY <1>1 DEF Q!Init
<1> QED BY <1>7, <1>10, <1>13, <1>14, <1>15 DEF EditInv, Q!ComposedIsAccepted

(* Sending what the guards take if it fits.                                 *)
LEMMA Sends ==
    ASSUME Q!QueueEditingAssumption, EditInv, sent < MaxSent, NEW m, Q!Send(m),
           Carried(m) /\ SaysDraft(m),
           Q!Fits(m) => Q!Accepts(m),
           m.type = "delete" \/ (m.attachments # Absent => Q!Takes(m.model, m.attachments))
    PROVE  /\ sent' \in 0 .. MaxSent
           /\ \A x \in inside' : Carried(x) /\ SaysDraft(x)
           /\ inside \subseteq inside'
           /\ Q!ComposedIsAccepted'
<1>1. sent \in 0 .. MaxSent /\ MaxSent \in Nat
  BY DEF EditInv, Q!QueueEditingAssumption
<1>2. sent' \in 0 .. MaxSent
  BY <1>1 DEF Q!Send
<1>3. inside' \in {inside, inside \cup {m}}
  BY DEF Q!Send
<1>4. denied' = denied \/ (denied' = denied \cup {m} /\ ~ Q!Fits(m))
  BY DEF Q!Send
<1> QED BY <1>2, <1>3, <1>4 DEF EditInv, Q!ComposedIsAccepted

(* What is queued and shown after a change of the queue.                    *)
LEMMA Changes ==
    ASSUME EditInv, NEW contents \in Seq(Contents), NEW q \in QueueOf(1 .. Len(contents)),
           Distinct(q), Q!Change(q, contents)
    PROVE  /\ body' = contents
           /\ edited' \in QueueOf(1 .. Len(contents)) /\ Distinct(edited')
           /\ shown' \in Seq(Lists) /\ shown' # << >>
<1> PICK ids : ids = 1 .. Len(contents)
  OBVIOUS
<1> PICK list : list = Q!List(q, contents)
  OBVIOUS
<1>1. DOMAIN contents = ids /\ ids \subseteq Nat
  OBVIOUS
<1>2. q \in QueueOf(ids)
  OBVIOUS
<1>3. PICK b : b = {id \in DOMAIN contents : Q!Queued(q, id) /\ Q!Blank(contents[id])}
  OBVIOUS
<1>4. b \in SUBSET ids
  BY <1>1, <1>3
<1>5. edited' = [q EXCEPT !.blank = b] /\ body' = contents
  BY <1>3 DEF Q!Change, Q!Marked
<1>6. edited' = [items |-> q.items, claimed |-> q.claimed, blank |-> b]
  BY <1>2, <1>5, WithBlank
<1>7. q.claimed \in SUBSET ids
  BY <1>2, Fields
<1>8. edited' \in QueueOf(ids) /\ Distinct(edited')
  <2> PICK p : p = edited'
    OBVIOUS
  <2>1. p = [items |-> q.items, claimed |-> q.claimed, blank |-> b]
    BY <1>6
  <2>2. p \in QueueOf(ids) /\ Distinct(p)
    BY <1>2, <1>4, <1>7, <2>1, ItemsKept
  <2> QED BY <2>2
<1>9. Q!Visible(q) \subseteq ids
  <2>1. q.items \in Seq(ids)
    BY <1>2, Fields
  <2> QED BY <2>1, SameQueue DEF Visible
<1>10. \A id \in Q!Visible(q) : contents[id] \in Contents
  BY <1>1, <1>9
<1>11. list \in [Q!Visible(q) -> Contents]
  BY <1>10 DEF Q!List
<1>12. list \in Lists
  BY <1>1, <1>9, <1>11 DEF Lists
<1>13. shown \in Seq(Lists) /\ shown # << >>
  BY DEF EditInv
<1>14. shown' = shown \/ shown' = Append(shown, list) \/ shown' = Append(Tail(shown), list)
  BY DEF Q!Change
<1>15. shown' \in Seq(Lists) /\ shown' # << >>
  <2>1. \A s \in Seq(Lists) : Append(s, list) \in Seq(Lists) /\ Append(s, list) # << >>
    BY <1>12
  <2>2. Tail(shown) \in Seq(Lists)
    BY <1>13
  <2> QED BY <1>13, <1>14, <2>1, <2>2
<1> QED BY <1>5, <1>8, <1>15

(* A change that leaves the messages and the dialogs alone keeps it all.    *)
LEMMA ChangeKeeps ==
    ASSUME EditInv, NEW contents \in Seq(Contents), NEW q \in QueueOf(1 .. Len(contents)),
           Distinct(q), Q!Change(q, contents), UNCHANGED <<editor, sent, denied>>,
           inside' \subseteq inside
    PROVE  EditInv'
<1>1. /\ body' = contents
      /\ edited' \in QueueOf(1 .. Len(contents)) /\ Distinct(edited')
      /\ shown' \in Seq(Lists) /\ shown' # << >>
  BY Changes
<1>2. /\ sent' \in 0 .. MaxSent
      /\ \A p \in Pages : editor'[p] # << >> => editor'[p][2] \in Contents
      /\ \A m \in inside' : Carried(m) /\ SaysDraft(m)
      /\ Q!ComposedIsAccepted'
  BY DEF EditInv, Q!ComposedIsAccepted
<1> QED BY <1>1, <1>2 DEF EditInv

LEMMA Wider ==
    ASSUME NEW S, NEW T, S \subseteq T, NEW s \in Seq(S)
    PROVE  s \in Seq(T)
OBVIOUS

(* The next id is not queued.                                               *)
LEMMA NewIds ==
    ASSUME EditInv, NEW item \in Contents
    PROVE  /\ Append(body, item) \in Seq(Contents)
           /\ Len(Append(body, item)) = Q!NewId
           /\ Q!NewId \in 1 .. Q!NewId /\ ~ Queued(edited, Q!NewId)
           /\ edited \in QueueOf(1 .. Q!NewId) /\ Distinct(edited)
<1>1. body \in Seq(Contents) /\ Distinct(edited) /\ edited \in QueueOf(1 .. Len(body))
  BY DEF EditInv
<1>2. Len(body) \in Nat /\ Q!NewId = Len(body) + 1
  BY <1>1 DEF Q!NewId
<1>3. edited.items \in Seq(1 .. Len(body))
  BY <1>1, Fields
<1>4. ~ Queued(edited, Q!NewId)
  <2>1. \A k \in DOMAIN edited.items : edited.items[k] \in 1 .. Len(body)
    BY <1>3
  <2> QED BY <1>2, <2>1 DEF Queued
<1>5. 1 .. Len(body) \subseteq 1 .. Q!NewId
  BY <1>2
<1>6. edited \in QueueOf(1 .. Q!NewId)
  <2>1. edited.items \in Seq(1 .. Q!NewId)
    BY <1>3, <1>5, Wider
  <2>2. edited.claimed \subseteq 1 .. Q!NewId /\ edited.blank \subseteq 1 .. Q!NewId
    BY <1>1, <1>5, Fields
  <2>3. edited = [items |-> edited.items, claimed |-> edited.claimed, blank |-> edited.blank]
    BY <1>1 DEF QueueOf
  <2> QED BY <2>1, <2>2, <2>3 DEF QueueOf
<1> QED BY <1>1, <1>2, <1>4, <1>6

(* What a page is shown of an item was its content.                         *)
LEMMA ShownContent ==
    ASSUME EditInv, NEW k \in DOMAIN shown, NEW id \in DOMAIN shown[k]
    PROVE  shown[k][id] \in Contents
<1>1. shown[k] \in Lists
  BY DEF EditInv
<1> QED BY <1>1 DEF Lists

(* What is sent changes neither the queue nor the lists.                    *)
LEMMA PageStep ==
    ASSUME EditInv, Q!Elsewhere, sent' \in 0 .. MaxSent,
           \A x \in inside' : Carried(x) /\ SaysDraft(x), Q!ComposedIsAccepted',
           \A p \in Pages : editor'[p] # << >> => editor'[p][2] \in Contents
    PROVE  EditInv'
BY DEF EditInv, Q!Elsewhere

LEMMA QueueRequestStep ==
    ASSUME Q!QueueEditingAssumption, EditInv, NEW p \in Pages, Q!QueueRequest(p)
    PROVE  EditInv' /\ inside \subseteq inside'
<1>1. sent < MaxSent /\ sent \in 0 .. MaxSent /\ MaxSent \in Nat
  BY DEF Q!QueueRequest, EditInv, Q!QueueEditingAssumption
<1>2. sent + 1 \in 1 .. MaxSent
  BY <1>1
<1>3. PICK model \in Q!Models, said \in BOOLEAN : \E picks \in Q!Attachable(model) :
         /\ said \/ picks # {}
         /\ Q!Send(Q!AddMessage(sent + 1, IF said THEN sent + 1 ELSE 0, picks, model))
  BY DEF Q!QueueRequest
<1>4. PICK picks \in Q!Attachable(model) :
         /\ said \/ picks # {}
         /\ Q!Send(Q!AddMessage(sent + 1, IF said THEN sent + 1 ELSE 0, picks, model))
  BY <1>3
<1>5. PICK n, text : n = sent + 1 /\ text = IF said THEN sent + 1 ELSE 0
  OBVIOUS
<1>6. n \in 1 .. MaxSent /\ text \in Nat /\ (text # 0 \/ picks # {})
  BY <1>1, <1>2, <1>4, <1>5
<1>7. PICK m : m = Q!AddMessage(n, text, picks, model)
  OBVIOUS
<1>8. Q!Send(m)
  BY <1>4, <1>5, <1>7
<1>9. /\ Carried(m) /\ SaysDraft(m)
      /\ Q!Fits(m) => Q!Accepts(m)
      /\ m.attachments # Absent => Q!Takes(m.model, m.attachments)
  BY <1>6, <1>7, AddTaken
<1>10. /\ sent' \in 0 .. MaxSent /\ inside \subseteq inside' /\ Q!ComposedIsAccepted'
       /\ \A x \in inside' : Carried(x) /\ SaysDraft(x)
  BY <1>1, <1>8, <1>9, Sends
<1>11. UNCHANGED editor /\ Q!Elsewhere
  BY DEF Q!QueueRequest
<1>12. \A x \in Pages : editor'[x] # << >> => editor'[x][2] \in Contents
  BY <1>11 DEF EditInv
<1> QED BY <1>10, <1>11, <1>12, PageStep

LEMMA RemoveStep ==
    ASSUME Q!QueueEditingAssumption, EditInv, NEW p \in Pages, Q!Remove(p)
    PROVE  EditInv' /\ inside \subseteq inside'
<1>1. sent < MaxSent
  BY DEF Q!Remove
<1>2. PICK k \in DOMAIN shown : \E id \in DOMAIN shown[k] : Q!Send(Q!DeleteMessage(sent + 1, id))
  BY DEF Q!Remove
<1>3. PICK id \in DOMAIN shown[k] : Q!Send(Q!DeleteMessage(sent + 1, id))
  BY <1>2
<1>4. PICK m : m = Q!DeleteMessage(sent + 1, id)
  OBVIOUS
<1>5. m.type = "delete"
  BY <1>4 DEF Q!DeleteMessage
<1>6. Carried(m) /\ SaysDraft(m) /\ Q!Accepts(m)
  BY <1>5 DEF Carried, SaysDraft, Q!Accepts
<1>7. Q!Send(m)
  BY <1>3, <1>4
<1>8. /\ sent' \in 0 .. MaxSent /\ inside \subseteq inside' /\ Q!ComposedIsAccepted'
      /\ \A x \in inside' : Carried(x) /\ SaysDraft(x)
  BY <1>1, <1>5, <1>6, <1>7, Sends
<1>9. UNCHANGED editor /\ Q!Elsewhere
  BY DEF Q!Remove
<1>10. \A x \in Pages : editor'[x] # << >> => editor'[x][2] \in Contents
  BY <1>9 DEF EditInv
<1> QED BY <1>8, <1>9, <1>10, PageStep

(* A dialog is closed, or opened with what a list shows.                    *)
LEMMA EditorSet ==
    ASSUME EditInv, NEW p \in Pages, NEW e, editor' = [editor EXCEPT ![p] = e],
           e # << >> => e[2] \in Contents
    PROVE  \A x \in Pages : editor'[x] # << >> => editor'[x][2] \in Contents
<1> TAKE x \in Pages
<1>1. editor'[x] = editor[x] \/ editor'[x] = e
  OBVIOUS
<1> QED BY <1>1 DEF EditInv

LEMMA OpenStep ==
    ASSUME Q!QueueEditingAssumption, EditInv, NEW p \in Pages, Q!Open(p)
    PROVE  EditInv' /\ inside \subseteq inside'
<1>1. PICK k \in DOMAIN shown : \E id \in DOMAIN shown[k] :
         editor' = [editor EXCEPT ![p] = <<id, shown[k][id]>>]
  BY DEF Q!Open
<1>2. PICK id \in DOMAIN shown[k] : editor' = [editor EXCEPT ![p] = <<id, shown[k][id]>>]
  BY <1>1
<1>3. PICK e : e = <<id, shown[k][id]>>
  OBVIOUS
<1>4. e[2] \in Contents
  BY <1>3, ShownContent
<1>5. \A x \in Pages : editor'[x] # << >> => editor'[x][2] \in Contents
  BY <1>2, <1>3, <1>4, EditorSet
<1>6. UNCHANGED <<inside, denied, sent>> /\ Q!Elsewhere
  BY DEF Q!Open
<1>7. /\ sent' \in 0 .. MaxSent /\ Q!ComposedIsAccepted'
      /\ \A x \in inside' : Carried(x) /\ SaysDraft(x)
  BY <1>6 DEF EditInv, Q!ComposedIsAccepted
<1> QED BY <1>5, <1>6, <1>7, PageStep

LEMMA SaveStep ==
    ASSUME Q!QueueEditingAssumption, EditInv, NEW p \in Pages, Q!Save(p)
    PROVE  EditInv' /\ inside \subseteq inside'
<1>1. sent < MaxSent /\ sent \in 0 .. MaxSent /\ MaxSent \in Nat
  BY DEF Q!Save, EditInv, Q!QueueEditingAssumption
<1>2. PICK n, item, id : n = sent + 1 /\ item = editor[p][2] /\ id = editor[p][1]
  OBVIOUS
<1>3. n \in 1 .. MaxSent /\ n \in Nat
  BY <1>1, <1>2
<1>4. item \in Contents
  BY <1>2 DEF Q!Save, EditInv
<1>5. PICK model \in Q!Models, text \in {item.text, 0, n}, again \in BOOLEAN :
         \E keep \in Q!Kept(item, model), picks \in Q!NewFiles(model) :
           /\ Q!Send(Q!UpdateMessage(n, id, text, model, keep, picks))
           /\ editor' = IF again THEN editor ELSE [editor EXCEPT ![p] = << >>]
  BY <1>2 DEF Q!Save
<1>6. PICK keep \in Q!Kept(item, model), picks \in Q!NewFiles(model) :
         /\ Q!Send(Q!UpdateMessage(n, id, text, model, keep, picks))
         /\ editor' = IF again THEN editor ELSE [editor EXCEPT ![p] = << >>]
  BY <1>5
<1>7. text \in Nat
  BY <1>3, <1>4 DEF Contents
<1>8. PICK m : m = Q!UpdateMessage(n, id, text, model, keep, picks)
  OBVIOUS
<1>9. /\ Carried(m) /\ SaysDraft(m)
      /\ Q!Fits(m) => Q!Accepts(m)
      /\ m.attachments # Absent => Q!Takes(m.model, m.attachments)
  BY <1>3, <1>4, <1>7, <1>8, UpdateTaken
<1>10. Q!Send(m)
  BY <1>6, <1>8
<1>11. /\ sent' \in 0 .. MaxSent /\ inside \subseteq inside' /\ Q!ComposedIsAccepted'
       /\ \A x \in inside' : Carried(x) /\ SaysDraft(x)
  BY <1>1, <1>9, <1>10, Sends
<1>12. Q!Elsewhere
  BY DEF Q!Save
<1>13. \A x \in Pages : editor'[x] # << >> => editor'[x][2] \in Contents
  <2>1. CASE again
    BY <1>6, <2>1 DEF EditInv
  <2>2. CASE ~ again
    BY <1>6, <2>2, EditorSet
  <2> QED BY <2>1, <2>2
<1> QED BY <1>11, <1>12, <1>13, PageStep

-----------------------------------------------------------------------------
(* An edit that reaches its item makes it what its dialog held              *)
(* (SavedAsDrafted of QueueEditing, as a step).                             *)
Saves ==
    \A m \in inside \ inside' :
      m.type = "update" /\ Q!Editable(m.id) =>
        LET item == body'[m.id]
        IN  /\ item.text = m.meant.text
            /\ item.files = (body[m.id].files \cap m.meant.keep)
                              \cup {<<k, m.n>> : k \in m.meant.picks}

(* What is queued has content.                                              *)
LEMMA QueuedHasBody ==
    ASSUME EditInv, NEW id, Q!Queued(edited, id)
    PROVE  id \in DOMAIN body /\ id \in 1 .. Len(body) /\ body[id] \in Contents
<1>1. body \in Seq(Contents) /\ edited \in QueueOf(1 .. Len(body))
  BY DEF EditInv
<1>2. edited.items \in Seq(1 .. Len(body))
  BY <1>1, Fields
<1>3. id \in 1 .. Len(body)
  BY <1>2, SameQueue DEF Queued
<1> QED BY <1>1, <1>3

LEMMA RewrittenFacts ==
    ASSUME EditInv, NEW m \in inside, m.type = "update", NEW item \in Contents
    PROVE  /\ Q!Rewritten(m, item) \in Contents
           /\ Q!Rewritten(m, item).text = m.meant.text
           /\ Q!Rewritten(m, item).files = (item.files \cap m.meant.keep)
                                             \cup {<<k, m.n>> : k \in m.meant.picks}
<1>1. Carried(m) /\ SaysDraft(m)
  BY DEF EditInv
<1>2. PICK files : files = {a \in item.files \cap Keeping(m) : Q!Takes(m.model, {a})} \cup Q!Written(m)
  OBVIOUS
<1>3. Q!Rewritten(m, item) = [text |-> m.text, files |-> files]
  BY <1>2 DEF Q!Rewritten, Keeping
<1>4. item.files \in FileSets /\ Q!Written(m) \in FileSets /\ m.text \in Nat
  BY <1>1 DEF Contents, Carried
<1>5. files \in FileSets
  BY <1>2, <1>4 DEF FileSets
<1>6. {a \in item.files \cap Keeping(m) : Q!Takes(m.model, {a})} = item.files \cap m.meant.keep
  BY <1>1 DEF SaysDraft
<1>7. m.text = m.meant.text /\ Q!Written(m) = {<<k, m.n>> : k \in m.meant.picks}
  BY <1>1 DEF SaysDraft
<1> QED BY <1>2, <1>3, <1>4, <1>5, <1>6, <1>7 DEF Contents

(* An item given other content.                                             *)
LEMMA BodySet ==
    ASSUME EditInv, NEW id \in 1 .. Len(body), NEW item \in Contents,
           NEW contents, contents = [body EXCEPT ![id] = item]
    PROVE  /\ contents \in Seq(Contents) /\ Len(contents) = Len(body)
           /\ contents[id] = item
           /\ edited \in QueueOf(1 .. Len(contents)) /\ Distinct(edited)
<1>1. body \in Seq(Contents) /\ Distinct(edited) /\ edited \in QueueOf(1 .. Len(body))
  BY DEF EditInv
<1>2. contents \in Seq(Contents) /\ Len(contents) = Len(body) /\ contents[id] = item
  BY <1>1
<1> QED BY <1>1, <1>2

LEMMA ApplyStep ==
    ASSUME EditInv, NEW m \in inside, Q!Apply(m)
    PROVE  EditInv' /\ Saves
<1>1. inside' = inside \ {m} /\ UNCHANGED <<editor, sent, denied>>
  BY DEF Q!Apply, Q!page
<1>2. /\ inside' \subseteq inside
      /\ \A x \in inside \ inside' : x = m
  BY <1>1
<1>3. Carried(m) /\ body \in Seq(Contents) /\ Distinct(edited) /\ edited \in QueueOf(1 .. Len(body))
  BY DEF EditInv
<1>4. CASE Q!ApplyAdd(m)
  <2>1. m.type = "add"
    BY <1>4 DEF Q!ApplyAdd
  <2>2. PICK item : item = [text |-> m.text, files |-> Q!Written(m)]
    OBVIOUS
  <2>3. item \in Contents
    BY <1>3, <2>1, <2>2 DEF Carried, Contents
  <2>4. PICK contents, q : contents = Append(body, item) /\ q = Insert(edited, Q!NewId)
    OBVIOUS
  <2>5. Q!Change(q, contents)
    BY <1>4, <2>2, <2>4, SameQueue DEF Q!ApplyAdd
  <2>6. /\ contents \in Seq(Contents) /\ Len(contents) = Q!NewId
        /\ q \in QueueOf(1 .. Q!NewId) /\ Distinct(q)
    BY <2>3, <2>4, NewIds, InsertFacts
  <2>7. EditInv'
    BY <1>1, <1>2, <2>5, <2>6, ChangeKeeps
  <2> QED BY <1>2, <2>1, <2>7 DEF Saves
<1>5. CASE Q!ApplyUpdate(m) /\ Q!Editable(m.id)
  <2>1. m.type = "update"
    BY <1>5 DEF Q!ApplyUpdate
  <2>2. PICK id : id = m.id
    OBVIOUS
  <2>3. id \in 1 .. Len(body) /\ body[id] \in Contents
    BY <1>5, <2>2, QueuedHasBody DEF Q!Editable
  <2>4. PICK item : item = Q!Rewritten(m, body[id])
    OBVIOUS
  <2>5. /\ item \in Contents
        /\ item.text = m.meant.text
        /\ item.files = (body[id].files \cap m.meant.keep) \cup {<<k, m.n>> : k \in m.meant.picks}
    BY <2>1, <2>3, <2>4, RewrittenFacts
  <2>6. PICK contents : contents = [body EXCEPT ![id] = item]
    OBVIOUS
  <2>7. Q!Change(edited, contents)
    BY <1>5, <2>2, <2>4, <2>6 DEF Q!ApplyUpdate
  <2>8. /\ contents \in Seq(Contents) /\ contents[id] = item
        /\ edited \in QueueOf(1 .. Len(contents)) /\ Distinct(edited)
    BY <2>3, <2>5, <2>6, BodySet
  <2>9. EditInv' /\ body' = contents
    BY <1>1, <1>2, <2>7, <2>8, ChangeKeeps, Changes
  <2>10. body'[m.id] = item
    BY <2>2, <2>8, <2>9
  <2> QED BY <1>2, <2>2, <2>5, <2>9, <2>10 DEF Saves
<1>6. CASE Q!ApplyUpdate(m) /\ ~ Q!Editable(m.id)
  <2>1. Q!Change(edited, body)
    BY <1>6 DEF Q!ApplyUpdate
  <2>2. EditInv'
    BY <1>1, <1>2, <1>3, <2>1, ChangeKeeps
  <2> QED BY <1>2, <1>6, <2>2 DEF Saves
<1>7. CASE Q!ApplyDelete(m)
  <2>1. m.type = "delete" /\ Q!Change(Delete(edited, m.id), body)
    BY <1>7, SameQueue DEF Q!ApplyDelete
  <2>2. Delete(edited, m.id) \in QueueOf(1 .. Len(body)) /\ Distinct(Delete(edited, m.id))
    BY <1>3, DeleteFacts
  <2>3. EditInv'
    BY <1>1, <1>2, <1>3, <2>1, <2>2, ChangeKeeps
  <2> QED BY <1>2, <2>1, <2>3 DEF Saves
<1> QED BY <1>4, <1>5, <1>6, <1>7 DEF Q!Apply

(* The model's tool.                                                        *)
LEMMA TurnplanStep ==
    ASSUME Q!QueueEditingAssumption, EditInv, Q!Turnplan
    PROVE  EditInv' /\ inside' = inside
<1>1. UNCHANGED <<editor, sent, denied>> /\ inside' = inside
  BY DEF Q!Turnplan, Q!page
<1>2. body \in Seq(Contents) /\ Distinct(edited) /\ edited \in QueueOf(1 .. Len(body))
  BY DEF EditInv
<1>3. Q!ToolText \in Nat
  BY DEF Q!ToolText, Q!QueueEditingAssumption
<1>4. CASE Q!ToolAdd
  <2>1. Q!ToolItem \in Contents
    BY <1>3 DEF Q!ToolItem, Contents, FileSets
  <2>2. PICK q :
           /\ \/ q = Q!Insert(edited, Q!NewId) \/ q = Q!InsertFront(edited, Q!NewId)
              \/ \E id \in Q!ItemIds : \/ q = Q!InsertBefore(edited, Q!NewId, id)
                                      \/ q = Q!InsertAfter(edited, Q!NewId, id)
           /\ Q!Change(q, Append(body, Q!ToolItem))
    BY <1>4, Zenon DEF Q!ToolAdd
  <2>3. \/ q = Insert(edited, Q!NewId) \/ q = InsertFront(edited, Q!NewId)
        \/ \E id \in Q!ItemIds : \/ q = InsertBefore(edited, Q!NewId, id)
                                \/ q = InsertAfter(edited, Q!NewId, id)
    BY <2>2, SameQueue
  <2>4. q \in QueueOf(1 .. Q!NewId) /\ Distinct(q)
    <3>1. /\ Q!NewId \in 1 .. Q!NewId /\ ~ Queued(edited, Q!NewId)
          /\ edited \in QueueOf(1 .. Q!NewId) /\ Distinct(edited)
      BY <2>1, NewIds
    <3>2. CASE q = Insert(edited, Q!NewId)
      BY <3>1, <3>2, InsertFacts
    <3>3. CASE q = InsertFront(edited, Q!NewId)
      BY <3>1, <3>3, InsertFrontFacts
    <3>4. ASSUME NEW a \in Q!ItemIds, q = InsertBefore(edited, Q!NewId, a)
          PROVE  q \in QueueOf(1 .. Q!NewId) /\ Distinct(q)
      <4>1. q = InsertNextTo(edited, Q!NewId, a, 0)
        BY <3>4 DEF InsertBefore
      <4>2. 0 \in {0, 1}
        OBVIOUS
      <4>3. /\ InsertNextTo(edited, Q!NewId, a, 0) \in QueueOf(1 .. Q!NewId)
            /\ Distinct(InsertNextTo(edited, Q!NewId, a, 0))
        BY <3>1, <4>2, InsertNextToFacts, Zenon
      <4> QED BY <4>1, <4>3
    <3>5. ASSUME NEW a \in Q!ItemIds, q = InsertAfter(edited, Q!NewId, a)
          PROVE  q \in QueueOf(1 .. Q!NewId) /\ Distinct(q)
      <4>1. q = InsertNextTo(edited, Q!NewId, a, 1)
        BY <3>5 DEF InsertAfter
      <4>2. 1 \in {0, 1}
        OBVIOUS
      <4>3. /\ InsertNextTo(edited, Q!NewId, a, 1) \in QueueOf(1 .. Q!NewId)
            /\ Distinct(InsertNextTo(edited, Q!NewId, a, 1))
        BY <3>1, <4>2, InsertNextToFacts, Zenon
      <4> QED BY <4>1, <4>3
    <3> QED BY <2>3, <3>2, <3>3, <3>4, <3>5
  <2>5. PICK contents : contents = Append(body, Q!ToolItem)
    OBVIOUS
  <2>6. contents \in Seq(Contents) /\ Len(contents) = Q!NewId
    BY <2>1, <2>5, NewIds
  <2>7. Q!Change(q, contents)
    BY <2>2, <2>5
  <2>8. EditInv'
    BY <1>1, <2>4, <2>6, <2>7, ChangeKeeps
  <2> QED BY <1>1, <2>8
<1>5. CASE Q!ToolUpdate
  <2>1. PICK id \in Q!ItemIds :
           Q!Change(edited, IF Q!Editable(id) THEN [body EXCEPT ![id].text = Q!ToolText] ELSE body)
    BY <1>5 DEF Q!ToolUpdate
  <2>2. CASE Q!Editable(id)
    <3>1. id \in 1 .. Len(body) /\ body[id] \in Contents
      BY <2>2, QueuedHasBody DEF Q!Editable
    <3>2. PICK item : item = [body[id] EXCEPT !.text = Q!ToolText]
      OBVIOUS
    <3>3. item \in Contents
      BY <1>3, <3>1, <3>2 DEF Contents
    <3>4. PICK contents : contents = [body EXCEPT ![id] = item]
      OBVIOUS
    <3>5. Q!Change(edited, contents)
      BY <2>1, <2>2, <3>2, <3>4
    <3>6. /\ contents \in Seq(Contents)
          /\ edited \in QueueOf(1 .. Len(contents)) /\ Distinct(edited)
      BY <3>1, <3>3, <3>4, BodySet
    <3> QED BY <1>1, <3>5, <3>6, ChangeKeeps
  <2>3. CASE ~ Q!Editable(id)
    <3>1. Q!Change(edited, body)
      BY <2>1, <2>3
    <3> QED BY <1>1, <1>2, <3>1, ChangeKeeps
  <2> QED BY <1>1, <2>2, <2>3
<1>6. CASE Q!ToolDelete
  <2>1. PICK id \in Q!ItemIds : Q!Change(Delete(edited, id), body)
    BY <1>6, SameQueue DEF Q!ToolDelete
  <2>2. Delete(edited, id) \in QueueOf(1 .. Len(body)) /\ Distinct(Delete(edited, id))
    BY <1>2, DeleteFacts
  <2> QED BY <1>1, <1>2, <2>1, <2>2, ChangeKeeps
<1>7. CASE Q!ToolClear
  <2>1. Q!Change(EmptyQueue, body)
    BY <1>7, SameQueue DEF Q!ToolClear
  <2>2. EmptyQueue \in QueueOf(1 .. Len(body)) /\ Distinct(EmptyQueue)
    BY DEF EmptyQueue, QueueOf, Distinct
  <2> QED BY <1>1, <1>2, <2>1, <2>2, ChangeKeeps
<1> QED BY <1>4, <1>5, <1>6, <1>7 DEF Q!Turnplan

(* A claim, its end, and the blank items dropped for it.                    *)
LEMMA ClaimStep ==
    ASSUME EditInv, Q!ClaimNext \/ Q!ClaimOver
    PROVE  EditInv' /\ inside' = inside
<1>1. UNCHANGED <<editor, sent, denied>> /\ inside' = inside
  BY DEF Q!ClaimNext, Q!ClaimOver, Q!page
<1>2. body \in Seq(Contents) /\ Distinct(edited) /\ edited \in QueueOf(1 .. Len(body))
  BY DEF EditInv
<1>3. CASE Q!ClaimNext
  <2>1. PICK q \in IF Q!NextRunnable(edited) = {} THEN {Q!DropBlankHead(edited)}
                   ELSE {Q!Claim(edited, id) : id \in Q!NextRunnable(edited)} : Q!Change(q, body)
    BY <1>3 DEF Q!ClaimNext
  <2>2. q = DropBlankHead(edited) \/ \E id \in NextRunnable(edited) : q = Claim(edited, id)
    BY <2>1, SameQueue
  <2>3. q \in QueueOf(1 .. Len(body)) /\ Distinct(q)
    BY <1>2, <2>2, DropFacts, ClaimFacts
  <2> QED BY <1>1, <1>2, <2>1, <2>3, ChangeKeeps
<1>4. CASE Q!ClaimOver
  <2>1. PICK id \in edited.claimed : \E q \in {Q!Release(edited, id), Q!Delete(edited, id)} : Q!Change(q, body)
    BY <1>4 DEF Q!ClaimOver
  <2>2. PICK q \in {Release(edited, id), Delete(edited, id)} : Q!Change(q, body)
    BY <2>1, SameQueue
  <2>3. q \in QueueOf(1 .. Len(body)) /\ Distinct(q)
    BY <1>2, <2>2, ReleaseFacts, DeleteFacts
  <2> QED BY <1>1, <1>2, <2>2, <2>3, ChangeKeeps
<1> QED BY <1>3, <1>4

LEMMA EditInductive ==
    ASSUME Q!QueueEditingAssumption, EditInv, [Q!Next]_(Q!vars)
    PROVE  EditInv' /\ [Saves]_(Q!vars)
<1>1. ASSUME NEW p \in Pages, Q!QueueRequest(p) \/ Q!Remove(p) \/ Q!Open(p) \/ Q!Save(p)
      PROVE  EditInv' /\ inside \subseteq inside'
  BY <1>1, QueueRequestStep, RemoveStep, OpenStep, SaveStep
<1>2. ASSUME NEW m \in inside, Q!Apply(m)  PROVE EditInv' /\ Saves
  BY <1>2, ApplyStep
<1>3. CASE Q!Turnplan
  BY <1>3, TurnplanStep DEF Saves
<1>4. CASE Q!ClaimNext \/ Q!ClaimOver
  BY <1>4, ClaimStep DEF Saves
<1>5. CASE UNCHANGED Q!vars
  BY <1>5 DEF Q!vars, EditInv, Q!ComposedIsAccepted
<1>6. inside \subseteq inside' => Saves
  BY DEF Saves
<1> QED BY <1>1, <1>2, <1>3, <1>4, <1>5, <1>6 DEF Q!Next

(* Whatever pages compose and edit from the lists they were last shown,     *)
(* while the model's tool changes the queue and turns claim from it: what   *)
(* fits is taken by the guards of the server, and an edit that reaches its  *)
(* item makes it what the dialog held (socketProtocol.ts, messages.ts,      *)
(* update() of requestQue/index.ts).                                        *)
THEOREM EditsReachItems == Q!Spec => EditsArrive
<1>1. EditInv /\ [Q!Next]_(Q!vars) => EditInv'
  BY EditInductive, PartsAssumption
<1>2. EditInv /\ [Q!Next]_(Q!vars) => [Saves]_(Q!vars)
  BY EditInductive, PartsAssumption
<1>3. Q!SavedAsDrafted <=> [][Saves]_(Q!vars)
  BY DEF Q!SavedAsDrafted, Saves
<1>4. EditInv => Q!ComposedIsAccepted
  BY DEF EditInv
<1>5. Q!Init => EditInv
  BY EditInit, PartsAssumption
<1> QED BY <1>5, <1>1, <1>2, <1>3, <1>4, PTL DEF Q!Spec, EditsArrive

-----------------------------------------------------------------------------
(***************************************************************************)
(* The requests of a page.                                                 *)
(***************************************************************************)
(* A message of one of the types T carries request r; one of a type is      *)
(* about session s; a request is carried by one of them at most.            *)
Carries(q, T, r) == \E i \in DOMAIN q : q[i].type \in T /\ q[i].request = r
About(q, type, s) == \E i \in DOMAIN q : q[i].type = type /\ q[i].session = s
Sole(q, T) ==
    \A i, j \in DOMAIN q :
      q[i].type \in T /\ q[j].type \in T /\ q[i].request = q[j].request => i = j

(* What a message is about comes in at the end of the queue.                *)
LEMMA JoinedFacts ==
    ASSUME NEW S, NEW q \in Seq(S), NEW t \in Seq(S)
    PROVE  /\ q \o t \in Seq(S)
           /\ \A T, r : Carries(q \o t, T, r) => Carries(q, T, r) \/ Carries(t, T, r)
           /\ \A y, s : About(q \o t, y, s) => About(q, y, s) \/ About(t, y, s)
           /\ \A T : Sole(q, T) /\ Sole(t, T) /\ (\A r : ~(Carries(q, T, r) /\ Carries(t, T, r)))
                       => Sole(q \o t, T)
<1> PICK u : u = q \o t
  OBVIOUS
<1>1. u \in Seq(S) /\ Len(u) = Len(q) + Len(t)
  BY ConcatProperties
<1>2. \A i \in 1 .. Len(u) : u[i] = IF i <= Len(q) THEN q[i] ELSE t[i - Len(q)]
  BY <1>1, ConcatProperties
<1>3. /\ DOMAIN u = 1 .. Len(u) /\ DOMAIN q = 1 .. Len(q) /\ DOMAIN t = 1 .. Len(t)
      /\ Len(u) \in Nat /\ Len(q) \in Nat /\ Len(t) \in Nat
  BY <1>1
<1>4. ASSUME NEW i \in DOMAIN u
      PROVE  \/ i \in DOMAIN q /\ u[i] = q[i]
             \/ i > Len(q) /\ i - Len(q) \in DOMAIN t /\ u[i] = t[i - Len(q)]
  BY ONLY <1>1, <1>2, <1>3, i \in DOMAIN u
<1>5. \A T, r : Carries(u, T, r) => Carries(q, T, r) \/ Carries(t, T, r)
  BY ONLY <1>4 DEF Carries
<1>6. \A y, s : About(u, y, s) => About(q, y, s) \/ About(t, y, s)
  BY ONLY <1>4 DEF About
<1>7. ASSUME NEW T, Sole(q, T), Sole(t, T), \A r : ~(Carries(q, T, r) /\ Carries(t, T, r)),
             NEW i \in DOMAIN u, NEW j \in DOMAIN u,
             u[i].type \in T, u[j].type \in T, u[i].request = u[j].request
      PROVE  i = j
  <2>1. CASE i \in DOMAIN q /\ u[i] = q[i] /\ j \in DOMAIN q /\ u[j] = q[j]
    BY ONLY <2>1, <1>7 DEF Sole
  <2>2. CASE /\ i > Len(q) /\ i - Len(q) \in DOMAIN t /\ u[i] = t[i - Len(q)]
             /\ j > Len(q) /\ j - Len(q) \in DOMAIN t /\ u[j] = t[j - Len(q)]
    <3>1. i - Len(q) = j - Len(q)
      BY ONLY <2>2, <1>7 DEF Sole
    <3> QED BY ONLY <3>1, <1>3, <1>7
  <2>3. CASE /\ i \in DOMAIN q /\ u[i] = q[i]
             /\ j > Len(q) /\ j - Len(q) \in DOMAIN t /\ u[j] = t[j - Len(q)]
    <3>1. Carries(q, T, u[i].request) /\ Carries(t, T, u[i].request)
      BY ONLY <2>3, <1>7 DEF Carries
    <3> QED BY ONLY <3>1, <1>7
  <2>4. CASE /\ j \in DOMAIN q /\ u[j] = q[j]
             /\ i > Len(q) /\ i - Len(q) \in DOMAIN t /\ u[i] = t[i - Len(q)]
    <3>1. Carries(q, T, u[i].request) /\ Carries(t, T, u[i].request)
      BY ONLY <2>4, <1>7 DEF Carries
    <3> QED BY ONLY <3>1, <1>7
  <2> QED BY ONLY <1>4, <1>7, <2>1, <2>2, <2>3, <2>4
<1>8. \A T : Sole(q, T) /\ Sole(t, T) /\ (\A r : ~(Carries(q, T, r) /\ Carries(t, T, r))) => Sole(u, T)
  BY ONLY <1>7 DEF Sole
<1> QED BY <1>1, <1>5, <1>6, <1>8

(* The queue of one message.                                                *)
LEMMA OneFacts ==
    ASSUME NEW S, NEW m \in S
    PROVE  /\ <<m>> \in Seq(S)
           /\ \A T, r : Carries(<<m>>, T, r) <=> m.type \in T /\ m.request = r
           /\ \A y, s : About(<<m>>, y, s) <=> m.type = y /\ m.session = s
           /\ \A T : Sole(<<m>>, T)
<1>1. <<m>> \in Seq(S) /\ DOMAIN <<m>> = {1} /\ <<m>>[1] = m
  OBVIOUS
<1> PICK u : u = <<m>>
  OBVIOUS
<1>2. DOMAIN u = {1} /\ u[1] = m
  BY <1>1
<1>3. \A T, r : Carries(u, T, r) <=> m.type \in T /\ m.request = r
  BY ONLY <1>2 DEF Carries
<1>4. \A y, s : About(u, y, s) <=> m.type = y /\ m.session = s
  BY ONLY <1>2 DEF About
<1>5. \A T : Sole(u, T)
  BY ONLY <1>2 DEF Sole
<1> QED BY <1>1, <1>3, <1>4, <1>5

LEMMA AppendIsJoin ==
    ASSUME NEW S, NEW q \in Seq(S), NEW m \in S
    PROVE  Append(q, m) = q \o <<m>>
OBVIOUS

(* A message taken out of the queue.                                        *)
LEMMA TakenFacts ==
    ASSUME NEW S, NEW q \in Seq(S), NEW p \in Seq(S), NEW i \in DOMAIN q,
           Len(p) = Len(q) - 1, \A j \in 1 .. Len(p) : p[j] = IF j < i THEN q[j] ELSE q[j + 1]
    PROVE  /\ \A T, r : Carries(p, T, r) => Carries(q, T, r)
           /\ \A y, s : About(p, y, s) => About(q, y, s)
           /\ \A T : Sole(q, T) => Sole(p, T)
           /\ \A T : Sole(q, T) /\ q[i].type \in T => ~Carries(p, T, q[i].request)
<1> DEFINE k(j) == IF j < i THEN j ELSE j + 1
<1>1. /\ DOMAIN p = 1 .. Len(p) /\ DOMAIN q = 1 .. Len(q)
      /\ Len(p) \in Nat /\ Len(q) \in Nat
  OBVIOUS
<1>2. \A j \in DOMAIN p : k(j) \in DOMAIN q /\ p[j] = q[k(j)] /\ k(j) # i
  BY <1>1
<1>3. \A j, l \in DOMAIN p : k(j) = k(l) => j = l
  BY ONLY <1>1, i \in DOMAIN q
<1> HIDE DEF k
<1>4. \A T, r : Carries(p, T, r) => Carries(q, T, r)
  BY ONLY <1>2 DEF Carries
<1>5. \A y, s : About(p, y, s) => About(q, y, s)
  BY ONLY <1>2 DEF About
<1>6. \A T : Sole(q, T) => Sole(p, T)
  BY ONLY <1>2, <1>3 DEF Sole
<1>7. \A T : Sole(q, T) /\ q[i].type \in T => ~Carries(p, T, q[i].request)
  BY ONLY <1>2, i \in DOMAIN q DEF Sole, Carries
<1> QED BY <1>4, <1>5, <1>6, <1>7

LEMMA RemovedIsTaken ==
    ASSUME NEW S, NEW q \in Seq(S), NEW i \in DOMAIN q, NEW p, p = W!RemoveAt(q, i)
    PROVE  /\ p \in Seq(S) /\ Len(p) = Len(q) - 1
           /\ \A j \in 1 .. Len(p) : p[j] = IF j < i THEN q[j] ELSE q[j + 1]
<1>1. i \in 1 .. Len(q) /\ Len(q) \in Nat
  OBVIOUS
<1>2. p = Without(q, i)
  BY DEF W!RemoveAt, Without
<1>3. /\ p \in Seq(S) /\ Len(p) = Len(q) - 1
      /\ \A j \in 1 .. (i - 1) : p[j] = q[j]
      /\ \A j \in i .. (Len(q) - 1) : p[j] = q[j + 1]
  BY ONLY <1>1, <1>2, q \in Seq(S), Cut
<1> QED BY ONLY <1>1, <1>3

LEMMA TailIsTaken ==
    ASSUME NEW S, NEW q \in Seq(S), q # << >>
    PROVE  /\ Tail(q) \in Seq(S) /\ Len(Tail(q)) = Len(q) - 1 /\ 1 \in DOMAIN q /\ Head(q) = q[1]
           /\ \A j \in 1 .. Len(Tail(q)) : Tail(q)[j] = IF j < 1 THEN q[j] ELSE q[j + 1]
OBVIOUS

-----------------------------------------------------------------------------
(* What starts a turn; the messages of the page and of the server.          *)
Starts == {"create", "input"}

Posts ==
    {m \in [type : {"create", "input", "attach", "interrupt"},
            session : W!Keys \cup {None}, request : W!Requests \cup {None}] :
       /\ m.type \in Starts => m.request \in W!Requests
       /\ m.type = "attach" => m.session \in W!Sessions}

News ==
    {m \in [type : {"created", "attached", "error", "running", "end", "interrupted"},
            session : W!Keys \cup {None}, request : W!Requests \cup {None}] :
       /\ m.type = "created" => m.request \in W!Requests /\ m.session = m.request
       /\ m.type = "attached" => m.session \in W!Sessions}

Composers ==
    [running : BOOLEAN, note : BOOLEAN, initial : W!Requests \cup {None},
     attach : W!Requests \cup {None}]

Submissions ==
    [at : {"unused", "encoding", "creating", "created", "done"}, key : W!Keys \cup {None},
     live : BOOLEAN]

PageTypes ==
    /\ active \in W!Keys
    /\ ui \in [W!Keys -> Composers] /\ \A k \in Drafts : ui[k].attach = None
    /\ listed \in [W!Sessions -> BOOLEAN \cup {None}]
    /\ req \in [W!Requests -> Submissions]
    /\ \A r \in W!Requests : /\ req[r].at # "unused" => req[r].key \in W!Keys
                             /\ req[r].at \in {"creating", "created"} => req[r].key \in Drafts
    /\ runs \in [W!Requests -> Nat]
    /\ DOMAIN running \subseteq W!Sessions
    /\ attached \subseteq W!Sessions /\ grants \subseteq W!Sessions

(* A session of which an attachment may still come, and those that will     *)
(* send request r when it does.                                             *)
Live(k) == k \notin attached \/ About(up, "attach", k) \/ About(down, "attached", k)
Waits(r) == {k \in W!Sessions : ui[k].attach = r /\ Live(k)}

(* The page does not know of session r.                                     *)
Unmet(r) ==
    /\ listed[r] = None /\ active # r /\ r \notin attached
    /\ ~ About(up, "attach", r) /\ ~ About(down, "attached", r)
    /\ \A q \in W!Requests : req[q].key # r

(* Request r is not sent, or its session is not announced.                  *)
Sessionless(r) ==
    req[r].at # "done" \/ Carries(up, {"create"}, r) \/ Carries(down, {"created"}, r)

(* Where request r is: with its form, waiting for an attachment, on its way *)
(* or run; in one of these only.                                            *)
Account(r) ==
    /\ runs[r] <= 1
    /\ req[r].at # "done" =>
         /\ runs[r] = 0 /\ ~ Carries(up, Starts, r) /\ ~ Carries(down, {"created"}, r)
         /\ \A k \in W!Keys : ui[k].attach # r
    /\ Carries(up, Starts, r) => runs[r] = 0
    /\ Carries(up, {"create"}, r) => ~ Carries(down, {"created"}, r)
    /\ Carries(up, Starts, r) \/ runs[r] = 1 => Waits(r) = {}
    /\ \A k, l \in Waits(r) : k = l
    /\ Sessionless(r) => Unmet(r)

OnceInv ==
    /\ up \in Seq(Posts) /\ down \in Seq(News) /\ PageTypes
    /\ Sole(up, Starts) /\ Sole(down, {"created"})
    /\ \A r \in W!Requests : Account(r)

LEMMA NameFacts ==
    /\ W!Requests \subseteq W!Sessions /\ W!Sessions \subseteq W!Keys /\ Drafts \subseteq W!Keys
    /\ 0 \in W!Sessions /\ 0 \notin W!Requests
    /\ \A k \in W!Keys : k \in Drafts \/ k \in W!Sessions
    /\ \A k \in Drafts : k \notin W!Sessions
    /\ None \notin W!Keys /\ None \notin W!Requests
BY PartsAssumption DEF W!NamesAssumption, W!BoundsAssumption, W!Keys, W!Sessions, W!Requests

(* A step that leaves request r as it is, or gives it up.                   *)
Spared(r) ==
    /\ runs'[r] = runs[r]
    /\ req'[r].at # "done" => req[r].at # "done"
    /\ Carries(up', Starts, r) => Carries(up, Starts, r)
    /\ Carries(up', {"create"}, r) => Carries(up, {"create"}, r)
    /\ Carries(down', {"created"}, r) => Carries(down, {"created"}, r)
    /\ \A k \in W!Keys : ui'[k].attach = r => \E l \in W!Keys : ui[l].attach = r
    /\ \A k \in Waits(r)' : k \in Waits(r)
    /\ Unmet(r) /\ Sessionless(r)' => Unmet(r)'

LEMMA SparedKeeps ==
    ASSUME NEW r, Account(r), Spared(r)
    PROVE  Account(r)'
<1>1. Sessionless(r)' => Sessionless(r)
  BY DEF Spared, Sessionless
<1>2. Sessionless(r)' => Unmet(r)'
  BY <1>1 DEF Spared, Account
<1>3. Waits(r) = {} => Waits(r)' = {}
  BY DEF Spared
<1>4. \A k, l \in Waits(r)' : k = l
  BY DEF Spared, Account
<1>5. req'[r].at # "done" =>
         /\ runs'[r] = 0 /\ ~ Carries(up', Starts, r) /\ ~ Carries(down', {"created"}, r)
         /\ \A k \in W!Keys : ui'[k].attach # r
  BY DEF Spared, Account
<1>6. /\ runs'[r] <= 1
      /\ Carries(up', Starts, r) => runs'[r] = 0
      /\ Carries(up', {"create"}, r) => ~ Carries(down', {"created"}, r)
      /\ Carries(up', Starts, r) \/ runs'[r] = 1 => Waits(r) = {}
  BY DEF Spared, Account
<1> QED BY <1>2, <1>3, <1>4, <1>5, <1>6 DEF Account

(* A step that sends no request and meets no session.                       *)
Plain ==
    /\ runs' = runs
    /\ \A r \in W!Requests : req'[r].at # "done" => req[r].at # "done"
    /\ \A r \in W!Requests :
         /\ Carries(up', Starts, r) => Carries(up, Starts, r)
         /\ Carries(up', {"create"}, r) => Carries(up, {"create"}, r)
         /\ Carries(down', {"created"}, r) => Carries(down, {"created"}, r)
    /\ \A k \in W!Keys : ui'[k].attach = ui[k].attach \/ ui'[k].attach = None
    /\ attached \subseteq attached'
    /\ \A k \in W!Sessions :
         /\ About(up', "attach", k) => About(up, "attach", k) \/ k \notin attached
         /\ About(down', "attached", k) => About(down, "attached", k) \/ About(up, "attach", k)
    /\ \A r \in W!Requests : Unmet(r) /\ Sessionless(r)' => Unmet(r)'

LEMMA PlainSpares ==
    ASSUME Plain
    PROVE  \A r \in W!Requests : Spared(r)
<1>1. ASSUME NEW r \in W!Requests, NEW k \in Waits(r)'
      PROVE  k \in Waits(r)
  <2>1. k \in W!Sessions /\ ui'[k].attach = r /\ Live(k)' /\ k \in W!Keys /\ r # None
    BY NameFacts DEF Waits
  <2>2. Live(k)
    BY <2>1 DEF Live, Plain
  <2>3. ui[k].attach = r
    BY <2>1 DEF Plain
  <2> QED BY <2>1, <2>2, <2>3 DEF Waits
<1>2. ASSUME NEW r \in W!Requests, NEW k \in W!Keys, ui'[k].attach = r
      PROVE  \E l \in W!Keys : ui[l].attach = r
  BY <1>2, NameFacts DEF Plain
<1> QED BY <1>1, <1>2 DEF Spared, Plain

-----------------------------------------------------------------------------
(* The messages are of their types.                                         *)
LEMMA MessageFacts ==
    /\ \A y, k, r : /\ W!Message(y, k, r).type = y /\ W!Message(y, k, r).session = k
                    /\ W!Message(y, k, r).request = r
    /\ \A k \in W!Sessions : /\ W!Message("attach", k, None) \in Posts
                             /\ W!Message("attached", k, None) \in News
    /\ \A k \in W!Keys : W!Message("interrupt", k, None) \in Posts
    /\ \A r \in W!Requests : /\ W!Message("create", None, r) \in Posts
                             /\ W!Message("created", r, r) \in News
    /\ \A k \in W!Keys, r \in W!Requests : W!Message("input", k, r) \in Posts
    /\ \A k \in W!Keys \cup {None}, r \in W!Requests \cup {None},
          y \in {"error", "running", "end", "interrupted"} : W!Message(y, k, r) \in News
<1>1. \A k \in W!Sessions : k \in W!Keys
  BY NameFacts
<1>2. \A r \in W!Requests : r \in W!Keys
  BY NameFacts
<1> QED BY <1>1, <1>2 DEF W!Message, Posts, News, Starts

(* The queue of the server takes no request, and at most attachments of a.  *)
UpLess(a) ==
    /\ up' \in Seq(Posts) /\ Sole(up', Starts)
    /\ \A r : /\ Carries(up', Starts, r) => Carries(up, Starts, r)
              /\ Carries(up', {"create"}, r) => Carries(up, {"create"}, r)
    /\ \A k : About(up', "attach", k) => About(up, "attach", k) \/ (k = a /\ k \notin attached)

(* The queue of the page takes at most the answer to an attachment of a.    *)
DownLess(a) ==
    /\ down' \in Seq(News) /\ Sole(down', {"created"})
    /\ \A r : Carries(down', {"created"}, r) => Carries(down, {"created"}, r)
    /\ \A k : About(down', "attached", k) =>
                About(down, "attached", k) \/ (k = a /\ About(up, "attach", k))

LEMMA Emptied ==
    /\ \A T, r : ~ Carries(<< >>, T, r)
    /\ \A y, k : ~ About(<< >>, y, k)
    /\ \A T : Sole(<< >>, T)
    /\ \A S : << >> \in Seq(S)
<1> PICK e : e = << >>
  OBVIOUS
<1>1. DOMAIN e = {} /\ \A S : e \in Seq(S)
  OBVIOUS
<1> QED BY <1>1 DEF Carries, About, Sole

LEMMA UpSame ==
    ASSUME OnceInv, up' = up, NEW a
    PROVE  UpLess(a)
BY DEF OnceInv, UpLess

LEMMA DownSame ==
    ASSUME OnceInv, down' = down, NEW a
    PROVE  DownLess(a)
BY DEF OnceInv, DownLess

(* What attachSession sends, for each effect that calls it.                 *)
LEMMA AttachesFacts ==
    ASSUME NEW k, NEW state, NEW n \in {1, 2}, NEW t, t = W!Attaches(k, state, n)
    PROVE  /\ t \in Seq(Posts) /\ Sole(t, Starts)
           /\ \A T \in {Starts, {"create"}} : \A r : ~ Carries(t, T, r)
           /\ \A j : About(t, "attach", j) => j = k /\ j \in W!Sessions /\ j \notin attached
<1>1. CASE t = << >>
  BY <1>1, Emptied
<1>2. CASE t # << >>
  <2>1. /\ t = [i \in 1 .. n |-> W!Message("attach", k, None)]
        /\ k \in W!Sessions /\ k \notin attached
    BY <1>2 DEF W!Attaches
  <2>2. PICK m \in Posts : m = W!Message("attach", k, None)
    BY <2>1, MessageFacts
  <2>3. m.type = "attach" /\ m.session = k
    BY <2>2, MessageFacts
  <2>4. t = [i \in 1 .. n |-> m]
    BY <2>1, <2>2
  <2>5. t \in Seq(Posts) /\ DOMAIN t = 1 .. n /\ \A i \in DOMAIN t : t[i] = m
    BY <2>4
  <2>6. \A i \in DOMAIN t : t[i].type = "attach" /\ t[i].session = k
    BY <2>3, <2>5
  <2> QED BY <2>1, <2>5, <2>6 DEF Carries, About, Sole, Starts
<1> QED BY <1>1, <1>2

LEMMA UpAttaches ==
    ASSUME OnceInv, NEW k, NEW state, NEW n \in {1, 2}, up' = up \o W!Attaches(k, state, n)
    PROVE  UpLess(k)
<1>1. PICK t : t = W!Attaches(k, state, n)
  OBVIOUS
<1>2. /\ t \in Seq(Posts) /\ Sole(t, Starts)
      /\ \A T \in {Starts, {"create"}} : \A r : ~ Carries(t, T, r)
      /\ \A j : About(t, "attach", j) => j = k /\ j \notin attached
  BY <1>1, AttachesFacts
<1>3. up' = up \o t /\ up \in Seq(Posts) /\ Sole(up, Starts)
  BY <1>1 DEF OnceInv
<1> QED BY ONLY <1>2, <1>3, JoinedFacts DEF UpLess

(* A message more.                                                          *)
LEMMA UpMore ==
    ASSUME NEW q \in Seq(Posts), NEW m \in Posts, NEW p, p = Append(q, m)
    PROVE  /\ p \in Seq(Posts)
           /\ \A T, r : Carries(p, T, r) => Carries(q, T, r) \/ (m.type \in T /\ m.request = r)
           /\ \A y, k : About(p, y, k) => About(q, y, k) \/ (m.type = y /\ m.session = k)
           /\ \A T : Sole(q, T) /\ (m.type \in T => ~ Carries(q, T, m.request)) => Sole(p, T)
<1>1. p = q \o <<m>>
  BY AppendIsJoin
<1>2. /\ <<m>> \in Seq(Posts)
      /\ \A T, r : Carries(<<m>>, T, r) <=> m.type \in T /\ m.request = r
      /\ \A y, k : About(<<m>>, y, k) <=> m.type = y /\ m.session = k
      /\ \A T : Sole(<<m>>, T)
  BY OneFacts
<1> QED BY ONLY <1>1, <1>2, q \in Seq(Posts), JoinedFacts

LEMMA DownMore ==
    ASSUME NEW m \in News, down \in Seq(News), down' = down \/ down' = Append(down, m)
    PROVE  /\ down' \in Seq(News)
           /\ \A T, r : Carries(down', T, r) =>
                          Carries(down, T, r) \/ (m.type \in T /\ m.request = r)
           /\ \A y, k : About(down', y, k) => About(down, y, k) \/ (m.type = y /\ m.session = k)
           /\ \A T : Sole(down, T) /\ (m.type \in T => ~ Carries(down, T, m.request))
                       => Sole(down', T)
<1>1. CASE down' = down
  BY <1>1
<1>2. CASE down' = Append(down, m)
  <2>1. down' = down \o <<m>>
    BY <1>2, AppendIsJoin
  <2>2. /\ <<m>> \in Seq(News)
        /\ \A T, r : Carries(<<m>>, T, r) <=> m.type \in T /\ m.request = r
        /\ \A y, k : About(<<m>>, y, k) <=> m.type = y /\ m.session = k
        /\ \A T : Sole(<<m>>, T)
    BY OneFacts
  <2> QED BY ONLY <2>1, <2>2, down \in Seq(News), JoinedFacts
<1> QED BY <1>1, <1>2

LEMMA UpInterrupt ==
    ASSUME OnceInv, NEW k \in W!Keys, up' = Append(up, W!Message("interrupt", k, None)), NEW a
    PROVE  UpLess(a)
<1>1. PICK m \in Posts : m = W!Message("interrupt", k, None)
  BY MessageFacts
<1>2. m.type \notin Starts /\ m.type \notin {"create"} /\ m.type # "attach"
  BY <1>1, MessageFacts DEF Starts
<1>3. up \in Seq(Posts) /\ Sole(up, Starts) /\ up' = Append(up, m)
  BY <1>1 DEF OnceInv
<1>4. PICK p : p = up'
  OBVIOUS
<1>5. p = Append(up, m)
  BY <1>3, <1>4
<1>6. /\ p \in Seq(Posts) /\ Sole(p, Starts)
      /\ \A T, r : Carries(p, T, r) => Carries(up, T, r) \/ (m.type \in T /\ m.request = r)
      /\ \A y, j : About(p, y, j) => About(up, y, j) \/ (m.type = y /\ m.session = j)
  BY ONLY <1>2, <1>3, <1>5, m \in Posts, UpMore
<1> QED BY ONLY <1>2, <1>4, <1>6 DEF UpLess

LEMMA UpRemoved ==
    ASSUME OnceInv, NEW i \in DOMAIN up, up' = W!RemoveAt(up, i), NEW a
    PROVE  UpLess(a)
<1>1. up \in Seq(Posts) /\ Sole(up, Starts)
  BY DEF OnceInv
<1>2. /\ up' \in Seq(Posts) /\ Len(up') = Len(up) - 1
      /\ \A j \in 1 .. Len(up') : up'[j] = IF j < i THEN up[j] ELSE up[j + 1]
  BY ONLY <1>1, i \in DOMAIN up, up' = W!RemoveAt(up, i), RemovedIsTaken
<1> QED BY ONLY <1>1, <1>2, i \in DOMAIN up, TakenFacts DEF UpLess

(* What is not the answer to a request tells the page of no session.        *)
LEMMA DownOther ==
    ASSUME OnceInv, NEW y \in {"error", "running", "end", "interrupted"},
           NEW k \in W!Keys \cup {None}, NEW r \in W!Requests \cup {None},
           down' = down \/ down' = Append(down, W!Message(y, k, r)), NEW a
    PROVE  DownLess(a)
<1>1. PICK m \in News : m = W!Message(y, k, r)
  BY MessageFacts
<1>2. m.type # "created" /\ m.type # "attached"
  BY <1>1, MessageFacts
<1>3. down \in Seq(News) /\ Sole(down, {"created"}) /\ (down' = down \/ down' = Append(down, m))
  BY <1>1 DEF OnceInv
<1> QED BY ONLY <1>2, <1>3, m \in News, DownMore DEF DownLess

LEMMA DownAttached ==
    ASSUME OnceInv, NEW k \in W!Sessions, About(up, "attach", k),
           down' = down \/ down' = Append(down, W!Message("attached", k, None))
    PROVE  DownLess(k)
<1>1. PICK m \in News : m = W!Message("attached", k, None)
  BY MessageFacts
<1>2. m.type = "attached" /\ m.session = k
  BY <1>1, MessageFacts
<1>3. down \in Seq(News) /\ Sole(down, {"created"}) /\ (down' = down \/ down' = Append(down, m))
  BY <1>1 DEF OnceInv
<1> QED BY ONLY <1>2, <1>3, About(up, "attach", k), m \in News, DownMore DEF DownLess

LEMMA DownTail ==
    ASSUME OnceInv, down # << >>, down' = Tail(down), NEW a
    PROVE  /\ DownLess(a)
           /\ Head(down).type = "created" => ~ Carries(down', {"created"}, Head(down).request)
<1>1. down \in Seq(News) /\ Sole(down, {"created"})
  BY DEF OnceInv
<1>2. /\ down' \in Seq(News) /\ Len(down') = Len(down) - 1 /\ 1 \in DOMAIN down
      /\ Head(down) = down[1]
      /\ \A j \in 1 .. Len(down') : down'[j] = IF j < 1 THEN down[j] ELSE down[j + 1]
  BY <1>1, TailIsTaken
<1>3. PICK p : p = down'
  OBVIOUS
<1>4. /\ \A T, r : Carries(p, T, r) => Carries(down, T, r)
      /\ \A y, k : About(p, y, k) => About(down, y, k)
      /\ \A T : Sole(down, T) => Sole(p, T)
      /\ \A T : Sole(down, T) /\ down[1].type \in T => ~ Carries(p, T, down[1].request)
  BY ONLY <1>1, <1>2, <1>3, TakenFacts
<1> QED BY ONLY <1>1, <1>2, <1>3, <1>4 DEF DownLess

-----------------------------------------------------------------------------
(* The session of a request that is not sent stays unmet.                   *)
StaysUnmet(a) ==
    \A r \in W!Requests : Unmet(r) /\ Sessionless(r)' =>
      /\ listed'[r] = None /\ active' # r /\ a # r /\ r \notin attached'
      /\ \A q \in W!Requests : req'[q].key # r

(* No composer waits for an attachment that did not.                        *)
WaitsLess == \A k \in W!Keys : ui'[k].attach = ui[k].attach \/ ui'[k].attach = None

ReqLess == \A r \in W!Requests : req'[r].at # "done" => req[r].at # "done"

LEMMA PlainStep ==
    ASSUME OnceInv, NEW a, NEW b, UpLess(a), DownLess(b), PageTypes', runs' = runs,
           ReqLess, WaitsLess, attached \subseteq attached', StaysUnmet(a)
    PROVE  OnceInv'
<1>1. ASSUME NEW r \in W!Requests, Unmet(r), Sessionless(r)'
      PROVE  Unmet(r)'
  <2>1. ~ About(up', "attach", r) /\ ~ About(down', "attached", r)
    BY <1>1 DEF Unmet, StaysUnmet, UpLess, DownLess
  <2> QED BY <1>1, <2>1 DEF Unmet, StaysUnmet
<1>2. \A k : /\ About(up', "attach", k) => About(up, "attach", k) \/ k \notin attached
             /\ About(down', "attached", k) => About(down, "attached", k) \/ About(up, "attach", k)
  BY DEF UpLess, DownLess
<1>3. \A r : /\ Carries(up', Starts, r) => Carries(up, Starts, r)
             /\ Carries(up', {"create"}, r) => Carries(up, {"create"}, r)
             /\ Carries(down', {"created"}, r) => Carries(down, {"created"}, r)
  BY DEF UpLess, DownLess
<1>4. Plain
  BY <1>1, <1>2, <1>3 DEF Plain, ReqLess, WaitsLess
<1>5. \A r \in W!Requests : Account(r)'
  BY <1>4, PlainSpares, SparedKeeps DEF OnceInv
<1> QED BY <1>5 DEF OnceInv, UpLess, DownLess

(* Marks of a composer do not say what it waits for.                        *)
LEMMA UnmarkedFacts ==
    ASSUME NEW u \in [W!Keys -> Composers], NEW k \in W!Keys
    PROVE  /\ W!Unmarked(u, k) \in [W!Keys -> Composers]
           /\ \A j \in W!Keys : W!Unmarked(u, k)[j].attach = u[j].attach
BY DEF W!Unmarked, Composers

LEMMA Dropped ==
    ASSUME NEW u \in [W!Keys -> Composers], NEW k \in W!Keys
    PROVE  LET v == [u EXCEPT ![k].initial = None, ![k].attach = None] IN
           /\ v \in [W!Keys -> Composers]
           /\ \A j \in W!Keys : v[j].attach = IF j = k THEN None ELSE u[j].attach
BY DEF Composers

LEMMA NavigateKeeps ==
    ASSUME OnceInv, NEW k \in W!Keys, W!Navigate(k)
    PROVE  OnceInv'
<1>1. PageTypes
  BY DEF OnceInv
<1>2. /\ active' = k /\ up' = up \o W!Attaches(k, socket.state, 2) /\ down' = down
      /\ runs' = runs /\ req' = req /\ listed' = listed /\ attached' = attached
      /\ running' = running /\ grants' = grants
      /\ k \in W!Sessions => listed[k] # None
  BY DEF W!Navigate, W!server
<1>3. ui' \in [W!Keys -> Composers] /\ \A j \in W!Keys : ui'[j].attach = ui[j].attach
  <2>1. CASE k \in W!Sessions
    <3>1. ui' = [ui EXCEPT ![k].running = listed[k]] /\ listed[k] \in BOOLEAN
      BY <1>1, <1>2, <2>1 DEF W!Navigate, PageTypes
    <3>2. ui \in [W!Keys -> Composers]
      BY <1>1 DEF PageTypes
    <3> QED BY ONLY <3>1, <3>2, k \in W!Keys DEF Composers
  <2>2. CASE k \notin W!Sessions
    BY <1>1, <2>2 DEF W!Navigate, PageTypes
  <2> QED BY <2>1, <2>2
<1>4. PageTypes' /\ WaitsLess
  BY <1>1, <1>2, <1>3, NameFacts DEF PageTypes, WaitsLess
<1>5. UpLess(k) /\ DownLess(k)
  BY <1>2, UpAttaches, DownSame
<1>6. StaysUnmet(k)
  BY <1>2, NameFacts DEF StaysUnmet, Unmet
<1> QED BY <1>2, <1>4, <1>5, <1>6, PlainStep DEF ReqLess

LEMMA StopKeeps ==
    ASSUME OnceInv, W!Stop
    PROVE  OnceInv'
<1>1. PageTypes
  BY DEF OnceInv
<1>2. /\ active' = active /\ down' = down /\ ui' = ui
      /\ runs' = runs /\ req' = req /\ listed' = listed /\ attached' = attached
      /\ running' = running /\ grants' = grants
      /\ up' = up \/ up' = Append(up, W!Message("interrupt", active, None))
  BY DEF W!Stop, W!server
<1>3. PageTypes' /\ WaitsLess /\ active \in W!Keys
  BY <1>1, <1>2 DEF PageTypes, WaitsLess
<1>4. UpLess(active) /\ DownLess(active)
  BY <1>2, <1>3, UpSame, UpInterrupt, DownSame
<1>5. StaysUnmet(active)
  BY <1>2 DEF StaysUnmet, Unmet
<1> QED BY <1>2, <1>3, <1>4, <1>5, PlainStep DEF ReqLess

LEMMA SubmitKeeps ==
    ASSUME OnceInv, NEW r \in W!Requests, W!Submit(r)
    PROVE  OnceInv'
<1>1. PageTypes
  BY DEF OnceInv
<1>2. /\ active' = active /\ down' = down /\ up' = up
      /\ runs' = runs /\ listed' = listed /\ attached' = attached
      /\ running' = running /\ grants' = grants
      /\ ui' = [ui EXCEPT ![active].running = TRUE, ![active].note = TRUE]
      /\ req[r].at = "unused"
  BY DEF W!Submit, W!server
<1>3. /\ ui' \in [W!Keys -> Composers] /\ \A j \in W!Keys : ui'[j].attach = ui[j].attach
      /\ active \in W!Keys /\ req \in [W!Requests -> Submissions]
  <2>1. ui \in [W!Keys -> Composers] /\ active \in W!Keys
        /\ req \in [W!Requests -> Submissions] /\ TRUE \in BOOLEAN
    BY <1>1 DEF PageTypes
  <2> QED BY ONLY <1>2, <2>1 DEF Composers
<1>4. PICK x : x = [at |-> "encoding", key |-> active, live |-> socket.state = "connected"]
  OBVIOUS
<1>5. x \in Submissions /\ x.at = "encoding" /\ x.key = active
  BY <1>3, <1>4 DEF Submissions
<1>6. req' = [req EXCEPT ![r] = x]
  BY <1>4 DEF W!Submit
<1>7. PageTypes' /\ WaitsLess
  BY <1>1, <1>2, <1>3, <1>5, <1>6, NameFacts DEF PageTypes, WaitsLess
<1>8. UpLess(active) /\ DownLess(active)
  BY <1>2, UpSame, DownSame
<1>9. \A q \in W!Requests : req'[q] = IF q = r THEN x ELSE req[q]
  BY <1>3, <1>6
<1>10. StaysUnmet(active) /\ ReqLess
  BY <1>2, <1>5, <1>9 DEF StaysUnmet, Unmet, ReqLess
<1> QED BY <1>2, <1>7, <1>8, <1>10, PlainStep

(* A request that is given up.                                              *)
LEMMA GivenUp ==
    ASSUME PageTypes, NEW r \in W!Requests, req[r].at # "unused",
           req' = [req EXCEPT ![r].at = "done"]
    PROVE  /\ req' \in [W!Requests -> Submissions] /\ ReqLess
           /\ \A q \in W!Requests : /\ req'[q].at = IF q = r THEN "done" ELSE req[q].at
                                    /\ req'[q].key = req[q].key
           /\ \A q \in W!Requests :
                /\ req'[q].at # "unused" => req'[q].key \in W!Keys
                /\ req'[q].at \in {"creating", "created"} => req'[q].key \in Drafts
<1>1. \A q \in W!Requests : /\ req'[q].at = IF q = r THEN "done" ELSE req[q].at
                            /\ req'[q].key = req[q].key
  BY DEF PageTypes, Submissions
<1>2. req' \in [W!Requests -> Submissions]
  BY DEF PageTypes, Submissions
<1> QED BY <1>1, <1>2 DEF ReqLess, PageTypes

LEMMA FailedKeeps ==
    ASSUME OnceInv, NEW r \in W!Requests, W!EncodeFailed(r) \/ W!RestFailed(r)
    PROVE  OnceInv'
<1>1. PageTypes
  BY DEF OnceInv
<1>2. /\ active' = active /\ down' = down /\ up' = up
      /\ runs' = runs /\ listed' = listed /\ attached' = attached
      /\ running' = running /\ grants' = grants
      /\ ui' = W!Unmarked(ui, active) /\ req' = [req EXCEPT ![r].at = "done"]
      /\ req[r].at # "unused"
  BY DEF W!EncodeFailed, W!RestFailed, W!Fails, W!server
<1>3. /\ ui' \in [W!Keys -> Composers] /\ \A j \in W!Keys : ui'[j].attach = ui[j].attach
  BY <1>1, <1>2, UnmarkedFacts DEF PageTypes
<1>4. /\ req' \in [W!Requests -> Submissions] /\ ReqLess
      /\ \A q \in W!Requests : /\ req'[q].at = IF q = r THEN "done" ELSE req[q].at
                               /\ req'[q].key = req[q].key
      /\ \A q \in W!Requests :
           /\ req'[q].at # "unused" => req'[q].key \in W!Keys
           /\ req'[q].at \in {"creating", "created"} => req'[q].key \in Drafts
  BY <1>1, <1>2, GivenUp
<1>5. PageTypes' /\ WaitsLess
  BY <1>1, <1>2, <1>3, <1>4, NameFacts DEF PageTypes, WaitsLess
<1>6. UpLess(active) /\ DownLess(active)
  BY <1>2, UpSame, DownSame
<1>7. StaysUnmet(active)
  BY <1>2, <1>4 DEF StaysUnmet, Unmet
<1> QED BY <1>2, <1>4, <1>5, <1>6, <1>7, PlainStep

LEMMA RestCreateKeeps ==
    ASSUME OnceInv, NEW r \in W!Requests, W!RestCreate(r)
    PROVE  OnceInv'
<1>1. PageTypes
  BY DEF OnceInv
<1>2. /\ active' = active /\ down' = down /\ up' = up /\ ui' = ui
      /\ runs' = runs /\ listed' = listed /\ attached' = attached /\ grants' = grants
      /\ W!NewSession(r) /\ req' = [req EXCEPT ![r].at = "created"]
      /\ req[r].at = "creating"
  BY DEF W!RestCreate, W!page
<1>3. DOMAIN running' \subseteq W!Sessions
  BY <1>1, <1>2, NameFacts DEF W!NewSession, PageTypes
<1>4. /\ req' \in [W!Requests -> Submissions]
      /\ \A q \in W!Requests : /\ req'[q].at = IF q = r THEN "created" ELSE req[q].at
                               /\ req'[q].key = req[q].key
  BY <1>1, <1>2 DEF PageTypes, Submissions
<1>5. PageTypes' /\ WaitsLess /\ ReqLess
  BY <1>1, <1>2, <1>3, <1>4 DEF PageTypes, WaitsLess, ReqLess
<1>6. UpLess(active) /\ DownLess(active)
  BY <1>2, UpSame, DownSame
<1>7. StaysUnmet(active)
  BY <1>2, <1>4 DEF StaysUnmet, Unmet
<1> QED BY <1>2, <1>5, <1>6, <1>7, PlainStep

(* The server handles a message that starts no turn, or refuses one.        *)
LEMMA ServedKeeps ==
    ASSUME OnceInv, NEW i \in DOMAIN up, up' = W!RemoveAt(up, i), UNCHANGED <<W!page, req, runs>>,
           DOMAIN running' \subseteq W!Sessions, grants' \subseteq W!Sessions, NEW b, DownLess(b)
    PROVE  OnceInv'
<1>1. PageTypes
  BY DEF OnceInv
<1>2. /\ active' = active /\ ui' = ui /\ runs' = runs /\ listed' = listed
      /\ attached' = attached /\ req' = req
  BY DEF W!page
<1>3. PageTypes' /\ WaitsLess /\ ReqLess
  BY <1>1, <1>2 DEF PageTypes, WaitsLess, ReqLess
<1>4. UpLess(active)
  BY UpRemoved
<1>5. StaysUnmet(active)
  BY <1>2 DEF StaysUnmet, Unmet
<1> QED BY <1>2, <1>3, <1>4, <1>5, PlainStep

LEMMA ServeAttachKeeps ==
    ASSUME OnceInv, NEW i \in DOMAIN up, W!ServeAttach(i), UNCHANGED <<W!page, req>>
    PROVE  OnceInv'
<1>1. PageTypes /\ up \in Seq(Posts)
  BY DEF OnceInv
<1>2. up[i] \in Posts /\ up[i].type = "attach"
  BY <1>1 DEF W!ServeAttach
<1>3. up[i].session \in W!Sessions
  BY <1>2 DEF Posts
<1>4. About(up, "attach", up[i].session)
  BY <1>2 DEF About
<1>5. down' = down \/ down' = Append(down, W!Message("attached", up[i].session, None))
  BY DEF W!ServeAttach, W!Down
<1>6. DownLess(up[i].session)
  BY <1>3, <1>4, <1>5, DownAttached
<1>7. /\ grants' = grants \/ grants' = grants \cup {up[i].session}
      /\ running' = running /\ runs' = runs /\ up' = W!RemoveAt(up, i)
  BY DEF W!ServeAttach
<1>8. DOMAIN running' \subseteq W!Sessions /\ grants' \subseteq W!Sessions
  BY <1>1, <1>3, <1>7 DEF PageTypes
<1> QED BY <1>6, <1>7, <1>8, ServedKeeps

LEMMA ServeInterruptKeeps ==
    ASSUME OnceInv, NEW i \in DOMAIN up, W!ServeInterrupt(i), UNCHANGED <<W!page, req>>
    PROVE  OnceInv'
<1>1. PageTypes /\ up \in Seq(Posts)
  BY DEF OnceInv
<1>2. up[i] \in Posts
  BY <1>1
<1>3. up[i].session \in W!Keys \cup {None}
  BY <1>2 DEF Posts
<1>4. PICK y \in {"error", "running", "end", "interrupted"} :
        down' = down \/ down' = Append(down, W!Message(y, up[i].session, None))
  BY DEF W!ServeInterrupt, W!Down
<1>5. DownLess(active)
  BY <1>3, <1>4, DownOther
<1>6. grants' = grants /\ running' = running /\ runs' = runs /\ up' = W!RemoveAt(up, i)
  BY DEF W!ServeInterrupt, W!server
<1>7. DOMAIN running' \subseteq W!Sessions /\ grants' \subseteq W!Sessions
  BY <1>1, <1>6 DEF PageTypes
<1> QED BY <1>5, <1>6, <1>7, ServedKeeps

(* A refused input, and a refused creation.                                 *)
LEMMA RefusedKeeps ==
    ASSUME OnceInv, NEW i \in DOMAIN up, up' = W!RemoveAt(up, i),
           UNCHANGED <<W!page, req, running, grants, runs>>,
           NEW k \in W!Keys \cup {None}, NEW r \in W!Requests \cup {None},
           W!Down(W!Message("error", k, r))
    PROVE  OnceInv'
<1>1. PageTypes
  BY DEF OnceInv
<1>2. down' = down \/ down' = Append(down, W!Message("error", k, r))
  BY DEF W!Down
<1>3. DownLess(active)
  BY <1>2, DownOther
<1>4. DOMAIN running' \subseteq W!Sessions /\ grants' \subseteq W!Sessions
  BY <1>1 DEF PageTypes
<1> QED BY <1>3, <1>4, ServedKeeps

(* A turn begins or ends that no request of the page is about.              *)
LEMMA TurnKeeps ==
    ASSUME OnceInv, NEW s \in DOMAIN running, W!EndTurn(s) \/ W!OtherTurn(s)
    PROVE  OnceInv'
<1>1. PageTypes
  BY DEF OnceInv
<1>2. PICK y \in {"error", "running", "end", "interrupted"} : W!Tell(y, s)
  BY DEF W!EndTurn, W!OtherTurn
<1>3. /\ active' = active /\ up' = up /\ ui' = ui
      /\ runs' = runs /\ listed' = listed /\ attached' = attached /\ grants' = grants
      /\ req' = req
      /\ down' = down \/ down' = Append(down, W!Message(y, s, None))
  BY <1>2 DEF W!EndTurn, W!OtherTurn, W!page, W!Tell
<1>4. DOMAIN running' = DOMAIN running
  BY DEF W!EndTurn, W!OtherTurn
<1>5. s \in W!Keys \cup {None}
  BY <1>1, NameFacts DEF PageTypes
<1>6. PageTypes' /\ WaitsLess /\ ReqLess
  BY <1>1, <1>3, <1>4 DEF PageTypes, WaitsLess, ReqLess
<1>7. UpLess(active) /\ DownLess(active)
  BY <1>3, <1>5, UpSame, DownOther
<1>8. StaysUnmet(active)
  BY <1>3 DEF StaysUnmet, Unmet
<1> QED BY <1>3, <1>6, <1>7, <1>8, PlainStep

LEMMA OnReadyKeeps ==
    ASSUME OnceInv, W!OnReady
    PROVE  OnceInv'
<1>1. PageTypes
  BY DEF OnceInv
<1>2. /\ active' = active /\ down' = down /\ ui' = ui /\ req' = req
      /\ runs' = runs /\ listed' = listed /\ attached' = attached
      /\ running' = running /\ grants' = grants
      /\ up' = up \o W!Attaches(active, "connected", 1)
  BY DEF W!OnReady, W!server, W!page
<1>3. PageTypes' /\ WaitsLess /\ ReqLess
  BY <1>1, <1>2 DEF PageTypes, WaitsLess, ReqLess
<1>4. UpLess(active) /\ DownLess(active)
  BY <1>2, UpAttaches, DownSame
<1>5. StaysUnmet(active)
  BY <1>2 DEF StaysUnmet, Unmet
<1> QED BY <1>2, <1>3, <1>4, <1>5, PlainStep

LEMMA CloseKeeps ==
    ASSUME OnceInv, NEW failed, W!Close(failed)
    PROVE  OnceInv'
<1>1. PageTypes
  BY DEF OnceInv
<1>2. /\ active' = active /\ down' = << >> /\ req' = req
      /\ runs' = runs /\ listed' = listed /\ attached' = attached
      /\ running' = running /\ grants' = {} /\ up' \in {up, << >>}
      /\ ui' = ui \/ W!Rejected
  BY DEF W!Close
<1>3. ui' \in [W!Keys -> Composers] /\ WaitsLess
  <2>1. ui \in [W!Keys -> Composers] /\ active \in W!Keys
    BY <1>1 DEF PageTypes
  <2>2. CASE ui' = ui
    BY <2>1, <2>2 DEF WaitsLess
  <2>3. CASE W!Rejected
    <3>1. PICK u : u = W!Unmarked(ui, active)
      OBVIOUS
    <3>2. u \in [W!Keys -> Composers] /\ \A j \in W!Keys : u[j].attach = ui[j].attach
      BY <2>1, <3>1, UnmarkedFacts
    <3>3. ui' = [u EXCEPT ![active].initial = None, ![active].attach = None]
      BY <2>3, <3>1 DEF W!Rejected
    <3>4. /\ ui' \in [W!Keys -> Composers]
          /\ \A j \in W!Keys : ui'[j].attach = IF j = active THEN None ELSE u[j].attach
      <4> PICK v : v = ui'
        OBVIOUS
      <4>1. v = [u EXCEPT ![active].initial = None, ![active].attach = None]
        BY <3>3
      <4>2. /\ v \in [W!Keys -> Composers]
            /\ \A j \in W!Keys : v[j].attach = IF j = active THEN None ELSE u[j].attach
        <5>1. active \in W!Keys /\ u \in [W!Keys -> Composers]
          BY <2>1, <3>2
        <5> QED BY ONLY <4>1, <5>1 DEF Composers
      <4> QED BY <4>2
    <3> QED BY <3>2, <3>4 DEF WaitsLess
  <2> QED BY <1>2, <2>2, <2>3
<1>4. PageTypes'
  BY <1>1, <1>2, <1>3, NameFacts DEF PageTypes, WaitsLess
<1>5. DownLess(active)
  BY <1>2, Emptied DEF DownLess
<1>6. UpLess(active)
  <2>1. CASE up' = up
    BY <2>1, UpSame
  <2>2. CASE up' = << >>
    BY <2>2, Emptied DEF UpLess
  <2> QED BY <1>2, <2>1, <2>2
<1>7. StaysUnmet(active) /\ ReqLess
  BY <1>2 DEF StaysUnmet, Unmet, ReqLess
<1> QED BY <1>2, <1>3, <1>4, <1>5, <1>6, <1>7, PlainStep

(* The page hears of a turn, or of a failure.                               *)
LEMMA HeardKeeps ==
    ASSUME OnceInv, down # << >>, down' = Tail(down), UNCHANGED <<req, running, grants, runs>>,
           W!OnSessionEvent(Head(down)) \/ W!OnProtocolError(Head(down))
    PROVE  OnceInv'
<1>1. PageTypes
  BY DEF OnceInv
<1> PICK m : m = Head(down)
  OBVIOUS
<1>2. /\ active' = active /\ up' = up /\ attached' = attached
      /\ listed' = listed \/ (listed[m.session] # None /\
                              listed' = [listed EXCEPT ![m.session] = m.type # "end"])
  BY DEF W!OnSessionEvent, W!OnProtocolError
<1>3. ui' \in [W!Keys -> Composers] /\ WaitsLess
  <2>1. ui \in [W!Keys -> Composers] /\ active \in W!Keys
    BY <1>1 DEF PageTypes
  <2>2. CASE W!OnSessionEvent(Head(down))
    <3>1. PICK b \in BOOLEAN : b = (m.type # "end")
      OBVIOUS
    <3>2. PICK d : d = (ui[m.session].note /\ m.type = "interrupted")
      OBVIOUS
    <3>3. ui' = [ui EXCEPT ![m.session].running = b, ![m.session].note = d]
      BY <2>2, <3>1, <3>2 DEF W!OnSessionEvent
    <3>4. CASE m.session \in W!Keys
      <4>1. d \in BOOLEAN
        BY <3>2
      <4>2. /\ ui' \in [W!Keys -> Composers]
            /\ \A j \in W!Keys : ui'[j].attach = ui[j].attach
        BY ONLY <2>1, <3>3, <3>4, <4>1, b \in BOOLEAN DEF Composers
      <4> QED BY <4>2 DEF WaitsLess
    <3>5. CASE m.session \notin W!Keys
      <4>1. ui' = ui
        BY ONLY <2>1, <3>3, <3>5
      <4> QED BY <2>1, <4>1 DEF WaitsLess
    <3> QED BY <3>4, <3>5
  <2>3. CASE W!OnProtocolError(Head(down))
    <3>1. PICK u : u = [ui EXCEPT ![active].initial = None, ![active].attach = None, ![active].note = FALSE]
      OBVIOUS
    <3>2. u \in [W!Keys -> Composers]
          /\ \A j \in W!Keys : u[j].attach = IF j = active THEN None ELSE ui[j].attach
      BY <2>1, <3>1 DEF Composers
    <3>3. ui' = u \/ ui' = [u EXCEPT ![active].running = FALSE]
      BY <2>3, <3>1 DEF W!OnProtocolError
    <3>4. ui' \in [W!Keys -> Composers] /\ \A j \in W!Keys : ui'[j].attach = u[j].attach
      BY <2>1, <3>2, <3>3, ZenonT(40) DEF Composers
    <3> QED BY <3>2, <3>4 DEF WaitsLess
  <2> QED BY <2>2, <2>3
<1>4. listed' \in [W!Sessions -> BOOLEAN \cup {None}]
      /\ \A r \in W!Requests : listed[r] = None => listed'[r] = None
  <2>1. listed \in [W!Sessions -> BOOLEAN \cup {None}]
    BY <1>1 DEF PageTypes
  <2>2. PICK b \in BOOLEAN : b = (m.type # "end")
    OBVIOUS
  <2>3. CASE listed' = listed
    BY <2>1, <2>3
  <2>4. CASE listed[m.session] # None /\ listed' = [listed EXCEPT ![m.session] = b]
    <3>1. listed' \in [W!Sessions -> BOOLEAN \cup {None}]
      BY ONLY <2>1, <2>4, b \in BOOLEAN
    <3>2. \A r \in W!Sessions : listed[r] = None => listed'[r] = None
      BY ONLY <2>1, <2>4
    <3> QED BY <3>1, <3>2, NameFacts
  <2> QED BY <1>2, <2>2, <2>3, <2>4
<1>5. PageTypes'
  BY <1>1, <1>2, <1>3, <1>4, NameFacts DEF PageTypes, WaitsLess
<1>6. UpLess(active) /\ DownLess(active)
  BY <1>2, UpSame, DownTail
<1>7. StaysUnmet(active) /\ ReqLess
  BY <1>2, <1>4 DEF StaysUnmet, Unmet, ReqLess
<1> QED BY <1>2, <1>3, <1>5, <1>6, <1>7, PlainStep

-----------------------------------------------------------------------------
(* The steps of a request.                                                  *)
HearsLess(a) ==
    /\ attached \subseteq attached'
    /\ \A k : About(up', "attach", k) => About(up, "attach", k) \/ (k = a /\ k \notin attached)
    /\ \A k : About(down', "attached", k) => About(down, "attached", k) \/ About(up, "attach", k)

LEMMA HearsFacts ==
    ASSUME NEW a, HearsLess(a)
    PROVE  /\ \A k \in W!Sessions : Live(k)' => Live(k)
           /\ \A r \in W!Requests : StaysUnmet(a) /\ Unmet(r) /\ Sessionless(r)' => Unmet(r)'
<1>1. \A k \in W!Sessions : Live(k)' => Live(k)
  BY DEF HearsLess, Live
<1>2. ASSUME NEW r \in W!Requests, StaysUnmet(a), Unmet(r), Sessionless(r)'
      PROVE  Unmet(r)'
  <2>1. ~ About(up', "attach", r) /\ ~ About(down', "attached", r)
    BY <1>2 DEF Unmet, StaysUnmet, HearsLess
  <2> QED BY <1>2, <2>1 DEF Unmet, StaysUnmet
<1> QED BY <1>1, <1>2

(* The messages of every request but r come or go as they were.             *)
CarriesLess(r) ==
    \A q \in W!Requests : q # r =>
      /\ Carries(up', Starts, q) => Carries(up, Starts, q)
      /\ Carries(up', {"create"}, q) => Carries(up, {"create"}, q)
      /\ Carries(down', {"created"}, q) => Carries(down, {"created"}, q)

(* What a step about request r leaves of every other.                       *)
LEMMA OthersKept ==
    ASSUME OnceInv, NEW a, HearsLess(a), NEW r \in W!Requests, CarriesLess(r), StaysUnmet(a),
           ReqLess, \A q \in W!Requests : q # r => runs'[q] = runs[q],
           \A k \in W!Keys : \/ ui'[k].attach = ui[k].attach \/ ui'[k].attach = None
                             \/ ui'[k].attach = r
    PROVE  \A q \in W!Requests : q # r => Account(q)'
<1> TAKE q \in W!Requests
<1> HAVE q # r
<1>1. \A k \in W!Keys : ui'[k].attach = q => ui[k].attach = q
  BY NameFacts
<1>2. \A k \in Waits(q)' : k \in Waits(q)
  BY <1>1, HearsFacts, NameFacts DEF Waits
<1>3. Sessionless(q)' => Sessionless(q)
  BY DEF Sessionless, CarriesLess, ReqLess
<1>4. Spared(q)
  BY <1>1, <1>2, <1>3, HearsFacts DEF Spared, CarriesLess, ReqLess
<1> QED BY <1>4, SparedKeeps DEF OnceInv

LEMMA ServeInputKeeps ==
    ASSUME OnceInv, NEW i \in DOMAIN up, up[i].type = "input", up' = W!RemoveAt(up, i),
           UNCHANGED <<W!page, req, grants>>, DOMAIN running' = DOMAIN running,
           runs' = [runs EXCEPT ![up[i].request] = @ + 1], W!Tell("running", up[i].session)
    PROVE  OnceInv'
<1>1. PageTypes /\ up \in Seq(Posts) /\ Sole(up, Starts)
  BY DEF OnceInv
<1>2. up[i] \in Posts /\ up[i].type \in Starts
  BY <1>1 DEF Starts
<1> PICK r : r = up[i].request
  OBVIOUS
<1>3. r \in W!Requests /\ up[i].session \in W!Keys \cup {None}
  BY <1>2 DEF Posts
<1>4. Carries(up, Starts, r)
  BY <1>2 DEF Carries
<1>5. ~ Carries(up', Starts, r)
  <2>1. /\ up' \in Seq(Posts) /\ Len(up') = Len(up) - 1
        /\ \A j \in 1 .. Len(up') : up'[j] = IF j < i THEN up[j] ELSE up[j + 1]
    BY <1>1, RemovedIsTaken, SMTT(30)
  <2>2. PICK p : p = up'
    OBVIOUS
  <2>3. \A T : Sole(up, T) /\ up[i].type \in T => ~ Carries(p, T, up[i].request)
    BY ONLY <1>1, <2>1, <2>2, i \in DOMAIN up, TakenFacts
  <2> QED BY <1>1, <1>2, <2>2, <2>3
<1>6. UpLess(active) /\ DownLess(active)
  <2>1. down' = down \/ down' = Append(down, W!Message("running", up[i].session, None))
    BY DEF W!Tell
  <2> QED BY <1>3, <2>1, UpRemoved, DownOther
<1>7. /\ active' = active /\ ui' = ui /\ listed' = listed /\ attached' = attached /\ req' = req
      /\ runs' \in [W!Requests -> Nat]
      /\ \A q \in W!Requests : runs'[q] = IF q = r THEN runs[q] + 1 ELSE runs[q]
  BY <1>1, <1>3 DEF W!page, PageTypes
<1>8. PageTypes' /\ ReqLess
  BY <1>1, <1>7 DEF PageTypes, ReqLess
<1>9. StaysUnmet(active) /\ HearsLess(active) /\ CarriesLess(r)
  BY <1>6, <1>7 DEF StaysUnmet, Unmet, HearsLess, UpLess, DownLess, CarriesLess
<1>10. \A q \in W!Requests : q # r => Account(q)'
  BY <1>3, <1>7, <1>8, <1>9, OthersKept
<1>11. Account(r)'
  <2>1. Account(r)
    BY <1>3 DEF OnceInv
  <2>2. runs'[r] = 1 /\ req'[r].at = "done" /\ Waits(r) = {}
    BY <1>3, <1>4, <1>7, <2>1 DEF Account
  <2>3. Waits(r)' = {}
    BY <1>7, <1>9, <2>2, HearsFacts DEF Waits
  <2>4. Carries(up', {"create"}, r) => Carries(up, {"create"}, r)
    BY <1>6 DEF UpLess
  <2>5. Carries(down', {"created"}, r) => Carries(down, {"created"}, r)
    BY <1>6 DEF DownLess
  <2>6. Sessionless(r)' => Sessionless(r)
    BY <2>2, <2>4, <2>5 DEF Sessionless
  <2>7. Sessionless(r)' => Unmet(r)'
    BY <1>3, <1>9, <2>1, <2>6, HearsFacts DEF Account
  <2> QED BY <1>5, <2>1, <2>2, <2>3, <2>4, <2>5, <2>7 DEF Account
<1> QED BY <1>3, <1>6, <1>8, <1>10, <1>11 DEF OnceInv, UpLess, DownLess

LEMMA ServeCreateKeeps ==
    ASSUME OnceInv, NEW i \in DOMAIN up, up[i].type = "create", NEW r, r = up[i].request,
           up' = Append(W!RemoveAt(up, i), W!Message("input", r, r)),
           W!Down(W!Message("created", r, r)), UNCHANGED <<W!page, req, runs>>,
           W!NewSession(r), grants' = grants \cup {r}
    PROVE  OnceInv'
<1>1. PageTypes /\ up \in Seq(Posts) /\ Sole(up, Starts) /\ down \in Seq(News)
      /\ Sole(down, {"created"})
  BY DEF OnceInv
<1>2. up[i] \in Posts /\ up[i].type \in Starts
  BY <1>1 DEF Starts
<1>3. r \in W!Requests /\ r \in W!Sessions /\ r \in W!Keys
  BY <1>2, NameFacts DEF Posts
<1>4. Carries(up, Starts, r) /\ Carries(up, {"create"}, r)
  BY <1>2 DEF Carries
<1>5. Account(r)
  BY <1>3 DEF OnceInv
<1>6. PICK p : p = W!RemoveAt(up, i)
  OBVIOUS
<1>7. /\ p \in Seq(Posts) /\ Len(p) = Len(up) - 1
      /\ \A j \in 1 .. Len(p) : p[j] = IF j < i THEN up[j] ELSE up[j + 1]
  <2>1. up \in Seq(Posts)
    BY <1>1
  <2> QED BY ONLY <2>1, <1>6, i \in DOMAIN up, RemovedIsTaken, ZenonT(60)
<1>8. /\ \A T, q : Carries(p, T, q) => Carries(up, T, q)
      /\ \A y, k : About(p, y, k) => About(up, y, k)
      /\ \A T : Sole(up, T) => Sole(p, T)
      /\ \A T : Sole(up, T) /\ up[i].type \in T => ~ Carries(p, T, up[i].request)
  BY ONLY <1>1, <1>7, i \in DOMAIN up, TakenFacts
<1>9. ~ Carries(p, Starts, r)
  BY <1>1, <1>2, <1>8
<1>10. PICK m \in Posts : m = W!Message("input", r, r)
  BY <1>3, MessageFacts
<1>11. m.type = "input" /\ m.request = r /\ m.type \in Starts /\ m.type \notin {"create"}
  BY <1>10, MessageFacts DEF Starts
<1>12. PICK u : u = up'
  OBVIOUS
<1>13. u = Append(p, m)
  BY <1>6, <1>10, <1>12
<1>14. /\ u \in Seq(Posts)
       /\ \A T, q : Carries(u, T, q) => Carries(p, T, q) \/ (m.type \in T /\ m.request = q)
       /\ \A y, k : About(u, y, k) => About(p, y, k) \/ (m.type = y /\ m.session = k)
       /\ \A T : Sole(p, T) /\ (m.type \in T => ~ Carries(p, T, m.request)) => Sole(u, T)
  BY ONLY <1>7, <1>13, m \in Posts, UpMore
<1>15. /\ up' \in Seq(Posts) /\ Sole(up', Starts)
       /\ \A q : Carries(up', Starts, q) => Carries(up, Starts, q)
       /\ \A q : Carries(up', {"create"}, q) => Carries(p, {"create"}, q)
       /\ \A k : About(up', "attach", k) => About(up, "attach", k)
  BY ONLY <1>1, <1>4, <1>8, <1>9, <1>11, <1>12, <1>14
<1>16. ~ Carries(up', {"create"}, r)
  BY <1>9, <1>15, SMTT(30) DEF Carries, Starts
<1>17. PICK n \in News : n = W!Message("created", r, r)
  BY <1>3, MessageFacts
<1>18. n.type = "created" /\ n.request = r
  BY <1>17, MessageFacts
<1>19. down' = down \/ down' = Append(down, n)
  BY <1>17 DEF W!Down
<1>20. ~ Carries(down, {"created"}, r)
  BY <1>4, <1>5 DEF Account
<1>21. /\ down' \in Seq(News) /\ Sole(down', {"created"})
       /\ \A q : Carries(down', {"created"}, q) => Carries(down, {"created"}, q) \/ q = r
       /\ \A k : About(down', "attached", k) => About(down, "attached", k)
  BY ONLY <1>1, <1>18, <1>19, <1>20, n \in News, DownMore
<1>22. /\ active' = active /\ ui' = ui /\ listed' = listed /\ attached' = attached /\ req' = req
       /\ runs' = runs
  BY DEF W!page
<1>23. PageTypes' /\ ReqLess
  BY <1>1, <1>3, <1>22 DEF PageTypes, ReqLess, W!NewSession
<1>24. HearsLess(active) /\ StaysUnmet(active)
  BY <1>15, <1>21, <1>22 DEF HearsLess, StaysUnmet, Unmet
<1>25. CarriesLess(r)
  BY <1>8, <1>15, <1>21 DEF CarriesLess
<1>26. \A q \in W!Requests : q # r => Account(q)'
  BY <1>3, <1>22, <1>23, <1>24, <1>25, OthersKept
<1>27. Account(r)'
  <2>1. runs[r] = 0 /\ req[r].at = "done" /\ Waits(r) = {} /\ Unmet(r) /\ Sessionless(r)
    BY <1>4, <1>5 DEF Account, Sessionless
  <2>2. Waits(r)' = {}
    BY <1>22, <1>24, <2>1, HearsFacts DEF Waits
  <2>3. Sessionless(r)' => Unmet(r)'
    BY <1>3, <1>24, <2>1, HearsFacts
  <2> QED BY <1>16, <1>22, <2>1, <2>2, <2>3 DEF Account
<1> QED BY <1>15, <1>21, <1>23, <1>26, <1>27 DEF OnceInv

(* The attachment arrives: who waited for it no longer does.                *)
LEMMA OnAttachedKeeps ==
    ASSUME OnceInv, down # << >>, down' = Tail(down), UNCHANGED <<req, running, grants, runs>>,
           Head(down).type = "attached", W!OnAttached(Head(down))
    PROVE  OnceInv'
<1>1. PageTypes /\ up \in Seq(Posts) /\ Sole(up, Starts) /\ down \in Seq(News)
  BY DEF OnceInv
<1> PICK s : s = Head(down).session
  OBVIOUS
<1>2. 1 \in DOMAIN down /\ Head(down) = down[1] /\ Head(down) \in News
  BY <1>1
<1>3. s \in W!Sessions /\ s \in W!Keys /\ About(down, "attached", s)
  BY <1>2, NameFacts DEF News, About
<1> PICK r : r = ui[s].attach
  OBVIOUS
<1>4. /\ active' = active /\ listed' = listed /\ attached' = attached \cup {s}
      /\ ui' = IF r # None THEN [ui EXCEPT ![s].attach = None, ![s].running = TRUE] ELSE ui
      /\ up' = IF r # None THEN Append(up, W!Message("input", s, r)) ELSE up
  BY DEF W!OnAttached
<1>5. DownLess(active)
  BY DownTail
<1>6. ui \in [W!Keys -> Composers] /\ r \in W!Requests \cup {None}
  BY <1>1, <1>3 DEF PageTypes, Composers
<1>7. /\ ui' \in [W!Keys -> Composers] /\ WaitsLess
      /\ \A k \in W!Keys : k # s => ui'[k].attach = ui[k].attach
      /\ ui'[s].attach = None
  <2>1. CASE r = None
    BY <1>3, <1>4, <1>6, <2>1 DEF WaitsLess
  <2>2. CASE r # None
    <3>1. ui' = [ui EXCEPT ![s].attach = None, ![s].running = TRUE]
      BY <1>4, <2>2
    <3>2. /\ ui' \in [W!Keys -> Composers]
          /\ \A k \in W!Keys : ui'[k].attach = IF k = s THEN None ELSE ui[k].attach
      BY ONLY <1>3, <1>6, <3>1 DEF Composers
    <3> QED BY <1>3, <3>2 DEF WaitsLess
  <2> QED BY <2>1, <2>2
<1>8. PageTypes' /\ ReqLess
  BY <1>1, <1>3, <1>4, <1>7, NameFacts DEF PageTypes, ReqLess, WaitsLess
<1>9. StaysUnmet(active)
  BY <1>3, <1>4 DEF StaysUnmet, Unmet
<1>10. CASE r = None
  <2>1. UpLess(active)
    BY <1>4, <1>10, UpSame
  <2> QED BY <1>4, <1>5, <1>7, <1>8, <1>9, <2>1, PlainStep
<1>11. CASE r # None
  <2>1. r \in W!Requests /\ Account(r)
    BY <1>6, <1>11 DEF OnceInv
  <2>2. s \in Waits(r)
    BY <1>3 DEF Waits, Live
  <2>3. /\ req[r].at = "done" /\ ~ Carries(up, Starts, r) /\ runs[r] # 1 /\ runs[r] <= 1
        /\ runs[r] \in Nat /\ \A k \in Waits(r) : k = s
    BY <1>1, <1>3, <2>1, <2>2 DEF Account, PageTypes
  <2>4. PICK m \in Posts : m = W!Message("input", s, r)
    BY <1>3, <2>1, MessageFacts
  <2>5. /\ m.type = "input" /\ m.request = r /\ m.type \in Starts /\ m.type \notin {"create"}
        /\ m.type # "attach"
    BY <2>4, MessageFacts DEF Starts
  <2>6. PICK u : u = up'
    OBVIOUS
  <2>7. u = Append(up, m)
    BY <1>4, <1>11, <2>4, <2>6
  <2>8. /\ u \in Seq(Posts)
        /\ \A T, q : Carries(u, T, q) => Carries(up, T, q) \/ (m.type \in T /\ m.request = q)
        /\ \A y, k : About(u, y, k) => About(up, y, k) \/ (m.type = y /\ m.session = k)
        /\ \A T : Sole(up, T) /\ (m.type \in T => ~ Carries(up, T, m.request)) => Sole(u, T)
    BY ONLY <1>1, <2>7, m \in Posts, UpMore
  <2>9. /\ up' \in Seq(Posts) /\ Sole(up', Starts)
        /\ \A q : Carries(up', Starts, q) => Carries(up, Starts, q) \/ q = r
        /\ \A q : Carries(up', {"create"}, q) => Carries(up, {"create"}, q)
        /\ \A k : About(up', "attach", k) => About(up, "attach", k)
    BY ONLY <1>1, <2>3, <2>5, <2>6, <2>8
  <2>10. HearsLess(active) /\ CarriesLess(r)
    BY <1>4, <1>5, <2>9 DEF HearsLess, CarriesLess, DownLess
  <2>11. \A q \in W!Requests : q # r => Account(q)'
    BY <1>7, <1>8, <1>9, <2>1, <2>10, OthersKept DEF WaitsLess
  <2>12. Waits(r)' = {}
    <3>1. ASSUME NEW k \in Waits(r)'
          PROVE  FALSE
      <4>1. k \in W!Sessions /\ ui'[k].attach = r /\ Live(k)' /\ k \in W!Keys
        BY NameFacts DEF Waits
      <4>2. k # s /\ ui[k].attach = r /\ Live(k)
        BY <1>7, <1>11, <2>10, <4>1, HearsFacts
      <4> QED BY <2>3, <4>1, <4>2 DEF Waits
    <3> QED BY <3>1
  <2>13. Account(r)'
    <3>1. runs'[r] = 0 /\ req'[r].at = "done"
      BY <2>3
    <3>2. Carries(down', {"created"}, r) => Carries(down, {"created"}, r)
      BY <1>5 DEF DownLess
    <3>3. Sessionless(r)' => Sessionless(r)
      BY <2>3, <2>9, <3>2 DEF Sessionless
    <3>4. Sessionless(r)' => Unmet(r)'
      BY <1>9, <2>1, <2>10, <3>3, HearsFacts DEF Account
    <3> QED BY <2>1, <2>9, <2>12, <3>1, <3>2, <3>4 DEF Account
  <2> QED BY <1>5, <1>8, <2>9, <2>11, <2>13 DEF OnceInv, DownLess
<1> QED BY <1>10, <1>11

(* sendMessage: the request goes out, waits for the attachment or ends; t   *)
(* is what the page sends with it of attachments of the same session.       *)
LEMMA SendKeeps ==
    ASSUME OnceInv, NEW r \in W!Requests, req[r].at \in {"encoding", "created"},
           req' = [req EXCEPT ![r].at = "done"], NEW s \in W!Sessions,
           NEW u \in [W!Keys -> Composers],
           \A k \in W!Keys : u[k].attach = ui[k].attach \/ u[k].attach = None,
           NEW t \in Seq(Posts), Sole(t, Starts),
           \A T \in {Starts, {"create"}} : \A q : ~ Carries(t, T, q),
           \A j : About(t, "attach", j) => j = s /\ j \notin attached,
           NEW d, W!SendMessage(r, s, u, d, t), active' = active \/ active' = s,
           UNCHANGED <<attached, down, running, grants, runs>>,
           \A q \in W!Requests : q # r /\ Unmet(q) => s # q
    PROVE  OnceInv'
<1>1. PageTypes /\ up \in Seq(Posts) /\ Sole(up, Starts) /\ Account(r)
  BY DEF OnceInv
<1>2. /\ runs[r] = 0 /\ ~ Carries(up, Starts, r) /\ ~ Carries(down, {"created"}, r)
      /\ \A k \in W!Keys : ui[k].attach # r
  BY <1>1 DEF Account
<1>3. ~ Carries(up, {"create"}, r)
  BY <1>2 DEF Carries, Starts
<1>4. s \in W!Keys /\ s \notin Drafts /\ r # None
  BY NameFacts
<1>5. /\ req' \in [W!Requests -> Submissions] /\ ReqLess /\ req'[r].at = "done"
      /\ \A q \in W!Requests : req'[q].key = req[q].key
      /\ \A q \in W!Requests :
           /\ req'[q].at # "unused" => req'[q].key \in W!Keys
           /\ req'[q].at \in {"creating", "created"} => req'[q].key \in Drafts
  BY <1>1, GivenUp
<1>6. PICK a \in Posts : a = W!Message("attach", s, None)
  BY MessageFacts
<1>7. PICK m \in Posts : m = W!Message("input", s, r)
  BY <1>4, MessageFacts
<1>8. /\ a.type = "attach" /\ a.session = s /\ m.type = "input" /\ m.request = r
      /\ a.type \notin Starts /\ m.type \in Starts
      /\ a.type \notin {"create"} /\ m.type \notin {"create"} /\ m.type # "attach"
  BY <1>6, <1>7, MessageFacts DEF Starts
<1> PICK v : v = up'
  OBVIOUS
<1> DEFINE
      Sent == /\ v \in Seq(Posts) /\ Sole(v, Starts)
              /\ \A q : Carries(v, Starts, q) => Carries(up, Starts, q) \/ q = r
              /\ \A q : Carries(v, {"create"}, q) => Carries(up, {"create"}, q)
              /\ \A k : About(v, "attach", k) => About(up, "attach", k) \/ (k = s /\ k \notin attached)
      Met == /\ listed' \in [W!Sessions -> BOOLEAN \cup {None}]
             /\ \A q \in W!Requests : q # s => listed'[q] = listed[q]
      Quits == \A k \in W!Keys : ui'[k].attach # r
      Waiting == ~ Carries(v, Starts, r) /\ \A k \in W!Keys : ui'[k].attach = r => k = s
      Shown == /\ ui' \in [W!Keys -> Composers]
               /\ \A k \in W!Keys : \/ ui'[k].attach = ui[k].attach \/ ui'[k].attach = None
                                    \/ k = s /\ ui'[k].attach = r
<1>9. listed \in [W!Sessions -> BOOLEAN \cup {None}]
  BY <1>1 DEF PageTypes
<1>10. ASSUME s \in attached /\ socket.open
       PROVE  Sent /\ Met /\ Shown /\ (Quits \/ Waiting)
  <2>1. /\ v = (up \o t) \o <<m>> /\ ui' = [u EXCEPT ![s].running = TRUE]
        /\ listed' = [listed EXCEPT ![s] = TRUE]
    BY <1>7, <1>10 DEF W!SendMessage
  <2>2. PICK w : w = up \o t
    OBVIOUS
  <2>3. /\ w \in Seq(Posts)
        /\ \A T, q : Carries(w, T, q) => Carries(up, T, q) \/ Carries(t, T, q)
        /\ \A y, k : About(w, y, k) => About(up, y, k) \/ About(t, y, k)
        /\ \A T : Sole(up, T) /\ Sole(t, T) /\ (\A q : ~(Carries(up, T, q) /\ Carries(t, T, q)))
                    => Sole(w, T)
    BY ONLY <1>1, <2>2, t \in Seq(Posts), JoinedFacts
  <2>4. v = Append(w, m)
    BY <2>1, <2>2, <2>3, AppendIsJoin
  <2>5. /\ v \in Seq(Posts)
        /\ \A T, q : Carries(v, T, q) => Carries(w, T, q) \/ (m.type \in T /\ m.request = q)
        /\ \A y, k : About(v, y, k) => About(w, y, k) \/ (m.type = y /\ m.session = k)
        /\ \A T : Sole(w, T) /\ (m.type \in T => ~ Carries(w, T, m.request)) => Sole(v, T)
    BY ONLY <2>3, <2>4, m \in Posts, UpMore
  <2>6. Sole(w, Starts) /\ ~ Carries(w, Starts, r)
    BY <1>1, <1>2, <2>3
  <2>7. Sent
    BY <1>8, <2>3, <2>5, <2>6
  <2>8. ui' \in [W!Keys -> Composers] /\ \A k \in W!Keys : ui'[k].attach = u[k].attach
    BY ONLY <1>4, <2>1, u \in [W!Keys -> Composers] DEF Composers
  <2>9. Shown /\ Quits
    BY <1>2, <1>4, <2>8
  <2>10. Met
    BY <1>9, <2>1
  <2> QED BY <2>7, <2>9, <2>10
<1>11. ASSUME s \notin attached /\ socket.open /\ req[r].live
       PROVE  Sent /\ Met /\ Shown /\ (Quits \/ Waiting)
  <2>1. /\ v = (up \o <<a>>) \o t /\ ui' = [u EXCEPT ![s].attach = r]
        /\ listed' = [listed EXCEPT ![s] = IF @ = None THEN FALSE ELSE @]
    BY <1>6, <1>11 DEF W!SendMessage
  <2>2. PICK w : w = Append(up, a)
    OBVIOUS
  <2>3. /\ w \in Seq(Posts)
        /\ \A T, q : Carries(w, T, q) => Carries(up, T, q) \/ (a.type \in T /\ a.request = q)
        /\ \A y, k : About(w, y, k) => About(up, y, k) \/ (a.type = y /\ a.session = k)
        /\ \A T : Sole(up, T) /\ (a.type \in T => ~ Carries(up, T, a.request)) => Sole(w, T)
    BY ONLY <1>1, <2>2, a \in Posts, UpMore
  <2>4. v = w \o t
    BY <1>1, <2>1, <2>2, AppendIsJoin
  <2>5. /\ v \in Seq(Posts)
        /\ \A T, q : Carries(v, T, q) => Carries(w, T, q) \/ Carries(t, T, q)
        /\ \A y, k : About(v, y, k) => About(w, y, k) \/ About(t, y, k)
        /\ \A T : Sole(w, T) /\ Sole(t, T) /\ (\A q : ~(Carries(w, T, q) /\ Carries(t, T, q)))
                    => Sole(v, T)
    BY ONLY <2>3, <2>4, t \in Seq(Posts), JoinedFacts
  <2>6. Sole(w, Starts) /\ ~ Carries(w, Starts, r)
    BY <1>1, <1>2, <1>8, <2>3
  <2>7. Sent /\ ~ Carries(v, Starts, r)
    BY <1>8, <1>11, <2>3, <2>5, <2>6
  <2>8. /\ ui' \in [W!Keys -> Composers]
        /\ \A k \in W!Keys : ui'[k].attach = IF k = s THEN r ELSE u[k].attach
    BY ONLY <1>4, <2>1, r \in W!Requests, u \in [W!Keys -> Composers] DEF Composers
  <2>9. Shown /\ Waiting
    BY <1>2, <1>4, <2>7, <2>8
  <2>10. Met
    BY <1>9, <2>1
  <2> QED BY <2>7, <2>9, <2>10
<1>12. ASSUME ~ (s \in attached /\ socket.open),
             ~ (s \notin attached /\ socket.open /\ req[r].live)
       PROVE  Sent /\ Met /\ Shown /\ (Quits \/ Waiting)
  <2>1. /\ v = up /\ ui' = W!Unmarked(u, s)
        /\ listed' = [listed EXCEPT ![s] = IF @ = None THEN FALSE ELSE @]
    BY <1>12 DEF W!SendMessage
  <2>2. ui' \in [W!Keys -> Composers] /\ \A k \in W!Keys : ui'[k].attach = u[k].attach
    BY <1>4, <2>1, UnmarkedFacts
  <2>3. Sent /\ Shown /\ Quits
    BY <1>1, <1>2, <1>4, <2>1, <2>2
  <2>4. Met
    BY <1>9, <2>1
  <2> QED BY <2>3, <2>4
<1>13. Sent /\ Met /\ Shown /\ (Quits \/ Waiting)
  BY <1>10, <1>11, <1>12
<1>14. PageTypes'
  BY <1>1, <1>4, <1>5, <1>13, NameFacts DEF PageTypes
<1>15. ~ Carries(v, {"create"}, r) /\ ~ Sessionless(r)'
  BY <1>2, <1>3, <1>5, <1>13 DEF Sessionless
<1>16. StaysUnmet(s) /\ HearsLess(s) /\ CarriesLess(r)
  <2>1. HearsLess(s) /\ CarriesLess(r)
    BY <1>13 DEF HearsLess, CarriesLess
  <2>2. ASSUME NEW q \in W!Requests, Unmet(q), Sessionless(q)'
        PROVE  /\ listed'[q] = None /\ active' # q /\ s # q /\ q \notin attached'
               /\ \A x \in W!Requests : req'[x].key # q
    <3>1. q # r /\ s # q
      BY <1>15, <2>2
    <3> QED BY <1>5, <1>13, <2>2, <3>1 DEF Unmet
  <2> QED BY <2>1, <2>2 DEF StaysUnmet
<1>17. \A q \in W!Requests : q # r => Account(q)'
  BY <1>5, <1>13, <1>16, OthersKept
<1>18. Account(r)'
  <2>1. \A k, l \in Waits(r)' : k = l
    BY <1>13, NameFacts DEF Waits
  <2>2. Carries(up', Starts, r) => Waits(r)' = {}
    BY <1>13, NameFacts DEF Waits
  <2>3. runs'[r] = 0 /\ runs'[r] <= 1
    BY <1>2
  <2> QED BY <1>5, <1>15, <2>1, <2>2, <2>3 DEF Account
<1> QED BY <1>13, <1>14, <1>17, <1>18 DEF OnceInv

(* The attachments are read: the request goes to the session it was made    *)
(* in, or a session is asked for.                                           *)
LEMMA EncodedKeeps ==
    ASSUME OnceInv, NEW r \in W!Requests, W!Encoded(r)
    PROVE  OnceInv'
<1>1. PageTypes /\ up \in Seq(Posts) /\ Sole(up, Starts) /\ Account(r)
  BY DEF OnceInv
<1>2. /\ req[r].at = "encoding" /\ req[r].key \in W!Keys /\ ui \in [W!Keys -> Composers]
      /\ active \in W!Keys /\ req \in [W!Requests -> Submissions]
  BY <1>1 DEF W!Encoded, PageTypes
<1>3. /\ active' = active /\ attached' = attached /\ down' = down /\ running' = running
      /\ grants' = grants /\ runs' = runs
  BY DEF W!Encoded, W!server
<1>4. CASE req[r].key \in W!Sessions
  <2>1. /\ W!SendMessage(r, req[r].key, ui, actions \ {<<"submit", req[r].key>>}, << >>)
        /\ req' = [req EXCEPT ![r].at = "done"]
    BY <1>4 DEF W!Encoded
  <2>2. \A q \in W!Requests : q # r /\ Unmet(q) => req[r].key # q
    BY DEF Unmet
  <2>3. /\ << >> \in Seq(Posts) /\ Sole(<< >>, Starts)
        /\ \A T \in {Starts, {"create"}} : \A q : ~ Carries(<< >>, T, q)
        /\ \A j : About(<< >>, "attach", j) => j = req[r].key /\ j \notin attached
    BY Emptied
  <2> QED BY <1>2, <1>3, <1>4, <2>1, <2>2, <2>3, SendKeeps
<1>5. CASE req[r].key \notin W!Sessions /\ req[r].live /\ socket.open
  <2>1. /\ ui' = [ui EXCEPT ![active].initial = r] /\ up' = Append(up, W!Message("create", None, r))
        /\ req' = [req EXCEPT ![r].at = "done"] /\ listed' = listed
    BY <1>5 DEF W!Encoded
  <2>2. /\ req' \in [W!Requests -> Submissions] /\ ReqLess /\ req'[r].at = "done"
        /\ \A q \in W!Requests : req'[q].key = req[q].key
        /\ \A q \in W!Requests :
             /\ req'[q].at # "unused" => req'[q].key \in W!Keys
             /\ req'[q].at \in {"creating", "created"} => req'[q].key \in Drafts
    BY <1>1, <1>2, <2>1, GivenUp
  <2>3. ui' \in [W!Keys -> Composers] /\ \A k \in W!Keys : ui'[k].attach = ui[k].attach
    BY ONLY <1>2, <2>1, r \in W!Requests DEF Composers
  <2>4. PageTypes'
    BY <1>1, <1>3, <2>1, <2>2, <2>3, NameFacts DEF PageTypes
  <2>5. PICK m \in Posts : m = W!Message("create", None, r)
    BY MessageFacts
  <2>6. m.type = "create" /\ m.request = r /\ m.type \in Starts
    BY <2>5, MessageFacts DEF Starts
  <2>7. PICK v : v = up'
    OBVIOUS
  <2>8. v = Append(up, m)
    BY <2>1, <2>5, <2>7
  <2>9. /\ v \in Seq(Posts)
        /\ \A T, q : Carries(v, T, q) => Carries(up, T, q) \/ (m.type \in T /\ m.request = q)
        /\ \A y, k : About(v, y, k) => About(up, y, k) \/ (m.type = y /\ m.session = k)
        /\ \A T : Sole(up, T) /\ (m.type \in T => ~ Carries(up, T, m.request)) => Sole(v, T)
    BY ONLY <1>1, <2>8, m \in Posts, UpMore
  <2>10. /\ runs[r] = 0 /\ ~ Carries(up, Starts, r) /\ ~ Carries(down, {"created"}, r)
         /\ \A k \in W!Keys : ui[k].attach # r
         /\ Unmet(r)
    BY <1>1, <1>2 DEF Account, Sessionless
  <2>11. /\ up' \in Seq(Posts) /\ Sole(up', Starts)
         /\ \A q : Carries(up', Starts, q) => Carries(up, Starts, q) \/ q = r
         /\ \A q : Carries(up', {"create"}, q) => Carries(up, {"create"}, q) \/ q = r
         /\ \A k : About(up', "attach", k) => About(up, "attach", k)
    BY ONLY <1>1, <2>6, <2>7, <2>9, <2>10
  <2>12. HearsLess(active) /\ CarriesLess(r) /\ StaysUnmet(active)
    BY <1>3, <2>1, <2>2, <2>11 DEF HearsLess, CarriesLess, StaysUnmet, Unmet
  <2>13. \A q \in W!Requests : q # r => Account(q)'
    BY <1>3, <2>2, <2>3, <2>12, OthersKept
  <2>14. Account(r)'
    <3>1. Waits(r)' = {}
      BY <2>3, <2>10, NameFacts DEF Waits
    <3>2. Sessionless(r)' => Unmet(r)'
      BY <2>10, <2>12, HearsFacts
    <3> QED BY <1>3, <2>2, <2>10, <3>1, <3>2 DEF Account
  <2> QED BY <1>1, <1>3, <2>4, <2>11, <2>13, <2>14 DEF OnceInv
<1>6. CASE req[r].key \notin W!Sessions /\ ~ (req[r].live /\ socket.open)
  <2>1. /\ ui' = ui \/ ui' = [ui EXCEPT ![active].initial = None]
        /\ req' = [req EXCEPT ![r].at = "creating"] /\ up' = up /\ listed' = listed
    BY <1>6 DEF W!Encoded
  <2>2. ui' \in [W!Keys -> Composers] /\ \A k \in W!Keys : ui'[k].attach = ui[k].attach
    <3>1. CASE ui' = ui
      BY <1>2, <3>1
    <3>2. CASE ui' = [ui EXCEPT ![active].initial = None]
      BY ONLY <1>2, <3>2 DEF Composers
    <3> QED BY <2>1, <3>1, <3>2
  <2>3. /\ req' \in [W!Requests -> Submissions]
        /\ \A q \in W!Requests : /\ req'[q].at = IF q = r THEN "creating" ELSE req[q].at
                                 /\ req'[q].key = req[q].key
    BY <1>2, <2>1 DEF Submissions
  <2>4. req[r].key \in Drafts
    BY <1>2, <1>6, NameFacts
  <2>5. PageTypes' /\ WaitsLess /\ ReqLess
    BY <1>1, <1>2, <1>3, <2>1, <2>2, <2>3, <2>4, NameFacts DEF PageTypes, WaitsLess, ReqLess
  <2>6. UpLess(active) /\ DownLess(active)
    BY <1>3, <2>1, UpSame, DownSame
  <2>7. StaysUnmet(active)
    BY <1>3, <2>1, <2>3 DEF StaysUnmet, Unmet
  <2> QED BY <1>3, <2>5, <2>6, <2>7, PlainStep
<1> QED BY <1>4, <1>5, <1>6

LEMMA PromotedFacts ==
    ASSUME PageTypes, NEW k \in W!Keys, NEW s \in W!Sessions
    PROVE  /\ W!Promoted(k, s) \in [W!Keys -> Composers]
           /\ W!Promoted(k, s)[s].attach = ui[k].attach
           /\ \A j \in W!Keys : j # s => \/ W!Promoted(k, s)[j].attach = ui[j].attach
                                         \/ W!Promoted(k, s)[j].attach = None
<1>1. s \in W!Keys /\ ui \in [W!Keys -> Composers]
  BY NameFacts DEF PageTypes
<1>2. PICK b : b = W!Blank
  OBVIOUS
<1>3. b \in Composers /\ b.attach = None
  BY <1>2 DEF W!Blank, Composers
<1>4. W!Promoted(k, s) = [j \in W!Keys |-> IF j = s THEN ui[k]
                                          ELSE IF j = k /\ k \in Drafts THEN b ELSE ui[j]]
  BY <1>2 DEF W!Promoted
<1> QED BY <1>1, <1>3, <1>4

LEMMA RestDoneKeeps ==
    ASSUME OnceInv, NEW r \in W!Requests, W!RestDone(r)
    PROVE  OnceInv'
<1>1. PageTypes
  BY DEF OnceInv
<1>2. /\ req[r].at = "created" /\ req[r].key \in Drafts /\ req[r].key \in W!Keys
      /\ ui[req[r].key].attach = None /\ r \in W!Sessions
  BY <1>1, NameFacts DEF W!RestDone, PageTypes
<1>3. /\ active' = r /\ attached' = attached /\ down' = down /\ running' = running
      /\ grants' = grants /\ runs' = runs /\ req' = [req EXCEPT ![r].at = "done"]
  BY DEF W!RestDone, W!server
<1>4. PICK t : t = W!Attaches(r, socket.state, 2)
  OBVIOUS
<1>5. /\ t \in Seq(Posts) /\ Sole(t, Starts)
      /\ \A T \in {Starts, {"create"}} : \A q : ~ Carries(t, T, q)
      /\ \A j : About(t, "attach", j) => j = r /\ j \notin attached
  BY <1>4, AttachesFacts
<1>6. PICK u : u = W!Promoted(req[r].key, r)
  OBVIOUS
<1>7. /\ u \in [W!Keys -> Composers]
      /\ \A k \in W!Keys : u[k].attach = ui[k].attach \/ u[k].attach = None
  BY <1>1, <1>2, <1>6, PromotedFacts
<1>8. W!SendMessage(r, r, u, actions \ {<<"submit", req[r].key>>}, t)
  BY <1>4, <1>6 DEF W!RestDone
<1> QED BY <1>2, <1>3, <1>5, <1>7, <1>8, SendKeeps

(* The new session takes the place of the draft, or of what is on screen.   *)
LEMMA OnCreatedKeeps ==
    ASSUME OnceInv, down # << >>, down' = Tail(down), UNCHANGED <<req, running, grants, runs>>,
           Head(down).type = "created", W!OnCreated(Head(down))
    PROVE  OnceInv'
<1>1. PageTypes /\ down \in Seq(News) /\ up \in Seq(Posts) /\ Sole(up, Starts)
  BY DEF OnceInv
<1> PICK m : m = Head(down)
  OBVIOUS
<1> PICK s : s = m.session
  OBVIOUS
<1>2. 1 \in DOMAIN down /\ m = down[1] /\ m \in News /\ m.type = "created"
  BY <1>1
<1>3. s \in W!Requests /\ m.request = s /\ Carries(down, {"created"}, s)
  BY <1>2 DEF News, Carries
<1>4. s \in W!Sessions /\ s \in W!Keys
  BY <1>3, NameFacts
<1>5. DownLess(active) /\ ~ Carries(down', {"created"}, s)
  BY <1>2, <1>3, DownTail
<1>6. Account(s) /\ Sessionless(s) /\ Unmet(s)
  BY <1>3 DEF OnceInv, Account, Sessionless
<1>7. req[s].at = "done" /\ ~ Carries(up, {"create"}, s)
  BY <1>3, <1>6 DEF Account
<1>8. req[s].key \in W!Keys /\ active \in W!Keys
  BY <1>1, <1>3, <1>7 DEF PageTypes
<1>9. PICK k \in W!Keys : ui' = [W!Promoted(k, s) EXCEPT ![s].initial = None, ![s].running = TRUE]
  BY <1>3, <1>8 DEF W!OnCreated
<1>10. /\ active' = s /\ attached' = attached \cup {s} /\ listed' = [listed EXCEPT ![s] = FALSE]
       /\ up' = up
  BY DEF W!OnCreated
<1>11. PICK u : u = W!Promoted(k, s)
  OBVIOUS
<1>12. /\ u \in [W!Keys -> Composers] /\ u[s].attach = ui[k].attach
       /\ \A j \in W!Keys : j # s => u[j].attach = ui[j].attach \/ u[j].attach = None
  BY <1>1, <1>4, <1>11, PromotedFacts
<1>13. ui' \in [W!Keys -> Composers] /\ \A j \in W!Keys : ui'[j].attach = u[j].attach
  <2>1. ui' = [u EXCEPT ![s].initial = None, ![s].running = TRUE]
    BY <1>9, <1>11
  <2>2. u \in [W!Keys -> Composers]
    BY <1>12
  <2> QED BY ONLY <1>4, <2>1, <2>2 DEF Composers
<1>14. PageTypes'
  <2>1. \A d \in Drafts : ui'[d].attach = None
    BY <1>1, <1>4, <1>12, <1>13, NameFacts DEF PageTypes
  <2>2. listed' \in [W!Sessions -> BOOLEAN \cup {None}]
    BY <1>1, <1>4, <1>10 DEF PageTypes
  <2> QED BY <1>1, <1>4, <1>10, <1>13, <2>1, <2>2 DEF PageTypes
<1>15. HearsLess(active)
  BY <1>5, <1>10 DEF HearsLess, DownLess
<1>16. ~ Live(s)'
  BY <1>5, <1>6, <1>10 DEF Live, Unmet, DownLess
<1>17. ~ Sessionless(s)'
  BY <1>5, <1>7, <1>10 DEF Sessionless
<1>18. listed \in [W!Sessions -> BOOLEAN \cup {None}]
  BY <1>1 DEF PageTypes
<1>19. ASSUME NEW q \in W!Requests
       PROVE  Account(q)'
  <2>1. \A j \in Waits(q)' : j \in Waits(q)
    <3>1. ASSUME NEW j \in Waits(q)'
          PROVE  j \in Waits(q)
      <4>1. j \in W!Sessions /\ ui'[j].attach = q /\ Live(j)' /\ j \in W!Keys /\ q # None
        BY NameFacts DEF Waits
      <4>2. j # s /\ Live(j)
        BY <1>15, <1>16, <4>1, HearsFacts
      <4>3. ui[j].attach = q
        BY <1>12, <1>13, <4>1, <4>2
      <4> QED BY <4>1, <4>2, <4>3 DEF Waits
    <3> QED BY <3>1
  <2>2. \A j \in W!Keys : ui'[j].attach = q => \E l \in W!Keys : ui[l].attach = q
    BY <1>4, <1>12, <1>13, NameFacts
  <2>3. Unmet(q) /\ Sessionless(q)' => Unmet(q)'
    <3>1. CASE q = s
      BY <1>17, <3>1
    <3>2. CASE q # s
      <4>1. q \in W!Sessions /\ listed'[q] = listed[q]
        BY <1>10, <1>18, <3>2, NameFacts
      <4>2. ~ About(down, "attached", q) /\ ~ About(up, "attach", q) => ~ About(down', "attached", q)
        BY <1>15 DEF HearsLess
      <4> QED BY <1>10, <3>2, <4>1, <4>2 DEF Unmet
    <3> QED BY <3>1, <3>2
  <2>4. Spared(q)
    BY <1>5, <1>10, <2>1, <2>2, <2>3 DEF Spared, DownLess
  <2> QED BY <2>4, SparedKeeps DEF OnceInv
<1> QED BY <1>1, <1>5, <1>10, <1>14, <1>19 DEF OnceInv, DownLess

LEMMA OnceInductive ==
    ASSUME OnceInv, [W!Next]_(W!vars)
    PROVE  OnceInv'
<1>1. CASE \E k \in W!Keys : W!Navigate(k)
  BY <1>1, NavigateKeeps
<1>2. CASE W!Stop
  BY <1>2, StopKeeps
<1>3. ASSUME NEW r \in W!Requests,
             W!Submit(r) \/ W!EncodeFailed(r) \/ W!Encoded(r) \/ W!RestCreate(r)
               \/ W!RestFailed(r) \/ W!RestDone(r)
      PROVE  OnceInv'
  BY <1>3, SubmitKeeps, FailedKeeps, EncodedKeeps, RestCreateKeeps, RestDoneKeeps
<1>4. CASE W!Serve
  <2>1. PICK i \in DOMAIN up :
          W!ServeCreate(i) \/ W!ServeAttach(i) \/ W!ServeInput(i) \/ W!ServeInterrupt(i)
    BY <1>4 DEF W!Serve
  <2>2. UNCHANGED <<W!page, req>>
    BY <1>4 DEF W!Serve
  <2>3. /\ up[i] \in Posts /\ PageTypes /\ up[i].session \in W!Keys \cup {None}
        /\ up[i].request \in W!Requests \cup {None}
    BY DEF OnceInv, Posts
  <2>4. CASE W!ServeCreate(i)
    <3>1. up[i].type = "create" /\ up[i].request \in W!Requests
      BY <2>3, <2>4 DEF W!ServeCreate, Posts, Starts
    <3>2. req[up[i].request].key \in W!Keys \cup {None}
      BY <2>3, <3>1 DEF PageTypes, Submissions
    <3>3. CASE /\ W!Down(W!Message("error", req[up[i].request].key, up[i].request))
               /\ up' = W!RemoveAt(up, i) /\ UNCHANGED W!server
      BY <2>2, <2>3, <3>2, <3>3, RefusedKeeps DEF W!server
    <3>4. CASE /\ W!NewSession(up[i].request) /\ grants' = grants \cup {up[i].request}
               /\ W!Down(W!Message("created", up[i].request, up[i].request))
               /\ up' = Append(W!RemoveAt(up, i),
                               W!Message("input", up[i].request, up[i].request))
               /\ UNCHANGED runs
      BY <2>2, <3>1, <3>4, ServeCreateKeeps
    <3> QED BY <2>4, <3>3, <3>4 DEF W!ServeCreate
  <2>5. CASE W!ServeAttach(i)
    BY <2>2, <2>5, ServeAttachKeeps
  <2>6. CASE W!ServeInterrupt(i)
    BY <2>2, <2>6, ServeInterruptKeeps
  <2>7. CASE W!ServeInput(i)
    <3>1. up[i].type = "input" /\ up' = W!RemoveAt(up, i) /\ grants' = grants
      BY <2>7 DEF W!ServeInput
    <3>2. CASE W!Down(W!Message("error", up[i].session, up[i].request)) /\ UNCHANGED <<running, runs>>
      BY <2>2, <2>3, <3>1, <3>2, RefusedKeeps
    <3>3. CASE /\ running' = [running EXCEPT ![up[i].session] = TRUE]
               /\ runs' = [runs EXCEPT ![up[i].request] = @ + 1]
               /\ W!Tell("running", up[i].session)
      <4>1. DOMAIN running' = DOMAIN running
        BY <3>3
      <4> QED BY <2>2, <3>1, <3>3, <4>1, ServeInputKeeps
    <3> QED BY <2>7, <3>2, <3>3 DEF W!ServeInput
  <2> QED BY <2>1, <2>4, <2>5, <2>6, <2>7
<1>5. CASE \E s \in DOMAIN running : W!EndTurn(s) \/ W!OtherTurn(s)
  BY <1>5, TurnKeeps
<1>6. CASE W!OnReady
  BY <1>6, OnReadyKeeps
<1>7. CASE W!Receive
  <2>1. /\ down # << >> /\ down' = Tail(down) /\ UNCHANGED <<req, running, grants, runs>>
    BY <1>7 DEF W!Receive, W!server
  <2>2. \/ Head(down).type = "created" /\ W!OnCreated(Head(down))
        \/ Head(down).type = "attached" /\ W!OnAttached(Head(down))
        \/ W!OnProtocolError(Head(down)) \/ W!OnSessionEvent(Head(down))
    BY <1>7 DEF W!Receive
  <2> QED BY <2>1, <2>2, OnCreatedKeeps, OnAttachedKeeps, HeardKeeps
<1>8. CASE \E failed \in BOOLEAN : W!Close(failed)
  BY <1>8, CloseKeeps
<1>9. CASE UNCHANGED W!vars
  <2>1. /\ active' = active /\ ui' = ui /\ listed' = listed /\ attached' = attached /\ req' = req
        /\ up' = up /\ down' = down /\ running' = running /\ grants' = grants /\ runs' = runs
    BY <1>9 DEF W!vars, W!page, W!server
  <2>2. PageTypes' /\ WaitsLess /\ ReqLess
    BY <2>1 DEF OnceInv, PageTypes, WaitsLess, ReqLess
  <2>3. StaysUnmet(active)
    BY <2>1 DEF StaysUnmet, Unmet
  <2>4. UpLess(active) /\ DownLess(active)
    BY <2>1, UpSame, DownSame
  <2> QED BY <2>1, <2>2, <2>3, <2>4, PlainStep
<1> QED BY <1>1, <1>2, <1>3, <1>4, <1>5, <1>6, <1>7, <1>8, <1>9 DEF W!Next

LEMMA OnceInit ==
    ASSUME W!Init
    PROVE  OnceInv
<1>1. up = << >> /\ down = << >> /\ attached = {} /\ grants = {}
  BY DEF W!Init
<1>2. /\ up \in Seq(Posts) /\ down \in Seq(News) /\ Sole(up, Starts) /\ Sole(down, {"created"})
      /\ \A T, r : ~ Carries(up, T, r) /\ ~ Carries(down, T, r)
      /\ \A y, k : ~ About(up, y, k) /\ ~ About(down, y, k)
  BY <1>1, Emptied
<1>3. active \in W!Keys
  BY NameFacts DEF W!Init
<1>4. PICK b : b = W!Blank
  OBVIOUS
<1>5. b \in Composers /\ b.attach = None
  BY <1>4 DEF W!Blank, Composers
<1>6. ui = [k \in W!Keys |-> b]
  BY <1>4 DEF W!Init
<1>7. ui \in [W!Keys -> Composers] /\ \A k \in W!Keys : ui[k].attach = None
  BY <1>5, <1>6
<1>8. PICK x : x = [at |-> "unused", key |-> None, live |-> FALSE]
  OBVIOUS
<1>9. x \in Submissions /\ x.at = "unused" /\ x.key = None
  BY <1>8 DEF Submissions
<1>10. req = [r \in W!Requests |-> x]
  BY <1>8 DEF W!Init
<1>11. req \in [W!Requests -> Submissions]
       /\ \A r \in W!Requests : req[r].at = "unused" /\ req[r].key = None
  BY <1>9, <1>10
<1>12. runs \in [W!Requests -> Nat] /\ \A r \in W!Requests : runs[r] = 0
  BY DEF W!Init
<1>13. /\ listed \in [W!Sessions -> BOOLEAN \cup {None}]
       /\ \A r \in W!Requests : listed[r] = None
  BY NameFacts DEF W!Init
<1>14. DOMAIN running \subseteq W!Sessions
  BY NameFacts DEF W!Init
<1>15. PageTypes
  BY <1>1, <1>3, <1>7, <1>11, <1>12, <1>13, <1>14, NameFacts DEF PageTypes
<1>16. ASSUME NEW r \in W!Requests
       PROVE  Account(r)
  <2>1. \A k \in W!Keys : ui[k].attach # r
    BY <1>7, NameFacts
  <2>2. Waits(r) = {}
    BY <2>1, NameFacts DEF Waits
  <2>3. active # r
    BY NameFacts DEF W!Init
  <2>4. Unmet(r)
    BY <1>1, <1>2, <1>11, <1>13, <2>3, NameFacts DEF Unmet
  <2> QED BY <1>2, <1>11, <1>12, <2>1, <2>2, <2>4 DEF Account
<1> QED BY <1>2, <1>15, <1>16 DEF OnceInv

(* A request is answered by one turn at most, whichever way it reaches the  *)
(* server and however often its session is attached meanwhile.              *)
THEOREM RequestsRunOnce == W!Spec => []W!RunsOnce
<1>1. OnceInv => W!RunsOnce
  BY DEF OnceInv, Account, W!RunsOnce
<1>2. OnceInv /\ [W!Next]_(W!vars) => OnceInv'
  BY OnceInductive
<1>3. W!Init => OnceInv
  BY OnceInit
<1> QED BY <1>1, <1>2, <1>3, PTL DEF W!Spec

-----------------------------------------------------------------------------
(***************************************************************************)
(* What becomes of the requests and of their composers, for as long as no  *)
(* step strays.                                                            *)
(***************************************************************************)
(* A message that opens a session to the page, and one that answers the     *)
(* creation of request r.                                                   *)
Opens(m) == m.type \in {"created", "attached"}
Replies(m) == m.type = "created" \/ (m.type = "error" /\ m.session \in Drafts)
Replied(q, r) == \E i \in DOMAIN q : Replies(q[i]) /\ q[i].request = r
OneReply(q) ==
    \A i, j \in DOMAIN q : Replies(q[i]) /\ Replies(q[j]) /\ q[i].request = q[j].request => i = j

(* What a message says of a session that is not among A follows one that    *)
(* opens it; a turn that is announced is among R or its end follows.        *)
Ordered(q, A) ==
    \A j \in DOMAIN q : ~ Opens(q[j]) /\ q[j].session \in W!Sessions =>
      q[j].session \in A \/ \E i \in DOMAIN q : i < j /\ Opens(q[i]) /\ q[i].session = q[j].session
Followed(q, R) ==
    \A j \in DOMAIN q : q[j].type = "running" =>
      \/ q[j].session \in R
      \/ \E i \in DOMAIN q : j < i /\ q[i].type = "end" /\ q[i].session = q[j].session

(* The queue p, which is q with m at its end, is as orderly as q: m is of   *)
(* an open session, of a turn among V, or the end of one.                   *)
StaysOrdered(q, m, p) ==
    \A A : /\ Ordered(q, A)
           /\ \/ Opens(m) \/ m.session \notin W!Sessions \/ m.session \in A
              \/ About(q, "created", m.session) \/ About(q, "attached", m.session)
           => Ordered(p, A)
StaysFollowed(q, m, p) ==
    \A R, V : /\ Followed(q, R)
              /\ m.type = "running" => m.session \in V
              /\ \A s \in R : s \in V \/ (m.type = "end" /\ m.session = s)
              => Followed(p, V)

(* The queue q with m at its end.                                           *)
Adds(q, m, p) ==
    \E e \in DOMAIN p :
      /\ p[e] = m /\ \A i \in DOMAIN p : i = e \/ (i \in DOMAIN q /\ p[i] = q[i])
      /\ \A i \in DOMAIN q : i \in DOMAIN p /\ p[i] = q[i] /\ i < e /\ ~ (e < i)

LEMMA AppendAdds ==
    ASSUME NEW S, NEW q \in Seq(S), NEW m \in S
    PROVE  Adds(q, m, Append(q, m))
<1> PICK p : p = Append(q, m)
  OBVIOUS
<1>1. /\ DOMAIN p = 1 .. (Len(q) + 1) /\ DOMAIN q = 1 .. Len(q) /\ Len(q) \in Nat
      /\ p[Len(q) + 1] = m /\ \A i \in 1 .. Len(q) : p[i] = q[i]
  OBVIOUS
<1> PICK e : e = Len(q) + 1
  OBVIOUS
<1>2. /\ e \in DOMAIN p /\ p[e] = m /\ \A i \in DOMAIN p : i = e \/ (i \in DOMAIN q /\ p[i] = q[i])
      /\ \A i \in DOMAIN q : i \in DOMAIN p /\ p[i] = q[i] /\ i < e /\ ~ (e < i)
  BY ONLY <1>1, e = Len(q) + 1
<1> QED BY <1>2 DEF Adds

LEMMA More ==
    ASSUME NEW q, NEW m, NEW p, Adds(q, m, p)
    PROVE  /\ \A y, s : About(p, y, s) <=> About(q, y, s) \/ (m.type = y /\ m.session = s)
           /\ \A T, r : Carries(p, T, r) <=> Carries(q, T, r) \/ (m.type \in T /\ m.request = r)
           /\ \A r : Replied(p, r) <=> Replied(q, r) \/ (Replies(m) /\ m.request = r)
           /\ OneReply(q) /\ (Replies(m) => ~ Replied(q, m.request)) => OneReply(p)
           /\ StaysOrdered(q, m, p) /\ StaysFollowed(q, m, p)
<1> PICK e \in DOMAIN p :
      /\ p[e] = m /\ \A i \in DOMAIN p : i = e \/ (i \in DOMAIN q /\ p[i] = q[i])
      /\ \A i \in DOMAIN q : i \in DOMAIN p /\ p[i] = q[i] /\ i < e /\ ~ (e < i)
  BY DEF Adds
<1>2. /\ e \in DOMAIN p /\ p[e] = m /\ \A i \in DOMAIN p : i = e \/ (i \in DOMAIN q /\ p[i] = q[i])
      /\ \A i \in DOMAIN q : i \in DOMAIN p /\ p[i] = q[i] /\ i < e /\ ~ (e < i)
  OBVIOUS
<1>3. \A y, s : About(p, y, s) <=> About(q, y, s) \/ (m.type = y /\ m.session = s)
  BY ONLY <1>2 DEF About
<1>4. \A T, r : Carries(p, T, r) <=> Carries(q, T, r) \/ (m.type \in T /\ m.request = r)
  BY ONLY <1>2 DEF Carries
<1>5. \A r : Replied(p, r) <=> Replied(q, r) \/ (Replies(m) /\ m.request = r)
  BY ONLY <1>2 DEF Replied
<1>6. OneReply(q) /\ (Replies(m) => ~ Replied(q, m.request)) => OneReply(p)
  BY ONLY <1>2 DEF OneReply, Replied
<1>7. ASSUME NEW A, Ordered(q, A),
             \/ Opens(m) \/ m.session \notin W!Sessions \/ m.session \in A
             \/ About(q, "created", m.session) \/ About(q, "attached", m.session)
      PROVE  Ordered(p, A)
  <2>1. ASSUME NEW j \in DOMAIN p, ~ Opens(p[j]), p[j].session \in W!Sessions, p[j].session \notin A
        PROVE  \E i \in DOMAIN p : i < j /\ Opens(p[i]) /\ p[i].session = p[j].session
    <3>1. CASE j = e
      BY <1>2, <1>7, <2>1, <3>1 DEF About, Opens
    <3>2. CASE j # e
      <4>1. j \in DOMAIN q /\ p[j] = q[j]
        BY <1>2, <3>2
      <4>2. PICK i \in DOMAIN q : i < j /\ Opens(q[i]) /\ q[i].session = q[j].session
        BY <1>7, <2>1, <4>1 DEF Ordered
      <4> QED BY <1>2, <4>1, <4>2
    <3> QED BY <3>1, <3>2
  <2> QED BY <2>1 DEF Ordered
<1>8. ASSUME NEW R, NEW V, Followed(q, R), m.type = "running" => m.session \in V,
             \A s \in R : s \in V \/ (m.type = "end" /\ m.session = s)
      PROVE  Followed(p, V)
  <2>1. ASSUME NEW j \in DOMAIN p, p[j].type = "running", p[j].session \notin V
        PROVE  \E i \in DOMAIN p : j < i /\ p[i].type = "end" /\ p[i].session = p[j].session
    <3>1. j # e
      BY <1>2, <1>8, <2>1
    <3>2. j \in DOMAIN q /\ p[j] = q[j]
      BY <1>2, <3>1
    <3>3. CASE p[j].session \in R
      BY <1>2, <1>8, <2>1, <3>2, <3>3
    <3>4. CASE p[j].session \notin R
      <4>1. PICK i \in DOMAIN q : j < i /\ q[i].type = "end" /\ q[i].session = q[j].session
        BY <1>8, <2>1, <3>2, <3>4 DEF Followed
      <4> QED BY <1>2, <3>2, <4>1
    <3> QED BY <3>3, <3>4
  <2> QED BY <2>1 DEF Followed
<1>9. StaysOrdered(q, m, p)
  BY <1>7 DEF StaysOrdered
<1>10. StaysFollowed(q, m, p)
  BY <1>8 DEF StaysFollowed
<1> QED BY <1>3, <1>4, <1>5, <1>6, <1>9, <1>10

(* The queue q without what was at i.                                       *)
Drops(q, i, p) ==
    /\ i \in DOMAIN q /\ \A j \in DOMAIN p : \E l \in DOMAIN q : p[j] = q[l]
    /\ \A l \in DOMAIN q : l # i => \E j \in DOMAIN p : p[j] = q[l]

LEMMA TakenDrops ==
    ASSUME NEW S, NEW q \in Seq(S), NEW p \in Seq(S), NEW i \in DOMAIN q,
           Len(p) = Len(q) - 1, \A j \in 1 .. Len(p) : p[j] = IF j < i THEN q[j] ELSE q[j + 1]
    PROVE  Drops(q, i, p)
<1> DEFINE k(j) == IF j < i THEN j ELSE j + 1
<1> DEFINE h(l) == IF l < i THEN l ELSE l - 1
<1>1. /\ DOMAIN p = 1 .. Len(p) /\ DOMAIN q = 1 .. Len(q)
      /\ Len(p) \in Nat /\ Len(q) \in Nat
  OBVIOUS
<1>2. \A j \in DOMAIN p : k(j) \in DOMAIN q /\ p[j] = q[k(j)]
  BY <1>1
<1>3. \A l \in DOMAIN q : l # i => h(l) \in DOMAIN p /\ p[h(l)] = q[l]
  BY <1>1
<1> HIDE DEF k, h
<1> QED BY <1>2, <1>3 DEF Drops

LEMMA Less ==
    ASSUME NEW q, NEW i, NEW p, Drops(q, i, p)
    PROVE  /\ \A y, s : About(q, y, s) <=> About(p, y, s) \/ (q[i].type = y /\ q[i].session = s)
           /\ \A T, r : Carries(q, T, r) <=> Carries(p, T, r) \/ (q[i].type \in T /\ q[i].request = r)
<1>1. \A y, s : About(q, y, s) <=> About(p, y, s) \/ (q[i].type = y /\ q[i].session = s)
  BY DEF Drops, About
<1>2. \A T, r : Carries(q, T, r) <=> Carries(p, T, r) \/ (q[i].type \in T /\ q[i].request = r)
  BY DEF Drops, Carries
<1> QED BY <1>1, <1>2

(* The queue q is m, then p.                                                *)
Heads(q, m, p) ==
    /\ \A y, s : About(q, y, s) <=> About(p, y, s) \/ (m.type = y /\ m.session = s)
    /\ \A T, r : Carries(q, T, r) <=> Carries(p, T, r) \/ (m.type \in T /\ m.request = r)
    /\ \A r : Replied(q, r) <=> Replied(p, r) \/ (Replies(m) /\ m.request = r)
    /\ OneReply(q) => OneReply(p) /\ (Replies(m) => ~ Replied(p, m.request))
    /\ \A A : Ordered(q, A) => /\ ~ Opens(m) /\ m.session \in W!Sessions => m.session \in A
                               /\ ~ Opens(m) => Ordered(p, A)
                               /\ Ordered(p, A \cup {m.session})
    /\ \A R : Followed(q, R) => /\ Followed(p, R)
                                /\ m.type = "running" => m.session \in R \/ About(p, "end", m.session)

LEMMA Rest ==
    ASSUME NEW S, NEW q \in Seq(S), q # << >>, NEW p, p = Tail(q), NEW m, m = Head(q)
    PROVE  m \in S /\ Heads(q, m, p)
<1>1. /\ p \in Seq(S) /\ Len(p) = Len(q) - 1 /\ DOMAIN p = 1 .. Len(p) /\ DOMAIN q = 1 .. Len(q)
      /\ Len(p) \in Nat /\ Len(q) \in Nat /\ 1 \in DOMAIN q /\ q[1] = m /\ m \in S
      /\ \A j \in 1 .. Len(p) : p[j] = q[j + 1]
  OBVIOUS
<1> DEFINE f(j) == j + 1
<1> DEFINE g(j) == j - 1
<1>2. /\ \A j \in DOMAIN p : f(j) \in DOMAIN q /\ p[j] = q[f(j)] /\ f(j) # 1
      /\ \A j, l \in DOMAIN p : f(j) = f(l) => j = l
      /\ \A l \in DOMAIN q : l # 1 => /\ g(l) \in DOMAIN p /\ p[g(l)] = q[l]
                                      /\ \A j \in DOMAIN p : /\ l < f(j) => g(l) < j
                                                             /\ f(j) < l => j < g(l)
      /\ \A l \in DOMAIN q : ~ (l < 1)
  BY ONLY <1>1
<1>3. 1 \in DOMAIN q /\ q[1] = m
  BY <1>1
<1> HIDE DEF f, g
<1>4. \A y, s : About(q, y, s) <=> About(p, y, s) \/ (m.type = y /\ m.session = s)
  BY ONLY <1>2, <1>3 DEF About
<1>5. \A T, r : Carries(q, T, r) <=> Carries(p, T, r) \/ (m.type \in T /\ m.request = r)
  BY ONLY <1>2, <1>3 DEF Carries
<1>6. \A r : Replied(q, r) <=> Replied(p, r) \/ (Replies(m) /\ m.request = r)
  BY ONLY <1>2, <1>3 DEF Replied
<1>7. OneReply(q) => OneReply(p)
  BY ONLY <1>2 DEF OneReply
<1>8. OneReply(q) /\ Replies(m) => ~ Replied(p, m.request)
  BY ONLY <1>2, <1>3 DEF OneReply, Replied
<1>9. ASSUME NEW A, Ordered(q, A)
      PROVE  /\ ~ Opens(m) /\ m.session \in W!Sessions => m.session \in A
             /\ ~ Opens(m) => Ordered(p, A)
             /\ Ordered(p, A \cup {m.session})
  <2>1. ~ Opens(m) /\ m.session \in W!Sessions => m.session \in A
    BY ONLY <1>2, <1>3, <1>9 DEF Ordered
  <2>2. ASSUME NEW j \in DOMAIN p, ~ Opens(p[j]), p[j].session \in W!Sessions, p[j].session \notin A,
               ~ (Opens(m) /\ m.session = p[j].session)
        PROVE  \E i \in DOMAIN p : i < j /\ Opens(p[i]) /\ p[i].session = p[j].session
    <3>1. f(j) \in DOMAIN q /\ p[j] = q[f(j)]
      BY <1>2
    <3>2. PICK l \in DOMAIN q : l < f(j) /\ Opens(q[l]) /\ q[l].session = q[f(j)].session
      BY <1>9, <2>2, <3>1 DEF Ordered
    <3>3. l # 1
      BY <1>3, <2>2, <3>1, <3>2
    <3>4. g(l) \in DOMAIN p /\ p[g(l)] = q[l] /\ g(l) < j
      BY <1>2, <3>2, <3>3
    <3> QED BY <3>1, <3>2, <3>4
  <2>3. ~ Opens(m) => Ordered(p, A)
    BY <2>2 DEF Ordered
  <2>4. Ordered(p, A \cup {m.session})
    BY <2>2 DEF Ordered
  <2> QED BY <2>1, <2>3, <2>4
<1>10. ASSUME NEW R, Followed(q, R)
       PROVE  /\ Followed(p, R)
              /\ m.type = "running" => m.session \in R \/ About(p, "end", m.session)
  <2>1. ASSUME NEW j \in DOMAIN p, p[j].type = "running", p[j].session \notin R
        PROVE  \E i \in DOMAIN p : j < i /\ p[i].type = "end" /\ p[i].session = p[j].session
    <3>1. f(j) \in DOMAIN q /\ p[j] = q[f(j)]
      BY <1>2
    <3>2. PICK l \in DOMAIN q : f(j) < l /\ q[l].type = "end" /\ q[l].session = q[f(j)].session
      BY <1>10, <2>1, <3>1 DEF Followed
    <3>3. l # 1
      BY <1>1, <3>1, <3>2 DEF f
    <3>4. g(l) \in DOMAIN p /\ p[g(l)] = q[l] /\ j < g(l)
      BY <1>2, <3>2, <3>3
    <3> QED BY <3>1, <3>2, <3>4
  <2>2. ASSUME m.type = "running", m.session \notin R
        PROVE  About(p, "end", m.session)
    <3>1. PICK l \in DOMAIN q : q[l].type = "end" /\ q[l].session = m.session
      BY <1>3, <1>10, <2>2 DEF Followed
    <3>2. l # 1
      BY <1>3, <2>2, <3>1
    <3> QED BY <1>2, <3>1, <3>2, ZenonT(60) DEF About
  <2> QED BY <2>1, <2>2 DEF Followed
<1> QED BY <1>1, <1>4, <1>5, <1>6, <1>7, <1>8, <1>9, <1>10 DEF Heads

(* The queue q with those of t at its end.                                  *)
LEMMA Joined ==
    ASSUME NEW S, NEW q \in Seq(S), NEW t \in Seq(S), NEW p, p = q \o t
    PROVE  /\ p \in Seq(S)
           /\ \A y, s : About(p, y, s) <=> About(q, y, s) \/ About(t, y, s)
           /\ \A T, r : Carries(p, T, r) <=> Carries(q, T, r) \/ Carries(t, T, r)
<1>1. p \in Seq(S) /\ Len(p) = Len(q) + Len(t)
  BY ConcatProperties
<1>2. \A i \in 1 .. Len(p) : p[i] = IF i <= Len(q) THEN q[i] ELSE t[i - Len(q)]
  BY <1>1, ConcatProperties
<1>3. /\ DOMAIN p = 1 .. Len(p) /\ DOMAIN q = 1 .. Len(q) /\ DOMAIN t = 1 .. Len(t)
      /\ Len(p) \in Nat /\ Len(q) \in Nat /\ Len(t) \in Nat
  BY <1>1
<1> DEFINE f(j) == j - Len(q)
<1> DEFINE g(j) == j + Len(q)
<1>4. /\ \A i \in DOMAIN p : (i \in DOMAIN q /\ p[i] = q[i]) \/ (f(i) \in DOMAIN t /\ p[i] = t[f(i)])
      /\ \A i \in DOMAIN q : i \in DOMAIN p /\ p[i] = q[i]
  BY ONLY <1>1, <1>2, <1>3
<1>5. \A i \in DOMAIN t : g(i) \in DOMAIN p /\ p[g(i)] = t[i]
  <2>1. ASSUME NEW i \in DOMAIN t
        PROVE  g(i) \in DOMAIN p /\ p[g(i)] = t[i]
    <3>1. i \in Nat /\ g(i) \in 1 .. Len(p) /\ ~ (g(i) <= Len(q)) /\ g(i) - Len(q) = i
      BY ONLY <1>1, <1>3, i \in DOMAIN t
    <3> QED BY ONLY <1>2, <1>3, <3>1
  <2> QED BY <2>1
<1> HIDE DEF f, g
<1>6. \A y, s : About(p, y, s) <=> About(q, y, s) \/ About(t, y, s)
  BY ONLY <1>4, <1>5 DEF About
<1>7. \A T, r : Carries(p, T, r) <=> Carries(q, T, r) \/ Carries(t, T, r)
  BY ONLY <1>4, <1>5 DEF Carries
<1> QED BY <1>1, <1>6, <1>7

-----------------------------------------------------------------------------
Turning == {s \in DOMAIN running : running[s]}
Heard(s) == s \in attached \/ About(down, "created", s) \/ About(down, "attached", s)

(* Request r is still with the composer of k.                               *)
Asking(r) == req[r].at \in {"encoding", "creating", "created"}
Asked(k) == \E r \in W!Requests : Asking(r) /\ req[r].key = k

(* A turn of k was asked for or runs, and its end is on its way; what ends  *)
(* an action of k; what a composer that is busy waits for.                  *)
Turns(k) == About(up, "input", k) \/ k \in Turning \/ About(down, "end", k)
Pending(k) == Turns(k) \/ About(up, "interrupt", k) \/ About(down, "error", k)
Holds(k) == ui[k].initial # None \/ ui[k].attach # None \/ Asked(k)
Busy(k) == IF k \in attached THEN Pending(k) \/ Asked(k) ELSE Holds(k)

(* The requests whose creation is not answered, the composers that wait for *)
(* such an answer.                                                          *)
Flying == {r \in W!Requests : Carries(up, {"create"}, r) \/ Replied(down, r)}
Awaiting == {k \in W!Keys : ui[k].initial # None}

Linked ==
    /\ socket \in [state : {"idle", "negotiating", "connected", "error"}, open : BOOLEAN]
    /\ socket.open
    /\ running \in [DOMAIN running -> BOOLEAN]
    /\ actions \subseteq {"submit", "interrupt"} \X W!Keys

(* The page lists what it shows or is attached to, and that is there.       *)
Listed ==
    /\ \A s \in W!Sessions : listed[s] # None \/ s \in grants => s \in DOMAIN running
    /\ \A r \in W!Requests : req[r].at = "created" => r \in DOMAIN running
    /\ active \in W!Sessions => listed[active] # None
    /\ \A r \in W!Requests : req[r].at # "unused" /\ req[r].key \in W!Sessions =>
                               listed[req[r].key] # None
    /\ \A s \in W!Sessions : \/ s \in attached \/ About(up, "attach", s)
                             \/ About(down, "attached", s) \/ ui[s].running
                             => listed[s] # None

(* A turn is one of a session.                                              *)
OfSessions(q) ==
    \A s : About(q, "running", s) \/ About(q, "end", s) \/ About(q, "interrupted", s) =>
          s \in W!Sessions

(* The page hears of a session after it was opened to the page.             *)
InOrder ==
    /\ \A s : About(up, "input", s) \/ About(up, "interrupt", s) => s \in grants
    /\ \A s \in W!Sessions : s \in grants <=> Heard(s)
    /\ Ordered(down, attached)
    /\ Followed(down, Turning)
    /\ OfSessions(down)

(* A composer of no attached session has one request at most, and its       *)
(* button is off as long as it has.                                         *)
Held ==
    /\ \A k \in W!Keys : ui[k].initial # None =>
         k \in Drafts /\ <<"submit", k>> \in actions /\ ~ Asked(k)
    /\ \A k \in W!Keys : ui[k].attach # None =>
         /\ k \in W!Sessions /\ k \notin attached /\ <<"submit", k>> \in actions /\ ~ Asked(k)
         /\ About(up, "attach", k) \/ About(down, "attached", k)
    /\ \A r \in W!Requests : Asking(r) /\ req[r].key \notin attached =>
         /\ <<"submit", req[r].key>> \in actions
         /\ \A q \in W!Requests : Asking(q) /\ req[q].key = req[r].key => q = r

(* There are as many composers waiting for their session as creations.      *)
InFlight ==
    /\ OneReply(down)
    /\ \A r : Replied(down, r) => r \in W!Requests /\ ~ Carries(up, {"create"}, r)
    /\ \A r \in Flying : req[r].at = "done" /\ req[r].key \in Drafts
    /\ IsFiniteSet(Awaiting) /\ Cardinality(Awaiting) = Cardinality(Flying)

Found(r) ==
    \/ runs[r] = 1 \/ r \in told \/ Carries(up, Starts, r) \/ Carries(down, {"error"}, r)
    \/ \E k \in W!Keys : ui[k].attach = r
AllFound == \A r \in W!Requests : req[r].at = "done" => Found(r)

Freed ==
    /\ \A k \in W!Keys : <<"submit", k>> \in actions \/ ui[k].note => Busy(k)
    /\ \A k \in W!Keys : <<"interrupt", k>> \in actions => k \in attached /\ Pending(k)
    /\ \A k \in Drafts : ui[k].running => Holds(k)
    /\ \A s \in W!Sessions : listed[s] = TRUE => s \in attached /\ (s \in refused \/ Turns(s))
    /\ \A s \in W!Sessions : About(down, "created", s) => Pending(s)

KeptInv == Linked /\ Listed /\ InOrder /\ Held /\ InFlight /\ AllFound /\ Freed

(* Whatever is quiet has kept its requests.                                 *)
LEMMA KeptIsQuiet ==
    ASSUME OnceInv, ~ strayed => KeptInv
    PROVE  W!NothingLost /\ W!ComposersFree
<1> SUFFICES ASSUME W!Quiet
             PROVE  /\ \A r \in W!Requests : req[r].at = "done" => runs[r] = 1 \/ r \in told
                    /\ actions = {}
                    /\ \A k \in W!Keys : ~ ui[k].note /\ (k \in refused \/ ~ W!Stops(k))
  BY DEF W!NothingLost, W!ComposersFree
<1>1. KeptInv /\ PageTypes
  BY DEF W!Quiet, OnceInv
<1>2. /\ \A T, r : ~ Carries(up, T, r) /\ ~ Carries(down, T, r)
      /\ \A y, s : ~ About(up, y, s) /\ ~ About(down, y, s)
      /\ \A r : ~ Replied(down, r)
  <2>1. up = << >> /\ down = << >>
    BY DEF W!Quiet
  <2>2. DOMAIN down = {}
    BY <2>1
  <2> QED BY <2>1, <2>2, Emptied DEF Replied
<1>3. \A k : ~ Asked(k)
  BY DEF W!Quiet, Asked, Asking
<1>4. \A k \in W!Keys : ui[k].initial = None /\ ui[k].attach = None
  <2>1. \A k \in W!Keys : ui[k].attach = None
    BY <1>1, <1>2 DEF KeptInv, Held
  <2>2. Flying = {}
    BY <1>2 DEF Flying
  <2>3. IsFiniteSet(Awaiting) /\ Cardinality(Awaiting) = 0
    BY <1>1, <2>2, FS_EmptySet DEF KeptInv, InFlight
  <2>4. Awaiting = {}
    BY <2>3, FS_EmptySet
  <2> QED BY <2>1, <2>4 DEF Awaiting
<1>5. \A k : ~ Pending(k) /\ ~ Turns(k)
  BY <1>2 DEF Pending, Turns, Turning, W!Quiet
<1>6. \A k \in W!Keys : ~ Holds(k) /\ ~ Busy(k)
  BY <1>3, <1>4, <1>5 DEF Holds, Busy
<1>7. ASSUME NEW r \in W!Requests, req[r].at = "done"
      PROVE  runs[r] = 1 \/ r \in told
  <2>1. Found(r)
    BY <1>1, <1>7 DEF KeptInv, AllFound
  <2>2. r # None
    BY NameFacts
  <2> QED BY <1>2, <1>4, <2>1, <2>2 DEF Found
<1>8. actions = {}
  <2>1. ASSUME NEW a \in actions
        PROVE  FALSE
    <3>1. PICK y \in {"submit", "interrupt"}, k \in W!Keys : a = <<y, k>>
      BY <1>1 DEF KeptInv, Linked
    <3> QED BY <1>1, <1>5, <1>6, <2>1, <3>1 DEF KeptInv, Freed
  <2> QED BY <2>1
<1>9. \A k \in W!Keys : ~ ui[k].note
  BY <1>1, <1>6 DEF KeptInv, Freed
<1>10. ASSUME NEW k \in W!Keys, W!Stops(k)
       PROVE  k \in refused
  <2>1. CASE k \in Drafts
    <3>1. k \notin W!Sessions
      BY <2>1, NameFacts
    <3>2. None # TRUE
      BY PartsAssumption DEF W!NamesAssumption
    <3>3. ~ ui[k].running
      BY <1>1, <1>6, <2>1 DEF KeptInv, Freed
    <3> QED BY <1>10, <3>1, <3>2, <3>3 DEF W!Stops
  <2>2. CASE k \in W!Sessions
    <3>1. listed[k] = TRUE \/ (ui[k].running /\ listed[k] # FALSE)
      BY <1>10, <2>2 DEF W!Stops
    <3>2. ui[k].running => listed[k] # None
      BY <1>1, <2>2 DEF KeptInv, Listed
    <3>3. listed[k] \in BOOLEAN \cup {None}
      BY <1>1, <2>2 DEF PageTypes
    <3>4. listed[k] = TRUE
      BY <3>1, <3>2, <3>3
    <3> QED BY <1>1, <1>5, <2>2, <3>4 DEF KeptInv, Freed
  <2> QED BY <2>1, <2>2, NameFacts
<1> QED BY <1>7, <1>8, <1>9, <1>10

-----------------------------------------------------------------------------
(* The server takes message i.                                              *)
LEMMA UpGave ==
    ASSUME OnceInv, NEW i \in DOMAIN up, up' = W!RemoveAt(up, i)
    PROVE  /\ \A y, s : About(up, y, s) <=> About(up', y, s) \/ (up[i].type = y /\ up[i].session = s)
           /\ \A T, r : Carries(up, T, r) <=> Carries(up', T, r) \/ (up[i].type \in T /\ up[i].request = r)
           /\ up[i].type \in Starts => ~ Carries(up', Starts, up[i].request)
<1>1. up \in Seq(Posts) /\ Sole(up, Starts)
  BY DEF OnceInv
<1> PICK p : p = up'
  OBVIOUS
<1>2. up \in Seq(Posts) /\ p = W!RemoveAt(up, i)
  BY <1>1
<1>3. /\ p \in Seq(Posts) /\ Len(p) = Len(up) - 1
      /\ \A j \in 1 .. Len(p) : p[j] = IF j < i THEN up[j] ELSE up[j + 1]
  BY ONLY <1>2, i \in DOMAIN up, RemovedIsTaken, ZenonT(60)
<1>4. /\ \A y, s : About(up, y, s) <=> About(p, y, s) \/ (up[i].type = y /\ up[i].session = s)
      /\ \A T, r : Carries(up, T, r) <=> Carries(p, T, r) \/ (up[i].type \in T /\ up[i].request = r)
  <2>1. Drops(up, i, p)
    BY <1>1, <1>3, TakenDrops
  <2> QED BY ONLY <2>1, Less
<1>5. \A T : Sole(up, T) /\ up[i].type \in T => ~ Carries(p, T, up[i].request)
  BY ONLY <1>1, <1>3, i \in DOMAIN up, TakenFacts
<1> QED BY <1>1, <1>4, <1>5

LEMMA UpTook ==
    ASSUME OnceInv, NEW m \in Posts, up' = Append(up, m)
    PROVE  /\ \A y, s : About(up', y, s) <=> About(up, y, s) \/ (m.type = y /\ m.session = s)
           /\ \A T, r : Carries(up', T, r) <=> Carries(up, T, r) \/ (m.type \in T /\ m.request = r)
<1>1. up \in Seq(Posts)
  BY DEF OnceInv
<1> PICK p : p = up'
  OBVIOUS
<1>2. Adds(up, m, p)
  BY <1>1, AppendAdds
<1>3. /\ \A y, s : About(p, y, s) <=> About(up, y, s) \/ (m.type = y /\ m.session = s)
      /\ \A T, r : Carries(p, T, r) <=> Carries(up, T, r) \/ (m.type \in T /\ m.request = r)
  BY ONLY <1>2, More
<1> QED BY <1>3

LEMMA DownTook ==
    ASSUME OnceInv, NEW m \in News, down' = Append(down, m)
    PROVE  /\ \A y, s : About(down', y, s) <=> About(down, y, s) \/ (m.type = y /\ m.session = s)
           /\ \A T, r : Carries(down', T, r) <=> Carries(down, T, r) \/ (m.type \in T /\ m.request = r)
           /\ \A r : Replied(down', r) <=> Replied(down, r) \/ (Replies(m) /\ m.request = r)
           /\ OneReply(down) /\ (Replies(m) => ~ Replied(down, m.request)) => OneReply(down')
           /\ StaysOrdered(down, m, down') /\ StaysFollowed(down, m, down')
<1>1. down \in Seq(News)
  BY DEF OnceInv
<1> PICK p : p = down'
  OBVIOUS
<1>2. Adds(down, m, p)
  BY <1>1, AppendAdds
<1>3. /\ \A y, s : About(p, y, s) <=> About(down, y, s) \/ (m.type = y /\ m.session = s)
      /\ \A T, r : Carries(p, T, r) <=> Carries(down, T, r) \/ (m.type \in T /\ m.request = r)
      /\ \A r : Replied(p, r) <=> Replied(down, r) \/ (Replies(m) /\ m.request = r)
      /\ OneReply(down) /\ (Replies(m) => ~ Replied(down, m.request)) => OneReply(p)
      /\ StaysOrdered(down, m, p) /\ StaysFollowed(down, m, p)
  BY ONLY <1>2, More
<1> QED BY <1>3

(* What starts no session is about one that is open to the page.            *)
LEMMA GrantedFacts ==
    ASSUME OnceInv, KeptInv
    PROVE  /\ \A s : About(up, "input", s) \/ About(up, "interrupt", s) \/ s \in attached =>
                       s \in grants
           /\ \A s : s \in grants => s \in W!Sessions /\ Heard(s) /\ s \in DOMAIN running
           /\ \A s \in W!Sessions : Heard(s) => s \in grants
           /\ \A s \in DOMAIN running : running[s] \in BOOLEAN
<1>1. PageTypes
  BY DEF OnceInv
<1>2. InOrder /\ Listed /\ Linked
  BY DEF KeptInv
<1>3. attached \subseteq W!Sessions /\ grants \subseteq W!Sessions
  BY <1>1 DEF PageTypes
<1>4. \A s \in W!Sessions : s \in grants <=> Heard(s)
  BY <1>2 DEF InOrder
<1>5. \A s : About(up, "input", s) \/ About(up, "interrupt", s) => s \in grants
  BY <1>2 DEF InOrder
<1>6. \A s \in W!Sessions : s \in grants => s \in DOMAIN running
  BY <1>2 DEF Listed
<1>7. \A s \in attached : Heard(s)
  BY DEF Heard
<1>8. running \in [DOMAIN running -> BOOLEAN]
  BY <1>2 DEF Linked
<1> QED BY <1>3, <1>4, <1>5, <1>6, <1>7, <1>8

(* A step of the server, which leaves the page as it is.                    *)
LEMMA ServedKept ==
    ASSUME OnceInv, KeptInv, UNCHANGED <<W!page, socket, req, told>>,
           running' \in [DOMAIN running' -> BOOLEAN], DOMAIN running \subseteq DOMAIN running',
           \A s \in grants' : s \in DOMAIN running', refused \subseteq refused',
           InOrder', AllFound', OneReply(down'),
           \A k : About(up', "attach", k) \/ About(down', "attached", k)
                    <=> About(up, "attach", k) \/ About(down, "attached", k),
           \A r : Replied(down', r) => r \in W!Requests /\ ~ Carries(up', {"create"}, r),
           \A r \in W!Requests : Carries(up', {"create"}, r) \/ Replied(down', r)
                                   <=> Carries(up, {"create"}, r) \/ Replied(down, r),
           \A k \in grants : Pending(k) => Pending(k)',
           \A k \in grants : Turns(k) => Turns(k)' \/ k \in refused',
           \A s \in W!Sessions : About(down', "created", s) => About(down, "created", s) \/ Pending(s)'
    PROVE  KeptInv'
<1>1. /\ active' = active /\ ui' = ui /\ actions' = actions /\ attached' = attached
      /\ listed' = listed /\ socket' = socket /\ req' = req /\ told' = told
  BY DEF W!page
<1>2. Linked /\ Listed /\ InOrder /\ Held /\ InFlight /\ Freed
  BY DEF KeptInv
<1>3. Linked'
  BY <1>1, <1>2 DEF Linked
<1>4. Listed'
  BY <1>1, <1>2 DEF Listed
<1>5. \A k : Asked(k)' <=> Asked(k)
  BY <1>1 DEF Asked, Asking
<1>6. Held'
  <2>1. \A k \in W!Keys : ui'[k].initial # None =>
          k \in Drafts /\ <<"submit", k>> \in actions' /\ ~ Asked(k)'
    BY <1>1, <1>2, <1>5 DEF Held
  <2>2. \A k \in W!Keys : ui'[k].attach # None =>
         /\ k \in W!Sessions /\ k \notin attached' /\ <<"submit", k>> \in actions' /\ ~ Asked(k)'
         /\ About(up', "attach", k) \/ About(down', "attached", k)
    BY <1>1, <1>2, <1>5 DEF Held
  <2>3. \A r \in W!Requests : Asking(r)' /\ req'[r].key \notin attached' =>
         /\ <<"submit", req'[r].key>> \in actions'
         /\ \A q \in W!Requests : Asking(q)' /\ req'[q].key = req'[r].key => q = r
    BY <1>1, <1>2 DEF Held, Asking
  <2> QED BY <2>1, <2>2, <2>3 DEF Held
<1>7. InFlight'
  <2>1. Flying' = Flying /\ Awaiting' = Awaiting
    BY <1>1 DEF Flying, Awaiting
  <2> QED BY <1>1, <1>2, <2>1 DEF InFlight
<1>8. Freed'
  <2>1. \A k \in W!Keys : Holds(k)' <=> Holds(k)
    BY <1>1, <1>5 DEF Holds
  <2>2. \A k \in attached : k \in grants
    BY GrantedFacts
  <2>3. \A k \in W!Keys : Busy(k) => Busy(k)'
    BY <1>1, <1>5, <2>1, <2>2 DEF Busy
  <2>4. \A s \in W!Sessions : About(down, "created", s) => s \in grants
    BY GrantedFacts DEF Heard
  <2>5. \A s \in W!Sessions : About(down', "created", s) => Pending(s)'
    BY <1>2, <2>4 DEF Freed
  <2>6. \A s \in W!Sessions : listed'[s] = TRUE => s \in attached' /\ (s \in refused' \/ Turns(s)')
    BY <1>1, <1>2, <2>2 DEF Freed
  <2>7. \A k \in W!Keys : <<"interrupt", k>> \in actions' => k \in attached' /\ Pending(k)'
    BY <1>1, <1>2, <2>2 DEF Freed
  <2>8. /\ \A k \in W!Keys : <<"submit", k>> \in actions' \/ ui'[k].note => Busy(k)'
        /\ \A k \in Drafts : ui'[k].running => Holds(k)'
    BY <1>1, <1>2, <2>1, <2>3, NameFacts DEF Freed
  <2> QED BY <2>5, <2>6, <2>7, <2>8 DEF Freed
<1> QED BY <1>3, <1>4, <1>6, <1>7, <1>8 DEF KeptInv

LEMMA CreateRefusedKept ==
    ASSUME OnceInv, KeptInv, NEW i \in DOMAIN up, up[i].type = "create",
           NEW r, r = up[i].request, W!Down(W!Message("error", req[r].key, r)),
           up' = W!RemoveAt(up, i),
           UNCHANGED <<W!page, socket, req, told, running, grants, runs, refused>>
    PROVE  KeptInv'
<1>1. PageTypes /\ up[i] \in Posts
  BY DEF OnceInv
<1>2. /\ \A y, s : About(up, y, s) <=> About(up', y, s) \/ (up[i].type = y /\ up[i].session = s)
      /\ \A T, q : Carries(up, T, q) <=> Carries(up', T, q) \/ (up[i].type \in T /\ r = q)
      /\ ~ Carries(up', Starts, r)
  BY UpGave DEF Starts
<1>3. r \in W!Requests /\ r \in Flying /\ Carries(up, {"create"}, r)
  BY <1>1, <1>2 DEF Posts, Starts, Flying
<1>4. Linked /\ Listed /\ InOrder /\ InFlight /\ AllFound
  BY DEF KeptInv
<1>5. req[r].at = "done" /\ req[r].key \in Drafts /\ req[r].key \notin W!Sessions /\ req[r].key \in W!Keys
  BY <1>3, <1>4, NameFacts DEF InFlight
<1>6. PICK m \in News : m = W!Message("error", req[r].key, r)
  BY <1>3, <1>5, MessageFacts
<1>7. m.type = "error" /\ m.session = req[r].key /\ m.request = r /\ Replies(m)
  BY <1>5, <1>6, MessageFacts DEF Replies
<1>8. down' = Append(down, m)
  BY <1>4, <1>6 DEF W!Down, Linked
<1>9. /\ \A y, s : About(down', y, s) <=> About(down, y, s) \/ (m.type = y /\ m.session = s)
      /\ \A T, q : Carries(down', T, q) <=> Carries(down, T, q) \/ (m.type \in T /\ m.request = q)
      /\ \A q : Replied(down', q) <=> Replied(down, q) \/ (Replies(m) /\ m.request = q)
      /\ OneReply(down) /\ (Replies(m) => ~ Replied(down, m.request)) => OneReply(down')
      /\ StaysOrdered(down, m, down') /\ StaysFollowed(down, m, down')
  BY <1>8, DownTook
<1>10. ~ Carries(up', {"create"}, r)
  BY <1>2 DEF Carries, Starts
<1>11. /\ \A s : About(up', "input", s) <=> About(up, "input", s)
       /\ \A s : About(up', "interrupt", s) <=> About(up, "interrupt", s)
       /\ \A s : About(up', "attach", s) <=> About(up, "attach", s)
  BY <1>2
<1>12. /\ \A s : About(down', "created", s) <=> About(down, "created", s)
       /\ \A s : About(down', "attached", s) <=> About(down, "attached", s)
       /\ \A s : About(down', "end", s) <=> About(down, "end", s)
       /\ \A s : About(down, "error", s) => About(down', "error", s)
  BY <1>7, <1>9
<1>13. InOrder'
  <2>1. Turning' = Turning /\ attached' = attached
    BY DEF Turning, W!page
  <2>2. Ordered(down', attached)
    BY <1>4, <1>5, <1>7, <1>9 DEF InOrder, StaysOrdered
  <2>3. Followed(down', Turning)
    BY <1>4, <1>7, <1>9 DEF InOrder, StaysFollowed
  <2>4. \A s \in W!Sessions : s \in grants' <=> Heard(s)'
    BY <1>4, <1>12, <2>1 DEF InOrder, Heard
  <2>5. OfSessions(down')
    BY <1>4, <1>7, <1>9 DEF InOrder, OfSessions
  <2> QED BY <1>4, <1>11, <2>1, <2>2, <2>3, <2>4, <2>5 DEF InOrder
<1>14. OneReply(down') /\ \A q : Replied(down', q) => q \in W!Requests /\ ~ Carries(up', {"create"}, q)
  BY <1>2, <1>3, <1>4, <1>7, <1>9, <1>10 DEF InFlight
<1>15. \A q \in W!Requests : Carries(up', {"create"}, q) \/ Replied(down', q)
                               <=> Carries(up, {"create"}, q) \/ Replied(down, q)
  BY <1>2, <1>3, <1>7, <1>9
<1>16. AllFound'
  <2>1. ASSUME NEW q \in W!Requests, req'[q].at = "done"
        PROVE  Found(q)'
    <3>1. Found(q) /\ ui' = ui /\ runs' = runs /\ told' = told
      BY <1>4, <2>1 DEF AllFound, W!page
    <3>2. Carries(up, Starts, q) => Carries(up', Starts, q) \/ Carries(down', {"error"}, q)
      BY <1>2, <1>7, <1>9
    <3>3. Carries(down, {"error"}, q) => Carries(down', {"error"}, q)
      BY <1>9
    <3> QED BY <3>1, <3>2, <3>3 DEF Found
  <2> QED BY <2>1 DEF AllFound
<1>17. /\ \A k : Turns(k) <=> Turns(k)'
       /\ \A k : Pending(k) => Pending(k)'
  BY <1>11, <1>12 DEF Turns, Pending, Turning
<1>18. \A s \in grants : s \in DOMAIN running
  BY GrantedFacts
<1> QED BY <1>4, <1>11, <1>12, <1>13, <1>14, <1>15, <1>16, <1>17, <1>18, ServedKept DEF Linked

LEMMA CreatedKept ==
    ASSUME OnceInv, OnceInv', KeptInv, NEW i \in DOMAIN up, up[i].type = "create",
           NEW r, r = up[i].request, W!Down(W!Message("created", r, r)),
           up' = Append(W!RemoveAt(up, i), W!Message("input", r, r)),
           W!NewSession(r), grants' = grants \cup {r},
           UNCHANGED <<W!page, socket, req, told, runs, refused>>
    PROVE  KeptInv'
<1>1. PageTypes /\ up[i] \in Posts /\ up \in Seq(Posts) /\ Sole(up, Starts)
  BY DEF OnceInv
<1>2. PICK p : p = W!RemoveAt(up, i)
  OBVIOUS
<1>3. /\ p \in Seq(Posts) /\ Len(p) = Len(up) - 1
      /\ \A j \in 1 .. Len(p) : p[j] = IF j < i THEN up[j] ELSE up[j + 1]
  <2>1. up \in Seq(Posts)
    BY <1>1
  <2> QED BY ONLY <2>1, <1>2, i \in DOMAIN up, RemovedIsTaken, ZenonT(60)
<1>4. /\ \A y, s : About(up, y, s) <=> About(p, y, s) \/ (up[i].type = y /\ up[i].session = s)
      /\ \A T, q : Carries(up, T, q) <=> Carries(p, T, q) \/ (up[i].type \in T /\ up[i].request = q)
  <2>1. Drops(up, i, p)
    BY <1>1, <1>3, TakenDrops
  <2> QED BY ONLY <2>1, Less
<1>5. \A T : Sole(up, T) /\ up[i].type \in T => ~ Carries(p, T, up[i].request)
  BY ONLY <1>1, <1>3, i \in DOMAIN up, TakenFacts
<1>6. ~ Carries(p, Starts, r)
  BY <1>1, <1>5 DEF Starts
<1>7. r \in W!Requests /\ r \in W!Sessions /\ r \in Flying /\ Carries(up, {"create"}, r)
  BY <1>1, <1>4, NameFacts DEF Posts, Starts, Flying
<1>8. PICK n \in Posts : n = W!Message("input", r, r)
  BY <1>7, NameFacts, MessageFacts
<1>9. n.type = "input" /\ n.session = r /\ n.request = r
  BY <1>8, MessageFacts
<1>10. PICK u : u = up'
  OBVIOUS
<1>11. Adds(p, n, u)
  BY <1>2, <1>3, <1>8, <1>10, AppendAdds
<1>12. /\ \A y, s : About(u, y, s) <=> About(p, y, s) \/ (n.type = y /\ n.session = s)
       /\ \A T, q : Carries(u, T, q) <=> Carries(p, T, q) \/ (n.type \in T /\ n.request = q)
  BY ONLY <1>11, More
<1>13. /\ \A s : About(up', "input", s) <=> About(up, "input", s) \/ s = r
       /\ \A s : About(up', "interrupt", s) <=> About(up, "interrupt", s)
       /\ \A s : About(up', "attach", s) <=> About(up, "attach", s)
  BY <1>4, <1>9, <1>10, <1>12
<1>14. /\ \A q : Carries(up', {"create"}, q) <=> Carries(up, {"create"}, q) /\ q # r
       /\ \A q : Carries(up, Starts, q) => Carries(up', Starts, q)
  <2>1. ~ Carries(p, {"create"}, r)
    BY <1>6 DEF Carries, Starts
  <2> QED BY <1>4, <1>9, <1>10, <1>12, <2>1 DEF Starts
<1>15. Linked /\ Listed /\ InOrder /\ InFlight /\ AllFound
  BY DEF KeptInv
<1>16. PICK m \in News : m = W!Message("created", r, r)
  BY <1>7, MessageFacts
<1>17. m.type = "created" /\ m.session = r /\ m.request = r /\ Replies(m) /\ Opens(m)
  BY <1>16, MessageFacts DEF Replies, Opens
<1>18. down' = Append(down, m)
  BY <1>15, <1>16 DEF W!Down, Linked
<1>19. /\ \A y, s : About(down', y, s) <=> About(down, y, s) \/ (m.type = y /\ m.session = s)
       /\ \A T, q : Carries(down', T, q) <=> Carries(down, T, q) \/ (m.type \in T /\ m.request = q)
       /\ \A q : Replied(down', q) <=> Replied(down, q) \/ (Replies(m) /\ m.request = q)
       /\ OneReply(down) /\ (Replies(m) => ~ Replied(down, m.request)) => OneReply(down')
       /\ StaysOrdered(down, m, down') /\ StaysFollowed(down, m, down')
  BY <1>18, DownTook
<1>20. /\ \A s : About(down', "created", s) <=> About(down, "created", s) \/ s = r
       /\ \A s : About(down', "attached", s) <=> About(down, "attached", s)
       /\ \A s : About(down', "end", s) <=> About(down, "end", s)
       /\ \A s : About(down', "error", s) <=> About(down, "error", s)
       /\ \A q : Carries(down', {"error"}, q) <=> Carries(down, {"error"}, q)
  BY <1>17, <1>19
<1>21. /\ DOMAIN running' = DOMAIN running \cup {r}
       /\ running' \in [DOMAIN running' -> BOOLEAN]
       /\ Turning' = Turning
  <2>1. running' = [t \in DOMAIN running \cup {r} |-> t \in DOMAIN running /\ running[t]]
    BY DEF W!NewSession
  <2>2. running \in [DOMAIN running -> BOOLEAN]
    BY <1>15 DEF Linked
  <2>3. \A t \in DOMAIN running : running[t] \in BOOLEAN
    BY <2>2
  <2>4. DOMAIN running' = DOMAIN running \cup {r}
    BY <2>1
  <2>5. \A t \in DOMAIN running' : running'[t] = (t \in DOMAIN running /\ running[t])
    BY <2>1, <2>4
  <2>6. running' \in [DOMAIN running' -> BOOLEAN]
    BY <2>1
  <2>7. Turning' = Turning
    BY <2>4, <2>5 DEF Turning
  <2> QED BY <2>4, <2>6, <2>7
<1>22. InOrder'
  <2>1. attached' = attached
    BY DEF W!page
  <2>2. Ordered(down', attached)
    BY <1>15, <1>17, <1>19 DEF InOrder, StaysOrdered
  <2>3. Followed(down', Turning)
    BY <1>15, <1>17, <1>19 DEF InOrder, StaysFollowed
  <2>4. \A s \in W!Sessions : s \in grants' <=> Heard(s)'
    BY <1>15, <1>20, <2>1 DEF InOrder, Heard
  <2>5. OfSessions(down')
    BY <1>15, <1>17, <1>19 DEF InOrder, OfSessions
  <2> QED BY <1>13, <1>15, <1>21, <2>1, <2>2, <2>3, <2>4, <2>5 DEF InOrder
<1>23. OneReply(down') /\ \A q : Replied(down', q) => q \in W!Requests /\ ~ Carries(up', {"create"}, q)
  BY <1>7, <1>14, <1>15, <1>17, <1>19 DEF InFlight
<1>24. \A q \in W!Requests : Carries(up', {"create"}, q) \/ Replied(down', q)
                               <=> Carries(up, {"create"}, q) \/ Replied(down, q)
  BY <1>7, <1>14, <1>17, <1>19
<1>25. AllFound'
  <2>1. ASSUME NEW q \in W!Requests, req'[q].at = "done"
        PROVE  Found(q)'
    <3>1. Found(q) /\ ui' = ui /\ runs' = runs /\ told' = told
      BY <1>15, <2>1 DEF AllFound, W!page
    <3> QED BY <1>14, <1>20, <3>1 DEF Found
  <2> QED BY <2>1 DEF AllFound
<1>26. /\ \A k : Turns(k) => Turns(k)'
       /\ \A k : Pending(k) => Pending(k)'
       /\ Pending(r)'
  BY <1>13, <1>20, <1>21 DEF Turns, Pending
<1>27. \A s \in grants' : s \in DOMAIN running'
  BY <1>21, GrantedFacts
<1>28. DOMAIN running \subseteq DOMAIN running' /\ refused \subseteq refused'
  BY <1>21
<1> QED BY <1>13, <1>20, <1>21, <1>22, <1>23, <1>24, <1>25, <1>26, <1>27, <1>28, ServedKept

(* The page is told of what answers no creation.                            *)
LEMMA PlainMail ==
    ASSUME OnceInv, KeptInv, NEW m \in News, ~ Replies(m),
           down' = down \/ down' = Append(down, m),
           \A q : Carries(up', {"create"}, q) <=> Carries(up, {"create"}, q)
    PROVE  /\ OneReply(down')
           /\ \A q : Replied(down', q) => q \in W!Requests /\ ~ Carries(up', {"create"}, q)
           /\ \A q \in W!Requests : Carries(up', {"create"}, q) \/ Replied(down', q)
                                      <=> Carries(up, {"create"}, q) \/ Replied(down, q)
           /\ \A q : Carries(down, {"error"}, q) => Carries(down', {"error"}, q)
<1>1. /\ OneReply(down) => OneReply(down')
      /\ \A q : Replied(down', q) <=> Replied(down, q)
      /\ \A q : Carries(down, {"error"}, q) => Carries(down', {"error"}, q)
  <2>1. CASE down' = down
    BY <2>1
  <2>2. CASE down' = Append(down, m)
    BY <2>2, DownTook
  <2> QED BY <2>1, <2>2
<1>2. InFlight
  BY DEF KeptInv
<1> QED BY <1>1, <1>2 DEF InFlight

(* The page is told of session s, which is open to it.                      *)
LEMMA TellFacts ==
    ASSUME OnceInv, KeptInv, NEW s \in W!Sessions, NEW y \in {"error", "running", "end", "interrupted"},
           NEW r \in W!Requests \cup {None}, NEW m, m = W!Message(y, s, r),
           s \in grants, down' = Append(down, m), NEW V,
           y = "running" => s \in V, \A t \in Turning : t \in V \/ (y = "end" /\ t = s)
    PROVE  /\ m \in News /\ ~ Replies(m) /\ m.type = y /\ m.session = s /\ m.request = r
           /\ \A z, t : About(down', z, t) <=> About(down, z, t) \/ (z = y /\ t = s)
           /\ \A T, q : Carries(down', T, q) <=> Carries(down, T, q) \/ (y \in T /\ q = r)
           /\ Ordered(down', attached) /\ Followed(down', V)
<1>1. m \in News /\ m.type = y /\ m.session = s /\ m.request = r
  BY NameFacts, MessageFacts
<1>2. ~ Replies(m)
  BY <1>1, NameFacts DEF Replies
<1>3. /\ \A z, t : About(down', z, t) <=> About(down, z, t) \/ (m.type = z /\ m.session = t)
      /\ \A T, q : Carries(down', T, q) <=> Carries(down, T, q) \/ (m.type \in T /\ m.request = q)
      /\ StaysOrdered(down, m, down') /\ StaysFollowed(down, m, down')
  BY <1>1, DownTook
<1>4. Ordered(down, attached) /\ Followed(down, Turning)
  BY DEF KeptInv, InOrder
<1>5. Heard(s)
  BY GrantedFacts
<1>6. Ordered(down', attached)
  BY <1>1, <1>3, <1>4, <1>5 DEF StaysOrdered, Heard
<1>7. Followed(down', V)
  BY <1>1, <1>3, <1>4 DEF StaysFollowed
<1> QED BY <1>1, <1>2, <1>3, <1>6, <1>7

LEMMA AttachKept ==
    ASSUME OnceInv, KeptInv, NEW i \in DOMAIN up, W!ServeAttach(i), UNCHANGED <<W!page, socket, req, told>>
    PROVE  KeptInv'
<1>1. PageTypes /\ up[i] \in Posts /\ up' = W!RemoveAt(up, i) /\ up[i].type = "attach"
  BY DEF OnceInv, W!ServeAttach
<1> PICK s : s = up[i].session
  OBVIOUS
<1>2. /\ \A y, t : About(up, y, t) <=> About(up', y, t) \/ (y = "attach" /\ t = s)
      /\ \A T, q : Carries(up, T, q) <=> Carries(up', T, q) \/ ("attach" \in T /\ q = up[i].request)
  BY <1>1, UpGave
<1>3. s \in W!Sessions
  BY <1>1 DEF Posts
<1>4. Linked /\ Listed /\ InOrder /\ AllFound
  BY DEF KeptInv
<1>5. s \in DOMAIN running
  BY <1>2, <1>3, <1>4 DEF Listed
<1>6. PICK m \in News : m = W!Message("attached", s, None)
  BY <1>3, MessageFacts
<1>7. m.type = "attached" /\ m.session = s /\ ~ Replies(m) /\ Opens(m)
  BY <1>6, MessageFacts DEF Replies, Opens
<1>8. /\ down' = Append(down, m) /\ grants' = grants \cup {s}
      /\ running' = running /\ runs' = runs /\ refused' = refused
  BY <1>4, <1>6 DEF W!ServeAttach, W!Down, Linked
<1>9. /\ \A y, t : About(down', y, t) <=> About(down, y, t) \/ (y = "attached" /\ t = s)
      /\ StaysOrdered(down, m, down') /\ StaysFollowed(down, m, down')
  BY <1>7, <1>8, DownTook
<1>10. /\ \A q : Carries(up', {"create"}, q) <=> Carries(up, {"create"}, q)
       /\ \A q : Carries(up', Starts, q) <=> Carries(up, Starts, q)
  BY <1>2 DEF Starts
<1>11. /\ OneReply(down')
       /\ \A q : Replied(down', q) => q \in W!Requests /\ ~ Carries(up', {"create"}, q)
       /\ \A q \in W!Requests : Carries(up', {"create"}, q) \/ Replied(down', q)
                                  <=> Carries(up, {"create"}, q) \/ Replied(down, q)
       /\ \A q : Carries(down, {"error"}, q) => Carries(down', {"error"}, q)
  BY <1>7, <1>8, <1>10, PlainMail
<1>12. InOrder'
  <2>1. Turning' = Turning /\ attached' = attached
    BY <1>8 DEF Turning, W!page
  <2>2. Ordered(down', attached)
    BY <1>4, <1>7, <1>9 DEF InOrder, StaysOrdered
  <2>3. Followed(down', Turning)
    BY <1>4, <1>7, <1>9 DEF InOrder, StaysFollowed
  <2>4. \A t \in W!Sessions : t \in grants' <=> Heard(t)'
    BY <1>4, <1>8, <1>9, <2>1 DEF InOrder, Heard
  <2>5. \A t : About(up', "input", t) \/ About(up', "interrupt", t) => t \in grants'
    BY <1>2, <1>4, <1>8 DEF InOrder
  <2>6. OfSessions(down')
    BY <1>4, <1>9 DEF InOrder, OfSessions
  <2> QED BY <2>1, <2>2, <2>3, <2>4, <2>5, <2>6 DEF InOrder
<1>13. AllFound'
  <2>1. ASSUME NEW q \in W!Requests, req'[q].at = "done"
        PROVE  Found(q)'
    <3>1. Found(q) /\ ui' = ui /\ runs' = runs /\ told' = told
      BY <1>4, <1>8, <2>1 DEF AllFound, W!page
    <3> QED BY <1>10, <1>11, <3>1 DEF Found
  <2> QED BY <2>1 DEF AllFound
<1>14. /\ \A k : Turns(k) => Turns(k)'
       /\ \A k : Pending(k) => Pending(k)'
  BY <1>2, <1>8, <1>9 DEF Turns, Pending, Turning
<1>15. \A t \in grants' : t \in DOMAIN running'
  BY <1>5, <1>8, GrantedFacts
<1>16. \A k : About(up', "attach", k) \/ About(down', "attached", k)
                <=> About(up, "attach", k) \/ About(down, "attached", k)
  BY <1>2, <1>9
<1>17. \A t \in W!Sessions : About(down', "created", t) => About(down, "created", t)
  BY <1>9
<1>18. running' \in [DOMAIN running' -> BOOLEAN] /\ DOMAIN running \subseteq DOMAIN running'
       /\ refused \subseteq refused'
  BY <1>4, <1>8 DEF Linked
<1> QED BY <1>11, <1>12, <1>13, <1>14, <1>15, <1>16, <1>17, <1>18, ServedKept

(* An input or an interrupt is taken; V are the sessions that run then.     *)
LEMMA AnsweredKept ==
    ASSUME OnceInv, KeptInv, NEW i \in DOMAIN up, up' = W!RemoveAt(up, i),
           up[i].type \in {"input", "interrupt"}, UNCHANGED <<W!page, socket, req, told, grants>>,
           NEW y \in {"error", "running", "end", "interrupted"}, NEW r \in W!Requests \cup {None},
           NEW m, m = W!Message(y, up[i].session, r), down' = Append(down, m),
           running' \in [DOMAIN running -> BOOLEAN], Turning \subseteq Turning',
           y = "running" => up[i].session \in Turning',
           y = "error" \/ up[i].session \in Turning',
           up[i].type = "input" => up[i].session \in Turning' \cup refused',
           refused \subseteq refused',
           AllFound'
    PROVE  KeptInv'
<1> PICK s : s = up[i].session
  OBVIOUS
<1>1. /\ \A z, t : About(up, z, t) <=> About(up', z, t) \/ (up[i].type = z /\ t = s)
      /\ \A T, q : Carries(up, T, q) <=> Carries(up', T, q) \/ (up[i].type \in T /\ up[i].request = q)
  BY UpGave
<1>2. s \in grants
  <2>1. About(up, "input", s) \/ About(up, "interrupt", s)
    BY <1>1
  <2> QED BY <2>1, GrantedFacts
<1>3. s \in W!Sessions /\ s \in DOMAIN running
  BY <1>2, GrantedFacts
<1>4. Linked /\ Listed /\ InOrder
  BY DEF KeptInv
<1>5. /\ m \in News /\ ~ Replies(m)
      /\ \A z, t : About(down', z, t) <=> About(down, z, t) \/ (z = y /\ t = s)
      /\ \A T, q : Carries(down', T, q) <=> Carries(down, T, q) \/ (y \in T /\ q = r)
      /\ Ordered(down', attached) /\ Followed(down', Turning')
  <2>1. PICK V : V = Turning'
    OBVIOUS
  <2>2. y = "running" => s \in V
    BY <2>1
  <2>3. \A t \in Turning : t \in V \/ (y = "end" /\ t = s)
    BY <2>1
  <2>4. m = W!Message(y, s, r)
    OBVIOUS
  <2>5. /\ m \in News /\ ~ Replies(m)
        /\ \A z, t : About(down', z, t) <=> About(down, z, t) \/ (z = y /\ t = s)
        /\ \A T, q : Carries(down', T, q) <=> Carries(down, T, q) \/ (y \in T /\ q = r)
        /\ Ordered(down', attached) /\ Followed(down', V)
    BY <1>2, <1>3, <2>2, <2>3, <2>4, TellFacts
  <2> QED BY <2>1, <2>5
<1>6. \A q : Carries(up', {"create"}, q) <=> Carries(up, {"create"}, q)
  BY <1>1
<1>7. /\ OneReply(down')
      /\ \A q : Replied(down', q) => q \in W!Requests /\ ~ Carries(up', {"create"}, q)
      /\ \A q \in W!Requests : Carries(up', {"create"}, q) \/ Replied(down', q)
                                 <=> Carries(up, {"create"}, q) \/ Replied(down, q)
  BY <1>5, <1>6, PlainMail
<1>8. /\ \A t : About(down', "created", t) <=> About(down, "created", t)
      /\ \A t : About(down', "attached", t) <=> About(down, "attached", t)
      /\ \A t : About(down, "end", t) => About(down', "end", t)
      /\ \A t : About(down, "error", t) => About(down', "error", t)
      /\ \A t : About(up', "attach", t) <=> About(up, "attach", t)
  BY <1>1, <1>5
<1>9. InOrder'
  <2>1. attached' = attached /\ grants' = grants
    BY DEF W!page
  <2>2. \A t \in W!Sessions : t \in grants' <=> Heard(t)'
    BY <1>4, <1>8, <2>1 DEF InOrder, Heard
  <2>3. \A t : About(up', "input", t) \/ About(up', "interrupt", t) => t \in grants'
    BY <1>1, <1>4, <2>1 DEF InOrder
  <2>4. OfSessions(down')
    BY <1>3, <1>4, <1>5 DEF InOrder, OfSessions
  <2> QED BY <1>5, <2>1, <2>2, <2>3, <2>4 DEF InOrder
<1>10. \A k : Turns(k) => Turns(k)' \/ k \in refused'
  BY <1>1, <1>8 DEF Turns
<1>11. Pending(s)'
  BY <1>5 DEF Pending, Turns
<1>12. \A k : Pending(k) => Pending(k)'
  BY <1>1, <1>8, <1>11 DEF Pending, Turns
<1>13. DOMAIN running' = DOMAIN running
  OBVIOUS
<1>14. /\ \A t \in grants' : t \in DOMAIN running'
       /\ running' \in [DOMAIN running' -> BOOLEAN] /\ DOMAIN running \subseteq DOMAIN running'
  BY <1>13, GrantedFacts
<1> QED BY <1>7, <1>8, <1>9, <1>10, <1>12, <1>14, ServedKept

LEMMA ServedInputKept ==
    ASSUME OnceInv, OnceInv', KeptInv, NEW i \in DOMAIN up, W!ServeInput(i),
           UNCHANGED <<W!page, socket, req, told>>
    PROVE  KeptInv'
<1>1. PageTypes /\ up[i] \in Posts /\ up' = W!RemoveAt(up, i) /\ up[i].type = "input"
      /\ grants' = grants
  BY DEF OnceInv, W!ServeInput
<1> PICK s : s = up[i].session
  OBVIOUS
<1> PICK r : r = up[i].request
  OBVIOUS
<1>2. r \in W!Requests
  BY <1>1 DEF Posts, Starts
<1>3. /\ \A z, t : About(up, z, t) <=> About(up', z, t) \/ (z = "input" /\ t = s)
      /\ \A T, q : Carries(up, T, q) <=> Carries(up', T, q) \/ ("input" \in T /\ r = q)
  BY <1>1, UpGave
<1>4. s \in grants /\ s \in W!Sessions /\ s \in DOMAIN running /\ running[s] \in BOOLEAN
  BY <1>3, GrantedFacts
<1>5. Linked /\ AllFound /\ running \in [DOMAIN running -> BOOLEAN]
  BY DEF KeptInv, Linked
<1>6. ASSUME W!Down(W!Message("error", s, r)), UNCHANGED <<running, runs>>,
             refused' = IF running[s] THEN refused ELSE refused \cup {s}
      PROVE  KeptInv'
  <2>1. PICK m : m = W!Message("error", s, r)
    OBVIOUS
  <2>2. down' = Append(down, m)
    BY <1>5, <1>6, <2>1 DEF W!Down, Linked
  <2>3. Turning' = Turning /\ s \in Turning' \cup refused' /\ refused \subseteq refused'
    BY <1>4, <1>6 DEF Turning
  <2>4. m \in News /\ m.type = "error" /\ m.request = r
    BY <1>2, <1>4, <2>1, NameFacts, MessageFacts
  <2>5. \A T, q : Carries(down', T, q) <=> Carries(down, T, q) \/ ("error" \in T /\ q = r)
    BY <2>2, <2>4, DownTook
  <2>6. AllFound'
    <3>1. ASSUME NEW q \in W!Requests, req'[q].at = "done"
          PROVE  Found(q)'
      <4>1. Found(q) /\ ui' = ui /\ runs' = runs /\ told' = told
        BY <1>5, <1>6, <3>1 DEF AllFound, W!page
      <4>2. Carries(up, Starts, q) => Carries(up', Starts, q) \/ Carries(down', {"error"}, q)
        BY <1>3, <2>5
      <4>3. Carries(down, {"error"}, q) => Carries(down', {"error"}, q)
        BY <2>5
      <4> QED BY <4>1, <4>2, <4>3 DEF Found
    <3> QED BY <3>1 DEF AllFound
  <2>7. running' \in [DOMAIN running -> BOOLEAN] /\ Turning \subseteq Turning'
    BY <1>5, <1>6, <2>3
  <2> QED BY <1>1, <1>2, <2>1, <2>2, <2>3, <2>6, <2>7, AnsweredKept
<1>7. ASSUME ~ running[s], running' = [running EXCEPT ![s] = TRUE],
             runs' = [runs EXCEPT ![r] = @ + 1], W!Tell("running", s), refused' = refused
      PROVE  KeptInv'
  <2>1. PICK m : m = W!Message("running", s, None)
    OBVIOUS
  <2>2. down' = Append(down, m)
    BY <1>4, <1>5, <1>7, <2>1 DEF W!Tell, Linked
  <2>3. running' \in [DOMAIN running -> BOOLEAN] /\ Turning' = Turning \cup {s}
    BY <1>4, <1>5, <1>7 DEF Turning
  <2>4. m \in News /\ m.type = "running"
    BY <1>4, <2>1, NameFacts, MessageFacts
  <2>5. \A T, q : Carries(down, T, q) => Carries(down', T, q)
    BY <2>2, <2>4, DownTook
  <2>6. AllFound'
    <3>1. ASSUME NEW q \in W!Requests, req'[q].at = "done"
          PROVE  Found(q)'
      <4>1. Found(q) /\ ui' = ui /\ told' = told
        BY <1>5, <3>1 DEF AllFound, W!page
      <4>2. runs'[q] = IF q = r THEN runs[q] + 1 ELSE runs[q]
        BY <1>1, <1>2, <1>7, <3>1 DEF PageTypes
      <4>3. CASE q = r
        <5>1. runs[q] \in Nat /\ runs'[q] <= 1
          BY <1>1, <3>1 DEF PageTypes, OnceInv, Account
        <5> QED BY <4>2, <4>3, <5>1 DEF Found
      <4>4. CASE q # r
        <5>1. Carries(up, Starts, q) => Carries(up', Starts, q)
          BY <1>3, <4>4
        <5> QED BY <2>5, <4>1, <4>2, <4>4, <5>1 DEF Found
      <4> QED BY <4>3, <4>4
    <3> QED BY <3>1 DEF AllFound
  <2> QED BY <1>1, <1>7, <2>1, <2>2, <2>3, <2>6, AnsweredKept
<1> QED BY <1>6, <1>7 DEF W!ServeInput

LEMMA InterruptKept ==
    ASSUME OnceInv, KeptInv, NEW i \in DOMAIN up, W!ServeInterrupt(i),
           UNCHANGED <<W!page, socket, req, told>>
    PROVE  KeptInv'
<1>1. up' = W!RemoveAt(up, i) /\ up[i].type = "interrupt"
      /\ grants' = grants /\ running' = running /\ runs' = runs /\ refused' = refused
  BY DEF W!ServeInterrupt, W!server
<1> PICK s : s = up[i].session
  OBVIOUS
<1>2. /\ \A z, t : About(up, z, t) <=> About(up', z, t) \/ (z = "interrupt" /\ t = s)
      /\ \A T, q : Carries(up, T, q) <=> Carries(up', T, q) \/ ("interrupt" \in T /\ up[i].request = q)
  BY <1>1, UpGave
<1>3. s \in grants /\ s \in W!Sessions /\ s \in DOMAIN running
  BY <1>2, GrantedFacts
<1>4. Linked /\ AllFound /\ running \in [DOMAIN running -> BOOLEAN] /\ Turning' = Turning
  BY <1>1 DEF KeptInv, Linked, Turning
<1>5. PICK y \in {"error", "interrupted"} :
        /\ W!Down(W!Message(y, s, None)) /\ (y = "error" \/ s \in Turning)
  BY <1>3 DEF W!ServeInterrupt, Turning
<1>6. PICK m : m = W!Message(y, s, None)
  OBVIOUS
<1>7. down' = Append(down, m)
  BY <1>4, <1>5, <1>6 DEF W!Down, Linked
<1>8. m \in News
  BY <1>3, <1>6, NameFacts, MessageFacts
<1>9. \A T, q : Carries(down, T, q) => Carries(down', T, q)
  BY <1>7, <1>8, DownTook
<1>10. AllFound'
  <2>1. ASSUME NEW q \in W!Requests, req'[q].at = "done"
        PROVE  Found(q)'
    <3>1. Found(q) /\ ui' = ui /\ runs' = runs /\ told' = told
      BY <1>1, <1>4, <2>1 DEF AllFound, W!page
    <3>2. Carries(up, Starts, q) => Carries(up', Starts, q)
      BY <1>2 DEF Starts
    <3> QED BY <1>9, <3>1, <3>2 DEF Found
  <2> QED BY <2>1 DEF AllFound
<1>11. y \in {"error", "running", "end", "interrupted"} /\ y # "running"
  BY <1>5
<1> QED BY <1>1, <1>4, <1>5, <1>6, <1>7, <1>10, <1>11, AnsweredKept

(* A turn begins or ends, in which no message of the page has a part.       *)
LEMMA TurnKept ==
    ASSUME OnceInv, KeptInv, NEW s \in DOMAIN running, W!EndTurn(s) \/ W!OtherTurn(s)
    PROVE  KeptInv'
<1>1. /\ UNCHANGED <<W!page, socket, req, told>> /\ up' = up /\ grants' = grants /\ runs' = runs
      /\ refused' = refused
  BY DEF W!EndTurn, W!OtherTurn
<1>2. Linked /\ InOrder /\ AllFound /\ PageTypes /\ running \in [DOMAIN running -> BOOLEAN]
  BY DEF KeptInv, Linked, OnceInv
<1>3. PICK y \in {"running", "end"} :
        /\ W!Tell(y, s) /\ running' = [running EXCEPT ![s] = (y = "running")]
        /\ y = "running" \/ s \in Turning
  BY DEF W!EndTurn, W!OtherTurn, Turning
<1>4. running' \in [DOMAIN running -> BOOLEAN] /\ DOMAIN running' = DOMAIN running
  BY <1>2, <1>3
<1>5. \A t : t \in Turning' <=> IF t = s THEN y = "running" ELSE t \in Turning
  BY <1>2, <1>3, <1>4 DEF Turning
<1>6. attached' = attached /\ ui' = ui
  BY <1>1 DEF W!page
<1>7. s \in W!Sessions
  BY <1>2 DEF PageTypes
<1>8. PICK m : m = W!Message(y, s, None)
  OBVIOUS
<1>9. m \in News /\ m.type = y /\ m.session = s /\ m.request = None
  BY <1>7, <1>8, NameFacts, MessageFacts
<1>10. ~ Replies(m)
  BY <1>7, <1>9, NameFacts DEF Replies
<1>11. down' = IF s \in grants THEN Append(down, m) ELSE down
  BY <1>2, <1>3, <1>8 DEF W!Tell, Linked
<1>12. /\ OneReply(down')
       /\ \A q : Replied(down', q) => q \in W!Requests /\ ~ Carries(up', {"create"}, q)
       /\ \A q \in W!Requests : Carries(up', {"create"}, q) \/ Replied(down', q)
                                  <=> Carries(up, {"create"}, q) \/ Replied(down, q)
       /\ \A q : Carries(down, {"error"}, q) => Carries(down', {"error"}, q)
  BY <1>1, <1>9, <1>10, <1>11, PlainMail
<1>13. PICK V : V = Turning'
  OBVIOUS
<1>14. /\ \A z, t : About(down', z, t) <=> About(down, z, t) \/ (s \in grants /\ z = y /\ t = s)
       /\ Ordered(down', attached) /\ Followed(down', V)
  <2>1. CASE s \in grants
    <3>1. down' = Append(down, m)
      BY <1>11, <2>1
    <3>2. y = "running" => s \in V
      BY <1>5, <1>13
    <3>3. \A t \in Turning : t \in V \/ (y = "end" /\ t = s)
      BY <1>5, <1>13
    <3> QED BY <1>7, <1>8, <2>1, <3>1, <3>2, <3>3, TellFacts, SMTT(40)
  <2>2. CASE s \notin grants
    <3>1. down' = down
      BY <1>11, <2>2
    <3>2. ~ Heard(s)
      BY <1>2, <1>7, <2>2 DEF InOrder
    <3>3. ASSUME NEW j \in DOMAIN down, down[j].type = "running"
          PROVE  down[j].session # s
      <4>1. ~ Opens(down[j])
        BY <3>3 DEF Opens
      <4>2. down[j].session = s => Heard(s)
        BY <1>2, <1>7, <4>1 DEF InOrder, Ordered, Heard, Opens, About
      <4> QED BY <3>2, <4>2
    <3>4. Followed(down, V)
      <4>1. Followed(down, Turning)
        BY <1>2 DEF InOrder
      <4>2. \A t \in Turning : t \in V \/ t = s
        BY <1>5, <1>13
      <4> QED BY <3>3, <4>1, <4>2 DEF Followed
    <3>5. Ordered(down, attached)
      BY <1>2 DEF InOrder
    <3> QED BY <2>2, <3>1, <3>4, <3>5
  <2> QED BY <2>1, <2>2
<1>15. InOrder'
  <2>1. \A t \in W!Sessions : t \in grants' <=> Heard(t)'
    BY <1>1, <1>2, <1>6, <1>14 DEF InOrder, Heard
  <2>2. \A t : About(up', "input", t) \/ About(up', "interrupt", t) => t \in grants'
    BY <1>1, <1>2 DEF InOrder
  <2>3. OfSessions(down')
    BY <1>2, <1>7, <1>14 DEF InOrder, OfSessions
  <2> QED BY <1>6, <1>13, <1>14, <2>1, <2>2, <2>3 DEF InOrder
<1>16. AllFound'
  <2>1. ASSUME NEW q \in W!Requests, req'[q].at = "done"
        PROVE  Found(q)'
    <3>1. Found(q) /\ told' = told
      BY <1>1, <1>2, <2>1 DEF AllFound
    <3> QED BY <1>1, <1>6, <1>12, <3>1 DEF Found
  <2> QED BY <2>1 DEF AllFound
<1>17. \A k \in grants : Turns(k) => Turns(k)'
  BY <1>1, <1>5, <1>14 DEF Turns
<1>18. \A k \in grants : Pending(k) => Pending(k)'
  BY <1>1, <1>14, <1>17 DEF Pending
<1>19. /\ \A t \in grants' : t \in DOMAIN running'
       /\ running' \in [DOMAIN running' -> BOOLEAN] /\ DOMAIN running \subseteq DOMAIN running'
  BY <1>1, <1>4, GrantedFacts
<1>20. \A k : /\ About(up', "attach", k) \/ About(down', "attached", k)
                   <=> About(up, "attach", k) \/ About(down, "attached", k)
              /\ About(down', "created", k) => About(down, "created", k)
  BY <1>1, <1>14
<1> QED BY <1>1, <1>12, <1>15, <1>16, <1>17, <1>18, <1>19, <1>20, ServedKept

-----------------------------------------------------------------------------
(* A step of the page, which leaves the server as it is.                    *)
Still == UNCHANGED <<down, running, grants, runs, refused>>

LEMMA OrderSame ==
    ASSUME KeptInv, Still, attached' = attached,
           \A s : About(up', "input", s) \/ About(up', "interrupt", s) => s \in grants
    PROVE  InOrder'
<1>1. InOrder /\ Turning' = Turning /\ down' = down /\ grants' = grants
  BY DEF KeptInv, Turning, Still
<1>2. \A s \in W!Sessions : s \in grants' <=> Heard(s)'
  BY <1>1 DEF InOrder, Heard
<1> QED BY <1>1, <1>2 DEF InOrder

LEMMA FlightSame ==
    ASSUME KeptInv, down' = down, \A k \in W!Keys : ui'[k].initial = None <=> ui[k].initial = None,
           \A q : Carries(up', {"create"}, q) <=> Carries(up, {"create"}, q),
           \A q \in W!Requests : req[q].at = "done" => req'[q].at = "done" /\ req'[q].key = req[q].key
    PROVE  InFlight'
<1>1. InFlight
  BY DEF KeptInv
<1>2. Flying' = Flying /\ Awaiting' = Awaiting
  BY DEF Flying, Awaiting
<1>3. /\ OneReply(down') /\ IsFiniteSet(Awaiting') /\ Cardinality(Awaiting') = Cardinality(Flying')
  BY <1>1, <1>2 DEF InFlight
<1>4. \A r : Replied(down', r) => r \in W!Requests /\ ~ Carries(up', {"create"}, r)
  BY <1>1 DEF InFlight
<1>5. \A r \in Flying' : req'[r].at = "done" /\ req'[r].key \in Drafts
  <2>1. \A r \in Flying' : r \in W!Requests
    BY DEF Flying
  <2>2. \A r \in Flying' : req[r].at = "done" /\ req[r].key \in Drafts
    BY <1>1, <1>2 DEF InFlight
  <2> QED BY <2>1, <2>2
<1> QED BY <1>3, <1>4, <1>5 DEF InFlight

LEMMA FoundSame ==
    ASSUME KeptInv, Still, told \subseteq told',
           \A q : Carries(up, Starts, q) => Carries(up', Starts, q),
           \A k \in W!Keys : ui'[k].attach = ui[k].attach,
           \A q \in W!Requests : req'[q].at = "done" => req[q].at = "done" \/ Found(q)'
    PROVE  AllFound'
<1>1. AllFound
  BY DEF KeptInv
<1>2. ASSUME NEW q \in W!Requests, req[q].at = "done"
      PROVE  Found(q)'
  <2>1. Found(q)
    BY <1>1, <1>2 DEF AllFound
  <2> QED BY <2>1 DEF Found, Still
<1> QED BY <1>2 DEF AllFound

(* No request and no composer of one is concerned.                          *)
LEMMA QuietKept ==
    ASSUME OnceInv, KeptInv, Still, UNCHANGED <<req, attached, listed, told>>, socket'.open,
           active' \in W!Sessions => listed[active'] # None,
           \A k \in W!Keys : /\ ui'[k].initial = ui[k].initial /\ ui'[k].attach = ui[k].attach
                             /\ ui'[k].note = ui[k].note
                             /\ ui'[k].running => ui[k].running \/ (k \in W!Sessions /\ listed[k] # None),
           \A q : Carries(up', {"create"}, q) <=> Carries(up, {"create"}, q),
           \A q : Carries(up, Starts, q) => Carries(up', Starts, q),
           \A y, s : About(up, y, s) => About(up', y, s),
           \A s \in W!Sessions : About(up', "attach", s) => About(up, "attach", s) \/ listed[s] # None,
           \A s : About(up', "input", s) \/ About(up', "interrupt", s) => s \in grants,
           socket' \in [state : {"idle", "negotiating", "connected", "error"}, open : BOOLEAN],
           NEW k \in W!Keys, actions \subseteq actions',
           actions' = actions \/ (/\ actions' = actions \cup {<<"interrupt", k>>}
                                  /\ k \in attached /\ About(up', "interrupt", k))
    PROVE  KeptInv'
<1>1. Linked /\ Listed /\ InOrder /\ Held /\ InFlight /\ Freed
  BY DEF KeptInv
<1>2. Linked'
  <2>1. running' = running /\ <<"interrupt", k>> \in {"submit", "interrupt"} \X W!Keys
    BY DEF Still
  <2> QED BY <1>1, <2>1 DEF Linked
<1>3. Listed'
  BY <1>1, NameFacts DEF Listed, Still
<1>4. InOrder' /\ InFlight' /\ AllFound'
  <2>1. InOrder'
    BY OrderSame
  <2>2. down' = down /\ told' = told /\ req' = req
    BY DEF Still
  <2>3. InFlight'
    BY <2>2, FlightSame
  <2>4. AllFound'
    BY <2>2, FoundSame
  <2> QED BY <2>1, <2>3, <2>4
<1>5. \A j : Asked(j)' <=> Asked(j)
  BY DEF Asked, Asking
<1>6. Held'
  <2>1. \A j \in W!Keys : ui'[j].initial # None =>
          j \in Drafts /\ <<"submit", j>> \in actions' /\ ~ Asked(j)'
    BY <1>1, <1>5 DEF Held
  <2>2. \A j \in W!Keys : ui'[j].attach # None =>
         /\ j \in W!Sessions /\ j \notin attached' /\ <<"submit", j>> \in actions' /\ ~ Asked(j)'
         /\ About(up', "attach", j) \/ About(down', "attached", j)
    BY <1>1, <1>5 DEF Held, Still
  <2>3. \A r \in W!Requests : Asking(r)' /\ req'[r].key \notin attached' =>
         /\ <<"submit", req'[r].key>> \in actions'
         /\ \A q \in W!Requests : Asking(q)' /\ req'[q].key = req'[r].key => q = r
    BY <1>1 DEF Held, Asking
  <2> QED BY <2>1, <2>2, <2>3 DEF Held
<1>7. /\ \A j : Turns(j) => Turns(j)'
      /\ \A j : Pending(j) => Pending(j)'
  BY DEF Turns, Pending, Turning, Still
<1>8. \A j \in W!Keys : Holds(j)' <=> Holds(j)
  BY <1>5 DEF Holds
<1>9. Freed'
  <2>1. \A j \in W!Keys : Busy(j) => Busy(j)'
    BY <1>5, <1>7, <1>8 DEF Busy
  <2>2. \A j \in W!Keys : <<"submit", j>> \in actions' \/ ui'[j].note => Busy(j)'
    <3>1. \A j : <<"submit", j>> \in actions' => <<"submit", j>> \in actions
      OBVIOUS
    <3> QED BY <1>1, <2>1, <3>1 DEF Freed
  <2>3. \A j \in W!Keys : <<"interrupt", j>> \in actions' => j \in attached' /\ Pending(j)'
    <3>1. \A j : <<"interrupt", j>> \in actions' =>
                   <<"interrupt", j>> \in actions \/ (j = k /\ k \in attached /\ About(up', "interrupt", k))
      OBVIOUS
    <3> QED BY <1>1, <1>7, <3>1 DEF Freed, Pending
  <2>4. \A j \in Drafts : ui'[j].running => Holds(j)'
    BY <1>1, <1>8, NameFacts DEF Freed
  <2>5. \A s \in W!Sessions : listed'[s] = TRUE => s \in attached' /\ (s \in refused' \/ Turns(s)')
    BY <1>1, <1>7 DEF Freed, Still
  <2>6. \A s \in W!Sessions : About(down', "created", s) => Pending(s)'
    BY <1>1, <1>7 DEF Freed, Still
  <2> QED BY <2>2, <2>3, <2>4, <2>5, <2>6 DEF Freed
<1> QED BY <1>2, <1>3, <1>4, <1>6, <1>9 DEF KeptInv

LEMMA AttachesAsk ==
    ASSUME NEW k, NEW state, NEW n \in {1, 2}, NEW t, t = W!Attaches(k, state, n)
    PROVE  /\ t \in Seq(Posts) /\ \A T \in {Starts, {"create"}} : \A q : ~ Carries(t, T, q)
           /\ \A s : /\ About(t, "attach", s) => s = k
                     /\ ~ About(t, "input", s) /\ ~ About(t, "interrupt", s)
<1>1. /\ t \in Seq(Posts) /\ \A T \in {Starts, {"create"}} : \A q : ~ Carries(t, T, q)
      /\ \A j : About(t, "attach", j) => j = k
  BY AttachesFacts
<1>2. \A s : ~ About(t, "input", s) /\ ~ About(t, "interrupt", s)
  <2>1. CASE t = << >>
    BY <2>1, Emptied
  <2>2. CASE t # << >>
    <3>1. t = [i \in 1 .. n |-> W!Message("attach", k, None)]
      BY <2>2 DEF W!Attaches
    <3>2. DOMAIN t = 1 .. n /\ \A i \in DOMAIN t : t[i].type = "attach"
      BY <3>1, MessageFacts
    <3> QED BY <3>2 DEF About
  <2> QED BY <2>1, <2>2
<1> QED BY <1>1, <1>2

(* What the attachments of k add to the queue of the server.                *)
LEMMA AttachesAdd ==
    ASSUME OnceInv, NEW k, NEW state, NEW n \in {1, 2}, up' = up \o W!Attaches(k, state, n)
    PROVE  /\ \A T \in {Starts, {"create"}} : \A q : Carries(up', T, q) <=> Carries(up, T, q)
           /\ \A y, s : About(up, y, s) => About(up', y, s)
           /\ \A s : About(up', "attach", s) => About(up, "attach", s) \/ s = k
           /\ \A s : /\ About(up', "input", s) => About(up, "input", s)
                     /\ About(up', "interrupt", s) => About(up, "interrupt", s)
<1> PICK t : t = W!Attaches(k, state, n)
  OBVIOUS
<1>1. /\ t \in Seq(Posts) /\ \A T \in {Starts, {"create"}} : \A q : ~ Carries(t, T, q)
      /\ \A s : /\ About(t, "attach", s) => s = k
                /\ ~ About(t, "input", s) /\ ~ About(t, "interrupt", s)
  BY AttachesAsk
<1> PICK p : p = up'
  OBVIOUS
<1>3. p = up \o t /\ up \in Seq(Posts)
  BY DEF OnceInv
<1>4. /\ \A y, s : About(p, y, s) <=> About(up, y, s) \/ About(t, y, s)
      /\ \A T, r : Carries(p, T, r) <=> Carries(up, T, r) \/ Carries(t, T, r)
  BY <1>1, <1>3, Joined, ZenonT(40)
<1> QED BY <1>1, <1>4

LEMMA NavigateKept ==
    ASSUME OnceInv, KeptInv, NEW k \in W!Keys, W!Navigate(k)
    PROVE  KeptInv'
<1>1. PageTypes /\ Linked /\ Listed /\ InOrder
  BY DEF OnceInv, KeptInv
<1>2. /\ active' = k /\ up' = up \o W!Attaches(k, socket.state, 2) /\ Still /\ socket' = socket
      /\ UNCHANGED <<req, attached, listed, told>> /\ actions' = actions
      /\ k \in W!Sessions => listed[k] # None
      /\ ui' = IF k \in W!Sessions THEN [ui EXCEPT ![k].running = listed[k]] ELSE ui
  BY DEF W!Navigate, W!server, Still
<1>3. \A j \in W!Keys : /\ ui'[j].initial = ui[j].initial /\ ui'[j].attach = ui[j].attach
                        /\ ui'[j].note = ui[j].note
                        /\ ui'[j].running => ui[j].running \/ (j \in W!Sessions /\ listed[j] # None)
  <2>1. CASE k \in W!Sessions
    <3>1. ui' = [ui EXCEPT ![k].running = listed[k]] /\ listed[k] # None
      BY <1>2, <2>1
    <3>2. ui \in [W!Keys -> Composers]
      BY <1>1 DEF PageTypes
    <3>3. PICK x : x = listed[k]
      OBVIOUS
    <3>4. \A j \in W!Keys : /\ ui'[j].initial = ui[j].initial /\ ui'[j].attach = ui[j].attach
                            /\ ui'[j].note = ui[j].note
                            /\ j # k => ui'[j] = ui[j]
      <4>1. ui' = [ui EXCEPT ![k].running = x]
        BY <3>1, <3>3
      <4> QED BY ONLY <4>1, <3>2, k \in W!Keys DEF Composers
    <3> QED BY <2>1, <3>1, <3>4
  <2>2. CASE k \notin W!Sessions
    BY <1>2, <2>2
  <2> QED BY <2>1, <2>2
<1>4. /\ \A T \in {Starts, {"create"}} : \A q : Carries(up', T, q) <=> Carries(up, T, q)
      /\ \A y, s : About(up, y, s) => About(up', y, s)
      /\ \A s : About(up', "attach", s) => About(up, "attach", s) \/ s = k
      /\ \A s : /\ About(up', "input", s) => About(up, "input", s)
                /\ About(up', "interrupt", s) => About(up, "interrupt", s)
  BY <1>2, AttachesAdd
<1>5. \A s : About(up', "input", s) \/ About(up', "interrupt", s) => s \in grants
  BY <1>1, <1>4 DEF InOrder
<1>6. socket'.open /\ socket' \in [state : {"idle", "negotiating", "connected", "error"}, open : BOOLEAN]
  BY <1>1, <1>2 DEF Linked
<1>7. \A s \in W!Sessions : About(up', "attach", s) => About(up, "attach", s) \/ listed[s] # None
  BY <1>2, <1>4
<1>8. \A q : /\ Carries(up', {"create"}, q) <=> Carries(up, {"create"}, q)
             /\ Carries(up, Starts, q) => Carries(up', Starts, q)
  BY <1>4
<1> QED BY <1>2, <1>3, <1>4, <1>5, <1>6, <1>7, <1>8, QuietKept

LEMMA OnReadyKept ==
    ASSUME OnceInv, KeptInv, W!OnReady
    PROVE  KeptInv'
<1>1. PageTypes /\ Linked /\ Listed /\ InOrder
  BY DEF OnceInv, KeptInv
<1>2. /\ active' = active /\ up' = up \o W!Attaches(active, "connected", 1) /\ Still
      /\ UNCHANGED <<req, attached, listed, told>> /\ actions' = actions /\ ui' = ui
  BY DEF W!OnReady, W!server, W!page, Still
<1>3. active \in W!Keys /\ (active \in W!Sessions => listed[active] # None)
  BY <1>1 DEF PageTypes, Listed
<1>4. /\ \A T \in {Starts, {"create"}} : \A q : Carries(up', T, q) <=> Carries(up, T, q)
      /\ \A y, s : About(up, y, s) => About(up', y, s)
      /\ \A s : About(up', "attach", s) => About(up, "attach", s) \/ s = active
      /\ \A s : /\ About(up', "input", s) => About(up, "input", s)
                /\ About(up', "interrupt", s) => About(up, "interrupt", s)
  BY <1>2, AttachesAdd
<1>5. \A s : About(up', "input", s) \/ About(up', "interrupt", s) => s \in grants
  BY <1>1, <1>4 DEF InOrder
<1>6. socket'.open /\ socket' \in [state : {"idle", "negotiating", "connected", "error"}, open : BOOLEAN]
  <2>1. socket' = [socket EXCEPT !.state = "connected"]
    BY DEF W!OnReady
  <2> QED BY <1>1, <2>1 DEF Linked
<1>7. \A s \in W!Sessions : About(up', "attach", s) => About(up, "attach", s) \/ listed[s] # None
  BY <1>3, <1>4
<1>8. \A q : /\ Carries(up', {"create"}, q) <=> Carries(up, {"create"}, q)
             /\ Carries(up, Starts, q) => Carries(up', Starts, q)
  BY <1>4
<1> QED BY <1>2, <1>3, <1>4, <1>5, <1>6, <1>7, <1>8, QuietKept

LEMMA StopKept ==
    ASSUME OnceInv, KeptInv, W!Stop
    PROVE  KeptInv'
<1>1. PageTypes /\ Linked /\ Listed /\ InOrder
  BY DEF OnceInv, KeptInv
<1>2. /\ active' = active /\ Still /\ socket' = socket /\ ui' = ui
      /\ UNCHANGED <<req, attached, listed, told>>
      /\ actions' = actions \cup {<<"interrupt", active>>}
      /\ up' = Append(up, W!Message("interrupt", active, None)) /\ active \in attached
  BY <1>1 DEF W!Stop, W!server, Still, Linked
<1>3. active \in W!Keys /\ (active \in W!Sessions => listed[active] # None)
  BY <1>1 DEF PageTypes, Listed
<1>4. PICK m \in Posts : m = W!Message("interrupt", active, None)
  BY <1>3, MessageFacts
<1>5. m.type = "interrupt" /\ m.session = active
  BY <1>4, MessageFacts
<1>6. /\ \A y, s : About(up', y, s) <=> About(up, y, s) \/ (m.type = y /\ m.session = s)
      /\ \A T, r : Carries(up', T, r) <=> Carries(up, T, r) \/ (m.type \in T /\ m.request = r)
  BY <1>2, <1>4, UpTook
<1>7. active \in grants
  BY <1>2, GrantedFacts
<1>8. \A s : About(up', "input", s) \/ About(up', "interrupt", s) => s \in grants
  BY <1>1, <1>5, <1>6, <1>7 DEF InOrder
<1>9. \A q : /\ Carries(up', {"create"}, q) <=> Carries(up, {"create"}, q)
             /\ Carries(up, Starts, q) => Carries(up', Starts, q)
  BY <1>5, <1>6
<1>10. \A s \in W!Sessions : About(up', "attach", s) => About(up, "attach", s)
  BY <1>5, <1>6
<1>11. socket'.open /\ socket' \in [state : {"idle", "negotiating", "connected", "error"}, open : BOOLEAN]
  BY <1>1, <1>2 DEF Linked
<1>12. About(up', "interrupt", active) /\ actions \subseteq actions'
  BY <1>2, <1>5, <1>6
<1>13. \A y, s : About(up, y, s) => About(up', y, s)
  BY <1>6
<1> QED BY <1>2, <1>3, <1>8, <1>9, <1>10, <1>11, <1>12, <1>13, QuietKept

LEMMA SubmitKept ==
    ASSUME OnceInv, KeptInv, NEW r \in W!Requests, W!Submit(r)
    PROVE  KeptInv'
<1>1. PageTypes /\ Linked /\ Listed /\ InOrder /\ Held /\ InFlight /\ Freed
  BY DEF OnceInv, KeptInv
<1>2. /\ active' = active /\ Still /\ socket' = socket /\ up' = up /\ down' = down
      /\ UNCHANGED <<attached, listed, told>>
      /\ actions' = actions \cup {<<"submit", active>>} /\ <<"submit", active>> \notin actions
      /\ req[r].at = "unused"
  BY DEF W!Submit, W!server, Still
<1>3. active \in W!Keys /\ (active \in W!Sessions => listed[active] # None)
  BY <1>1 DEF PageTypes, Listed
<1>4. PICK x : x = [at |-> "encoding", key |-> active, live |-> socket.state = "connected"]
  OBVIOUS
<1>5. x.at = "encoding" /\ x.key = active
  BY <1>4
<1>6. req' = [req EXCEPT ![r] = x]
  BY <1>4 DEF W!Submit
<1>7. \A q \in W!Requests : req'[q] = IF q = r THEN x ELSE req[q]
  BY <1>1, <1>6 DEF PageTypes
<1>8. \A k \in W!Keys : /\ ui'[k].initial = ui[k].initial /\ ui'[k].attach = ui[k].attach
                        /\ k # active => ui'[k] = ui[k]
  <2>1. ui \in [W!Keys -> Composers]
    BY <1>1 DEF PageTypes
  <2>2. ui' = [ui EXCEPT ![active].running = TRUE, ![active].note = TRUE]
    BY DEF W!Submit
  <2> QED BY ONLY <1>3, <2>1, <2>2 DEF Composers
<1>9. \A k : Asked(k)' <=> Asked(k) \/ k = active
  <2>1. \A q \in W!Requests : Asking(q)' <=> Asking(q) \/ q = r
    BY <1>2, <1>5, <1>7 DEF Asking
  <2>2. ~ Asking(r) /\ req'[r].key = active
    BY <1>2, <1>5, <1>7 DEF Asking
  <2> QED BY <1>7, <2>1, <2>2 DEF Asked
<1>10. active \notin attached => /\ ui[active].initial = None /\ ui[active].attach = None
                                 /\ ~ Asked(active)
  BY <1>1, <1>2, <1>3 DEF Held, Asked
<1>11. ui[active].initial = None /\ ui[active].attach = None
  BY <1>1, <1>2, <1>3 DEF Held
<1>12. Linked'
  BY <1>1, <1>2, <1>3 DEF Linked, Still
<1>13. Listed'
  <2>1. \A q \in W!Requests : req'[q].at = "created" => q \in DOMAIN running'
    BY <1>1, <1>2, <1>5, <1>7 DEF Listed, Still
  <2>2. \A q \in W!Requests : req'[q].at # "unused" /\ req'[q].key \in W!Sessions =>
                                listed'[req'[q].key] # None
    BY <1>1, <1>2, <1>3, <1>5, <1>7 DEF Listed
  <2>3. \A s \in W!Sessions : ui'[s].running => listed[s] # None
    BY <1>1, <1>3, <1>8, NameFacts DEF Listed
  <2> QED BY <1>1, <1>2, <2>1, <2>2, <2>3 DEF Listed, Still
<1>14. InOrder'
  BY <1>1, <1>2, OrderSame DEF InOrder
<1>15. InFlight'
  <2>1. \A q \in W!Requests : req[q].at = "done" => req'[q].at = "done" /\ req'[q].key = req[q].key
    BY <1>2, <1>7
  <2> QED BY <1>2, <1>8, <2>1, FlightSame
<1>16. AllFound'
  <2>1. \A q \in W!Requests : req'[q].at = "done" => req[q].at = "done"
    BY <1>5, <1>7
  <2> QED BY <1>2, <1>8, <2>1, FoundSame
<1>17. Held'
  <2>1. \A k \in W!Keys : ui'[k].initial # None =>
          k \in Drafts /\ <<"submit", k>> \in actions' /\ ~ Asked(k)'
    BY <1>1, <1>2, <1>8, <1>9, <1>11 DEF Held
  <2>2. \A k \in W!Keys : ui'[k].attach # None =>
         /\ k \in W!Sessions /\ k \notin attached' /\ <<"submit", k>> \in actions' /\ ~ Asked(k)'
         /\ About(up', "attach", k) \/ About(down', "attached", k)
    BY <1>1, <1>2, <1>8, <1>9, <1>11 DEF Held
  <2>3. ASSUME NEW q \in W!Requests, Asking(q)', req'[q].key \notin attached'
        PROVE  /\ <<"submit", req'[q].key>> \in actions'
               /\ \A p \in W!Requests : Asking(p)' /\ req'[p].key = req'[q].key => p = q
    <3>1. CASE q = r
      BY <1>2, <1>5, <1>7, <1>10, <2>3, <3>1 DEF Asked, Asking
    <3>2. CASE q # r
      <4>1. Asking(q) /\ req'[q].key = req[q].key /\ req[q].key \notin attached
        BY <1>2, <1>7, <2>3, <3>2 DEF Asking
      <4>2. req[q].key # active
        BY <1>10, <4>1 DEF Asked
      <4>3. \A p \in W!Requests : Asking(p)' /\ req'[p].key = req[q].key =>
                                    Asking(p) /\ req[p].key = req[q].key
        BY <1>5, <1>7, <4>2 DEF Asking
      <4> QED BY <1>1, <1>2, <4>1, <4>3 DEF Held
    <3> QED BY <3>1, <3>2
  <2> QED BY <2>1, <2>2, <2>3 DEF Held
<1>18. Freed'
  <2>1. /\ \A k : Turns(k)' <=> Turns(k)
        /\ \A k : Pending(k)' <=> Pending(k)
    BY <1>2 DEF Turns, Pending, Turning, Still
  <2>2. \A k \in W!Keys : Holds(k)' <=> Holds(k) \/ k = active
    BY <1>8, <1>9 DEF Holds
  <2>3. \A k \in W!Keys : Busy(k) \/ k = active => Busy(k)'
    BY <1>2, <1>9, <2>1, <2>2 DEF Busy
  <2>4. \A k \in W!Keys : <<"submit", k>> \in actions' \/ ui'[k].note => Busy(k)'
    BY <1>1, <1>2, <1>8, <2>3 DEF Freed
  <2>5. \A k \in W!Keys : <<"interrupt", k>> \in actions' => k \in attached' /\ Pending(k)'
    BY <1>1, <1>2, <2>1 DEF Freed
  <2>6. \A k \in Drafts : ui'[k].running => Holds(k)'
    BY <1>1, <1>8, <2>2, NameFacts DEF Freed
  <2>7. \A s \in W!Sessions : listed'[s] = TRUE => s \in attached' /\ (s \in refused' \/ Turns(s)')
    BY <1>1, <1>2, <2>1 DEF Freed, Still
  <2>8. \A s \in W!Sessions : About(down', "created", s) => Pending(s)'
    BY <1>1, <1>2, <2>1 DEF Freed
  <2> QED BY <2>4, <2>5, <2>6, <2>7, <2>8 DEF Freed
<1> QED BY <1>12, <1>13, <1>14, <1>15, <1>16, <1>17, <1>18 DEF KeptInv

(* Request r of composer k is given up where it was made.                   *)
LEMMA GivenUpKept ==
    ASSUME OnceInv, KeptInv, NEW r \in W!Requests, Asking(r), NEW k, k = req[r].key, Still,
           req' = [req EXCEPT ![r].at = "done"], UNCHANGED <<attached, socket, up>>,
           active' = active, listed' = listed,
           ui' = W!Unmarked(ui, k), actions' = actions \ {<<"submit", k>>}, told' = told \cup {r}
    PROVE  KeptInv'
<1>1. PageTypes /\ Linked /\ Listed /\ InOrder /\ Held /\ InFlight /\ Freed
  BY DEF OnceInv, KeptInv
<1>2. /\ k \in W!Keys /\ req[r].at # "unused"
      /\ k \notin attached => /\ ui[k].initial = None /\ ui[k].attach = None
                              /\ \A q \in W!Requests : Asking(q) /\ req[q].key = k => q = r
  BY <1>1 DEF PageTypes, Asking, Held, Asked
<1>3. /\ req' \in [W!Requests -> Submissions] /\ ReqLess
      /\ \A q \in W!Requests : /\ req'[q].at = IF q = r THEN "done" ELSE req[q].at
                               /\ req'[q].key = req[q].key
  BY <1>1, <1>2, GivenUp
<1>4. /\ \A j \in W!Keys : /\ ui'[j].initial = ui[j].initial /\ ui'[j].attach = ui[j].attach
                           /\ j # k => ui'[j] = ui[j]
      /\ ~ ui'[k].note /\ ~ ui'[k].running
  <2>1. ui \in [W!Keys -> Composers]
    BY <1>1 DEF PageTypes
  <2>2. ui' = [ui EXCEPT ![k].running = FALSE, ![k].note = FALSE]
    BY DEF W!Unmarked
  <2> QED BY ONLY <1>2, <2>1, <2>2 DEF Composers
<1>5. /\ \A q \in W!Requests : Asking(q)' <=> Asking(q) /\ q # r
      /\ \A j : Asked(j)' => Asked(j)
      /\ \A j : Asked(j) /\ j # k => Asked(j)'
  <2>1. \A q \in W!Requests : Asking(q)' <=> Asking(q) /\ q # r
    BY <1>3 DEF Asking
  <2> QED BY <1>3, <2>1 DEF Asked
<1>6. Linked'
  BY <1>1 DEF Linked, Still
<1>7. Listed'
  <2>1. \A q \in W!Requests : req'[q].at = "created" => q \in DOMAIN running'
    BY <1>1, <1>3 DEF Listed, Still
  <2>2. \A q \in W!Requests : req'[q].at # "unused" /\ req'[q].key \in W!Sessions =>
                                listed'[req'[q].key] # None
    BY <1>1, <1>2, <1>3 DEF Listed
  <2>3. \A s \in W!Sessions : ui'[s].running => listed[s] # None
    BY <1>1, <1>4, NameFacts DEF Listed
  <2> QED BY <1>1, <2>1, <2>2, <2>3 DEF Listed, Still
<1>8. InOrder'
  BY <1>1, OrderSame DEF InOrder
<1>9. InFlight'
  BY <1>3, <1>4, FlightSame DEF Still
<1>10. AllFound'
  <2>1. \A q \in W!Requests : req'[q].at = "done" => req[q].at = "done" \/ Found(q)'
    BY <1>3 DEF Found
  <2> QED BY <1>4, <2>1, FoundSame
<1>11. Held'
  <2>1. \A j \in W!Keys : ui'[j].initial # None =>
          j \in Drafts /\ <<"submit", j>> \in actions' /\ ~ Asked(j)'
    <3>1. \A j \in W!Keys : ui[j].initial # None => j # k
      BY <1>1 DEF Held, Asked
    <3> QED BY <1>1, <1>4, <1>5, <3>1 DEF Held
  <2>2. \A j \in W!Keys : ui'[j].attach # None =>
         /\ j \in W!Sessions /\ j \notin attached' /\ <<"submit", j>> \in actions' /\ ~ Asked(j)'
         /\ About(up', "attach", j) \/ About(down', "attached", j)
    <3>1. \A j \in W!Keys : ui[j].attach # None => j # k
      BY <1>1 DEF Held, Asked
    <3> QED BY <1>1, <1>4, <1>5, <3>1 DEF Held, Still
  <2>3. \A q \in W!Requests : Asking(q)' /\ req'[q].key \notin attached' =>
         /\ <<"submit", req'[q].key>> \in actions'
         /\ \A p \in W!Requests : Asking(p)' /\ req'[p].key = req'[q].key => p = q
    BY <1>1, <1>2, <1>3, <1>5 DEF Held
  <2> QED BY <2>1, <2>2, <2>3 DEF Held
<1>12. Freed'
  <2>1. /\ \A j : Turns(j)' <=> Turns(j)
        /\ \A j : Pending(j)' <=> Pending(j)
    BY DEF Turns, Pending, Turning, Still
  <2>2. \A j \in W!Keys : j # k => (Holds(j) => Holds(j)') /\ (Busy(j) => Busy(j)')
    BY <1>4, <1>5, <2>1 DEF Holds, Busy
  <2>3. \A j \in W!Keys : <<"submit", j>> \in actions' \/ ui'[j].note => Busy(j)'
    BY <1>1, <1>4, <2>2 DEF Freed
  <2>4. \A j \in W!Keys : <<"interrupt", j>> \in actions' => j \in attached' /\ Pending(j)'
    BY <1>1, <2>1 DEF Freed
  <2>5. \A j \in Drafts : ui'[j].running => Holds(j)'
    BY <1>1, <1>4, <2>2, NameFacts DEF Freed
  <2>6. \A s \in W!Sessions : listed'[s] = TRUE => s \in attached' /\ (s \in refused' \/ Turns(s)')
    BY <1>1, <2>1 DEF Freed, Still
  <2>7. \A s \in W!Sessions : About(down', "created", s) => Pending(s)'
    BY <1>1, <2>1 DEF Freed, Still
  <2> QED BY <2>3, <2>4, <2>5, <2>6, <2>7 DEF Freed
<1> QED BY <1>6, <1>7, <1>8, <1>9, <1>10, <1>11, <1>12 DEF KeptInv

LEMMA FailedKept ==
    ASSUME OnceInv, KeptInv, ~ strayed', NEW r \in W!Requests, W!EncodeFailed(r) \/ W!RestFailed(r)
    PROVE  KeptInv'
<1>1. Asking(r) /\ Still /\ UNCHANGED <<attached, socket, up>> /\ active' = active /\ listed' = listed
      /\ req' = [req EXCEPT ![r].at = "done"] /\ W!Fails(r, active, req[r].key)
  BY DEF W!EncodeFailed, W!RestFailed, Asking, Still, W!server
<1>2. PICK k : k = req[r].key
  OBVIOUS
<1>3. k = active
  BY <1>1, <1>2 DEF W!Fails
<1>4. ui' = W!Unmarked(ui, k) /\ actions' = actions \ {<<"submit", k>>} /\ told' = told \cup {r}
  BY <1>1, <1>2, <1>3 DEF W!Fails
<1> QED BY <1>1, <1>2, <1>4, GivenUpKept

(* A request that is not sent over the socket goes over HTTP.               *)
LEMMA OverHttpKept ==
    ASSUME OnceInv, KeptInv, NEW r \in W!Requests,
           NEW y \in {"creating", "created"}, Asking(r), req' = [req EXCEPT ![r].at = y],
           UNCHANGED <<W!page, socket, up, down, grants, runs, refused, told>>,
           running' \in [DOMAIN running' -> BOOLEAN], DOMAIN running \subseteq DOMAIN running',
           y = "created" => r \in DOMAIN running', Turning' = Turning
    PROVE  KeptInv'
<1>1. PageTypes /\ Linked /\ Listed /\ InOrder /\ Held /\ InFlight /\ Freed /\ AllFound
  BY DEF OnceInv, KeptInv
<1>2. /\ active' = active /\ ui' = ui /\ actions' = actions /\ attached' = attached
      /\ listed' = listed
  BY DEF W!page
<1>3. \A q \in W!Requests : /\ req'[q].at = IF q = r THEN y ELSE req[q].at
                            /\ req'[q].key = req[q].key
  BY <1>1 DEF PageTypes, Submissions
<1>4. /\ \A q \in W!Requests : Asking(q)' <=> Asking(q)
      /\ \A k : Asked(k)' <=> Asked(k)
  <2>1. \A q \in W!Requests : Asking(q)' <=> Asking(q)
    BY <1>3 DEF Asking
  <2> QED BY <1>3, <2>1 DEF Asked
<1>5. Linked'
  BY <1>1, <1>2 DEF Linked
<1>6. Listed'
  <2>1. \A q \in W!Requests : req'[q].at = "created" => q \in DOMAIN running'
    BY <1>1, <1>3 DEF Listed
  <2>2. \A q \in W!Requests : req'[q].at # "unused" /\ req'[q].key \in W!Sessions =>
                                listed'[req'[q].key] # None
    BY <1>1, <1>2, <1>3 DEF Listed, Asking
  <2> QED BY <1>1, <1>2, <2>1, <2>2 DEF Listed
<1>7. InOrder'
  <2>1. \A s \in W!Sessions : s \in grants' <=> Heard(s)'
    BY <1>1, <1>2 DEF InOrder, Heard
  <2> QED BY <1>1, <1>2, <2>1 DEF InOrder
<1>8. InFlight'
  <2>1. \A q \in W!Requests : req[q].at = "done" => req'[q].at = "done" /\ req'[q].key = req[q].key
    BY <1>3 DEF Asking
  <2> QED BY <1>2, <2>1, FlightSame
<1>9. AllFound'
  <2>1. ASSUME NEW q \in W!Requests, req'[q].at = "done"
        PROVE  Found(q)'
    <3>1. Found(q)
      BY <1>1, <1>3, <2>1 DEF AllFound
    <3> QED BY <1>2, <3>1 DEF Found
  <2> QED BY <2>1 DEF AllFound
<1>10. Held'
  <2>1. \A q \in W!Requests : Asking(q)' /\ req'[q].key \notin attached' =>
         /\ <<"submit", req'[q].key>> \in actions'
         /\ \A p \in W!Requests : Asking(p)' /\ req'[p].key = req'[q].key => p = q
    BY <1>1, <1>2, <1>3, <1>4 DEF Held
  <2>2. \A k \in W!Keys : ui'[k].attach # None =>
         /\ k \in W!Sessions /\ k \notin attached' /\ <<"submit", k>> \in actions' /\ ~ Asked(k)'
         /\ About(up', "attach", k) \/ About(down', "attached", k)
    BY <1>1, <1>2, <1>4 DEF Held
  <2> QED BY <1>1, <1>2, <1>4, <2>1, <2>2 DEF Held
<1>11. Freed'
  <2>1. /\ \A k : Turns(k)' <=> Turns(k)
        /\ \A k : Pending(k)' <=> Pending(k)
    BY DEF Turns, Pending
  <2>2. \A k \in W!Keys : (Holds(k)' <=> Holds(k)) /\ (Busy(k)' <=> Busy(k))
    BY <1>2, <1>4, <2>1 DEF Holds, Busy
  <2>3. /\ \A k \in W!Keys : <<"submit", k>> \in actions' \/ ui'[k].note => Busy(k)'
        /\ \A k \in W!Keys : <<"interrupt", k>> \in actions' => k \in attached' /\ Pending(k)'
    BY <1>1, <1>2, <2>1, <2>2 DEF Freed
  <2>4. \A k \in Drafts : ui'[k].running => Holds(k)'
    BY <1>1, <1>2, <2>2, NameFacts DEF Freed
  <2>5. /\ \A s \in W!Sessions : listed'[s] = TRUE => s \in attached' /\ (s \in refused' \/ Turns(s)')
        /\ \A s \in W!Sessions : About(down', "created", s) => Pending(s)'
    BY <1>1, <1>2, <2>1 DEF Freed
  <2> QED BY <2>3, <2>4, <2>5 DEF Freed
<1> QED BY <1>5, <1>6, <1>7, <1>8, <1>9, <1>10, <1>11 DEF KeptInv

LEMMA RestCreateKept ==
    ASSUME OnceInv, KeptInv, NEW r \in W!Requests, W!RestCreate(r)
    PROVE  KeptInv'
<1>1. running \in [DOMAIN running -> BOOLEAN] /\ \A t \in DOMAIN running : running[t] \in BOOLEAN
  BY DEF KeptInv, Linked
<1>2. running' = [t \in DOMAIN running \cup {r} |-> t \in DOMAIN running /\ running[t]]
  BY DEF W!RestCreate, W!NewSession
<1>3. DOMAIN running' = DOMAIN running \cup {r} /\ running' \in [DOMAIN running' -> BOOLEAN]
  BY <1>2
<1>4. \A t \in DOMAIN running' : running'[t] = (t \in DOMAIN running /\ running[t])
  BY <1>2, <1>3
<1>5. Turning' = Turning
  BY <1>3, <1>4 DEF Turning
<1>6. /\ Asking(r) /\ req' = [req EXCEPT ![r].at = "created"]
      /\ UNCHANGED <<W!page, socket, up, down, grants, runs, refused, told>>
  BY DEF W!RestCreate, Asking
<1> QED BY <1>3, <1>5, <1>6, OverHttpKept

(* Request r goes out to its session, which the page is attached to.        *)
LEMMA InputKept ==
    ASSUME OnceInv, KeptInv, NEW r \in W!Requests, Asking(r), NEW s \in attached, s = req[r].key, Still,
           req' = [req EXCEPT ![r].at = "done"], UNCHANGED <<attached, socket, told>>,
           active' = active, up' = Append(up, W!Message("input", s, r)),
           ui' = [ui EXCEPT ![s].running = TRUE], listed' = [listed EXCEPT ![s] = TRUE],
           actions' = (actions \ {<<"submit", s>>}) \cup {<<"submit", s>>}
    PROVE  KeptInv'
<1>1. PageTypes /\ Linked /\ Listed /\ InOrder /\ Held /\ InFlight /\ Freed
  BY DEF OnceInv, KeptInv
<1>2. s \in W!Sessions /\ s \in W!Keys /\ s \notin Drafts /\ req[r].at # "unused" /\ s \in grants
      /\ s \in DOMAIN running
  BY <1>1, NameFacts, GrantedFacts DEF PageTypes, Asking
<1>3. \A q \in W!Requests : /\ req'[q].at = IF q = r THEN "done" ELSE req[q].at
                            /\ req'[q].key = req[q].key
  BY <1>1, <1>2, GivenUp
<1>4. \A j \in W!Keys : /\ ui'[j].initial = ui[j].initial /\ ui'[j].attach = ui[j].attach
                        /\ ui'[j].note = ui[j].note /\ (j # s => ui'[j] = ui[j])
  <2>1. ui \in [W!Keys -> Composers]
    BY <1>1 DEF PageTypes
  <2>2. ui' = [ui EXCEPT ![s].running = TRUE]
    OBVIOUS
  <2> QED BY ONLY <1>2, <2>1, <2>2 DEF Composers
<1>5. /\ \A q \in W!Requests : Asking(q)' <=> Asking(q) /\ q # r
      /\ \A j : Asked(j)' => Asked(j)
      /\ \A j : Asked(j) /\ j # s => Asked(j)'
  <2>1. \A q \in W!Requests : Asking(q)' <=> Asking(q) /\ q # r
    BY <1>3 DEF Asking
  <2> QED BY <1>3, <2>1 DEF Asked
<1>6. PICK m \in Posts : m = W!Message("input", s, r)
  BY <1>2, MessageFacts
<1>7. m.type = "input" /\ m.session = s /\ m.request = r
  BY <1>6, MessageFacts
<1>8. /\ \A y, t : About(up', y, t) <=> About(up, y, t) \/ (y = "input" /\ t = s)
      /\ \A T, q : Carries(up', T, q) <=> Carries(up, T, q) \/ ("input" \in T /\ q = r)
  <2>1. /\ \A y, t : About(up', y, t) <=> About(up, y, t) \/ (m.type = y /\ m.session = t)
        /\ \A T, q : Carries(up', T, q) <=> Carries(up, T, q) \/ (m.type \in T /\ m.request = q)
    BY <1>6, UpTook
  <2> QED BY <1>7, <2>1
<1>9. \A t \in W!Sessions : listed'[t] = IF t = s THEN TRUE ELSE listed[t]
  BY <1>1 DEF PageTypes
<1>10. TRUE # None
  BY PartsAssumption DEF W!NamesAssumption
<1>11. /\ Linked'
       /\ \A a : a \in actions => a \in actions'
       /\ \A j : <<"interrupt", j>> \in actions' => <<"interrupt", j>> \in actions
       /\ \A j : j # s /\ <<"submit", j>> \in actions' => <<"submit", j>> \in actions
  <2>1. <<"submit", s>> \in {"submit", "interrupt"} \X W!Keys
    BY <1>2
  <2> QED BY <1>1, <2>1 DEF Linked, Still
<1>12. Listed'
  <2>1. \A q \in W!Requests : req'[q].at = "created" => q \in DOMAIN running'
    BY <1>1, <1>3 DEF Listed, Still
  <2>2. \A q \in W!Requests : req'[q].at # "unused" /\ req'[q].key \in W!Sessions =>
                                listed'[req'[q].key] # None
    BY <1>1, <1>2, <1>3, <1>9, <1>10, ZenonT(60) DEF Listed
  <2>3. \A t \in W!Sessions : ui'[t].running => listed'[t] # None
    <3>1. \A t \in W!Sessions : t # s => ui'[t] = ui[t] /\ listed'[t] = listed[t]
      BY <1>4, <1>9, NameFacts
    <3>2. listed'[s] # None
      BY <1>2, <1>9, <1>10
    <3>3. \A t \in W!Sessions : ui[t].running => listed[t] # None
      BY <1>1 DEF Listed
    <3> QED BY <3>1, <3>2, <3>3
  <2>4. \A t \in W!Sessions : listed'[t] # None \/ t \in grants' => t \in DOMAIN running'
    BY <1>1, <1>2, <1>9 DEF Listed, Still
  <2>5. active' \in W!Sessions => listed'[active'] # None
    BY <1>1, <1>9, <1>10 DEF Listed
  <2>6. \A t \in W!Sessions : t \in attached' \/ About(up', "attach", t) \/ About(down', "attached", t)
                                => listed'[t] # None
    BY <1>1, <1>8, <1>9, <1>10 DEF Listed, Still
  <2> QED BY <2>1, <2>2, <2>3, <2>4, <2>5, <2>6 DEF Listed
<1>13. InOrder'
  BY <1>1, <1>2, <1>8, OrderSame DEF InOrder
<1>14. InFlight'
  BY <1>3, <1>4, <1>8, FlightSame DEF Still
<1>15. AllFound'
  <2>1. \A q \in W!Requests : req'[q].at = "done" => req[q].at = "done" \/ Found(q)'
    BY <1>3, <1>8 DEF Found, Starts
  <2> QED BY <1>4, <1>8, <2>1, FoundSame
<1>16. Held'
  <2>1. \A j \in W!Keys : ui'[j].initial # None =>
          j \in Drafts /\ <<"submit", j>> \in actions' /\ ~ Asked(j)'
    BY <1>1, <1>4, <1>5, <1>11 DEF Held
  <2>2. \A j \in W!Keys : ui'[j].attach # None =>
         /\ j \in W!Sessions /\ j \notin attached' /\ <<"submit", j>> \in actions' /\ ~ Asked(j)'
         /\ About(up', "attach", j) \/ About(down', "attached", j)
    BY <1>1, <1>4, <1>5, <1>8, <1>11 DEF Held, Still
  <2>3. \A q \in W!Requests : Asking(q)' /\ req'[q].key \notin attached' =>
         /\ <<"submit", req'[q].key>> \in actions'
         /\ \A p \in W!Requests : Asking(p)' /\ req'[p].key = req'[q].key => p = q
    BY <1>1, <1>3, <1>5, <1>11 DEF Held
  <2> QED BY <2>1, <2>2, <2>3 DEF Held
<1>17. Freed'
  <2>1. /\ \A j : Turns(j) => Turns(j)'
        /\ \A j : Pending(j) => Pending(j)'
        /\ Turns(s)' /\ Pending(s)'
    BY <1>8 DEF Turns, Pending, Turning, Still
  <2>2. \A j \in W!Keys : (j # s /\ Holds(j) => Holds(j)') /\ (Busy(j) => Busy(j)')
    BY <1>4, <1>5, <2>1 DEF Holds, Busy
  <2>3. Busy(s)'
    BY <2>1 DEF Busy
  <2>4. \A j \in W!Keys : <<"submit", j>> \in actions' \/ ui'[j].note => Busy(j)'
    BY <1>1, <1>4, <1>11, <2>2, <2>3 DEF Freed
  <2>5. \A j \in W!Keys : <<"interrupt", j>> \in actions' => j \in attached' /\ Pending(j)'
    BY <1>1, <1>11, <2>1 DEF Freed
  <2>6. \A j \in Drafts : ui'[j].running => Holds(j)'
    BY <1>1, <1>2, <1>4, <2>2, NameFacts DEF Freed
  <2>7. \A t \in W!Sessions : listed'[t] = TRUE => t \in attached' /\ (t \in refused' \/ Turns(t)')
    BY <1>1, <1>9, <2>1 DEF Freed, Still
  <2>8. \A t \in W!Sessions : About(down', "created", t) => Pending(t)'
    BY <1>1, <2>1 DEF Freed, Still
  <2> QED BY <2>4, <2>5, <2>6, <2>7, <2>8 DEF Freed
<1> QED BY <1>11, <1>12, <1>13, <1>14, <1>15, <1>16, <1>17 DEF KeptInv

(* Request r waits for the attachment of its session, which is asked for.   *)
LEMMA AwaitedKept ==
    ASSUME OnceInv, KeptInv, NEW r \in W!Requests, Asking(r),
           NEW s \in W!Sessions, s \notin attached, s = req[r].key, Still,
           req' = [req EXCEPT ![r].at = "done"], UNCHANGED <<attached, socket, told>>,
           active' = active, up' = Append(up, W!Message("attach", s, None)),
           ui' = [ui EXCEPT ![s].attach = r], listed' = listed,
           actions' = (actions \ {<<"submit", s>>}) \cup {<<"submit", s>>}
    PROVE  KeptInv'
<1>1. PageTypes /\ Linked /\ Listed /\ InOrder /\ Held /\ InFlight /\ Freed /\ AllFound
  BY DEF OnceInv, KeptInv
<1>2. s \in W!Keys /\ s \notin Drafts /\ req[r].at # "unused" /\ listed[s] # None
  BY <1>1, NameFacts DEF PageTypes, Asking, Listed
<1>3. \A q \in W!Requests : /\ req'[q].at = IF q = r THEN "done" ELSE req[q].at
                            /\ req'[q].key = req[q].key
  BY <1>1, <1>2, GivenUp
<1>4. \A j \in W!Keys : /\ ui'[j].initial = ui[j].initial
                        /\ ui'[j].attach = IF j = s THEN r ELSE ui[j].attach
                        /\ ui'[j].note = ui[j].note /\ ui'[j].running = ui[j].running
  <2>1. ui \in [W!Keys -> Composers]
    BY <1>1 DEF PageTypes
  <2>2. ui' = [ui EXCEPT ![s].attach = r]
    OBVIOUS
  <2> QED BY ONLY <1>2, <2>1, <2>2, r \in W!Requests DEF Composers
<1>5. /\ \A q \in W!Requests : Asking(q)' <=> Asking(q) /\ q # r
      /\ \A j : Asked(j)' => Asked(j)
      /\ \A j : Asked(j) /\ j # s => Asked(j)'
      /\ ~ Asked(s)' /\ ui[s].attach = None /\ ui[s].initial = None
  <2>1. \A q \in W!Requests : Asking(q)' <=> Asking(q) /\ q # r
    BY <1>3 DEF Asking
  <2>2. \A q \in W!Requests : Asking(q) /\ req[q].key = s => q = r
    BY <1>1 DEF Held
  <2>3. ui[s].attach = None /\ ui[s].initial = None
    BY <1>1, <1>2 DEF Held, Asked
  <2> QED BY <1>3, <2>1, <2>2, <2>3 DEF Asked
<1>6. PICK m \in Posts : m = W!Message("attach", s, None)
  BY <1>2, MessageFacts
<1>7. m.type = "attach" /\ m.session = s /\ m.request = None
  BY <1>6, MessageFacts
<1>8. /\ \A y, t : About(up', y, t) <=> About(up, y, t) \/ (y = "attach" /\ t = s)
      /\ \A T, q : Carries(up', T, q) <=> Carries(up, T, q) \/ ("attach" \in T /\ q = None)
  <2>1. /\ \A y, t : About(up', y, t) <=> About(up, y, t) \/ (m.type = y /\ m.session = t)
        /\ \A T, q : Carries(up', T, q) <=> Carries(up, T, q) \/ (m.type \in T /\ m.request = q)
    BY <1>6, UpTook
  <2> QED BY <1>7, <2>1
<1>9. /\ Linked' /\ <<"submit", s>> \in actions'
      /\ \A a : a \in actions => a \in actions'
      /\ \A j : <<"interrupt", j>> \in actions' => <<"interrupt", j>> \in actions
      /\ \A j : j # s /\ <<"submit", j>> \in actions' => <<"submit", j>> \in actions
  <2>1. <<"submit", s>> \in {"submit", "interrupt"} \X W!Keys
    BY <1>2
  <2> QED BY <1>1, <2>1 DEF Linked, Still
<1>10. Listed'
  <2>1. \A q \in W!Requests : req'[q].at = "created" => q \in DOMAIN running'
    BY <1>1, <1>3 DEF Listed, Still
  <2>2. \A q \in W!Requests : req'[q].at # "unused" /\ req'[q].key \in W!Sessions =>
                                listed'[req'[q].key] # None
    BY <1>1, <1>2, <1>3 DEF Listed
  <2>3. \A t \in W!Sessions : \/ t \in attached' \/ About(up', "attach", t)
                              \/ About(down', "attached", t) \/ ui'[t].running
                              => listed'[t] # None
    BY <1>1, <1>2, <1>4, <1>8, NameFacts DEF Listed, Still
  <2> QED BY <1>1, <2>1, <2>2, <2>3 DEF Listed, Still
<1>11. InOrder'
  BY <1>1, <1>8, OrderSame DEF InOrder
<1>12. InFlight'
  BY <1>3, <1>4, <1>8, FlightSame DEF Still
<1>13. AllFound'
  <2>1. ASSUME NEW q \in W!Requests, req'[q].at = "done"
        PROVE  Found(q)'
    <3>1. CASE q = r
      BY <1>2, <1>4, <3>1 DEF Found
    <3>2. CASE q # r
      <4>1. Found(q) /\ q # None
        BY <1>1, <1>3, <2>1, <3>2, NameFacts DEF AllFound
      <4>2. Carries(up, Starts, q) => Carries(up', Starts, q)
        BY <1>8
      <4> QED BY <1>4, <1>5, <4>1, <4>2 DEF Found, Still
    <3> QED BY <3>1, <3>2
  <2> QED BY <2>1 DEF AllFound
<1>14. Held'
  <2>1. \A j \in W!Keys : ui'[j].initial # None =>
          j \in Drafts /\ <<"submit", j>> \in actions' /\ ~ Asked(j)'
    BY <1>1, <1>4, <1>5, <1>9 DEF Held
  <2>2. \A j \in W!Keys : ui'[j].attach # None =>
         /\ j \in W!Sessions /\ j \notin attached' /\ <<"submit", j>> \in actions' /\ ~ Asked(j)'
         /\ About(up', "attach", j) \/ About(down', "attached", j)
    BY <1>1, <1>4, <1>5, <1>8, <1>9 DEF Held, Still
  <2>3. \A q \in W!Requests : Asking(q)' /\ req'[q].key \notin attached' =>
         /\ <<"submit", req'[q].key>> \in actions'
         /\ \A p \in W!Requests : Asking(p)' /\ req'[p].key = req'[q].key => p = q
    BY <1>1, <1>3, <1>5, <1>9 DEF Held
  <2> QED BY <2>1, <2>2, <2>3 DEF Held
<1>15. Freed'
  <2>1. /\ \A j : Turns(j) <=> Turns(j)'
        /\ \A j : Pending(j) <=> Pending(j)'
    BY <1>8 DEF Turns, Pending, Turning, Still
  <2>2. r # None
    BY NameFacts
  <2>3. \A j \in W!Keys : (Holds(j) => Holds(j)') /\ (Busy(j) => Busy(j)')
    BY <1>4, <1>5, <2>1, <2>2 DEF Holds, Busy
  <2>4. Busy(s)'
    BY <1>2, <1>4, <2>2 DEF Busy, Holds
  <2>5. \A j \in W!Keys : <<"submit", j>> \in actions' \/ ui'[j].note => Busy(j)'
    BY <1>1, <1>4, <1>9, <2>3, <2>4 DEF Freed
  <2>6. \A j \in W!Keys : <<"interrupt", j>> \in actions' => j \in attached' /\ Pending(j)'
    BY <1>1, <1>9, <2>1 DEF Freed
  <2>7. \A j \in Drafts : ui'[j].running => Holds(j)'
    BY <1>1, <1>4, <2>3, NameFacts DEF Freed
  <2>8. \A t \in W!Sessions : listed'[t] = TRUE => t \in attached' /\ (t \in refused' \/ Turns(t)')
    BY <1>1, <2>1 DEF Freed, Still
  <2>9. \A t \in W!Sessions : About(down', "created", t) => Pending(t)'
    BY <1>1, <2>1 DEF Freed, Still
  <2> QED BY <2>5, <2>6, <2>7, <2>8, <2>9 DEF Freed
<1> QED BY <1>9, <1>10, <1>11, <1>12, <1>13, <1>14, <1>15 DEF KeptInv

LEMMA FlyingFinite == IsFiniteSet(Flying)
<1>1. MaxRequests \in Int /\ 1 \in Int
  BY PartsAssumption DEF W!BoundsAssumption
<1>2. IsFiniteSet(1 .. MaxRequests)
  BY ONLY <1>1, FS_Interval
<1>3. Flying \subseteq 1 .. MaxRequests
  BY DEF Flying, W!Requests
<1> QED BY ONLY <1>2, <1>3, FS_Subset

LEMMA OneMore ==
    ASSUME NEW S, IsFiniteSet(S), NEW x, x \notin S, NEW T, T = S \cup {x}
    PROVE  IsFiniteSet(T) /\ Cardinality(T) = Cardinality(S) + 1
BY FS_AddElement

LEMMA OneLess ==
    ASSUME NEW S, IsFiniteSet(S), NEW x \in S, NEW T, T = S \ {x}
    PROVE  IsFiniteSet(T) /\ Cardinality(T) = Cardinality(S) - 1
BY FS_RemoveElement

(* The request of a draft goes out with the creation of its session.        *)
LEMMA CreationKept ==
    ASSUME OnceInv, KeptInv, NEW r \in W!Requests, req[r].at = "encoding",
           NEW d \in Drafts, d = req[r].key, Still,
           req' = [req EXCEPT ![r].at = "done"], UNCHANGED <<actions, attached, listed, socket, told>>,
           active' = active, up' = Append(up, W!Message("create", None, r)),
           ui' = [ui EXCEPT ![d].initial = r]
    PROVE  KeptInv'
<1>1. PageTypes /\ Linked /\ Listed /\ InOrder /\ Held /\ InFlight /\ Freed /\ AllFound
  BY DEF OnceInv, KeptInv
<1>2. d \in W!Keys /\ d \notin W!Sessions /\ d \notin attached /\ Asking(r) /\ req[r].at # "unused"
  BY <1>1, NameFacts DEF PageTypes, Asking
<1>3. \A q \in W!Requests : /\ req'[q].at = IF q = r THEN "done" ELSE req[q].at
                            /\ req'[q].key = req[q].key
  BY <1>1, <1>2, GivenUp
<1>4. \A j \in W!Keys : /\ ui'[j].initial = IF j = d THEN r ELSE ui[j].initial
                        /\ ui'[j].attach = ui[j].attach
                        /\ ui'[j].note = ui[j].note /\ ui'[j].running = ui[j].running
  <2>1. ui \in [W!Keys -> Composers]
    BY <1>1 DEF PageTypes
  <2>2. ui' = [ui EXCEPT ![d].initial = r]
    OBVIOUS
  <2> QED BY ONLY <1>2, <2>1, <2>2, r \in W!Requests DEF Composers
<1>5. /\ \A q \in W!Requests : Asking(q)' <=> Asking(q) /\ q # r
      /\ \A j : Asked(j)' => Asked(j)
      /\ \A j : Asked(j) /\ j # d => Asked(j)'
      /\ ~ Asked(d)' /\ ui[d].attach = None /\ ui[d].initial = None
      /\ <<"submit", d>> \in actions
  <2>1. \A q \in W!Requests : Asking(q)' <=> Asking(q) /\ q # r
    BY <1>3 DEF Asking
  <2>2. /\ \A q \in W!Requests : Asking(q) /\ req[q].key = d => q = r
        /\ <<"submit", d>> \in actions
    BY <1>1, <1>2 DEF Held
  <2>3. ui[d].attach = None /\ ui[d].initial = None
    BY <1>1, <1>2 DEF Held, Asked
  <2> QED BY <1>3, <2>1, <2>2, <2>3 DEF Asked
<1>6. PICK m \in Posts : m = W!Message("create", None, r)
  BY MessageFacts
<1>7. m.type = "create" /\ m.session = None /\ m.request = r
  BY <1>6, MessageFacts
<1>8. /\ \A y, t : About(up', y, t) <=> About(up, y, t) \/ (y = "create" /\ t = None)
      /\ \A T, q : Carries(up', T, q) <=> Carries(up, T, q) \/ ("create" \in T /\ q = r)
  <2>1. /\ \A y, t : About(up', y, t) <=> About(up, y, t) \/ (m.type = y /\ m.session = t)
        /\ \A T, q : Carries(up', T, q) <=> Carries(up, T, q) \/ (m.type \in T /\ m.request = q)
    BY <1>6, UpTook
  <2> QED BY <1>7, <2>1
<1>9. Linked'
  BY <1>1 DEF Linked, Still
<1>10. Listed'
  <2>1. \A q \in W!Requests : req'[q].at = "created" => q \in DOMAIN running'
    BY <1>1, <1>3 DEF Listed, Still
  <2>2. \A q \in W!Requests : req'[q].at # "unused" /\ req'[q].key \in W!Sessions =>
                                listed'[req'[q].key] # None
    BY <1>1, <1>2, <1>3 DEF Listed
  <2>3. \A t \in W!Sessions : \/ t \in attached' \/ About(up', "attach", t)
                              \/ About(down', "attached", t) \/ ui'[t].running
                              => listed'[t] # None
    BY <1>1, <1>4, <1>8, NameFacts DEF Listed, Still
  <2> QED BY <1>1, <2>1, <2>2, <2>3 DEF Listed, Still
<1>11. InOrder'
  BY <1>1, <1>8, OrderSame DEF InOrder
<1>12. InFlight'
  <2>1. r \notin Flying
    BY <1>1 DEF InFlight
  <2>2. d \notin Awaiting
    BY <1>5 DEF Awaiting
  <2>3. Flying' = Flying \cup {r}
    BY <1>8 DEF Flying, Still
  <2>4. Awaiting' = Awaiting \cup {d}
    <3>1. r # None
      BY NameFacts
    <3> QED BY <1>2, <1>4, <3>1 DEF Awaiting
  <2>5. IsFiniteSet(Flying) /\ IsFiniteSet(Awaiting) /\ Cardinality(Awaiting) = Cardinality(Flying)
    BY <1>1, FlyingFinite DEF InFlight
  <2>6. IsFiniteSet(Awaiting') /\ Cardinality(Awaiting') = Cardinality(Flying')
    <3>1. PICK A, F : A = Awaiting' /\ F = Flying'
      OBVIOUS
    <3>2. IsFiniteSet(A) /\ Cardinality(A) = Cardinality(Awaiting) + 1
      BY ONLY <2>2, <2>4, <2>5, <3>1, OneMore
    <3>3. Cardinality(F) = Cardinality(Flying) + 1
      BY ONLY <2>1, <2>3, <2>5, <3>1, OneMore
    <3> QED BY <2>5, <3>1, <3>2, <3>3
  <2>7. OneReply(down') /\ \A q : Replied(down', q) => q \in W!Requests /\ ~ Carries(up', {"create"}, q)
    <3>1. ~ Replied(down, r)
      BY <2>1 DEF Flying
    <3> QED BY <1>1, <1>8, <3>1 DEF InFlight, Still
  <2>8. \A q \in Flying' : req'[q].at = "done" /\ req'[q].key \in Drafts
    BY <1>1, <1>3, <2>3 DEF InFlight, Flying
  <2> QED BY <2>6, <2>7, <2>8 DEF InFlight
<1>13. AllFound'
  <2>1. \A q \in W!Requests : req'[q].at = "done" => req[q].at = "done" \/ Found(q)'
    BY <1>3, <1>8 DEF Found, Starts
  <2> QED BY <1>4, <1>8, <2>1, FoundSame
<1>14. Held'
  <2>1. \A j \in W!Keys : ui'[j].initial # None =>
          j \in Drafts /\ <<"submit", j>> \in actions' /\ ~ Asked(j)'
    BY <1>1, <1>4, <1>5 DEF Held
  <2>2. \A j \in W!Keys : ui'[j].attach # None =>
         /\ j \in W!Sessions /\ j \notin attached' /\ <<"submit", j>> \in actions' /\ ~ Asked(j)'
         /\ About(up', "attach", j) \/ About(down', "attached", j)
    BY <1>1, <1>4, <1>5, <1>8 DEF Held, Still
  <2>3. \A q \in W!Requests : Asking(q)' /\ req'[q].key \notin attached' =>
         /\ <<"submit", req'[q].key>> \in actions'
         /\ \A p \in W!Requests : Asking(p)' /\ req'[p].key = req'[q].key => p = q
    BY <1>1, <1>3, <1>5 DEF Held
  <2> QED BY <2>1, <2>2, <2>3 DEF Held
<1>15. Freed'
  <2>1. /\ \A j : Turns(j) <=> Turns(j)'
        /\ \A j : Pending(j) <=> Pending(j)'
    BY <1>8 DEF Turns, Pending, Turning, Still
  <2>2. r # None
    BY NameFacts
  <2>3. \A j \in W!Keys : (Holds(j) => Holds(j)') /\ (Busy(j) => Busy(j)')
    BY <1>2, <1>4, <1>5, <2>1, <2>2 DEF Holds, Busy
  <2>4. \A j \in W!Keys : <<"submit", j>> \in actions' \/ ui'[j].note => Busy(j)'
    BY <1>1, <1>4, <2>3 DEF Freed
  <2>5. \A j \in W!Keys : <<"interrupt", j>> \in actions' => j \in attached' /\ Pending(j)'
    BY <1>1, <2>1 DEF Freed
  <2>6. \A j \in Drafts : ui'[j].running => Holds(j)'
    BY <1>1, <1>4, <2>3, NameFacts DEF Freed
  <2>7. \A t \in W!Sessions : listed'[t] = TRUE => t \in attached' /\ (t \in refused' \/ Turns(t)')
    BY <1>1, <2>1 DEF Freed, Still
  <2>8. \A t \in W!Sessions : About(down', "created", t) => Pending(t)'
    BY <1>1, <2>1 DEF Freed, Still
  <2> QED BY <2>4, <2>5, <2>6, <2>7, <2>8 DEF Freed
<1> QED BY <1>9, <1>10, <1>11, <1>12, <1>13, <1>14, <1>15 DEF KeptInv

LEMMA EncodedKept ==
    ASSUME OnceInv, KeptInv, ~ strayed', NEW r \in W!Requests, W!Encoded(r)
    PROVE  KeptInv'
<1>1. PageTypes /\ Linked /\ Listed /\ InOrder /\ up \in Seq(Posts)
  BY DEF OnceInv, KeptInv
<1>2. /\ req[r].at = "encoding" /\ Asking(r) /\ Still /\ UNCHANGED <<attached, socket>>
      /\ active' = active /\ socket.open
  BY <1>1 DEF W!Encoded, Asking, Still, W!server, Linked
<1>3. PICK s : s = req[r].key
  OBVIOUS
<1>4. s \in W!Keys
  BY <1>1, <1>2, <1>3 DEF PageTypes
<1>5. CASE s \in W!Sessions
  <2>1. /\ W!SendMessage(r, s, ui, actions \ {<<"submit", s>>}, << >>)
        /\ req' = [req EXCEPT ![r].at = "done"]
    BY <1>3, <1>5 DEF W!Encoded
  <2>2. listed[s] # None /\ listed \in [W!Sessions -> BOOLEAN \cup {None}]
    BY <1>1, <1>2, <1>3, <1>5 DEF Listed, PageTypes
  <2>3. [listed EXCEPT ![s] = IF @ = None THEN FALSE ELSE @] = listed
    BY <2>2
  <2>4. CASE s \in attached
    <3>1. /\ up' = up \o << >> \o <<W!Message("input", s, r)>>
          /\ ui' = [ui EXCEPT ![s].running = TRUE] /\ listed' = [listed EXCEPT ![s] = TRUE]
          /\ actions' = (actions \ {<<"submit", s>>}) \cup {<<"submit", s>>} /\ told' = told
      BY <1>2, <2>1, <2>4 DEF W!SendMessage
    <3>2. PICK m \in Posts : m = W!Message("input", s, r)
      BY <1>4, MessageFacts
    <3>3. up' = Append(up, m)
      BY <1>1, <3>1, <3>2
    <3> QED BY <1>2, <1>3, <2>1, <2>4, <3>1, <3>2, <3>3, InputKept
  <2>5. CASE s \notin attached /\ req[r].live
    <3>1. /\ up' = up \o <<W!Message("attach", s, None)>> \o << >>
          /\ ui' = [ui EXCEPT ![s].attach = r]
          /\ listed' = [listed EXCEPT ![s] = IF @ = None THEN FALSE ELSE @]
          /\ actions' = (actions \ {<<"submit", s>>}) \cup {<<"submit", s>>} /\ told' = told
      BY <1>2, <2>1, <2>5 DEF W!SendMessage
    <3>2. PICK m \in Posts : m = W!Message("attach", s, None)
      BY <1>5, MessageFacts
    <3>3. up' = Append(up, m)
      BY <1>1, <3>1, <3>2
    <3> QED BY <1>2, <1>3, <1>5, <2>1, <2>3, <2>5, <3>1, <3>2, <3>3, AwaitedKept
  <2>6. CASE s \notin attached /\ ~ req[r].live
    <3>1. /\ ui' = W!Unmarked(ui, s)
          /\ listed' = [listed EXCEPT ![s] = IF @ = None THEN FALSE ELSE @]
          /\ actions' = actions \ {<<"submit", s>>} /\ told' = told \cup {r} /\ up' = up
      BY <2>1, <2>6 DEF W!SendMessage
    <3> QED BY <1>2, <1>3, <2>1, <2>3, <3>1, GivenUpKept
  <2> QED BY <2>4, <2>5, <2>6
<1>6. CASE s \notin W!Sessions /\ req[r].live
  <2>1. /\ ui' = [ui EXCEPT ![active].initial = r] /\ up' = Append(up, W!Message("create", None, r))
        /\ req' = [req EXCEPT ![r].at = "done"] /\ active = s
        /\ UNCHANGED <<actions, listed, told>>
    BY <1>2, <1>3, <1>6 DEF W!Encoded
  <2>2. s \in Drafts
    BY <1>4, <1>6, NameFacts
  <2> QED BY <1>2, <1>3, <2>1, <2>2, CreationKept
<1>7. CASE s \notin W!Sessions /\ ~ req[r].live
  <2>1. /\ ui' = ui /\ up' = up /\ req' = [req EXCEPT ![r].at = "creating"]
        /\ UNCHANGED <<actions, listed, told>>
    BY <1>3, <1>7 DEF W!Encoded
  <2>2. UNCHANGED <<W!page, socket, up, down, grants, runs, refused, told>> /\ running' = running
        /\ Turning' = Turning
    BY <1>2, <2>1 DEF W!page, Still, Turning
  <2>3. running' \in [DOMAIN running' -> BOOLEAN] /\ DOMAIN running \subseteq DOMAIN running'
    BY <1>1, <2>2 DEF Linked
  <2> QED BY <1>2, <2>1, <2>2, <2>3, OverHttpKept
<1> QED BY <1>5, <1>6, <1>7

(* Nothing is about a session the page does not know of.                    *)
LEMMA UnmetFacts ==
    ASSUME OnceInv, KeptInv, NEW s \in W!Requests, Unmet(s)
    PROVE  /\ s \in W!Sessions /\ s \in W!Keys /\ s \notin Drafts
           /\ s \notin attached /\ listed[s] = None /\ active # s
           /\ ui[s].initial = None /\ ui[s].attach = None /\ ~ ui[s].running /\ ~ ui[s].note
           /\ ~ Asked(s) /\ <<"submit", s>> \notin actions /\ <<"interrupt", s>> \notin actions
<1>1. PageTypes /\ Listed /\ Held /\ Freed
  BY DEF OnceInv, KeptInv
<1>2. s \in W!Sessions /\ s \in W!Keys /\ s \notin Drafts
  BY NameFacts
<1>3. s \notin attached /\ listed[s] = None /\ active # s /\ ~ Asked(s)
  BY DEF Unmet, Asked
<1>4. ui[s].initial = None /\ ui[s].attach = None
  BY <1>1, <1>2 DEF Held, Unmet
<1>5. ~ ui[s].running
  BY <1>1, <1>2, <1>3 DEF Listed
<1>6. ~ Busy(s)
  BY <1>3, <1>4 DEF Busy, Holds
<1>7. ~ ui[s].note /\ <<"submit", s>> \notin actions /\ <<"interrupt", s>> \notin actions
  BY <1>1, <1>2, <1>3, <1>6 DEF Freed
<1> QED BY <1>2, <1>3, <1>4, <1>5, <1>7

(* What the page holds of each key when session s takes the place of d.     *)
LEMMA PromotedIs ==
    ASSUME PageTypes, NEW d \in Drafts, NEW s \in W!Sessions
    PROVE  /\ W!Promoted(d, s) \in [W!Keys -> Composers]
           /\ W!Promoted(d, s)[s] = ui[d]
           /\ W!Promoted(d, s)[d].initial = None /\ W!Promoted(d, s)[d].attach = None
           /\ ~ W!Promoted(d, s)[d].note /\ ~ W!Promoted(d, s)[d].running
           /\ \A j \in W!Keys : j # s /\ j # d => W!Promoted(d, s)[j] = ui[j]
<1>1. s \in W!Keys /\ d \in W!Keys /\ d # s /\ ui \in [W!Keys -> Composers]
  BY NameFacts DEF PageTypes
<1>2. PICK b : b = W!Blank
  OBVIOUS
<1>3. b \in Composers /\ b.attach = None /\ b.initial = None /\ ~ b.note /\ ~ b.running
  BY <1>2 DEF W!Blank, Composers
<1>4. W!Promoted(d, s) = [j \in W!Keys |-> IF j = s THEN ui[d] ELSE IF j = d THEN b ELSE ui[j]]
  BY <1>2 DEF W!Promoted
<1> QED BY <1>1, <1>3, <1>4

(* Request r, whose session was created over HTTP, waits for the session's  *)
(* attachment or is given up: x says which.                                 *)
LEMMA MovedKept ==
    ASSUME OnceInv, KeptInv, NEW r \in W!Requests, req[r].at = "created",
           NEW d, d = req[r].key, Still, NEW x \in BOOLEAN,
           req' = [req EXCEPT ![r].at = "done"], UNCHANGED <<attached, socket>>, active' = r,
           \A y, s : About(up, y, s) => About(up', y, s),
           \A T \in {Starts, {"create"}} : \A q : Carries(up', T, q) <=> Carries(up, T, q),
           \A s : About(up', "input", s) \/ About(up', "interrupt", s) =>
                    About(up, "input", s) \/ About(up, "interrupt", s),
           \A s : About(up', "attach", s) => About(up, "attach", s) \/ s = r,
           x => About(up', "attach", r),
           listed' = [listed EXCEPT ![r] = FALSE],
           \A j \in W!Keys : j # r /\ j # d => ui'[j] = ui[j],
           ui'[d].initial = None, ui'[d].attach = None, ~ ui'[d].note, ~ ui'[d].running,
           ui'[r].initial = None, ui'[r].attach = IF x THEN r ELSE None,
           ui'[r].note => x,
           actions' = (actions \ {<<"submit", d>>}) \cup {a \in {<<"submit", r>>} : x},
           told' = IF x THEN told ELSE told \cup {r}
    PROVE  KeptInv'
<1>1. PageTypes /\ Linked /\ Listed /\ InOrder /\ Held /\ InFlight /\ Freed /\ AllFound
  BY DEF OnceInv, KeptInv
<1>2. Asking(r) /\ d \in Drafts /\ d \in W!Keys /\ d # r /\ d \notin W!Sessions /\ d \notin attached
      /\ req[r].at # "unused" /\ r # None
  BY <1>1, NameFacts DEF Asking, PageTypes
<1>3. Unmet(r)
  BY DEF OnceInv, Account, Sessionless
<1>4. /\ r \in W!Sessions /\ r \in W!Keys /\ r \notin Drafts
      /\ r \notin attached /\ listed[r] = None /\ active # r
      /\ ui[r].initial = None /\ ui[r].attach = None /\ ~ ui[r].running /\ ~ ui[r].note
      /\ ~ Asked(r) /\ <<"submit", r>> \notin actions /\ <<"interrupt", r>> \notin actions
  BY <1>3, UnmetFacts
<1>5. \A q \in W!Requests : /\ req'[q].at = IF q = r THEN "done" ELSE req[q].at
                            /\ req'[q].key = req[q].key
  BY <1>1, <1>2, GivenUp
<1>6. /\ ui[d].initial = None /\ ui[d].attach = None
      /\ \A q \in W!Requests : Asking(q) /\ req[q].key = d => q = r
  <2>1. ui[d].initial = None /\ ui[d].attach = None
    BY <1>1, <1>2 DEF Held, Asked
  <2> QED BY <1>1, <1>2, <2>1 DEF Held
<1>7. /\ \A q \in W!Requests : Asking(q)' <=> Asking(q) /\ q # r
      /\ \A j : Asked(j)' => Asked(j)
      /\ \A j : Asked(j) /\ j # d => Asked(j)'
      /\ ~ Asked(r)' /\ ~ Asked(d)'
  <2>1. \A q \in W!Requests : Asking(q)' <=> Asking(q) /\ q # r
    BY <1>5 DEF Asking
  <2> QED BY <1>4, <1>5, <1>6, <2>1 DEF Asked
<1>8. \A t \in W!Sessions : listed'[t] = IF t = r THEN FALSE ELSE listed[t]
  BY <1>1 DEF PageTypes
<1>9. FALSE # None
  BY PartsAssumption DEF W!NamesAssumption
<1>10. /\ \A j : <<"interrupt", j>> \in actions' => <<"interrupt", j>> \in actions
       /\ \A j : j # d /\ <<"submit", j>> \in actions => <<"submit", j>> \in actions'
       /\ \A j : <<"submit", j>> \in actions' => (<<"submit", j>> \in actions /\ j # d) \/ (j = r /\ x)
       /\ x => <<"submit", r>> \in actions'
  OBVIOUS
<1>11. Linked'
  <2>1. <<"submit", r>> \in {"submit", "interrupt"} \X W!Keys
    BY <1>4
  <2> QED BY <1>1, <2>1 DEF Linked, Still
<1>12. Listed'
  <2>1. listed'[r] # None
    BY <1>4, <1>8, <1>9
  <2>2. \A t \in W!Sessions : t # r => listed'[t] = listed[t] /\ ui'[t] = ui[t]
    BY <1>2, <1>8, NameFacts
  <2>3. \A q \in W!Requests : req'[q].at = "created" => q \in DOMAIN running'
    BY <1>1, <1>5 DEF Listed, Still
  <2>4. \A q \in W!Requests : req'[q].at # "unused" /\ req'[q].key \in W!Sessions =>
                                listed'[req'[q].key] # None
    <3>1. \A q \in W!Requests : req'[q].at # "unused" => req[q].at # "unused" /\ req'[q].key = req[q].key
      BY <1>2, <1>5
    <3> QED BY <1>1, <2>1, <2>2, <3>1 DEF Listed
  <2>5. \A t \in W!Sessions : \/ t \in attached' \/ About(up', "attach", t)
                              \/ About(down', "attached", t) \/ ui'[t].running
                              => listed'[t] # None
    <3>1. \A t \in W!Sessions : t # r /\ (\/ t \in attached' \/ About(up', "attach", t)
                              \/ About(down', "attached", t) \/ ui'[t].running) => listed[t] # None
      BY <1>1, <2>2 DEF Listed, Still
    <3> QED BY <2>1, <2>2, <3>1
  <2>6. \A t \in W!Sessions : listed'[t] # None \/ t \in grants' => t \in DOMAIN running'
    <3>1. r \in DOMAIN running
      BY <1>1 DEF Listed
    <3>2. \A t \in W!Sessions : t # r /\ (listed'[t] # None \/ t \in grants) => t \in DOMAIN running
      BY <1>1, <2>2 DEF Listed
    <3> QED BY <3>1, <3>2 DEF Still
  <2>7. active' \in W!Sessions => listed'[active'] # None
    BY <2>1
  <2> QED BY <2>3, <2>4, <2>5, <2>6, <2>7 DEF Listed
<1>13. InOrder'
  <2>1. \A s : About(up', "input", s) \/ About(up', "interrupt", s) => s \in grants
    BY <1>1 DEF InOrder
  <2> QED BY <2>1, OrderSame
<1>14. \A j \in W!Keys : ui'[j].initial = ui[j].initial
  BY <1>2, <1>4, <1>6
<1>15. InFlight'
  <2>1. \A q : Carries(up', {"create"}, q) <=> Carries(up, {"create"}, q)
    OBVIOUS
  <2> QED BY <1>5, <1>14, <2>1, FlightSame DEF Still
<1>16. AllFound'
  <2>1. ASSUME NEW q \in W!Requests, req'[q].at = "done"
        PROVE  Found(q)'
    <3>1. CASE q = r
      BY <1>4, <3>1 DEF Found
    <3>2. CASE q # r
      <4>1. Found(q) /\ q # None
        BY <1>1, <1>5, <2>1, <3>2, NameFacts DEF AllFound
      <4>2. Carries(up, Starts, q) => Carries(up', Starts, q)
        OBVIOUS
      <4>3. \A k \in W!Keys : ui[k].attach = q => ui'[k].attach = q
        BY <1>4, <1>6, <4>1
      <4> QED BY <4>1, <4>2, <4>3 DEF Found, Still
    <3> QED BY <3>1, <3>2
  <2> QED BY <2>1 DEF AllFound
<1>17. Held'
  <2>1. \A j \in W!Keys : ui'[j].initial # None =>
          j \in Drafts /\ <<"submit", j>> \in actions' /\ ~ Asked(j)'
    BY <1>1, <1>6, <1>7, <1>10, <1>14 DEF Held
  <2>2. ASSUME NEW j \in W!Keys, ui'[j].attach # None
        PROVE  /\ j \in W!Sessions /\ j \notin attached' /\ <<"submit", j>> \in actions' /\ ~ Asked(j)'
               /\ About(up', "attach", j) \/ About(down', "attached", j)
    <3>1. CASE j = r
      BY <1>4, <1>7, <1>10, <2>2, <3>1
    <3>2. CASE j # r
      <4>1. j # d /\ ui[j].attach # None
        BY <2>2, <3>2
      <4> QED BY <1>1, <1>7, <1>10, <4>1 DEF Held, Still
    <3> QED BY <3>1, <3>2
  <2>3. ASSUME NEW q \in W!Requests, Asking(q)', req'[q].key \notin attached'
        PROVE  /\ <<"submit", req'[q].key>> \in actions'
               /\ \A p \in W!Requests : Asking(p)' /\ req'[p].key = req'[q].key => p = q
    <3>1. Asking(q) /\ q # r /\ req'[q].key = req[q].key /\ req[q].key \notin attached
      BY <1>5, <1>7, <2>3
    <3>2. req[q].key # d
      BY <1>6, <3>1
    <3> QED BY <1>1, <1>5, <1>7, <1>10, <3>1, <3>2 DEF Held
  <2> QED BY <2>1, <2>2, <2>3 DEF Held
<1>18. Freed'
  <2>1. /\ \A j : Turns(j) => Turns(j)'
        /\ \A j : Pending(j) => Pending(j)'
    BY DEF Turns, Pending, Turning, Still
  <2>2. \A j \in W!Keys : j # d /\ j # r => (Holds(j) => Holds(j)') /\ (Busy(j) => Busy(j)')
    BY <1>7, <2>1 DEF Holds, Busy
  <2>3. x => Busy(r)'
    BY <1>2, <1>4 DEF Busy, Holds
  <2>4. \A j \in W!Keys : <<"submit", j>> \in actions' \/ ui'[j].note => Busy(j)'
    <3>1. ASSUME NEW j \in W!Keys, <<"submit", j>> \in actions' \/ ui'[j].note, j # r
          PROVE  Busy(j)'
      <4>1. j # d /\ (<<"submit", j>> \in actions \/ ui[j].note)
        BY <1>10, <3>1
      <4> QED BY <1>1, <2>2, <3>1, <4>1 DEF Freed
    <3>2. <<"submit", r>> \in actions' \/ ui'[r].note => x
      BY <1>4, <1>10
    <3> QED BY <2>3, <3>1, <3>2
  <2>5. \A j \in W!Keys : <<"interrupt", j>> \in actions' => j \in attached' /\ Pending(j)'
    BY <1>1, <1>10, <2>1 DEF Freed
  <2>6. \A j \in Drafts : ui'[j].running => Holds(j)'
    BY <1>1, <1>4, <2>2, NameFacts DEF Freed
  <2>7. \A t \in W!Sessions : listed'[t] = TRUE => t \in attached' /\ (t \in refused' \/ Turns(t)')
    <3>1. \A t \in W!Sessions : listed'[t] = TRUE => t # r /\ listed[t] = TRUE
      BY <1>4, <1>8
    <3> QED BY <1>1, <2>1, <3>1 DEF Freed, Still
  <2>8. \A t \in W!Sessions : About(down', "created", t) => Pending(t)'
    BY <1>1, <2>1 DEF Freed, Still
  <2> QED BY <2>4, <2>5, <2>6, <2>7, <2>8 DEF Freed
<1> QED BY <1>11, <1>12, <1>13, <1>15, <1>16, <1>17, <1>18 DEF KeptInv

LEMMA RestDoneKept ==
    ASSUME OnceInv, KeptInv, NEW r \in W!Requests, W!RestDone(r)
    PROVE  KeptInv'
<1>1. PageTypes /\ Linked /\ up \in Seq(Posts) /\ Account(r)
  BY DEF OnceInv, KeptInv
<1>2. /\ req[r].at = "created" /\ Still /\ UNCHANGED <<attached, socket>> /\ socket.open
      /\ active' = r /\ req' = [req EXCEPT ![r].at = "done"]
  BY <1>1 DEF W!RestDone, Still, W!server, Linked
<1>3. /\ r \in W!Sessions /\ r \in W!Keys /\ r \notin Drafts
      /\ r \notin attached /\ listed[r] = None
      /\ ui[r].initial = None /\ ui[r].attach = None
  BY <1>1, <1>2, UnmetFacts DEF Account, Sessionless
<1> PICK d : d = req[r].key
  OBVIOUS
<1>4. d \in Drafts /\ d \in W!Keys /\ d # r /\ d \notin attached /\ Asking(r) /\ Asked(d)
  BY <1>1, <1>2, <1>3, NameFacts DEF PageTypes, Asking, Asked
<1>5. ui[d].initial = None /\ ui[d].attach = None
  BY <1>1, <1>4 DEF KeptInv, Held, PageTypes
<1> PICK u : u = W!Promoted(d, r)
  OBVIOUS
<1>6. /\ u \in [W!Keys -> Composers] /\ u[r] = ui[d]
      /\ u[d].initial = None /\ u[d].attach = None /\ ~ u[d].note /\ ~ u[d].running
      /\ \A j \in W!Keys : j # r /\ j # d => u[j] = ui[j]
  BY <1>1, <1>3, <1>4, PromotedIs
<1> PICK t : t = W!Attaches(r, socket.state, 2)
  OBVIOUS
<1>7. W!SendMessage(r, r, u, actions \ {<<"submit", d>>}, t)
  BY DEF W!RestDone
<1>8. listed' = [listed EXCEPT ![r] = FALSE]
  <2>1. listed' = [listed EXCEPT ![r] = IF @ = None THEN FALSE ELSE @]
    BY <1>3, <1>7 DEF W!SendMessage
  <2>2. listed \in [W!Sessions -> BOOLEAN \cup {None}]
    BY <1>1 DEF PageTypes
  <2> QED BY <1>3, <2>1, <2>2
<1>9. CASE req[r].live
  <2>1. /\ up' = up \o <<W!Message("attach", r, None)>> \o t /\ ui' = [u EXCEPT ![r].attach = r]
        /\ actions' = (actions \ {<<"submit", d>>}) \cup {<<"submit", r>>} /\ told' = told
    BY <1>2, <1>3, <1>7, <1>9 DEF W!SendMessage
  <2>2. PICK m \in Posts : m = W!Message("attach", r, None)
    BY <1>3, MessageFacts
  <2>3. m.type = "attach" /\ m.session = r
    BY <2>2, MessageFacts
  <2>4. PICK v : v = Append(up, m)
    OBVIOUS
  <2>5. v \in Seq(Posts) /\ up' = v \o t
    BY <1>1, <2>1, <2>2, <2>4
  <2>6. /\ \A y, s : About(v, y, s) <=> About(up, y, s) \/ (m.type = y /\ m.session = s)
        /\ \A T, q : Carries(v, T, q) <=> Carries(up, T, q) \/ (m.type \in T /\ m.request = q)
    <3>1. Adds(up, m, v)
      BY <1>1, <2>4, AppendAdds
    <3> QED BY ONLY <3>1, More
  <2>7. /\ t \in Seq(Posts) /\ \A T \in {Starts, {"create"}} : \A q : ~ Carries(t, T, q)
        /\ \A s : /\ About(t, "attach", s) => s = r
                  /\ ~ About(t, "input", s) /\ ~ About(t, "interrupt", s)
    BY AttachesAsk
  <2>8. PICK p : p = up'
    OBVIOUS
  <2>9. /\ \A y, s : About(p, y, s) <=> About(v, y, s) \/ About(t, y, s)
        /\ \A T, q : Carries(p, T, q) <=> Carries(v, T, q) \/ Carries(t, T, q)
    <3>1. v \in Seq(Posts) /\ t \in Seq(Posts) /\ p = v \o t
      BY <2>5, <2>7, <2>8
    <3> QED BY ONLY <3>1, Joined
  <2>10. /\ \A y, s : About(up, y, s) => About(up', y, s)
         /\ \A s : About(up', "input", s) \/ About(up', "interrupt", s) =>
                     About(up, "input", s) \/ About(up, "interrupt", s)
         /\ \A s : About(up', "attach", s) => About(up, "attach", s) \/ s = r
         /\ About(up', "attach", r)
    BY <2>3, <2>6, <2>7, <2>8, <2>9
  <2>11. \A T \in {Starts, {"create"}} : \A q : Carries(up', T, q) <=> Carries(up, T, q)
    BY <2>3, <2>6, <2>7, <2>8, <2>9 DEF Starts
  <2>12. /\ \A j \in W!Keys : j # r => ui'[j] = u[j]
         /\ ui'[r].attach = r /\ ui'[r].initial = u[r].initial
    BY ONLY <1>3, <1>6, <2>1, r \in W!Requests DEF Composers
  <2>13. PICK x \in BOOLEAN : x = TRUE
    OBVIOUS
  <2>14. x
    BY <2>13
  <2>15. actions' = (actions \ {<<"submit", d>>}) \cup {a \in {<<"submit", r>>} : x}
    BY <2>1, <2>14
  <2>16. /\ x => About(up', "attach", r)
         /\ \A j \in W!Keys : j # r /\ j # d => ui'[j] = ui[j]
         /\ ui'[d].initial = None /\ ui'[d].attach = None /\ ~ ui'[d].note /\ ~ ui'[d].running
         /\ ui'[r].initial = None /\ ui'[r].attach = IF x THEN r ELSE None
         /\ ui'[r].note => x
         /\ told' = IF x THEN told ELSE told \cup {r}
    BY <1>4, <1>5, <1>6, <2>1, <2>10, <2>12, <2>14
  <2> QED BY <1>2, <1>8, <2>10, <2>11, <2>15, <2>16, MovedKept, ZenonT(60)
<1>10. CASE ~ req[r].live
  <2>1. /\ up' = up /\ ui' = W!Unmarked(u, r) /\ actions' = actions \ {<<"submit", d>>}
        /\ told' = told \cup {r}
    BY <1>3, <1>7, <1>10 DEF W!SendMessage
  <2>2. ui' = [u EXCEPT ![r].running = FALSE, ![r].note = FALSE]
    BY <2>1 DEF W!Unmarked
  <2>3. /\ \A j \in W!Keys : j # r => ui'[j] = u[j]
        /\ ui'[r].attach = u[r].attach /\ ui'[r].initial = u[r].initial /\ ~ ui'[r].note
    BY ONLY <1>3, <1>6, <2>2 DEF Composers
  <2>4. PICK x \in BOOLEAN : x = FALSE
    OBVIOUS
  <2>5. ~ x
    BY <2>4
  <2>6. actions' = (actions \ {<<"submit", d>>}) \cup {a \in {<<"submit", r>>} : x}
    BY <2>1, <2>5
  <2>7. /\ x => About(up', "attach", r)
        /\ \A j \in W!Keys : j # r /\ j # d => ui'[j] = ui[j]
        /\ ui'[d].initial = None /\ ui'[d].attach = None /\ ~ ui'[d].note /\ ~ ui'[d].running
        /\ ui'[r].initial = None /\ ui'[r].attach = IF x THEN r ELSE None
        /\ ui'[r].note => x
        /\ told' = IF x THEN told ELSE told \cup {r}
    BY <1>4, <1>5, <1>6, <2>1, <2>3, <2>5
  <2>8. /\ \A y, s : About(up, y, s) => About(up', y, s)
        /\ \A s : About(up', "input", s) \/ About(up', "interrupt", s) =>
                    About(up, "input", s) \/ About(up, "interrupt", s)
        /\ \A s : About(up', "attach", s) => About(up, "attach", s) \/ s = r
    BY <2>1
  <2>9. \A T \in {Starts, {"create"}} : \A q : Carries(up', T, q) <=> Carries(up, T, q)
    BY <2>1
  <2> QED BY <1>2, <1>8, <2>5, <2>6, <2>7, <2>8, <2>9, MovedKept, ZenonT(60)
<1> QED BY <1>9, <1>10

-----------------------------------------------------------------------------
(* The page takes message m, the first of its queue.                        *)
LEMMA DownGave ==
    ASSUME OnceInv, KeptInv, down # << >>, down' = Tail(down), NEW m, m = Head(down)
    PROVE  /\ m \in News
           /\ \A y, s : About(down, y, s) <=> About(down', y, s) \/ (m.type = y /\ m.session = s)
           /\ \A T, r : Carries(down, T, r) <=> Carries(down', T, r) \/ (m.type \in T /\ m.request = r)
           /\ \A r : Replied(down, r) <=> Replied(down', r) \/ (Replies(m) /\ m.request = r)
           /\ OneReply(down') /\ (Replies(m) => ~ Replied(down', m.request))
           /\ ~ Opens(m) /\ m.session \in W!Sessions => m.session \in attached
           /\ ~ Opens(m) => Ordered(down', attached)
           /\ Ordered(down', attached \cup {m.session})
           /\ Followed(down', Turning) /\ OfSessions(down')
           /\ m.type = "running" => m.session \in Turning \/ About(down', "end", m.session)
<1>1. down \in Seq(News) /\ InOrder /\ InFlight
  BY DEF OnceInv, KeptInv
<1> PICK p : p = down'
  OBVIOUS
<1>2. down \in Seq(News) /\ p = Tail(down)
  BY <1>1
<1>3. m \in News /\ Heads(down, m, p)
  BY ONLY <1>2, down # << >>, m = Head(down), Rest, Zenon
<1>4. OfSessions(p)
  BY <1>1, <1>3 DEF InOrder, OfSessions, Heads
<1>5. OneReply(down) /\ Ordered(down, attached) /\ Followed(down, Turning)
  BY <1>1 DEF InOrder, InFlight
<1> QED BY <1>3, <1>4, <1>5 DEF Heads

(* The replies that are on their way stay, and what waits for them.         *)
LEMMA ReplyKept ==
    ASSUME KeptInv, OneReply(down'), \A q : Replied(down', q) <=> Replied(down, q), req' = req,
           \A k \in W!Keys : ui'[k].initial = None <=> ui[k].initial = None,
           \A q : Carries(up', {"create"}, q) <=> Carries(up, {"create"}, q)
    PROVE  InFlight'
<1>1. InFlight
  BY DEF KeptInv
<1>2. Flying' = Flying /\ Awaiting' = Awaiting
  BY DEF Flying, Awaiting
<1> QED BY <1>1, <1>2 DEF InFlight

(* The reply to request r is taken, and the composer of d waits no longer.  *)
LEMMA ReplyTaken ==
    ASSUME KeptInv, OneReply(down'), NEW r \in W!Requests, ~ Replied(down', r), req' = req,
           \A q : Replied(down, q) <=> Replied(down', q) \/ q = r,
           \A q : Carries(up', {"create"}, q) <=> Carries(up, {"create"}, q),
           NEW d \in Awaiting, Awaiting' = Awaiting \ {d}
    PROVE  InFlight'
<1>1. InFlight
  BY DEF KeptInv
<1>2. r \in Flying /\ Flying' = Flying \ {r}
  BY <1>1 DEF InFlight, Flying
<1>3. IsFiniteSet(Flying) /\ IsFiniteSet(Awaiting) /\ Cardinality(Awaiting) = Cardinality(Flying)
  BY <1>1, FlyingFinite DEF InFlight
<1>4. IsFiniteSet(Awaiting') /\ Cardinality(Awaiting') = Cardinality(Flying')
  <2>1. PICK A, F : A = Awaiting' /\ F = Flying'
    OBVIOUS
  <2>2. IsFiniteSet(A) /\ Cardinality(A) = Cardinality(Awaiting) - 1
    BY ONLY d \in Awaiting, Awaiting' = Awaiting \ {d}, <1>3, <2>1, OneLess
  <2>3. Cardinality(F) = Cardinality(Flying) - 1
    BY ONLY <1>2, <1>3, <2>1, OneLess
  <2> QED BY <1>3, <2>1, <2>2, <2>3
<1>5. \A q : Replied(down', q) => q \in W!Requests /\ ~ Carries(up', {"create"}, q)
  BY <1>1 DEF InFlight
<1>6. \A q \in Flying' : req'[q].at = "done" /\ req'[q].key \in Drafts
  BY <1>1, <1>2 DEF InFlight
<1> QED BY <1>4, <1>5, <1>6 DEF InFlight

(* As long as a reply is on its way, some composer waits for one.           *)
LEMMA SomeAwait ==
    ASSUME KeptInv, NEW r, Replied(down, r)
    PROVE  r \in W!Requests /\ Awaiting # {}
<1>1. InFlight
  BY DEF KeptInv
<1>2. r \in W!Requests /\ r \in Flying
  BY <1>1 DEF InFlight, Flying
<1>3. IsFiniteSet(Flying) /\ Cardinality(Awaiting) = Cardinality(Flying)
  BY <1>1, FlyingFinite DEF InFlight
<1>4. Cardinality(Flying) # 0
  BY <1>2, <1>3, FS_EmptySet
<1> QED BY <1>2, <1>3, <1>4, FS_EmptySet

(* The page does not know of a session whose creation it has yet to hear.   *)
LEMMA AnnouncedUnmet ==
    ASSUME OnceInv, NEW s, About(down, "created", s)
    PROVE  s \in W!Requests /\ Unmet(s)
<1>1. down \in Seq(News)
  BY DEF OnceInv
<1>2. PICK i \in DOMAIN down : down[i].type = "created" /\ down[i].session = s
  BY DEF About
<1>3. down[i] \in News
  BY <1>1
<1>4. s \in W!Requests /\ down[i].request = s
  BY <1>2, <1>3 DEF News
<1>5. Carries(down, {"created"}, s)
  BY <1>2, <1>4 DEF Carries
<1> QED BY <1>4, <1>5 DEF OnceInv, Account, Sessionless

(* The page is attached to session s, and the request that waited goes out. *)
LEMMA OnAttachedKept ==
    ASSUME OnceInv, KeptInv, down # << >>, down' = Tail(down), NEW m, m = Head(down),
           UNCHANGED <<req, running, grants, runs, refused>>, m.type = "attached", W!OnAttached(m)
    PROVE  KeptInv'
<1>1. PageTypes /\ Linked /\ Listed /\ InOrder /\ Held /\ InFlight /\ Freed /\ AllFound
  BY DEF OnceInv, KeptInv
<1> PICK s : s = m.session
  OBVIOUS
<1>2. /\ m \in News
      /\ \A y, t : About(down, y, t) <=> About(down', y, t) \/ (m.type = y /\ m.session = t)
      /\ \A T, q : Carries(down, T, q) <=> Carries(down', T, q) \/ (m.type \in T /\ m.request = q)
      /\ \A q : Replied(down, q) <=> Replied(down', q) \/ (Replies(m) /\ m.request = q)
      /\ OneReply(down')
      /\ Ordered(down', attached \cup {m.session})
      /\ Followed(down', Turning) /\ OfSessions(down')
  BY DownGave
<1>3. s \in W!Sessions /\ s \in W!Keys /\ s \notin Drafts /\ ~ Replies(m)
  BY <1>2, NameFacts DEF News, Replies
<1>4. /\ \A y, t : About(down, y, t) <=> About(down', y, t) \/ (y = "attached" /\ t = s)
      /\ \A q : Carries(down, {"error"}, q) <=> Carries(down', {"error"}, q)
      /\ \A q : Replied(down', q) <=> Replied(down, q)
  BY <1>2, <1>3
<1>5. s \in grants /\ listed[s] # None /\ About(down, "attached", s)
  <2>1. About(down, "attached", s)
    BY <1>4
  <2> QED BY <1>1, <1>3, <2>1, GrantedFacts DEF Heard, Listed
<1> PICK r : r = ui[s].attach
  OBVIOUS
<1>6. /\ active' = active /\ listed' = listed /\ attached' = attached \cup {s}
      /\ actions' = actions /\ socket' = socket /\ told' = told
      /\ ui' = IF r # None THEN [ui EXCEPT ![s].attach = None, ![s].running = TRUE] ELSE ui
      /\ up' = IF r # None THEN Append(up, W!Message("input", s, r)) ELSE up
  BY DEF W!OnAttached
<1>7. \A j \in W!Keys : /\ ui'[j].initial = ui[j].initial
                        /\ ui'[j].attach = IF j = s THEN None ELSE ui[j].attach
                        /\ ui'[j].note = ui[j].note
                        /\ j # s => ui'[j] = ui[j]
  <2>1. CASE r = None
    BY <1>3, <1>6, <2>1
  <2>2. CASE r # None
    <3>1. ui' = [ui EXCEPT ![s].attach = None, ![s].running = TRUE]
      BY <1>6, <2>2
    <3>2. ui \in [W!Keys -> Composers]
      BY <1>1 DEF PageTypes
    <3> QED BY ONLY <1>3, <3>1, <3>2 DEF Composers
  <2> QED BY <2>1, <2>2
<1>8. /\ \A y, t : About(up', y, t) <=> About(up, y, t) \/ (r # None /\ y = "input" /\ t = s)
      /\ \A T, q : Carries(up', T, q) <=> Carries(up, T, q) \/ (r # None /\ "input" \in T /\ q = r)
  <2>1. CASE r = None
    BY <1>6, <2>1
  <2>2. CASE r # None
    <3>1. r \in W!Requests
      BY <1>1, <1>3, <2>2 DEF PageTypes, Composers
    <3>2. PICK n \in Posts : n = W!Message("input", s, r)
      BY <1>3, <3>1, MessageFacts
    <3>3. n.type = "input" /\ n.session = s /\ n.request = r
      BY <3>2, MessageFacts
    <3>4. /\ \A y, t : About(up', y, t) <=> About(up, y, t) \/ (n.type = y /\ n.session = t)
          /\ \A T, q : Carries(up', T, q) <=> Carries(up, T, q) \/ (n.type \in T /\ n.request = q)
      BY <1>6, <2>2, <3>2, UpTook
    <3> QED BY <2>2, <3>3, <3>4
  <2> QED BY <2>1, <2>2
<1>9. \A j : Asked(j)' <=> Asked(j)
  BY DEF Asked, Asking
<1>10. Linked'
  BY <1>1, <1>6 DEF Linked
<1>11. Listed'
  <2>1. \A t \in W!Sessions : ui'[t].running => listed[t] # None
    BY <1>1, <1>5, <1>7, NameFacts DEF Listed
  <2>2. \A t \in W!Sessions : t \in attached' \/ About(up', "attach", t) \/ About(down', "attached", t)
                                => listed[t] # None
    BY <1>1, <1>4, <1>5, <1>6, <1>8 DEF Listed
  <2> QED BY <1>1, <1>6, <2>1, <2>2 DEF Listed
<1>12. InOrder'
  <2>1. Turning' = Turning
    BY DEF Turning
  <2>2. \A t \in W!Sessions : t \in grants' <=> Heard(t)'
    BY <1>1, <1>4, <1>5, <1>6 DEF InOrder, Heard
  <2>3. \A t : About(up', "input", t) \/ About(up', "interrupt", t) => t \in grants'
    BY <1>1, <1>5, <1>8 DEF InOrder
  <2> QED BY <1>2, <1>6, <2>1, <2>2, <2>3 DEF InOrder
<1>13. InFlight'
  <2>1. \A q : Carries(up', {"create"}, q) <=> Carries(up, {"create"}, q)
    BY <1>8
  <2> QED BY <1>2, <1>4, <1>7, <2>1, ReplyKept
<1>14. AllFound'
  <2>1. ASSUME NEW q \in W!Requests, req'[q].at = "done"
        PROVE  Found(q)'
    <3>1. Found(q) /\ q # None
      BY <1>1, <2>1, NameFacts DEF AllFound
    <3>2. \A k \in W!Keys : ui[k].attach = q => ui'[k].attach = q \/ Carries(up', Starts, q)
      BY <1>7, <1>8, <3>1 DEF Starts
    <3>3. Carries(up, Starts, q) => Carries(up', Starts, q)
      BY <1>8
    <3> QED BY <1>4, <1>6, <3>1, <3>2, <3>3 DEF Found
  <2> QED BY <2>1 DEF AllFound
<1>15. Held'
  <2>1. \A k \in W!Keys : ui'[k].initial # None =>
          k \in Drafts /\ <<"submit", k>> \in actions' /\ ~ Asked(k)'
    BY <1>1, <1>6, <1>7, <1>9 DEF Held
  <2>2. \A k \in W!Keys : ui'[k].attach # None =>
         /\ k \in W!Sessions /\ k \notin attached' /\ <<"submit", k>> \in actions' /\ ~ Asked(k)'
         /\ About(up', "attach", k) \/ About(down', "attached", k)
    BY <1>1, <1>4, <1>6, <1>7, <1>8, <1>9, SMTT(30) DEF Held
  <2>3. \A q \in W!Requests : Asking(q)' /\ req'[q].key \notin attached' =>
         /\ <<"submit", req'[q].key>> \in actions'
         /\ \A p \in W!Requests : Asking(p)' /\ req'[p].key = req'[q].key => p = q
    BY <1>1, <1>6 DEF Held, Asking
  <2> QED BY <2>1, <2>2, <2>3 DEF Held
<1>16. Freed'
  <2>1. /\ \A j : Turns(j) => Turns(j)'
        /\ \A j : Pending(j) => Pending(j)'
        /\ r # None => Turns(s)' /\ Pending(s)'
    BY <1>4, <1>8 DEF Turns, Pending, Turning
  <2>2. \A j \in W!Keys : j # s => (Holds(j) => Holds(j)') /\ (Busy(j) => Busy(j)')
    BY <1>6, <1>7, <1>9, <2>1 DEF Holds, Busy
  <2>3. ui[s].initial = None
    BY <1>1, <1>3 DEF Held
  <2>4. Busy(s) => Busy(s)'
    BY <1>6, <1>9, <2>1, <2>3 DEF Busy, Holds
  <2>5. \A j \in W!Keys : <<"submit", j>> \in actions' \/ ui'[j].note => Busy(j)'
    BY <1>1, <1>6, <1>7, <2>2, <2>4 DEF Freed
  <2>6. \A j \in W!Keys : <<"interrupt", j>> \in actions' => j \in attached' /\ Pending(j)'
    BY <1>1, <1>6, <2>1 DEF Freed
  <2>7. \A j \in Drafts : ui'[j].running => Holds(j)'
    BY <1>1, <1>3, <1>7, <2>2, NameFacts DEF Freed
  <2>8. \A t \in W!Sessions : listed'[t] = TRUE => t \in attached' /\ (t \in refused' \/ Turns(t)')
    BY <1>1, <1>6, <2>1 DEF Freed
  <2>9. \A t \in W!Sessions : About(down', "created", t) => Pending(t)'
    BY <1>1, <1>4, <2>1 DEF Freed
  <2> QED BY <2>5, <2>6, <2>7, <2>8, <2>9 DEF Freed
<1> QED BY <1>10, <1>11, <1>12, <1>13, <1>14, <1>15, <1>16 DEF KeptInv

(* The new session takes the place of the draft whose composer waited first *)
(* for one.                                                                 *)
LEMMA OnCreatedKept ==
    ASSUME OnceInv, KeptInv, down # << >>, down' = Tail(down), NEW m, m = Head(down),
           UNCHANGED <<req, running, grants, runs, refused>>, m.type = "created", W!OnCreated(m)
    PROVE  KeptInv'
<1>1. PageTypes /\ Linked /\ Listed /\ InOrder /\ Held /\ InFlight /\ Freed /\ AllFound
  BY DEF OnceInv, KeptInv
<1> PICK s : s = m.session
  OBVIOUS
<1>2. /\ m \in News
      /\ \A y, t : About(down, y, t) <=> About(down', y, t) \/ (m.type = y /\ m.session = t)
      /\ \A T, q : Carries(down, T, q) <=> Carries(down', T, q) \/ (m.type \in T /\ m.request = q)
      /\ \A q : Replied(down, q) <=> Replied(down', q) \/ (Replies(m) /\ m.request = q)
      /\ OneReply(down') /\ (Replies(m) => ~ Replied(down', m.request))
      /\ Ordered(down', attached \cup {m.session})
      /\ Followed(down', Turning) /\ OfSessions(down')
  BY DownGave
<1>3. s \in W!Requests /\ m.request = s /\ Replies(m)
  BY <1>2 DEF News, Replies
<1>4. /\ \A y, t : About(down, y, t) <=> About(down', y, t) \/ (y = "created" /\ t = s)
      /\ \A q : Carries(down, {"error"}, q) <=> Carries(down', {"error"}, q)
      /\ \A q : Replied(down, q) <=> Replied(down', q) \/ q = s
      /\ ~ Replied(down', s) /\ Replied(down, s) /\ About(down, "created", s)
  BY <1>2, <1>3
<1>5. /\ s \in W!Sessions /\ s \in W!Keys /\ s \notin Drafts
      /\ s \notin attached /\ listed[s] = None
      /\ ui[s].initial = None /\ ui[s].attach = None
      /\ ~ Asked(s) /\ <<"interrupt", s>> \notin actions
  BY <1>4, AnnouncedUnmet, UnmetFacts
<1>6. s \in grants /\ s \in DOMAIN running /\ Pending(s)
  BY <1>1, <1>4, <1>5, GrantedFacts DEF Heard, Freed
<1>7. PICK d \in Awaiting :
        /\ ui' = [W!Promoted(d, s) EXCEPT ![s].initial = None, ![s].running = TRUE]
        /\ actions' = IF <<"submit", d>> \in actions
                      THEN (actions \ {<<"submit", d>>}) \cup {<<"submit", s>>} ELSE actions
  <2>1. Awaiting # {}
    BY <1>4, SomeAwait
  <2>2. Awaiting = {k \in W!Keys : ui[k].initial # None}
    BY DEF Awaiting
  <2> QED BY <2>1, <2>2 DEF W!OnCreated
<1>8. /\ d \in Drafts /\ d \in W!Keys /\ <<"submit", d>> \in actions /\ ~ Asked(d)
      /\ d \notin W!Sessions /\ d # s /\ d \notin attached
  BY <1>1, <1>5, <1>7, NameFacts DEF Awaiting, Held, PageTypes
<1>9. /\ actions' = (actions \ {<<"submit", d>>}) \cup {<<"submit", s>>}
      /\ active' = s /\ attached' = attached \cup {s} /\ listed' = [listed EXCEPT ![s] = FALSE]
      /\ up' = up /\ socket' = socket /\ told' = told
  BY <1>7, <1>8 DEF W!OnCreated
<1> PICK u : u = W!Promoted(d, s)
  OBVIOUS
<1>10. /\ u \in [W!Keys -> Composers] /\ u[s] = ui[d]
       /\ u[d].initial = None /\ u[d].attach = None /\ ~ u[d].note /\ ~ u[d].running
       /\ \A j \in W!Keys : j # s /\ j # d => u[j] = ui[j]
  BY <1>1, <1>5, <1>8, PromotedIs
<1>11. /\ \A j \in W!Keys : j # s => ui'[j] = u[j]
       /\ ui'[s].initial = None /\ ui'[s].attach = u[s].attach
  <2>1. ui' = [u EXCEPT ![s].initial = None, ![s].running = TRUE]
    BY <1>7
  <2> QED BY ONLY <1>5, <1>10, <2>1 DEF Composers
<1>12. /\ \A j \in W!Keys : j # s /\ j # d => ui'[j] = ui[j]
       /\ ui'[d].initial = None /\ ui'[d].attach = None /\ ~ ui'[d].note /\ ~ ui'[d].running
       /\ ui'[s].initial = None /\ ui'[s].attach = None /\ ui[d].attach = None
  BY <1>1, <1>8, <1>10, <1>11 DEF PageTypes
<1>13. \A t \in W!Sessions : listed'[t] = IF t = s THEN FALSE ELSE listed[t]
  BY <1>1, <1>9 DEF PageTypes
<1>14. FALSE # None
  BY PartsAssumption DEF W!NamesAssumption
<1>15. /\ \A j : <<"interrupt", j>> \in actions' => <<"interrupt", j>> \in actions
       /\ \A j : j # d /\ <<"submit", j>> \in actions => <<"submit", j>> \in actions'
       /\ \A j : <<"submit", j>> \in actions' => (<<"submit", j>> \in actions /\ j # d) \/ j = s
  BY <1>8, <1>9
<1>16. \A j : Asked(j)' <=> Asked(j)
  BY DEF Asked, Asking
<1>17. Linked'
  <2>1. <<"submit", s>> \in {"submit", "interrupt"} \X W!Keys
    BY <1>5
  <2> QED BY <1>1, <1>9, <2>1 DEF Linked
<1>18. Listed'
  <2>1. listed'[s] # None
    BY <1>5, <1>13, <1>14
  <2>2. \A t \in W!Sessions : t # s => listed'[t] = listed[t] /\ ui'[t] = ui[t]
    BY <1>8, <1>12, <1>13, NameFacts
  <2>3. \A q \in W!Requests : req'[q].at # "unused" /\ req'[q].key \in W!Sessions =>
                                listed'[req'[q].key] # None
    BY <1>1, <2>1, <2>2 DEF Listed
  <2>4. \A t \in W!Sessions : \/ t \in attached' \/ About(up', "attach", t)
                              \/ About(down', "attached", t) \/ ui'[t].running
                              => listed'[t] # None
    <3>1. \A t \in W!Sessions : t # s /\ (\/ t \in attached' \/ About(up', "attach", t)
                              \/ About(down', "attached", t) \/ ui'[t].running) => listed[t] # None
      BY <1>1, <1>4, <1>9, <2>2 DEF Listed
    <3> QED BY <2>1, <2>2, <3>1
  <2>5. \A t \in W!Sessions : listed'[t] # None \/ t \in grants' => t \in DOMAIN running'
    BY <1>1, <1>6, <2>2 DEF Listed
  <2>6. active' \in W!Sessions => listed'[active'] # None
    BY <1>9, <2>1
  <2>7. \A q \in W!Requests : req'[q].at = "created" => q \in DOMAIN running'
    BY <1>1 DEF Listed
  <2> QED BY <2>3, <2>4, <2>5, <2>6, <2>7 DEF Listed
<1>19. InOrder'
  <2>1. Turning' = Turning
    BY DEF Turning
  <2>2. \A t \in W!Sessions : t \in grants' <=> Heard(t)'
    BY <1>1, <1>4, <1>6, <1>9 DEF InOrder, Heard
  <2>3. \A t : About(up', "input", t) \/ About(up', "interrupt", t) => t \in grants'
    BY <1>1, <1>9 DEF InOrder
  <2> QED BY <1>2, <1>9, <2>1, <2>2, <2>3 DEF InOrder
<1>20. InFlight'
  <2>1. Awaiting' = Awaiting \ {d}
    <3>1. \A j \in W!Keys : j # d => (ui'[j].initial # None <=> ui[j].initial # None)
      BY <1>5, <1>12
    <3> QED BY <1>8, <1>12, <3>1 DEF Awaiting
  <2>2. \A q : Carries(up', {"create"}, q) <=> Carries(up, {"create"}, q)
    BY <1>9
  <2> QED BY <1>2, <1>3, <1>4, <2>1, <2>2, ReplyTaken
<1>21. AllFound'
  <2>1. ASSUME NEW q \in W!Requests, req'[q].at = "done"
        PROVE  Found(q)'
    <3>1. Found(q) /\ q # None
      BY <1>1, <2>1, NameFacts DEF AllFound
    <3>2. \A k \in W!Keys : ui[k].attach = q => ui'[k].attach = q
      BY <1>5, <1>12, <3>1
    <3> QED BY <1>4, <1>9, <3>1, <3>2 DEF Found
  <2> QED BY <2>1 DEF AllFound
<1>22. Held'
  <2>1. \A k \in W!Keys : ui'[k].initial # None =>
          k \in Drafts /\ <<"submit", k>> \in actions' /\ ~ Asked(k)'
    BY <1>1, <1>12, <1>15, <1>16 DEF Held
  <2>2. ASSUME NEW k \in W!Keys, ui'[k].attach # None
        PROVE  /\ k \in W!Sessions /\ k \notin attached' /\ <<"submit", k>> \in actions' /\ ~ Asked(k)'
               /\ About(up', "attach", k) \/ About(down', "attached", k)
    <3>1. k # s /\ k # d /\ ui[k].attach # None
      BY <1>12, <2>2
    <3> QED BY <1>1, <1>4, <1>9, <1>15, <1>16, <3>1 DEF Held
  <2>3. ASSUME NEW q \in W!Requests, Asking(q)', req'[q].key \notin attached'
        PROVE  /\ <<"submit", req'[q].key>> \in actions'
               /\ \A p \in W!Requests : Asking(p)' /\ req'[p].key = req'[q].key => p = q
    <3>1. Asking(q) /\ req[q].key \notin attached /\ Asked(req[q].key)
      BY <1>9, <2>3 DEF Asking, Asked
    <3>2. req[q].key # d
      BY <1>8, <3>1
    <3> QED BY <1>1, <1>15, <3>1, <3>2 DEF Held, Asking
  <2> QED BY <2>1, <2>2, <2>3 DEF Held
<1>23. Freed'
  <2>1. /\ \A j : Turns(j) => Turns(j)'
        /\ \A j : Pending(j) => Pending(j)'
    BY <1>4, <1>9 DEF Turns, Pending, Turning
  <2>2. \A j \in W!Keys : j # d /\ j # s => (Holds(j) => Holds(j)') /\ (Busy(j) => Busy(j)')
    BY <1>9, <1>12, <1>16, <2>1 DEF Holds, Busy
  <2>3. Busy(s)'
    BY <1>6, <1>9, <2>1 DEF Busy
  <2>4. \A j \in W!Keys : <<"submit", j>> \in actions' \/ ui'[j].note => Busy(j)'
    <3>1. ASSUME NEW j \in W!Keys, <<"submit", j>> \in actions' \/ ui'[j].note, j # s
          PROVE  Busy(j)'
      <4>1. j # d /\ (<<"submit", j>> \in actions \/ ui[j].note)
        BY <1>12, <1>15, <3>1
      <4> QED BY <1>1, <2>2, <3>1, <4>1 DEF Freed
    <3> QED BY <2>3, <3>1
  <2>5. \A j \in W!Keys : <<"interrupt", j>> \in actions' => j \in attached' /\ Pending(j)'
    BY <1>1, <1>9, <1>15, <2>1 DEF Freed
  <2>6. \A j \in Drafts : ui'[j].running => Holds(j)'
    BY <1>1, <1>5, <1>12, <2>2, NameFacts DEF Freed
  <2>7. \A t \in W!Sessions : listed'[t] = TRUE => t \in attached' /\ (t \in refused' \/ Turns(t)')
    <3>1. \A t \in W!Sessions : listed'[t] = TRUE => t # s /\ listed[t] = TRUE
      BY <1>5, <1>13
    <3> QED BY <1>1, <1>9, <2>1, <3>1 DEF Freed
  <2>8. \A t \in W!Sessions : About(down', "created", t) => Pending(t)'
    BY <1>1, <1>4, <2>1 DEF Freed
  <2> QED BY <2>4, <2>5, <2>6, <2>7, <2>8 DEF Freed
<1> QED BY <1>17, <1>18, <1>19, <1>20, <1>21, <1>22, <1>23 DEF KeptInv

(* The page is told of a turn of session s.                                 *)
LEMMA OnSessionEventKept ==
    ASSUME OnceInv, KeptInv, down # << >>, down' = Tail(down), NEW m, m = Head(down),
           UNCHANGED <<req, running, grants, runs, refused>>,
           m.type \notin {"created", "attached", "error"}, W!OnSessionEvent(m)
    PROVE  KeptInv'
<1>1. PageTypes /\ Linked /\ Listed /\ InOrder /\ Held /\ InFlight /\ Freed /\ AllFound
  BY DEF OnceInv, KeptInv
<1> PICK s : s = m.session
  OBVIOUS
<1> PICK y : y = m.type
  OBVIOUS
<1>2. /\ m \in News
      /\ \A z, t : About(down, z, t) <=> About(down', z, t) \/ (m.type = z /\ m.session = t)
      /\ \A T, q : Carries(down, T, q) <=> Carries(down', T, q) \/ (m.type \in T /\ m.request = q)
      /\ \A q : Replied(down, q) <=> Replied(down', q) \/ (Replies(m) /\ m.request = q)
      /\ OneReply(down')
      /\ ~ Opens(m) /\ m.session \in W!Sessions => m.session \in attached
      /\ ~ Opens(m) => Ordered(down', attached)
      /\ Followed(down', Turning) /\ OfSessions(down')
      /\ m.type = "running" => m.session \in Turning \/ About(down', "end", m.session)
  BY DownGave
<1>3. y \in {"running", "end", "interrupted"} /\ ~ Opens(m) /\ ~ Replies(m)
  BY <1>2 DEF News, Opens, Replies
<1>4. /\ \A z, t : About(down, z, t) <=> About(down', z, t) \/ (z = y /\ t = s)
      /\ \A q : Carries(down, {"error"}, q) <=> Carries(down', {"error"}, q)
      /\ \A q : Replied(down', q) <=> Replied(down, q)
  BY <1>2, <1>3
<1>5. s \in W!Sessions /\ s \in W!Keys /\ s \notin Drafts /\ s \in attached
  <2>1. s \in W!Sessions
    BY <1>1, <1>3, <1>4 DEF InOrder, OfSessions
  <2> QED BY <1>2, <1>3, <2>1, NameFacts
<1>6. listed[s] # None /\ listed \in [W!Sessions -> BOOLEAN \cup {None}]
  BY <1>1, <1>5 DEF Listed, PageTypes
<1>7. /\ active' = active /\ attached' = attached /\ up' = up /\ socket' = socket /\ told' = told
      /\ actions' = IF y = "end" THEN actions \ {<<"submit", s>>, <<"interrupt", s>>} ELSE actions
      /\ listed' = IF y = "interrupted" THEN listed ELSE [listed EXCEPT ![s] = (y # "end")]
      /\ ui' = [ui EXCEPT ![s].running = (y # "end"), ![s].note = ui[s].note /\ y = "interrupted"]
  BY <1>6 DEF W!OnSessionEvent
<1>8. \A j \in W!Keys : /\ ui'[j].initial = ui[j].initial /\ ui'[j].attach = ui[j].attach
                        /\ ui'[j].note => ui[j].note /\ (j = s => y # "end")
                        /\ j # s => ui'[j] = ui[j]
  <2>1. ui \in [W!Keys -> Composers]
    BY <1>1 DEF PageTypes
  <2>2. PICK b, c : b = (y # "end") /\ c = (ui[s].note /\ y = "interrupted")
    OBVIOUS
  <2>3. ui' = [ui EXCEPT ![s].running = b, ![s].note = c]
    BY <1>7, <2>2
  <2>4. \A j \in W!Keys : /\ ui'[j].initial = ui[j].initial /\ ui'[j].attach = ui[j].attach
                          /\ j # s => ui'[j] = ui[j]
                          /\ j = s => ui'[j].note = c
    BY ONLY <1>5, <2>1, <2>3 DEF Composers
  <2> QED BY <2>2, <2>4
<1>9. /\ \A t \in W!Sessions : t # s => listed'[t] = listed[t]
      /\ listed'[s] \in BOOLEAN
      /\ listed'[s] = TRUE => y # "end" /\ (y = "running" \/ listed[s] = TRUE)
  <2>1. CASE y = "interrupted"
    BY <1>5, <1>6, <1>7, <2>1
  <2>2. CASE y # "interrupted"
    BY <1>3, <1>5, <1>6, <1>7, <2>2
  <2> QED BY <2>1, <2>2
<1>10. listed'[s] # None
  BY <1>9, PartsAssumption DEF W!NamesAssumption
<1>11. /\ actions' \subseteq actions
       /\ \A a : a # <<"submit", s>> /\ a # <<"interrupt", s>> /\ a \in actions => a \in actions'
       /\ y = "end" => <<"submit", s>> \notin actions' /\ <<"interrupt", s>> \notin actions'
  BY <1>7
<1>12. \A j : Asked(j)' <=> Asked(j)
  BY DEF Asked, Asking
<1>13. Linked'
  BY <1>1, <1>7, <1>11 DEF Linked
<1>14. Listed'
  <2>1. \A t \in W!Sessions : listed[t] # None => listed'[t] # None
    BY <1>9, <1>10
  <2>2. \A t \in W!Sessions : listed'[t] # None => listed[t] # None
    BY <1>6, <1>9
  <2>3. \A t \in W!Sessions : ui'[t].running => listed[t] # None
    BY <1>1, <1>6, <1>8, NameFacts DEF Listed
  <2>4. \A t \in W!Sessions : \/ t \in attached' \/ About(up', "attach", t)
                              \/ About(down', "attached", t) \/ ui'[t].running
                              => listed'[t] # None
    BY <1>1, <1>4, <1>7, <2>1, <2>3 DEF Listed
  <2>5. active' \in W!Sessions => listed'[active'] # None
    BY <1>1, <1>7, <2>1 DEF Listed
  <2>6. \A q \in W!Requests : req'[q].at # "unused" /\ req'[q].key \in W!Sessions =>
                                listed'[req'[q].key] # None
    BY <1>1, <2>1 DEF Listed
  <2>7. /\ \A t \in W!Sessions : listed'[t] # None \/ t \in grants' => t \in DOMAIN running'
        /\ \A q \in W!Requests : req'[q].at = "created" => q \in DOMAIN running'
    BY <1>1, <2>2 DEF Listed
  <2> QED BY <2>4, <2>5, <2>6, <2>7 DEF Listed
<1>15. InOrder'
  <2>1. Turning' = Turning
    BY DEF Turning
  <2>2. \A t \in W!Sessions : t \in grants' <=> Heard(t)'
    BY <1>1, <1>3, <1>4, <1>7 DEF InOrder, Heard
  <2>3. \A t : About(up', "input", t) \/ About(up', "interrupt", t) => t \in grants'
    BY <1>1, <1>7 DEF InOrder
  <2> QED BY <1>2, <1>3, <1>7, <2>1, <2>2, <2>3 DEF InOrder
<1>16. InFlight'
  <2>1. \A q : Carries(up', {"create"}, q) <=> Carries(up, {"create"}, q)
    BY <1>7
  <2> QED BY <1>2, <1>4, <1>8, <2>1, ReplyKept
<1>17. AllFound'
  <2>1. ASSUME NEW q \in W!Requests, req'[q].at = "done"
        PROVE  Found(q)'
    <3>1. Found(q)
      BY <1>1, <2>1 DEF AllFound
    <3> QED BY <1>4, <1>7, <1>8, <3>1 DEF Found
  <2> QED BY <2>1 DEF AllFound
<1>18. Held'
  <2>1. \A k \in W!Keys : ui'[k].initial # None =>
          k \in Drafts /\ <<"submit", k>> \in actions' /\ ~ Asked(k)'
    BY <1>1, <1>5, <1>8, <1>11, <1>12 DEF Held
  <2>2. ASSUME NEW k \in W!Keys, ui'[k].attach # None
        PROVE  /\ k \in W!Sessions /\ k \notin attached' /\ <<"submit", k>> \in actions' /\ ~ Asked(k)'
               /\ About(up', "attach", k) \/ About(down', "attached", k)
    <3>1. /\ k \in W!Sessions /\ k \notin attached /\ <<"submit", k>> \in actions /\ ~ Asked(k)
          /\ About(up, "attach", k) \/ About(down, "attached", k)
      BY <1>1, <1>8, <2>2 DEF Held
    <3>2. k # s
      BY <1>5, <3>1
    <3> QED BY <1>3, <1>4, <1>7, <1>11, <1>12, <3>1, <3>2
  <2>3. ASSUME NEW q \in W!Requests, Asking(q)', req'[q].key \notin attached'
        PROVE  /\ <<"submit", req'[q].key>> \in actions'
               /\ \A p \in W!Requests : Asking(p)' /\ req'[p].key = req'[q].key => p = q
    <3>1. Asking(q) /\ req[q].key \notin attached /\ req[q].key # s
      BY <1>5, <1>7, <2>3 DEF Asking
    <3> QED BY <1>1, <1>11, <3>1 DEF Held, Asking
  <2> QED BY <2>1, <2>2, <2>3 DEF Held
<1>19. Freed'
  <2>1. /\ \A j : j # s \/ y # "end" => (Turns(j) => Turns(j)')
        /\ \A j : j # s \/ y # "end" => (Pending(j) => Pending(j)')
    BY <1>3, <1>4, <1>7 DEF Turns, Pending, Turning
  <2>2. \A j \in W!Keys : (Holds(j) => Holds(j)')
    BY <1>8, <1>12 DEF Holds
  <2>3. \A j \in W!Keys : j # s \/ y # "end" => (Busy(j) => Busy(j)')
    BY <1>7, <1>12, <2>1, <2>2 DEF Busy
  <2>4. \A j \in W!Keys : <<"submit", j>> \in actions' \/ ui'[j].note => Busy(j)'
    <3>1. \A j \in W!Keys : <<"submit", j>> \in actions' \/ ui'[j].note => j # s \/ y # "end"
      BY <1>8, <1>11
    <3>2. \A j \in W!Keys : <<"submit", j>> \in actions' \/ ui'[j].note =>
                              <<"submit", j>> \in actions \/ ui[j].note
      BY <1>8, <1>11
    <3> QED BY <1>1, <2>3, <3>1, <3>2 DEF Freed
  <2>5. \A j \in W!Keys : <<"interrupt", j>> \in actions' => j \in attached' /\ Pending(j)'
    <3>1. \A j \in W!Keys : <<"interrupt", j>> \in actions' =>
                              <<"interrupt", j>> \in actions /\ (j # s \/ y # "end")
      BY <1>11
    <3> QED BY <1>1, <1>7, <2>1, <3>1 DEF Freed
  <2>6. \A j \in Drafts : ui'[j].running => Holds(j)'
    BY <1>1, <1>5, <1>8, <2>2, NameFacts DEF Freed
  <2>7. ASSUME NEW t \in W!Sessions, listed'[t] = TRUE
        PROVE  t \in attached' /\ (t \in refused' \/ Turns(t)')
    <3>1. CASE t # s
      BY <1>1, <1>7, <1>9, <2>1, <2>7, <3>1 DEF Freed
    <3>2. CASE t = s /\ y = "running"
      BY <1>2, <1>5, <1>7, <3>2 DEF Turns, Turning
    <3>3. CASE t = s /\ y # "running"
      <4>1. y # "end" /\ listed[s] = TRUE
        BY <1>9, <2>7, <3>3
      <4> QED BY <1>1, <1>5, <1>7, <2>1, <3>3, <4>1 DEF Freed
    <3> QED BY <3>1, <3>2, <3>3
  <2>8. ASSUME NEW t \in W!Sessions, About(down', "created", t)
        PROVE  Pending(t)'
    <3>1. About(down, "created", t)
      BY <1>4, <2>8
    <3>2. t # s
      BY <1>5, <3>1, AnnouncedUnmet DEF Unmet
    <3> QED BY <1>1, <2>1, <3>1, <3>2 DEF Freed
  <2> QED BY <2>4, <2>5, <2>6, <2>7, <2>8 DEF Freed
<1> QED BY <1>13, <1>14, <1>15, <1>16, <1>17, <1>18, <1>19 DEF KeptInv

(* An error ends what the screen waits for, and every action is the         *)
(* screen's as long as no step strays.                                      *)
LEMMA OnProtocolErrorKept ==
    ASSUME OnceInv, KeptInv, ~ strayed', down # << >>, down' = Tail(down), NEW m, m = Head(down),
           UNCHANGED <<req, running, grants, runs, refused>>, m.type = "error", W!OnProtocolError(m)
    PROVE  KeptInv'
<1>1. PageTypes /\ Linked /\ Listed /\ InOrder /\ Held /\ InFlight /\ Freed /\ AllFound
  BY DEF OnceInv, KeptInv
<1> PICK d : d = active
  OBVIOUS
<1> PICK r : r = m.request
  OBVIOUS
<1>2. /\ m.session = d /\ active' = d /\ actions' = {}
      /\ \A a \in actions : a[2] = d
      /\ attached' = attached /\ listed' = listed /\ up' = up
      /\ socket' = [socket EXCEPT !.state = "error"]
      /\ told' = IF r # None THEN told \cup {r} ELSE told
  BY DEF W!OnProtocolError
<1>3. /\ \A j : <<"submit", j>> \in actions => j = d
      /\ d \in W!Keys
  BY <1>1, <1>2 DEF PageTypes
<1>4. /\ m \in News
      /\ \A y, t : About(down, y, t) <=> About(down', y, t) \/ (m.type = y /\ m.session = t)
      /\ \A T, q : Carries(down, T, q) <=> Carries(down', T, q) \/ (m.type \in T /\ m.request = q)
      /\ \A q : Replied(down, q) <=> Replied(down', q) \/ (Replies(m) /\ m.request = q)
      /\ OneReply(down') /\ (Replies(m) => ~ Replied(down', m.request))
      /\ ~ Opens(m) /\ m.session \in W!Sessions => m.session \in attached
      /\ ~ Opens(m) => Ordered(down', attached)
      /\ Followed(down', Turning) /\ OfSessions(down')
  BY DownGave
<1>5. /\ ~ Opens(m) /\ (Replies(m) <=> d \in Drafts)
      /\ d \in W!Sessions => d \in attached
  BY <1>2, <1>4 DEF Opens, Replies
<1>6. /\ \A y, t : About(down, y, t) <=> About(down', y, t) \/ (y = "error" /\ t = d)
      /\ \A q : Carries(down, {"error"}, q) <=> Carries(down', {"error"}, q) \/ q = r
      /\ \A q : Replied(down, q) <=> Replied(down', q) \/ (d \in Drafts /\ q = r)
  BY <1>2, <1>4, <1>5
<1>7. /\ \A j \in W!Keys : j # d => ui'[j] = ui[j]
      /\ ui'[d].initial = None /\ ui'[d].attach = None /\ ~ ui'[d].note
      /\ ui'[d].running => ui[d].running /\ actions = {}
  <2>1. ui \in [W!Keys -> Composers]
    BY <1>1 DEF PageTypes
  <2>2. PICK v : v = [ui EXCEPT ![d].initial = None, ![d].attach = None, ![d].note = FALSE]
    OBVIOUS
  <2>3. ui' = IF actions # {} THEN [v EXCEPT ![d].running = FALSE] ELSE v
    BY <2>2 DEF W!OnProtocolError
  <2>4. /\ v \in [W!Keys -> Composers] /\ \A j \in W!Keys : j # d => v[j] = ui[j]
        /\ v[d].initial = None /\ v[d].attach = None /\ ~ v[d].note /\ v[d].running = ui[d].running
    BY ONLY <1>3, <2>1, <2>2 DEF Composers
  <2>5. CASE actions = {}
    BY <2>3, <2>4, <2>5
  <2>6. CASE actions # {}
    <3>1. ui' = [v EXCEPT ![d].running = FALSE]
      BY <2>3, <2>6
    <3>2. /\ \A j \in W!Keys : j # d => ui'[j] = v[j]
          /\ ui'[d].initial = v[d].initial /\ ui'[d].attach = v[d].attach /\ ui'[d].note = v[d].note
          /\ ~ ui'[d].running
      BY ONLY <1>3, <2>4, <3>1 DEF Composers
    <3> QED BY <2>4, <3>2
  <2> QED BY <2>5, <2>6
(* Only the screen's composer can wait for anything, and no session's does. *)
<1>8. /\ \A k \in W!Keys : ui[k].initial # None => k = d /\ d \in Drafts /\ ~ Asked(d)
      /\ \A k \in W!Keys : ui[k].attach = None
      /\ \A q \in W!Requests : Asking(q) => req[q].key \in attached
  <2>1. \A k \in W!Keys : ui[k].initial # None => k = d /\ d \in Drafts /\ ~ Asked(d)
    BY <1>1, <1>3 DEF Held
  <2>2. ASSUME NEW k \in W!Keys, ui[k].attach # None
        PROVE  FALSE
    <3>1. k = d /\ k \in W!Sessions /\ k \notin attached
      BY <1>1, <1>3, <2>2 DEF Held
    <3> QED BY <1>5, <3>1
  <2>3. ASSUME NEW q \in W!Requests, Asking(q), req[q].key \notin attached
        PROVE  FALSE
    <3>1. req[q].key = d /\ Asked(d)
      BY <1>1, <1>3, <2>3 DEF Held, Asked
    <3>2. d \in Drafts
      BY <1>3, <1>5, <2>3, <3>1, NameFacts
    <3>3. Replied(down, r)
      BY <1>6, <3>2
    <3>4. Awaiting # {}
      BY <3>3, SomeAwait
    <3> QED BY <2>1, <3>1, <3>4 DEF Awaiting
  <2> QED BY <2>1, <2>2, <2>3
<1>9. \A j : Asked(j)' <=> Asked(j)
  BY DEF Asked, Asking
<1>10. \A k \in W!Keys : ui'[k].initial = None /\ ui'[k].attach = None
  BY <1>7, <1>8
<1>11. Linked'
  <2>1. /\ socket'.open
        /\ socket' \in [state : {"idle", "negotiating", "connected", "error"}, open : BOOLEAN]
    BY <1>1, <1>2 DEF Linked
  <2> QED BY <1>1, <1>2, <2>1 DEF Linked
<1>12. Listed'
  <2>1. \A t \in W!Sessions : ui'[t].running => listed[t] # None
    BY <1>1, <1>7, NameFacts DEF Listed
  <2>2. \A t \in W!Sessions : \/ t \in attached' \/ About(up', "attach", t)
                              \/ About(down', "attached", t) \/ ui'[t].running
                              => listed'[t] # None
    BY <1>1, <1>2, <1>6, <2>1 DEF Listed
  <2> QED BY <1>1, <1>2, <2>2 DEF Listed
<1>13. InOrder'
  <2>1. Turning' = Turning
    BY DEF Turning
  <2>2. \A t \in W!Sessions : t \in grants' <=> Heard(t)'
    BY <1>1, <1>2, <1>6 DEF InOrder, Heard
  <2>3. \A t : About(up', "input", t) \/ About(up', "interrupt", t) => t \in grants'
    BY <1>1, <1>2 DEF InOrder
  <2> QED BY <1>2, <1>4, <1>5, <2>1, <2>2, <2>3 DEF InOrder
<1>14. InFlight'
  <2>1. \A q : Carries(up', {"create"}, q) <=> Carries(up, {"create"}, q)
    BY <1>2
  <2>2. CASE d \in Drafts
    <3>1. Replied(down, r) /\ ~ Replied(down', r)
      BY <1>4, <1>5, <1>6, <2>2
    <3>2. r \in W!Requests /\ Awaiting # {}
      BY <3>1, SomeAwait
    <3>3. d \in Awaiting /\ Awaiting' = Awaiting \ {d}
      BY <1>8, <1>10, <3>2 DEF Awaiting
    <3>4. \A q : Replied(down, q) <=> Replied(down', q) \/ q = r
      BY <1>6, <2>2
    <3> QED BY <1>4, <2>1, <3>1, <3>2, <3>3, <3>4, ReplyTaken
  <2>3. CASE d \notin Drafts
    <3>1. \A k \in W!Keys : ui'[k].initial = None <=> ui[k].initial = None
      BY <1>8, <1>10, <2>3
    <3>2. \A q : Replied(down', q) <=> Replied(down, q)
      BY <1>6, <2>3
    <3> QED BY <1>4, <2>1, <3>1, <3>2, ReplyKept
  <2> QED BY <2>2, <2>3
<1>15. AllFound'
  <2>1. ASSUME NEW q \in W!Requests, req'[q].at = "done"
        PROVE  Found(q)'
    <3>1. Found(q) /\ q # None
      BY <1>1, <2>1, NameFacts DEF AllFound
    <3>2. q \in told' \/ (q \notin told /\ q # r)
      BY <1>2, <3>1
    <3> QED BY <1>2, <1>6, <1>8, <3>1, <3>2 DEF Found
  <2> QED BY <2>1 DEF AllFound
<1>16. Held'
  BY <1>2, <1>8, <1>10 DEF Held, Asking
<1>17. Freed'
  <2>1. /\ \A j : Turns(j) => Turns(j)'
        /\ \A j : j # d /\ Pending(j) => Pending(j)'
    BY <1>2, <1>6 DEF Turns, Pending, Turning
  <2>2. ASSUME NEW k \in W!Keys, ui'[k].note
        PROVE  Busy(k)'
    <3>1. k # d /\ ui[k].note
      BY <1>7, <2>2
    <3>2. Busy(k)
      BY <1>1, <3>1 DEF Freed
    <3>3. CASE k \in attached
      BY <1>2, <1>9, <2>1, <3>1, <3>2, <3>3 DEF Busy
    <3>4. CASE k \notin attached
      <4>1. Holds(k) /\ ui[k].initial = None /\ ui[k].attach = None
        BY <1>8, <3>1, <3>2, <3>4 DEF Busy
      <4>2. Asked(k)
        BY <4>1 DEF Holds
      <4> QED BY <1>8, <3>4, <4>2 DEF Asked
    <3> QED BY <3>3, <3>4
  <2>3. ASSUME NEW k \in Drafts, ui'[k].running
        PROVE  FALSE
    <3>1. k \in W!Keys /\ k \notin attached /\ ui[k].running
      BY <1>1, <1>7, <2>3, NameFacts DEF PageTypes
    <3>2. Holds(k) /\ ~ Asked(k) /\ ui[k].attach = None
      BY <1>1, <1>8, <2>3, <3>1 DEF Freed, Asked
    <3>3. k = d /\ ui[k].initial # None
      BY <1>8, <3>1, <3>2 DEF Holds
    <3>4. actions # {}
      BY <1>1, <3>1, <3>3 DEF Held
    <3> QED BY <1>7, <2>3, <3>3, <3>4
  <2>4. \A t \in W!Sessions : listed'[t] = TRUE => t \in attached' /\ (t \in refused' \/ Turns(t)')
    BY <1>1, <1>2, <2>1 DEF Freed
  <2>5. ASSUME NEW t \in W!Sessions, About(down', "created", t)
        PROVE  Pending(t)'
    <3>1. About(down, "created", t)
      BY <1>6, <2>5
    <3>2. t # d
      BY <1>5, <2>5, <3>1, AnnouncedUnmet DEF Unmet
    <3> QED BY <1>1, <2>1, <3>1, <3>2 DEF Freed
  <2> QED BY <1>2, <2>2, <2>3, <2>4, <2>5 DEF Freed
<1> QED BY <1>11, <1>12, <1>13, <1>14, <1>15, <1>16, <1>17 DEF KeptInv

LEMMA StaysStrayed ==
    ASSUME [W!Next]_(W!vars), ~ strayed'
    PROVE  ~ strayed
<1>1. CASE \E k \in W!Keys : W!Navigate(k)
  BY <1>1 DEF W!Navigate
<1>2. CASE W!Stop
  BY <1>2 DEF W!Stop
<1>3. ASSUME NEW r \in W!Requests,
             W!Submit(r) \/ W!EncodeFailed(r) \/ W!Encoded(r) \/ W!RestCreate(r)
               \/ W!RestFailed(r) \/ W!RestDone(r)
      PROVE  ~ strayed
  <2>1. CASE W!Submit(r) \/ W!RestCreate(r)
    BY <2>1 DEF W!Submit, W!RestCreate
  <2>2. CASE W!EncodeFailed(r) \/ W!RestFailed(r)
    BY <2>2 DEF W!EncodeFailed, W!RestFailed, W!Fails
  <2>3. CASE W!Encoded(r)
    BY <2>3 DEF W!Encoded, W!SendMessage
  <2>4. CASE W!RestDone(r)
    BY <2>4 DEF W!RestDone, W!SendMessage
  <2> QED BY <1>3, <2>1, <2>2, <2>3, <2>4
<1>4. CASE W!Serve \/ W!OnReady
  BY <1>4 DEF W!Serve, W!OnReady
<1>5. CASE \E s \in DOMAIN running : W!EndTurn(s) \/ W!OtherTurn(s)
  BY <1>5 DEF W!EndTurn, W!OtherTurn
<1>6. CASE W!Receive
  <2>1. PICK m : W!OnCreated(m) \/ W!OnAttached(m) \/ W!OnProtocolError(m) \/ W!OnSessionEvent(m)
    BY <1>6 DEF W!Receive
  <2> QED BY <2>1 DEF W!OnCreated, W!OnAttached, W!OnProtocolError, W!OnSessionEvent
<1>7. CASE \E failed \in BOOLEAN : W!Close(failed)
  BY <1>7 DEF W!Close
<1>8. CASE UNCHANGED W!vars
  BY <1>8 DEF W!vars, W!ghost
<1> QED BY <1>1, <1>2, <1>3, <1>4, <1>5, <1>6, <1>7, <1>8 DEF W!Next

LEMMA KeptInductive ==
    ASSUME OnceInv, OnceInv', KeptInv, [W!Next]_(W!vars), ~ strayed'
    PROVE  KeptInv'
<1>1. CASE \E k \in W!Keys : W!Navigate(k)
  BY <1>1, NavigateKept
<1>2. CASE W!Stop
  BY <1>2, StopKept
<1>3. ASSUME NEW r \in W!Requests,
             W!Submit(r) \/ W!EncodeFailed(r) \/ W!Encoded(r) \/ W!RestCreate(r)
               \/ W!RestFailed(r) \/ W!RestDone(r)
      PROVE  KeptInv'
  BY <1>3, SubmitKept, FailedKept, EncodedKept, RestCreateKept, RestDoneKept
<1>4. CASE W!Serve
  <2>1. PICK i \in DOMAIN up :
          W!ServeCreate(i) \/ W!ServeAttach(i) \/ W!ServeInput(i) \/ W!ServeInterrupt(i)
    BY <1>4 DEF W!Serve
  <2>2. UNCHANGED <<W!page, socket, req, told>>
    BY <1>4 DEF W!Serve
  <2>3. CASE W!ServeCreate(i)
    <3>1. up[i].type = "create"
      BY <2>3 DEF W!ServeCreate
    <3>2. CASE /\ W!Down(W!Message("error", req[up[i].request].key, up[i].request))
               /\ up' = W!RemoveAt(up, i) /\ UNCHANGED <<W!server, refused>>
      BY <2>2, <3>1, <3>2, CreateRefusedKept DEF W!server
    <3>3. CASE /\ W!NewSession(up[i].request) /\ grants' = grants \cup {up[i].request}
               /\ W!Down(W!Message("created", up[i].request, up[i].request))
               /\ up' = Append(W!RemoveAt(up, i),
                               W!Message("input", up[i].request, up[i].request))
               /\ UNCHANGED <<runs, refused>>
      BY <2>2, <3>1, <3>3, CreatedKept
    <3> QED BY <2>3, <3>2, <3>3 DEF W!ServeCreate
  <2>4. CASE W!ServeAttach(i)
    BY <2>2, <2>4, AttachKept
  <2>5. CASE W!ServeInput(i)
    BY <2>2, <2>5, ServedInputKept
  <2>6. CASE W!ServeInterrupt(i)
    BY <2>2, <2>6, InterruptKept
  <2> QED BY <2>1, <2>3, <2>4, <2>5, <2>6
<1>5. CASE \E s \in DOMAIN running : W!EndTurn(s) \/ W!OtherTurn(s)
  BY <1>5, TurnKept
<1>6. CASE W!OnReady
  BY <1>6, OnReadyKept
<1>7. CASE W!Receive
  <2> PICK m : m = Head(down)
    OBVIOUS
  <2>1. down # << >> /\ down' = Tail(down) /\ UNCHANGED <<req, running, grants, runs, refused>>
    BY <1>7 DEF W!Receive, W!server
  <2>2. \/ m.type = "created" /\ W!OnCreated(m)
        \/ m.type = "attached" /\ W!OnAttached(m)
        \/ m.type = "error" /\ W!OnProtocolError(m)
        \/ m.type \notin {"created", "attached", "error"} /\ W!OnSessionEvent(m)
    BY <1>7 DEF W!Receive
  <2>3. CASE m.type = "created" /\ W!OnCreated(m)
    BY <2>1, <2>3, OnCreatedKept
  <2>4. CASE m.type = "attached" /\ W!OnAttached(m)
    BY <2>1, <2>4, OnAttachedKept
  <2>5. CASE m.type = "error" /\ W!OnProtocolError(m)
    BY <2>1, <2>5, OnProtocolErrorKept
  <2>6. CASE m.type \notin {"created", "attached", "error"} /\ W!OnSessionEvent(m)
    BY <2>1, <2>6, OnSessionEventKept
  <2> QED BY <2>2, <2>3, <2>4, <2>5, <2>6
<1>8. CASE \E failed \in BOOLEAN : W!Close(failed)
  BY <1>8 DEF W!Close
<1>9. CASE UNCHANGED W!vars
  <2>1. /\ UNCHANGED <<W!page, socket, req, up, down, grants, runs, refused, told>>
        /\ running' = running /\ Still /\ active' = active /\ ui' = ui /\ actions' = actions
        /\ attached' = attached /\ listed' = listed
    BY <1>9 DEF W!vars, W!page, W!server, W!ghost, Still
  <2>2. Linked /\ Listed /\ InOrder /\ active \in W!Keys
    BY DEF KeptInv, OnceInv, PageTypes
  <2>3. /\ socket'.open
        /\ active' \in W!Sessions => listed[active'] # None
        /\ socket' \in [state : {"idle", "negotiating", "connected", "error"}, open : BOOLEAN]
        /\ \A s : About(up', "input", s) \/ About(up', "interrupt", s) => s \in grants
    BY <2>1, <2>2 DEF Linked, Listed, InOrder
  <2> QED BY <2>1, <2>2, <2>3, QuietKept
<1> QED BY <1>1, <1>2, <1>3, <1>4, <1>5, <1>6, <1>7, <1>8, <1>9 DEF W!Next

LEMMA KeptInit ==
    ASSUME W!Init
    PROVE  KeptInv
<1>1. up = << >> /\ down = << >> /\ attached = {} /\ grants = {} /\ actions = {}
      /\ active \in Drafts \cup {0} /\ socket = [state |-> "negotiating", open |-> TRUE]
      /\ running = [s \in {0} |-> FALSE]
  BY DEF W!Init
<1>2. PageTypes
  BY OnceInit DEF OnceInv
<1>3. DOMAIN down = {} /\ DOMAIN up = {}
  BY <1>1
<1>4. /\ \A T, r : ~ Carries(up, T, r) /\ ~ Carries(down, T, r)
      /\ \A y, k : ~ About(up, y, k) /\ ~ About(down, y, k)
      /\ \A r : ~ Replied(down, r)
  BY <1>3 DEF Carries, About, Replied
<1>5. PICK b : b = W!Blank
  OBVIOUS
<1>6. b.attach = None /\ b.initial = None /\ ~ b.note /\ ~ b.running
  BY <1>5 DEF W!Blank
<1>7. ui = [k \in W!Keys |-> b]
  BY <1>5 DEF W!Init
<1>8. \A k \in W!Keys : ui[k].attach = None /\ ui[k].initial = None /\ ~ ui[k].note /\ ~ ui[k].running
  BY <1>6, <1>7
<1>9. PICK x : x = [at |-> "unused", key |-> None, live |-> FALSE]
  OBVIOUS
<1>10. x.at = "unused"
  BY <1>9
<1>11. req = [r \in W!Requests |-> x]
  BY <1>9 DEF W!Init
<1>12. /\ \A r \in W!Requests : req[r].at = "unused" /\ ~ Asking(r)
       /\ \A k : ~ Asked(k)
  BY <1>10, <1>11 DEF Asking, Asked
<1>13. listed = [s \in W!Sessions |-> IF s = 0 THEN FALSE ELSE None]
  BY DEF W!Init
<1>14. FALSE # None /\ TRUE # None
  BY PartsAssumption DEF W!NamesAssumption
<1>15. /\ \A s \in W!Sessions : listed[s] # None => s = 0
       /\ \A s \in W!Sessions : listed[s] = FALSE \/ listed[s] = None
       /\ listed[0] = FALSE
  BY <1>13, NameFacts
<1>16. /\ running \in [DOMAIN running -> BOOLEAN] /\ 0 \in DOMAIN running /\ Turning = {}
  BY <1>1 DEF Turning
<1>17. Linked
  BY <1>1, <1>16 DEF Linked
<1>18. Listed
  <2>1. active \in W!Sessions => listed[active] # None
    BY <1>1, <1>14, <1>15, NameFacts
  <2> QED BY <1>1, <1>4, <1>8, <1>12, <1>15, <1>16, <2>1, NameFacts DEF Listed
<1>19. InOrder
  BY <1>1, <1>3, <1>4 DEF InOrder, Heard, Ordered, Followed, OfSessions
<1>20. Held
  BY <1>8, <1>12 DEF Held
<1>21. InFlight
  <2>1. Flying = {} /\ Awaiting = {}
    BY <1>4, <1>8 DEF Flying, Awaiting
  <2>2. IsFiniteSet({})
    BY FS_EmptySet
  <2> QED BY <1>3, <1>4, <2>1, <2>2 DEF InFlight, OneReply
<1>22. AllFound
  BY <1>12 DEF AllFound
<1>23. Freed
  <2>1. \A s \in W!Sessions : listed[s] # TRUE
    BY <1>14, <1>15
  <2> QED BY <1>1, <1>4, <1>8, <2>1, NameFacts DEF Freed
<1> QED BY <1>17, <1>18, <1>19, <1>20, <1>21, <1>22, <1>23 DEF KeptInv

(* A request is answered by one turn at most; while the page has missed     *)
(* nothing and no step met another screen than its own, each has had its    *)
(* turn or its failure was shown where it was made when all is quiet, and   *)
(* every composer can send again.                                           *)
THEOREM RequestsAreKept == W!Spec => []RequestsKept
<1> DEFINE IInv == OnceInv /\ (~ strayed => KeptInv)
<1>1. W!Init => IInv
  BY OnceInit, KeptInit
<1>2. IInv /\ [W!Next]_(W!vars) => IInv'
  <2> SUFFICES ASSUME IInv, [W!Next]_(W!vars)
               PROVE  IInv'
    OBVIOUS
  <2>1. OnceInv'
    BY OnceInductive
  <2>2. ~ strayed' => KeptInv'
    BY <2>1, StaysStrayed, KeptInductive
  <2> QED BY <2>1, <2>2
<1>3. IInv => RequestsKept
  <2>1. OnceInv => W!RunsOnce
    BY DEF OnceInv, Account, W!RunsOnce
  <2> QED BY <2>1, KeptIsQuiet DEF RequestsKept
<1> HIDE DEF IInv
<1> QED BY <1>1, <1>2, <1>3, PTL DEF W!Spec
=============================================================================
