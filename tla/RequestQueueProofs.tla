------------------------- MODULE RequestQueueProofs -------------------------
(***************************************************************************)
(* What the operators of RequestQueue preserve: the type of a queue, the   *)
(* absence of repeated items, and which items they can bring into view.    *)
(***************************************************************************)
EXTENDS RequestQueue, FiniteSetTheorems, SequenceTheorems, TLAPS

(* The items before and from a position on are items of the sequence.       *)
LEMMA Slices ==
    ASSUME NEW T, NEW s \in Seq(T), NEW k \in 1..(Len(s) + 1)
    PROVE  /\ SubSeq(s, 1, k - 1) \in Seq(T)
           /\ Len(SubSeq(s, 1, k - 1)) = k - 1
           /\ \A j \in 1..(k - 1) : SubSeq(s, 1, k - 1)[j] = s[j]
           /\ SubSeq(s, k, Len(s)) \in Seq(T)
           /\ Len(SubSeq(s, k, Len(s))) = Len(s) - k + 1
           /\ \A j \in 1..(Len(s) - k + 1) : SubSeq(s, k, Len(s))[j] = s[j + k - 1]
OBVIOUS

(* The number of blank items dropped is no more than there are.             *)
LEMMA BlankHeadSize ==
    ASSUME NEW Ids, NEW q \in QueueOf(Ids)
    PROVE  Cardinality(BlankHead(q)) \in 0..Len(q.items)
<1>1. BlankHead(q) \subseteq 1..Len(q.items)
  BY DEF BlankHead, QueueOf
<1>2. Len(q.items) \in Nat
  BY DEF QueueOf
<1>3. IsFiniteSet(1..Len(q.items)) /\ Cardinality(1..Len(q.items)) = Len(q.items)
  BY <1>2, FS_Interval
<1>4. Cardinality(BlankHead(q)) <= Len(q.items) /\ IsFiniteSet(BlankHead(q))
  BY <1>1, <1>3, FS_Subset
<1>5. Cardinality(BlankHead(q)) \in Nat
  BY <1>4, FS_CardinalityType
<1> QED BY <1>2, <1>4, <1>5

(* A sequence, an item and a sequence.                                      *)
LEMMA Glue ==
    ASSUME NEW T, NEW a \in Seq(T), NEW e \in T, NEW b \in Seq(T),
           NEW t, t = a \o <<e>> \o b
    PROVE  /\ t \in Seq(T)
           /\ Len(t) = Len(a) + 1 + Len(b)
           /\ \A j \in 1..Len(a) : t[j] = a[j]
           /\ t[Len(a) + 1] = e
           /\ \A j \in 1..Len(b) : t[j + Len(a) + 1] = b[j]
<1>1. PICK f : f = a \o <<e>>
  OBVIOUS
<1>2. <<e>> \in Seq(T) /\ Len(<<e>>) = 1 /\ <<e>>[1] = e
  OBVIOUS
<1>3. Len(a) \in Nat /\ Len(b) \in Nat
  OBVIOUS
<1>4. f \in Seq(T) /\ Len(f) = Len(a) + 1
  BY <1>1, <1>2, ConcatProperties
<1>5. \A j \in 1..(Len(a) + 1) : f[j] = IF j <= Len(a) THEN a[j] ELSE <<e>>[j - Len(a)]
  BY <1>1, <1>2, ConcatProperties
<1>6. t = f \o b
  BY <1>1, Zenon
<1>8. t \in Seq(T) /\ Len(t) = Len(f) + Len(b)
  BY <1>4, <1>6, ConcatProperties
<1>9. \A j \in 1..(Len(f) + Len(b)) : t[j] = IF j <= Len(f) THEN f[j] ELSE b[j - Len(f)]
  BY <1>4, <1>6, ConcatProperties
<1>10. ASSUME NEW j \in 1..Len(b) PROVE t[j + Len(a) + 1] = b[j]
  <2>1. /\ j + Len(a) + 1 \in 1..(Len(f) + Len(b))
        /\ ~ j + Len(a) + 1 <= Len(f)
        /\ (j + Len(a) + 1) - Len(f) = j
    BY <1>3, <1>4
  <2> QED BY <1>9, <2>1
<1>11. ASSUME NEW j \in 1..(Len(a) + 1) PROVE t[j] = f[j]
  <2>1. j \in 1..(Len(f) + Len(b)) /\ j <= Len(f)
    BY <1>3, <1>4
  <2> QED BY <1>9, <2>1
<1>12. ASSUME NEW j \in 1..Len(a) PROVE t[j] = a[j]
  <2>1. j \in 1..(Len(a) + 1) /\ j <= Len(a)
    BY <1>3
  <2> QED BY <1>5, <1>11, <2>1
<1>13. t[Len(a) + 1] = e
  <2>1. /\ Len(a) + 1 \in 1..(Len(a) + 1) /\ ~ Len(a) + 1 <= Len(a)
        /\ (Len(a) + 1) - Len(a) = 1
    BY <1>3
  <2> QED BY <1>2, <1>5, <1>11, <2>1
<1>14. Len(t) = Len(a) + 1 + Len(b)
  BY <1>3, <1>4, <1>8
<1> QED BY <1>8, <1>10, <1>12, <1>13, <1>14

(* An item put between two slices.                                          *)
Spliced(s, e, k) == SubSeq(s, 1, k - 1) \o <<e>> \o SubSeq(s, k, Len(s))

(* insert() at a position: the item stands there, the items before keep     *)
(* their place and those from there on move up by one.                      *)
LEMMA Splice ==
    ASSUME NEW T, NEW s \in Seq(T), NEW e \in T, NEW k \in 1..(Len(s) + 1)
    PROVE  /\ Spliced(s, e, k) \in Seq(T)
           /\ Len(Spliced(s, e, k)) = Len(s) + 1
           /\ \A j \in 1..(k - 1) : Spliced(s, e, k)[j] = s[j]
           /\ Spliced(s, e, k)[k] = e
           /\ \A j \in (k + 1)..(Len(s) + 1) : Spliced(s, e, k)[j] = s[j - 1]
<1>1. PICK a, b : a = SubSeq(s, 1, k - 1) /\ b = SubSeq(s, k, Len(s))
  OBVIOUS
<1> PICK t : t = Spliced(s, e, k)
  OBVIOUS
<1>2. t = a \o <<e>> \o b
  BY <1>1, t = Spliced(s, e, k), Zenon DEF Spliced
<1>3. Len(s) \in Nat /\ k \in Nat /\ 1 <= k /\ k <= Len(s) + 1
  OBVIOUS
<1>4. a \in Seq(T) /\ b \in Seq(T)
  BY <1>1, Slices
<1>5. Len(a) = k - 1 /\ Len(b) = Len(s) - k + 1
  BY <1>1, Slices
<1>6. /\ \A j \in 1..(k - 1) : a[j] = s[j]
      /\ \A j \in 1..(Len(s) - k + 1) : b[j] = s[j + k - 1]
  BY <1>1, Slices
<1>12. t \in Seq(T) /\ Len(t) = Len(a) + 1 + Len(b)
  BY ONLY <1>2, <1>4, e \in T, Glue, SMT
<1>13. /\ \A j \in 1..Len(a) : t[j] = a[j]
       /\ t[Len(a) + 1] = e
       /\ \A j \in 1..Len(b) : t[j + Len(a) + 1] = b[j]
  BY ONLY <1>2, <1>4, e \in T, Glue, SMT
<1>14. Len(t) = Len(s) + 1 /\ Len(a) + 1 = k
  BY ONLY <1>3, <1>5, <1>12
<1>15. ASSUME NEW j \in (k + 1)..(Len(s) + 1) PROVE t[j] = s[j - 1]
  <2>1. /\ j - k \in 1..Len(b) /\ j - k \in 1..(Len(s) - k + 1)
        /\ (j - k) + Len(a) + 1 = j /\ (j - k) + k - 1 = j - 1
    BY <1>3, <1>5
  <2>2. t[(j - k) + Len(a) + 1] = b[j - k] /\ b[j - k] = s[(j - k) + k - 1]
    BY <1>6, <1>13, <2>1, Zenon
  <2> QED BY <2>1, <2>2
<1>16. t[k] = e
  BY <1>13, <1>14
<1>17. \A j \in 1..(k - 1) : t[j] = s[j]
  BY <1>5, <1>6, <1>13
<1> QED BY <1>12, <1>14, <1>15, <1>16, <1>17

(* The last part of Splice, for one place.                                  *)
LEMMA SplicedAfter ==
    ASSUME NEW T, NEW s \in Seq(T), NEW e \in T, NEW k \in 1..(Len(s) + 1),
           NEW j \in (k + 1)..(Len(s) + 1)
    PROVE  Spliced(s, e, k)[j] = s[j - 1]
BY Splice

(* An item taken out.                                                       *)
Without(s, k) == SubSeq(s, 1, k - 1) \o SubSeq(s, k + 1, Len(s))

(* delete(): the items before keep their place, those after move down.      *)
LEMMA Cut ==
    ASSUME NEW T, NEW s \in Seq(T), NEW k \in 1..Len(s)
    PROVE  /\ Without(s, k) \in Seq(T)
           /\ Len(Without(s, k)) = Len(s) - 1
           /\ \A j \in 1..(k - 1) : Without(s, k)[j] = s[j]
           /\ \A j \in k..(Len(s) - 1) : Without(s, k)[j] = s[j + 1]
<1>1. PICK a, b : a = SubSeq(s, 1, k - 1) /\ b = SubSeq(s, k + 1, Len(s))
  OBVIOUS
<1> PICK t : t = Without(s, k)
  OBVIOUS
<1>2. t = a \o b
  BY <1>1, t = Without(s, k), Zenon DEF Without
<1>3. Len(s) \in Nat /\ k \in Nat /\ 1 <= k /\ k <= Len(s)
  OBVIOUS
<1>4. k \in 1..(Len(s) + 1) /\ k + 1 \in 1..(Len(s) + 1)
  BY <1>3
<1>5. a \in Seq(T) /\ Len(a) = k - 1
  BY <1>1, <1>4, Slices
<1>6. b \in Seq(T) /\ Len(b) = Len(s) - (k + 1) + 1
  BY <1>1, <1>4, Slices
<1>7. \A j \in 1..(k - 1) : a[j] = s[j]
  BY <1>1, <1>4, Slices
<1>8. \A j \in 1..(Len(s) - (k + 1) + 1) : b[j] = s[j + (k + 1) - 1]
  BY <1>1, <1>4, Slices
<1>9. t \in Seq(T) /\ Len(t) = Len(a) + Len(b)
  BY <1>2, <1>5, <1>6, ConcatProperties
<1>10. \A j \in 1..(Len(a) + Len(b)) : t[j] = IF j <= Len(a) THEN a[j] ELSE b[j - Len(a)]
  BY <1>2, <1>5, <1>6, ConcatProperties
<1>11. ASSUME NEW j \in k..(Len(s) - 1) PROVE t[j] = s[j + 1]
  <2>1. /\ j \in 1..(Len(a) + Len(b)) /\ ~ j <= Len(a)
        /\ j - Len(a) \in 1..(Len(s) - (k + 1) + 1)
        /\ (j - Len(a)) + (k + 1) - 1 = j + 1
    BY <1>3, <1>5, <1>6
  <2>2. t[j] = b[j - Len(a)]
    BY <1>10, <2>1
  <2>3. b[j - Len(a)] = s[(j - Len(a)) + (k + 1) - 1]
    BY <1>8, <2>1
  <2> QED BY <2>1, <2>2, <2>3
<1>12. ASSUME NEW j \in 1..(k - 1) PROVE t[j] = s[j]
  <2>1. j \in 1..(Len(a) + Len(b)) /\ j <= Len(a)
    BY <1>3, <1>5, <1>6
  <2> QED BY <1>7, <1>10, <2>1
<1>13. Len(t) = Len(s) - 1
  BY <1>3, <1>5, <1>6, <1>9
<1> QED BY t = Without(s, k), <1>9, <1>11, <1>12, <1>13

(* Where an item of the shorter sequence stood.                             *)
LEMMA CutFrom ==
    ASSUME NEW T, NEW s \in Seq(T), NEW k \in 1..Len(s), NEW j \in 1..(Len(s) - 1)
    PROVE  \/ j < k /\ j \in 1..Len(s) /\ Without(s, k)[j] = s[j]
           \/ j >= k /\ j + 1 \in 1..Len(s) /\ Without(s, k)[j] = s[j + 1]
<1>1. Len(s) \in Nat /\ k \in Nat /\ j \in Nat /\ 1 <= j /\ j <= Len(s) - 1
  OBVIOUS
<1>2. CASE j < k
  <2>1. j \in 1..(k - 1) /\ j \in 1..Len(s)
    BY ONLY <1>1, <1>2
  <2> QED BY <1>2, <2>1, Cut
<1>3. CASE j >= k
  <2>1. j \in k..(Len(s) - 1) /\ j + 1 \in 1..Len(s)
    BY ONLY <1>1, <1>3
  <2> QED BY <1>3, <2>1, Cut
<1> QED BY ONLY <1>1, <1>2, <1>3

(* A queue is its three fields.                                             *)
LEMMA Fields ==
    ASSUME NEW Ids, NEW q \in QueueOf(Ids)
    PROVE  q.items \in Seq(Ids) /\ q.claimed \subseteq Ids /\ q.blank \subseteq Ids
BY DEF QueueOf

(* An assignment to the items leaves the other two fields.                  *)
LEMMA WithItems ==
    ASSUME NEW Ids, NEW q \in QueueOf(Ids), NEW t
    PROVE  [q EXCEPT !.items = t] = [items |-> t, claimed |-> q.claimed, blank |-> q.blank]
BY DEF QueueOf

(* An assignment to the claims leaves the other two fields.                 *)
LEMMA WithClaimed ==
    ASSUME NEW Ids, NEW q \in QueueOf(Ids), NEW c
    PROVE  [q EXCEPT !.claimed = c] = [items |-> q.items, claimed |-> c, blank |-> q.blank]
BY DEF QueueOf

(* An assignment to the blank items leaves the other two fields.            *)
LEMMA WithBlank ==
    ASSUME NEW Ids, NEW q \in QueueOf(Ids), NEW b
    PROVE  [q EXCEPT !.blank = b] = [items |-> q.items, claimed |-> q.claimed, blank |-> b]
BY DEF QueueOf

-----------------------------------------------------------------------------
(* Inserting an item that is not queued, at any position.                   *)
LEMMA InsertAtFacts ==
    ASSUME NEW Ids, NEW q \in QueueOf(Ids), Distinct(q),
           NEW id \in Ids, ~ Queued(q, id), NEW k \in 1..(Len(q.items) + 1)
    PROVE  /\ InsertAt(q, id, k) \in QueueOf(Ids)
           /\ Distinct(InsertAt(q, id, k))
           /\ \A x : Queued(InsertAt(q, id, k), x) => Queued(q, x) \/ x = id
           /\ InsertAt(q, id, k).claimed = q.claimed
           /\ InsertAt(q, id, k).blank = q.blank
<1>1. PICK s : s = q.items
  OBVIOUS
<1>2. PICK t : t = Spliced(s, id, k)
  OBVIOUS
<1>3. InsertAt(q, id, k) = [items |-> t, claimed |-> q.claimed, blank |-> q.blank]
  BY <1>1, <1>2, WithItems, Zenon DEF InsertAt, Spliced
<1>4. s \in Seq(Ids) /\ q.claimed \subseteq Ids /\ q.blank \subseteq Ids
  BY <1>1, Fields
<1>5. k \in 1..(Len(s) + 1)
  BY <1>1
<1>6. t \in Seq(Ids) /\ Len(t) = Len(s) + 1
  BY ONLY <1>2, <1>4, <1>5, id \in Ids, Splice
<1>7. /\ \A j \in 1..(k - 1) : t[j] = s[j]
      /\ t[k] = id
      /\ \A j \in (k + 1)..(Len(s) + 1) : t[j] = s[j - 1]
  <2>1. \A j \in 1..(k - 1) : t[j] = s[j]
    BY ONLY <1>2, <1>4, <1>5, id \in Ids, Splice
  <2>2. t[k] = id
    BY ONLY <1>2, <1>4, <1>5, id \in Ids, Splice
  <2>3. \A j \in (k + 1)..(Len(s) + 1) : Spliced(s, id, k)[j] = s[j - 1]
    BY ONLY <1>4, <1>5, id \in Ids, SplicedAfter
  <2>4. \A j \in (k + 1)..(Len(s) + 1) : t[j] = s[j - 1]
    BY ONLY <1>2, <2>3, Zenon
  <2> QED BY <2>1, <2>2, <2>4
<1>8. \A j \in 1..Len(s) : s[j] # id
  BY <1>1, <1>4 DEF Queued
<1>9. \A i, j \in 1..Len(s) : s[i] = s[j] => i = j
  BY <1>1, <1>4 DEF Distinct
<1>10. Len(s) \in Nat /\ k \in Nat /\ 1 <= k /\ k <= Len(s) + 1
  BY <1>4, <1>5
<1>11. ASSUME NEW i \in 1..(Len(s) + 1)
       PROVE  \/ i = k /\ t[i] = id
              \/ i \in 1..(k - 1) /\ i \in 1..Len(s) /\ t[i] = s[i]
              \/ i \in (k + 1)..(Len(s) + 1) /\ i - 1 \in 1..Len(s) /\ t[i] = s[i - 1]
  <2>1. CASE i = k
    BY <1>7, <2>1
  <2>2. CASE i < k
    BY ONLY <1>7, <1>10, <2>2, i \in 1..(Len(s) + 1)
  <2>3. CASE i > k
    BY ONLY <1>7, <1>10, <2>3, i \in 1..(Len(s) + 1)
  <2> QED BY ONLY <1>10, <2>1, <2>2, <2>3, i \in 1..(Len(s) + 1)
<1>12. ASSUME NEW i \in 1..(Len(s) + 1), NEW j \in 1..(Len(s) + 1), t[i] = t[j]
       PROVE  i = j
  <2>1. CASE i = k \/ j = k
    BY ONLY <1>8, <1>10, <1>11, <1>12, <2>1, i \in 1..(Len(s) + 1), j \in 1..(Len(s) + 1)
  <2>2. CASE i # k /\ j # k
    BY ONLY <1>9, <1>10, <1>11, <1>12, <2>2, i \in 1..(Len(s) + 1), j \in 1..(Len(s) + 1)
  <2> QED BY <2>1, <2>2
<1>13. Distinct(InsertAt(q, id, k))
  BY ONLY <1>3, <1>6, <1>12 DEF Distinct
<1>14. ASSUME NEW x, Queued(InsertAt(q, id, k), x) PROVE Queued(q, x) \/ x = id
  <2>1. PICK i \in 1..(Len(s) + 1) : t[i] = x
    BY ONLY <1>3, <1>6, <1>14 DEF Queued
  <2>2. CASE \E j \in 1..Len(s) : x = s[j]
    BY ONLY <1>1, <1>4, <2>2 DEF Queued
  <2> QED BY ONLY <1>10, <1>11, <2>1, <2>2
<1> QED BY <1>3, <1>4, <1>6, <1>13, <1>14 DEF QueueOf

(* enqueue(): the same of the end of the queue.                             *)
LEMMA InsertFacts ==
    ASSUME NEW Ids, NEW q \in QueueOf(Ids), Distinct(q), NEW id \in Ids, ~ Queued(q, id)
    PROVE  /\ Insert(q, id) \in QueueOf(Ids)
           /\ Distinct(Insert(q, id))
           /\ \A x : Queued(Insert(q, id), x) => Queued(q, x) \/ x = id
           /\ Insert(q, id).claimed = q.claimed
           /\ Insert(q, id).blank = q.blank
<1> DEFINE s == q.items
           t == Append(s, id)
<1>1. /\ q = [items |-> s, claimed |-> q.claimed, blank |-> q.blank]
      /\ s \in Seq(Ids) /\ q.claimed \subseteq Ids /\ q.blank \subseteq Ids
  BY DEF QueueOf
<1>2. Insert(q, id) = [items |-> t, claimed |-> q.claimed, blank |-> q.blank]
  BY <1>1, SMTT(20) DEF Insert
<1>3. /\ t \in Seq(Ids) /\ Len(t) = Len(s) + 1
      /\ \A j \in 1..(Len(s) + 1) : t[j] = IF j <= Len(s) THEN s[j] ELSE id
  BY <1>1
<1> HIDE DEF s, t
<1>4. \A j \in 1..Len(s) : s[j] # id
  BY <1>1 DEF Queued, s
<1>5. \A i, j \in 1..Len(s) : s[i] = s[j] => i = j
  BY <1>1 DEF Distinct, s
<1>6. Distinct(Insert(q, id))
  <2>1. \A i, j \in 1..(Len(s) + 1) : t[i] = t[j] => i = j
    BY <1>1, <1>3, <1>4, <1>5
  <2> QED BY <1>1, <1>2, <1>3, <2>1 DEF Distinct
<1>7. \A x : Queued(Insert(q, id), x) => Queued(q, x) \/ x = id
  BY <1>1, <1>2, <1>3 DEF Queued, s
<1> QED BY <1>1, <1>2, <1>3, <1>6, <1>7 DEF QueueOf

(* insert() with position "front".                                          *)
LEMMA InsertFrontFacts ==
    ASSUME NEW Ids, NEW q \in QueueOf(Ids), Distinct(q), NEW id \in Ids, ~ Queued(q, id)
    PROVE  /\ InsertFront(q, id) \in QueueOf(Ids)
           /\ Distinct(InsertFront(q, id))
           /\ \A x : Queued(InsertFront(q, id), x) => Queued(q, x) \/ x = id
           /\ InsertFront(q, id).claimed = q.claimed
           /\ InsertFront(q, id).blank = q.blank
<1>1. /\ q = [items |-> q.items, claimed |-> q.claimed, blank |-> q.blank]
      /\ q.items \in Seq(Ids)
  BY DEF QueueOf
<1>2. /\ SubSeq(q.items, 1, 0) = << >>
      /\ SubSeq(q.items, 1, Len(q.items)) = q.items
  BY <1>1
<1>3. InsertAt(q, id, 1).items = <<id>> \o q.items
  BY <1>1, <1>2 DEF InsertAt
<1>4. InsertFront(q, id) = InsertAt(q, id, 1)
  BY <1>1, <1>3 DEF InsertFront, InsertAt
<1>5. 1 \in 1..(Len(q.items) + 1)
  BY <1>1
<1> QED BY <1>4, <1>5, InsertAtFacts
-----------------------------------------------------------------------------
(* The visible items are the queued ones that are not claimed.              *)
LEMMA VisibleIff ==
    ASSUME NEW q, NEW x
    PROVE  x \in Visible(q) <=> Queued(q, x) /\ x \notin q.claimed
BY DEF Visible, Queued

(* delete() takes exactly the item named, and the claim of no other.        *)
LEMMA DeleteFacts ==
    ASSUME NEW Ids, NEW q \in QueueOf(Ids), Distinct(q), NEW id
    PROVE  /\ Delete(q, id) \in QueueOf(Ids)
           /\ Distinct(Delete(q, id))
           /\ \A x : Queued(Delete(q, id), x) => Queued(q, x) /\ x # id
           /\ q.claimed \ {id} \subseteq Delete(q, id).claimed
<1>1. CASE ~ Queued(q, id)
  BY <1>1 DEF Delete, Queued
<1>2. CASE Queued(q, id)
  <2>1. PICK s : s = q.items
    OBVIOUS
  <2>2. s \in Seq(Ids) /\ q.claimed \subseteq Ids /\ q.blank \subseteq Ids
    BY <2>1, Fields
  <2>3. PICK k : k = CHOOSE n \in DOMAIN s : s[n] = id
    OBVIOUS
  <2>4. k \in 1..Len(s) /\ s[k] = id
    BY <1>2, <2>1, <2>2, <2>3 DEF Queued
  <2>5. PICK t : t = Without(s, k)
    OBVIOUS
  <2>6. Delete(q, id) = [items |-> t, claimed |-> q.claimed \ {id}, blank |-> q.blank \ {id}]
    BY <1>2, <2>1, <2>3, <2>5, Zenon DEF Delete, Without
  <2>7. t \in Seq(Ids) /\ Len(t) = Len(s) - 1
    BY ONLY <2>2, <2>4, <2>5, Cut
  <2>8. \A j \in 1..(Len(s) - 1) :
           \/ j < k /\ j \in 1..Len(s) /\ t[j] = s[j]
           \/ j >= k /\ j + 1 \in 1..Len(s) /\ t[j] = s[j + 1]
    BY ONLY <2>2, <2>4, <2>5, CutFrom
  <2>9. \A i, j \in 1..Len(s) : s[i] = s[j] => i = j
    BY <2>1, <2>2 DEF Distinct
  <2>10. Len(s) \in Nat /\ k \in Nat
    BY <2>2, <2>4
  <2>11. ASSUME NEW i \in 1..(Len(s) - 1), NEW j \in 1..(Len(s) - 1), t[i] = t[j]
         PROVE  i = j
    BY ONLY <2>8, <2>9, <2>10, <2>11, i \in 1..(Len(s) - 1), j \in 1..(Len(s) - 1)
  <2>12. Distinct(Delete(q, id))
    BY ONLY <2>6, <2>7, <2>11 DEF Distinct
  <2>13. ASSUME NEW x, Queued(Delete(q, id), x) PROVE Queued(q, x) /\ x # id
    <3>1. PICK i \in 1..(Len(s) - 1) : t[i] = x
      BY ONLY <2>6, <2>7, <2>13 DEF Queued
    <3>2. PICK j \in 1..Len(s) : j # k /\ s[j] = x
      BY ONLY <2>8, <2>10, <3>1, i \in 1..(Len(s) - 1)
    <3>3. Queued(q, x)
      BY <2>1, <2>2, <3>2 DEF Queued
    <3> QED BY <2>4, <2>9, <3>2, <3>3
  <2>14. q.claimed \ {id} \in SUBSET Ids /\ q.blank \ {id} \in SUBSET Ids
    BY ONLY <2>2
  <2>15. Delete(q, id) \in QueueOf(Ids)
    BY ONLY <2>6, <2>7, <2>14 DEF QueueOf
  <2>16. Delete(q, id).claimed = q.claimed \ {id}
    BY ONLY <2>6
  <2> QED BY ONLY <2>12, <2>13, <2>15, <2>16
<1> QED BY <1>1, <1>2

(* The three that leave the items alone. *)
LEMMA ItemsKept ==
    ASSUME NEW Ids, NEW q \in QueueOf(Ids), Distinct(q),
           NEW c \in SUBSET Ids, NEW b \in SUBSET Ids,
           NEW p, p = [items |-> q.items, claimed |-> c, blank |-> b]
    PROVE  p \in QueueOf(Ids) /\ Distinct(p) /\ \A x : Queued(p, x) <=> Queued(q, x)
BY DEF QueueOf, Distinct, Queued

(* update(): an edit changes neither what is queued nor the claims.         *)
LEMMA UpdateFacts ==
    ASSUME NEW Ids, NEW q \in QueueOf(Ids), Distinct(q), NEW id \in Ids, NEW blank
    PROVE  /\ Update(q, id, blank) \in QueueOf(Ids)
           /\ Distinct(Update(q, id, blank))
           /\ \A x : Queued(Update(q, id, blank), x) => Queued(q, x)
           /\ Update(q, id, blank).claimed = q.claimed
<1>1. CASE ~ Queued(q, id) \/ id \in q.claimed
  BY <1>1 DEF Update
<1>2. CASE ~ (~ Queued(q, id) \/ id \in q.claimed)
  <2>1. PICK b : b = IF blank THEN q.blank \cup {id} ELSE q.blank \ {id}
    OBVIOUS
  <2>2. Update(q, id, blank) = [items |-> q.items, claimed |-> q.claimed, blank |-> b]
    BY <1>2, <2>1, WithBlank, Zenon DEF Update
  <2>3. b \in SUBSET Ids /\ q.claimed \in SUBSET Ids
    BY <2>1, Fields
  <2> QED BY <2>2, <2>3, ItemsKept
<1> QED BY <1>1, <1>2

(* releaseClaim(): the claim goes, nothing else does.                       *)
LEMMA ReleaseFacts ==
    ASSUME NEW Ids, NEW q \in QueueOf(Ids), Distinct(q), NEW id
    PROVE  /\ Release(q, id) \in QueueOf(Ids)
           /\ Distinct(Release(q, id))
           /\ \A x : Queued(Release(q, id), x) => Queued(q, x)
           /\ Release(q, id).claimed = q.claimed \ {id}
<1> PICK c : c = q.claimed \ {id}
  OBVIOUS
<1>1. Release(q, id) = [items |-> q.items, claimed |-> c, blank |-> q.blank]
  <2>1. Release(q, id) = [q EXCEPT !.claimed = c]
    BY Zenon DEF Release
  <2>2. [q EXCEPT !.claimed = c] = [items |-> q.items, claimed |-> c, blank |-> q.blank]
    BY WithClaimed
  <2> QED BY <2>1, <2>2, Zenon
<1>2. q.claimed \ {id} \in SUBSET Ids /\ q.blank \in SUBSET Ids
  BY Fields
<1> QED BY <1>1, <1>2, ItemsKept

-----------------------------------------------------------------------------
(* A suffix of the items has items of the queue, in other places.           *)
LEMMA DropFacts ==
    ASSUME NEW Ids, NEW q \in QueueOf(Ids), Distinct(q)
    PROVE  /\ DropBlankHead(q) \in QueueOf(Ids)
           /\ Distinct(DropBlankHead(q))
           /\ \A x : Queued(DropBlankHead(q), x) => Queued(q, x)
           /\ DropBlankHead(q).claimed = q.claimed
<1>1. PICK s, n : s = q.items /\ n = Cardinality(BlankHead(q))
  OBVIOUS
<1>2. s \in Seq(Ids) /\ q.claimed \subseteq Ids /\ q.blank \subseteq Ids
  BY <1>1, Fields
<1>3. n \in 0..Len(s) /\ Len(s) \in Nat
  BY <1>1, <1>2, BlankHeadSize
<1>4. PICK t : t = SubSeq(s, n + 1, Len(s))
  OBVIOUS
<1>5. PICK b : b = q.blank \ {q.items[k] : k \in BlankHead(q)}
  OBVIOUS
<1>6. DropBlankHead(q) = [items |-> t, claimed |-> q.claimed, blank |-> b]
  BY <1>1, <1>4, <1>5, Zenon DEF DropBlankHead
<1>7. n + 1 \in 1..(Len(s) + 1)
  BY <1>3
<1>8. t \in Seq(Ids) /\ Len(t) = Len(s) - (n + 1) + 1
  BY ONLY <1>2, <1>4, <1>7, Slices
<1>9. \A j \in 1..(Len(s) - (n + 1) + 1) : t[j] = s[j + (n + 1) - 1]
  BY ONLY <1>2, <1>4, <1>7, Slices
<1>10. ASSUME NEW j \in 1..Len(t) PROVE j + n \in 1..Len(s) /\ t[j] = s[j + n]
  <2>1. /\ j \in 1..(Len(s) - (n + 1) + 1) /\ j + (n + 1) - 1 = j + n
        /\ j + n \in 1..Len(s)
    BY ONLY <1>3, <1>8, j \in 1..Len(t)
  <2>2. t[j] = s[j + (n + 1) - 1]
    BY ONLY <1>9, <2>1
  <2> QED BY ONLY <2>1, <2>2
<1>11. \A i, j \in 1..Len(s) : s[i] = s[j] => i = j
  BY <1>1, <1>2 DEF Distinct
<1>12. ASSUME NEW i \in 1..Len(t), NEW j \in 1..Len(t), t[i] = t[j] PROVE i = j
  <2>1. i + n = j + n
    BY ONLY <1>10, <1>11, <1>12, i \in 1..Len(t), j \in 1..Len(t)
  <2> QED BY ONLY <1>3, <2>1, i \in 1..Len(t), j \in 1..Len(t), i \in Nat, j \in Nat
<1>13. Distinct(DropBlankHead(q))
  BY ONLY <1>6, <1>8, <1>12 DEF Distinct
<1>14. ASSUME NEW x, Queued(DropBlankHead(q), x) PROVE Queued(q, x)
  <2>1. PICK i \in 1..Len(t) : t[i] = x
    BY ONLY <1>6, <1>8, <1>14 DEF Queued
  <2> QED BY <1>1, <1>2, <1>10, <2>1 DEF Queued
<1> QED BY <1>2, <1>5, <1>6, <1>8, <1>13, <1>14, SMTT(20) DEF QueueOf

(* The item handed out was in view, and no longer is.                       *)
LEMMA ClaimFacts ==
    ASSUME NEW Ids, NEW q \in QueueOf(Ids), Distinct(q), NEW id \in NextRunnable(q)
    PROVE  /\ id \in Ids /\ id \in Visible(q)
           /\ Claim(q, id) \in QueueOf(Ids)
           /\ Distinct(Claim(q, id))
           /\ \A x : Queued(Claim(q, id), x) => Queued(q, x)
           /\ Claim(q, id).claimed = q.claimed \cup {id}
<1>1. PICK k \in DOMAIN q.items : id = q.items[k] /\ id \notin q.claimed
  BY DEF NextRunnable, RunnableAt
<1>2. id \in Ids
  BY <1>1, Fields
<1>3. Queued(q, id)
  BY <1>1 DEF Queued
<1>4. PICK p : p = DropBlankHead(q)
  OBVIOUS
<1>5. p \in QueueOf(Ids) /\ Distinct(p) /\ p.claimed = q.claimed
  BY <1>4, DropFacts
<1> PICK c : c = p.claimed \cup {id}
  OBVIOUS
<1>6. Claim(q, id) = [items |-> p.items, claimed |-> c, blank |-> p.blank]
  <2>1. Claim(q, id) = [p EXCEPT !.claimed = c]
    BY <1>4, Zenon DEF Claim
  <2>2. [p EXCEPT !.claimed = c] = [items |-> p.items, claimed |-> c, blank |-> p.blank]
    BY <1>5, WithClaimed
  <2> QED BY <2>1, <2>2, Zenon
<1>7. c \in SUBSET Ids /\ p.blank \in SUBSET Ids
  BY <1>2, <1>5, Fields
<1>8. /\ Claim(q, id) \in QueueOf(Ids) /\ Distinct(Claim(q, id))
      /\ \A x : Queued(Claim(q, id), x) <=> Queued(p, x)
  BY ONLY <1>5, <1>6, <1>7, ItemsKept
<1>9. \A x : Queued(p, x) => Queued(q, x)
  BY <1>4, DropFacts
<1>10. id \in Visible(q)
  BY <1>1, <1>3, VisibleIff
<1>11. Claim(q, id).claimed = q.claimed \cup {id}
  BY ONLY c = p.claimed \cup {id}, <1>5, <1>6
<1> QED BY ONLY <1>2, <1>8, <1>9, <1>10, <1>11

(* insert() beside an anchor, which may not be queued.                      *)
LEMMA InsertNextToFacts ==
    ASSUME NEW Ids, NEW q \in QueueOf(Ids), Distinct(q), NEW id \in Ids,
           ~ Queued(q, id), NEW a, NEW offset \in {0, 1}
    PROVE  /\ InsertNextTo(q, id, a, offset) \in QueueOf(Ids)
           /\ Distinct(InsertNextTo(q, id, a, offset))
           /\ \A x : Queued(InsertNextTo(q, id, a, offset), x) => Queued(q, x) \/ x = id
           /\ InsertNextTo(q, id, a, offset).claimed = q.claimed
           /\ InsertNextTo(q, id, a, offset).blank = q.blank
<1>1. CASE ~ Queued(q, a)
  <2>1. InsertNextTo(q, id, a, offset) = Insert(q, id)
    BY <1>1 DEF InsertNextTo
  <2> QED BY <2>1, InsertFacts
<1>2. CASE Queued(q, a)
  <2>1. PICK n : n = CHOOSE k \in DOMAIN q.items : q.items[k] = a
    OBVIOUS
  <2>2. n \in DOMAIN q.items
    BY <1>2, <2>1 DEF Queued
  <2>3. q.items \in Seq(Ids)
    BY Fields
  <2>4. PICK k : k = offset + n
    OBVIOUS
  <2>5. k \in 1..(Len(q.items) + 1)
    BY <2>2, <2>3, <2>4
  <2>6. InsertNextTo(q, id, a, offset) = InsertAt(q, id, k)
    BY <1>2, <2>1, <2>4, Zenon DEF InsertNextTo
  <2> QED BY <2>5, <2>6, InsertAtFacts
<1> QED BY <1>1, <1>2
=============================================================================
