---------------------------- MODULE RequestQueue ----------------------------
(***************************************************************************)
(* The per-session request queue of packages/ndx/src/agent/requestQue: one *)
(* operator per method of NDXSessionRequestQueueRegistry.  A queue is a    *)
(* record: the sequence of item ids, the set of ids whose claimedat is     *)
(* set, and the set of ids with neither text nor attachments.              *)
(***************************************************************************)
EXTENDS Naturals, Sequences, FiniteSets

EmptyQueue == [items |-> << >>, claimed |-> {}, blank |-> {}]

QueueOf(Ids) == [items : Seq(Ids), claimed : SUBSET Ids, blank : SUBSET Ids]

Queued(q, id) == \E k \in DOMAIN q.items : q.items[k] = id

HasItems(q) == q.items # << >>

Distinct(q) == \A j, k \in DOMAIN q.items : q.items[j] = q.items[k] => j = k

(* items(): what the clients are shown, so not the claimed items. *)
Visible(q) == {id \in {q.items[k] : k \in DOMAIN q.items} : id \notin q.claimed}

-----------------------------------------------------------------------------
(* insert(): "before" and "after" an unknown anchor fall back to the end.   *)

(* Seeded bug: after the splice the item is appended as well.               *)
InsertAtTwice(q, id, k) ==
    [q EXCEPT !.items = SubSeq(@, 1, k - 1) \o <<id>> \o SubSeq(@, k, Len(@)) \o <<id>>]

InsertAt(q, id, k) ==
    [q EXCEPT !.items = SubSeq(@, 1, k - 1) \o <<id>> \o SubSeq(@, k, Len(@))]

Insert(q, id) == [q EXCEPT !.items = Append(@, id)]

InsertFront(q, id) == [q EXCEPT !.items = <<id>> \o @]

InsertNextTo(q, id, anchor, offset) ==
    IF Queued(q, anchor)
    THEN InsertAt(q, id, offset + CHOOSE k \in DOMAIN q.items : q.items[k] = anchor)
    ELSE Insert(q, id)

InsertBefore(q, id, anchor) == InsertNextTo(q, id, anchor, 0)
InsertAfter(q, id, anchor)  == InsertNextTo(q, id, anchor, 1)

(* Seeded bug: an item can be rewritten while it runs.                      *)
UpdateAnyway(q, id, blank) ==
    IF ~ Queued(q, id) THEN q
    ELSE [q EXCEPT !.blank = IF blank THEN @ \cup {id} ELSE @ \ {id}]

(* update() and updateText(): refused for a missing or a claimed item. *)
Update(q, id, blank) ==
    IF ~ Queued(q, id) \/ id \in q.claimed THEN q
    ELSE [q EXCEPT !.blank = IF blank THEN @ \cup {id} ELSE @ \ {id}]

(* delete(), which completeClaim() is too: it does not look at claimedat.   *)
Delete(q, id) ==
    IF ~ Queued(q, id) THEN q
    ELSE LET k == CHOOSE k \in DOMAIN q.items : q.items[k] = id
         IN  [items   |-> SubSeq(q.items, 1, k - 1) \o SubSeq(q.items, k + 1, Len(q.items)),
              claimed |-> q.claimed \ {id},
              blank   |-> q.blank \ {id}]

-----------------------------------------------------------------------------
(* claimNextRunnable(): drop the unclaimed blank items at the head, then    *)
(* claim the first unclaimed item with content, wherever it stands.         *)

(* Seeded bug: as many items are dropped as are blank anywhere.             *)
BlankAnywhere(q) == {k \in DOMAIN q.items : q.items[k] \in q.blank \ q.claimed}

BlankHead(q) ==
    {k \in DOMAIN q.items : \A j \in 1..k : q.items[j] \in q.blank \ q.claimed}

DropBlankHead(q) ==
    [items   |-> SubSeq(q.items, Cardinality(BlankHead(q)) + 1, Len(q.items)),
     claimed |-> q.claimed,
     blank   |-> q.blank \ {q.items[k] : k \in BlankHead(q)}]

RunnableAt(q) == {k \in DOMAIN q.items : q.items[k] \notin q.claimed \cup q.blank}

(* Seeded bug: the scan runs from the end.                                  *)
LastRunnable(q) ==
    {q.items[k] : k \in {n \in RunnableAt(q) : \A j \in RunnableAt(q) : n >= j}}

(* The item the scan finds: a set of one id, or empty when there is none.   *)
NextRunnable(q) ==
    {q.items[k] : k \in {n \in RunnableAt(q) : \A j \in RunnableAt(q) : n <= j}}

(* Seeded bug: the item handed out is not marked.                           *)
ClaimUnmarked(q, id) == [DropBlankHead(q) EXCEPT !.blank = @ \ {id}]

Claim(q, id) == [DropBlankHead(q) EXCEPT !.claimed = @ \cup {id}]

(* Seeded bug: a released item is queued again at the end.                  *)
ReleaseToEnd(q, id) ==
    IF Queued(q, id) THEN Insert(Delete(q, id), id) ELSE q

Release(q, id) == [q EXCEPT !.claimed = @ \ {id}]
=============================================================================
