------------------------ MODULE RequestQueueRegistry ------------------------
(***************************************************************************)
(* NDXSessionRequestQueueRegistry as a state machine: the queue of one     *)
(* session under any sequence of calls of its methods.  Item ids are fresh *)
(* (randomUUID), so an id is inserted once.                                *)
(***************************************************************************)
EXTENDS RequestQueue

CONSTANT Ids  \* the item ids

VARIABLES queue,  \* the session's entry of #queues
          fresh   \* ids not used yet

vars == <<queue, fresh>>

Init == queue = EmptyQueue /\ fresh = Ids

(* insert(), at each of its positions; the text may be blank.               *)
Add(id, blank) ==
    /\ id \in fresh
    /\ fresh' = fresh \ {id}
    /\ \E inserted \in {Insert(queue, id), InsertFront(queue, id)}
                       \cup {InsertBefore(queue, id, a) : a \in Ids}
                       \cup {InsertAfter(queue, id, a) : a \in Ids} :
          queue' = Update(inserted, id, blank)

Edit(id, blank) == queue' = Update(queue, id, blank) /\ UNCHANGED fresh

Remove(id) == queue' = Delete(queue, id) /\ UNCHANGED fresh

ClaimNextRunnable ==
    /\ \/ NextRunnable(queue) = {} /\ queue' = DropBlankHead(queue)
       \/ \E id \in NextRunnable(queue) : queue' = Claim(queue, id)
    /\ UNCHANGED fresh

ReleaseClaim(id) == queue' = Release(queue, id) /\ UNCHANGED fresh

Clear == queue' = EmptyQueue /\ UNCHANGED fresh

Next ==
    \/ \E id \in Ids, blank \in BOOLEAN : Add(id, blank) \/ Edit(id, blank)
    \/ \E id \in Ids : Remove(id) \/ ReleaseClaim(id)
    \/ ClaimNextRunnable
    \/ Clear

Spec == Init /\ [][Next]_vars

-----------------------------------------------------------------------------
At(q, id) == CHOOSE k \in DOMAIN q.items : q.items[k] = id

(* The types of the variables. *)
TypeOK == queue \in QueueOf(Ids) /\ fresh \subseteq Ids

(* An item is in the queue once, wherever it was inserted: otherwise one    *)
(* request could be claimed, and run, twice.                                *)
NoRepeats == Distinct(queue)

(* A claimed request has content, and keeps it until its claim is released, *)
(* whatever edits arrive: what runs is what was claimed.                    *)
ClaimedNotBlank == queue.claimed \cap queue.blank = {}

(* No call changes the order of two items that stay; in particular an item  *)
(* whose claim is released is where it was, not behind later requests.      *)
OrderKept ==
    [][\A a, b \in Ids :
          /\ Queued(queue, a) /\ Queued(queue, b)
          /\ Queued(queue', a) /\ Queued(queue', b)
          /\ At(queue, a) < At(queue, b)
          => At(queue', a) < At(queue', b)]_vars

(* A claim takes the earliest request that can run.                         *)
ClaimTakesFirst ==
    [][\A id \in queue'.claimed \ queue.claimed, a \in Ids :
          Queued(queue, a) /\ At(queue, a) < At(queue, id)
              => a \in queue.claimed \cup queue.blank]_vars

(* Looking for the next request throws away blank items only.               *)
ClaimLosesNothing ==
    [][ClaimNextRunnable =>
          \A id \in Ids : Queued(queue, id) /\ id \notin queue.blank => Queued(queue', id)]_vars

(* Whatever is inserted, edited, claimed and released, the items keep       *)
(* their order, a claim takes the first that can run and loses none with    *)
(* content, and what is claimed keeps its content (requestQue/index.ts).    *)
QueueKept == []ClaimedNotBlank /\ OrderKept /\ ClaimTakesFirst /\ ClaimLosesNothing
=============================================================================
