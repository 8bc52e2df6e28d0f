---------------------------- MODULE QueueEditing ----------------------------
(***************************************************************************)
(* How queued requests are written and rewritten: pages compose additions  *)
(* and edits (queueChatRequest, RequestQueueBar) from the list they were   *)
(* last shown, the builders of socketProtocol.ts put them on the wire, the *)
(* server checks their shape (messages.ts) and their attachments, and the  *)
(* registry applies them, while the model's turnplan tool edits the same   *)
(* queue and finished turns claim from its head.                           *)
(*                                                                         *)
(* A text is the number of the message it was first sent in, 0 when blank. *)
(* A picked file is a number; the attachment written for it is the pair of *)
(* the pick and the message that carried it, as every message writes files *)
(* of its own.  A model takes attachments or it does not; an item's model  *)
(* is only ever replaced, so it is not kept.                               *)
(***************************************************************************)
EXTENDS RequestQueue, FiniteSetsExt

CONSTANTS Pages,      \* the pages showing the session
          Picks,      \* the files a user can pick
          Misfits,    \* those of them that are empty or above 10 MiB
          FileLimit,  \* attachments of one message (8)
          MaxItems,   \* bound: items ever queued
          MaxSent,    \* bound: messages the pages send
          MaxTool,    \* bound: changes by the turnplan tool
          MaxLag,     \* bound: lists a page is behind the last broadcast
          Absent      \* a field the message does not carry

QueueEditingAssumption ==
    /\ IsFiniteSet(Picks) /\ Misfits \subseteq Picks
    /\ FileLimit \in Nat \ {0}
    /\ MaxItems \in Nat /\ MaxSent \in Nat /\ MaxTool \in Nat /\ MaxLag \in Nat
    /\ \A files \in (SUBSET Picks) \cup SUBSET (Picks \X (0 .. MaxSent)) : files # Absent

VARIABLES queue,    \* the registry's queue of the session
          body,     \* item id -> its text and attachments
          inside,   \* messages on their way to the registry
          refused,  \* messages answered with a protocol error
          shown,    \* the last lists that were broadcast
          at,       \* page -> the first of them it may still be showing
          editor,   \* page -> the item its dialog was opened with, or none
          sent,     \* messages sent by the pages
          tool      \* changes the turnplan tool has made

vars == <<queue, body, inside, refused, shown, at, editor, sent, tool>>
page == <<editor, sent, refused>>

Models == {"all", "text"}

Takes(model, files) == files = {} \/ model = "all"

Blank(content) == content.text = 0 /\ content.files = {}

ItemIds == 1..Cardinality(DOMAIN body)

-----------------------------------------------------------------------------
(* The wire.  "meant" is what the composer or the dialog held when it was   *)
(* sent; the server looks at the other fields only.                         *)

(* Seeded bug: an empty list of attachments is sent as a list.              *)
FieldAlways(set) == set

Field(set) == IF set = {} THEN Absent ELSE set

AddMessage(n, text, picks, model) ==
    [type |-> "add", n |-> n, text |-> text, model |-> model, attachments |-> Field(picks),
     meant |-> [text |-> text, keep |-> {}, picks |-> picks]]

UpdateMessage(n, id, text, model, keep, picks) ==
    [type |-> "update", n |-> n, id |-> id, text |-> text, model |-> model,
     keepAttachmentIds |-> Field(keep), attachments |-> Field(picks),
     meant |-> [text |-> text, keep |-> keep, picks |-> picks]]

DeleteMessage(n, id) == [type |-> "delete", n |-> n, id |-> id]

(* isValidSessionInputAttachments: one to eight attachments that fit.       *)
ValidAttachments(list) ==
    /\ list # Absent
    /\ Cardinality(list) \in 1..FileLimit
    /\ list \cap Misfits = {}

(* The type guards of the three queue messages.                             *)
Accepts(m) ==
    /\ m.type = "add" => m.text # 0 \/ ValidAttachments(m.attachments)
    /\ m.type \in {"add", "update"} => m.attachments = Absent \/ ValidAttachments(m.attachments)

-----------------------------------------------------------------------------
List(q, contents) == [id \in Visible(q) |-> contents[id]]

(* A request with attachments waits already.                                *)
Init ==
    /\ queue = Insert(EmptyQueue, 1)
    /\ body = <<[text |-> 0, files |-> {<<k, 0>> : k \in Picks \ Misfits}]>>
    /\ inside = {} /\ refused = {}
    /\ shown = <<body>> /\ at = [p \in Pages |-> 1]
    /\ editor = [p \in Pages |-> << >>]
    /\ sent = 0 /\ tool = 0

(* A message that no guard takes, or whose files its model does not take,   *)
(* is answered with a protocol error (handleSessionMessage).  The handlers  *)
(* of the others read rows and write files side by side: no order is left.  *)
Send(m) ==
    /\ IF /\ Accepts(m)
          /\ m.type # "delete" /\ m.attachments # Absent => Takes(m.model, m.attachments)
       THEN inside' = inside \cup {m} /\ UNCHANGED refused
       ELSE refused' = refused \cup {m} /\ UNCHANGED inside
    /\ sent' = sent + 1

(* The page has received the lists up to the k-th.                          *)
Showing(p, k) == k >= at[p] /\ at' = [at EXCEPT ![p] = k]

Elsewhere == UNCHANGED <<queue, body, shown, tool>>

(* The composer takes the files its model takes, however many and however   *)
(* large (addSupportedAttachments).                                         *)
Attachable(model) == {picks \in SUBSET Picks : Takes(model, picks)}

(* queueChatRequest(): an empty composer is not sent.                       *)
QueueRequest(p) ==
    /\ sent < MaxSent
    /\ \E model \in Models, said \in BOOLEAN : \E picks \in Attachable(model) :
         /\ said \/ picks # {}
         /\ Send(AddMessage(sent + 1, IF said THEN sent + 1 ELSE 0, picks, model))
    /\ UNCHANGED <<at, editor>> /\ Elsewhere

Remove(p) ==
    /\ sent < MaxSent
    /\ \E k \in DOMAIN shown : \E id \in DOMAIN shown[k] :
         Showing(p, k) /\ Send(DeleteMessage(sent + 1, id))
    /\ UNCHANGED editor /\ Elsewhere

(* openEditor(): the dialog keeps the item it was opened with, and loses    *)
(* what it held for another.                                                *)
Open(p) ==
    /\ sent < MaxSent
    /\ \E k \in DOMAIN shown : \E id \in DOMAIN shown[k] :
         Showing(p, k) /\ editor' = [editor EXCEPT ![p] = <<id, shown[k][id]>>]
    /\ UNCHANGED <<inside, refused, sent>> /\ Elsewhere

(* A change of the model takes the attachments it cannot take out of the    *)
(* draft (applyModel); new files are cut to the limit (addNewAttachments).  *)
Kept(item, model) == {keep \in SUBSET item.files : Takes(model, keep)}

NewFiles(model) == {picks \in Attachable(model) : Cardinality(picks) <= FileLimit}

(* The save button, hidden with the dialog while the list is empty.  The    *)
(* dialog closes when the message is away, and the button may have been     *)
(* pressed once more until then.                                            *)
Save(p) ==
    /\ editor[p] # << >>
    /\ sent < MaxSent
    /\ \E k \in DOMAIN shown : DOMAIN shown[k] # {} /\ Showing(p, k)
    /\ LET item == editor[p][2]
       IN  \E model \in Models, text \in {item.text, 0, sent + 1}, again \in BOOLEAN :
           \E keep \in Kept(item, model), picks \in NewFiles(model) :
             /\ text # 0 \/ keep # {} \/ picks # {}
             /\ Send(UpdateMessage(sent + 1, editor[p][1], text, model, keep, picks))
             /\ editor' = IF again THEN editor ELSE [editor EXCEPT ![p] = << >>]
    /\ Elsewhere

-----------------------------------------------------------------------------
Written(m) == IF m.attachments = Absent THEN {} ELSE {<<k, m.n>> : k \in m.attachments}

(* The blank ids of the registry's queue, from the items' contents.         *)
Marked(q, contents) == [q EXCEPT !.blank = {id \in DOMAIN contents : Queued(q, id) /\ Blank(contents[id])}]

(* A change of the queue and broadcastSessionRequestQueueChanged(); a list  *)
(* equal to the last shows nothing new.                                     *)
Change(q, contents) ==
    LET list == List(q, contents)
    IN  /\ queue' = Marked(q, contents)
        /\ body' = contents
        /\ IF list = shown[Len(shown)] THEN UNCHANGED <<shown, at>>
           ELSE IF Len(shown) <= MaxLag THEN shown' = Append(shown, list) /\ UNCHANGED at
           ELSE /\ shown' = Append(Tail(shown), list)
                /\ at' = [p \in Pages |-> Max({1, at[p] - 1})]

NewId == Len(body) + 1

Free == NewId <= MaxItems

(* Seeded bug: no list of kept attachments means all of them are kept.      *)
RewrittenKeepingAll(m, item) ==
    [text |-> m.text,
     files |-> Written(m) \cup IF m.keepAttachmentIds = Absent THEN item.files
                               ELSE {a \in item.files \cap m.keepAttachmentIds : Takes(m.model, {a})}]

(* The item that update() makes of a message.                               *)
Rewritten(m, item) ==
    LET keep == IF m.keepAttachmentIds = Absent THEN {} ELSE m.keepAttachmentIds
    IN  [text |-> m.text,
         files |-> {a \in item.files \cap keep : Takes(m.model, {a})} \cup Written(m)]

Editable(id) == Queued(queue, id) /\ id \notin queue.claimed

ApplyAdd(m) ==
    /\ m.type = "add" /\ Free
    /\ Change(Insert(queue, NewId),
              Append(body, [text |-> m.text, files |-> Written(m)]))

ApplyUpdate(m) ==
    /\ m.type = "update"
    /\ Change(queue, IF Editable(m.id) THEN [body EXCEPT ![m.id] = Rewritten(m, @)] ELSE body)

ApplyDelete(m) == m.type = "delete" /\ Change(Delete(queue, m.id), body)

Apply(m) ==
    /\ inside' = inside \ {m}
    /\ ApplyAdd(m) \/ ApplyUpdate(m) \/ ApplyDelete(m)
    /\ UNCHANGED <<page, tool>>

-----------------------------------------------------------------------------
(* turnplan: its "plan" is one addition after the other, waiting for each   *)
(* broadcast; "add", "update", "delete" and "clear" are one step.           *)
ToolText == MaxSent + 1

ToolItem == [text |-> ToolText, files |-> {}]

ToolAdd ==
    /\ Free
    /\ \E q \in {Insert(queue, NewId), InsertFront(queue, NewId)}
                 \cup {InsertBefore(queue, NewId, id) : id \in ItemIds}
                 \cup {InsertAfter(queue, NewId, id) : id \in ItemIds} :
         Change(q, Append(body, ToolItem))

ToolUpdate == \E id \in ItemIds :
    Change(queue, IF Editable(id) THEN [body EXCEPT ![id].text = ToolText] ELSE body)

ToolDelete == \E id \in ItemIds : Change(Delete(queue, id), body)

ToolClear == Change(EmptyQueue, body)

Turnplan ==
    /\ tool < MaxTool
    /\ ToolAdd \/ ToolUpdate \/ ToolDelete \/ ToolClear
    /\ tool' = tool + 1
    /\ UNCHANGED <<page, inside>>

(* A finished turn claims an item, or drops the blank ones when there is no *)
(* other; its turn completes or releases the claim.                         *)
ClaimNext ==
    /\ \E q \in IF NextRunnable(queue) = {} THEN {DropBlankHead(queue)}
                 ELSE {Claim(queue, id) : id \in NextRunnable(queue)} :
         q # queue /\ Change(q, body)
    /\ UNCHANGED <<page, inside, tool>>

ClaimOver ==
    /\ \E id \in queue.claimed : \E q \in {Release(queue, id), Delete(queue, id)} : Change(q, body)
    /\ UNCHANGED <<page, inside, tool>>

Next ==
    \/ \E p \in Pages : QueueRequest(p) \/ Remove(p) \/ Open(p) \/ Save(p)
    \/ \E m \in inside : Apply(m)
    \/ Turnplan \/ ClaimNext \/ ClaimOver

Spec == Init /\ [][Next]_vars

-----------------------------------------------------------------------------
Fits(m) == /\ m.meant.picks \cap Misfits = {}
           /\ Cardinality(m.meant.picks) <= FileLimit

(* Whatever a page composes of files that fit, the server's guards accept:  *)
(* the builders and the guards agree on every optional field.               *)
ComposedIsAccepted == \A m \in refused : ~ Fits(m)

(* An edit that reaches its item makes the item what the dialog showed: its *)
(* text, its new files, and of the earlier ones those kept in the dialog,   *)
(* less those another page removed meanwhile.  A file taken out never       *)
(* returns, and one picked once is never held twice.                        *)
SavedAsDrafted ==
    [][\A m \in inside \ inside' :
         m.type = "update" /\ Editable(m.id) =>
           LET item == body'[m.id]
           IN  /\ item.text = m.meant.text
               /\ item.files = (body[m.id].files \cap m.meant.keep)
                                 \cup {<<k, m.n>> : k \in m.meant.picks}]_vars
=============================================================================
