--------------------------- MODULE SessionClients ---------------------------
(***************************************************************************)
(* askUserQuestion between the server and the pages: a session is granted  *)
(* to a connection by an attach that also resends the pending questions,   *)
(* a question goes to the connections granted at that moment, one of the   *)
(* answers ends it, and the others are told.  A page shows one dialog.  A  *)
(* page is one connection of one browser: after a reload it is another.    *)
(* An attach message is an element of Attaches; Sub is a session whose     *)
(* parent is Root.                                                         *)
(***************************************************************************)
EXTENDS Naturals, FiniteSets, SequencesExt

CONSTANTS Pages,     \* connections
          Questions, \* questions the turns ask
          Attaches,  \* session.attach messages
          Root, Sub, \* a session and its subsession
          None,
          MaxEvents  \* bound: answers, aborts and pages left

NoneAssumption == None \notin Questions \cup Pages /\ MaxEvents \in Nat

Sessions == {Root, Sub}

VARIABLES
    conn,     \* conn[p]: "new", "open", "lost" (no close arrived), "closed"
    grants,   \* grants[p]: sessions granted to the connection
    attach,   \* attach[h]: where the handler is, its page and session, what it resent
    question, \* question[q]: where it is, its session, how it ended
    pending,  \* pendingClientRequests: insertion order
    net,      \* net[p]: messages on their way to the page
    answers,  \* responses on their way to the server
    dialog,   \* dialog[p]: the request the page shows
    sending,  \* sending[p]: submitted, attachments still being encoded
    shown,    \* shown[p]: questions that reached the page
    displaced, \* displaced[p]: questions whose dialog another one's took away
    events

vars == <<conn, grants, attach, question, pending, net, answers, dialog, sending,
          shown, displaced, events>>
page == <<dialog, sending, shown, displaced>>

Done == [at |-> "done", page |-> None, on |-> Root, seen |-> {}]
Outcomes == {"answered", "cancelled", "interrupted"}

Init ==
    /\ conn = [p \in Pages |-> "new"]
    /\ grants = [p \in Pages |-> {}]
    /\ attach = [h \in Attaches |-> [at |-> "idle", page |-> None, on |-> Root, seen |-> {}]]
    /\ question = [q \in Questions |-> [at |-> "new", on |-> Root, end |-> None]]
    /\ pending = << >>
    /\ net = [p \in Pages |-> << >>]
    /\ answers = {}
    /\ dialog = [p \in Pages |-> None]
    /\ sending = [p \in Pages |-> {}]
    /\ shown = [p \in Pages |-> {}]
    /\ displaced = [p \in Pages |-> {}]
    /\ events = 0

(* The bound.                                                               *)
Event == events < MaxEvents /\ events' = events + 1

Connected == {p \in Pages : conn[p] \in {"open", "lost"}}
Owners(s) == {p \in Connected : s \in grants[p]}
Pending == ToSet(pending)

(* sendJson to each of the targets; what goes to a lost page is lost.       *)
Send(targets, m) ==
    net' = [p \in Pages |-> IF p \in targets /\ conn[p] = "open"
                            THEN Append(net[p], m) ELSE net[p]]

Ask(q) == [type |-> "request", of |-> q]
Closed(q, reason) == [type |-> "closed", of |-> q, reason |-> reason]
ProtocolError == [type |-> "error"]

-----------------------------------------------------------------------------
(* Connections.                                                             *)

Connect(p) ==
    /\ conn[p] = "new"
    /\ conn' = [conn EXCEPT ![p] = "open"]
    /\ UNCHANGED <<grants, attach, question, pending, net, answers, page, events>>

(* The page is closed or reloaded, or the network fails without a close;    *)
(* the heartbeat ends the second kind.  A handler that still works for the  *)
(* page has no effect any more.                                             *)
Leave(p) ==
    /\ Event
    /\ \/ conn[p] = "open" /\ conn' = [conn EXCEPT ![p] = "closed"]
       \/ conn[p] = "open" /\ conn' = [conn EXCEPT ![p] = "lost"]
       \/ conn[p] = "lost" /\ conn' = [conn EXCEPT ![p] = "closed"]
    /\ grants' = IF conn'[p] = "closed" THEN [grants EXCEPT ![p] = {}] ELSE grants
    /\ attach' = [h \in Attaches |-> IF attach[h].page = p THEN Done ELSE attach[h]]
    /\ net' = [net EXCEPT ![p] = << >>]
    /\ dialog' = [dialog EXCEPT ![p] = None]
    /\ sending' = [sending EXCEPT ![p] = {}]
    /\ shown' = [shown EXCEPT ![p] = {}]
    /\ displaced' = [displaced EXCEPT ![p] = {}]
    /\ UNCHANGED <<question, pending, answers>>

-----------------------------------------------------------------------------
(* session.attach: attachSessionGrant.                                      *)

AttachReceived(h, p, s) ==
    /\ attach[h].at = "idle" /\ conn[p] = "open"
    /\ attach' = [attach EXCEPT ![h] = [at |-> "read", page |-> p, on |-> s, seen |-> {}]]
    /\ UNCHANGED <<conn, grants, question, pending, net, answers, page, events>>

(* getSession has returned; a subsession needs a granted ancestor.          *)
AttachGrant(h) ==
    LET p == attach[h].page  s == attach[h].on IN
    /\ attach[h].at = "read"
    /\ IF s = Sub /\ Root \notin grants[p]
       THEN /\ attach' = [attach EXCEPT ![h] = Done]
            /\ Send({p}, ProtocolError)
            /\ UNCHANGED grants
       ELSE /\ attach' = [attach EXCEPT ![h].at = "resend"]
            /\ grants' = [grants EXCEPT ![p] = @ \cup {s}]
            /\ UNCHANGED net
    /\ UNCHANGED <<conn, question, pending, answers, page, events>>

(* Seeded bug: the resend uses the list the handler saw first, answered     *)
(* questions included.                                                      *)
AttachResendSnapshot(h) ==
    LET left == {q \in Questions : /\ question[q].at # "new"
                                   /\ question[q].on = attach[h].on} \ attach[h].seen IN
    /\ attach[h].at = "resend"
    /\ IF left = {}
       THEN attach' = [attach EXCEPT ![h] = Done] /\ UNCHANGED net
       ELSE \E q \in left :
              /\ attach' = [attach EXCEPT ![h].seen = @ \cup {q}]
              /\ Send({attach[h].page}, Ask(q))
    /\ UNCHANGED <<conn, grants, question, pending, answers, page, events>>

(* The places in the map of what the handler has to resend, and the first.  *)
Left(h) ==
    {i \in DOMAIN pending : /\ question[pending[i]].on = attach[h].on
                            /\ pending[i] \notin attach[h].seen}
First(h, i) == i \in Left(h) /\ \A k \in Left(h) : i <= k

(* Seeded bug: the loop ends after its first item.                          *)
AttachResendFirst(h) ==
    /\ attach[h].at = "resend"
    /\ attach' = [attach EXCEPT ![h] = Done]
    /\ \/ Left(h) = {} /\ UNCHANGED net
       \/ \E i \in Left(h) : First(h, i) /\ Send({attach[h].page}, Ask(pending[i]))
    /\ UNCHANGED <<conn, grants, question, pending, answers, page, events>>

(* sendPendingClientRequestsForSession: the live map, an await per item.    *)
AttachResend(h) ==
    /\ attach[h].at = "resend"
    /\ \/ /\ Left(h) = {}
          /\ attach' = [attach EXCEPT ![h] = Done] /\ UNCHANGED net
       \/ \E i \in Left(h) :
             /\ First(h, i)
             /\ attach' = [attach EXCEPT ![h].seen = @ \cup {pending[i]}]
             /\ Send({attach[h].page}, Ask(pending[i]))
    /\ UNCHANGED <<conn, grants, question, pending, answers, page, events>>

-----------------------------------------------------------------------------
(* requestSessionClientQuestion and the ways it ends.                       *)

AskQuestion(q, s) ==
    /\ question[q].at = "new"
    /\ question' = [question EXCEPT ![q] = [at |-> "pending", on |-> s, end |-> None]]
    /\ pending' = Append(pending, q)
    /\ Send(Owners(s), Ask(q))
    /\ UNCHANGED <<conn, grants, attach, answers, page, events>>

(* Seeded bug: the entry stays in the map.                                  *)
FinishKept(q, end) ==
    /\ UNCHANGED pending
    /\ question' = [question EXCEPT ![q].at = "done", ![q].end = IF @ = None THEN end ELSE @]
    /\ Send(Owners(question[q].on), Closed(q, end))

(* finish: forget the request, tell the owners, resolve the promise (which  *)
(* keeps the first value it was given).                                     *)
Finish(q, end) ==
    /\ \E i \in DOMAIN pending : pending[i] = q /\ pending' = RemoveAt(pending, i)
    /\ question' = [question EXCEPT ![q].at = "done", ![q].end = IF @ = None THEN end ELSE @]
    /\ Send(Owners(question[q].on), Closed(q, end))

(* The signal the tool was given is raised.                                 *)
Abort(q) ==
    /\ q \in Pending /\ Event
    /\ Finish(q, "interrupted")
    /\ UNCHANGED <<conn, grants, attach, answers, page>>

(* session.client.response: the connection has or inherits the grant, and   *)
(* the request is still pending, or the page is told otherwise.             *)
Respond(a) ==
    /\ a \in answers
    /\ answers' = answers \ {a}
    /\ IF a.of \in Pending
       THEN Finish(a.of, a.kind)
       ELSE Send({a.page}, ProtocolError) /\ UNCHANGED <<question, pending>>
    /\ UNCHANGED <<conn, grants, attach, page, events>>

-----------------------------------------------------------------------------
(* The page: useAskUserQuestionController.                                  *)

(* Seeded bug: any close takes the dialog away.                             *)
DeliverClosing(p) ==
    LET m == Head(net[p]) IN
    /\ net[p] # << >>
    /\ net' = [net EXCEPT ![p] = Tail(@)]
    /\ dialog' = [dialog EXCEPT ![p] = IF m.type = "request" THEN m.of
                                       ELSE IF m.type = "closed" THEN None ELSE @]
    /\ shown' = IF m.type = "request" THEN [shown EXCEPT ![p] = @ \cup {m.of}] ELSE shown
    /\ displaced' = displaced
    /\ UNCHANGED <<conn, grants, attach, question, pending, answers, sending, events>>

(* onClientRequest and onClientRequestClosed.                               *)
Deliver(p) ==
    LET m == Head(net[p]) IN
    /\ net[p] # << >>
    /\ net' = [net EXCEPT ![p] = Tail(@)]
    /\ dialog' = CASE m.type = "request" -> [dialog EXCEPT ![p] = m.of]
                   [] m.type = "closed"  -> [dialog EXCEPT ![p] = IF @ = m.of THEN None ELSE @]
                   [] OTHER -> dialog
    /\ IF m.type = "request"
       THEN /\ shown' = [shown EXCEPT ![p] = @ \cup {m.of}]
            /\ displaced' = [displaced EXCEPT ![p] = (@ \cup {dialog[p]}) \ {None, m.of}]
       ELSE UNCHANGED <<shown, displaced>>
    /\ UNCHANGED <<conn, grants, attach, question, pending, answers, sending, events>>

(* submit: the attachments are encoded before anything is sent.             *)
Submit(p) ==
    /\ dialog[p] \notin sending[p] \cup {None} /\ Event
    /\ sending' = [sending EXCEPT ![p] = @ \cup {dialog[p]}]
    /\ UNCHANGED <<conn, grants, attach, question, pending, net, answers, dialog,
                   shown, displaced>>

(* The response leaves and the dialog goes, whichever request it is by now. *)
Answer(p, q, kind) ==
    /\ conn[p] = "open"
    /\ answers' = answers \cup {[page |-> p, of |-> q, kind |-> kind]}
    /\ dialog' = [dialog EXCEPT ![p] = None]
    /\ displaced' = [displaced EXCEPT ![p] = (@ \cup {dialog[p]}) \ {None, q}]
    /\ UNCHANGED <<conn, grants, attach, question, pending, net, shown>>

SendAnswer(p, q) ==
    /\ q \in sending[p]
    /\ sending' = [sending EXCEPT ![p] = @ \ {q}]
    /\ \E kind \in {"answered", "cancelled"} : Answer(p, q, kind)
    /\ UNCHANGED events

Cancel(p) ==
    /\ dialog[p] # None /\ Event
    /\ Answer(p, dialog[p], "cancelled")
    /\ UNCHANGED sending

-----------------------------------------------------------------------------
Next ==
    \/ \E p \in Pages : \/ Connect(p) \/ Leave(p) \/ Deliver(p) \/ Submit(p)
                        \/ Cancel(p)
                        \/ \E q \in Questions : SendAnswer(p, q)
    \/ \E h \in Attaches : \/ \E p \in Pages, s \in Sessions : AttachReceived(h, p, s)
                           \/ AttachGrant(h) \/ AttachResend(h)
    \/ \E q \in Questions : \/ \E s \in Sessions : AskQuestion(q, s)
                            \/ Abort(q)
    \/ \E a \in answers : Respond(a)

Spec == Init /\ [][Next]_vars

-----------------------------------------------------------------------------
TypeOK ==
    /\ conn \in [Pages -> {"new", "open", "lost", "closed"}]
    /\ grants \in [Pages -> SUBSET Sessions]
    /\ \A q \in Questions : question[q].end \in Outcomes \cup {None}
    /\ IsInjective(pending)
    /\ Pending = {q \in Questions : question[q].at = "pending"}
    /\ dialog \in [Pages -> Questions \cup {None}]

(* The handler that will resend q to p, if it is at work.                   *)
Resending(p, q) ==
    \E h \in Attaches : /\ attach[h].at = "resend" /\ q \notin attach[h].seen
                        /\ attach[h].page = p /\ attach[h].on = question[q].on

(* attachSessionGrant against requestSessionClientQuestion: whichever comes  *)
(* first, a pending question reached, is reaching or will be resent to every *)
(* connection that owns the grant.                                           *)
NoQuestionMissed ==
    \A q \in Pending : \A p \in Owners(question[q].on) : conn[p] = "open" =>
        \/ q \in shown[p] \/ Resending(p, q)
        \/ \E i \in DOMAIN net[p] : net[p][i] = Ask(q)

(* finish against the resend: the close follows every copy of the request,  *)
(* so a page that has nothing more to read never shows a question that is   *)
(* over.                                                                    *)
NoStaleDialog ==
    \A p \in Pages : conn[p] = "open" /\ net[p] = << >> /\ dialog[p] # None =>
        dialog[p] \in Pending

(* The reason the pages are told is how the tool call ended: a late abort or *)
(* a second answer tells nobody anything else.                               *)
ClosedAsEnded ==
    \A p \in Pages : \A i \in DOMAIN net[p] : net[p][i].type = "closed" =>
        net[p][i].reason = question[net[p][i].of].end

(* onClientRequestClosed: a question that reached an open page stays on it   *)
(* until it is over or submitted, unless another question took its place.    *)
ShownUntilOver ==
    \A p \in Pages : \A q \in Pending : conn[p] = "open" /\ q \in shown[p] =>
        \/ dialog[p] = q \/ q \in displaced[p]
        \/ \E a \in answers : a.of = q /\ a.page = p

=============================================================================
