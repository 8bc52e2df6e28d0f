---------------------------- MODULE WebRequests ----------------------------
(***************************************************************************)
(* How one page of the web client sends a request.  A request for a        *)
(* session is sent when the page is attached to it and otherwise waits for *)
(* the attachment; a request from a draft creates its session, over the    *)
(* socket together with the request or over HTTP before it.  Each await is *)
(* a step, so the user may open another session, and messages may arrive,  *)
(* while attachments are encoded.  The server handles the messages of one  *)
(* page concurrently; its turns are modelled by SessionRun.                *)
(***************************************************************************)
EXTENDS Naturals, FiniteSets, SequencesExt

CONSTANTS Drafts,       \* the drafts a page can have open, one per project
          MaxRequests, MaxEvents, \* bounds: requests; moves, stops, faults and others' turns
          None

BoundsAssumption == {MaxRequests, MaxEvents} \subseteq Nat

Requests == 1 .. MaxRequests
\* Session r is created by request r; session 0 was there before.
Sessions == 0 .. MaxRequests
Keys == Drafts \cup Sessions

NamesAssumption == None \notin Keys /\ None \notin BOOLEAN /\ Drafts \cap Sessions = {}

VARIABLES
    active,   \* the draft or session on the screen
    ui,       \* what the page holds of each
    actions,  \* pendingActions: what a second click does not start again
    attached, \* attachedSessionIds
    listed,   \* isrunning of each session in the page's lists
    socket,   \* socketState, and whether the WebSocket is open
    req,      \* the requests, and what each remembers from its submission
    up, down, \* messages on their way to the server and to the page
    running,  \* isrunning of the sessions there are
    granted,  \* grants of the page's connection
    runs,     \* turns started for each request
    told,     \* requests whose failure was shown where they were made
    refused,  \* idle sessions that refused an input
    strayed,  \* a step of a request met another screen than its own, an error ended the
              \* action of another request, or the connection was lost
    events    \* against MaxEvents

page == <<active, ui, actions, attached, listed>>
server == <<running, granted, runs>>
ghost == <<told, refused, strayed, events>>
vars == <<page, socket, req, up, down, server, ghost>>

Blank == [running |-> FALSE, note |-> FALSE, initial |-> None, attach |-> None]
Message(type, s, r) == [type |-> type, session |-> s, request |-> r]

Init ==
    /\ active \in Drafts \cup {0}
    /\ ui = [k \in Keys |-> Blank]
    /\ actions = {} /\ attached = {}
    /\ listed = [s \in Sessions |-> IF s = 0 THEN FALSE ELSE None]
    /\ socket = [state |-> "negotiating", open |-> TRUE]
    /\ req = [r \in Requests |-> [at |-> "unused", key |-> None, live |-> FALSE]]
    /\ up = << >> /\ down = << >>
    /\ running = [s \in {0} |-> FALSE] /\ granted = {}
    /\ runs = [r \in Requests |-> 0] /\ told = {} /\ refused = {} /\ strayed = FALSE /\ events = 0

Event == events < MaxEvents /\ events' = events + 1
NotEvent == UNCHANGED events

Down(m) == down' = IF socket.open THEN Append(down, m) ELSE down
\* Only owners of a grant are told of a session's turns.
Tell(type, s) == down' = IF s \in granted /\ socket.open THEN Append(down, Message(type, s, None)) ELSE down

\* attachSession, run once by each of n effects.
Attaches(s, state, n) ==
    IF s \in Sessions /\ s \notin attached /\ state = "connected" /\ socket.open
    THEN [i \in 1 .. n |-> Message("attach", s, None)] ELSE << >>

\* The row of session s, which is idle.
NewSession(s) == running' = [t \in DOMAIN running \cup {s} |-> t \in DOMAIN running /\ running[t]]

(***************************************************************************)
(* The user.                                                               *)
(***************************************************************************)
Navigate(k) ==
    /\ k # active /\ Event
    /\ k \in Sessions => listed[k] # None
    /\ active' = k
    /\ ui' = IF k \in Sessions THEN [ui EXCEPT ![k].running = listed[k]] ELSE ui
    /\ up' = up \o Attaches(k, socket.state, 2)
    /\ UNCHANGED <<actions, attached, listed, socket, req, down, server, told, refused, strayed>>

\* The form stops a session that runs, by its row or, where that has no say, by its mark.
Stops(k) ==
    LET row == IF k \in Sessions THEN listed[k] ELSE None
    IN  row = TRUE \/ (ui[k].running /\ row # FALSE)

Stop ==
    /\ Stops(active) /\ active \in attached /\ Event
    /\ <<"interrupt", active>> \notin actions
    /\ IF socket.open
       THEN /\ actions' = actions \cup {<<"interrupt", active>>}
            /\ up' = Append(up, Message("interrupt", active, None))
       ELSE UNCHANGED <<actions, up>>
    /\ UNCHANGED <<active, ui, attached, listed, socket, req, down, server, told, refused, strayed>>

Submit(r) ==
    /\ req[r].at = "unused" /\ \A q \in Requests : req[q].at = "unused" => r <= q
    /\ ~Stops(active)
    /\ <<"submit", active>> \notin actions
    /\ actions' = actions \cup {<<"submit", active>>}
    /\ ui' = [ui EXCEPT ![active].running = TRUE, ![active].note = TRUE]
    /\ req' = [req EXCEPT ![r] = [at |-> "encoding", key |-> active, live |-> socket.state = "connected"]]
    /\ NotEvent
    /\ UNCHANGED <<active, attached, listed, socket, up, down, server, told, refused, strayed>>

(***************************************************************************)
(* The rest of the submission, after its attachments are encoded.          *)
(***************************************************************************)
\* updateActiveUi: whatever is on the screen by now.
Unmarked(u, k) == [u EXCEPT ![k].running = FALSE, ![k].note = FALSE]

\* What the end of a failed request does to k, told to the request made there.
Fails(r, k, action) ==
    /\ actions' = actions \ {<<"submit", action>>}
    /\ ui' = Unmarked(ui, k)
    /\ told' = IF k = action THEN told \cup {r} ELSE told
    /\ strayed' = (strayed \/ k # action)

EncodeFailed(r) ==
    /\ req[r].at = "encoding" /\ Event
    /\ Fails(r, active, req[r].key)
    /\ req' = [req EXCEPT ![r].at = "done"]
    /\ UNCHANGED <<active, attached, listed, socket, up, down, server, refused>>

\* u: what the page holds; more: messages of the same step.
SendMessage(r, s, u, done, more) ==
    CASE s \in attached /\ socket.open ->
           /\ up' = up \o more \o <<Message("input", s, r)>>
           /\ ui' = [u EXCEPT ![s].running = TRUE]
           /\ listed' = [listed EXCEPT ![s] = TRUE]
           /\ actions' = done \cup {<<"submit", s>>}
           /\ UNCHANGED <<told, strayed>>
      [] s \notin attached /\ socket.open /\ req[r].live ->
           /\ up' = up \o <<Message("attach", s, None)>> \o more
           /\ ui' = [u EXCEPT ![s].attach = r]
           /\ listed' = [listed EXCEPT ![s] = IF @ = None THEN FALSE ELSE @]
           /\ actions' = done \cup {<<"submit", s>>}
           /\ UNCHANGED <<told, strayed>>
      [] OTHER ->
           /\ ui' = Unmarked(u, s)
           /\ listed' = [listed EXCEPT ![s] = IF @ = None THEN FALSE ELSE @]
           /\ actions' = done
           /\ told' = told \cup {r}
           /\ UNCHANGED <<up, strayed>>

Encoded(r) ==
    /\ req[r].at = "encoding" /\ NotEvent
    /\ IF req[r].key \in Sessions
       THEN /\ SendMessage(r, req[r].key, ui, actions \ {<<"submit", req[r].key>>}, << >>)
            /\ req' = [req EXCEPT ![r].at = "done"]
       ELSE /\ IF req[r].live /\ socket.open
               THEN /\ ui' = [ui EXCEPT ![active].initial = r]
                    /\ up' = Append(up, Message("create", None, r))
                    /\ req' = [req EXCEPT ![r].at = "done"]
               ELSE /\ ui' = IF req[r].live THEN [ui EXCEPT ![active].initial = None] ELSE ui
                    /\ req' = [req EXCEPT ![r].at = "creating"]
                    /\ UNCHANGED up
            /\ strayed' = (strayed \/ (req[r].live /\ active # req[r].key))
            /\ UNCHANGED <<actions, listed, told>>
    /\ UNCHANGED <<active, attached, socket, down, server, refused>>

\* POST sessions: the row, then the answer.
RestCreate(r) ==
    /\ req[r].at = "creating" /\ NotEvent
    /\ NewSession(r)
    /\ req' = [req EXCEPT ![r].at = "created"]
    /\ UNCHANGED <<page, socket, up, down, granted, runs, told, refused, strayed>>

RestFailed(r) ==
    /\ req[r].at = "creating" /\ Event
    /\ Fails(r, active, req[r].key)
    /\ req' = [req EXCEPT ![r].at = "done"]
    /\ UNCHANGED <<active, attached, listed, socket, up, down, server, refused>>

\* promoteToSession: the session takes what the page held of another key, and
\* a draft is gone.
Promoted(from, s) ==
    [k \in Keys |-> IF k = s THEN ui[from] ELSE IF k = from /\ from \in Drafts THEN Blank ELSE ui[k]]

RestDone(r) ==
    /\ req[r].at = "created" /\ NotEvent
    /\ active' = r
    /\ SendMessage(r, r, Promoted(req[r].key, r), actions \ {<<"submit", req[r].key>>},
                   Attaches(r, socket.state, 2))
    /\ req' = [req EXCEPT ![r].at = "done"]
    /\ UNCHANGED <<attached, socket, down, server, refused>>

ServeCreate(i) ==
    LET r == up[i].request IN
    /\ up[i].type = "create"
    /\ \/ /\ Event
          /\ Down(Message("error", req[r].key, r))
          /\ up' = RemoveAt(up, i)
          /\ UNCHANGED <<server, refused>>
       \/ /\ NotEvent
          /\ NewSession(r)
          /\ granted' = granted \cup {r}
          /\ Down(Message("created", r, r))
          /\ up' = Append(RemoveAt(up, i), Message("input", r, r))
          /\ UNCHANGED <<runs, refused>>

ServeAttach(i) ==
    /\ up[i].type = "attach" /\ NotEvent
    /\ granted' = IF socket.open THEN granted \cup {up[i].session} ELSE granted
    /\ Down(Message("attached", up[i].session, None))
    /\ up' = RemoveAt(up, i)
    /\ UNCHANGED <<running, runs, refused>>

\* A session that runs takes no input; an attachment may be refused too.
ServeInput(i) ==
    LET s == up[i].session IN
    /\ up[i].type = "input"
    /\ \/ /\ IF running[s] THEN NotEvent ELSE Event
          /\ Down(Message("error", s, up[i].request))
          /\ refused' = IF running[s] THEN refused ELSE refused \cup {s}
          /\ UNCHANGED <<running, runs>>
       \/ /\ ~running[s] /\ NotEvent
          /\ running' = [running EXCEPT ![s] = TRUE]
          /\ runs' = [runs EXCEPT ![up[i].request] = @ + 1]
          /\ Tell("running", s)
          /\ UNCHANGED refused
    /\ up' = RemoveAt(up, i)
    /\ UNCHANGED granted

ServeInterrupt(i) ==
    /\ up[i].type = "interrupt" /\ NotEvent
    /\ Down(IF running[up[i].session] THEN Message("interrupted", up[i].session, None)
            ELSE Message("error", up[i].session, None))
    /\ up' = RemoveAt(up, i)
    /\ UNCHANGED <<server, refused>>

Serve ==
    /\ \E i \in DOMAIN up : ServeCreate(i) \/ ServeAttach(i) \/ ServeInput(i) \/ ServeInterrupt(i)
    /\ UNCHANGED <<page, socket, req, told, strayed>>

EndTurn(s) ==
    /\ running[s] /\ NotEvent
    /\ running' = [running EXCEPT ![s] = FALSE]
    /\ Tell("end", s)
    /\ UNCHANGED <<page, socket, req, up, granted, runs, told, refused, strayed>>

\* Another client's request, or the queue's.
OtherTurn(s) ==
    /\ ~running[s] /\ Event
    /\ running' = [running EXCEPT ![s] = TRUE]
    /\ Tell("running", s)
    /\ UNCHANGED <<page, socket, req, up, granted, runs, told, refused, strayed>>

(***************************************************************************)
(* Messages to the page.                                                   *)
(***************************************************************************)
OnReady ==
    /\ socket.state = "negotiating" /\ socket.open /\ NotEvent
    /\ socket' = [socket EXCEPT !.state = "connected"]
    /\ up' = up \o Attaches(active, "connected", 1)
    /\ UNCHANGED <<page, req, down, server, told, refused, strayed>>

\* The session takes the first key that waits for one, else what is on the screen.
OnCreated(m) ==
    LET s == m.session
        waiting == {k \in Keys : ui[k].initial # None}
        from == IF waiting # {} THEN waiting ELSE IF active \in Sessions THEN {active} ELSE {req[m.request].key}
    IN  /\ \E k \in from :
            /\ ui' = [Promoted(k, s) EXCEPT ![s].initial = None, ![s].running = TRUE]
            /\ actions' = IF <<"submit", k>> \in actions
                          THEN (actions \ {<<"submit", k>>}) \cup {<<"submit", s>>} ELSE actions
        /\ active' = s
        /\ attached' = attached \cup {s}
        /\ listed' = [listed EXCEPT ![s] = FALSE]
        /\ UNCHANGED <<socket, up, told, strayed>>

(* Seeded bug: the request that waited for the attachment keeps waiting.    *)
OnAttachedKeeping(m) ==
    LET s == m.session
        r == ui[s].attach
    IN  /\ attached' = attached \cup {s}
        /\ ui' = IF r # None THEN [ui EXCEPT ![s].running = TRUE] ELSE ui
        /\ up' = IF r # None THEN Append(up, Message("input", s, r)) ELSE up
        /\ UNCHANGED <<active, actions, listed, socket, told, strayed>>

OnAttached(m) ==
    LET s == m.session
        r == ui[s].attach
    IN  /\ attached' = attached \cup {s}
        /\ ui' = IF r # None THEN [ui EXCEPT ![s].attach = None, ![s].running = TRUE] ELSE ui
        /\ up' = IF r # None THEN Append(up, Message("input", s, r)) ELSE up
        /\ UNCHANGED <<active, actions, listed, socket, told, strayed>>

\* The end of a turn, and of an interrupted one, clears what was started for it.
OnSessionEvent(m) ==
    LET s == m.session
        runs_ == m.type # "end"
    IN  /\ actions' = IF m.type = "end" THEN actions \ {<<"submit", s>>, <<"interrupt", s>>} ELSE actions
        /\ listed' = IF m.type = "interrupted" \/ listed[s] = None THEN listed ELSE [listed EXCEPT ![s] = runs_]
        /\ ui' = [ui EXCEPT ![s].running = runs_, ![s].note = ui[s].note /\ m.type = "interrupted"]
        /\ UNCHANGED <<active, attached, socket, up, told, strayed>>

\* An error names no session: every request's action ends, and the screen is unmarked
\* if there was one.  The handler's activeUi is that of the render that opened the
\* socket, and holds no request.
OnProtocolError(m) ==
    LET had == actions # {}
        kept == [ui EXCEPT ![active].initial = None, ![active].attach = None, ![active].note = FALSE]
    IN  /\ socket' = [socket EXCEPT !.state = "error"]
        /\ actions' = {}
        /\ ui' = IF had THEN [kept EXCEPT ![active].running = FALSE] ELSE kept
        /\ told' = IF m.request # None /\ m.session = active THEN told \cup {m.request} ELSE told
        /\ strayed' = (strayed \/ \E k \in {m.session} \cup {a[2] : a \in actions} : k # active)
        /\ UNCHANGED <<active, attached, listed, up>>

Receive ==
    /\ down # << >>
    /\ LET m == Head(down) IN
       CASE m.type = "created" -> OnCreated(m)
         [] m.type = "attached" -> OnAttached(m)
         [] m.type = "error" -> OnProtocolError(m)
         [] OTHER -> OnSessionEvent(m)
    /\ down' = Tail(down) /\ NotEvent
    /\ UNCHANGED <<req, server, refused>>

\* What the screen waits for is given up.
Rejected ==
    /\ actions' = actions \ {<<"submit", active>>, <<"interrupt", active>>}
    /\ ui' = [Unmarked(ui, active) EXCEPT ![active].initial = None, ![active].attach = None]

\* The connection closes, for an error or not; what the server has of it may still
\* be handled.
Close(failed) ==
    /\ socket.open /\ Event
    /\ socket' = [state |-> IF failed THEN "error"
                            ELSE IF socket.state = "connected" THEN "idle" ELSE socket.state,
                  open |-> FALSE]
    /\ IF failed \/ socket.state = "negotiating" THEN Rejected ELSE UNCHANGED <<actions, ui>>
    /\ down' = << >> /\ up' \in {up, << >>} /\ granted' = {} /\ strayed' = TRUE
    /\ UNCHANGED <<active, attached, listed, req, running, runs, told, refused>>

Next ==
    \/ \E k \in Keys : Navigate(k)
    \/ Stop
    \/ \E r \in Requests : Submit(r) \/ EncodeFailed(r) \/ Encoded(r) \/ RestCreate(r) \/ RestFailed(r) \/ RestDone(r)
    \/ Serve
    \/ \E s \in DOMAIN running : EndTurn(s) \/ OtherTurn(s)
    \/ OnReady \/ Receive
    \/ \E failed \in BOOLEAN : Close(failed)

Spec == Init /\ [][Next]_vars

(***************************************************************************)
(* Properties.                                                             *)
(***************************************************************************)
\* Nothing is under way, the page is connected and has missed nothing.
Quiet ==
    /\ up = << >> /\ down = << >> /\ socket.open /\ ~strayed
    /\ \A r \in Requests : req[r].at \in {"unused", "done"}
    /\ \A s \in DOMAIN running : ~running[s]

\* A request is answered by one turn at most, whichever way it reaches the server
\* and however often its session is attached meanwhile.
RunsOnce == \A r \in Requests : runs[r] <= 1

\* When all is quiet every composer can send again: no action is left pending, no
\* message is shown as on its way, and neither row nor mark asks to stop an idle
\* session, unless it refused an input its row was marked running for.
ComposersFree ==
    Quiet => actions = {} /\ \A k \in Keys : ~ui[k].note /\ (k \in refused \/ ~Stops(k))

\* When all is quiet each request has had its turn, or its failure was shown where
\* it was made.
NothingLost ==
    Quiet => \A r \in Requests : req[r].at = "done" => runs[r] = 1 \/ r \in told
=============================================================================
