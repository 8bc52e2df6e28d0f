-------------------------------- MODULE Chat --------------------------------
(***************************************************************************)
(* Chat sessions: one page of the web client, its chat models and its HTTP *)
(* requests, and the handlers and the turn of the server.  A chat has no   *)
(* socket: a page learns how a turn went from the response to its own      *)
(* request, or from loading the chat's rows.  Nothing but the isrunning    *)
(* column keeps two turns of a chat apart, and the handler that tests it   *)
(* awaits the settings before the turn sets it.                            *)
(* Abstracted: titles, models, tools and the rows within a turn.           *)
(***************************************************************************)
EXTENDS Naturals, FiniteSets

CONSTANTS MaxRequests, MaxEvents, \* bounds: messages sent; loads, deletions, faults
          None

BoundsAssumption == {MaxRequests, MaxEvents} \subseteq Nat
NoneAssumption == None \notin Nat /\ None \notin BOOLEAN /\ None \notin {"free", "sent", "row"}

Requests == 1 .. MaxRequests
\* Chat r is created by request r, sent from the draft of the one folder.
Chats == Requests
\* The draft of the folder.
Draft == 0
Keys == {Draft} \cup Chats

VARIABLES
    surface,  \* what the page shows: the draft, a chat, or neither
    ui,       \* the page's model of each: absent, free, locked by a request sent, locked by a row loaded
    actions,  \* pendingActions: the submissions under way
    req,      \* the requests, on the page and in the server
    loads,    \* loads of a chat's rows under way
    row,      \* the chatsession rows: absent, or isrunning
    folder,   \* the folder is there
    del,      \* chats whose deletion has passed its test
    hurt,     \* chats whose turn was cut off where nothing ends it
    events    \* against MaxEvents

page == <<surface, ui, actions>>
store == <<row, folder, del>>
vars == <<page, req, loads, store, hurt, events>>

Locked(k) == ui[k] \in {"sent", "row"}
\* Between updateChatSessionStartTurn and updateChatSessionEndTurn.
TurnPcs == {"started", "looping", "ending", "failing", "failEnding"}
ServerPcs == {"creating", "arrived", "checked", "reading"} \cup TurnPcs
Unused == [at |-> "unused", from |-> None, key |-> None, chat |-> None, live |-> FALSE]

Init ==
    /\ surface = None
    /\ ui = [k \in Keys |-> None] /\ actions = {}
    /\ req = [r \in Requests |-> Unused] /\ loads = {}
    /\ row = [c \in Chats |-> None] /\ folder = TRUE /\ del = {}
    /\ hurt = {} /\ events = 0

Event == events < MaxEvents /\ events' = events + 1
NotEvent == UNCHANGED events
Go(r, at) == req' = [req EXCEPT ![r].at = at]
\* The response, or the end of the stream; nobody reads it after a reload.
Reply(r, at) == Go(r, IF req[r].live THEN at ELSE "over")
Running(c) == row[c] = TRUE
There(c) == row[c] # None

(***************************************************************************)
(* The page.                                                               *)
(***************************************************************************)
\* The models and the loads after a surface is opened.
Open(k, models) ==
    /\ surface' = k
    /\ ui' = IF k = Draft /\ models[k] = None THEN [models EXCEPT ![k] = "free"] ELSE models
    /\ loads' = IF k \in Chats THEN loads \cup {[chat |-> k, id |-> events, at |-> "asked", running |-> FALSE]}
                ELSE loads

\* The menu lists the chats there are.
Navigate(k) ==
    /\ Event /\ k # surface
    /\ k \in Chats => There(k)
    /\ Open(k, ui)
    /\ UNCHANGED <<actions, req, store, hurt>>

\* submitChat.
Submit(r) ==
    /\ req[r].at = "unused" /\ \A q \in Requests : q < r => req[q].at # "unused"
    /\ surface \in Keys /\ ui[surface] # None
    /\ ~Locked(surface) /\ surface \notin actions
    /\ actions' = actions \cup {surface}
    /\ ui' = [ui EXCEPT ![surface] = "sent"]
    /\ req' = [req EXCEPT ![r] = [at |-> IF surface = Draft THEN "creating" ELSE "arrived",
                                  from |-> surface, key |-> surface, live |-> TRUE,
                                  chat |-> IF surface = Draft THEN r ELSE surface]]
    /\ UNCHANGED <<surface, loads, store, hurt>> /\ NotEvent

\* The chat was created: its model is the draft's, locked, and the draft's
\* stays; the chat is opened and the message sent to it.
Created(r) ==
    /\ req[r].at = "created"
    /\ req' = [req EXCEPT ![r].at = "arrived", ![r].key = r]
    /\ Open(r, [ui EXCEPT ![Draft] = "sent", ![r] = "sent"])
    /\ UNCHANGED <<actions, store, hurt>> /\ NotEvent

\* A delta arrived.
Progress(r) ==
    /\ req[r].at = "looping" /\ req[r].live
    /\ ui' = [ui EXCEPT ![req[r].chat] = IF @ = None THEN None ELSE "sent"]
    /\ UNCHANGED <<surface, actions, req, loads, store, hurt>> /\ NotEvent

Completed(r) ==
    /\ req[r].at = "completed"
    /\ ui' = [ui EXCEPT ![req[r].chat] = "free"]
    /\ actions' = actions \ {req[r].from} /\ Go(r, "over")
    /\ UNCHANGED <<surface, loads, store, hurt>> /\ NotEvent

(* Seeded bug: the failure is shown where the message was written.          *)
FailedAtOrigin(r) ==
    /\ req[r].at = "failed"
    /\ ui' = [ui EXCEPT ![req[r].from] = "free"]
    /\ actions' = actions \ {req[r].from} /\ Go(r, "over")
    /\ UNCHANGED <<surface, loads, store, hurt>> /\ NotEvent

\* The model that follows the request (requestUiKey) gets the text back.
Failed(r) ==
    /\ req[r].at = "failed"
    /\ ui' = [ui EXCEPT ![req[r].key] = "free"]
    /\ actions' = actions \ {req[r].from} /\ Go(r, "over")
    /\ UNCHANGED <<surface, loads, store, hurt>> /\ NotEvent

\* applyChatSessionLoaded: the row as it was read.
Loaded(l) ==
    /\ l.at = "read"
    /\ ui' = [ui EXCEPT ![l.chat] = IF l.running THEN "row" ELSE "free"]
    /\ loads' = loads \ {l}
    /\ UNCHANGED <<surface, actions, req, store, hurt>> /\ NotEvent

\* The page is loaded anew.
Reload ==
    /\ Event
    /\ surface' = None /\ ui' = [k \in Keys |-> None] /\ actions' = {} /\ loads' = {}
    /\ req' = [r \in Requests |-> CASE req[r].at \in ServerPcs -> [req[r] EXCEPT !.live = FALSE]
                                    [] req[r].at = "unused" -> req[r]
                                    [] OTHER -> [req[r] EXCEPT !.live = FALSE, !.at = "over"]]
    /\ UNCHANGED <<store, hurt>>

(***************************************************************************)
(* The handlers of the server.                                             *)
(***************************************************************************)
Create(r) ==
    /\ req[r].at = "creating"
    /\ row' = IF folder THEN [row EXCEPT ![r] = FALSE] ELSE row
    /\ Reply(r, IF folder THEN "created" ELSE "failed")
    /\ UNCHANGED <<page, loads, folder, del, hurt>> /\ NotEvent

\* The message handler reads the row; a running chat takes no message.
Check(r) ==
    /\ req[r].at = "arrived"
    /\ IF There(req[r].chat) /\ ~Running(req[r].chat) THEN Go(r, "checked") ELSE Reply(r, "failed")
    /\ UNCHANGED <<page, loads, store, hurt>> /\ NotEvent

ReadRow(l) ==
    /\ l.at = "asked"
    /\ loads' = (loads \ {l}) \cup
         (IF There(l.chat) THEN {[l EXCEPT !.at = "read", !.running = Running(l.chat)]} ELSE {})
    /\ UNCHANGED <<page, req, store, hurt>> /\ NotEvent

\* deleteChatSession tests the row and deletes it in two queries.
DeleteCheck(c) ==
    /\ Event /\ There(c) /\ ~Running(c) /\ c \notin del
    /\ del' = del \cup {c}
    /\ UNCHANGED <<page, req, loads, row, folder, hurt>>

\* The rows go with the chat, and the page leaves it.
Delete(c) ==
    /\ c \in del /\ del' = del \ {c}
    /\ row' = [row EXCEPT ![c] = None]
    /\ surface' = IF surface = c THEN None ELSE surface
    /\ UNCHANGED <<ui, actions, req, loads, folder, hurt>> /\ NotEvent

DeleteFolder ==
    /\ Event /\ folder
    /\ folder' = FALSE /\ row' = [c \in Chats |-> None]
    /\ surface' = None
    /\ UNCHANGED <<ui, actions, req, loads, del, hurt>>

(***************************************************************************)
(* The turn (runChatSessionTurn).  Each step is one query, which fails     *)
(* when the chat is gone, or for a fault of the database, the provider or  *)
(* a tool.                                                                 *)
(***************************************************************************)
Ok(r) == There(req[r].chat) /\ NotEvent
Broken(r) == (~There(req[r].chat) /\ NotEvent) \/ Event

\* The turn is cut off before its try block or inside its catch block.
CutOff(r) ==
    /\ hurt' = hurt \cup {req[r].chat}
    /\ Reply(r, "failed") /\ UNCHANGED row

Start(r) ==
    /\ req[r].at = "checked"
    /\ \/ /\ Ok(r) /\ row' = [row EXCEPT ![req[r].chat] = TRUE]
          /\ Go(r, "started")
       \/ /\ Broken(r) /\ Reply(r, "failed") /\ UNCHANGED row
    /\ UNCHANGED <<page, loads, folder, del, hurt>>

\* The user's row, the history and the tools.
Input(r) ==
    /\ req[r].at = "started"
    /\ \/ Ok(r) /\ Go(r, "looping") /\ UNCHANGED <<row, hurt>>
       \/ Broken(r) /\ CutOff(r)
    /\ UNCHANGED <<page, loads, folder, del>>

\* The iterations, and the answer's row.
Answer(r) ==
    /\ req[r].at = "looping"
    /\ \/ Ok(r) /\ Go(r, "ending")
       \/ Broken(r) /\ Go(r, "failing")
    /\ UNCHANGED <<page, loads, store, hurt>>

End(r) ==
    /\ req[r].at = "ending"
    /\ \/ Ok(r) /\ row' = [row EXCEPT ![req[r].chat] = FALSE] /\ Go(r, "reading")
       \/ Broken(r) /\ Go(r, "failing") /\ UNCHANGED row
    /\ UNCHANGED <<page, loads, folder, del, hurt>>

(* Seeded bug: the error is recorded and the turn left as it is.            *)
RecordErrorOnly(r) ==
    /\ req[r].at = "failing"
    /\ \/ /\ Ok(r)
          /\ Reply(r, "failed") /\ UNCHANGED <<row, hurt>>
       \/ Broken(r) /\ CutOff(r)
    /\ UNCHANGED <<page, loads, folder, del>>

\* The catch block.
RecordError(r) ==
    /\ req[r].at = "failing"
    /\ \/ Ok(r) /\ Go(r, "failEnding") /\ UNCHANGED <<row, hurt>>
       \/ Broken(r) /\ CutOff(r)
    /\ UNCHANGED <<page, loads, folder, del>>

FailEnd(r) ==
    /\ req[r].at = "failEnding"
    /\ \/ Ok(r) /\ row' = [row EXCEPT ![req[r].chat] = FALSE] /\ Reply(r, "failed") /\ UNCHANGED hurt
       \/ Broken(r) /\ CutOff(r)
    /\ UNCHANGED <<page, loads, folder, del>>

\* The chat's row and data for the response.
Read(r) ==
    /\ req[r].at = "reading"
    /\ \/ NotEvent /\ Reply(r, "completed")
       \/ Event /\ Reply(r, "failed")
    /\ UNCHANGED <<page, loads, store, hurt>>

\* The server dies and is started again; nothing resets the rows.
Crash ==
    /\ Event
    /\ hurt' = hurt \cup {req[r].chat : r \in {q \in Requests : req[q].at \in TurnPcs}}
    /\ req' = [r \in Requests |->
                 IF req[r].at \in ServerPcs
                 THEN [req[r] EXCEPT !.at = IF req[r].live THEN "failed" ELSE "over"] ELSE req[r]]
    /\ loads' = {l \in loads : l.at = "read"} /\ del' = {}
    /\ UNCHANGED <<page, row, folder>>

Turn(r) ==
    Start(r) \/ Input(r) \/ Answer(r) \/ End(r) \/ RecordError(r) \/ FailEnd(r) \/ Read(r)

Next ==
    \/ \E k \in Keys \cup {None} : Navigate(k)
    \/ \E r \in Requests : Submit(r) \/ Created(r) \/ Progress(r) \/ Completed(r) \/ Failed(r)
    \/ \E l \in loads : Loaded(l) \/ ReadRow(l)
    \/ \E r \in Requests : Create(r) \/ Check(r) \/ Turn(r)
    \/ \E c \in Chats : DeleteCheck(c) \/ Delete(c)
    \/ Reload \/ DeleteFolder \/ Crash

\* The server's queries are answered, a model call ends (ModelCall), and the
\* page handles its responses.
Spec ==
    /\ Init /\ [][Next]_vars
    /\ \A r \in Requests : WF_vars(Create(r) \/ Check(r) \/ Turn(r) \/ Created(r) \/ Completed(r) \/ Failed(r))

\* A chat is marked running without a turn, so that every message to it is
\* refused, only after a crash or after an error before the turn's try block
\* or inside its catch block.
LockedByCutOff ==
    \A c \in Chats : Running(c) =>
        \/ c \in hurt
        \/ \E r \in Requests : req[r].chat = c /\ req[r].at \in TurnPcs

\* When no submission is under way, no chat is locked for one; a chat can
\* still be locked for a row that was running when it was loaded.
ChatsFree == actions = {} => \A c \in Chats : ui[c] # "sent"

=============================================================================
