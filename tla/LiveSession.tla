---------------------------- MODULE LiveSession ----------------------------
(***************************************************************************)
(* One session as one page shows it.  The server appends the rows of the   *)
(* session's turns and sends an event after each to the pages granted the  *)
(* session; a page also asks for a history summary, which its handler      *)
(* reads from the rows at one moment and sends at a later one, and folds   *)
(* events and summaries into its messages, its turn cards and its running  *)
(* mark.  Turns do not overlap (SessionRun), but the last event of a turn  *)
(* is sent after the row says it is over, so the next may begin before it. *)
(***************************************************************************)
EXTENDS Naturals, FiniteSets, SequencesExt

CONSTANTS MaxTurns, MaxDeltas, MaxSummaries, MaxNet, \* bounds: the last, of messages on their way
          MaxEvents,  \* bound: stopped turns, interrupts, deletions, losses, histories asked again
          None

BoundsAssumption ==
    {MaxTurns, MaxDeltas, MaxSummaries, MaxNet, MaxEvents} \subseteq Nat

Turns == 1 .. MaxTurns
Asks == 1 .. MaxSummaries

VARIABLES
    rows,     \* sessiondata: the rows a page can see, oldest first
    clock,    \* createdat of the latest row: even, what happens after it is odd
    turn,     \* the turn that runs, or ran last
    at,       \* where it is
    deltas,   \* model output of the turn sent so far
    signal,   \* its abort signal
    closing,  \* last events of turns over in the rows, not yet sent
    int,      \* the interrupt being handled
    deleted,  \* turns deleted whose event is not sent
    events,   \* those so far
    granted,  \* the page's connection holds the grant
    net,      \* messages on their way to the page
    asks,     \* asks[i]: the request for a history summary
    page,     \* what the page shows
    dropped,  \* connections lost
    ghosts,   \* deleted turns the page may show on: a summary overtook their deletion
    late      \* an interrupt was accepted for a turn past its last checkpoint

server == <<rows, clock, turn, at, deltas, signal, closing>>
other == <<int, deleted, events>>
history == <<ghosts, late>>
vars == <<server, other, granted, net, asks, page, dropped, history>>

Row(kind, t, n) == [kind |-> kind, turn |-> t, at |-> n]
Message(event, t, n) ==
    [event |-> event, turn |-> t, at |-> n, accepted |-> FALSE, running |-> None, rows |-> << >>]
(* Seeded bug: the last event of a turn carries the session it ran with.    *)
TurnEventAsStarted(event, t, n) == [Message(event, t, n) EXCEPT !.running = TRUE]

\* socketMessages: the session state that an event of the turn loop carries.
TurnEvent(event, t, n) ==
    [Message(event, t, n) EXCEPT !.running = event \notin {"TurnEnd", "InterruptCompleted"}]

(***************************************************************************)
(* The history summary.                                                    *)
(***************************************************************************)
\* A turn: its user row up to the first assistant row or the next user row.
TurnEnds(r, i) ==
    LET after == {j \in i + 1 .. Len(r) : r[j].kind = "assistant" \/ r[j].kind = "user"}
        first == CHOOSE j \in after : \A k \in after : j <= k
    IN  IF after = {} THEN Len(r)
        ELSE IF r[first].kind = "assistant" THEN first ELSE first - 1

HistoryTurn(r, i) ==
    LET own == i .. TurnEnds(r, i)
    IN  [turn |-> r[i].turn,
         final |-> r[TurnEnds(r, i)].kind = "assistant",
         status |-> IF \E j \in own : r[j].kind = "interrupt" THEN "interrupted"
                    ELSE IF r[TurnEnds(r, i)].kind = "assistant" THEN "completed" ELSE "running",
         at |-> r[TurnEnds(r, i)].at]

HistoryTurns(r) ==
    LET inputs == SetToSortSeq({i \in DOMAIN r : r[i].kind = "user"}, <)
    IN  [k \in DOMAIN inputs |-> HistoryTurn(r, inputs[k])]

\* The messages of a summary: each turn's request, then its answer.
ChatOf(turns) ==
    FlattenSeq([k \in DOMAIN turns |->
        << <<"user", turns[k].turn>> >>
            \o (IF turns[k].final THEN << <<"assistant", turns[k].turn>> >> ELSE << >>)])

(***************************************************************************)
(* The page.                                                               *)
(***************************************************************************)
WithoutKinds(chat, kinds) == SelectSeq(chat, LAMBDA x : x[1] \notin kinds)
WithoutPending(chat) == WithoutKinds(chat, {"pending"})

LastCard(cards, Test(_)) ==
    LET fit == {i \in DOMAIN cards : Test(cards[i])}
    IN  IF fit = {} THEN 0 ELSE CHOOSE i \in fit : \A j \in fit : j <= i

IsInterrupt(m) == m.event \in {"Interrupted", "InterruptCompleted"}

\* A recorded input opens a card; any other event goes to the last running one.
ApplyTurnEvent(cards, m) ==
    LET running == LastCard(cards, LAMBDA c : c.status = "running")
        target == IF running > 0 THEN running ELSE IF IsInterrupt(m) THEN Len(cards) ELSE 0
    IN  IF m.event = "InputRecorded"
        THEN Append(cards, [turn |-> m.turn, status |-> "running", at |-> m.at])
        ELSE [i \in DOMAIN cards |->
                IF i # target THEN cards[i]
                ELSE [cards[i] EXCEPT !.at = m.at,
                        !.status = IF IsInterrupt(m) THEN "interrupted"
                                   ELSE IF m.event = "AssistantRecorded" THEN "completed" ELSE @]]

(* Seeded bug: the recorded answer leaves the streamed one in place.        *)
RowMessageOverStream(p, m) ==
    LET entry == IF m.event = "AssistantRecorded" THEN <<"assistant", m.turn>> ELSE <<"user", m.turn>>
    IN  [p EXCEPT !.cards = ApplyTurnEvent(@, m),
                  !.running = m.event = "InputRecorded",
                  !.chat = Append(SelectSeq(WithoutPending(@), LAMBDA x : x # entry), entry)]

RowMessage(p, m) ==
    LET entry == IF m.event = "AssistantRecorded" THEN <<"assistant", m.turn>> ELSE <<"user", m.turn>>
        gone == IF m.event = "AssistantRecorded" THEN {"pending", "stream"} ELSE {"pending"}
    IN  [p EXCEPT !.cards = ApplyTurnEvent(@, m),
                  !.running = m.event = "InputRecorded",
                  !.chat = Append(SelectSeq(WithoutKinds(@, gone), LAMBDA x : x # entry), entry)]

\* Streamed text stands below the other messages; the other events of a running
\* turn do the same without it.
AssistantStream(p, m) ==
    [p EXCEPT !.cards = ApplyTurnEvent(@, m),
              !.running = TRUE,
              !.chat = Append(WithoutKinds(@, {"stream"}), <<"stream", 0>>)]

TurnEnded(p, m) == [p EXCEPT !.running = FALSE, !.chat = WithoutPending(@)]

\* An accepted interrupt is pending; the turn's own event and a rejected one are stored.
Interrupted(p, m) ==
    IF m.accepted THEN [p EXCEPT !.cards = ApplyTurnEvent(@, m), !.running = TRUE]
    ELSE [p EXCEPT !.running = FALSE, !.chat = WithoutPending(@)]

InterruptCompleted(p, m) ==
    [p EXCEPT !.cards = ApplyTurnEvent(@, m), !.running = FALSE, !.chat = WithoutPending(@)]

ProtocolEvent(p, m) ==
    CASE m.event \in {"InputRecorded", "AssistantRecorded"} -> RowMessage(p, m)
      [] m.event = "AssistantDelta" -> AssistantStream(p, m)
      [] m.event = "TurnEnd" -> TurnEnded(p, m)
      [] m.event = "Interrupted" -> Interrupted(p, m)
      [] m.event = "InterruptCompleted" -> InterruptCompleted(p, m)

\* The session state of an event has the last word on the running mark.
ApplyProtocolEvent(p, m) ==
    IF m.running = None THEN ProtocolEvent(p, m)
    ELSE [ProtocolEvent(p, m) EXCEPT !.running = m.running]

\* What the summary has not is kept below it; a pending message it has goes.
MergeChat(chat, restored) ==
    restored \o SelectSeq(chat, LAMBDA x :
        /\ ~Contains(restored, x)
        /\ ~(x[1] = "pending" /\ Contains(restored, <<"user", x[2]>>)))

MergeStatus(current, incoming) ==
    IF current # "running" /\ incoming = "running" THEN current ELSE incoming

MergeCard(cards, new) ==
    LET old == LastCard(cards, LAMBDA c : c.turn = new.turn)
        card == [turn |-> new.turn, status |-> new.status, at |-> new.at]
    IN  IF old = 0 THEN card
        ELSE IF new.at >= cards[old].at
             THEN [card EXCEPT !.status = MergeStatus(cards[old].status, @)]
             ELSE cards[old]

(* Seeded bug: the card of the summary replaces the page's.                 *)
MergeCardsAsRead(cards, turns) ==
    [k \in DOMAIN turns |-> [turn |-> turns[k].turn, status |-> turns[k].status, at |-> turns[k].at]]
        \o SelectSeq(cards, LAMBDA c : \A k \in DOMAIN turns : turns[k].turn # c.turn)

MergeCards(cards, turns) ==
    [k \in DOMAIN turns |-> MergeCard(cards, turns[k])]
        \o SelectSeq(cards, LAMBDA c : \A k \in DOMAIN turns : turns[k].turn # c.turn)

ApplyHistorySummary(p, m) ==
    LET turns == HistoryTurns(m.rows)
    IN  [p EXCEPT !.chat = MergeChat(@, ChatOf(turns)), !.cards = MergeCards(@, turns),
                  !.loaded = TRUE]

TurnDeleted(p, m) ==
    [p EXCEPT !.chat = SelectSeq(@, LAMBDA x : x \notin {<<"user", m.turn>>, <<"assistant", m.turn>>}),
              !.cards = SelectSeq(@, LAMBDA c : c.turn # m.turn)]

(***************************************************************************)
(* The server.                                                             *)
(***************************************************************************)
Init ==
    /\ rows = << >> /\ clock = 0
    /\ turn = 0 /\ at = "idle" /\ deltas = 0 /\ signal = FALSE /\ closing = {}
    /\ int = None /\ deleted = {} /\ events = 0
    /\ granted = FALSE /\ net = << >>
    /\ asks = [i \in Asks |-> [step |-> "unused", rows |-> << >>]]
    /\ page = [chat |-> << >>, cards |-> << >>, running |-> FALSE, loaded |-> FALSE]
    /\ dropped = 0 /\ ghosts = {} /\ late = FALSE

(* The bound.                                                               *)
Event == events < MaxEvents /\ events' = events + 1

Send(ms) == Len(net) < MaxNet /\ net' = IF granted THEN net \o ms ELSE net
AppendRow(kind, t) == clock' = clock + 2 /\ rows' = Append(rows, Row(kind, t, clock + 2))
Emit(event, t) == Send(<<TurnEvent(event, t, clock + 1)>>) /\ UNCHANGED <<rows, clock>>
\* The event of a row has the time of the row.
EmitRow(event, kind) ==
    /\ LET row == CHOOSE i \in DOMAIN rows : rows[i].kind = kind /\ rows[i].turn = turn
       IN  Send(<<TurnEvent(event, turn, rows[row].at)>>)
    /\ UNCHANGED <<rows, clock>>

\* A request starts a turn; the page's own shows at once as a pending message.
StartTurn ==
    /\ at = "idle" /\ turn < MaxTurns
    /\ turn' = turn + 1 /\ at' = "started" /\ deltas' = 0 /\ signal' = FALSE
    /\ page' \in {page} \cup
         (IF granted
          THEN {[page EXCEPT !.running = TRUE, !.chat = Append(@, <<"pending", turn + 1>>)]}
          ELSE {})
    /\ UNCHANGED <<rows, clock, closing, other, granted, net, asks, dropped, history>>

\* A hook that stops the turn appends both rows before it sends their events.
AppendInput ==
    /\ at = "started"
    /\ AppendRow("user", turn)
    /\ \/ at' = "input" /\ UNCHANGED events
       \/ at' = "stopping" /\ Event
    /\ UNCHANGED <<turn, deltas, signal, closing, int, deleted, granted, net, asks, page, dropped, history>>

SendInput ==
    /\ at \in {"input", "stopped"}
    /\ EmitRow("InputRecorded", "user")
    /\ at' = IF at = "input" THEN "model" ELSE "answered"
    /\ UNCHANGED <<turn, deltas, signal, closing, other, granted, asks, page, dropped, history>>

Delta ==
    /\ at = "model" /\ deltas < MaxDeltas
    /\ Emit("AssistantDelta", turn)
    /\ deltas' = deltas + 1
    /\ UNCHANGED <<turn, at, signal, closing, other, granted, asks, page, dropped, history>>

\* The last checkpoint.
Finalize ==
    /\ at = "model" /\ ~signal
    /\ at' = "final"
    /\ UNCHANGED <<rows, clock, turn, deltas, signal, closing, other, granted, net, asks, page, dropped, history>>

SendInterrupted ==
    /\ at = "model" /\ signal
    /\ Emit("Interrupted", turn)
    /\ at' = "halted"
    /\ UNCHANGED <<turn, deltas, signal, closing, other, granted, asks, page, dropped, history>>

AppendAnswer ==
    /\ at \in {"final", "stopping", "halted"}
    /\ AppendRow("assistant", turn)
    /\ at' = CASE at = "final" -> "answered" [] at = "stopping" -> "stopped" [] OTHER -> "excused"
    /\ UNCHANGED <<turn, deltas, signal, closing, other, granted, net, asks, page, dropped, history>>

SendAnswer ==
    /\ at \in {"answered", "excused"}
    /\ EmitRow("AssistantRecorded", "assistant")
    /\ at' = IF at = "answered" THEN "recorded" ELSE "excuseSent"
    /\ UNCHANGED <<turn, deltas, signal, closing, other, granted, asks, page, dropped, history>>

\* The row says the session is idle; the event that says so comes after.
EndRow ==
    /\ at \in {"recorded", "excuseSent"}
    /\ at' = "idle"
    /\ closing' = closing \cup {<<IF at = "recorded" THEN "TurnEnd" ELSE "InterruptCompleted", turn>>}
    /\ UNCHANGED <<rows, clock, turn, deltas, signal, other, granted, net, asks, page, dropped, history>>

SendEnd ==
    \E c \in closing :
        /\ Emit(c[1], c[2])
        /\ closing' = closing \ {c}
        /\ UNCHANGED <<turn, at, deltas, signal, other, granted, asks, page, dropped, history>>

(***************************************************************************)
(* session.interrupt, from the page or from another client.                *)
(***************************************************************************)
Active == at # "idle" \/ closing # {}

IntRead ==
    /\ int = None /\ Active /\ Event
    /\ \E mine \in {FALSE, granted} : int' =
         [step |-> "append", mine |-> mine, accepted |-> FALSE, at |-> 0]
    /\ UNCHANGED <<server, deleted, granted, net, asks, page, dropped, history>>

IntAppend ==
    /\ int # None /\ int.step = "append"
    /\ AppendRow("interrupt", 0)
    /\ int' = [int EXCEPT !.step = "raise", !.at = clock + 2]
    /\ UNCHANGED <<turn, at, deltas, signal, closing, deleted, events, granted, net, asks, page,
                   dropped, history>>

\* The signal of the latest turn that has not left.
IntRaise ==
    /\ int # None /\ int.step = "raise"
    /\ int' = [int EXCEPT !.step = "started", !.accepted = Active]
    /\ signal' = (signal \/ at # "idle")
    /\ UNCHANGED <<rows, clock, turn, at, deltas, closing, deleted, events, granted, net, asks, page,
                   dropped, history>>

\* The two messages to the client that asked.
IntTell ==
    /\ int # None /\ int.step \in {"started", "stored"}
    /\ IF int.mine
       THEN LET time == IF int.step = "started" THEN clock + 1 ELSE int.at
            IN  Send(<<[Message("Interrupted", turn, time) EXCEPT !.accepted = int.accepted]>>)
       ELSE UNCHANGED net
    /\ int' = IF int.step = "started" THEN [int EXCEPT !.step = "stored"] ELSE None
    /\ late' = (late \/ (int.mine /\ int.accepted /\ at # "model"))
    /\ UNCHANGED <<rows, clock, turn, at, deltas, signal, closing, deleted, events, granted, asks, page,
                   dropped, ghosts>>

(***************************************************************************)
(* session.turn.delete and the page's connection.                          *)
(***************************************************************************)
DeleteRows ==
    /\ at = "idle" /\ Event
    /\ \E i \in DOMAIN rows :
        /\ rows[i].kind = "user"
        /\ rows' = SubSeq(rows, 1, i - 1) \o SubSeq(rows, TurnEnds(rows, i) + 1, Len(rows))
        /\ deleted' = deleted \cup {rows[i].turn}
        /\ ghosts' = IF granted THEN ghosts ELSE ghosts \cup {rows[i].turn}
    /\ UNCHANGED <<clock, turn, at, deltas, signal, closing, int, granted, net, asks, page, dropped,
                   late>>

HasTurn(r, t) == \E i \in DOMAIN r : r[i].kind = "user" /\ r[i].turn = t
SnapshotWith(x, t) == x.step = "read" /\ HasTurn(x.rows, t)

TellDeleted ==
    \E t \in deleted :
        /\ deleted' = deleted \ {t}
        /\ Send(<<Message("TurnDeleted", t, clock)>>)
        /\ ghosts' = IF ~granted \/ \E i \in Asks : SnapshotWith(asks[i], t)
                     THEN ghosts \cup {t} ELSE ghosts
        /\ UNCHANGED <<server, int, events, granted, asks, page, dropped, late>>

\* The bound: once all are used nothing is asked.
Unused == {i \in Asks : asks[i].step = "unused"}
Ask == asks' = [i \in Asks |-> IF i \in Unused /\ \A k \in Unused : i <= k
                                THEN [asks[i] EXCEPT !.step = "asked"] ELSE asks[i]]

\* Attaching grants the session and the page asks for its history.
Attach ==
    /\ ~granted /\ Unused # {}
    /\ granted' = TRUE
    /\ Ask
    /\ page' = [page EXCEPT !.loaded = FALSE]
    /\ UNCHANGED <<server, other, net, dropped, history>>

\* Opening the session again asks for its history again.
AskAgain ==
    /\ granted /\ Unused # {} /\ Event
    /\ Ask
    /\ UNCHANGED <<server, int, deleted, granted, net, page, dropped, history>>

SummaryRead(i) ==
    /\ asks[i].step = "asked"
    /\ asks' = [asks EXCEPT ![i] = [step |-> "read", rows |-> rows]]
    /\ UNCHANGED <<server, other, granted, net, page, dropped, history>>

SummarySend(i) ==
    /\ asks[i].step = "read"
    /\ Send(<<[Message("HistorySummary", 0, clock) EXCEPT !.rows = asks[i].rows]>>)
    /\ asks' = [asks EXCEPT ![i] = [step |-> "done", rows |-> << >>]]
    /\ UNCHANGED <<server, other, granted, page, dropped, history>>

\* The connection is lost with what is on it, and what its handlers would send.
Drop ==
    /\ granted /\ Event
    /\ granted' = FALSE /\ net' = << >> /\ dropped' = dropped + 1
    /\ asks' = [i \in Asks |-> IF i \in Unused THEN asks[i] ELSE [step |-> "done", rows |-> << >>]]
    /\ int' = IF int = None THEN None ELSE [int EXCEPT !.mine = FALSE]
    /\ ghosts' = ghosts \cup {m.turn : m \in {net[i] : i \in {j \in DOMAIN net : net[j].event = "TurnDeleted"}}}
    /\ UNCHANGED <<server, deleted, page, late>>

Receive ==
    /\ net # << >>
    /\ net' = Tail(net)
    /\ LET m == Head(net) IN
       CASE m.event = "HistorySummary" ->
              page' = ApplyHistorySummary(page, m) /\ UNCHANGED asks
         [] m.event = "TurnDeleted" -> page' = TurnDeleted(page, m) /\ Ask
         [] OTHER -> page' = ApplyProtocolEvent(page, m) /\ UNCHANGED asks
    /\ UNCHANGED <<server, other, granted, dropped, history>>

Next ==
    \/ StartTurn \/ AppendInput \/ SendInput \/ Delta \/ Finalize \/ SendInterrupted
    \/ AppendAnswer \/ SendAnswer \/ EndRow \/ SendEnd
    \/ IntRead \/ IntAppend \/ IntRaise \/ IntTell
    \/ DeleteRows \/ TellDeleted \/ Attach \/ AskAgain \/ Drop \/ Receive
    \/ \E i \in Asks : SummaryRead(i) \/ SummarySend(i)

Spec == Init /\ [][Next]_vars

(***************************************************************************)
(* Properties.                                                             *)
(***************************************************************************)
\* Nothing runs, nothing is on its way, and the page has its history.
Quiet ==
    /\ at = "idle" /\ closing = {} /\ int = None /\ deleted = {} /\ granted /\ net = << >>
    /\ page.loaded /\ \A i \in Asks : asks[i].step \in {"unused", "done"}

\* When all is quiet the page's messages are the session's, in order and once
\* each, whatever was appended, deleted or missed while its history was read; on
\* a connection that was never lost no streamed or pending message is left.  Only
\* a turn whose deletion was overtaken by a summary read before it stays.
ChatConverges ==
    Quiet =>
        /\ SelectSeq(page.chat, LAMBDA x : x[1] \in {"user", "assistant"} /\ x[2] \notin ghosts)
             = ChatOf(HistoryTurns(rows))
        /\ dropped = 0 => WithoutKinds(page.chat, {"pending", "stream"}) = page.chat

\* When all is quiet the page does not show a session that runs, unless it was
\* told of its interrupt late or lost a connection.
RunningConverges == Quiet => (page.running => late \/ dropped > 0)

\* A history summary reopens no card: a turn the page has seen over does not run
\* again when a summary that was read while it ran arrives.
SummaryReopensNothing ==
    [][\A t \in Turns :
        LET newest(p) == LastCard(p.cards, LAMBDA c : c.turn = t) IN
        /\ net # << >> /\ Head(net).event = "HistorySummary" /\ net' = Tail(net)
        /\ newest(page) > 0 /\ page.cards[newest(page)].status # "running"
        => newest(page') > 0 /\ page'.cards[newest(page')].status # "running"]_vars

=============================================================================
