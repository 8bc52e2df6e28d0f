------------------------------ MODULE Heartbeat ------------------------------
(***************************************************************************)
(* startSessionHeartbeat: one timer pings every connected client and ends  *)
(* those that left a number of pings unanswered.                           *)
(***************************************************************************)
EXTENDS Naturals, FiniteSets

CONSTANTS Clients,
          Limit  \* heartbeatFailureLimit

HeartbeatAssumption == Limit \in Nat \ {0}

VARIABLES
    socket,  \* socket[c]: "new", "open", "terminated", "closed"
    live,    \* live[c]: the client is there to answer
    pong,    \* pongSinceLastPing
    missed,  \* missedPings
    pings,   \* pings[c]: pings on their way or unanswered
    pongs,   \* pongs[c]: pongs on their way
    silence  \* silence[c]: ticks since the last pong arrived, at most Limit

hvars == <<socket, live, pong, missed, pings, pongs, silence>>

Connected == {c \in Clients : socket[c] \in {"open", "terminated"}}
UpTo(n, top) == IF n < top THEN n ELSE top

HInit ==
    /\ socket = [c \in Clients |-> "new"]
    /\ live = [c \in Clients |-> TRUE]
    /\ pong = [c \in Clients |-> TRUE]
    /\ missed = [c \in Clients |-> 0]
    /\ pings = [c \in Clients |-> 0]
    /\ pongs = [c \in Clients |-> 0]
    /\ silence = [c \in Clients |-> 0]

Connect(c) ==
    /\ socket[c] = "new" /\ socket' = [socket EXCEPT ![c] = "open"]
    /\ UNCHANGED <<live, pong, missed, pings, pongs, silence>>

(* Counting stops at Limit: the code only asks whether it is reached.       *)
Unanswered(c) == c \in Connected /\ ~pong[c]
Late(c) == Unanswered(c) /\ missed[c] + 1 >= Limit

(* Seeded bug: the pong flag is only cleared by a retry.                    *)
TickKeepingFlag ==
    /\ missed' = [c \in Clients |-> IF Unanswered(c) THEN UpTo(missed[c] + 1, Limit)
                                    ELSE missed[c]]
    /\ pong' = pong
    /\ socket' = [c \in Clients |-> IF Late(c) THEN "terminated" ELSE socket[c]]
    /\ pings' = [c \in Clients |-> IF c \in Connected /\ ~Late(c)
                                   THEN UpTo(pings[c] + 1, Limit) ELSE pings[c]]
    /\ silence' = [c \in Clients |-> IF c \in Connected THEN UpTo(silence[c] + 1, Limit)
                                     ELSE silence[c]]
    /\ UNCHANGED <<live, pongs>>

Tick ==
    /\ missed' = [c \in Clients |-> IF Unanswered(c) THEN UpTo(missed[c] + 1, Limit)
                                    ELSE missed[c]]
    /\ pong' = [c \in Clients |-> pong[c] /\ c \notin Connected]
    /\ socket' = [c \in Clients |-> IF Late(c) THEN "terminated" ELSE socket[c]]
    /\ pings' = [c \in Clients |-> IF c \in Connected /\ ~Late(c)
                                   THEN UpTo(pings[c] + 1, Limit) ELSE pings[c]]
    /\ silence' = [c \in Clients |-> IF c \in Connected THEN UpTo(silence[c] + 1, Limit)
                                     ELSE silence[c]]
    /\ UNCHANGED <<live, pongs>>

(* The client's side of the socket answers a ping; the bound is that Limit  *)
(* pings, and as many pongs, are on their way at most.                      *)
Answer(c) ==
    /\ live[c] /\ socket[c] = "open" /\ pings[c] > 0 /\ pongs[c] < Limit
    /\ pings' = [pings EXCEPT ![c] = @ - 1]
    /\ pongs' = [pongs EXCEPT ![c] = @ + 1]
    /\ UNCHANGED <<socket, live, pong, missed, silence>>

(* Seeded bug: a pong does not clear the missed pings.                      *)
PongFlagOnly(c) ==
    /\ c \in Connected /\ pongs[c] > 0
    /\ pongs' = [pongs EXCEPT ![c] = @ - 1]
    /\ pong' = [pong EXCEPT ![c] = TRUE]
    /\ silence' = [silence EXCEPT ![c] = 0]
    /\ UNCHANGED <<socket, live, missed, pings>>

Pong(c) ==
    /\ c \in Connected /\ pongs[c] > 0
    /\ pongs' = [pongs EXCEPT ![c] = @ - 1]
    /\ pong' = [pong EXCEPT ![c] = TRUE]
    /\ missed' = [missed EXCEPT ![c] = 0]
    /\ silence' = [silence EXCEPT ![c] = 0]
    /\ UNCHANGED <<socket, live, pings>>

(* The client's host is gone without a close.                               *)
Vanish(c) ==
    /\ socket[c] = "open" /\ live[c] /\ live' = [live EXCEPT ![c] = FALSE]
    /\ UNCHANGED <<socket, pong, missed, pings, pongs, silence>>

(* The close event of a terminated or closed socket.                        *)
Close(c) ==
    /\ socket[c] = "terminated" \/ (socket[c] = "open" /\ live[c])
    /\ socket' = [socket EXCEPT ![c] = "closed"]
    /\ UNCHANGED <<live, pong, missed, pings, pongs, silence>>

TerminatedClose(c) == socket[c] = "terminated" /\ Close(c)

HNext == Tick \/ \E c \in Clients :
            Connect(c) \/ Answer(c) \/ Pong(c) \/ Vanish(c) \/ Close(c)

(* The timer fires, arrived pongs are handled, a terminated socket closes.  *)
HFairness ==
    /\ WF_hvars(Tick)
    /\ \A c \in Clients : WF_hvars(Pong(c)) /\ WF_hvars(TerminatedClose(c))

HeartbeatSpec == HInit /\ [][HNext]_hvars /\ HFairness

-----------------------------------------------------------------------------
(* The heartbeat ends a connection only after Limit ticks without a pong,   *)
(* late pongs of earlier pings included.                                    *)
Patient ==
    [][\A c \in Clients : socket[c] = "open" /\ socket'[c] = "terminated"
          => silence[c] >= Limit]_hvars

(* A connection whose client has vanished leaves the connected clients.     *)
VanishedLeaves == \A c \in Clients : ~live[c] ~> socket[c] = "closed"
=============================================================================
