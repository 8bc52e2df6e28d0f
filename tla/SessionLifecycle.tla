-------------------------- MODULE SessionLifecycle --------------------------
(***************************************************************************)
(* What session messages other than input do to session rows while turns   *)
(* run: session.delete, session.turn.delete, session.branch.create and     *)
(* session.interrupt, against the row's isrunning mark, the in-memory      *)
(* active turns and the stored history.  A session is the source or the    *)
(* branch a branch message creates.  The turn is that of SessionRun cut    *)
(* down to what it does to the row and the history; a step is the code     *)
(* between two awaits.                                                     *)
(***************************************************************************)
EXTENDS Naturals, FiniteSets, Sequences, Functions

CONSTANTS Turns,      \* turns of any session
          Deletes,    \* session.delete messages
          Cuts,       \* session.turn.delete messages
          Branches,   \* session.branch.create messages; also the new sessions
          Interrupts, \* session.interrupt messages
          Source,     \* the session there is at first
          None,
          MaxEvents   \* bound: the messages above, and database, model and
                      \* socket errors

ASSUME NamesAssumption ==
    /\ Source \notin Branches
    /\ None \notin Turns \cup Branches \cup {Source}
    /\ Turns \cap (Interrupts \cup Branches) = {}
    /\ MaxEvents \in Nat

Sessions == {Source} \cup Branches

VARIABLES
    row,      \* row[s]: the session row, or NoRow
    data,     \* data[s]: the rows of sessiondata, oldest first
    scope,    \* scope[s]: activeTurns, the turn and its phase
    turn,     \* turn[t]: where the turn is, and its session
    aborted,  \* turns whose signal is raised
    del,      \* del[d]: where a deletion is, its session, the phase it read
    cut,      \* cut[c]: where a turn deletion is, its turn, the rows it listed
    branch,   \* branch[b]: where a branch message is, its turn, its source rows
    intr,     \* intr[x]: where an interrupt is, its session, the phase it read
    missed,   \* sessions whose interrupt request no turn will answer
    fresh,    \* fresh[d]: turns started since deletion d last looked
    unmarked, \* turns that ran on after isrunning had been cleared
    overtaken, \* turns whose entry in activeTurns another turn has replaced
    faults

vars == <<row, data, scope, turn, aborted, del, cut, branch, intr, missed,
          fresh, unmarked, overtaken, faults>>
messages == <<del, cut, branch, intr>>
history == <<missed, fresh, unmarked, overtaken>>

NoRow   == [exists |-> FALSE, running |-> FALSE, phase |-> "idle", intr |-> FALSE]
IdleRow == [NoRow EXCEPT !.exists = TRUE]
NoScope == [turn |-> None, phase |-> "idle"]

Phases == {"idle", "starting", "compacting", "model", "finalizing", "interrupted"}

(* The phase whose abort signal an interrupt raises.                        *)
AbortPhases == {"model"}

(* From the update that sets isrunning to the one that ends the turn.       *)
LookPcs == {"scope", "compacting", "checkCompacting", "input", "model",
            "checkModel", "finalizing", "checkFinalizing"}
LivePcs == LookPcs \cup {"answer", "end", "failed", "stopped", "endFailed", "endStopped"}
Live(t) == turn[t].at \in LivePcs

LiveOn(s) == {t \in Turns : Live(t) /\ turn[t].on = s}

Init ==
    /\ row = [s \in Sessions |-> IF s = Source THEN IdleRow ELSE NoRow]
    /\ data = [s \in Sessions |-> << >>]
    /\ scope = [s \in Sessions |-> NoScope]
    /\ turn = [t \in Turns |-> [at |-> "idle", on |-> None, tries |-> 0]]
    /\ aborted = {}
    /\ del = [d \in Deletes |-> [at |-> "idle", on |-> None, phase |-> "idle"]]
    /\ cut = [c \in Cuts |-> [at |-> "idle", of |-> None, ids |-> {}]]
    /\ branch = [b \in Branches |-> [at |-> "idle", of |-> None, src |-> {}]]
    /\ intr = [x \in Interrupts |-> [at |-> "idle", on |-> None, phase |-> "idle"]]
    /\ missed = {}
    /\ fresh = [d \in Deletes |-> {}]
    /\ unmarked = {}
    /\ overtaken = {}
    /\ faults = 0

-----------------------------------------------------------------------------
(* The queries and the in-memory operations the messages share.             *)

Entry(of, kind) == [of |-> of, kind |-> kind]

AppendRow(s, of, kind) == data' = [data EXCEPT ![s] = Append(@, Entry(of, kind))]

(* Seeded bug: only the row is asked, not the turns in memory.              *)
MutationAllowedByRow(s) == row[s] = IdleRow

(* assertSessionHistoryMutationAllowed, on a row just read.                 *)
MutationAllowed(s) == row[s] = IdleRow /\ scope[s] = NoScope

(* updateSessionEndTurn and completeSessionInterrupt: isrunning is cleared, *)
(* whatever runs by then; the second clears interruptrequested too.         *)
ClearRunning(s, keepIntr, by) ==
    /\ row[s].exists
    /\ row' = [row EXCEPT ![s] = [IdleRow EXCEPT !.intr = keepIntr /\ row[s].intr]]
    /\ unmarked' = unmarked \cup (LiveOn(s) \ {by})

(* requestSessionInterrupt with the runtime phase read before, if any.      *)
RequestInterrupt(s, phase) ==
    /\ row[s].exists
    /\ row' = [row EXCEPT ![s].intr = TRUE, ![s].phase = IF phase = "idle" THEN @ ELSE phase]
    /\ missed' = IF \E t \in LiveOn(s) : turn[t].at \in LookPcs
                 THEN missed \ {s} ELSE missed \cup {s}

(* requestRuntimeTurnInterrupt; accepted when there is an active turn.      *)
Accepted(s) == scope[s] # NoScope
RuntimeInterrupt(s) ==
    IF Accepted(s)
    THEN /\ scope' = [scope EXCEPT ![s].phase = "interrupted"]
         /\ aborted' = IF scope[s].phase \in AbortPhases
                       THEN aborted \cup {scope[s].turn} ELSE aborted
    ELSE UNCHANGED <<scope, aborted>>

(* interrupt.complete(): only the turn's own entry is removed.              *)
LeaveScope(t) ==
    scope' = [scope EXCEPT ![turn[t].on] = IF @.turn = t THEN NoScope ELSE @]

(* The bound: one more message or error.                                    *)
MayHappen ==
    Cardinality({d \in Deletes : del[d].at # "idle"})
    + Cardinality({c \in Cuts : cut[c].at # "idle"})
    + Cardinality({b \in Branches : branch[b].at # "idle"})
    + Cardinality({x \in Interrupts : intr[x].at # "idle"}) + faults < MaxEvents

Fault == MayHappen /\ faults' = faults + 1

-----------------------------------------------------------------------------
(* A turn.                                                                  *)

Goto(t, p) == turn' = [turn EXCEPT ![t].at = p]


(* The error goes to handleTurnFailure, and once more if that throws.       *)
Fail(t, p) ==
    turn' = [turn EXCEPT ![t].at = IF turn[t].tries < 2 THEN p ELSE "throw",
                         ![t].tries = IF @ < 2 THEN @ + 1 ELSE @]

(* A request nobody answers any more once t has failed.                     *)
Overlooked(t) ==
    missed' = IF row[turn[t].on].intr THEN missed \cup {turn[t].on} ELSE missed

(* updateSessionStartTurn: the update is conditional on isrunning = false.  *)
StartTurn(t, s) ==
    /\ turn[t].at = "idle" /\ row[s].exists
    /\ IF row[s].running
       THEN turn' = [turn EXCEPT ![t] = [at |-> "done", on |-> s, tries |-> 0]]
            /\ UNCHANGED <<row, missed, fresh>>
       ELSE /\ turn' = [turn EXCEPT ![t] = [at |-> "scope", on |-> s, tries |-> 0]]
            /\ row' = [row EXCEPT ![s] = [exists |-> TRUE, running |-> TRUE,
                                          phase |-> "starting", intr |-> FALSE]]
            /\ missed' = missed \ {s}
            /\ fresh' = [d \in Deletes |-> IF del[d].at = "delete" /\ del[d].on = s
                                           THEN fresh[d] \cup {t} ELSE fresh[d]]
    /\ UNCHANGED <<data, scope, aborted, messages, unmarked, overtaken, faults>>

(* beginTurnInterruptScope, then a compaction or none.                      *)
BeginScope(t) ==
    /\ turn[t].at = "scope"
    /\ scope' = [scope EXCEPT ![turn[t].on] = [turn |-> t, phase |-> "starting"]]
    /\ overtaken' = overtaken \cup ({scope[turn[t].on].turn} \ {None})
    /\ \E p \in {"compacting", "input"} : Goto(t, p)
    /\ UNCHANGED <<row, data, aborted, messages, missed, fresh, unmarked, faults>>

(* setPhase: the entry's phase, the row's phase, then the checkpoint.       *)
SetPhase(t, p, check) ==
    LET s == turn[t].on IN
    /\ turn[t].at = p
    /\ scope' = [scope EXCEPT ![s].phase = IF @ # "idle" /\ scope[s].turn = t THEN p ELSE @]
    /\ IF row[s].exists
       THEN /\ row' = [row EXCEPT ![s].phase = p]
            /\ Goto(t, check) /\ UNCHANGED missed
       ELSE /\ IF p = "compacting" THEN Goto(t, "throw") ELSE Fail(t, "failed")
            /\ Overlooked(t) /\ UNCHANGED row
    /\ UNCHANGED <<data, aborted, messages, fresh, unmarked, overtaken, faults>>

(* Seeded bug: a checkpoint that asks the signal and not the row.           *)
CheckpointBySignal(t, check, p, next) ==
    /\ turn[t].at = check
    /\ IF t \in aborted
       THEN (IF p = "compacting" THEN Goto(t, "throw") ELSE Fail(t, "stopped"))
            /\ (IF p = "compacting" THEN Overlooked(t) ELSE UNCHANGED missed)
       ELSE Goto(t, next) /\ UNCHANGED missed
    /\ UNCHANGED <<row, data, scope, aborted, messages, fresh, unmarked, overtaken, faults>>

(* checkpointTurnInterrupt: the row's request or the raised signal; an error *)
(* before the user row exists is rethrown at once.                           *)
Checkpoint(t, check, p, next) ==
    LET s == turn[t].on IN
    /\ turn[t].at = check
    /\ IF row[s].intr \/ t \in aborted
       THEN /\ IF p = "compacting" THEN Goto(t, "throw") ELSE Fail(t, "stopped")
            /\ aborted' = IF row[s].phase \in AbortPhases /\ scope[s].turn = t
                          THEN aborted \cup {t} ELSE aborted
            /\ IF p = "compacting" THEN Overlooked(t) ELSE UNCHANGED missed
       ELSE Goto(t, next) /\ UNCHANGED <<aborted, missed>>
    /\ UNCHANGED <<row, data, scope, messages, fresh, unmarked, overtaken, faults>>

AppendInput(t) ==
    /\ turn[t].at = "input"
    /\ IF row[turn[t].on].exists
       THEN AppendRow(turn[t].on, t, "user") /\ Goto(t, "model")
       ELSE Goto(t, "throw") /\ UNCHANGED data
    /\ UNCHANGED <<row, scope, aborted, messages, history, faults>>

AppendAnswer(t) ==
    /\ turn[t].at = "answer"
    /\ IF row[turn[t].on].exists
       THEN AppendRow(turn[t].on, t, "answer") /\ Goto(t, "end")
       ELSE Fail(t, "failed") /\ UNCHANGED data
    /\ UNCHANGED <<row, scope, aborted, messages, history, faults>>

(* handleTurnFailure, which itself throws when the row is gone.             *)
AppendFailure(t) ==
    /\ turn[t].at \in {"failed", "stopped"}
    /\ IF row[turn[t].on].exists
       THEN /\ AppendRow(turn[t].on, t, IF turn[t].tries = 1 THEN "failure" ELSE "again")
            /\ Goto(t, IF turn[t].at = "failed" THEN "endFailed" ELSE "endStopped")
       ELSE Fail(t, turn[t].at) /\ UNCHANGED data
    /\ UNCHANGED <<row, scope, aborted, messages, history, faults>>

(* The update that ends the turn; the entry in memory outlives it by the    *)
(* sends and hooks that follow.                                             *)
EndTurn(t) ==
    LET s == turn[t].on IN
    /\ turn[t].at \in {"end", "endFailed", "endStopped"}
    /\ IF row[s].exists
       THEN ClearRunning(s, turn[t].at # "endStopped", t)
            /\ Goto(t, "leaving")
            /\ UNCHANGED missed
       ELSE /\ Fail(t, IF turn[t].at = "endStopped" THEN "stopped" ELSE "failed")
            /\ UNCHANGED <<row, unmarked, missed>>
    /\ UNCHANGED <<data, scope, aborted, messages, fresh, overtaken, faults>>

Leave(t) ==
    /\ turn[t].at \in {"leaving", "throw"}
    /\ turn' = [turn EXCEPT ![t].at = "done", ![t].tries = 0]
    /\ LeaveScope(t)
    /\ aborted' = aborted \ {t}
    /\ UNCHANGED <<row, data, messages, history, faults>>

(* An error at an await, or the abort of the model request.                 *)
TurnFault(t) ==
    /\ turn[t].at \in LivePcs \cup {"leaving"}
    /\ IF t \in aborted /\ turn[t].tries = 0 THEN UNCHANGED faults ELSE Fault
    /\ IF turn[t].at \in {"scope", "compacting", "checkCompacting", "input"}
       THEN Goto(t, "throw")
       ELSE Fail(t, IF t \in aborted THEN "stopped" ELSE "failed")
    /\ unmarked' = IF turn[t].at = "leaving" THEN unmarked \cup {t} ELSE unmarked
    /\ Overlooked(t)
    /\ UNCHANGED <<row, data, scope, aborted, messages, fresh, overtaken>>

Turn(t) ==
    \/ \E s \in Sessions : StartTurn(t, s)
    \/ BeginScope(t)
    \/ SetPhase(t, "compacting", "checkCompacting")
    \/ Checkpoint(t, "checkCompacting", "compacting", "input")
    \/ AppendInput(t)
    \/ SetPhase(t, "model", "checkModel")
    \/ Checkpoint(t, "checkModel", "model", "finalizing")
    \/ SetPhase(t, "finalizing", "checkFinalizing")
    \/ Checkpoint(t, "checkFinalizing", "finalizing", "answer")
    \/ AppendAnswer(t) \/ AppendFailure(t) \/ EndTurn(t) \/ Leave(t) \/ TurnFault(t)

-----------------------------------------------------------------------------
(* session.delete: deleteSession.                                           *)

DelGoto(d, p) == del' = [del EXCEPT ![d].at = p]
DelOnly == UNCHANGED <<data, turn, cut, branch, intr, overtaken, faults>>

DeleteSelect(d, s) ==
    /\ del[d].at = "idle" /\ row[s].exists /\ MayHappen
    /\ del' = [del EXCEPT ![d] = [at |-> IF row[s].running THEN "request" ELSE "delete",
                                  on |-> s,
                                  phase |-> IF row[s].running THEN scope[s].phase ELSE "idle"]]
    /\ UNCHANGED <<row, scope, aborted, missed, fresh, unmarked>> /\ DelOnly

DeleteRequest(d) ==
    /\ del[d].at = "request"
    /\ IF row[del[d].on].exists
       THEN /\ RequestInterrupt(del[d].on, del[d].phase)
            /\ del' = [del EXCEPT ![d].at = "runtime", ![d].phase = "idle"]
       ELSE DelGoto(d, "done") /\ UNCHANGED <<row, missed>>
    /\ UNCHANGED <<scope, aborted, fresh, unmarked>> /\ DelOnly

DeleteRuntime(d) ==
    /\ del[d].at = "runtime"
    /\ RuntimeInterrupt(del[d].on)
    /\ DelGoto(d, IF Accepted(del[d].on) THEN "poll" ELSE "complete")
    /\ UNCHANGED <<row, missed, fresh, unmarked>> /\ DelOnly

DeleteComplete(d) ==
    /\ del[d].at = "complete"
    /\ IF row[del[d].on].exists
       THEN ClearRunning(del[d].on, FALSE, None) /\ DelGoto(d, "poll")
       ELSE DelGoto(d, "done") /\ UNCHANGED <<row, unmarked>>
    /\ UNCHANGED <<scope, aborted, missed, fresh>> /\ DelOnly

(* Seeded bug: the loop's last look is taken for granted.                   *)
DeletePollTrusting(d) ==
    /\ del[d].at = "poll"
    /\ DelGoto(d, "delete")
    /\ fresh' = [fresh EXCEPT ![d] = {}]
    /\ UNCHANGED <<row, scope, aborted, missed, unmarked>> /\ DelOnly

(* The poll ends when the row is idle or gone or the time is up; one more   *)
(* look decides.                                                            *)
DeletePoll(d) ==
    /\ del[d].at = "poll"
    /\ DelGoto(d, IF row[del[d].on].running THEN "done" ELSE "delete")
    /\ fresh' = [fresh EXCEPT ![d] = {}]
    /\ UNCHANGED <<row, scope, aborted, missed, unmarked>> /\ DelOnly

(* One statement deletes the session and its history, whatever isrunning is.*)
DeleteRows(d) ==
    /\ del[d].at = "delete"
    /\ row' = [row EXCEPT ![del[d].on] = NoRow]
    /\ data' = [data EXCEPT ![del[d].on] = << >>]
    /\ DelGoto(d, "done")
    /\ UNCHANGED <<scope, turn, aborted, cut, branch, intr, history, faults>>

Delete(d) ==
    \/ \E s \in Sessions : DeleteSelect(d, s)
    \/ DeleteRequest(d) \/ DeleteRuntime(d) \/ DeleteComplete(d)
    \/ DeletePoll(d) \/ DeleteRows(d)

-----------------------------------------------------------------------------
(* session.turn.delete: deleteSessionTurn, of a turn the client has seen.   *)

IsUserRow(e) == e.kind = "user"

(* Seeded bug: the range runs to the end of the history.                    *)
TurnRangeToEnd(rows, t) ==
    {rows[i] : i \in {j \in DOMAIN rows : \E f \in 1..j : rows[f] = Entry(t, "user")}}

(* sessionTurnRangeForInput: the user row, whose dataid occurs once, and all *)
(* up to the next user row.                                                  *)
TurnPlaces(rows, t) ==
    {j \in DOMAIN rows :
        \E f \in 1..j : /\ rows[f] = Entry(t, "user")
                        /\ \A k \in (f + 1)..j : ~ IsUserRow(rows[k])}

TurnRange(rows, t) == {rows[j] : j \in TurnPlaces(rows, t)}

(* sessionRowsThroughTurn: all up to the last row of that range.             *)
RowsThrough(rows, t) ==
    {rows[i] : i \in {j \in DOMAIN rows : \E k \in TurnPlaces(rows, t) : j <= k}}

Known(t) == \E i \in DOMAIN data[Source] : data[Source][i] = Entry(t, "user")

CutOnly == UNCHANGED <<row, scope, turn, aborted, del, branch, intr, history, faults>>

CutReceived(c, t) ==
    /\ cut[c].at = "idle" /\ Known(t) /\ MayHappen
    /\ cut' = [cut EXCEPT ![c] = [at |-> "check", of |-> t, ids |-> {}]]
    /\ UNCHANGED data /\ CutOnly

CutCheck(c) ==
    /\ cut[c].at = "check"
    /\ cut' = [cut EXCEPT ![c].at = IF MutationAllowed(Source) THEN "list" ELSE "done"]
    /\ UNCHANGED data /\ CutOnly

CutList(c) ==
    LET ids == TurnRange(data[Source], cut[c].of) IN
    /\ cut[c].at = "list"
    /\ cut' = [cut EXCEPT ![c].ids = ids, ![c].at = IF ids = {} THEN "done" ELSE "delete"]
    /\ UNCHANGED data /\ CutOnly

(* The history without the rows listed, in their order.                     *)
Without(rows, ids) ==
    LET kept == {i \in DOMAIN rows : rows[i] \notin ids}
        Upto(i) == {j \in kept : j <= i}
    IN  [n \in 1..Cardinality(kept) |-> rows[CHOOSE i \in kept : Cardinality(Upto(i)) = n]]

CutDelete(c) ==
    /\ cut[c].at = "delete"
    /\ data' = [data EXCEPT ![Source] = Without(@, cut[c].ids)]
    /\ cut' = [cut EXCEPT ![c] = [at |-> "done", of |-> None, ids |-> {}]]
    /\ CutOnly

Cut(c) == (\E t \in Turns : CutReceived(c, t)) \/ CutCheck(c) \/ CutList(c) \/ CutDelete(c)

-----------------------------------------------------------------------------
(* session.branch.create: createBranchSessionFromTurn, the messages about   *)
(* it, and finishBranchSessionCompact, which nobody awaits.                 *)

BranchOnly == UNCHANGED <<scope, turn, aborted, del, cut, intr, missed, fresh, overtaken>>
BranchGoto(b, p) == branch' = [branch EXCEPT ![b].at = p]

BranchReceived(b, t) ==
    /\ branch[b].at = "idle" /\ Known(t) /\ MayHappen
    /\ branch' = [branch EXCEPT ![b] = [at |-> "check", of |-> t, src |-> {}]]
    /\ UNCHANGED <<row, data, unmarked, faults>> /\ BranchOnly

BranchCheck(b) ==
    /\ branch[b].at = "check"
    /\ BranchGoto(b, IF MutationAllowed(Source) THEN "list" ELSE "done")
    /\ UNCHANGED <<row, data, unmarked, faults>> /\ BranchOnly

BranchList(b) ==
    LET src == RowsThrough(data[Source], branch[b].of) IN
    /\ branch[b].at = "list"
    /\ branch' = [branch EXCEPT ![b].src = src, ![b].at = IF src = {} THEN "done" ELSE "create"]
    /\ UNCHANGED <<row, data, unmarked, faults>> /\ BranchOnly

BranchCreate(b) ==
    /\ branch[b].at = "create"
    /\ row' = [row EXCEPT ![b] = IdleRow]
    /\ branch' = [branch EXCEPT ![b] = [at |-> "start", of |-> None, src |-> {}]]
    /\ UNCHANGED <<data, unmarked, faults>> /\ BranchOnly

(* updateSessionStartTurn and updateSessionTurnPhase for the new session.   *)
BranchStart(b) ==
    /\ branch[b].at = "start"
    /\ IF row[b].exists /\ ~ row[b].running
       THEN /\ row' = [row EXCEPT ![b] = [exists |-> TRUE, running |-> TRUE,
                                         phase |-> "starting", intr |-> FALSE]]
            /\ BranchGoto(b, "mark")
       ELSE BranchGoto(b, "done") /\ UNCHANGED row
    /\ UNCHANGED <<data, unmarked, faults>> /\ BranchOnly

BranchMark(b) ==
    /\ branch[b].at = "mark"
    /\ IF row[b].exists
       THEN row' = [row EXCEPT ![b].phase = "compacting"] /\ BranchGoto(b, "announce")
       ELSE BranchGoto(b, "done") /\ UNCHANGED row
    /\ UNCHANGED <<data, unmarked, faults>> /\ BranchOnly

(* The grant, session.branch.created, turn.compact.started and the list.    *)
BranchAnnounce(b) ==
    /\ branch[b].at = "announce"
    /\ BranchGoto(b, "compact")
    /\ UNCHANGED <<row, data, unmarked, faults>> /\ BranchOnly

(* summarizeCompactHistory: a fallback text is an error here.               *)
BranchCompact(b) ==
    /\ branch[b].at = "compact"
    /\ \E p \in {"append", "catch"} : BranchGoto(b, p)
    /\ UNCHANGED <<row, data, unmarked, faults>> /\ BranchOnly

BranchAppend(b) ==
    /\ branch[b].at = "append"
    /\ IF row[b].exists
       THEN AppendRow(b, b, "compact") /\ BranchGoto(b, "end")
       ELSE BranchGoto(b, "catch") /\ UNCHANGED data
    /\ UNCHANGED <<row, unmarked, faults>> /\ BranchOnly

(* updateSessionEndTurn: after the compaction, in compactBranchSession's    *)
(* catch block and in sendBranchCompactFailedEvent, which ignore its error. *)
BranchEnd(b, p, next, orElse) ==
    /\ branch[b].at = p
    /\ IF row[b].exists
       THEN ClearRunning(b, TRUE, None) /\ BranchGoto(b, next)
       ELSE BranchGoto(b, orElse) /\ UNCHANGED <<row, unmarked>>
    /\ UNCHANGED <<data, faults>> /\ BranchOnly

(* Seeded bug: the row is ended only where the compaction succeeded.        *)
BranchEndsOnce(b) ==
    \/ BranchEnd(b, "end", "tell", "catch")
    \/ /\ branch[b].at \in {"catch", "fail"}
       /\ BranchGoto(b, IF branch[b].at = "catch" THEN "fail" ELSE "failRow")
       /\ UNCHANGED <<row, data, unmarked, faults>> /\ BranchOnly

BranchEnds(b) ==
    \/ BranchEnd(b, "end", "tell", "catch")
    \/ BranchEnd(b, "catch", "fail", "fail")
    \/ BranchEnd(b, "fail", "failRow", "failRow")

(* The error row; an error here is a rejection that nothing handles.        *)
BranchFailRow(b) ==
    /\ branch[b].at = "failRow"
    /\ IF row[b].exists
       THEN AppendRow(b, b, "error") /\ BranchGoto(b, "tellFailed")
       ELSE BranchGoto(b, "unhandled") /\ UNCHANGED data
    /\ UNCHANGED <<row, unmarked, faults>> /\ BranchOnly

BranchTell(b) ==
    /\ branch[b].at \in {"tell", "tellFailed"}
    /\ BranchGoto(b, "done")
    /\ UNCHANGED <<row, data, unmarked, faults>> /\ BranchOnly

BranchFault(b) ==
    /\ Fault
    /\ \/ branch[b].at \in {"check", "list", "create", "start", "mark"} /\ BranchGoto(b, "gone")
       \/ branch[b].at = "announce" /\ BranchGoto(b, "gone")
       \/ branch[b].at \in {"append", "end"} /\ BranchGoto(b, "catch")
       \/ branch[b].at \in {"catch", "tell"} /\ BranchGoto(b, "fail")
       \/ branch[b].at = "fail" /\ BranchGoto(b, "failRow")
       \/ branch[b].at \in {"failRow", "tellFailed"} /\ BranchGoto(b, "unhandled")
    /\ UNCHANGED <<row, data, unmarked>> /\ BranchOnly

Branch(b) ==
    \/ \E t \in Turns : BranchReceived(b, t)
    \/ BranchCheck(b) \/ BranchList(b) \/ BranchCreate(b) \/ BranchStart(b)
    \/ BranchMark(b) \/ BranchAnnounce(b) \/ BranchCompact(b) \/ BranchAppend(b)
    \/ BranchEnds(b) \/ BranchFailRow(b) \/ BranchTell(b) \/ BranchFault(b)

-----------------------------------------------------------------------------
(* session.interrupt.                                                       *)

IntGoto(x, p) == intr' = [intr EXCEPT ![x].at = p]
IntOnly == UNCHANGED <<turn, del, cut, branch, fresh, overtaken, faults>>

IntRead(x, s) ==
    /\ intr[x].at = "idle" /\ MayHappen
    /\ row[s].exists /\ row[s].phase # "compacting"
    /\ row[s].running \/ scope[s] # NoScope
    /\ intr' = [intr EXCEPT ![x] = [at |-> "append", on |-> s, phase |-> scope[s].phase]]
    /\ UNCHANGED <<row, data, scope, aborted, missed, unmarked>> /\ IntOnly

IntAppend(x) ==
    /\ intr[x].at = "append"
    /\ IF row[intr[x].on].exists
       THEN AppendRow(intr[x].on, x, "interrupt") /\ IntGoto(x, "request")
       ELSE IntGoto(x, "done") /\ UNCHANGED data
    /\ UNCHANGED <<row, scope, aborted, missed, unmarked>> /\ IntOnly

IntRequest(x) ==
    /\ intr[x].at = "request"
    /\ IF row[intr[x].on].exists
       THEN /\ RequestInterrupt(intr[x].on, intr[x].phase)
            /\ intr' = [intr EXCEPT ![x].at = "runtime", ![x].phase = "idle"]
       ELSE IntGoto(x, "done") /\ UNCHANGED <<row, missed>>
    /\ UNCHANGED <<data, scope, aborted, unmarked>> /\ IntOnly

IntRuntime(x) ==
    /\ intr[x].at = "runtime"
    /\ RuntimeInterrupt(intr[x].on)
    /\ IntGoto(x, IF Accepted(intr[x].on) THEN "done" ELSE "complete")
    /\ UNCHANGED <<row, data, missed, unmarked>> /\ IntOnly

IntComplete(x) ==
    /\ intr[x].at = "complete"
    /\ IF row[intr[x].on].exists
       THEN ClearRunning(intr[x].on, FALSE, None)
       ELSE UNCHANGED <<row, unmarked>>
    /\ IntGoto(x, "done")
    /\ UNCHANGED <<data, scope, aborted, missed>> /\ IntOnly

Interrupt(x) ==
    \/ \E s \in Sessions : IntRead(x, s)
    \/ IntAppend(x) \/ IntRequest(x) \/ IntRuntime(x) \/ IntComplete(x)

-----------------------------------------------------------------------------
Next ==
    \/ \E t \in Turns : Turn(t)
    \/ \E d \in Deletes : Delete(d)
    \/ \E c \in Cuts : Cut(c)
    \/ \E b \in Branches : Branch(b)
    \/ \E x \in Interrupts : Interrupt(x)

Spec == Init /\ [][Next]_vars

-----------------------------------------------------------------------------
TypeOK ==
    /\ row \in [Sessions -> [exists : BOOLEAN, running : BOOLEAN, phase : Phases, intr : BOOLEAN]]
    /\ \A s \in Sessions : ~ row[s].exists => row[s] = NoRow /\ data[s] = << >>
    /\ \A s \in Sessions : scope[s] = NoScope \/ scope[s] \in [turn : Turns, phase : Phases \ {"idle"}]
    /\ \A s \in Sessions : IsInjective(data[s])
    /\ faults \in 0..MaxEvents

(* deleteSession's last look: a session that is there is never taken from    *)
(* under a turn, but for one that started after that look or whose isrunning *)
(* mark an interrupt had cleared.                                            *)
DeleteSparesTurns ==
    [][\A d \in Deletes :
          del[d].at = "delete" /\ del'[d].at = "done" /\ row[del[d].on].exists =>
              LiveOn(del[d].on) \subseteq fresh[d] \cup unmarked]_vars

(* deleteSessionTurn takes whole turns: an answer that is stored has its     *)
(* question before it as long as no turn has taken another's active entry.   *)
WholeTurns ==
    \A s \in Sessions : \A i \in DOMAIN data[s] :
        data[s][i].kind \in {"answer", "failure", "again"} /\ overtaken = {} =>
            \E j \in 1..(i - 1) : data[s][j] = Entry(data[s][i].of, "user")

(* createBranchSessionFromTurn summarizes finished turns only: none of the   *)
(* rows listed belongs to a turn that runs, but for one whose active entry   *)
(* another turn has taken.                                                   *)
BranchOfFinishedTurns ==
    \A b \in Branches : \A e \in branch[b].src :
        e.of \in LiveOn(Source) => e.of \in overtaken

(* finishBranchSessionCompact: when the compaction is over the branch is not *)
(* left marked as running, unless two errors struck: each failure is met by  *)
(* one more attempt to end the row, and an attempt that fails too by another.*)
(* Otherwise a mark that stays is that of a turn started on the branch.      *)
BranchSettles ==
    \A b \in Branches :
        branch[b].at \in {"done", "unhandled"} /\ row[b].running /\ faults < 2 =>
            \E t \in Turns : turn[t].on = b

(* requestSessionInterrupt: a session no turn is live in keeps a request (and *)
(* so refuses turn deletion and branching) only if it came after the last     *)
(* checkpoint of its turn or its turn failed with the request unanswered.     *)
StrandedRequestWasLate ==
    \A s \in Sessions : row[s].intr /\ LiveOn(s) = {} => s \in missed
=============================================================================
