------------------------------ MODULE Selfcheck ------------------------------
(***************************************************************************)
(* The background selfcheck: the scheduler and the settings menu start     *)
(* analyzer runs; a run takes an advisory lock, scans the tool results and *)
(* the hook audit rows after a cursor into candidates, and has the model   *)
(* judge the pending ones.  Every query is a step; a query goes to any of  *)
(* the pool's connections, and the lock belongs to the one it went to.     *)
(* A row here is one that is a candidate; its issue is its fingerprint.    *)
(***************************************************************************)
EXTENDS Naturals, Sequences, FiniteSets, FiniteSetsExt

CONSTANTS Jobs,        \* attempts to run the analyzer
          Conns,       \* connections of the database pool
          Issues,      \* fingerprints
          RowIssue,    \* RowIssue[t]: the issues of the rows of table t, by id
          Batch,       \* selfcheck.defaultBatchSize
          Analyses,    \* selfcheck.maxLlmAnalysesPerRun
          MaxAttempts, \* 3 in the code
          None,
          MaxFaults    \* bound: failed queries, crashes and closed connections

SelfcheckAssumption ==
    /\ DOMAIN RowIssue = {"tool", "hook"} /\ None \notin Issues
    /\ \A t \in DOMAIN RowIssue : RowIssue[t] \in Seq(Issues)
    /\ {Batch, Analyses, MaxAttempts} \subseteq Nat \ {0} /\ MaxFaults \in Nat

Tables == {"tool", "hook"}
Modes == {"extract", "analyze", "all"}
Statuses == {"none", "pending", "analyzing", "analyzed", "skipped", "failed"}
Final == {"analyzed", "skipped"}

VARIABLES
    begun,   \* begun[t]: ids handed out by the table's sequence
    visible, \* visible[t]: ids of the rows whose insert has committed
    late,    \* late[t]: committed after a row with a greater id
    cursor,  \* cursor[t]: lastdataid of selfcheck_analysis_cursor
    cand,    \* cand[i]: status and attemptcount of the candidate
    count,   \* count[i]: occurrencecount of the selfcheck row, 0 without one
    locks,   \* locks[c]: how often the connection holds the advisory lock
    running, \* startSelfcheckScheduler's running
    due,     \* nextRunAt has come
    job,     \* job[j]: where the run is and what it has read
    orphans, \* issues whose analysis a crash or a failed query cut off
    shared,  \* two runs have been past the lock at the same time
    faults

vars == <<begun, visible, late, cursor, cand, count, locks, running, due, job,
          orphans, shared, faults>>
rows == <<begun, visible, late>>
ledger == <<cursor, cand, count>>
ghosts == <<orphans, shared>>

Ended == [at |-> "done", ticked |-> FALSE, mode |-> "all", table |-> "tool",
          last |-> 0, todo |-> {}, issue |-> None]

Init ==
    /\ begun = [t \in Tables |-> 0]
    /\ visible = [t \in Tables |-> {}]
    /\ late = [t \in Tables |-> {}]
    /\ cursor = [t \in Tables |-> 0]
    /\ cand = [i \in Issues |-> [status |-> "none", attempts |-> 0]]
    /\ count = [i \in Issues |-> 0]
    /\ locks = [c \in Conns |-> 0]
    /\ running = FALSE
    /\ due = TRUE
    /\ job = [j \in Jobs |-> [Ended EXCEPT !.at = "idle"]]
    /\ orphans = {}
    /\ shared = FALSE
    /\ faults = 0

Fault == faults < MaxFaults /\ faults' = faults + 1

Analyzing == {"model", "settle", "giveup"}
Inside(j) == job[j].at \notin {"idle", "settings", "lock", "done"}
Go(j, at) == job' = [job EXCEPT ![j].at = at]
Statused(i, s) == cand' = [cand EXCEPT ![i].status = s]

-----------------------------------------------------------------------------
(* The sessions write: an insert takes the next id and commits later.       *)

BeginRow(t) ==
    /\ begun[t] < Len(RowIssue[t])
    /\ begun' = [begun EXCEPT ![t] = @ + 1]
    /\ UNCHANGED <<visible, late, ledger, locks, running, due, job, ghosts, faults>>

CommitRow(t, r) ==
    /\ r \in (1..begun[t]) \ visible[t]
    /\ visible' = [visible EXCEPT ![t] = @ \cup {r}]
    /\ late' = [late EXCEPT ![t] = IF \E v \in visible[t] : v > r THEN @ \cup {r} ELSE @]
    /\ UNCHANGED <<begun, ledger, locks, running, due, job, ghosts, faults>>

-----------------------------------------------------------------------------
(* The scheduler's timer and the settings menu.                             *)

Wait ==
    /\ ~due /\ due' = TRUE
    /\ UNCHANGED <<rows, ledger, locks, running, job, ghosts, faults>>

(* running is tested before the settings are read.                          *)
Tick(j) ==
    /\ job[j].at = "idle" /\ ~running /\ due
    /\ job' = [job EXCEPT ![j] = [@ EXCEPT !.at = "settings", !.ticked = TRUE]]
    /\ UNCHANGED <<rows, ledger, locks, running, due, ghosts, faults>>

TickDisabled(j) ==
    /\ job[j].at = "settings"
    /\ due' = FALSE /\ job' = [job EXCEPT ![j] = Ended]
    /\ UNCHANGED <<rows, ledger, locks, running, ghosts, faults>>

TickStart(j) ==
    /\ job[j].at = "settings"
    /\ running' = TRUE /\ due' = FALSE /\ Go(j, "lock")
    /\ UNCHANGED <<rows, ledger, locks, ghosts, faults>>

(* POST of the settings menu, runWebSelfcheck.                              *)
Request(j, mode) ==
    /\ job[j].at = "idle"
    /\ job' = [job EXCEPT ![j] = [@ EXCEPT !.at = "lock", !.mode = mode]]
    /\ UNCHANGED <<rows, ledger, locks, running, due, ghosts, faults>>

(* Seeded bug: running is not reset when the run throws before its try.     *)
ReturnTrying(j) ==
    /\ job' = [job EXCEPT ![j] = Ended]
    /\ running' = (running /\ (~job[j].ticked \/ job[j].at = "lock"))

(* runSelfcheckOnce has returned or thrown; for the scheduler, finally.     *)
Return(j) ==
    /\ job' = [job EXCEPT ![j] = Ended]
    /\ running' = (running /\ ~job[j].ticked)

(* The server process dies: also when the scheduler's settings read throws, *)
(* which nothing catches.  The connections and their locks go with it.      *)
Crash ==
    /\ Fault
    /\ orphans' = orphans \cup {job[j].issue : j \in {k \in Jobs : job[k].at \in Analyzing}}
    /\ job' = [j \in Jobs |-> IF job[j].at = "idle" THEN job[j] ELSE Ended]
    /\ locks' = [c \in Conns |-> 0]
    /\ running' = FALSE /\ due' = TRUE
    /\ UNCHANGED <<rows, ledger, shared>>

-----------------------------------------------------------------------------
(* runSelfcheckOnce.                                                        *)

(* pg_try_advisory_lock: granted again to the connection that holds it.     *)
Lock(j, c) ==
    /\ job[j].at = "lock"
    /\ IF \A d \in Conns \ {c} : locks[d] = 0
       THEN /\ locks' = [locks EXCEPT ![c] = @ + 1]
            /\ shared' = (shared \/ \E k \in Jobs : Inside(k))
            /\ Go(j, "record") /\ UNCHANGED running
       ELSE Return(j) /\ UNCHANGED <<locks, shared>>
    /\ UNCHANGED <<rows, ledger, due, orphans, faults>>

(* The pool closes a connection it has not used for a while.                *)
CloseIdle(c) ==
    /\ Fault /\ locks[c] > 0
    /\ locks' = [locks EXCEPT ![c] = 0]
    /\ UNCHANGED <<rows, ledger, running, due, job, ghosts>>

(* The run row is inserted before the try: a failure skips the unlock.      *)
Record(j) ==
    /\ job[j].at = "record"
    /\ Go(j, IF job[j].mode = "analyze" THEN "pending" ELSE "scan")
    /\ UNCHANGED <<rows, ledger, locks, running, due, ghosts, faults>>

RecordFault(j) ==
    /\ Fault /\ job[j].at = "record"
    /\ Return(j)
    /\ UNCHANGED <<rows, ledger, locks, due, ghosts>>

(* Seeded bug: the cursor is written as soon as the rows are read.          *)
ScanAhead(j) ==
    LET t == job[j].table
        after == {r \in visible[t] : r > cursor[t]}
        batch == {r \in after : Cardinality({s \in after : s <= r}) <= Batch} IN
    /\ job[j].at = "scan"
    /\ job' = [job EXCEPT ![j] = [@ EXCEPT !.at = "upsert", !.todo = batch,
                                           !.last = Max(batch \cup {cursor[t]})]]
    /\ cursor' = [cursor EXCEPT ![t] = Max(batch \cup {cursor[t]})]
    /\ UNCHANGED <<rows, cand, count, locks, running, due, ghosts, faults>>

(* readCursor and the select of the rows after it, oldest first.            *)
Scan(j) ==
    LET t == job[j].table
        after == {r \in visible[t] : r > cursor[t]}
        batch == {r \in after : Cardinality({s \in after : s <= r}) <= Batch} IN
    /\ job[j].at = "scan"
    /\ job' = [job EXCEPT ![j] = [@ EXCEPT !.at = "upsert", !.todo = batch,
                                           !.last = Max(batch \cup {cursor[t]})]]
    /\ UNCHANGED <<rows, ledger, locks, running, due, ghosts, faults>>

(* The fingerprint of a row's issue: failed, empty or useless results.      *)
IssueOf(t, r) == RowIssue[t][r]

(* upsertCandidate: a known fingerprint keeps its status.                   *)
Upsert(j) ==
    LET r == Min(job[j].todo)  i == IssueOf(job[j].table, r) IN
    /\ job[j].at = "upsert" /\ job[j].todo # {}
    /\ cand' = IF cand[i].status = "none"
               THEN [cand EXCEPT ![i].status = "pending"] ELSE cand
    /\ job' = [job EXCEPT ![j].todo = @ \ {r}]
    /\ UNCHANGED <<rows, cursor, count, locks, running, due, ghosts, faults>>

AfterScan(j) ==
    IF job[j].table = "tool" THEN [job[j] EXCEPT !.at = "scan", !.table = "hook"]
    ELSE [job[j] EXCEPT !.at = IF job[j].mode = "all" THEN "pending" ELSE "finish"]

WriteCursor(j) ==
    /\ job[j].at = "upsert" /\ job[j].todo = {}
    /\ cursor' = [cursor EXCEPT ![job[j].table] = job[j].last]
    /\ job' = [job EXCEPT ![j] = AfterScan(j)]
    /\ UNCHANGED <<rows, cand, count, locks, running, due, ghosts, faults>>

-----------------------------------------------------------------------------
(* analyzePendingCandidates.                                                *)

(* Seeded bug: analyzed candidates are selected again.                      *)
SelectAny(j) ==
    LET open == {i \in Issues : /\ cand[i].status # "none"
                                /\ cand[i].attempts < MaxAttempts} IN
    /\ job[j].at = "pending"
    /\ \E Q \in SUBSET open :
          /\ Cardinality(Q) = Min({Analyses, Cardinality(open)})
          /\ job' = [job EXCEPT ![j] = [@ EXCEPT !.at = "next", !.todo = Q]]
    /\ UNCHANGED <<rows, ledger, locks, running, due, ghosts, faults>>

(* The candidates' age decides which; here any of them.                     *)
Select(j) ==
    LET open == {i \in Issues : /\ cand[i].status \in {"pending", "failed"}
                                /\ cand[i].attempts < MaxAttempts} IN
    /\ job[j].at = "pending"
    /\ \E Q \in SUBSET open :
          /\ Cardinality(Q) = Min({Analyses, Cardinality(open)})
          /\ job' = [job EXCEPT ![j] = [@ EXCEPT !.at = "next", !.todo = Q]]
    /\ UNCHANGED <<rows, ledger, locks, running, due, ghosts, faults>>

Mark(j, i) ==
    /\ job[j].at = "next" /\ i \in job[j].todo
    /\ job' = [job EXCEPT ![j] = [@ EXCEPT !.at = "model", !.todo = job[j].todo \ {i},
                                           !.issue = i]]
    /\ cand' = [cand EXCEPT ![i] = [status |-> "analyzing", attempts |-> @.attempts + 1]]
    /\ orphans' = orphans \ {i}
    /\ UNCHANGED <<rows, cursor, count, locks, running, due, shared, faults>>

NextCandidate(j) == job' = [job EXCEPT ![j] = [@ EXCEPT !.at = "next", !.issue = None]]

(* The model answers that there is nothing to do.                           *)
Skip(j) ==
    /\ job[j].at = "model"
    /\ Statused(job[j].issue, "skipped") /\ NextCandidate(j)
    /\ UNCHANGED <<rows, cursor, count, locks, running, due, ghosts, faults>>

(* It answers with a recommendation: upsertSelfcheckFromLlm.                *)
Recommend(j) ==
    /\ job[j].at = "model"
    /\ count' = [count EXCEPT ![job[j].issue] = @ + 1]
    /\ Go(j, "settle")
    /\ UNCHANGED <<rows, cursor, cand, locks, running, due, ghosts, faults>>

Settle(j) ==
    /\ job[j].at = "settle"
    /\ Statused(job[j].issue, "analyzed") /\ NextCandidate(j)
    /\ UNCHANGED <<rows, cursor, count, locks, running, due, ghosts, faults>>

(* The call, its answer or a query failed.                                  *)
Throw(j) ==
    /\ Fault /\ job[j].at \in {"model", "settle"}
    /\ Go(j, "giveup")
    /\ UNCHANGED <<rows, ledger, locks, running, due, ghosts>>

(* Seeded bug: a failed analysis is only logged.                            *)
GiveUpLogged(j) ==
    /\ job[j].at = "giveup"
    /\ NextCandidate(j)
    /\ UNCHANGED <<rows, ledger, locks, running, due, ghosts, faults>>

GiveUp(j) ==
    /\ job[j].at = "giveup"
    /\ Statused(job[j].issue, "failed") /\ NextCandidate(j)
    /\ UNCHANGED <<rows, cursor, count, locks, running, due, ghosts, faults>>

(* The run is recorded as completed, or as failed when a query threw: with  *)
(* a candidate in hand, only the one that marks it failed throws so far.    *)
Finish(j) ==
    /\ job[j].at = "finish" \/ (job[j].at = "next" /\ job[j].todo = {})
    /\ Go(j, "unlock")
    /\ UNCHANGED <<rows, ledger, locks, running, due, ghosts, faults>>

RunFault(j) ==
    /\ Fault /\ job[j].at \in {"scan", "upsert", "pending", "next", "giveup", "finish"}
    /\ orphans' = orphans \cup ({job[j].issue} \ {None})
    /\ job' = [job EXCEPT ![j] = [@ EXCEPT !.at = "unlock", !.issue = None]]
    /\ UNCHANGED <<rows, ledger, locks, running, due, shared>>

(* pg_advisory_unlock on a connection that may not be the one that holds it.*)
Unlock(j, c) ==
    /\ job[j].at = "unlock"
    /\ locks' = [locks EXCEPT ![c] = IF @ > 0 THEN @ - 1 ELSE 0]
    /\ Return(j)
    /\ UNCHANGED <<rows, ledger, due, ghosts, faults>>

-----------------------------------------------------------------------------
Scheduling(j) == Tick(j) \/ TickDisabled(j) \/ TickStart(j) \/ \E m \in Modes : Request(j, m)

Extracting(j) ==
    \/ \E c \in Conns : Lock(j, c)
    \/ Record(j) \/ RecordFault(j) \/ Scan(j) \/ Upsert(j) \/ WriteCursor(j)

AnalyzingStep(j) ==
    \/ Select(j) \/ \E i \in Issues : Mark(j, i)
    \/ Skip(j) \/ Recommend(j) \/ Settle(j) \/ Throw(j) \/ GiveUp(j)
    \/ Finish(j) \/ RunFault(j) \/ \E c \in Conns : Unlock(j, c)

Next ==
    \/ \E t \in Tables : BeginRow(t) \/ \E r \in DOMAIN RowIssue[t] : CommitRow(t, r)
    \/ Wait \/ Crash \/ \E c \in Conns : CloseIdle(c)
    \/ \E j \in Jobs : Scheduling(j) \/ Extracting(j) \/ AnalyzingStep(j)

Spec == Init /\ [][Next]_vars

-----------------------------------------------------------------------------
JobAt == {"idle", "settings", "lock", "record", "scan", "upsert", "pending", "next",
          "model", "settle", "giveup", "finish", "unlock", "done"}

(* Type invariant.                                                          *)
TypeOK ==
    /\ \A t \in Tables : /\ begun[t] \in 0..Len(RowIssue[t]) /\ cursor[t] \in 0..begun[t]
                         /\ late[t] \subseteq visible[t] /\ visible[t] \subseteq 1..begun[t]
    /\ cand \in [Issues -> [status : Statuses, attempts : 0..(MaxAttempts * Cardinality(Jobs))]]
    /\ \A i \in Issues : count[i] <= cand[i].attempts
    /\ \A c \in Conns : locks[c] # 0 => \A d \in Conns \ {c} : locks[d] = 0
    /\ {running, due, shared} \subseteq BOOLEAN
    /\ \A j \in Jobs : job[j].at \in JobAt /\ job[j].issue \in Issues \cup {None}
    /\ orphans \subseteq Issues /\ faults \in 0..MaxFaults

(* No evidence is passed over: a row the cursor has moved past has its      *)
(* candidate, whatever runs overlapped, failed or were cut off, unless the  *)
(* row's insert committed after that of a row with a greater id.            *)
EvidenceKept ==
    \A t \in Tables : \A r \in visible[t] \ late[t] :
        r <= cursor[t] => cand[RowIssue[t][r]].status # "none"

(* A candidate is "analyzing" only while a run works on it; a crash, or a   *)
(* failed update of its status, are the only things that leave it there,    *)
(* where no later run selects it.                                           *)
AnalyzingIsWorkedOn ==
    \A i \in Issues : cand[i].status = "analyzing" =>
        i \in orphans \/ \E j \in Jobs : job[j].at \in Analyzing /\ job[j].issue = i

(* The scheduler's running is up only while a scheduled run is: after       *)
(* refusals, failures and disabled settings the next tick can start one.    *)
SchedulerFreed ==
    running => \E j \in Jobs : job[j].ticked /\ (Inside(j) \/ job[j].at = "lock")

(* A candidate that was judged is judged once: nothing changes its status   *)
(* again unless two runs were past the lock together.                       *)
JudgedOnce ==
    [][\A i \in Issues : cand[i].status \in Final =>
          cand'[i].status = cand[i].status \/ shared]_vars

=============================================================================
