---------------------------- MODULE ToolProcess ----------------------------
(***************************************************************************)
(* One process-backed tool call (runToolProcess).  The process and what it *)
(* starts write lines and end in their own time; the server collects the   *)
(* lines one after another, tells the turn of each protocol event in a     *)
(* task of its own, and stops the process group when the turn is aborted,  *)
(* when the call takes too long or when a task fails.  The call is over    *)
(* when the pipes have closed and the last line is collected.              *)
(***************************************************************************)
EXTENDS Naturals, SequencesExt, FiniteSetsExt

CONSTANTS MaxLines,  \* bound: lines a process writes
          None

LinesAssumption == MaxLines \in Nat

\* A line of the tool protocol that reports, or ends the call; a request to
\* the server (agentcall); a malformed one; anything else.
Kinds == {"progress", "result", "error", "agentcall", "malformed", "plain"}
Finals == {"result", "error"}

VARIABLES
    os,      \* the process: alive, told to stop, its group's pipe end, its exit code
    pipe,    \* lines written and not read
    run,     \* where runToolProcess is, and the listeners' marks
    lines,   \* stdoutLineTask: lines read and not collected, the head in hand
    got,     \* what was collected
    tasks,   \* observerTasks that run: sequence numbers and what they tell
    told,    \* what the observers told the turn
    signal,  \* the turn is aborted
    result   \* the status of the call

vars == <<os, pipe, run, lines, got, tasks, told, signal, result>>

NoProcess == [up |-> FALSE, asked |-> FALSE, code |-> None, wrote |-> 0]

Init ==
    /\ os = NoProcess
    /\ pipe = << >> /\ lines = << >>
    /\ run = [pc |-> "new", term |-> None, exited |-> FALSE, timer |-> FALSE, killer |-> "off", awaited |-> {}]
    /\ got = [events |-> 0, final |-> None, invalid |-> 0, legacy |-> 0]
    /\ tasks = {} /\ told = {}
    /\ signal \in BOOLEAN
    /\ result = None

Over == run.pc \in {"done", "threw"}

(***************************************************************************)
(* Reports.  A task runs at once and ends when the turn took the report;   *)
(* it fails when the turn's checkpoint finds an interrupt.                 *)
(***************************************************************************)
Schedule(ts, whats) == ts \cup {[what |-> w, n |-> got.events] : w \in whats}

(* Seeded bug: the group is asked to stop and never made to.                  *)
TerminateOnce(r, ts, why) ==
    /\ run' = IF r.term # None THEN r ELSE [r EXCEPT !.term = why]
    /\ tasks' = IF r.term # None THEN ts ELSE Schedule(ts, {"requested", "sigterm"})
    /\ os' = IF r.term # None THEN os ELSE [os EXCEPT !.asked = os.up]

\* requestTerminate: the first reason counts.
Terminate(r, ts, why) ==
    /\ run' = IF r.term # None THEN r ELSE [r EXCEPT !.term = why, !.killer = "armed"]
    /\ tasks' = IF r.term # None THEN ts ELSE Schedule(ts, {"requested", "sigterm"})
    /\ os' = IF r.term # None THEN os ELSE [os EXCEPT !.asked = os.up]

\* A report reaches the turn, or fails there.
Report(t) ==
    /\ t \in tasks
    /\ told' = told \cup {t}
    /\ \/ /\ tasks' = tasks \ {t} /\ UNCHANGED <<os, run>>
       \/ /\ signal /\ Terminate(run, tasks \ {t}, "cancelled")
    /\ UNCHANGED <<pipe, lines, got, signal, result>>

(***************************************************************************)
(* The start.                                                              *)
(***************************************************************************)
\* onToolStarted, whose checkpoint throws when the turn is aborted.
Started ==
    /\ run.pc = "new"
    /\ \/ /\ signal /\ run' = [run EXCEPT !.pc = "threw"]
       \/ run' = [run EXCEPT !.pc = "spawn"]
    /\ UNCHANGED <<os, pipe, lines, got, tasks, told, signal, result>>

\* spawn: the process starts, and is stopped again if the abort came before;
\* or it cannot be started and the error event resolves the call.
Spawn ==
    /\ run.pc = "spawn"
    /\ LET up == [run EXCEPT !.pc = "running", !.timer = TRUE] IN
       \/ /\ os' = [os EXCEPT !.up = TRUE, !.asked = signal]
          /\ run' = IF signal THEN [up EXCEPT !.term = "cancelled", !.killer = "armed"] ELSE up
          /\ tasks' = IF signal THEN Schedule(tasks, {"requested", "sigterm"}) ELSE tasks
          /\ UNCHANGED result
       \/ /\ result' = "spawn_error"
          /\ run' = [run EXCEPT !.pc = "settling", !.exited = TRUE]
          /\ tasks' = IF signal THEN Schedule(tasks, {"requested", "sigterm", "exited"}) ELSE tasks
          /\ UNCHANGED os
    /\ UNCHANGED <<pipe, lines, got, told, signal>>

(***************************************************************************)
(* The process.                                                            *)
(***************************************************************************)
Write(kind) ==
    /\ os.up /\ os.wrote < MaxLines
    /\ os' = [os EXCEPT !.wrote = @ + 1]
    /\ pipe' = Append(pipe, kind)
    /\ UNCHANGED <<run, lines, got, tasks, told, signal, result>>

\* The group ends, of its own or because it was asked to; it need not.
Exit(code) ==
    /\ os.up
    /\ os' = [os EXCEPT !.up = FALSE, !.code = IF os.asked THEN None ELSE code]
    /\ UNCHANGED <<pipe, run, lines, got, tasks, told, signal, result>>

(***************************************************************************)
(* The listeners.                                                          *)
(***************************************************************************)
Data ==
    /\ pipe # << >> /\ ~run.exited
    /\ lines' = Append(lines, Head(pipe)) /\ pipe' = Tail(pipe)
    /\ UNCHANGED <<os, run, got, tasks, told, signal, result>>

\* collectStdoutLine: a request to the server is handed to its handler,
\* which may refuse it.
Collect ==
    /\ lines # << >> /\ lines' = Tail(lines)
    /\ LET kind == Head(lines) IN
       CASE kind \in {"progress"} \cup Finals ->
              /\ got' = [got EXCEPT !.events = @ + 1,
                                    !.invalid = @ + (IF kind \in Finals /\ got.final # None THEN 1 ELSE 0),
                                    !.final = IF kind \in Finals THEN kind ELSE @]
              /\ tasks' = Schedule(tasks, {"progress"})
         [] kind = "agentcall" ->
              /\ \E ok \in {TRUE} \cup (IF signal THEN {FALSE} ELSE {}) :
                   got' = IF ok THEN got ELSE [got EXCEPT !.invalid = @ + 1]
              /\ UNCHANGED tasks
         [] kind = "malformed" -> got' = [got EXCEPT !.invalid = @ + 1] /\ UNCHANGED tasks
         [] kind = "plain" -> got' = [got EXCEPT !.legacy = @ + 1] /\ UNCHANGED tasks
    /\ UNCHANGED <<os, pipe, run, told, signal, result>>

Abort ==
    /\ ~signal /\ ~Over
    /\ signal' = TRUE
    /\ IF run.pc = "running" /\ ~run.exited THEN Terminate(run, tasks, "cancelled")
       ELSE UNCHANGED <<os, run, tasks>>
    /\ UNCHANGED <<pipe, lines, got, told, result>>

Timeout ==
    /\ run.pc = "running" /\ run.timer
    /\ Terminate([run EXCEPT !.timer = FALSE], tasks, "timeout")
    /\ UNCHANGED <<pipe, lines, got, told, signal, result>>

\* The end of the grace: a group that has not closed is killed.
Kill ==
    /\ run.killer = "armed"
    /\ run' = [run EXCEPT !.killer = "fired"]
    /\ IF run.exited THEN UNCHANGED <<os, tasks>>
       ELSE /\ tasks' = Schedule(tasks, {"sigkill"})
            /\ os' = [os EXCEPT !.up = FALSE]
    /\ UNCHANGED <<pipe, lines, got, told, signal, result>>

\* The pipes have closed.
Close ==
    /\ run.pc = "running" /\ ~run.exited /\ ~os.up /\ pipe = << >>
    /\ run' = [run EXCEPT !.exited = TRUE, !.timer = FALSE]
    /\ tasks' = IF run.term = None THEN tasks ELSE Schedule(tasks, {"exited"})
    /\ UNCHANGED <<os, pipe, lines, got, told, signal, result>>

\* finalizeToolResult, in its order.
Status ==
    CASE run.term # None -> run.term
      [] run.term = None /\ got.invalid > 0 /\ (got.events > 0 \/ got.legacy = 0) -> "protocol_error"
      [] OTHER -> IF got.final = "result" THEN "success"
                  ELSE IF got.final = "error" THEN "failed"
                  ELSE IF os.code = 0 THEN "success" ELSE "failed"

(* Seeded bug: the result does not wait for the lines.                      *)
ResolveUncollected ==
    /\ run.pc = "running" /\ run.exited
    /\ result' = Status
    /\ run' = [run EXCEPT !.pc = "settling", !.awaited = tasks]
    /\ UNCHANGED <<os, pipe, lines, got, tasks, told, signal>>

\* The result, once the last line is collected; the tasks of that moment are
\* waited for.
Resolve ==
    /\ run.pc = "running" /\ run.exited /\ lines = << >>
    /\ result' = Status
    /\ run' = [run EXCEPT !.pc = "settling", !.awaited = tasks]
    /\ UNCHANGED <<os, pipe, lines, got, tasks, told, signal>>

\* onToolFinished.
Finish ==
    /\ run.pc = "settling" /\ run.awaited \cap tasks = {}
    /\ run' = [run EXCEPT !.pc = "done"]
    /\ UNCHANGED <<os, pipe, lines, got, tasks, told, signal, result>>

Next ==
    \/ Started \/ Spawn
    \/ \E kind \in Kinds : Write(kind)
    \/ \E code \in {0, 1} : Exit(code)
    \/ Data \/ Collect \/ Abort \/ Timeout \/ Kill \/ Close \/ Resolve \/ Finish
    \/ \E t \in tasks : Report(t)

\* The server's timers fire and its listeners run, and the turn takes each
\* report; nothing is asked of the process.
Spec ==
    /\ Init /\ [][Next]_vars
    /\ WF_vars(Started) /\ WF_vars(Spawn) /\ WF_vars(Data) /\ WF_vars(Collect)
    /\ WF_vars(Timeout) /\ WF_vars(Kill) /\ WF_vars(Close) /\ WF_vars(Resolve) /\ WF_vars(Finish)
    /\ WF_vars(\E t \in tasks : Report(t))

(***************************************************************************)
(* Properties.                                                             *)
(***************************************************************************)
\* A tool call ends although its process may run for ever and ignore the
\* request to stop: the outer timeout of the process manager
\* (docs/runtime-control.md) and the kill after the grace see to it.
CallEnds == <>Over

\* The result takes in every line the process wrote, and when the turn hears
\* that the tool finished it has heard of every event among them.
NothingLeftOut ==
    run.pc = "done" /\ result # "spawn_error" =>
        /\ pipe = << >> /\ lines = << >>
        /\ Cardinality({t \in told : t.what = "progress"}) = got.events
=============================================================================
