---------------------------- MODULE InstanceLock ----------------------------
(***************************************************************************)
(* The lock file of the agent server: created exclusively, then written    *)
(* with the pid; a start that finds one reads it, and removes it and tries *)
(* again when its process seems to be gone.  Each call on the file system  *)
(* is a step of its own, since other processes run between them.           *)
(* A process of Others is no server; it only occupies a pid.               *)
(***************************************************************************)
EXTENDS Naturals, FiniteSets

CONSTANTS Procs,  \* processes over time
          Others, \* those that are no agent server
          Pids,
          None

ASSUME LockAssumption == Others \subseteq Procs /\ None \notin Procs \cup Pids

Servers == Procs \ Others

VARIABLES
    at,     \* at[p]: where the process is
    pid,    \* pid[p]: its pid, kept when it is gone
    file,   \* the lock file: its writer and whether the pid is in it
    crowded \* two servers have been starting at the same time

vars == <<at, pid, file, crowded>>

NoFile == [by |-> None, written |-> FALSE]

Starting == {"open", "opened", "check", "remove"}
Living(p) == at[p] \notin {"new", "gone"}

Init ==
    /\ at = [p \in Procs |-> "new"]
    /\ pid = [p \in Procs |-> None]
    /\ file = NoFile
    /\ crowded = FALSE

Go(p, to) == at' = [at EXCEPT ![p] = to]

(* The operating system hands out a pid no living process has.              *)
Start(p, n) ==
    /\ at[p] = "new"
    /\ \A q \in Procs : Living(q) => pid[q] # n
    /\ pid' = [pid EXCEPT ![p] = n]
    /\ Go(p, IF p \in Servers THEN "open" ELSE "other")
    /\ crowded' = (crowded \/ (p \in Servers /\ \E q \in Procs : at[q] \in Starting))
    /\ UNCHANGED file

(* openSync "wx".                                                           *)
Open(p) ==
    /\ at[p] = "open"
    /\ IF file = NoFile
       THEN file' = [by |-> p, written |-> FALSE] /\ Go(p, "opened")
       ELSE Go(p, "check") /\ UNCHANGED file
    /\ UNCHANGED <<pid, crowded>>

(* writeFileSync on the descriptor: nobody sees it if the file was removed. *)
Write(p) ==
    /\ at[p] = "opened"
    /\ file' = IF file.by = p THEN [file EXCEPT !.written = TRUE] ELSE file
    /\ Go(p, "up")
    /\ UNCHANGED <<pid, crowded>>

(* The file is gone, empty, written by an earlier process with this pid, or *)
(* by a pid that no process has now.                                        *)
Stale(p) ==
    \/ ~file.written
    \/ pid[file.by] = pid[p]
    \/ \A q \in Procs : Living(q) => pid[q] # pid[file.by]

(* Seeded bug: a file that names another process's pid is stale.            *)
CheckOwnPid(p) ==
    /\ at[p] = "check"
    /\ Go(p, IF ~file.written \/ pid[file.by] # pid[p] THEN "remove" ELSE "refused")
    /\ UNCHANGED <<pid, file, crowded>>

Check(p) ==
    /\ at[p] = "check"
    /\ Go(p, IF Stale(p) THEN "remove" ELSE "refused")
    /\ UNCHANGED <<pid, file, crowded>>

Remove(p) ==
    /\ at[p] = "remove"
    /\ file' = NoFile /\ Go(p, "open")
    /\ UNCHANGED <<pid, crowded>>

(* Shutdown, or a listen that failed: the path is removed, whoever's it is. *)
Release(p) ==
    /\ at[p] = "up"
    /\ file' = NoFile /\ Go(p, "leaving")
    /\ UNCHANGED <<pid, crowded>>

(* The process ends: after its release or its refusal, or killed.           *)
Exit(p) ==
    /\ Living(p)
    /\ Go(p, "gone")
    /\ UNCHANGED <<pid, file, crowded>>

Step(p) == Open(p) \/ Write(p) \/ Check(p) \/ Remove(p)

Next == \E p \in Procs :
            Step(p) \/ Release(p) \/ Exit(p) \/ \E n \in Pids : Start(p, n)

Spec == Init /\ [][Next]_vars

-----------------------------------------------------------------------------
Ats == {"new", "open", "opened", "check", "remove", "up", "leaving", "refused",
        "other", "gone"}

(* Type invariant.                                                          *)
LockTypeOK ==
    /\ at \in [Procs -> Ats]
    /\ pid \in [Procs -> Pids \cup {None}]
    /\ file \in [by : Procs \cup {None}, written : BOOLEAN]
    /\ crowded \in BOOLEAN

(* As long as no two servers start at the same time, one is up at most, and *)
(* the file names it: crashes, stale files and pids taken over by other     *)
(* processes do not let a second one in.                                    *)
OneServer ==
    ~crowded => \A p \in Servers : at[p] = "up" =>
        /\ file = [by |-> p, written |-> TRUE]
        /\ \A q \in Servers : at[q] = "up" => q = p

=============================================================================
