----------------------------- MODULE Scheduler -----------------------------
(***************************************************************************)
(* The task scheduler (libs/scheduler): the main thread fills, starts and  *)
(* stops it (init_all, deinit_all); a detached cycle thread launches a     *)
(* detached thread for every run of every task; task_mux keeps the runs of *)
(* one task apart, and a sweep that takes every task_mux is how stop() and *)
(* the end of a cycle wait for the tasks that are running.                 *)
(*                                                                         *)
(* Threads of one task are alike, so the model counts them by stage.       *)
(* The vector of tasks is its size: tasks are numbered in the order of     *)
(* add_task.  Operators named ...Mutant are defective variants of the one  *)
(* that follows, used by the mutation runs only.                           *)
(***************************************************************************)
EXTENDS Integers

CONSTANTS
  NTask,       \* the capacity reserved by init()
  Cycle,       \* bound: the threads of scheduler_cycle_ alive at one time
  MaxThreads   \* bound: threads of one task alive at one time

ASSUME SchedulerAssumption ==
  /\ NTask \in Nat \ {0}
  /\ Cycle \cap {"main", "free", "thread"} = {}
  /\ MaxThreads \in Nat \ {0}

Task == 1 .. NTask

VARIABLES
  isRunning,
  size,        \* tasks.size()
  smux,        \* owner of scheduler_mux: a cycle, Main or Free
  mux,         \* owner of each task_mux: a cycle, Main, Thread or Free
  mpc, mi,     \* the main thread: where it is, position of its sweep
  cpc, ci, cn, \* the cycle threads: where, position, nb_tasks
  due,         \* millis() - millis_last_run > interval_ms
  taskRunning,
  thr,         \* thr[t][s]: how many threads of task t are at stage s
  late,        \* history: some thread took longer than the cycle's pause
  doubled,     \* history: a task was launched while a launch was unfinished
  overtaken,   \* history: stop() took a task_mux before a launched thread did
  used         \* tasks were destroyed under a thread: behaviour undefined

main    == <<mpc, mi>>
cycles  == <<cpc, ci, cn>>
locks   == <<smux, mux>>
tasks   == <<due, taskRunning, thr>>
history == <<late, doubled, overtaken, used>>
vars    == <<isRunning, size, locks, main, cycles, tasks, history>>

Main   == "main"
Free   == "free"
Thread == "thread"

\* The stages of Task_c::run: launched and not yet in possession of task_mux;
\* with it; taskRunning set; inside func; taskRunning reset; unlocked, with a
\* last look at task_name to come.
Stage  == {"fresh", "locked", "marked", "busy", "done", "ending"}
Inside == {"locked", "marked", "busy", "done"}

NoThread == [s \in Stage |-> 0]
Idle(t)  == thr[t] = NoThread

-----------------------------------------------------------------------------
(* The process has just started: no task, nothing running.                 *)
Init ==
  /\ isRunning = FALSE /\ size = 0
  /\ smux = Free /\ mux = [t \in Task |-> Free]
  /\ mpc = "out" /\ mi = 1
  /\ cpc = [c \in Cycle |-> "none"]
  /\ ci = [c \in Cycle |-> 1] /\ cn = [c \in Cycle |-> 0]
  /\ due = [t \in Task |-> TRUE] /\ taskRunning = [t \in Task |-> FALSE]
  /\ thr = [t \in Task |-> NoThread]
  /\ late = FALSE /\ doubled = FALSE /\ overtaken = FALSE /\ used = FALSE

-----------------------------------------------------------------------------
(* The main thread: init() = stop() + reserve, add_task() for each task,   *)
(* start(); later stop() again.                                            *)

\* stop() begins, from init() or from deinit_all().
StopCalled ==
  /\ mpc \in {"out", "up"}
  /\ isRunning' = FALSE
  /\ mpc' = IF mpc = "out" THEN "reinit" ELSE "stop"
  /\ UNCHANGED <<size, locks, mi, cycles, tasks, history>>

StopLocksMutant ==
  /\ mpc \in {"reinit", "stop"} /\ smux = Free
  /\ smux' = Main /\ mi' = size + 1
  /\ mpc' = IF mpc = "reinit" THEN "resweep" ELSE "sweep"
  /\ UNCHANGED <<isRunning, size, mux, cycles, tasks, history>>

\* ... after its pause it takes scheduler_mux,
StopLocks ==
  /\ mpc \in {"reinit", "stop"} /\ smux = Free
  /\ smux' = Main /\ mi' = 1
  /\ mpc' = IF mpc = "reinit" THEN "resweep" ELSE "sweep"
  /\ UNCHANGED <<isRunning, size, mux, cycles, tasks, history>>

\* ... every task_mux in turn (add_task does the same),
SweepLock ==
  /\ mpc \in {"resweep", "sweep", "add"} /\ mi <= size
  /\ mux[mi] = Free
  /\ mux' = [mux EXCEPT ![mi] = Main]
  /\ mi' = mi + 1
  /\ overtaken' = (overtaken \/ (mpc # "add" /\ thr[mi]["fresh"] > 0))
  /\ UNCHANGED <<isRunning, size, smux, mpc, cycles, tasks, late, doubled, used>>

\* ... lets go of them,
MainUnlocks == mux' = [t \in Task |-> IF mux[t] = Main THEN Free ELSE mux[t]]

SweepUnlock ==
  /\ mpc \in {"resweep", "sweep"} /\ mi > size
  /\ MainUnlocks
  /\ mpc' = IF mpc = "resweep" THEN "reclear" ELSE "clear"
  /\ mi' = 1
  /\ UNCHANGED <<isRunning, size, smux, cycles, tasks, history>>

\* ... and after another pause destroys the tasks, whoever still uses them.
Clear ==
  /\ mpc \in {"reclear", "clear"}
  /\ size' = 0
  /\ used' = \E t \in Task : ~Idle(t)
  /\ due' = [t \in Task |-> TRUE]
  /\ taskRunning' = [t \in Task |-> FALSE]
  /\ smux' = Free
  /\ mpc' = IF mpc = "reclear" THEN "fill" ELSE "out"
  /\ UNCHANGED <<isRunning, mux, mi, cycles, thr, late, doubled, overtaken>>

AddBegins ==
  /\ mpc = "fill" /\ smux = Free
  /\ smux' = Main /\ mi' = 1
  /\ mpc' = "add"
  /\ UNCHANGED <<isRunning, size, mux, cycles, tasks, history>>

AddEndsMutant ==
  /\ mpc = "add" /\ mi > size
  /\ MainUnlocks
  /\ size' \in {size, size + 1}
  /\ smux' = Free
  /\ mpc' = "fill" /\ mi' = 1
  /\ UNCHANGED <<isRunning, cycles, tasks, history>>

\* The new task is appended within the reserved capacity; one with an
\* interval of 10 ms or less is ignored.
AddEnds ==
  /\ mpc = "add" /\ mi > size
  /\ MainUnlocks
  /\ size' \in {size} \cup ({size + 1} \cap Task)
  /\ smux' = Free
  /\ mpc' = "fill" /\ mi' = 1
  /\ UNCHANGED <<isRunning, cycles, tasks, history>>

\* start(); its other branch, "already detached", changes nothing.
Start(c) ==
  /\ mpc = "fill" /\ ~isRunning
  /\ cpc[c] = "none"
  /\ isRunning' = TRUE
  /\ cpc' = [cpc EXCEPT ![c] = "start"]
  /\ mpc' = "up"
  /\ UNCHANGED <<size, locks, mi, ci, cn, tasks, history>>

MainStep ==
  \/ StopLocks \/ SweepLock \/ SweepUnlock \/ Clear
  \/ AddBegins \/ AddEnds

-----------------------------------------------------------------------------
(* A thread of scheduler_cycle_.                                           *)

At(c, l) == cpc[c] = l
Go(c, l) == cpc' = [cpc EXCEPT ![c] = l]

CycleLocksMutant(c) ==
  /\ At(c, "start") /\ smux = Free
  /\ cn' = [cn EXCEPT ![c] = size]
  /\ Go(c, "loop")
  /\ UNCHANGED <<isRunning, size, locks, main, ci, tasks, history>>

CycleLocks(c) ==
  /\ At(c, "start") /\ smux = Free
  /\ smux' = c
  /\ cn' = [cn EXCEPT ![c] = size]
  /\ Go(c, "loop")
  /\ UNCHANGED <<isRunning, size, mux, main, ci, tasks, history>>

\* Some thread had its chance to run during a pause and did not take it.
Laggard ==
  \/ \E t \in Task : \/ thr[t]["fresh"] > 0 /\ mux[t] = Free
                    \/ \E s \in Stage \ {"fresh", "busy"} : thr[t][s] > 0
  \/ \E c \in Cycle : At(c, "release")

\* while (isRunning) { sleep 10 ms; for (i ...
CycleWakes(c) ==
  /\ At(c, "loop") /\ isRunning
  /\ late' = (late \/ Laggard)
  /\ Go(c, "scan")
  /\ UNCHANGED <<isRunning, size, locks, main, ci, cn, tasks, doubled, overtaken, used>>

\* Is the task due?  millis_last_run is read without task_mux.
CycleTests(c) ==
  /\ At(c, "scan") /\ ci[c] <= cn[c]
  /\ IF due[ci[c]]
     THEN Go(c, "check") /\ UNCHANGED ci
     ELSE ci' = [ci EXCEPT ![c] = @ + 1] /\ UNCHANGED cpc
  /\ UNCHANGED <<isRunning, size, locks, main, cn, tasks, history>>

\* The thread of a run that has been launched and has not finished func.
Unfinished(t) ==
  \E s \in {"fresh", "locked", "marked", "busy"} : thr[t][s] > 0

MayLaunchMutant(t) == isRunning
MayLaunch(t) == ~taskRunning[t] /\ isRunning

\* ... and not running: launch a thread.  MaxThreads is the model's bound.
CycleLaunches(c) ==
  LET t == ci[c] IN
  /\ At(c, "check")
  /\ MayLaunch(t)
  /\ thr[t]["fresh"] + thr[t]["ending"] < MaxThreads
  /\ thr' = [thr EXCEPT ![t]["fresh"] = @ + 1]
  /\ doubled' = (doubled \/ Unfinished(t))
  /\ ci' = [ci EXCEPT ![c] = @ + 1]
  /\ Go(c, "scan")
  /\ UNCHANGED <<isRunning, size, locks, main, cn, due, taskRunning,
                 late, overtaken, used>>

\* ... "still running!": the run is missed, and counted.
CycleMisses(c) ==
  /\ At(c, "check")
  /\ ~MayLaunch(ci[c])
  /\ ci' = [ci EXCEPT ![c] = @ + 1]
  /\ Go(c, "scan")
  /\ UNCHANGED <<isRunning, size, locks, main, cn, tasks, history>>

CycleRoundEnds(c) ==
  /\ At(c, "scan") /\ ci[c] > cn[c]
  /\ ci' = [ci EXCEPT ![c] = 1]
  /\ Go(c, "loop")
  /\ UNCHANGED <<isRunning, size, locks, main, cn, tasks, history>>

CycleExitsMutant(c) ==
  /\ At(c, "loop") /\ ~isRunning
  /\ ci' = [ci EXCEPT ![c] = cn[c] + 1]
  /\ Go(c, "sweep")
  /\ UNCHANGED <<isRunning, size, locks, main, cn, tasks, history>>

\* isRunning is false: take every task_mux,
CycleExits(c) ==
  /\ At(c, "loop") /\ ~isRunning
  /\ Go(c, "sweep")
  /\ UNCHANGED <<isRunning, size, locks, main, ci, cn, tasks, history>>

CycleSweeps(c) ==
  /\ At(c, "sweep") /\ ci[c] <= cn[c]
  /\ mux[ci[c]] = Free
  /\ mux' = [mux EXCEPT ![ci[c]] = c]
  /\ ci' = [ci EXCEPT ![c] = @ + 1]
  /\ UNCHANGED <<isRunning, size, smux, main, cpc, cn, tasks, history>>

\* ... let go of scheduler_mux,
CycleReleases(c) ==
  /\ At(c, "sweep") /\ ci[c] > cn[c]
  /\ smux' = Free
  /\ ci' = [ci EXCEPT ![c] = 1]
  /\ Go(c, "release")
  /\ UNCHANGED <<isRunning, size, mux, main, cn, tasks, history>>

\* ... and only then of every task_mux.
CycleEnds(c) ==
  /\ At(c, "release")
  /\ mux' = [t \in Task |-> IF t <= cn[c] THEN Free ELSE mux[t]]
  /\ cn' = [cn EXCEPT ![c] = 0]
  /\ Go(c, "none")
  /\ UNCHANGED <<isRunning, size, smux, main, ci, tasks, history>>

CycleStep(c) ==
  \/ CycleLocks(c) \/ CycleWakes(c) \/ CycleTests(c) \/ CycleLaunches(c)
  \/ CycleMisses(c) \/ CycleRoundEnds(c) \/ CycleExits(c) \/ CycleSweeps(c)
  \/ CycleReleases(c) \/ CycleEnds(c)

-----------------------------------------------------------------------------
(* A thread of Task_c::run.                                                *)

Moves(t, from, to) ==
  /\ thr[t][from] > 0
  /\ thr' = [thr EXCEPT ![t][from] = @ - 1, ![t][to] = @ + 1]

TaskLocksMutant(t) ==
  /\ Moves(t, "fresh", "locked")
  /\ mux' = [mux EXCEPT ![t] = Thread]
  /\ UNCHANGED <<isRunning, size, smux, main, cycles, due, taskRunning, history>>

TaskLocks(t) ==
  /\ mux[t] = Free
  /\ Moves(t, "fresh", "locked")
  /\ mux' = [mux EXCEPT ![t] = Thread]
  /\ UNCHANGED <<isRunning, size, smux, main, cycles, due, taskRunning, history>>

TaskMarks(t) ==
  /\ Moves(t, "locked", "marked")
  /\ taskRunning' = [taskRunning EXCEPT ![t] = TRUE]
  /\ UNCHANGED <<isRunning, size, locks, main, cycles, due, history>>

\* millis_last_run = millis(), and func is called.
TaskStamps(t) ==
  /\ Moves(t, "marked", "busy")
  /\ due' = [due EXCEPT ![t] = FALSE]
  /\ UNCHANGED <<isRunning, size, locks, main, cycles, taskRunning, history>>

TaskFinishesMutant(t) ==
  /\ Moves(t, "busy", "done")
  /\ UNCHANGED <<isRunning, size, locks, main, cycles, due, taskRunning, history>>

TaskFinishes(t) ==
  /\ Moves(t, "busy", "done")
  /\ taskRunning' = [taskRunning EXCEPT ![t] = FALSE]
  /\ UNCHANGED <<isRunning, size, locks, main, cycles, due, history>>

TaskUnlocksMutant(t) ==
  /\ Moves(t, "done", "ending")
  /\ UNCHANGED <<isRunning, size, locks, main, cycles, due, taskRunning, history>>

TaskUnlocks(t) ==
  /\ Moves(t, "done", "ending")
  /\ mux' = [mux EXCEPT ![t] = Free]
  /\ UNCHANGED <<isRunning, size, smux, main, cycles, due, taskRunning, history>>

\* The last line of run() logs task_name.
TaskLogs(t) ==
  /\ thr[t]["ending"] > 0
  /\ thr' = [thr EXCEPT ![t]["ending"] = @ - 1]
  /\ UNCHANGED <<isRunning, size, locks, main, cycles, due, taskRunning, history>>

TaskStep(t) ==
  \/ TaskLocks(t) \/ TaskMarks(t) \/ TaskStamps(t) \/ TaskFinishes(t)
  \/ TaskUnlocks(t) \/ TaskLogs(t)

\* The interval of a task elapses, or the system clock is set back: the
\* difference is unsigned.
Elapse(t) ==
  /\ t <= size /\ ~due[t]
  /\ due' = [due EXCEPT ![t] = TRUE]
  /\ UNCHANGED <<isRunning, size, locks, main, cycles, taskRunning, thr, history>>

-----------------------------------------------------------------------------
\* A thread uses a task that was destroyed: nothing is known from here on.
Undefined == used /\ UNCHANGED vars

Next ==
  \/ /\ ~used
     /\ \/ MainStep \/ StopCalled
        \/ \E c \in Cycle : Start(c) \/ CycleStep(c)
        \/ \E t \in Task : TaskStep(t) \/ Elapse(t)
  \/ Undefined

\* Every thread gets to run, a mutex that stays free is taken, a task's
\* function returns, and time passes.  Nobody has to call stop() or start().
Fairness ==
  /\ WF_vars(~used /\ MainStep)
  /\ \A c \in Cycle : WF_vars(~used /\ CycleStep(c))
  /\ \A t \in Task : /\ WF_vars(~used /\ TaskStep(t))
                     /\ WF_vars(~used /\ Elapse(t))

Spec     == Init /\ [][Next]_vars
FairSpec == Spec /\ Fairness

-----------------------------------------------------------------------------
(* Properties.                                                             *)

\* Every variable has the values the code's types and control flow allow.
TypeOK ==
  /\ isRunning \in BOOLEAN
  /\ size \in 0 .. NTask
  /\ smux \in Cycle \cup {Main, Free}
  /\ mux \in [Task -> Cycle \cup {Main, Free, Thread}]
  /\ mpc \in {"out", "reinit", "resweep", "reclear", "fill", "add", "up",
              "stop", "sweep", "clear"}
  /\ mi \in 1 .. NTask + 1
  /\ cpc \in [Cycle -> {"none", "start", "loop", "scan", "check", "sweep",
                        "release"}]
  /\ ci \in [Cycle -> 1 .. NTask + 1]
  /\ cn \in [Cycle -> 0 .. NTask]
  /\ \A c \in Cycle : cpc[c] = "check" => ci[c] <= cn[c]
  /\ due \in [Task -> BOOLEAN] /\ taskRunning \in [Task -> BOOLEAN]
  /\ thr \in [Task -> [Stage -> Nat]]
  /\ late \in BOOLEAN /\ doubled \in BOOLEAN
  /\ overtaken \in BOOLEAN /\ used \in BOOLEAN

\* The runs of one task never overlap, however many threads were launched
\* for it: func is not reentrant (Task_c::run).
Excluded == \A t \in Task : \A r, s \in Inside :
              /\ thr[t][r] <= 1
              /\ thr[t][r] = 1 /\ thr[t][s] = 1 => r = s

\* A cycle thread that has given up scheduler_mux still unlocks the mutexes
\* of its tasks: until it has, it owns them, and nobody destroys them.
CycleKeepsItsTasks ==
  \A c \in Cycle : cpc[c] = "release" =>
    /\ cn[c] <= size
    /\ \A t \in Task : t <= cn[c] => mux[t] = c

\* While a cycle thread goes through the vector nobody appends to it or
\* clears it, and no second cycle goes through it (scheduler_mux).
OneCycleReads ==
  \A c \in Cycle : cpc[c] \in {"loop", "scan", "check", "sweep"} =>
    /\ cn[c] = size
    /\ \A d \in Cycle : cpc[d] \in {"loop", "scan", "check", "sweep"} => d = c

\* stop() destroys a task under one of its threads only if it took that
\* task's mutex before a launched thread got it, or found a thread between
\* its unlock and its last log line: it always waits for a run in progress.
UsedOnlyIfOvertaken ==
  used => overtaken \/ \E t \in Task : thr[t]["ending"] > 0

\* A task is launched twice only if some thread was so slow that a whole
\* pause of the cycle (10 ms) passed before its next step.
DoubledOnlyIfLate == doubled => late

\* What the comment of counter_errors and the message "still running!" say:
\* a task whose previous run has not finished is not run, it is counted.
NeverDoubled == ~doubled

\* stop() ends, whatever runs when it is called: no lock is waited for in a
\* circle, and every run it waits for ends.
StopEnds == mpc = "stop" ~> (mpc = "out" \/ used)

\* While the scheduler runs, every task is run again and again: neither a
\* long run nor a missed one shuts a task out.
EveryTaskRuns ==
  \A t \in Task :
    <>[](isRunning /\ t <= size /\ ~used) => []<>(thr[t]["busy"] > 0)

=============================================================================
