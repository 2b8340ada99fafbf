--------------------------- MODULE SchedulerProofs ---------------------------
(***************************************************************************)
(* Proofs about the scheduler: mutual exclusion of the runs of a task, and *)
(* what the locks of stop() and of the cycle protect, for every number of  *)
(* tasks and every number of cycle and task threads.                       *)
(***************************************************************************)
EXTENDS Scheduler, TLAPS

-----------------------------------------------------------------------------
(* The inductive invariant.                                                *)

\* The cycle threads that hold scheduler_mux and look at the vector.
Reading == {"loop", "scan", "check", "sweep"}

\* The main thread holds scheduler_mux.
Holding == {"resweep", "reclear", "add", "sweep", "clear"}

\* task_mux is held by a thread of the task exactly if one is inside.
LockInv ==
  \A t \in Task :
    \/ /\ mux[t] = Thread
       /\ \E s \in Inside : /\ thr[t][s] = 1
                            /\ \A r \in Inside : r # s => thr[t][r] = 0
    \/ mux[t] # Thread /\ \A s \in Inside : thr[t][s] = 0

\* What a cycle thread owns at each place.
CycleOwns(c) ==
    /\ cpc[c] \in {"none", "start", "loop", "release"} => ci[c] = 1
    /\ cpc[c] \in Reading <=> smux = c
    /\ cpc[c] \in Reading => cn[c] = size
    /\ cpc[c] = "sweep" => \A t \in Task : t < ci[c] => mux[t] = c
    /\ cpc[c] = "release" => /\ cn[c] <= size
                             /\ \A t \in Task : t <= cn[c] => mux[t] = c

CycleInv == \A c \in Cycle : CycleOwns(c)

\* What the main thread owns at each place; once its sweep is complete, no
\* cycle thread has anything left to unlock.
MainInv ==
  /\ mpc \in Holding <=> smux = Main
  /\ mpc \in {"resweep", "sweep", "add"}
       => \A t \in Task : t < mi => mux[t] = Main
  /\ mpc \in {"reclear", "clear"}
       => \A c \in Cycle : cpc[c] = "release" => cn[c] = 0

\* No thread of t is launched or inside.
Quiet(t) == \A s \in Inside \cup {"fresh"} : thr[t][s] = 0

\* Threads belong to registered tasks; the sweep of stop() leaves quiet
\* tasks behind, unless it overtook a launched thread.
UseInv ==
  /\ ~used => \A t \in Task : t > size => Idle(t)
  /\ mpc \in {"resweep", "sweep"} /\ ~overtaken
       => \A t \in Task : t < mi => Quiet(t)
  /\ mpc \in {"reclear", "clear"} /\ ~overtaken
       => \A t \in Task : Quiet(t)

IInv == TypeOK /\ LockInv /\ CycleInv /\ MainInv /\ UseInv

-----------------------------------------------------------------------------
(* Types, in three parts.                                                  *)

Flags ==
  /\ isRunning \in BOOLEAN
  /\ due \in [Task -> BOOLEAN] /\ taskRunning \in [Task -> BOOLEAN]
  /\ late \in BOOLEAN /\ doubled \in BOOLEAN
  /\ overtaken \in BOOLEAN /\ used \in BOOLEAN

Threads == thr \in [Task -> [Stage -> Nat]]

Places ==
  /\ size \in 0 .. NTask
  /\ smux \in Cycle \cup {Main, Free}
  /\ mux \in [Task -> Cycle \cup {Main, Free, Thread}]
  /\ mpc \in {"out", "reinit", "resweep", "reclear", "fill", "add", "up",
              "stop", "sweep", "clear"}
  /\ mi \in 1 .. NTask + 1
  /\ cpc \in [Cycle -> {"none", "start", "loop", "scan", "check", "sweep",
                        "release"}]
  /\ ci \in [Cycle -> 1 .. NTask + 1]
  /\ cn \in [Cycle -> 0 .. NTask]
  /\ \A c \in Cycle : cpc[c] = "check" => ci[c] <= cn[c]

LEMMA TypeParts == TypeOK <=> Flags /\ Threads /\ Places
  BY Zenon DEF TypeOK, Flags, Threads, Places

\* A thread inside owns the mutex.
LEMMA InsideOwns ==
  ASSUME TypeOK, LockInv, NEW t \in Task, NEW s \in Inside, thr[t][s] > 0
  PROVE  mux[t] = Thread
  BY DEF TypeOK, LockInv, Stage, Inside

\* The owners of a mutex are told apart.
LEMMA Owners == /\ \A c \in Cycle : c # Main /\ c # Free /\ c # Thread
                /\ Main # Free /\ Main # Thread /\ Free # Thread
  BY SchedulerAssumption DEF Main, Free, Thread

\* What Moves does to the counts.
Counts(t, from, to) ==
  /\ thr' \in [Task -> [Stage -> Nat]]
  /\ thr[t][from] > 0
  /\ thr'[t][from] = thr[t][from] - 1
  /\ thr'[t][to] = thr[t][to] + 1
  /\ \A s \in Stage : s # from /\ s # to => thr'[t][s] = thr[t][s]
  /\ \A u \in Task : u # t => thr'[u] = thr[u]

LEMMA MovesCounts ==
  ASSUME TypeOK, NEW t \in Task, NEW from \in Stage, NEW to \in Stage,
         from # to, Moves(t, from, to)
  PROVE  Counts(t, from, to)
<1>1. thr \in [Task -> [Stage -> Nat]]
  BY DEF TypeOK
<1>2. thr' = [thr EXCEPT ![t][from] = @ - 1, ![t][to] = @ + 1] /\ thr[t][from] > 0
  BY DEF Moves
<1>3. QED
  BY <1>1, <1>2 DEF Counts

\* A thread that moves was there, and touches its own task only.
LEMMA ThreadMoved ==
  ASSUME TypeOK, NEW t \in Task, NEW from \in Inside \cup {"fresh"},
         NEW to \in Stage, Counts(t, from, to)
  PROVE  /\ ~Quiet(t) /\ ~Idle(t)
         /\ \A u \in Task : u # t => Quiet(u)' = Quiet(u) /\ Idle(u)' = Idle(u)
<1>1. thr[t][from] > 0 /\ from \in Stage
  BY DEF Counts, Inside, Stage
<1>2. ~Quiet(t) /\ ~Idle(t)
  BY <1>1 DEF Quiet, Idle, NoThread
<1>3. \A u \in Task : u # t => Quiet(u)' = Quiet(u) /\ Idle(u)' = Idle(u)
  BY DEF Counts, Quiet, Idle
<1>4. QED BY <1>2, <1>3

\* Every step keeps the types of the flags.
LEMMA FlagsStep == Flags /\ [Next]_vars => Flags'
<1> SUFFICES ASSUME Flags, [Next]_vars PROVE Flags'
  OBVIOUS
<1> USE DEF vars, locks, main, cycles, tasks, history, Flags
<1>1. CASE StopCalled
  BY <1>1, Zenon DEF StopCalled
<1>2. CASE StopLocks
  BY <1>2, Zenon DEF StopLocks
<1>3. CASE SweepLock
  BY <1>3, Zenon DEF SweepLock
<1>4. CASE SweepUnlock
  BY <1>4, Zenon DEF SweepUnlock
<1>5. CASE Clear
  BY <1>5, Zenon DEF Clear
<1>6. CASE AddBegins
  BY <1>6, Zenon DEF AddBegins
<1>7. CASE AddEnds
  BY <1>7, Zenon DEF AddEnds
<1>8. ASSUME NEW c \in Cycle, Start(c) PROVE Flags'
  BY <1>8, Zenon DEF Start
<1>9. ASSUME NEW c \in Cycle, CycleLocks(c) PROVE Flags'
  BY <1>9, Zenon DEF CycleLocks
<1>10. ASSUME NEW c \in Cycle, CycleWakes(c) PROVE Flags'
  BY <1>10, Zenon DEF CycleWakes
<1>11. ASSUME NEW c \in Cycle, CycleTests(c) PROVE Flags'
  BY <1>11, Zenon DEF CycleTests
<1>12. ASSUME NEW c \in Cycle, CycleLaunches(c) PROVE Flags'
  BY <1>12, Zenon DEF CycleLaunches
<1>13. ASSUME NEW c \in Cycle, CycleMisses(c) PROVE Flags'
  BY <1>13, Zenon DEF CycleMisses
<1>14. ASSUME NEW c \in Cycle, CycleRoundEnds(c) PROVE Flags'
  BY <1>14, Zenon DEF CycleRoundEnds
<1>15. ASSUME NEW c \in Cycle, CycleExits(c) PROVE Flags'
  BY <1>15, Zenon DEF CycleExits
<1>16. ASSUME NEW c \in Cycle, CycleSweeps(c) PROVE Flags'
  BY <1>16, Zenon DEF CycleSweeps
<1>17. ASSUME NEW c \in Cycle, CycleReleases(c) PROVE Flags'
  BY <1>17, Zenon DEF CycleReleases
<1>18. ASSUME NEW c \in Cycle, CycleEnds(c) PROVE Flags'
  BY <1>18, Zenon DEF CycleEnds
<1>19. ASSUME NEW t \in Task, TaskLocks(t) PROVE Flags'
  BY <1>19, Zenon DEF TaskLocks
<1>20. ASSUME NEW t \in Task, TaskMarks(t) PROVE Flags'
  BY <1>20, Zenon DEF TaskMarks
<1>21. ASSUME NEW t \in Task, TaskStamps(t) PROVE Flags'
  BY <1>21, Zenon DEF TaskStamps
<1>22. ASSUME NEW t \in Task, TaskFinishes(t) PROVE Flags'
  BY <1>22, Zenon DEF TaskFinishes
<1>23. ASSUME NEW t \in Task, TaskUnlocks(t) PROVE Flags'
  BY <1>23, Zenon DEF TaskUnlocks
<1>24. ASSUME NEW t \in Task, TaskLogs(t) PROVE Flags'
  BY <1>24, Zenon DEF TaskLogs
<1>25. ASSUME NEW t \in Task, Elapse(t) PROVE Flags'
  BY <1>25, Zenon DEF Elapse
<1>26. CASE UNCHANGED vars
  BY <1>26
<1>27. QED
  BY <1>1, <1>2, <1>3, <1>4, <1>5, <1>6, <1>7, <1>8, <1>9, <1>10, <1>11, <1>12, <1>13,
      <1>14, <1>15, <1>16, <1>17, <1>18, <1>19, <1>20, <1>21, <1>22, <1>23, <1>24, <1>25,
      <1>26
  DEF Next, MainStep, CycleStep, TaskStep, Undefined

\* ... of the counts of threads.
LEMMA ThreadsStep == TypeOK /\ [Next]_vars => Threads'
<1> SUFFICES ASSUME TypeOK, [Next]_vars PROVE Threads'
  OBVIOUS
<1> USE SchedulerAssumption DEF vars, locks, main, cycles, tasks, history, Task, Threads
<1>1. CASE StopCalled
  BY <1>1 DEF StopCalled, TypeOK
<1>2. CASE StopLocks
  BY <1>2 DEF StopLocks, TypeOK
<1>3. CASE SweepLock
  BY <1>3 DEF SweepLock, TypeOK
<1>4. CASE SweepUnlock
  BY <1>4 DEF SweepUnlock, TypeOK
<1>5. CASE Clear
  BY <1>5 DEF Clear, TypeOK
<1>6. CASE AddBegins
  BY <1>6 DEF AddBegins, TypeOK
<1>7. CASE AddEnds
  BY <1>7 DEF AddEnds, TypeOK
<1>8. ASSUME NEW c \in Cycle, Start(c) PROVE Threads'
  BY <1>8 DEF Start, TypeOK
<1>9. ASSUME NEW c \in Cycle, CycleLocks(c) PROVE Threads'
  BY <1>9 DEF CycleLocks, TypeOK
<1>10. ASSUME NEW c \in Cycle, CycleWakes(c) PROVE Threads'
  BY <1>10 DEF CycleWakes, TypeOK
<1>11. ASSUME NEW c \in Cycle, CycleTests(c) PROVE Threads'
  BY <1>11 DEF CycleTests, TypeOK
<1>12. ASSUME NEW c \in Cycle, CycleLaunches(c) PROVE Threads'
  <2>1. ci[c] \in Task
    BY <1>12 DEF TypeOK, CycleLaunches, At
  <2>2. thr \in [Task -> [Stage -> Nat]]
    BY DEF TypeOK
  <2>3. "fresh" \in Stage
    BY DEF Stage
  <2>4. thr' = [thr EXCEPT ![ci[c]]["fresh"] = @ + 1]
    BY <1>12 DEF CycleLaunches
  <2>5. QED BY <2>1, <2>2, <2>3, <2>4
<1>13. ASSUME NEW c \in Cycle, CycleMisses(c) PROVE Threads'
  BY <1>13 DEF CycleMisses, TypeOK
<1>14. ASSUME NEW c \in Cycle, CycleRoundEnds(c) PROVE Threads'
  BY <1>14 DEF CycleRoundEnds, TypeOK
<1>15. ASSUME NEW c \in Cycle, CycleExits(c) PROVE Threads'
  BY <1>15 DEF CycleExits, TypeOK
<1>16. ASSUME NEW c \in Cycle, CycleSweeps(c) PROVE Threads'
  BY <1>16 DEF CycleSweeps, TypeOK
<1>17. ASSUME NEW c \in Cycle, CycleReleases(c) PROVE Threads'
  BY <1>17 DEF CycleReleases, TypeOK
<1>18. ASSUME NEW c \in Cycle, CycleEnds(c) PROVE Threads'
  BY <1>18 DEF CycleEnds, TypeOK
<1>19. ASSUME NEW t \in Task, TaskLocks(t) PROVE Threads'
  <2>1. Counts(t, "fresh", "locked")
    BY <1>19, MovesCounts DEF TaskLocks, Stage
  <2>2. QED BY <1>19, <2>1 DEF TaskLocks, Counts
<1>20. ASSUME NEW t \in Task, TaskMarks(t) PROVE Threads'
  <2>1. Counts(t, "locked", "marked")
    BY <1>20, MovesCounts DEF TaskMarks, Stage
  <2>2. QED BY <1>20, <2>1 DEF TaskMarks, Counts
<1>21. ASSUME NEW t \in Task, TaskStamps(t) PROVE Threads'
  <2>1. Counts(t, "marked", "busy")
    BY <1>21, MovesCounts DEF TaskStamps, Stage
  <2>2. QED BY <1>21, <2>1 DEF TaskStamps, Counts
<1>22. ASSUME NEW t \in Task, TaskFinishes(t) PROVE Threads'
  <2>1. Counts(t, "busy", "done")
    BY <1>22, MovesCounts DEF TaskFinishes, Stage
  <2>2. QED BY <1>22, <2>1 DEF TaskFinishes, Counts
<1>23. ASSUME NEW t \in Task, TaskUnlocks(t) PROVE Threads'
  <2>1. Counts(t, "done", "ending")
    BY <1>23, MovesCounts DEF TaskUnlocks, Stage
  <2>2. QED BY <1>23, <2>1 DEF TaskUnlocks, Counts
<1>24. ASSUME NEW t \in Task, TaskLogs(t) PROVE Threads'
  <2>1. thr \in [Task -> [Stage -> Nat]]
    BY DEF TypeOK
  <2>2. "ending" \in Stage
    BY DEF Stage
  <2>3. thr[t]["ending"] > 0 /\ thr' = [thr EXCEPT ![t]["ending"] = @ - 1]
    BY <1>24 DEF TaskLogs
  <2>4. QED BY <2>1, <2>2, <2>3
<1>25. ASSUME NEW t \in Task, Elapse(t) PROVE Threads'
  BY <1>25 DEF Elapse, TypeOK
<1>26. CASE UNCHANGED vars
  BY <1>26 DEF TypeOK
<1>27. QED
  BY <1>1, <1>2, <1>3, <1>4, <1>5, <1>6, <1>7, <1>8, <1>9, <1>10, <1>11, <1>12, <1>13,
      <1>14, <1>15, <1>16, <1>17, <1>18, <1>19, <1>20, <1>21, <1>22, <1>23, <1>24, <1>25,
      <1>26
  DEF Next, MainStep, CycleStep, TaskStep, Undefined

\* ... and of the places and owners.
LEMMA PlacesStep == Places /\ [Next]_vars => Places'
<1> SUFFICES ASSUME Places, [Next]_vars PROVE Places'
  OBVIOUS
<1> USE SchedulerAssumption DEF vars, locks, main, cycles, tasks, history, Task, Go, At, MainUnlocks, Places
<1>1. CASE StopCalled
  BY <1>1 DEF StopCalled
<1>2. CASE StopLocks
  BY <1>2 DEF StopLocks
<1>3. CASE SweepLock
  BY <1>3 DEF SweepLock
<1>4. CASE SweepUnlock
  BY <1>4 DEF SweepUnlock
<1>5. CASE Clear
  BY <1>5 DEF Clear
<1>6. CASE AddBegins
  BY <1>6 DEF AddBegins
<1>7. CASE AddEnds
  BY <1>7 DEF AddEnds
<1>8. ASSUME NEW c \in Cycle, Start(c) PROVE Places'
  BY <1>8 DEF Start
<1>9. ASSUME NEW c \in Cycle, CycleLocks(c) PROVE Places'
  BY <1>9 DEF CycleLocks
<1>10. ASSUME NEW c \in Cycle, CycleWakes(c) PROVE Places'
  BY <1>10 DEF CycleWakes
<1>11. ASSUME NEW c \in Cycle, CycleTests(c) PROVE Places'
  <2>1. CASE due[ci[c]]
    BY <1>11, <2>1 DEF CycleTests
  <2>2. CASE ~due[ci[c]]
    <3>1. /\ cpc[c] = "scan" /\ ci[c] <= cn[c]
          /\ ci' = [ci EXCEPT ![c] = ci[c] + 1]
          /\ UNCHANGED <<size, smux, mux, mpc, mi, cpc, cn>>
      BY <1>11, <2>2 DEF CycleTests
    <3>2. ci' \in [Cycle -> 1 .. NTask + 1]
      BY <3>1
    <3>3. ASSUME NEW d \in Cycle, cpc[d] = "check" PROVE ci'[d] <= cn[d]
      BY <3>1, <3>3
    <3>4. QED BY <3>1, <3>2, <3>3
  <2>3. QED BY <2>1, <2>2
<1>12. ASSUME NEW c \in Cycle, CycleLaunches(c) PROVE Places'
  BY <1>12 DEF CycleLaunches
<1>13. ASSUME NEW c \in Cycle, CycleMisses(c) PROVE Places'
  BY <1>13 DEF CycleMisses
<1>14. ASSUME NEW c \in Cycle, CycleRoundEnds(c) PROVE Places'
  BY <1>14 DEF CycleRoundEnds
<1>15. ASSUME NEW c \in Cycle, CycleExits(c) PROVE Places'
  BY <1>15 DEF CycleExits
<1>16. ASSUME NEW c \in Cycle, CycleSweeps(c) PROVE Places'
  BY <1>16 DEF CycleSweeps
<1>17. ASSUME NEW c \in Cycle, CycleReleases(c) PROVE Places'
  BY <1>17 DEF CycleReleases
<1>18. ASSUME NEW c \in Cycle, CycleEnds(c) PROVE Places'
  BY <1>18 DEF CycleEnds
<1>19. ASSUME NEW t \in Task, TaskLocks(t) PROVE Places'
  BY <1>19 DEF TaskLocks, Moves
<1>20. ASSUME NEW t \in Task, TaskMarks(t) PROVE Places'
  BY <1>20 DEF TaskMarks, Moves
<1>21. ASSUME NEW t \in Task, TaskStamps(t) PROVE Places'
  BY <1>21 DEF TaskStamps, Moves
<1>22. ASSUME NEW t \in Task, TaskFinishes(t) PROVE Places'
  BY <1>22 DEF TaskFinishes, Moves
<1>23. ASSUME NEW t \in Task, TaskUnlocks(t) PROVE Places'
  BY <1>23 DEF TaskUnlocks, Moves
<1>24. ASSUME NEW t \in Task, TaskLogs(t) PROVE Places'
  BY <1>24 DEF TaskLogs
<1>25. ASSUME NEW t \in Task, Elapse(t) PROVE Places'
  BY <1>25 DEF Elapse
<1>26. CASE UNCHANGED vars
  BY <1>26
<1>27. QED
  BY <1>1, <1>2, <1>3, <1>4, <1>5, <1>6, <1>7, <1>8, <1>9, <1>10, <1>11, <1>12, <1>13,
      <1>14, <1>15, <1>16, <1>17, <1>18, <1>19, <1>20, <1>21, <1>22, <1>23, <1>24, <1>25,
      <1>26
  DEF Next, MainStep, CycleStep, TaskStep, Undefined

\* Every step keeps the types.
LEMMA TypeStep == TypeOK /\ [Next]_vars => TypeOK'
<1> SUFFICES ASSUME TypeOK, [Next]_vars PROVE TypeOK'
  OBVIOUS
<1>1. Flags' /\ Threads' /\ Places'
  BY TypeParts, FlagsStep, ThreadsStep, PlacesStep
<1>2. QED
  BY <1>1, Zenon DEF TypeOK, Flags, Threads, Places

\* Every step keeps the owner of task_mux the only thread inside.
LEMMA LockStep == TypeOK /\ LockInv /\ CycleInv /\ [Next]_vars => LockInv'
<1> SUFFICES ASSUME TypeOK /\ LockInv /\ CycleInv, [Next]_vars PROVE LockInv'
  OBVIOUS
<1> USE Owners DEF vars, locks, main, cycles, tasks, history, TypeOK, Task, Go, At, MainUnlocks, LockInv, CycleInv, CycleOwns, Stage, Inside
<1>1. CASE StopCalled
  BY <1>1 DEF StopCalled
<1>2. CASE StopLocks
  BY <1>2 DEF StopLocks
<1>3. CASE SweepLock
  BY <1>3 DEF SweepLock
<1>4. CASE SweepUnlock
  BY <1>4 DEF SweepUnlock
<1>5. CASE Clear
  BY <1>5 DEF Clear
<1>6. CASE AddBegins
  BY <1>6 DEF AddBegins
<1>7. CASE AddEnds
  BY <1>7 DEF AddEnds
<1>8. ASSUME NEW c \in Cycle, Start(c) PROVE LockInv'
  BY <1>8 DEF Start
<1>9. ASSUME NEW c \in Cycle, CycleLocks(c) PROVE LockInv'
  BY <1>9 DEF CycleLocks
<1>10. ASSUME NEW c \in Cycle, CycleWakes(c) PROVE LockInv'
  BY <1>10 DEF CycleWakes
<1>11. ASSUME NEW c \in Cycle, CycleTests(c) PROVE LockInv'
  BY <1>11 DEF CycleTests
<1>12. ASSUME NEW c \in Cycle, CycleLaunches(c) PROVE LockInv'
  BY <1>12 DEF CycleLaunches
<1>13. ASSUME NEW c \in Cycle, CycleMisses(c) PROVE LockInv'
  BY <1>13 DEF CycleMisses
<1>14. ASSUME NEW c \in Cycle, CycleRoundEnds(c) PROVE LockInv'
  BY <1>14 DEF CycleRoundEnds
<1>15. ASSUME NEW c \in Cycle, CycleExits(c) PROVE LockInv'
  BY <1>15 DEF CycleExits
<1>16. ASSUME NEW c \in Cycle, CycleSweeps(c) PROVE LockInv'
  BY <1>16 DEF CycleSweeps
<1>17. ASSUME NEW c \in Cycle, CycleReleases(c) PROVE LockInv'
  BY <1>17 DEF CycleReleases
<1>18. ASSUME NEW c \in Cycle, CycleEnds(c) PROVE LockInv'
  BY <1>18 DEF CycleEnds
<1>19. ASSUME NEW t \in Task, TaskLocks(t) PROVE LockInv'
  <2>1. Counts(t, "fresh", "locked")
    BY <1>19, MovesCounts DEF TaskLocks, Stage
  <2>2. QED BY <1>19, <2>1 DEF TaskLocks, Counts
<1>20. ASSUME NEW t \in Task, TaskMarks(t) PROVE LockInv'
  <2>1. Counts(t, "locked", "marked")
    BY <1>20, MovesCounts DEF TaskMarks, Stage
  <2>2. mux[t] = Thread
    BY <2>1, InsideOwns DEF Counts, Inside
  <2>3. QED BY <1>20, <2>1, <2>2 DEF TaskMarks, Counts
<1>21. ASSUME NEW t \in Task, TaskStamps(t) PROVE LockInv'
  <2>1. Counts(t, "marked", "busy")
    BY <1>21, MovesCounts DEF TaskStamps, Stage
  <2>2. mux[t] = Thread
    BY <2>1, InsideOwns DEF Counts, Inside
  <2>3. QED BY <1>21, <2>1, <2>2 DEF TaskStamps, Counts
<1>22. ASSUME NEW t \in Task, TaskFinishes(t) PROVE LockInv'
  <2>1. Counts(t, "busy", "done")
    BY <1>22, MovesCounts DEF TaskFinishes, Stage
  <2>2. mux[t] = Thread
    BY <2>1, InsideOwns DEF Counts, Inside
  <2>3. QED BY <1>22, <2>1, <2>2 DEF TaskFinishes, Counts
<1>23. ASSUME NEW t \in Task, TaskUnlocks(t) PROVE LockInv'
  <2>1. Counts(t, "done", "ending")
    BY <1>23, MovesCounts DEF TaskUnlocks, Stage
  <2>2. mux[t] = Thread
    BY <2>1, InsideOwns DEF Counts, Inside
  <2>3. QED BY <1>23, <2>1, <2>2 DEF TaskUnlocks, Counts
<1>24. ASSUME NEW t \in Task, TaskLogs(t) PROVE LockInv'
  BY <1>24 DEF TaskLogs
<1>25. ASSUME NEW t \in Task, Elapse(t) PROVE LockInv'
  BY <1>25 DEF Elapse
<1>26. CASE UNCHANGED vars
  BY <1>26
<1>27. QED
  BY <1>1, <1>2, <1>3, <1>4, <1>5, <1>6, <1>7, <1>8, <1>9, <1>10, <1>11, <1>12, <1>13,
      <1>14, <1>15, <1>16, <1>17, <1>18, <1>19, <1>20, <1>21, <1>22, <1>23, <1>24, <1>25,
      <1>26
  DEF Next, MainStep, CycleStep, TaskStep, Undefined

\* Every step keeps what the cycle threads own.
LEMMA CycleInvStep == IInv /\ [Next]_vars => CycleInv'
<1> SUFFICES ASSUME IInv, [Next]_vars PROVE CycleInv'
  OBVIOUS
<1> USE Owners DEF vars, locks, main, cycles, tasks, history, IInv, TypeOK, Task, Go, At, MainUnlocks, CycleInv, CycleOwns, MainInv, Reading, Holding
<1>1. CASE StopCalled
  BY <1>1 DEF StopCalled
<1>2. CASE StopLocks
  BY <1>2 DEF StopLocks
<1>3. CASE SweepLock
  BY <1>3 DEF SweepLock
<1>4. CASE SweepUnlock
  BY <1>4 DEF SweepUnlock
<1>5. CASE Clear
  BY <1>5 DEF Clear
<1>6. CASE AddBegins
  BY <1>6 DEF AddBegins
<1>7. CASE AddEnds
  BY <1>7, Owners DEF AddEnds
<1>8. ASSUME NEW c \in Cycle, Start(c) PROVE CycleInv'
  BY <1>8 DEF Start
<1>9. ASSUME NEW c \in Cycle, CycleLocks(c) PROVE CycleInv'
  <2>1. ASSUME NEW d \in Cycle PROVE CycleOwns(d)'
    <3>1. CASE d = c
      BY <1>9, <3>1, Owners DEF CycleLocks
    <3>2. CASE d # c
      BY <1>9, <3>2, Owners DEF CycleLocks
    <3>3. QED BY <3>1, <3>2
  <2>2. QED BY <2>1
<1>10. ASSUME NEW c \in Cycle, CycleWakes(c) PROVE CycleInv'
  BY <1>10 DEF CycleWakes
<1>11. ASSUME NEW c \in Cycle, CycleTests(c) PROVE CycleInv'
  BY <1>11 DEF CycleTests
<1>12. ASSUME NEW c \in Cycle, CycleLaunches(c) PROVE CycleInv'
  BY <1>12 DEF CycleLaunches
<1>13. ASSUME NEW c \in Cycle, CycleMisses(c) PROVE CycleInv'
  BY <1>13 DEF CycleMisses
<1>14. ASSUME NEW c \in Cycle, CycleRoundEnds(c) PROVE CycleInv'
  BY <1>14 DEF CycleRoundEnds
<1>15. ASSUME NEW c \in Cycle, CycleExits(c) PROVE CycleInv'
  <2>1. ASSUME NEW d \in Cycle PROVE CycleOwns(d)'
    <3>1. CASE d = c
      BY <1>15, <3>1, Owners DEF CycleExits
    <3>2. CASE d # c
      BY <1>15, <3>2, Owners DEF CycleExits
    <3>3. QED BY <3>1, <3>2
  <2>2. QED BY <2>1
<1>16. ASSUME NEW c \in Cycle, CycleSweeps(c) PROVE CycleInv'
  <2>1. ASSUME NEW d \in Cycle PROVE CycleOwns(d)'
    <3>1. CASE d = c
      BY <1>16, <3>1, Owners DEF CycleSweeps
    <3>2. CASE d # c
      BY <1>16, <3>2, Owners DEF CycleSweeps
    <3>3. QED BY <3>1, <3>2
  <2>2. QED BY <2>1
<1>17. ASSUME NEW c \in Cycle, CycleReleases(c) PROVE CycleInv'
  <2>1. ASSUME NEW d \in Cycle PROVE CycleOwns(d)'
    <3>1. CASE d = c
      BY <1>17, <3>1, Owners DEF CycleReleases
    <3>2. CASE d # c
      BY <1>17, <3>2, Owners DEF CycleReleases
    <3>3. QED BY <3>1, <3>2
  <2>2. QED BY <2>1
<1>18. ASSUME NEW c \in Cycle, CycleEnds(c) PROVE CycleInv'
  BY <1>18 DEF CycleEnds
<1>19. ASSUME NEW t \in Task, TaskLocks(t) PROVE CycleInv'
  BY <1>19, Owners DEF TaskLocks, Moves
<1>20. ASSUME NEW t \in Task, TaskMarks(t) PROVE CycleInv'
  BY <1>20 DEF TaskMarks
<1>21. ASSUME NEW t \in Task, TaskStamps(t) PROVE CycleInv'
  BY <1>21 DEF TaskStamps
<1>22. ASSUME NEW t \in Task, TaskFinishes(t) PROVE CycleInv'
  BY <1>22 DEF TaskFinishes
<1>23. ASSUME NEW t \in Task, TaskUnlocks(t) PROVE CycleInv'
  <2>1. mux[t] = Thread
    BY <1>23, InsideOwns DEF TaskUnlocks, Moves, Inside
  <2>2. QED BY <1>23, <2>1, Owners DEF TaskUnlocks, Moves
<1>24. ASSUME NEW t \in Task, TaskLogs(t) PROVE CycleInv'
  BY <1>24 DEF TaskLogs
<1>25. ASSUME NEW t \in Task, Elapse(t) PROVE CycleInv'
  BY <1>25 DEF Elapse
<1>26. CASE UNCHANGED vars
  BY <1>26
<1>27. QED
  BY <1>1, <1>2, <1>3, <1>4, <1>5, <1>6, <1>7, <1>8, <1>9, <1>10, <1>11, <1>12, <1>13,
      <1>14, <1>15, <1>16, <1>17, <1>18, <1>19, <1>20, <1>21, <1>22, <1>23, <1>24, <1>25,
      <1>26
  DEF Next, MainStep, CycleStep, TaskStep, Undefined

\* Every step keeps what the main thread owns.
LEMMA MainInvStep == IInv /\ [Next]_vars => MainInv'
<1> SUFFICES ASSUME IInv, [Next]_vars PROVE MainInv'
  OBVIOUS
<1> USE Owners DEF vars, locks, main, cycles, tasks, history, IInv, TypeOK, Task, Go, At, MainUnlocks, CycleInv, CycleOwns, MainInv, Reading, Holding
<1>1. CASE StopCalled
  BY <1>1 DEF StopCalled
<1>2. CASE StopLocks
  BY <1>2 DEF StopLocks
<1>3. CASE SweepLock
  BY <1>3 DEF SweepLock
<1>4. CASE SweepUnlock
  BY <1>4 DEF SweepUnlock
<1>5. CASE Clear
  BY <1>5 DEF Clear
<1>6. CASE AddBegins
  BY <1>6 DEF AddBegins
<1>7. CASE AddEnds
  BY <1>7 DEF AddEnds
<1>8. ASSUME NEW c \in Cycle, Start(c) PROVE MainInv'
  BY <1>8 DEF Start
<1>9. ASSUME NEW c \in Cycle, CycleLocks(c) PROVE MainInv'
  BY <1>9, Owners DEF CycleLocks
<1>10. ASSUME NEW c \in Cycle, CycleWakes(c) PROVE MainInv'
  BY <1>10 DEF CycleWakes
<1>11. ASSUME NEW c \in Cycle, CycleTests(c) PROVE MainInv'
  BY <1>11 DEF CycleTests
<1>12. ASSUME NEW c \in Cycle, CycleLaunches(c) PROVE MainInv'
  BY <1>12 DEF CycleLaunches
<1>13. ASSUME NEW c \in Cycle, CycleMisses(c) PROVE MainInv'
  BY <1>13 DEF CycleMisses
<1>14. ASSUME NEW c \in Cycle, CycleRoundEnds(c) PROVE MainInv'
  BY <1>14 DEF CycleRoundEnds
<1>15. ASSUME NEW c \in Cycle, CycleExits(c) PROVE MainInv'
  BY <1>15 DEF CycleExits
<1>16. ASSUME NEW c \in Cycle, CycleSweeps(c) PROVE MainInv'
  BY <1>16 DEF CycleSweeps
<1>17. ASSUME NEW c \in Cycle, CycleReleases(c) PROVE MainInv'
  BY <1>17, Owners DEF CycleReleases
<1>18. ASSUME NEW c \in Cycle, CycleEnds(c) PROVE MainInv'
  BY <1>18, Owners DEF CycleEnds
<1>19. ASSUME NEW t \in Task, TaskLocks(t) PROVE MainInv'
  BY <1>19 DEF TaskLocks
<1>20. ASSUME NEW t \in Task, TaskMarks(t) PROVE MainInv'
  BY <1>20 DEF TaskMarks
<1>21. ASSUME NEW t \in Task, TaskStamps(t) PROVE MainInv'
  BY <1>21 DEF TaskStamps
<1>22. ASSUME NEW t \in Task, TaskFinishes(t) PROVE MainInv'
  BY <1>22 DEF TaskFinishes
<1>23. ASSUME NEW t \in Task, TaskUnlocks(t) PROVE MainInv'
  <2>1. mux[t] = Thread
    BY <1>23, InsideOwns DEF TaskUnlocks, Moves, Inside
  <2>2. QED BY <1>23, <2>1 DEF TaskUnlocks, Moves
<1>24. ASSUME NEW t \in Task, TaskLogs(t) PROVE MainInv'
  BY <1>24 DEF TaskLogs
<1>25. ASSUME NEW t \in Task, Elapse(t) PROVE MainInv'
  BY <1>25 DEF Elapse
<1>26. CASE UNCHANGED vars
  BY <1>26
<1>27. QED
  BY <1>1, <1>2, <1>3, <1>4, <1>5, <1>6, <1>7, <1>8, <1>9, <1>10, <1>11, <1>12, <1>13,
      <1>14, <1>15, <1>16, <1>17, <1>18, <1>19, <1>20, <1>21, <1>22, <1>23, <1>24, <1>25,
      <1>26
  DEF Next, MainStep, CycleStep, TaskStep, Undefined

\* Every step keeps swept tasks quiet.
LEMMA UseInvStep == IInv /\ ~used /\ [Next]_vars => UseInv'
<1> SUFFICES ASSUME IInv /\ ~used, [Next]_vars PROVE UseInv'
  OBVIOUS
<1> USE Owners DEF IInv, Task, Holding, vars, locks, main, cycles, tasks, history
<1>1. CASE StopCalled
  BY <1>1 DEF StopCalled, UseInv, Quiet, Idle, Go, At
<1>2. CASE StopLocks
  BY <1>2 DEF StopLocks, UseInv, Quiet, Idle, Go, At
<1>3. CASE SweepLock
  <2>1. CASE mpc = "add"
    BY <1>3, <2>1 DEF SweepLock, UseInv, Quiet, Idle
  <2>2. CASE mpc # "add" /\ ~overtaken'
    <3>0. ~overtaken /\ ~(thr[mi]["fresh"] > 0)
      BY <1>3, <2>2, Zenon DEF SweepLock
    <3>1. mi \in Task /\ mux[mi] = Free /\ thr[mi]["fresh"] = 0 /\ ~overtaken
      <4>1. mi \in Task /\ mux[mi] = Free
        BY <1>3, SchedulerAssumption DEF SweepLock, TypeOK
      <4>2. thr[mi]["fresh"] \in Nat
        BY <4>1 DEF TypeOK, Stage
      <4>3. QED BY <3>0, <4>1, <4>2
    <3>2. Quiet(mi)
      BY <3>1, Owners DEF Quiet, LockInv
    <3>3. \A t \in Task : t < mi => Quiet(t)
      BY <1>3, <2>2, <3>1 DEF SweepLock, UseInv
    <3>4. \A t \in Task : t < mi + 1 => Quiet(t)
      BY <3>1, <3>2, <3>3 DEF TypeOK
    <3>5. mi' = mi + 1 /\ UNCHANGED <<size, mpc, thr, used>>
      BY <1>3 DEF SweepLock
    <3>6. QED BY <1>3, <2>2, <3>4, <3>5 DEF SweepLock, UseInv, Quiet, Idle
  <2>3. CASE overtaken'
    BY <1>3, <2>3 DEF SweepLock, UseInv, Idle
  <2>4. QED BY <2>1, <2>2, <2>3
<1>4. CASE SweepUnlock
  <2>1. /\ mpc \in {"resweep", "sweep"} /\ mi > size
        /\ mpc' \in {"reclear", "clear"}
        /\ UNCHANGED <<size, thr, used, overtaken>>
    BY <1>4 DEF SweepUnlock
  <2>2. \A t \in Task : Idle(t) => Quiet(t)
    BY DEF Idle, Quiet, NoThread, Inside, Stage
  <2>3. ~overtaken => \A t \in Task : Quiet(t)
    <3>1. SUFFICES ASSUME ~overtaken, NEW t \in Task PROVE Quiet(t)
      OBVIOUS
    <3>2. CASE t > size
      BY <2>2, <3>2 DEF UseInv
    <3>3. CASE t <= size
      BY <2>1, <3>1, <3>3 DEF UseInv, TypeOK
    <3>4. QED BY <3>2, <3>3 DEF TypeOK
  <2>4. QED BY <2>1, <2>3 DEF UseInv, Quiet, Idle
<1>5. CASE Clear
  BY <1>5 DEF Clear, UseInv, Quiet, Idle, TypeOK, Stage, Inside, NoThread, Go, At
<1>6. CASE AddBegins
  BY <1>6 DEF AddBegins, UseInv, Quiet, Idle, Go, At
<1>7. CASE AddEnds
  BY <1>7 DEF AddEnds, UseInv, Quiet, Idle, MainUnlocks, TypeOK, Go, At
<1>8. ASSUME NEW c \in Cycle, Start(c) PROVE UseInv'
  BY <1>8 DEF Start, UseInv, Quiet, Idle, Go, At
<1>9. ASSUME NEW c \in Cycle, CycleLocks(c) PROVE UseInv'
  BY <1>9 DEF CycleLocks, UseInv, Quiet, Idle, Go, At
<1>10. ASSUME NEW c \in Cycle, CycleWakes(c) PROVE UseInv'
  BY <1>10 DEF CycleWakes, UseInv, Quiet, Idle, Go, At
<1>11. ASSUME NEW c \in Cycle, CycleTests(c) PROVE UseInv'
  BY <1>11 DEF CycleTests, UseInv, Quiet, Idle, Go, At
<1>12. ASSUME NEW c \in Cycle, CycleLaunches(c) PROVE UseInv'
  <2>1. smux = c /\ ci[c] \in Task /\ ci[c] <= size
    <3>1. cpc[c] = "check" /\ ci[c] <= cn[c]
      BY <1>12 DEF CycleLaunches, At, TypeOK
    <3>2. smux = c /\ cn[c] = size
      BY <3>1 DEF CycleInv, CycleOwns, Reading
    <3>3. QED BY <3>1, <3>2, SchedulerAssumption DEF TypeOK
  <2>2. mpc \notin Holding
    BY <2>1, Owners DEF MainInv
  <2>3. \A u \in Task : u # ci[c] => thr'[u] = thr[u]
    BY <1>12, <2>1 DEF CycleLaunches, TypeOK
  <2>4. UNCHANGED <<size, mpc, mi, used>>
    BY <1>12 DEF CycleLaunches
  <2>5. \A u \in Task : u > size => Idle(u)'
    BY <2>1, <2>3 DEF UseInv, Idle, TypeOK
  <2>6. QED BY <2>2, <2>4, <2>5 DEF UseInv, Holding
<1>13. ASSUME NEW c \in Cycle, CycleMisses(c) PROVE UseInv'
  BY <1>13 DEF CycleMisses, UseInv, Quiet, Idle, Go, At
<1>14. ASSUME NEW c \in Cycle, CycleRoundEnds(c) PROVE UseInv'
  BY <1>14 DEF CycleRoundEnds, UseInv, Quiet, Idle, Go, At
<1>15. ASSUME NEW c \in Cycle, CycleExits(c) PROVE UseInv'
  BY <1>15 DEF CycleExits, UseInv, Quiet, Idle, Go, At
<1>16. ASSUME NEW c \in Cycle, CycleSweeps(c) PROVE UseInv'
  BY <1>16 DEF CycleSweeps, UseInv, Quiet, Idle, Go, At
<1>17. ASSUME NEW c \in Cycle, CycleReleases(c) PROVE UseInv'
  BY <1>17 DEF CycleReleases, UseInv, Quiet, Idle, Go, At
<1>18. ASSUME NEW c \in Cycle, CycleEnds(c) PROVE UseInv'
  BY <1>18 DEF CycleEnds, UseInv, Quiet, Idle, Go, At
<1>19. ASSUME NEW t \in Task, TaskLocks(t) PROVE UseInv'
  <2>1. Counts(t, "fresh", "locked")
    BY <1>19, MovesCounts DEF TaskLocks, Stage
  <2>2. /\ ~Quiet(t) /\ ~Idle(t)
        /\ \A u \in Task : u # t => Quiet(u)' = Quiet(u) /\ Idle(u)' = Idle(u)
    BY <2>1, ThreadMoved DEF Inside, Stage
  <2>3. QED BY <1>19, <2>2 DEF TaskLocks, UseInv
<1>20. ASSUME NEW t \in Task, TaskMarks(t) PROVE UseInv'
  <2>1. Counts(t, "locked", "marked")
    BY <1>20, MovesCounts DEF TaskMarks, Stage
  <2>2. /\ ~Quiet(t) /\ ~Idle(t)
        /\ \A u \in Task : u # t => Quiet(u)' = Quiet(u) /\ Idle(u)' = Idle(u)
    BY <2>1, ThreadMoved DEF Inside, Stage
  <2>3. QED BY <1>20, <2>2 DEF TaskMarks, UseInv
<1>21. ASSUME NEW t \in Task, TaskStamps(t) PROVE UseInv'
  <2>1. Counts(t, "marked", "busy")
    BY <1>21, MovesCounts DEF TaskStamps, Stage
  <2>2. /\ ~Quiet(t) /\ ~Idle(t)
        /\ \A u \in Task : u # t => Quiet(u)' = Quiet(u) /\ Idle(u)' = Idle(u)
    BY <2>1, ThreadMoved DEF Inside, Stage
  <2>3. QED BY <1>21, <2>2 DEF TaskStamps, UseInv
<1>22. ASSUME NEW t \in Task, TaskFinishes(t) PROVE UseInv'
  <2>1. Counts(t, "busy", "done")
    BY <1>22, MovesCounts DEF TaskFinishes, Stage
  <2>2. /\ ~Quiet(t) /\ ~Idle(t)
        /\ \A u \in Task : u # t => Quiet(u)' = Quiet(u) /\ Idle(u)' = Idle(u)
    BY <2>1, ThreadMoved DEF Inside, Stage
  <2>3. QED BY <1>22, <2>2 DEF TaskFinishes, UseInv
<1>23. ASSUME NEW t \in Task, TaskUnlocks(t) PROVE UseInv'
  <2>1. Counts(t, "done", "ending")
    BY <1>23, MovesCounts DEF TaskUnlocks, Stage
  <2>2. /\ ~Quiet(t) /\ ~Idle(t)
        /\ \A u \in Task : u # t => Quiet(u)' = Quiet(u) /\ Idle(u)' = Idle(u)
    BY <2>1, ThreadMoved DEF Inside, Stage
  <2>3. QED BY <1>23, <2>2 DEF TaskUnlocks, UseInv
<1>24. ASSUME NEW t \in Task, TaskLogs(t) PROVE UseInv'
  <2>1. /\ \A u \in Task : u # t => thr'[u] = thr[u]
        /\ \A s \in Stage : s # "ending" => thr'[t][s] = thr[t][s]
        /\ thr[t]["ending"] > 0
    BY <1>24 DEF TaskLogs, TypeOK, Stage
  <2>2. ~Idle(t)
    BY <2>1 DEF Idle, NoThread, Stage
  <2>3. \A u \in Task : Quiet(u)' = Quiet(u)
    BY <2>1 DEF Quiet, Inside, Stage
  <2>4. QED BY <1>24, <2>1, <2>2, <2>3 DEF TaskLogs, UseInv, Idle
<1>25. ASSUME NEW t \in Task, Elapse(t) PROVE UseInv'
  BY <1>25 DEF Elapse, UseInv, Quiet, Idle, Go, At
<1>26. CASE UNCHANGED vars
  BY <1>26 DEF UseInv, Quiet, Idle
<1>27. QED
  BY <1>1, <1>2, <1>3, <1>4, <1>5, <1>6, <1>7, <1>8, <1>9, <1>10, <1>11, <1>12, <1>13,
      <1>14, <1>15, <1>16, <1>17, <1>18, <1>19, <1>20, <1>21, <1>22, <1>23, <1>24, <1>25,
      <1>26
  DEF Next, MainStep, CycleStep, TaskStep, Undefined

-----------------------------------------------------------------------------
(* Theorems.                                                               *)

\* The initial state satisfies the invariant.
LEMMA InitIInv == Init => IInv
<1> SUFFICES ASSUME Init PROVE IInv
  OBVIOUS
<1>1. Flags
  BY Zenon DEF Init, Flags
<1>2. Threads
  BY DEF Init, Threads, NoThread
<1>3. Places
  BY SchedulerAssumption DEF Init, Places, Task
<1>4. LockInv
  BY Owners DEF Init, LockInv, NoThread, Inside, Stage
<1>5. CycleInv
  BY Owners DEF Init, CycleInv, CycleOwns, Reading
<1>6. MainInv
  BY Owners DEF Init, MainInv, Holding
<1>7. UseInv
  BY DEF Init, UseInv, Idle
<1>8. QED
  BY <1>1, <1>2, <1>3, <1>4, <1>5, <1>6, <1>7, TypeParts DEF IInv

\* Once a destroyed task is used, the model stops.
LEMMA UndefinedStops == used /\ [Next]_vars => UNCHANGED vars
  BY Zenon DEF Next, Undefined

\* The invariant is inductive.
LEMMA NextIInv == IInv /\ [Next]_vars => IInv'
<1> SUFFICES ASSUME IInv, [Next]_vars PROVE IInv'
  OBVIOUS
<1>1. TypeOK' /\ LockInv' /\ CycleInv' /\ MainInv'
  BY TypeStep, LockStep, CycleInvStep, MainInvStep DEF IInv
<1>2. CASE used
  <2>1. UNCHANGED <<size, mpc, mi, thr, used, overtaken>>
    BY <1>2, UndefinedStops DEF vars, main, tasks, history
  <2>2. UseInv'
    BY <2>1 DEF IInv, UseInv, Quiet, Idle
  <2>3. QED BY <1>1, <2>2 DEF IInv
<1>3. CASE ~used
  BY <1>1, <1>3, UseInvStep DEF IInv
<1>4. QED BY <1>2, <1>3

\* The invariant holds throughout.
THEOREM Inductive == Spec => []IInv
<1>1. QED
  BY InitIInv, NextIInv, PTL DEF Spec

\* Every variable keeps the type the code gives it.
THEOREM TypeCorrect == Spec => []TypeOK
<1>1. IInv => TypeOK
  BY DEF IInv
<1>2. QED
  BY <1>1, Inductive, PTL

\* task_mux keeps the runs of a task apart, whatever the number of threads
\* launched for it (Task_c::run).
THEOREM MutualExclusion == Spec => []Excluded
<1>1. IInv => Excluded
  BY DEF IInv, LockInv, Excluded
<1>2. QED
  BY <1>1, Inductive, PTL

\* The mutexes a finishing cycle thread still has to unlock exist until it
\* has unlocked them, although it has given up scheduler_mux.
THEOREM ReleaseIsSafe == Spec => []CycleKeepsItsTasks
<1>1. IInv => CycleKeepsItsTasks
  BY DEF IInv, CycleInv, CycleOwns, CycleKeepsItsTasks
<1>2. QED
  BY <1>1, Inductive, PTL

\* Nobody changes the vector of tasks under a cycle thread, nor does a second
\* cycle thread go through it.
THEOREM VectorIsStable == Spec => []OneCycleReads
<1>1. IInv => OneCycleReads
  BY DEF IInv, CycleInv, CycleOwns, Reading, OneCycleReads
<1>2. QED
  BY <1>1, Inductive, PTL

\* Only a step of Clear can leave a destroyed task in use, and it does so
\* only where the sweep overtook a thread or a thread is at its last line.
LEMMA UseStep == IInv /\ UsedOnlyIfOvertaken /\ [Next]_vars
                   => UsedOnlyIfOvertaken'
<1> SUFFICES ASSUME IInv, UsedOnlyIfOvertaken, [Next]_vars
             PROVE  UsedOnlyIfOvertaken'
  OBVIOUS
<1>1. CASE used
  <2>1. UNCHANGED <<thr, used, overtaken>>
    BY <1>1, UndefinedStops DEF vars, tasks, history
  <2>2. QED BY <2>1 DEF UsedOnlyIfOvertaken
<1>2. CASE ~used /\ Clear
  <2>1. SUFFICES ASSUME ~overtaken, NEW t \in Task, ~Idle(t)
                 PROVE  thr[t]["ending"] > 0
    BY <1>2 DEF Clear, UsedOnlyIfOvertaken
  <2>2. Quiet(t)
    BY <1>2, <2>1 DEF Clear, IInv, UseInv
  <2>3. thr[t] \in [Stage -> Nat]
    BY DEF IInv, TypeOK
  <2>4. thr[t]["ending"] # 0
    BY <2>1, <2>2, <2>3 DEF Idle, NoThread, Quiet, Inside, Stage
  <2>5. QED BY <2>3, <2>4 DEF Stage
<1>3. CASE ~used /\ ~Clear
  <2>1. ~used'
    BY <1>3, Zenon DEF Next, Undefined, vars, history, MainStep, CycleStep,
       TaskStep, StopCalled, StopLocks, SweepLock, SweepUnlock, AddBegins,
       AddEnds, Start, CycleLocks, CycleWakes, CycleTests, CycleLaunches,
       CycleMisses, CycleRoundEnds, CycleExits, CycleSweeps, CycleReleases,
       CycleEnds, TaskLocks, TaskMarks, TaskStamps, TaskFinishes,
       TaskUnlocks, TaskLogs, Elapse
  <2>2. QED BY <2>1 DEF UsedOnlyIfOvertaken
<1>4. QED BY <1>1, <1>2, <1>3

\* stop() always waits for a run in progress: it destroys a task under one of
\* its threads only where it overtook a launched thread at task_mux, or one
\* that has only its last log line left.
THEOREM StopWaitsForRuns == Spec => []UsedOnlyIfOvertaken
<1>1. Init => UsedOnlyIfOvertaken
  BY DEF Init, UsedOnlyIfOvertaken
<1>2. QED
  BY <1>1, UseStep, Inductive, PTL DEF Spec

-----------------------------------------------------------------------------
(* Punctuality.  taskRunning is set by the launched thread, not by the     *)
(* cycle that launches it: what keeps a task from being launched twice is  *)
(* that the thread gets there within the cycle's pause.                    *)

\* Who holds a task_mux is where it can have taken it.
OwnedInv ==
  \A t \in Task :
    /\ mux[t] = Main => mpc \in {"resweep", "sweep", "add"}
    /\ \A c \in Cycle : mux[t] = c =>
         \/ cpc[c] = "sweep" /\ t < ci[c] /\ ci[c] <= cn[c] + 1
         \/ cpc[c] = "release" /\ t <= cn[c]

\* Of a task no more than one run is launched and unfinished, and once it is
\* marked taskRunning says so.
OneRun(t) ==
  /\ thr[t]["fresh"] + thr[t]["locked"] + thr[t]["marked"] + thr[t]["busy"] <= 1
  /\ thr[t]["marked"] > 0 \/ thr[t]["busy"] > 0 => taskRunning[t]

\* No launched thread of t is still short of the function's call.
Settled(t) == \A s \in {"fresh", "locked", "marked"} : thr[t][s] = 0

\* As long as no thread is late: one run of each task, and the cycle comes
\* to tasks whose last launch is over or in its function.
PunctualInv ==
  ~late => /\ ~doubled
           /\ ~used => /\ \A t \in Task : OneRun(t)
                       /\ \A c \in Cycle : cpc[c] \in {"scan", "check"} =>
                            \A t \in Task : ci[c] <= t /\ t <= cn[c] => Settled(t)

\* Every step keeps it.
LEMMA OwnedStep == IInv /\ OwnedInv /\ [Next]_vars => OwnedInv'
<1> SUFFICES ASSUME IInv, OwnedInv, [Next]_vars PROVE OwnedInv'
  OBVIOUS
<1> USE Owners, SchedulerAssumption DEF vars, locks, main, cycles, tasks, history, IInv, TypeOK, Task, Go, At, MainUnlocks, CycleInv, CycleOwns, Reading, MainInv, Holding, OwnedInv
<1>1. CASE StopCalled
  BY <1>1 DEF StopCalled
<1>2. CASE StopLocks
  BY <1>2 DEF StopLocks
<1>3. CASE SweepLock
  BY <1>3 DEF SweepLock
<1>4. CASE SweepUnlock
  BY <1>4 DEF SweepUnlock
<1>5. CASE Clear
  BY <1>5 DEF Clear
<1>6. CASE AddBegins
  BY <1>6 DEF AddBegins
<1>7. CASE AddEnds
  BY <1>7 DEF AddEnds
<1>8. ASSUME NEW c \in Cycle, Start(c) PROVE OwnedInv'
  BY <1>8 DEF Start
<1>9. ASSUME NEW c \in Cycle, CycleLocks(c) PROVE OwnedInv'
  BY <1>9 DEF CycleLocks
<1>10. ASSUME NEW c \in Cycle, CycleWakes(c) PROVE OwnedInv'
  BY <1>10 DEF CycleWakes
<1>11. ASSUME NEW c \in Cycle, CycleTests(c) PROVE OwnedInv'
  <2>1. cpc[c] = "scan" /\ UNCHANGED <<mux, mpc, cn>>
        /\ \A d \in Cycle : d # c => cpc'[d] = cpc[d] /\ ci'[d] = ci[d]
    BY <1>11 DEF CycleTests
  <2>2. QED BY <2>1
<1>12. ASSUME NEW c \in Cycle, CycleLaunches(c) PROVE OwnedInv'
  BY <1>12 DEF CycleLaunches
<1>13. ASSUME NEW c \in Cycle, CycleMisses(c) PROVE OwnedInv'
  BY <1>13 DEF CycleMisses
<1>14. ASSUME NEW c \in Cycle, CycleRoundEnds(c) PROVE OwnedInv'
  BY <1>14 DEF CycleRoundEnds
<1>15. ASSUME NEW c \in Cycle, CycleExits(c) PROVE OwnedInv'
  BY <1>15 DEF CycleExits
<1>16. ASSUME NEW c \in Cycle, CycleSweeps(c) PROVE OwnedInv'
  <2>1. /\ cpc[c] = "sweep" /\ ci[c] <= cn[c] /\ ci[c] \in Task
        /\ mux' = [mux EXCEPT ![ci[c]] = c]
        /\ ci' = [ci EXCEPT ![c] = ci[c] + 1]
        /\ UNCHANGED <<mpc, cpc, cn>>
    BY <1>16 DEF CycleSweeps
  <2>2. QED BY <2>1
<1>17. ASSUME NEW c \in Cycle, CycleReleases(c) PROVE OwnedInv'
  BY <1>17 DEF CycleReleases
<1>18. ASSUME NEW c \in Cycle, CycleEnds(c) PROVE OwnedInv'
  BY <1>18 DEF CycleEnds
<1>19. ASSUME NEW t \in Task, TaskLocks(t) PROVE OwnedInv'
  BY <1>19 DEF TaskLocks
<1>20. ASSUME NEW t \in Task, TaskMarks(t) PROVE OwnedInv'
  BY <1>20 DEF TaskMarks
<1>21. ASSUME NEW t \in Task, TaskStamps(t) PROVE OwnedInv'
  BY <1>21 DEF TaskStamps
<1>22. ASSUME NEW t \in Task, TaskFinishes(t) PROVE OwnedInv'
  BY <1>22 DEF TaskFinishes
<1>23. ASSUME NEW t \in Task, TaskUnlocks(t) PROVE OwnedInv'
  BY <1>23, Owners DEF TaskUnlocks, Moves
<1>24. ASSUME NEW t \in Task, TaskLogs(t) PROVE OwnedInv'
  BY <1>24 DEF TaskLogs
<1>25. ASSUME NEW t \in Task, Elapse(t) PROVE OwnedInv'
  BY <1>25 DEF Elapse
<1>26. CASE UNCHANGED vars
  BY <1>26
<1>27. QED
  BY <1>1, <1>2, <1>3, <1>4, <1>5, <1>6, <1>7, <1>8, <1>9, <1>10, <1>11, <1>12, <1>13,
      <1>14, <1>15, <1>16, <1>17, <1>18, <1>19, <1>20, <1>21, <1>22, <1>23, <1>24, <1>25,
      <1>26
  DEF Next, MainStep, CycleStep, TaskStep, Undefined

\* The one thread inside is the one in the function.
LEMMA InsideOne ==
  ASSUME TypeOK, LockInv, NEW t \in Task, thr[t]["busy"] > 0
  PROVE  thr[t]["busy"] = 1 /\ thr[t]["marked"] = 0
  BY DEF TypeOK, LockInv, Stage, Inside

\* Every step keeps it: where the cycle wakes and no thread had a chance it
\* did not take, a launched thread is waiting for a mutex; neither stop() nor
\* a cycle can hold it then, so the run before holds it, and there would be
\* two unfinished runs.
LEMMA PunctualStep ==
  IInv /\ OwnedInv /\ PunctualInv /\ ~used /\ [Next]_vars => PunctualInv'
<1> SUFFICES ASSUME IInv, OwnedInv, PunctualInv, ~used, [Next]_vars
             PROVE  PunctualInv'
  OBVIOUS
<1> USE DEF vars, locks, main, cycles, tasks, history, IInv, Go, At, MainUnlocks
<1>1. CASE StopCalled
  BY <1>1 DEF StopCalled, PunctualInv, OneRun, Settled
<1>2. CASE StopLocks
  BY <1>2 DEF StopLocks, PunctualInv, OneRun, Settled
<1>3. CASE SweepLock
  BY <1>3 DEF SweepLock, PunctualInv, OneRun, Settled
<1>4. CASE SweepUnlock
  BY <1>4 DEF SweepUnlock, PunctualInv, OneRun, Settled
<1>5. CASE Clear
  <2>1. ~used' => \A u \in Task : OneRun(u)'
    BY <1>5 DEF Clear, Idle, NoThread, OneRun, Stage
  <2>2. \A c \in Cycle : cpc'[c] \notin {"scan", "check"}
    BY <1>5, Owners DEF Clear, CycleInv, CycleOwns, Reading, MainInv, Holding
  <2>3. UNCHANGED <<late, doubled>>
    BY <1>5 DEF Clear
  <2>4. QED BY <2>1, <2>2, <2>3 DEF PunctualInv
<1>6. CASE AddBegins
  BY <1>6 DEF AddBegins, PunctualInv, OneRun, Settled
<1>7. CASE AddEnds
  BY <1>7 DEF AddEnds, PunctualInv, OneRun, Settled
<1>8. ASSUME NEW c \in Cycle, Start(c) PROVE PunctualInv'
  BY <1>8 DEF Start, PunctualInv, OneRun, Settled
<1>9. ASSUME NEW c \in Cycle, CycleLocks(c) PROVE PunctualInv'
  BY <1>9 DEF CycleLocks, PunctualInv, OneRun, Settled
<1>10. ASSUME NEW c \in Cycle, CycleWakes(c) PROVE PunctualInv'
  <2>1. SUFFICES ASSUME ~late, ~Laggard PROVE PunctualInv'
    BY <1>10, Zenon DEF CycleWakes, PunctualInv
  <2>2. cpc[c] = "loop" /\ smux = c
    BY <1>10 DEF CycleWakes, At, CycleInv, CycleOwns, Reading
  <2>3. ASSUME NEW t \in Task PROVE Settled(t)
    <3>1. thr[t]["locked"] = 0 /\ thr[t]["marked"] = 0 /\ thr[t]["done"] = 0
      BY <2>1 DEF Laggard, TypeOK, Stage
    <3>2. ASSUME thr[t]["fresh"] > 0 PROVE FALSE
      <4>1. mux[t] # Free
        BY <2>1, <3>2 DEF Laggard
      <4>2. mux[t] # Main
        BY <2>2, Owners DEF OwnedInv, MainInv, Holding
      <4>3. ASSUME NEW d \in Cycle PROVE mux[t] # d
        <5>1. cpc[d] # "release"
          BY <2>1 DEF Laggard, At
        <5>2. cpc[d] # "sweep"
          BY <2>2 DEF CycleInv, CycleOwns, Reading
        <5>3. QED BY <5>1, <5>2 DEF OwnedInv
      <4>4. mux[t] = Thread
        BY <4>1, <4>2, <4>3 DEF TypeOK
      <4>5. thr[t]["busy"] = 1
        BY <3>1, <4>4 DEF LockInv, Inside
      <4>6. OneRun(t)
        BY <2>1 DEF PunctualInv
      <4>7. QED BY <3>1, <3>2, <4>5, <4>6 DEF OneRun, TypeOK, Stage
    <3>3. thr[t]["fresh"] \in Nat
      BY DEF TypeOK, Stage
    <3>4. QED BY <3>1, <3>2, <3>3 DEF Settled
  <2>4. UNCHANGED <<thr, taskRunning, doubled, used>> /\ ~doubled
    BY <1>10, <2>1 DEF CycleWakes, PunctualInv
  <2>5. \A t \in Task : Settled(t)'
    BY <2>3, <2>4 DEF Settled
  <2>6. \A t \in Task : OneRun(t)'
    BY <2>1, <2>4 DEF PunctualInv, OneRun
  <2>7. QED BY <2>4, <2>5, <2>6 DEF PunctualInv
<1>11. ASSUME NEW c \in Cycle, CycleTests(c) PROVE PunctualInv'
  <2>1. UNCHANGED <<thr, taskRunning, late, doubled, used, cn>>
    BY <1>11 DEF CycleTests, tasks, history
  <2>2. \A u \in Task : OneRun(u)' = OneRun(u) /\ Settled(u)' = Settled(u)
    BY <2>1 DEF OneRun, Settled
  <2>3. /\ cpc[c] = "scan" /\ ci'[c] >= ci[c]
        /\ \A d \in Cycle : d # c => cpc'[d] = cpc[d] /\ ci'[d] = ci[d]
    BY <1>11 DEF CycleTests, At, Go, TypeOK
  <2>4. \A d \in Cycle : ci[d] \in Int /\ ci'[d] \in Int
    <3>1. TypeOK /\ TypeOK'
      BY TypeStep
    <3>2. QED BY <3>1, SchedulerAssumption DEF TypeOK, Task
  <2>5. \A d \in Cycle, u \in Task : ci'[d] <= u => ci[d] <= u
    BY <2>3, <2>4 DEF Task
  <2>6. \A d \in Cycle : cpc'[d] \in {"scan", "check"} => cpc[d] \in {"scan", "check"}
    BY <2>3
  <2>7. QED BY <2>1, <2>2, <2>5, <2>6 DEF PunctualInv
<1>12. ASSUME NEW c \in Cycle, CycleLaunches(c) PROVE PunctualInv'
  <2>0. PICK t \in Task : t = ci[c] /\ t <= cn[c]
    BY <1>12, SchedulerAssumption DEF CycleLaunches, TypeOK, Task
  <2>1. /\ cpc[c] = "check" /\ ~taskRunning[t]
        /\ thr' = [thr EXCEPT ![t]["fresh"] = @ + 1]
        /\ ci' = [ci EXCEPT ![c] = t + 1] /\ cpc' = [cpc EXCEPT ![c] = "scan"]
        /\ UNCHANGED <<cn, taskRunning, late, used>>
        /\ doubled' = (doubled \/ Unfinished(t))
    BY <1>12, <2>0, Zenon DEF CycleLaunches, MayLaunch, At, Go
  <2>2. SUFFICES ASSUME ~late PROVE PunctualInv'
    BY <2>1 DEF PunctualInv
  <2>3. Settled(t) /\ OneRun(t) /\ ~doubled
    BY <2>0, <2>1, <2>2 DEF PunctualInv, TypeOK, Task
  <2>4. \A s \in {"fresh", "locked", "marked", "busy"} : thr[t][s] = 0
    BY <2>1, <2>3 DEF Settled, OneRun, TypeOK, Stage
  <2>5. ~doubled'
    <3>1. ~Unfinished(t)
      BY <2>4 DEF Unfinished
    <3>2. QED BY <2>1, <2>3, <3>1, Zenon
  <2>6. /\ \A u \in Task : u # t => thr'[u] = thr[u]
        /\ thr'[t]["fresh"] = thr[t]["fresh"] + 1
        /\ \A s \in Stage : s # "fresh" => thr'[t][s] = thr[t][s]
    BY <2>1 DEF TypeOK, Stage
  <2>7. OneRun(t)'
    BY <2>1, <2>4, <2>6 DEF OneRun, Stage
  <2>8. \A u \in Task : u # t => OneRun(u)' = OneRun(u) /\ Settled(u)' = Settled(u)
    BY <2>1, <2>6 DEF OneRun, Settled
  <2>9. \A d \in Cycle : d # c => cpc'[d] \notin {"scan", "check"}
    BY <2>1 DEF CycleInv, CycleOwns, Reading
  <2>10. ASSUME NEW u \in Task, ci'[c] <= u, u <= cn'[c] PROVE Settled(u)'
    <3>1. u # t /\ ci[c] <= u /\ u <= cn[c]
      BY <2>0, <2>1, <2>10, SchedulerAssumption DEF TypeOK, Task
    <3>2. Settled(u)
      BY <2>1, <2>2, <3>1 DEF PunctualInv
    <3>3. QED BY <2>8, <3>1, <3>2
  <2>11. ASSUME NEW u \in Task PROVE OneRun(u)'
    BY <2>2, <2>7, <2>8 DEF PunctualInv
  <2>12. QED BY <2>5, <2>9, <2>10, <2>11 DEF PunctualInv
<1>13. ASSUME NEW c \in Cycle, CycleMisses(c) PROVE PunctualInv'
  <2>1. UNCHANGED <<thr, taskRunning, late, doubled, used, cn>>
    BY <1>13 DEF CycleMisses, tasks, history
  <2>2. \A u \in Task : OneRun(u)' = OneRun(u) /\ Settled(u)' = Settled(u)
    BY <2>1 DEF OneRun, Settled
  <2>3. /\ cpc[c] = "check" /\ ci'[c] >= ci[c]
        /\ \A d \in Cycle : d # c => cpc'[d] = cpc[d] /\ ci'[d] = ci[d]
    BY <1>13 DEF CycleMisses, At, Go, TypeOK
  <2>4. \A d \in Cycle : ci[d] \in Int /\ ci'[d] \in Int
    <3>1. TypeOK /\ TypeOK'
      BY TypeStep
    <3>2. QED BY <3>1, SchedulerAssumption DEF TypeOK, Task
  <2>5. \A d \in Cycle, u \in Task : ci'[d] <= u => ci[d] <= u
    BY <2>3, <2>4 DEF Task
  <2>6. \A d \in Cycle : cpc'[d] \in {"scan", "check"} => cpc[d] \in {"scan", "check"}
    BY <2>3
  <2>7. QED BY <2>1, <2>2, <2>5, <2>6 DEF PunctualInv
<1>14. ASSUME NEW c \in Cycle, CycleRoundEnds(c) PROVE PunctualInv'
  <2>1. UNCHANGED <<thr, taskRunning, late, doubled, used, cn>>
    BY <1>14 DEF CycleRoundEnds
  <2>2. \A u \in Task : OneRun(u)' = OneRun(u) /\ Settled(u)' = Settled(u)
    BY <2>1 DEF OneRun, Settled
  <2>3. \A d \in Cycle : cpc'[d] \in {"scan", "check"}
                          => cpc'[d] = cpc[d] /\ ci'[d] = ci[d]
    BY <1>14 DEF CycleRoundEnds, TypeOK
  <2>4. QED BY <2>1, <2>2, <2>3 DEF PunctualInv
<1>15. ASSUME NEW c \in Cycle, CycleExits(c) PROVE PunctualInv'
  BY <1>15 DEF CycleExits, PunctualInv, OneRun, Settled
<1>16. ASSUME NEW c \in Cycle, CycleSweeps(c) PROVE PunctualInv'
  BY <1>16 DEF CycleSweeps, PunctualInv, OneRun, Settled
<1>17. ASSUME NEW c \in Cycle, CycleReleases(c) PROVE PunctualInv'
  BY <1>17 DEF CycleReleases, PunctualInv, OneRun, Settled
<1>18. ASSUME NEW c \in Cycle, CycleEnds(c) PROVE PunctualInv'
  BY <1>18 DEF CycleEnds, PunctualInv, OneRun, Settled
<1>19. ASSUME NEW t \in Task, TaskLocks(t) PROVE PunctualInv'
  <2>1. Counts(t, "fresh", "locked")
    BY <1>19, MovesCounts DEF TaskLocks, Stage
  <2>2. UNCHANGED <<cpc, ci, cn, late, doubled, used>>
    BY <1>19 DEF TaskLocks
  <2>3. \A u \in Task : u # t => thr'[u] = thr[u] /\ taskRunning'[u] = taskRunning[u]
    BY <1>19, <2>1 DEF TaskLocks, Counts, TypeOK
  <2>4. ASSUME ~late PROVE OneRun(t)'
    <3>1. OneRun(t)
      BY <2>4 DEF PunctualInv
    <3>2. QED BY <1>19, <2>1, <3>1, InsideOne DEF TaskLocks, Counts, OneRun, TypeOK, Stage
  <2>5. \A u \in Task : u # t => OneRun(u)' = OneRun(u) /\ Settled(u)' = Settled(u)
    BY <2>3 DEF OneRun, Settled
  <2>6. Settled(t) => Settled(t)'
    BY <2>1 DEF Counts, Settled, Stage
  <2>7. QED BY <2>2, <2>4, <2>5, <2>6 DEF PunctualInv
<1>20. ASSUME NEW t \in Task, TaskMarks(t) PROVE PunctualInv'
  <2>1. Counts(t, "locked", "marked")
    BY <1>20, MovesCounts DEF TaskMarks, Stage
  <2>2. UNCHANGED <<cpc, ci, cn, late, doubled, used>>
    BY <1>20 DEF TaskMarks
  <2>3. \A u \in Task : u # t => thr'[u] = thr[u] /\ taskRunning'[u] = taskRunning[u]
    BY <1>20, <2>1 DEF TaskMarks, Counts, TypeOK
  <2>4. ASSUME ~late PROVE OneRun(t)'
    <3>1. OneRun(t)
      BY <2>4 DEF PunctualInv
    <3>2. QED BY <1>20, <2>1, <3>1, InsideOne DEF TaskMarks, Counts, OneRun, TypeOK, Stage
  <2>5. \A u \in Task : u # t => OneRun(u)' = OneRun(u) /\ Settled(u)' = Settled(u)
    BY <2>3 DEF OneRun, Settled
  <2>6. Settled(t) => Settled(t)'
    BY <2>1 DEF Counts, Settled, Stage
  <2>7. QED BY <2>2, <2>4, <2>5, <2>6 DEF PunctualInv
<1>21. ASSUME NEW t \in Task, TaskStamps(t) PROVE PunctualInv'
  <2>1. Counts(t, "marked", "busy")
    BY <1>21, MovesCounts DEF TaskStamps, Stage
  <2>2. UNCHANGED <<cpc, ci, cn, late, doubled, used>>
    BY <1>21 DEF TaskStamps
  <2>3. \A u \in Task : u # t => thr'[u] = thr[u] /\ taskRunning'[u] = taskRunning[u]
    BY <1>21, <2>1 DEF TaskStamps, Counts, TypeOK
  <2>4. ASSUME ~late PROVE OneRun(t)'
    <3>1. OneRun(t)
      BY <2>4 DEF PunctualInv
    <3>2. QED BY <1>21, <2>1, <3>1, InsideOne DEF TaskStamps, Counts, OneRun, TypeOK, Stage
  <2>5. \A u \in Task : u # t => OneRun(u)' = OneRun(u) /\ Settled(u)' = Settled(u)
    BY <2>3 DEF OneRun, Settled
  <2>6. Settled(t) => Settled(t)'
    BY <2>1 DEF Counts, Settled, Stage
  <2>7. QED BY <2>2, <2>4, <2>5, <2>6 DEF PunctualInv
<1>22. ASSUME NEW t \in Task, TaskFinishes(t) PROVE PunctualInv'
  <2>1. Counts(t, "busy", "done")
    BY <1>22, MovesCounts DEF TaskFinishes, Stage
  <2>2. UNCHANGED <<cpc, ci, cn, late, doubled, used>>
    BY <1>22 DEF TaskFinishes
  <2>3. \A u \in Task : u # t => thr'[u] = thr[u] /\ taskRunning'[u] = taskRunning[u]
    BY <1>22, <2>1 DEF TaskFinishes, Counts, TypeOK
  <2>4. ASSUME ~late PROVE OneRun(t)'
    <3>1. OneRun(t)
      BY <2>4 DEF PunctualInv
    <3>2. QED BY <1>22, <2>1, <3>1, InsideOne
              DEF TaskFinishes, Counts, OneRun, TypeOK, Stage
  <2>5. \A u \in Task : u # t => OneRun(u)' = OneRun(u) /\ Settled(u)' = Settled(u)
    BY <2>3 DEF OneRun, Settled
  <2>6. Settled(t) => Settled(t)'
    BY <2>1 DEF Counts, Settled, Stage
  <2>7. QED BY <2>2, <2>4, <2>5, <2>6 DEF PunctualInv
<1>23. ASSUME NEW t \in Task, TaskUnlocks(t) PROVE PunctualInv'
  <2>1. Counts(t, "done", "ending")
    BY <1>23, MovesCounts DEF TaskUnlocks, Stage
  <2>2. UNCHANGED <<cpc, ci, cn, late, doubled, used>>
    BY <1>23 DEF TaskUnlocks
  <2>3. \A u \in Task : u # t => thr'[u] = thr[u] /\ taskRunning'[u] = taskRunning[u]
    BY <1>23, <2>1 DEF TaskUnlocks, Counts, TypeOK
  <2>4. ASSUME ~late PROVE OneRun(t)'
    <3>1. OneRun(t)
      BY <2>4 DEF PunctualInv
    <3>2. QED BY <1>23, <2>1, <3>1, InsideOne DEF TaskUnlocks, Counts, OneRun, TypeOK, Stage
  <2>5. \A u \in Task : u # t => OneRun(u)' = OneRun(u) /\ Settled(u)' = Settled(u)
    BY <2>3 DEF OneRun, Settled
  <2>6. Settled(t) => Settled(t)'
    BY <2>1 DEF Counts, Settled, Stage
  <2>7. QED BY <2>2, <2>4, <2>5, <2>6 DEF PunctualInv
<1>24. ASSUME NEW t \in Task, TaskLogs(t) PROVE PunctualInv'
  <2>1. /\ \A u \in Task : u # t => thr'[u] = thr[u]
        /\ \A s \in Stage : s # "ending" => thr'[t][s] = thr[t][s]
    BY <1>24 DEF TaskLogs, TypeOK, Stage
  <2>2. \A u \in Task, s \in Stage : s # "ending" => thr'[u][s] = thr[u][s]
    BY <2>1
  <2>3. UNCHANGED <<cpc, ci, cn, late, doubled, used, taskRunning>>
    BY <1>24 DEF TaskLogs
  <2>4. QED BY <2>2, <2>3 DEF PunctualInv, OneRun, Settled, Stage
<1>25. ASSUME NEW t \in Task, Elapse(t) PROVE PunctualInv'
  BY <1>25 DEF Elapse, PunctualInv, OneRun, Settled
<1>26. CASE UNCHANGED vars
  BY <1>26 DEF PunctualInv, OneRun, Settled
<1>27. QED
  BY <1>1, <1>2, <1>3, <1>4, <1>5, <1>6, <1>7, <1>8, <1>9, <1>10, <1>11, <1>12, <1>13,
      <1>14, <1>15, <1>16, <1>17, <1>18, <1>19, <1>20, <1>21, <1>22, <1>23, <1>24, <1>25,
      <1>26
  DEF Next, MainStep, CycleStep, TaskStep, Undefined

\* A destroyed task in use stops the model.
LEMMA PunctualNext ==
  IInv /\ OwnedInv /\ PunctualInv /\ [Next]_vars => PunctualInv'
<1> SUFFICES ASSUME IInv, OwnedInv, PunctualInv, [Next]_vars
             PROVE  PunctualInv'
  OBVIOUS
<1>1. CASE used
  <2>1. UNCHANGED <<late, doubled, used>>
    BY <1>1, UndefinedStops DEF vars, history
  <2>2. QED BY <1>1, <2>1 DEF PunctualInv
<1>2. CASE ~used
  BY <1>2, PunctualStep
<1>3. QED BY <1>1, <1>2

\* A task is launched while a launch of it is unfinished only after some
\* thread was slower than a whole pause of the cycle (scheduler_cycle_).
THEOREM OnlyLateIsDoubled == Spec => []DoubledOnlyIfLate
<1>1. Init => OwnedInv
  BY Owners DEF Init, OwnedInv
<1>2. Init => PunctualInv
  BY DEF Init, PunctualInv, OneRun, NoThread, Stage
<1>3. PunctualInv => DoubledOnlyIfLate
  BY DEF PunctualInv, DoubledOnlyIfLate
<1>4. QED
  BY <1>1, <1>2, <1>3, OwnedStep, PunctualNext, Inductive, PTL DEF Spec

=============================================================================
