--------------------------- MODULE LifecycleProofs ---------------------------
(***************************************************************************)
(* Theorems about Lifecycle: the types, and that nothing is used that is   *)
(* gone, for any number of server threads.                                 *)
(***************************************************************************)
EXTENDS Lifecycle, TLAPS

-----------------------------------------------------------------------------
(* The invariant.                                                          *)

\* What the main thread is doing: the handler's place once it is on, since it
\* never returns.
Cur == IF pc["signal"] = "off" THEN pc["main"] ELSE pc["signal"]
Who == IF pc["signal"] = "off" THEN "main" ELSE "signal"

\* Before tasks_start, and from the end of Task.stop on, no task runs.
Building == {"opcinit", "vars", "vars2", "tasks", "tasks2", "mbtasks", "mbtasks2",
             "tstart"}
Closing  == {"D.regs", "D.flag", "D.data", "D.srv", "D.free", "D.net", "D.mb"}
Quiet    == Closing \cup Building \cup {"cfg"}
TasksInv ==
  /\ Cur \in {"D.lock", "D.clear"} => tasks # "run"
  /\ Cur \in Quiet => tasks # "run" /\ task = "idle"
  /\ tasks = "run" \/ task # "idle" => regs /\ plcs /\ uaServer
  /\ Cur \in Building => regs /\ plcs
  /\ Cur \in Building \ {"opcinit"} => uaServer

\* There is at most one server thread; it holds uaSrvMux or has not asked for
\* it yet, and it is gone when StopFrees deletes what it uses.
SrvMux == mux["uaSrvMux"]
NoServer == \A k \in Server : srv[k] = "none"
ServerInv ==
  /\ stale = {}
  /\ \A k \in Server : srv[k] \in {"none", "new", "run"}
  /\ \A j, k \in Server : srv[j] # "none" /\ srv[k] # "none" => j = k
  /\ \A k \in Server : srv[k] = "run" <=> SrvMux = k
  /\ SrvMux # "task"
  /\ SrvMux = "null" \/ SrvMux \in Frame => NoServer
  /\ Cur \in Building \cup {"cfg", "opcstart", "D.net", "D.mb"} => NoServer
  /\ Cur \in (Building \ {"opcinit"}) \cup {"opcstart"} => SrvMux = "free"
  /\ Cur \in {"D.data", "D.srv"} => \A k \in Server : srv[k] # "new"
  /\ Cur = "D.free" => SrvMux \in {Who, "null"}

\* A client that has connected once stays open.
ClientInv ==
  /\ connected => uaClient = "open"
  /\ pc["main"] = "request" => connected
  /\ mux["muxClient"] = "null" \/ pc["main"] = "client" => ~connected
  /\ pc["main"] \in {"connect", "request", "failed"} => mux["muxClient"] = "main"

Orderly == ~used /\ TasksInv /\ ServerInv /\ ClientInv
IInv    == TypeOK /\ (early \/ Orderly)

-----------------------------------------------------------------------------
(* Where the main thread is.                                               *)

LEMMA Kinds ==
  /\ "scheduler_mux" \in Mutex /\ "regmap_mux" \in Mutex /\ "uaDataMux" \in Mutex
  /\ "uaSrvMux" \in Mutex /\ "muxClient" \in Mutex
  /\ "main" \in Frame /\ "signal" \in Frame
  /\ \A k \in Server : k \notin Frame /\ k # "null" /\ k # "free" /\ k # "task"
  /\ \A f \in Frame : f # "null" /\ f # "free" /\ f # "task"
BY SMT, ServerAssumption DEF Mutex, Frame, NoThread

\* A step from label to label is a step of the frame that runs.
LEMMA Moved ==
  ASSUME TypeOK, NEW f \in Frame, NEW from, NEW to, At(f, from), Goto(f, to),
         from # "off", to # "off"
  PROVE  /\ Cur = from /\ Cur' = to /\ Who = f /\ Who' = f
         /\ f = "main" => pc["main"] = from /\ pc'["main"] = to
         /\ pc'["main"] \in {pc["main"], Cur'}
BY SMT DEF TypeOK, At, Goto, Cur, Who, Frame

LEMMA Stayed ==
  ASSUME UNCHANGED pc
  PROVE  Cur' = Cur /\ Who' = Who /\ pc'["main"] = pc["main"]
BY SMT DEF Cur, Who

LEMMA Free ==
  ASSUME TypeOK, NEW m \in Mutex, NEW who \in {"task"} \cup Frame \cup Server
  PROVE  /\ Lock(m, who) => /\ mux[m] = "free"
                            /\ mux' \in [Mutex -> NoThread \cup Frame \cup Server]
                            /\ mux'[m] = who
                            /\ \A n \in Mutex \ {m} : mux'[n] = mux[n]
         /\ Unlock(m) => /\ mux' \in [Mutex -> NoThread \cup Frame \cup Server]
                         /\ mux'[m] = "free"
                         /\ \A n \in Mutex \ {m} : mux'[n] = mux[n]
BY SMT DEF TypeOK, Lock, Unlock, NoThread

-----------------------------------------------------------------------------
(* Types.                                                                  *)

PcTypes     == pc \in [Frame -> Label]
MuxTypes    == mux \in [Mutex -> NoThread \cup Frame \cup Server]
ServerTypes == /\ uaServer \in BOOLEAN /\ uaRunning \in BOOLEAN
               /\ srv \in [Server -> {"none", "new", "wait", "run"}]
               /\ stale \subseteq Server
ClientTypes == uaClient \in {"null", "new", "open"} /\ connected \in BOOLEAN
NetTypes    == netNew \in BOOLEAN /\ netUp \in BOOLEAN
OtherTypes  == /\ tasks \in {"none", "listed", "run"}
               /\ task \in {"idle", "regs", "data", "millis", "plc"}
               /\ plcs \in BOOLEAN /\ regs \in BOOLEAN /\ exiting \in BOOLEAN
GhostTypes  == early \in BOOLEAN /\ used \in BOOLEAN
Parts == /\ PcTypes /\ MuxTypes /\ ServerTypes /\ ClientTypes /\ NetTypes
         /\ OtherTypes /\ GhostTypes

LEMMA TypeParts == (TypeOK <=> Parts) /\ (TypeOK' <=> Parts')
BY DEF TypeOK, Parts, PcTypes, MuxTypes, ServerTypes, ClientTypes, NetTypes,
       OtherTypes, GhostTypes

LEMMA Kept ==
  /\ PcTypes /\ UNCHANGED pc => PcTypes'
  /\ MuxTypes /\ UNCHANGED mux => MuxTypes'
  /\ ServerTypes /\ UNCHANGED server => ServerTypes'
  /\ ClientTypes /\ UNCHANGED client => ClientTypes'
  /\ NetTypes /\ UNCHANGED net => NetTypes'
  /\ OtherTypes /\ UNCHANGED others => OtherTypes'
  /\ GhostTypes /\ UNCHANGED ghost => GhostTypes'
BY Zenon DEF PcTypes, MuxTypes, ServerTypes, ClientTypes, NetTypes, OtherTypes,
   GhostTypes, server, client, net, others, ghost

LEMMA TypeInit == Init => TypeOK
<1> SUFFICES ASSUME Init PROVE Parts
  BY TypeParts
<1>1. PcTypes
  BY SMT DEF Init, PcTypes, Label, InitLabel
<1>2. MuxTypes
  BY SMT DEF Init, MuxTypes, NoThread
<1>3. ServerTypes
  BY Zenon DEF Init, ServerTypes
<1>4. ClientTypes /\ NetTypes /\ OtherTypes /\ GhostTypes
  BY Zenon DEF Init, ClientTypes, NetTypes, OtherTypes, GhostTypes
<1> QED  BY <1>1, <1>2, <1>3, <1>4 DEF Parts

\* A frame that goes to a label, and a mutex that is taken or given back.
LEMMA MovesType ==
  ASSUME PcTypes, NEW f \in Frame, NEW to \in Label, Goto(f, to)
  PROVE  PcTypes'
BY SMT DEF PcTypes, Goto

LEMMA LockType ==
  ASSUME MuxTypes, NEW m \in Mutex, NEW who \in {"task"} \cup Frame \cup Server,
         Lock(m, who) \/ Unlock(m) \/ UNCHANGED mux
  PROVE  MuxTypes'
BY SMT DEF MuxTypes, Lock, Unlock, NoThread

LEMMA LockingType ==
  ASSUME Parts, NEW f \in Frame, NEW m \in Mutex, NEW from, NEW to \in Label,
         \/ Locking(f, m, from, to) \/ Unlocking(f, m, from, to)
         \/ NoMutex(f, m, from, to)
  PROVE  Parts'
<1>1. PcTypes'
  BY MovesType DEF Locking, Unlocking, NoMutex, Parts
<1>2. MuxTypes'
  BY LockType DEF Locking, Unlocking, NoMutex, Parts
<1>3. UNCHANGED <<server, client, net, others, ghost>>
  BY Zenon DEF Locking, Unlocking, NoMutex
<1> QED  BY <1>1, <1>2, <1>3, Kept DEF Parts

\* Every step keeps the types, action by action.
LEMMA TypeStep == TypeOK /\ [Next]_vars => TypeOK'
<1> SUFFICES ASSUME Parts, [Next]_vars PROVE Parts'
  BY TypeParts
<1> USE Kinds
<1>1. ASSUME NEW ok \in BOOLEAN, Configure(ok) PROVE Parts'
  <2>1. PcTypes'
    BY <1>1, MovesType DEF Configure, Parts, Label, InitLabel, LoopLabel
  <2>2. OtherTypes'
    BY Zenon, <1>1 DEF Configure, Parts, OtherTypes, others
  <2>3. UNCHANGED <<mux, server, client, net, ghost>>
    BY Zenon, <1>1 DEF Configure, server, client, net, others, ghost
  <2> QED  BY <2>1, <2>2, <2>3, Kept DEF Parts
<1>2. ASSUME OpcInit PROVE Parts'
  <2>1. PcTypes'
    BY <1>2, MovesType DEF OpcInit, Parts, Label, InitLabel, LoopLabel
  <2>2. MuxTypes'
    BY SMT, <1>2 DEF OpcInit, Parts, MuxTypes, NoThread
  <2>3. ServerTypes'
    BY Zenon, <1>2 DEF OpcInit, Parts, ServerTypes, server
  <2>4. UNCHANGED <<client, net, others, ghost>>
    BY Zenon, <1>2 DEF OpcInit, server, client, net, others, ghost
  <2> QED  BY <2>1, <2>2, <2>3, <2>4, Kept DEF Parts
<1>3. ASSUME OpcRegsInit PROVE Parts'
  BY <1>3, LockingType DEF OpcRegsInit, Label, InitLabel, LoopLabel
<1>4. ASSUME TasksInit PROVE Parts'
  <2>1. CASE Locking("main", "scheduler_mux", "tasks", "tasks2")
    BY <2>1, LockingType DEF Label, InitLabel, LoopLabel
  <2>2. ASSUME /\ At("main", "tasks2") /\ Unlock("scheduler_mux")
                /\ Goto("main", "mbtasks") /\ tasks' = "listed"
                /\ UNCHANGED <<server, client, net, task, plcs, regs, exiting, ghost>> PROVE Parts'
    <3>1. PcTypes'
      BY <2>2, MovesType DEF Parts, Label, InitLabel, LoopLabel
    <3>2. MuxTypes'
      BY <2>2, LockType DEF Parts
    <3>3. OtherTypes'
      BY Zenon, <2>2 DEF Parts, OtherTypes, others
    <3>4. UNCHANGED <<server, client, net, ghost>>
      BY Zenon, <2>2 DEF server, client, net, others, ghost
    <3> QED  BY <3>1, <3>2, <3>3, <3>4, Kept DEF Parts
  <2> QED  BY Zenon, <1>4, <2>1, <2>2 DEF TasksInit
<1>5. ASSUME MbAddRefreshTasks PROVE Parts'
  BY <1>5, LockingType DEF MbAddRefreshTasks, Label, InitLabel, LoopLabel
<1>6. ASSUME TasksStart PROVE Parts'
  <2>1. PcTypes'
    BY <1>6, MovesType DEF TasksStart, Parts, Label, InitLabel, LoopLabel
  <2>2. OtherTypes'
    BY Zenon, <1>6 DEF TasksStart, Parts, OtherTypes, others
  <2>3. UNCHANGED <<mux, server, client, net, ghost>>
    BY Zenon, <1>6 DEF TasksStart, server, client, net, others, ghost
  <2> QED  BY <2>1, <2>2, <2>3, Kept DEF Parts
<1>7. ASSUME NEW k \in Server, OpcStart(k) PROVE Parts'
  <2>1. PcTypes'
    BY <1>7, MovesType DEF OpcStart, Parts, Label, InitLabel, LoopLabel
  <2>2. ServerTypes'
    BY SMT, <1>7 DEF OpcStart, Parts, ServerTypes, server
  <2>3. UNCHANGED <<mux, client, net, others, ghost>>
    BY Zenon, <1>7 DEF OpcStart, server, client, net, others, ghost
  <2> QED  BY <2>1, <2>2, <2>3, Kept DEF Parts
<1>8. ASSUME NetStart PROVE Parts'
  <2>1. PcTypes'
    BY <1>8, MovesType DEF NetStart, Parts, Label, InitLabel, LoopLabel
  <2>2. NetTypes'
    BY Zenon, <1>8 DEF NetStart, Parts, NetTypes, net
  <2>3. UNCHANGED <<mux, server, client, others, ghost>>
    BY Zenon, <1>8 DEF NetStart, server, client, net, others, ghost
  <2> QED  BY <2>1, <2>2, <2>3, Kept DEF Parts
<1>9. ASSUME ClientInit PROVE Parts'
  <2>1. PcTypes'
    BY <1>9, MovesType DEF ClientInit, Parts, Label, InitLabel, LoopLabel
  <2>2. MuxTypes'
    BY SMT, <1>9 DEF ClientInit, Parts, MuxTypes, NoThread
  <2>3. ClientTypes'
    BY Zenon, <1>9 DEF ClientInit, Parts, ClientTypes, client
  <2>4. UNCHANGED <<server, net, others, ghost>>
    BY Zenon, <1>9 DEF ClientInit, server, client, net, others, ghost
  <2> QED  BY <2>1, <2>2, <2>3, <2>4, Kept DEF Parts
<1>10. ASSUME Connect PROVE Parts'
  <2>1. PcTypes'
    BY <1>10, MovesType DEF Connect, Parts, Label, InitLabel, LoopLabel
  <2>2. ClientTypes'
    BY Zenon, <1>10 DEF Connect, Parts, ClientTypes, client
  <2>3. UNCHANGED <<mux, server, net, others, ghost>>
    BY Zenon, <1>10 DEF Connect, server, client, net, others, ghost
  <2> QED  BY <2>1, <2>2, <2>3, Kept DEF Parts
<1>11. ASSUME Read \/ Write PROVE Parts'
  <2>1. PcTypes'
    BY <1>11, MovesType DEF Read, Write, Request, Parts, Label, InitLabel, LoopLabel
  <2>2. MuxTypes'
    BY <1>11, LockType DEF Read, Write, Request, Parts
  <2>3. GhostTypes'
    BY Zenon, <1>11 DEF Read, Write, Request, Parts, GhostTypes, ghost
  <2>4. UNCHANGED <<server, client, net, others>>
    BY Zenon, <1>11 DEF Read, Write, Request, server, client, net, others, ghost
  <2> QED  BY <2>1, <2>2, <2>3, <2>4, Kept DEF Parts
<1>12. ASSUME OpcClient PROVE Parts'
  <2>1. CASE Connect \/ Read \/ Write
    BY <1>10, <1>11, <2>1
  <2>2. CASE ~(Connect \/ Read \/ Write)
    BY <1>12, <2>2, LockingType
    DEF OpcClient, RefreshAllValues, ReadNumber, get_uatype, Label, LoopLabel
  <2> QED  BY <2>1, <2>2
<1>13. ASSUME OpcServer \/ MbPrintSummary PROVE Parts'
  BY <1>13, LockingType DEF OpcServer, MbPrintSummary, Label, InitLabel, LoopLabel
<1>14. ASSUME Show PROVE Parts'
  <2>1. CASE Locking("main", "regmap_mux", "show", "show2") \/ Unlocking("main", "regmap_mux", "show2", "sum")
    BY <2>1, LockingType DEF Label, InitLabel, LoopLabel
  <2>2. ASSUME /\ At("main", "show") /\ Goto("main", "sum")
                /\ UNCHANGED <<mux, server, client, net, others, ghost>> PROVE Parts'
    <3>1. PcTypes'
      BY <2>2, MovesType DEF Parts, Label, InitLabel, LoopLabel
    <3>2. UNCHANGED <<mux, server, client, net, others, ghost>>
      BY Zenon, <2>2 DEF server, client, net, others, ghost
    <3> QED  BY <3>1, <3>2, Kept DEF Parts
  <2> QED  BY Zenon, <1>14, <2>1, <2>2 DEF Show
<1>15. ASSUME NEW ch, Key(ch) PROVE Parts'
  <2>1. PcTypes'
    BY <1>15, MovesType DEF Key, Parts, Label, InitLabel, LoopLabel
  <2>2. OtherTypes'
    BY Zenon, <1>15 DEF Key, Parts, OtherTypes, others
  <2>3. UNCHANGED <<mux, server, client, net, ghost>>
    BY Zenon, <1>15 DEF Key, server, client, net, others, ghost
  <2> QED  BY <2>1, <2>2, <2>3, Kept DEF Parts
<1>16. ASSUME NEW f \in Frame, TaskStop(f) PROVE Parts'
  <2>1. CASE Locking(f, "scheduler_mux", "D.lock", "D.clear")
    BY <2>1, LockingType DEF Label, InitLabel, LoopLabel
  <2>2. ASSUME /\ \/ /\ Goto(f, "D.lock") /\ tasks' = "listed"
                      /\ UNCHANGED <<mux, server, client, net, task, plcs, regs, exiting, ghost>>
                   \/ /\ Goto(f, "D.regs") /\ Unlock("scheduler_mux") /\ tasks' = "none"
                      /\ UNCHANGED <<server, client, net, task, plcs, regs, exiting, ghost>> PROVE Parts'
    <3>1. PcTypes'
      BY <2>2, MovesType DEF Parts, Label, InitLabel, LoopLabel
    <3>2. MuxTypes'
      BY <2>2, LockType DEF Parts
    <3>3. OtherTypes'
      BY Zenon, <2>2 DEF Parts, OtherTypes, others
    <3>4. UNCHANGED <<server, client, net, ghost>>
      BY Zenon, <2>2 DEF server, client, net, others, ghost
    <3> QED  BY <3>1, <3>2, <3>3, <3>4, Kept DEF Parts
  <2> QED  BY Zenon, <1>16, <2>1, <2>2 DEF TaskStop
<1>17. ASSUME NEW f \in Frame, RegsDeinit(f) PROVE Parts'
  <2>1. PcTypes'
    BY <1>17, MovesType DEF RegsDeinit, Parts, Label, InitLabel, LoopLabel
  <2>2. OtherTypes'
    BY Zenon, <1>17 DEF RegsDeinit, Parts, OtherTypes, others
  <2>3. GhostTypes'
    BY Zenon, <1>17 DEF RegsDeinit, Parts, GhostTypes, ghost
  <2>4. UNCHANGED <<mux, server, client, net>>
    BY Zenon, <1>17 DEF RegsDeinit, server, client, net, others, ghost
  <2> QED  BY <2>1, <2>2, <2>3, <2>4, Kept DEF Parts
<1>18. ASSUME NEW f \in Frame, StopFlag(f) PROVE Parts'
  <2>1. PcTypes'
    BY <1>18, MovesType DEF StopFlag, Parts, Label, InitLabel, LoopLabel
  <2>2. ServerTypes'
    BY Zenon, <1>18 DEF StopFlag, Parts, ServerTypes, server
  <2>3. GhostTypes'
    BY Zenon, <1>18 DEF StopFlag, Parts, GhostTypes, ghost
  <2>4. UNCHANGED <<mux, client, net, others>>
    BY Zenon, <1>18 DEF StopFlag, server, client, net, others, ghost
  <2> QED  BY <2>1, <2>2, <2>3, <2>4, Kept DEF Parts
<1>19. ASSUME NEW f \in Frame, StopLocks(f) PROVE Parts'
  BY <1>19, LockingType DEF StopLocks, Label, InitLabel, LoopLabel
<1>20. ASSUME NEW f \in Frame, StopFrees(f) PROVE Parts'
  <2>1. PcTypes'
    BY <1>20, MovesType DEF StopFrees, Parts, Label, InitLabel, LoopLabel
  <2>2. MuxTypes'
    BY SMT, <1>20 DEF StopFrees, Parts, MuxTypes, NoThread
  <2>3. ServerTypes'
    BY Zenon, <1>20 DEF StopFrees, Parts, ServerTypes, server
  <2>4. GhostTypes'
    BY Zenon, <1>20 DEF StopFrees, Parts, GhostTypes, ghost
  <2>5. UNCHANGED <<client, net, others>>
    BY Zenon, <1>20 DEF StopFrees, server, client, net, others, ghost
  <2> QED  BY <2>1, <2>2, <2>3, <2>4, <2>5, Kept DEF Parts
<1>21. ASSUME NEW f \in Frame, NetsvcDeinit(f) PROVE Parts'
  <2>1. PcTypes'
    BY <1>21, MovesType DEF NetsvcDeinit, Parts, Label, InitLabel, LoopLabel
  <2>2. NetTypes'
    BY Zenon, <1>21 DEF NetsvcDeinit, Parts, NetTypes, net
  <2>3. UNCHANGED <<mux, server, client, others, ghost>>
    BY Zenon, <1>21 DEF NetsvcDeinit, server, client, net, others, ghost
  <2> QED  BY <2>1, <2>2, <2>3, Kept DEF Parts
<1>22. ASSUME NEW f \in Frame, MbDeinit(f) PROVE Parts'
  <2>1. PcTypes'
    BY <1>22, MovesType DEF MbDeinit, Parts, Label, InitLabel, LoopLabel
  <2>2. OtherTypes'
    BY Zenon, <1>22 DEF MbDeinit, Parts, OtherTypes, others
  <2>3. GhostTypes'
    BY Zenon, <1>22 DEF MbDeinit, Parts, GhostTypes, ghost
  <2>4. UNCHANGED <<mux, server, client, net>>
    BY Zenon, <1>22 DEF MbDeinit, server, client, net, others, ghost
  <2> QED  BY <2>1, <2>2, <2>3, <2>4, Kept DEF Parts
<1>23. ASSUME NEW f \in Frame, Exit(f) PROVE Parts'
  <2>1. PcTypes'
    BY <1>23, MovesType DEF Exit, Parts, Label, InitLabel, LoopLabel
  <2>2. UNCHANGED <<mux, server, client, net, others, ghost>>
    BY Zenon, <1>23 DEF Exit, server, client, net, others, ghost
  <2> QED  BY <2>1, <2>2, Kept DEF Parts
<1>24. ASSUME Sigint PROVE Parts'
  <2>1. PcTypes'
    BY <1>24, MovesType DEF Sigint, Parts, Label, InitLabel, LoopLabel
  <2>2. UNCHANGED <<mux, server, client, net, others, ghost>>
    BY Zenon, <1>24 DEF Sigint, server, client, net, others, ghost
  <2> QED  BY <2>1, <2>2, Kept DEF Parts
<1>25. ASSUME NEW k \in Server, RunBegins(k) PROVE Parts'
  <2>1. PcTypes'
    <3>1. CASE Goto("main", "crashed")
      BY <3>1, MovesType DEF Parts, Label
    <3>2. CASE UNCHANGED pc
      BY <3>2, Kept DEF Parts
    <3> QED  BY Zenon, <1>25, <3>1, <3>2 DEF RunBegins
  <2>2. MuxTypes'
    BY <1>25, LockType DEF RunBegins, Parts
  <2>3. ServerTypes'
    <3>1. uaServer' \in BOOLEAN /\ uaRunning' \in BOOLEAN
      BY Zenon, <1>25 DEF RunBegins, Parts, ServerTypes
    <3>2. srv' \in [Server -> {"none", "new", "wait", "run"}] /\ stale' \subseteq Server
      BY SMT, <1>25 DEF RunBegins, Parts, ServerTypes
    <3> QED  BY <3>1, <3>2 DEF ServerTypes
  <2>4. GhostTypes'
    BY Zenon, <1>25 DEF RunBegins, Parts, GhostTypes, ghost
  <2>5. UNCHANGED <<client, net, others>>
    BY Zenon, <1>25 DEF RunBegins, server, client, net, others, ghost
  <2> QED  BY <2>1, <2>2, <2>3, <2>4, <2>5, Kept DEF Parts
<1>26. ASSUME NEW k \in Server, RunLocks(k) PROVE Parts'
  <2>1. MuxTypes'
    BY <1>26, LockType DEF RunLocks, Parts
  <2>2. ServerTypes'
    BY SMT, <1>26 DEF RunLocks, Parts, ServerTypes, server
  <2>3. GhostTypes'
    BY Zenon, <1>26 DEF RunLocks, Parts, GhostTypes, ghost
  <2>4. UNCHANGED <<pc, client, net, others>>
    BY Zenon, <1>26 DEF RunLocks, server, client, net, others, ghost
  <2> QED  BY <2>1, <2>2, <2>3, <2>4, Kept DEF Parts
<1>27. ASSUME NEW k \in Server, RunEnds(k) PROVE Parts'
  <2>1. MuxTypes'
    BY <1>27, LockType DEF RunEnds, Parts
  <2>2. ServerTypes'
    BY SMT, <1>27 DEF RunEnds, Parts, ServerTypes, server
  <2>3. UNCHANGED <<pc, client, net, others, ghost>>
    BY Zenon, <1>27 DEF RunEnds, server, client, net, others, ghost
  <2> QED  BY <2>1, <2>2, <2>3, Kept DEF Parts
<1>28. ASSUME Listen PROVE Parts'
  <2>1. NetTypes'
    BY Zenon, <1>28 DEF Listen, Parts, NetTypes, net
  <2>2. UNCHANGED <<pc, mux, server, client, others, ghost>>
    BY Zenon, <1>28 DEF Listen, server, client, net, others, ghost
  <2> QED  BY <2>1, <2>2, Kept DEF Parts
<1>29. ASSUME TaskBegins \/ TaskGoesOn PROVE Parts'
  <2>1. MuxTypes'
    BY SMT, <1>29
    DEF TaskBegins, TaskGoesOn, Tasking, RefreshBegins, RefreshWrites, RefreshEnds,
        MillisWrites, MillisEnds, PlcBegins, PlcEnds, Parts, MuxTypes, NoThread, Lock,
        Unlock
  <2>2. OtherTypes'
    BY Zenon, <1>29
    DEF TaskBegins, TaskGoesOn, Tasking, RefreshBegins, RefreshWrites, RefreshEnds,
        MillisWrites, MillisEnds, PlcBegins, PlcEnds, Parts, OtherTypes, others
  <2>3. GhostTypes'
    BY Zenon, <1>29
    DEF TaskBegins, TaskGoesOn, Tasking, RefreshBegins, RefreshWrites, RefreshEnds,
        MillisWrites, MillisEnds, PlcBegins, PlcEnds, Parts, GhostTypes, ghost
  <2>4. UNCHANGED <<pc, server, client, net>>
    BY Zenon, <1>29
    DEF TaskBegins, TaskGoesOn, Tasking, RefreshBegins, RefreshWrites, RefreshEnds,
        MillisWrites, MillisEnds, PlcBegins, PlcEnds, server, client, net, others, ghost
  <2> QED  BY <2>1, <2>2, <2>3, <2>4, Kept DEF Parts
<1>30. CASE UNCHANGED vars
  BY <1>30, Kept DEF vars, Parts
<1> QED
  BY Zenon, <1>1, <1>2, <1>3, <1>4, <1>5, <1>6, <1>7, <1>8, <1>9, <1>10, <1>11, <1>12,
      <1>13, <1>14, <1>15, <1>16, <1>17, <1>18, <1>19, <1>20, <1>21, <1>22, <1>23, <1>24,
      <1>25, <1>26, <1>27, <1>28, <1>29, <1>30
  DEF Next, Main, DeinitAll, OpcRun

\* The parts have their types, whatever the threads do (all of the module).
THEOREM TypeCorrect == Spec => []TypeOK
<1>1. Init => TypeOK
  BY TypeInit
<1>2. TypeOK /\ [Next]_vars => TypeOK'
  BY TypeStep
<1> QED  BY <1>1, <1>2, PTL DEF Spec

-----------------------------------------------------------------------------
(* Nothing is used that is gone.                                           *)

\* What was told to stop too early stays so.
LEMMA EarlyStays ==
  ASSUME early, [Next]_vars
  PROVE  early'
BY Zenon DEF Next, Main, Configure, OpcInit, OpcRegsInit, TasksInit, MbAddRefreshTasks,
  TasksStart, OpcStart, NetStart, ClientInit, OpcClient, Connect, Read, ReadNumber,
  get_uatype, Write, Request, RefreshAllValues, OpcServer, Show, MbPrintSummary, Key,
  DeinitAll, TaskStop, RegsDeinit, StopFlag, StopLocks, StopFrees, NetsvcDeinit,
  MbDeinit, Exit, Sigint, OpcRun, RunBegins, RunLocks, RunEnds, Listen, TaskBegins,
  TaskGoesOn, Tasking, RefreshBegins, RefreshWrites, RefreshEnds, MillisWrites,
  MillisEnds, PlcBegins, PlcEnds, Locking, Unlocking, NoMutex, ghost, vars

LEMMA OrderlyStep ==
  ASSUME TypeOK, Orderly, [Next]_vars, ~early'
  PROVE  Orderly'
<1> USE Kinds
<1>1. ASSUME NEW ok \in BOOLEAN, Configure(ok) PROVE Orderly'
  <2>1. /\ \/ Cur = "cfg" /\ Cur' = "opcinit" /\ pc["main"] = "cfg" /\ pc'["main"] = "opcinit"
           \/ Cur = "cfg" /\ Cur' = "X.tasks" /\ pc["main"] = "cfg" /\ pc'["main"] = "X.tasks"
        /\ Who = "main" /\ Who' = "main"
    BY SMT, <1>1, Moved DEF Configure
  <2>2. ~used'
    BY SMT, <1>1, <2>1 DEF Orderly, Configure, ghost
  <2>3. TasksInv'
    <3>1. tasks' # "run" /\ task' = "idle"
      BY SMT, <1>1, <2>1 DEF Orderly, TasksInv, Quiet, Configure
    <3>2. ok => regs' /\ plcs'
      BY Zenon, <1>1 DEF Configure
    <3>3. Cur' = IF ok THEN "opcinit" ELSE "X.tasks"
      BY SMT, <1>1, Moved DEF Configure
    <3> QED  BY SMT, <3>1, <3>2, <3>3 DEF TasksInv, Quiet, Closing, Building
  <2>4. ServerInv'
    BY SMT, <1>1, <2>1
    DEF Orderly, TypeOK, Configure, ServerInv, SrvMux, NoServer, Building, server
  <2>5. ClientInv'
    BY SMT, <1>1, <2>1 DEF Orderly, TypeOK, Configure, ClientInv, client
  <2> QED  BY <2>2, <2>3, <2>4, <2>5 DEF Orderly
<1>2. ASSUME OpcInit PROVE Orderly'
  <2>1. /\ \/ Cur = "opcinit" /\ Cur' = "vars" /\ pc["main"] = "opcinit" /\ pc'["main"] = "vars"
        /\ Who = "main" /\ Who' = "main"
    BY SMT, <1>2, Moved DEF OpcInit
  <2>2. ~used'
    BY SMT, <1>2, <2>1 DEF Orderly, OpcInit, ghost
  <2>3. TasksInv'
    BY SMT, <1>2, <2>1
    DEF Orderly, OpcInit, TasksInv, Quiet, Closing, Building, others, server, ghost
  <2>4. ServerInv'
    BY SMT, <1>2, <2>1
    DEF Orderly, TypeOK, OpcInit, ServerInv, SrvMux, NoServer, Building, server
  <2>5. ClientInv'
    BY SMT, <1>2, <2>1 DEF Orderly, TypeOK, OpcInit, ClientInv, client
  <2> QED  BY <2>2, <2>3, <2>4, <2>5 DEF Orderly
<1>3. ASSUME OpcRegsInit PROVE Orderly'
  <2>1. /\ \/ Cur = "vars" /\ Cur' = "vars2" /\ pc["main"] = "vars" /\ pc'["main"] = "vars2"
           \/ Cur = "vars2" /\ Cur' = "tasks" /\ pc["main"] = "vars2" /\ pc'["main"] = "tasks"
        /\ Who = "main" /\ Who' = "main"
    BY SMT, <1>3, Moved DEF OpcRegsInit, Locking, Unlocking, NoMutex, Lock, Unlock
  <2>2. ~used'
    BY SMT, <1>3, <2>1
    DEF Orderly, OpcRegsInit, Locking, Unlocking, NoMutex, Lock, Unlock, ghost
  <2>3. TasksInv'
    BY SMT, <1>3, <2>1
    DEF Orderly, OpcRegsInit, Locking, Unlocking, NoMutex, Lock, Unlock, TasksInv, Quiet,
        Closing, Building, others, server, ghost
  <2>4. ServerInv'
    BY SMT, <1>3, <2>1
    DEF Orderly, TypeOK, OpcRegsInit, Locking, Unlocking, NoMutex, Lock, Unlock, ServerInv,
        SrvMux, NoServer, Building, server
  <2>5. ClientInv'
    BY SMT, <1>3, <2>1
    DEF Orderly, TypeOK, OpcRegsInit, Locking, Unlocking, NoMutex, Lock, Unlock, ClientInv,
        client
  <2> QED  BY <2>2, <2>3, <2>4, <2>5 DEF Orderly
<1>4. ASSUME TasksInit PROVE Orderly'
  <2>1. /\ \/ Cur = "tasks" /\ Cur' = "tasks2" /\ pc["main"] = "tasks" /\ pc'["main"] = "tasks2"
           \/ Cur = "tasks2" /\ Cur' = "mbtasks" /\ pc["main"] = "tasks2" /\ pc'["main"] = "mbtasks"
        /\ Who = "main" /\ Who' = "main"
    BY SMT, <1>4, Moved DEF TasksInit, Locking, Unlocking, NoMutex, Lock, Unlock
  <2>2. ~used'
    BY SMT, <1>4, <2>1
    DEF Orderly, TasksInit, Locking, Unlocking, NoMutex, Lock, Unlock, ghost
  <2>3. TasksInv'
    BY SMT, <1>4, <2>1
    DEF Orderly, TasksInit, Locking, Unlocking, NoMutex, Lock, Unlock, TasksInv, Quiet,
        Closing, Building, others, server, ghost
  <2>4. ServerInv'
    BY SMT, <1>4, <2>1
    DEF Orderly, TypeOK, TasksInit, Locking, Unlocking, NoMutex, Lock, Unlock, ServerInv,
        SrvMux, NoServer, Building, server
  <2>5. ClientInv'
    BY SMT, <1>4, <2>1
    DEF Orderly, TypeOK, TasksInit, Locking, Unlocking, NoMutex, Lock, Unlock, ClientInv,
        client
  <2> QED  BY <2>2, <2>3, <2>4, <2>5 DEF Orderly
<1>5. ASSUME MbAddRefreshTasks PROVE Orderly'
  <2>1. /\ \/ Cur = "mbtasks" /\ Cur' = "mbtasks2" /\ pc["main"] = "mbtasks" /\ pc'["main"] = "mbtasks2"
           \/ Cur = "mbtasks2" /\ Cur' = "tstart" /\ pc["main"] = "mbtasks2" /\ pc'["main"] = "tstart"
        /\ Who = "main" /\ Who' = "main"
    BY SMT, <1>5, Moved DEF MbAddRefreshTasks, Locking, Unlocking, NoMutex, Lock, Unlock
  <2>2. ~used'
    BY SMT, <1>5, <2>1
    DEF Orderly, MbAddRefreshTasks, Locking, Unlocking, NoMutex, Lock, Unlock, ghost
  <2>3. TasksInv'
    BY SMT, <1>5, <2>1
    DEF Orderly, MbAddRefreshTasks, Locking, Unlocking, NoMutex, Lock, Unlock, TasksInv,
        Quiet, Closing, Building, others, server, ghost
  <2>4. ServerInv'
    BY SMT, <1>5, <2>1
    DEF Orderly, TypeOK, MbAddRefreshTasks, Locking, Unlocking, NoMutex, Lock, Unlock,
        ServerInv, SrvMux, NoServer, Building, server
  <2>5. ClientInv'
    BY SMT, <1>5, <2>1
    DEF Orderly, TypeOK, MbAddRefreshTasks, Locking, Unlocking, NoMutex, Lock, Unlock,
        ClientInv, client
  <2> QED  BY <2>2, <2>3, <2>4, <2>5 DEF Orderly
<1>6. ASSUME TasksStart PROVE Orderly'
  <2>1. /\ \/ Cur = "tstart" /\ Cur' = "opcstart" /\ pc["main"] = "tstart" /\ pc'["main"] = "opcstart"
        /\ Who = "main" /\ Who' = "main"
    BY SMT, <1>6, Moved DEF TasksStart
  <2>2. ~used'
    BY SMT, <1>6, <2>1 DEF Orderly, TasksStart, ghost
  <2>3. TasksInv'
    BY SMT, <1>6, <2>1
    DEF Orderly, TasksStart, TasksInv, Quiet, Closing, Building, others, server, ghost
  <2>4. ServerInv'
    BY SMT, <1>6, <2>1
    DEF Orderly, TypeOK, TasksStart, ServerInv, SrvMux, NoServer, Building, server
  <2>5. ClientInv'
    BY SMT, <1>6, <2>1 DEF Orderly, TypeOK, TasksStart, ClientInv, client
  <2> QED  BY <2>2, <2>3, <2>4, <2>5 DEF Orderly
<1>7. ASSUME NEW k \in Server, OpcStart(k) PROVE Orderly'
  <2>1. /\ \/ Cur = "opcstart" /\ Cur' = "netstart" /\ pc["main"] = "opcstart" /\ pc'["main"] = "netstart"
        /\ Who = "main" /\ Who' = "main"
    BY SMT, <1>7, Moved DEF OpcStart
  <2>2. ~used'
    BY SMT, <1>7, <2>1 DEF Orderly, OpcStart, ghost
  <2>3. TasksInv'
    BY SMT, <1>7, <2>1
    DEF Orderly, OpcStart, TasksInv, Quiet, Closing, Building, others, server, ghost
  <2>4. ServerInv'
    BY SMT, <1>7, <2>1
    DEF Orderly, TypeOK, OpcStart, ServerInv, SrvMux, NoServer, Building, server
  <2>5. ClientInv'
    BY SMT, <1>7, <2>1 DEF Orderly, TypeOK, OpcStart, ClientInv, client
  <2> QED  BY <2>2, <2>3, <2>4, <2>5 DEF Orderly
<1>8. ASSUME NetStart PROVE Orderly'
  <2>1. /\ \/ Cur = "netstart" /\ Cur' = "client" /\ pc["main"] = "netstart" /\ pc'["main"] = "client"
           \/ Cur = "netstart" /\ Cur' = "loop" /\ pc["main"] = "netstart" /\ pc'["main"] = "loop"
        /\ Who = "main" /\ Who' = "main"
    BY SMT, <1>8, Moved DEF NetStart
  <2>2. ~used'
    BY SMT, <1>8, <2>1 DEF Orderly, NetStart, ghost
  <2>3. TasksInv'
    BY SMT, <1>8, <2>1
    DEF Orderly, NetStart, TasksInv, Quiet, Closing, Building, others, server, ghost
  <2>4. ServerInv'
    BY SMT, <1>8, <2>1
    DEF Orderly, TypeOK, NetStart, ServerInv, SrvMux, NoServer, Building, server
  <2>5. ClientInv'
    <3>1. UNCHANGED <<mux, client>>
      BY Zenon, <1>8 DEF NetStart
    <3>2. pc'["main"] = IF mux["muxClient"] = "null" THEN "client" ELSE "loop"
      BY SMT, <1>8, Moved DEF NetStart
    <3> QED  BY SMT, <3>1, <3>2 DEF Orderly, ClientInv, client
  <2> QED  BY <2>2, <2>3, <2>4, <2>5 DEF Orderly
<1>9. ASSUME ClientInit PROVE Orderly'
  <2>1. /\ \/ Cur = "client" /\ Cur' = "loop" /\ pc["main"] = "client" /\ pc'["main"] = "loop"
        /\ Who = "main" /\ Who' = "main"
    BY SMT, <1>9, Moved DEF ClientInit
  <2>2. ~used'
    BY SMT, <1>9, <2>1 DEF Orderly, ClientInit, ghost
  <2>3. TasksInv'
    BY SMT, <1>9, <2>1
    DEF Orderly, ClientInit, TasksInv, Quiet, Closing, Building, others, server, ghost
  <2>4. ServerInv'
    BY SMT, <1>9, <2>1
    DEF Orderly, TypeOK, ClientInit, ServerInv, SrvMux, NoServer, Building, server
  <2>5. ClientInv'
    BY SMT, <1>9, <2>1 DEF Orderly, TypeOK, ClientInit, ClientInv, client
  <2> QED  BY <2>2, <2>3, <2>4, <2>5 DEF Orderly
<1>10. ASSUME Locking("main", "muxClient", "loop", "connect") PROVE Orderly'
  <2>1. /\ \/ Cur = "loop" /\ Cur' = "connect" /\ pc["main"] = "loop" /\ pc'["main"] = "connect"
        /\ Who = "main" /\ Who' = "main"
    BY SMT, <1>10, Moved DEF Locking, Lock
  <2>2. ~used'
    BY SMT, <1>10, <2>1 DEF Orderly, Locking, Lock, ghost
  <2>3. TasksInv'
    BY SMT, <1>10, <2>1
    DEF Orderly, Locking, Lock, TasksInv, Quiet, Closing, Building, others, server, ghost
  <2>4. ServerInv'
    BY SMT, <1>10, <2>1
    DEF Orderly, TypeOK, Locking, Lock, ServerInv, SrvMux, NoServer, Building, server
  <2>5. ClientInv'
    BY SMT, <1>10, <2>1 DEF Orderly, TypeOK, Locking, Lock, ClientInv, client
  <2> QED  BY <2>2, <2>3, <2>4, <2>5 DEF Orderly
<1>11. ASSUME Connect PROVE Orderly'
  <2>1. /\ \/ Cur = "connect" /\ Cur' = "request" /\ pc["main"] = "connect" /\ pc'["main"] = "request"
           \/ Cur = "connect" /\ Cur' = "failed" /\ pc["main"] = "connect" /\ pc'["main"] = "failed"
        /\ Who = "main" /\ Who' = "main"
    BY SMT, <1>11, Moved DEF Connect
  <2>2. ~used'
    BY SMT, <1>11, <2>1 DEF Orderly, Connect, ghost
  <2>3. TasksInv'
    BY SMT, <1>11, <2>1
    DEF Orderly, Connect, TasksInv, Quiet, Closing, Building, others, server, ghost
  <2>4. ServerInv'
    BY SMT, <1>11, <2>1
    DEF Orderly, TypeOK, Connect, ServerInv, SrvMux, NoServer, Building, server
  <2>5. ClientInv'
    <3>1. mux["muxClient"] = "main" /\ mux' = mux
      BY SMT, <1>11, <2>1 DEF Orderly, ClientInv, Connect
    <3>2. CASE pc'["main"] = "request"
      <4>1. connected' /\ uaClient' = "open"
        BY SMT, <1>11, <3>2, <2>1, Moved DEF Connect, Orderly, ClientInv, client
      <4> QED  BY SMT, <4>1, <3>1, <3>2 DEF ClientInv
    <3>3. CASE pc'["main"] = "failed"
      <4>1. ~connected'
        BY SMT, <1>11, <3>3, <2>1, Moved DEF Connect, client
      <4> QED  BY SMT, <4>1, <3>1, <3>3 DEF ClientInv
    <3> QED  BY SMT, <2>1, <3>2, <3>3
  <2> QED  BY <2>2, <2>3, <2>4, <2>5 DEF Orderly
<1>12. ASSUME Read \/ Write PROVE Orderly'
  <2>1. /\ \/ Cur = "request" /\ Cur' = "srvop" /\ pc["main"] = "request" /\ pc'["main"] = "srvop"
           \/ Cur = "request" /\ Cur' = "refresh" /\ pc["main"] = "request" /\ pc'["main"] = "refresh"
        /\ Who = "main" /\ Who' = "main"
    BY SMT, <1>12, Moved DEF Read, Write, Request, Unlock
  <2>2. ~used'
    <3>1. uaClient # "null"
      BY SMT, <2>1 DEF Orderly, ClientInv
    <3> QED  BY Zenon, <1>12, <3>1 DEF Read, Write, Request, Orderly
  <2>3. TasksInv'
    BY SMT, <1>12, <2>1
    DEF Orderly, Read, Write, Request, Unlock, TasksInv, Quiet, Closing, Building, others,
        server, ghost
  <2>4. ServerInv'
    BY SMT, <1>12, <2>1
    DEF Orderly, TypeOK, Read, Write, Request, Unlock, ServerInv, SrvMux, NoServer,
        Building, server
  <2>5. ClientInv'
    BY SMT, <1>12, <2>1 DEF Orderly, TypeOK, Read, Write, Request, Unlock, ClientInv, client
  <2> QED  BY <2>2, <2>3, <2>4, <2>5 DEF Orderly
<1>13. ASSUME Unlocking("main", "muxClient", "failed", "srvop") PROVE Orderly'
  <2>1. /\ \/ Cur = "failed" /\ Cur' = "srvop" /\ pc["main"] = "failed" /\ pc'["main"] = "srvop"
        /\ Who = "main" /\ Who' = "main"
    BY SMT, <1>13, Moved DEF Unlocking, Unlock
  <2>2. ~used'
    BY SMT, <1>13, <2>1 DEF Orderly, Unlocking, Unlock, ghost
  <2>3. TasksInv'
    BY SMT, <1>13, <2>1
    DEF Orderly, Unlocking, Unlock, TasksInv, Quiet, Closing, Building, others, server,
        ghost
  <2>4. ServerInv'
    BY SMT, <1>13, <2>1
    DEF Orderly, TypeOK, Unlocking, Unlock, ServerInv, SrvMux, NoServer, Building, server
  <2>5. ClientInv'
    BY SMT, <1>13, <2>1 DEF Orderly, TypeOK, Unlocking, Unlock, ClientInv, client
  <2> QED  BY <2>2, <2>3, <2>4, <2>5 DEF Orderly
<1>14. ASSUME RefreshAllValues PROVE Orderly'
  <2>1. /\ \/ Cur = "refresh" /\ Cur' = "refresh2" /\ pc["main"] = "refresh" /\ pc'["main"] = "refresh2"
           \/ Cur = "refresh2" /\ Cur' = "srvop" /\ pc["main"] = "refresh2" /\ pc'["main"] = "srvop"
        /\ Who = "main" /\ Who' = "main"
    BY SMT, <1>14, Moved DEF RefreshAllValues, Locking, Unlocking, NoMutex, Lock, Unlock
  <2>2. ~used'
    BY SMT, <1>14, <2>1
    DEF Orderly, RefreshAllValues, Locking, Unlocking, NoMutex, Lock, Unlock, ghost
  <2>3. TasksInv'
    BY SMT, <1>14, <2>1
    DEF Orderly, RefreshAllValues, Locking, Unlocking, NoMutex, Lock, Unlock, TasksInv,
        Quiet, Closing, Building, others, server, ghost
  <2>4. ServerInv'
    BY SMT, <1>14, <2>1
    DEF Orderly, TypeOK, RefreshAllValues, Locking, Unlocking, NoMutex, Lock, Unlock,
        ServerInv, SrvMux, NoServer, Building, server
  <2>5. ClientInv'
    BY SMT, <1>14, <2>1
    DEF Orderly, TypeOK, RefreshAllValues, Locking, Unlocking, NoMutex, Lock, Unlock,
        ClientInv, client
  <2> QED  BY <2>2, <2>3, <2>4, <2>5 DEF Orderly
<1>15. ASSUME OpcServer PROVE Orderly'
  <2>1. /\ \/ Cur = "srvop" /\ Cur' = "srvop2" /\ pc["main"] = "srvop" /\ pc'["main"] = "srvop2"
           \/ Cur = "srvop2" /\ Cur' = "show" /\ pc["main"] = "srvop2" /\ pc'["main"] = "show"
        /\ Who = "main" /\ Who' = "main"
    BY SMT, <1>15, Moved DEF OpcServer, Locking, Unlocking, NoMutex, Lock, Unlock
  <2>2. ~used'
    BY SMT, <1>15, <2>1
    DEF Orderly, OpcServer, Locking, Unlocking, NoMutex, Lock, Unlock, ghost
  <2>3. TasksInv'
    BY SMT, <1>15, <2>1
    DEF Orderly, OpcServer, Locking, Unlocking, NoMutex, Lock, Unlock, TasksInv, Quiet,
        Closing, Building, others, server, ghost
  <2>4. ServerInv'
    BY SMT, <1>15, <2>1
    DEF Orderly, TypeOK, OpcServer, Locking, Unlocking, NoMutex, Lock, Unlock, ServerInv,
        SrvMux, NoServer, Building, server
  <2>5. ClientInv'
    BY SMT, <1>15, <2>1
    DEF Orderly, TypeOK, OpcServer, Locking, Unlocking, NoMutex, Lock, Unlock, ClientInv,
        client
  <2> QED  BY <2>2, <2>3, <2>4, <2>5 DEF Orderly
<1>16. ASSUME Show PROVE Orderly'
  <2>1. /\ \/ Cur = "show" /\ Cur' = "show2" /\ pc["main"] = "show" /\ pc'["main"] = "show2"
           \/ Cur = "show" /\ Cur' = "sum" /\ pc["main"] = "show" /\ pc'["main"] = "sum"
           \/ Cur = "show2" /\ Cur' = "sum" /\ pc["main"] = "show2" /\ pc'["main"] = "sum"
        /\ Who = "main" /\ Who' = "main"
    BY SMT, <1>16, Moved DEF Show, Locking, Unlocking, NoMutex, Lock, Unlock
  <2>2. ~used'
    BY SMT, <1>16, <2>1 DEF Orderly, Show, Locking, Unlocking, NoMutex, Lock, Unlock, ghost
  <2>3. TasksInv'
    BY SMT, <1>16, <2>1
    DEF Orderly, Show, Locking, Unlocking, NoMutex, Lock, Unlock, TasksInv, Quiet, Closing,
        Building, others, server, ghost
  <2>4. ServerInv'
    BY SMT, <1>16, <2>1
    DEF Orderly, TypeOK, Show, Locking, Unlocking, NoMutex, Lock, Unlock, ServerInv, SrvMux,
        NoServer, Building, server
  <2>5. ClientInv'
    BY SMT, <1>16, <2>1
    DEF Orderly, TypeOK, Show, Locking, Unlocking, NoMutex, Lock, Unlock, ClientInv, client
  <2> QED  BY <2>2, <2>3, <2>4, <2>5 DEF Orderly
<1>17. ASSUME MbPrintSummary PROVE Orderly'
  <2>1. /\ \/ Cur = "sum" /\ Cur' = "sum2" /\ pc["main"] = "sum" /\ pc'["main"] = "sum2"
           \/ Cur = "sum2" /\ Cur' = "key" /\ pc["main"] = "sum2" /\ pc'["main"] = "key"
        /\ Who = "main" /\ Who' = "main"
    BY SMT, <1>17, Moved DEF MbPrintSummary, Locking, Unlocking, NoMutex, Lock, Unlock
  <2>2. ~used'
    BY SMT, <1>17, <2>1
    DEF Orderly, MbPrintSummary, Locking, Unlocking, NoMutex, Lock, Unlock, ghost
  <2>3. TasksInv'
    BY SMT, <1>17, <2>1
    DEF Orderly, MbPrintSummary, Locking, Unlocking, NoMutex, Lock, Unlock, TasksInv, Quiet,
        Closing, Building, others, server, ghost
  <2>4. ServerInv'
    BY SMT, <1>17, <2>1
    DEF Orderly, TypeOK, MbPrintSummary, Locking, Unlocking, NoMutex, Lock, Unlock,
        ServerInv, SrvMux, NoServer, Building, server
  <2>5. ClientInv'
    BY SMT, <1>17, <2>1
    DEF Orderly, TypeOK, MbPrintSummary, Locking, Unlocking, NoMutex, Lock, Unlock,
        ClientInv, client
  <2> QED  BY <2>2, <2>3, <2>4, <2>5 DEF Orderly
<1>18. ASSUME NEW ch, Key(ch) PROVE Orderly'
  <2>1. /\ \/ Cur = "key" /\ Cur' = "D.tasks" /\ pc["main"] = "key" /\ pc'["main"] = "D.tasks"
           \/ Cur = "key" /\ Cur' = "loop" /\ pc["main"] = "key" /\ pc'["main"] = "loop"
        /\ Who = "main" /\ Who' = "main"
    BY SMT, <1>18, Moved DEF Key
  <2>2. ~used'
    BY SMT, <1>18, <2>1 DEF Orderly, Key, ghost
  <2>3. TasksInv'
    BY SMT, <1>18, <2>1
    DEF Orderly, Key, TasksInv, Quiet, Closing, Building, others, server, ghost
  <2>4. ServerInv'
    BY SMT, <1>18, <2>1
    DEF Orderly, TypeOK, Key, ServerInv, SrvMux, NoServer, Building, server
  <2>5. ClientInv'
    BY SMT, <1>18, <2>1 DEF Orderly, TypeOK, Key, ClientInv, client
  <2> QED  BY <2>2, <2>3, <2>4, <2>5 DEF Orderly
<1>19. ASSUME NEW f \in Frame, TaskStop(f) PROVE Orderly'
  <2>1. /\ \/ Cur = "D.tasks" /\ Cur' = "D.lock"
           \/ Cur = "D.lock" /\ Cur' = "D.clear"
           \/ Cur = "D.clear" /\ Cur' = "D.regs"
        /\ Who = f /\ Who' = f
        /\ pc'["main"] \in {pc["main"], Cur'}
    BY SMT, <1>19, Moved DEF TaskStop, Locking, Unlocking, NoMutex, Lock, Unlock
  <2>2. ~used'
    BY SMT, <1>19, <2>1
    DEF Orderly, TaskStop, Locking, Unlocking, NoMutex, Lock, Unlock, ghost
  <2>3. TasksInv'
    <3>1. UNCHANGED <<task, plcs, regs, uaServer>>
      BY Zenon, <1>19 DEF TaskStop, Locking, server, others
    <3>2. \/ Cur' = "D.lock" /\ tasks' = "listed"
          \/ Cur' = "D.clear" /\ tasks' = tasks /\ tasks # "run"
          \/ Cur' = "D.regs" /\ tasks' = "none" /\ task = "idle"
      BY SMT, <1>19, Moved DEF TaskStop, Locking, others, Orderly, TasksInv
    <3> QED  BY SMT, <3>1, <3>2 DEF Orderly, TasksInv, Quiet, Closing, Building
  <2>4. ServerInv'
    BY SMT, <1>19, <2>1
    DEF Orderly, TypeOK, TaskStop, Locking, Unlocking, NoMutex, Lock, Unlock, ServerInv,
        SrvMux, NoServer, Building, server
  <2>5. ClientInv'
    BY SMT, <1>19, <2>1
    DEF Orderly, TypeOK, TaskStop, Locking, Unlocking, NoMutex, Lock, Unlock, ClientInv,
        client
  <2> QED  BY <2>2, <2>3, <2>4, <2>5 DEF Orderly
<1>20. ASSUME NEW f \in Frame, RegsDeinit(f) PROVE Orderly'
  <2>1. /\ \/ Cur = "D.regs" /\ Cur' = "D.flag"
        /\ Who = f /\ Who' = f
        /\ pc'["main"] \in {pc["main"], Cur'}
    BY SMT, <1>20, Moved DEF RegsDeinit
  <2>2. ~used'
    <3>1. task = "idle"
      BY SMT, <2>1 DEF Orderly, TasksInv, Quiet, Closing
    <3> QED  BY Zenon, <1>20, <3>1 DEF RegsDeinit, Orderly
  <2>3. TasksInv'
    BY SMT, <1>20, <2>1
    DEF Orderly, RegsDeinit, TasksInv, Quiet, Closing, Building, others, server, ghost
  <2>4. ServerInv'
    BY SMT, <1>20, <2>1
    DEF Orderly, TypeOK, RegsDeinit, ServerInv, SrvMux, NoServer, Building, server
  <2>5. ClientInv'
    BY SMT, <1>20, <2>1 DEF Orderly, TypeOK, RegsDeinit, ClientInv, client
  <2> QED  BY <2>2, <2>3, <2>4, <2>5 DEF Orderly
<1>21. ASSUME NEW f \in Frame, StopFlag(f) PROVE Orderly'
  <2>1. /\ \/ Cur = "D.flag" /\ Cur' = "D.data"
        /\ Who = f /\ Who' = f
        /\ pc'["main"] \in {pc["main"], Cur'}
    BY SMT, <1>21, Moved DEF StopFlag
  <2>2. ~used'
    BY SMT, <1>21, <2>1 DEF Orderly, StopFlag, ghost
  <2>3. TasksInv'
    BY SMT, <1>21, <2>1
    DEF Orderly, StopFlag, TasksInv, Quiet, Closing, Building, others, server, ghost
  <2>4. ServerInv'
    <3>1. \A k \in Server : srv[k] # "new"
      BY Zenon, <1>21 DEF StopFlag
    <3>2. UNCHANGED <<mux, srv, stale>>
      BY Zenon, <1>21 DEF StopFlag
    <3> QED  BY SMT, <2>1, <3>1, <3>2 DEF Orderly, ServerInv, SrvMux, NoServer, Building
  <2>5. ClientInv'
    BY SMT, <1>21, <2>1 DEF Orderly, TypeOK, StopFlag, ClientInv, client
  <2> QED  BY <2>2, <2>3, <2>4, <2>5 DEF Orderly
<1>22. ASSUME NEW f \in Frame, StopLocks(f) PROVE Orderly'
  <2>1. /\ \/ Cur = "D.data" /\ Cur' = "D.srv"
           \/ Cur = "D.srv" /\ Cur' = "D.free"
        /\ Who = f /\ Who' = f
        /\ pc'["main"] \in {pc["main"], Cur'}
    BY SMT, <1>22, Moved DEF StopLocks, Locking, Unlocking, NoMutex, Lock, Unlock
  <2>2. ~used'
    BY SMT, <1>22, <2>1
    DEF Orderly, StopLocks, Locking, Unlocking, NoMutex, Lock, Unlock, ghost
  <2>3. TasksInv'
    BY SMT, <1>22, <2>1
    DEF Orderly, StopLocks, Locking, Unlocking, NoMutex, Lock, Unlock, TasksInv, Quiet,
        Closing, Building, others, server, ghost
  <2>4. ServerInv'
    <3>1. UNCHANGED <<srv, stale>> /\ \A k \in Server : srv[k] # "new"
      BY SMT, <1>22, <2>1 DEF StopLocks, Locking, NoMutex, Orderly, ServerInv, server
    <3>2. \/ Cur' = "D.srv" /\ SrvMux' = SrvMux
          \/ Cur' = "D.free" /\ SrvMux = "free" /\ SrvMux' = f
          \/ Cur' = "D.free" /\ SrvMux = "null" /\ SrvMux' = SrvMux
      <4>1. CASE \/ Locking(f, "uaDataMux", "D.data", "D.srv")
                 \/ NoMutex(f, "uaDataMux", "D.data", "D.srv")
        BY SMT, <4>1, Moved DEF Locking, Lock, NoMutex, SrvMux, TypeOK
      <4>2. CASE Locking(f, "uaSrvMux", "D.srv", "D.free")
        BY SMT, <4>2, Moved DEF Locking, Lock, SrvMux, TypeOK
      <4>3. CASE NoMutex(f, "uaSrvMux", "D.srv", "D.free")
        BY SMT, <4>3, Moved DEF NoMutex, SrvMux
      <4> QED  BY Zenon, <1>22, <4>1, <4>2, <4>3 DEF StopLocks
    <3>3. SrvMux \in {"free", "null"} => NoServer
      BY SMT, <3>1 DEF Orderly, ServerInv, NoServer
    <3> QED  BY SMT, <2>1, <3>1, <3>2, <3>3 DEF Orderly, ServerInv, NoServer, Building
  <2>5. ClientInv'
    BY SMT, <1>22, <2>1
    DEF Orderly, TypeOK, StopLocks, Locking, Unlocking, NoMutex, Lock, Unlock, ClientInv,
        client
  <2> QED  BY <2>2, <2>3, <2>4, <2>5 DEF Orderly
<1>23. ASSUME NEW f \in Frame, StopFrees(f) PROVE Orderly'
  <2>1. /\ \/ Cur = "D.free" /\ Cur' = "D.net"
        /\ Who = f /\ Who' = f
        /\ pc'["main"] \in {pc["main"], Cur'}
    BY SMT, <1>23, Moved DEF StopFrees
  <2>2. ~used'
    <3>1. \A k \in Server : srv[k] = "none"
      BY SMT, <2>1 DEF Orderly, ServerInv, NoServer
    <3> QED  BY Zenon, <1>23, <3>1 DEF StopFrees, Orderly
  <2>3. TasksInv'
    BY SMT, <1>23, <2>1
    DEF Orderly, StopFrees, TasksInv, Quiet, Closing, Building, others, server, ghost
  <2>4. ServerInv'
    BY SMT, <1>23, <2>1
    DEF Orderly, TypeOK, StopFrees, ServerInv, SrvMux, NoServer, Building, server
  <2>5. ClientInv'
    BY SMT, <1>23, <2>1 DEF Orderly, TypeOK, StopFrees, ClientInv, client
  <2> QED  BY <2>2, <2>3, <2>4, <2>5 DEF Orderly
<1>24. ASSUME NEW f \in Frame, NetsvcDeinit(f) PROVE Orderly'
  <2>1. /\ \/ Cur = "D.net" /\ Cur' = "D.mb"
        /\ Who = f /\ Who' = f
        /\ pc'["main"] \in {pc["main"], Cur'}
    BY SMT, <1>24, Moved DEF NetsvcDeinit
  <2>2. ~used'
    BY SMT, <1>24, <2>1 DEF Orderly, NetsvcDeinit, ghost
  <2>3. TasksInv'
    BY SMT, <1>24, <2>1
    DEF Orderly, NetsvcDeinit, TasksInv, Quiet, Closing, Building, others, server, ghost
  <2>4. ServerInv'
    BY SMT, <1>24, <2>1
    DEF Orderly, TypeOK, NetsvcDeinit, ServerInv, SrvMux, NoServer, Building, server
  <2>5. ClientInv'
    BY SMT, <1>24, <2>1 DEF Orderly, TypeOK, NetsvcDeinit, ClientInv, client
  <2> QED  BY <2>2, <2>3, <2>4, <2>5 DEF Orderly
<1>25. ASSUME NEW f \in Frame, MbDeinit(f) PROVE Orderly'
  <2>1. /\ \/ Cur = "D.mb" /\ Cur' = "X.tasks"
           \/ Cur = "D.mb" /\ Cur' = "cfg"
        /\ Who = f /\ Who' = f
        /\ pc'["main"] \in {pc["main"], Cur'}
    BY SMT, <1>25, Moved DEF MbDeinit
  <2>2. ~used'
    <3>1. task = "idle"
      BY SMT, <2>1 DEF Orderly, TasksInv, Quiet, Closing
    <3> QED  BY Zenon, <1>25, <3>1 DEF MbDeinit, Orderly
  <2>3. TasksInv'
    BY SMT, <1>25, <2>1
    DEF Orderly, MbDeinit, TasksInv, Quiet, Closing, Building, others, server, ghost
  <2>4. ServerInv'
    BY SMT, <1>25, <2>1
    DEF Orderly, TypeOK, MbDeinit, ServerInv, SrvMux, NoServer, Building, server
  <2>5. ClientInv'
    BY SMT, <1>25, <2>1 DEF Orderly, TypeOK, MbDeinit, ClientInv, client
  <2> QED  BY <2>2, <2>3, <2>4, <2>5 DEF Orderly
<1>26. ASSUME NEW f \in Frame, Exit(f) PROVE Orderly'
  <2>1. /\ \/ Cur = "X.tasks" /\ Cur' = "X.client"
           \/ Cur = "X.client" /\ Cur' = "exited"
        /\ Who = f /\ Who' = f
        /\ pc'["main"] \in {pc["main"], Cur'}
    BY SMT, <1>26, Moved DEF Exit
  <2>2. ~used'
    BY SMT, <1>26, <2>1 DEF Orderly, Exit, ghost
  <2>3. TasksInv'
    BY SMT, <1>26, <2>1
    DEF Orderly, Exit, TasksInv, Quiet, Closing, Building, others, server, ghost
  <2>4. ServerInv'
    BY SMT, <1>26, <2>1
    DEF Orderly, TypeOK, Exit, ServerInv, SrvMux, NoServer, Building, server
  <2>5. ClientInv'
    BY SMT, <1>26, <2>1 DEF Orderly, TypeOK, Exit, ClientInv, client
  <2> QED  BY <2>2, <2>3, <2>4, <2>5 DEF Orderly
<1>27. ASSUME NEW k \in Server, RunBegins(k) PROVE Orderly'
  <2>1. SrvMux # "null" /\ stale = {} /\ srv[k] = "new"
    BY SMT, <1>27 DEF Orderly, ServerInv, RunBegins, NoServer
  <2>2. UNCHANGED <<pc, uaServer, stale, client, net, others>>
    BY Zenon, <1>27, <2>1 DEF RunBegins, SrvMux
  <2>3. Cur' = Cur /\ Who' = Who /\ pc'["main"] = pc["main"]
    BY <2>2, Stayed
  <2>4. /\ SrvMux \notin Frame
        /\ \A j \in Server \ {k} : srv[j] = "none"
        /\ SrvMux = "free"
    BY SMT, <2>1 DEF Orderly, ServerInv, NoServer, SrvMux, TypeOK, NoThread
  <2>5. Lock("uaSrvMux", k) /\ srv' = [srv EXCEPT ![k] = "run"]
        /\ used' = (used \/ k \in stale)
    BY Zenon, <1>27, <2>4 DEF RunBegins, SrvMux
  <2>6. ~used'
    <3>1. k \notin stale
      BY <2>1
    <3> QED  BY Zenon, <2>5, <3>1 DEF Orderly
  <2>7. TasksInv'
    BY SMT, <2>2, <2>3 DEF Orderly, TasksInv, Quiet, Closing, Building, others
  <2>8. ServerInv'
    <3>1. /\ SrvMux' = k /\ srv'[k] = "run" /\ stale' = {}
          /\ \A j \in Server \ {k} : srv'[j] = "none"
      BY SMT, <2>1, <2>2, <2>4, <2>5 DEF Lock, TypeOK, SrvMux
    <3>2. /\ Cur \notin Building \cup {"cfg", "opcstart", "D.net", "D.mb"}
          /\ Cur # "D.free"
      BY SMT, <2>1, <2>4 DEF Orderly, ServerInv, NoServer, Who
    <3> QED  BY SMT, <2>3, <3>1, <3>2 DEF ServerInv, NoServer
  <2>9. ClientInv'
    BY SMT, <2>2, <2>3, <2>5 DEF Orderly, ClientInv, client, Lock, TypeOK
  <2> QED  BY Zenon, <2>6, <2>7, <2>8, <2>9 DEF Orderly
<1>28. ASSUME NEW k \in Server, RunLocks(k) PROVE Orderly'
  <2>1. Cur' = Cur /\ Who' = Who /\ pc'["main"] = pc["main"]
    BY <1>28, Stayed DEF RunLocks, Lock
  <2>2. ~used'
    BY SMT, <1>28 DEF Orderly, RunLocks, ServerInv
  <2>3. TasksInv'
    BY SMT, <1>28, <2>1
    DEF Orderly, RunLocks, Lock, TasksInv, Quiet, Closing, Building, others, server, ghost
  <2>4. ServerInv'
    BY SMT, <1>28, <2>1
    DEF Orderly, TypeOK, RunLocks, Lock, ServerInv, SrvMux, NoServer, Building, server
  <2>5. ClientInv'
    BY SMT, <1>28, <2>1 DEF Orderly, TypeOK, RunLocks, Lock, ClientInv, client
  <2> QED  BY <2>2, <2>3, <2>4, <2>5 DEF Orderly
<1>29. ASSUME NEW k \in Server, RunEnds(k) PROVE Orderly'
  <2>1. Cur' = Cur /\ Who' = Who /\ pc'["main"] = pc["main"]
    BY <1>29, Stayed DEF RunEnds, Unlock
  <2>2. ~used'
    BY SMT, <1>29, <2>1 DEF Orderly, RunEnds, Unlock, ghost
  <2>3. TasksInv'
    BY SMT, <1>29, <2>1
    DEF Orderly, RunEnds, Unlock, TasksInv, Quiet, Closing, Building, others, server, ghost
  <2>4. ServerInv'
    <3>1. SrvMux = k /\ stale = {} /\ \A j \in Server \ {k} : srv[j] = "none"
      BY SMT, <1>29 DEF RunEnds, Orderly, ServerInv
    <3>2. SrvMux' = "free" /\ stale' = {} /\ \A j \in Server : srv'[j] = "none"
      BY SMT, <1>29, <3>1, Free DEF RunEnds, SrvMux, TypeOK
    <3>3. Cur # "D.free"
      BY SMT, <3>1 DEF Orderly, ServerInv, Who
    <3> QED  BY SMT, <2>1, <3>2, <3>3 DEF Orderly, ServerInv, NoServer, Building
  <2>5. ClientInv'
    BY SMT, <1>29, <2>1 DEF Orderly, TypeOK, RunEnds, Unlock, ClientInv, client
  <2> QED  BY <2>2, <2>3, <2>4, <2>5 DEF Orderly
<1>30. ASSUME Listen PROVE Orderly'
  <2>1. Cur' = Cur /\ Who' = Who /\ pc'["main"] = pc["main"]
    BY <1>30, Stayed DEF Listen
  <2>2. ~used'
    BY SMT, <1>30, <2>1 DEF Orderly, Listen, ghost
  <2>3. TasksInv'
    BY SMT, <1>30, <2>1
    DEF Orderly, Listen, TasksInv, Quiet, Closing, Building, others, server, ghost
  <2>4. ServerInv'
    BY SMT, <1>30, <2>1
    DEF Orderly, TypeOK, Listen, ServerInv, SrvMux, NoServer, Building, server
  <2>5. ClientInv'
    BY SMT, <1>30, <2>1 DEF Orderly, TypeOK, Listen, ClientInv, client
  <2> QED  BY <2>2, <2>3, <2>4, <2>5 DEF Orderly
<1>31. ASSUME TaskBegins \/ TaskGoesOn PROVE Orderly'
  <2>1. Cur' = Cur /\ Who' = Who /\ pc'["main"] = pc["main"]
    BY <1>31, Stayed
    DEF TaskBegins, TaskGoesOn, Tasking, RefreshBegins, RefreshWrites, RefreshEnds,
        MillisWrites, MillisEnds, PlcBegins, PlcEnds, Lock, Unlock
  <2>2. ~used'
    <3>1. task # "idle" \/ tasks = "run" => regs /\ plcs /\ uaServer
      BY DEF Orderly, TasksInv
    <3>2. task # "idle" \/ tasks = "run"
      BY SMT, <1>31
      DEF TaskBegins, TaskGoesOn, Tasking, RefreshBegins, RefreshWrites, RefreshEnds,
          MillisWrites, MillisEnds, PlcBegins, PlcEnds
    <3> QED
      BY Zenon, <1>31, <3>1, <3>2
      DEF Orderly, TaskBegins, TaskGoesOn, Tasking, RefreshBegins, RefreshWrites,
          RefreshEnds, MillisWrites, MillisEnds, PlcBegins, PlcEnds
  <2>3. TasksInv'
    BY SMT, <1>31, <2>1
    DEF Orderly, TaskBegins, TaskGoesOn, Tasking, RefreshBegins, RefreshWrites, RefreshEnds,
        MillisWrites, MillisEnds, PlcBegins, PlcEnds, Lock, Unlock, TasksInv, Quiet,
        Closing, Building, others, server, ghost
  <2>4. ServerInv'
    BY SMT, <1>31, <2>1
    DEF Orderly, TypeOK, TaskBegins, TaskGoesOn, Tasking, RefreshBegins, RefreshWrites,
        RefreshEnds, MillisWrites, MillisEnds, PlcBegins, PlcEnds, Lock, Unlock, ServerInv,
        SrvMux, NoServer, Building, server
  <2>5. ClientInv'
    BY SMT, <1>31, <2>1
    DEF Orderly, TypeOK, TaskBegins, TaskGoesOn, Tasking, RefreshBegins, RefreshWrites,
        RefreshEnds, MillisWrites, MillisEnds, PlcBegins, PlcEnds, Lock, Unlock, ClientInv,
        client
  <2> QED  BY <2>2, <2>3, <2>4, <2>5 DEF Orderly
<1>32. ASSUME UNCHANGED vars PROVE Orderly'
  <2>1. Cur' = Cur /\ Who' = Who /\ pc'["main"] = pc["main"]
    BY <1>32, Stayed DEF vars, net, client
  <2>2. ~used'
    BY SMT, <1>32, <2>1 DEF Orderly, vars, net, client, ghost
  <2>3. TasksInv'
    BY SMT, <1>32, <2>1
    DEF Orderly, vars, net, client, TasksInv, Quiet, Closing, Building, others, server,
        ghost
  <2>4. ServerInv'
    BY SMT, <1>32, <2>1
    DEF Orderly, TypeOK, vars, net, client, ServerInv, SrvMux, NoServer, Building, server
  <2>5. ClientInv'
    BY SMT, <1>32, <2>1 DEF Orderly, TypeOK, vars, net, client, ClientInv, client
  <2> QED  BY <2>2, <2>3, <2>4, <2>5 DEF Orderly
<1>33. ASSUME Sigint PROVE Orderly'
  <2>1. /\ Cur' = "D.tasks" /\ Who' = "signal" /\ pc'["main"] = pc["main"]
        /\ UNCHANGED <<mux, server, client, others, used>>
    BY SMT, <1>33 DEF Sigint, Goto, Cur, Who, TypeOK, ghost
  <2>2. TasksInv'
    BY SMT, <2>1 DEF Orderly, TasksInv, Quiet, Closing, Building, others, server
  <2>3. ServerInv'
    BY SMT, <2>1 DEF Orderly, ServerInv, SrvMux, NoServer, Building, server
  <2>4. ClientInv'
    BY SMT, <2>1 DEF Orderly, ClientInv, client
  <2> QED  BY Zenon, <2>1, <2>2, <2>3, <2>4 DEF Orderly
<1> QED
  BY Zenon, <1>1, <1>2, <1>3, <1>4, <1>5, <1>6, <1>7, <1>8, <1>9, <1>10, <1>11, <1>12,
      <1>13, <1>14, <1>15, <1>16, <1>17, <1>18, <1>19, <1>20, <1>21, <1>22, <1>23, <1>24,
      <1>25, <1>26, <1>27, <1>28, <1>29, <1>30, <1>31, <1>32, <1>33
  DEF Next, Main, OpcClient, ReadNumber, get_uatype, DeinitAll, OpcRun

\* What the proof rests on: in order, or a server was stopped too early.
LEMMA InvInit == Init => IInv
<1> SUFFICES ASSUME Init PROVE TypeOK /\ Orderly
  BY DEF IInv
<1> USE Kinds
<1>1. TypeOK
  BY TypeInit
<1>2. Cur = "cfg" /\ pc["main"] = "cfg"
  BY SMT DEF Init, Cur
<1>3. TasksInv
  BY SMT, <1>2 DEF Init, TasksInv, Quiet, Closing, Building
<1>4. ServerInv
  BY SMT, <1>2 DEF Init, ServerInv, SrvMux, NoServer, Building
<1>5. ClientInv
  BY SMT, <1>2 DEF Init, ClientInv
<1>6. ~used
  BY DEF Init
<1> QED  BY <1>1, <1>3, <1>4, <1>5, <1>6 DEF Orderly

LEMMA InvStep == IInv /\ [Next]_vars => IInv'
<1> SUFFICES ASSUME TypeOK, early \/ Orderly, [Next]_vars
             PROVE  TypeOK' /\ (early' \/ Orderly')
  BY DEF IInv
<1>1. TypeOK'
  BY TypeStep
<1>2. CASE early'
  BY <1>1, <1>2
<1>3. CASE ~early'
  <2>1. ~early
    BY <1>3, EarlyStays
  <2> QED  BY <1>1, <1>3, <2>1, OrderlyStep
<1> QED  BY <1>2, <1>3

\* Nobody uses what is gone: no task PLCs, a register map or a server, no
\* request of the client a client, no server thread another server or a
\* mutex, unless a server was stopped before its thread had run (deinit_all,
\* OpcServer_c::run and stop, _connect).
THEOREM FreedIsUnused == Spec => []NothingUsedAfterFree
<1>1. Init => IInv
  BY InvInit
<1>2. IInv /\ [Next]_vars => IInv'
  BY InvStep
<1>3. IInv => NothingUsedAfterFree
  BY DEF IInv, Orderly, NothingUsedAfterFree
<1> QED  BY <1>1, <1>2, <1>3, PTL DEF Spec

\* There is one server thread at most.
OneServer == \A j, k \in Server : srv[j] # "none" /\ srv[k] # "none" => j = k

\* As long as no server was stopped too early there is one server thread at
\* most, and uaSrvMux is its own while UA_Server_run runs (OpcServer_c::run).
THEOREM ServerIsAlone ==
  Spec => [](early \/ (OneServer /\ \A k \in Server : srv[k] = "run" => mux["uaSrvMux"] = k))
<1>1. Init => IInv
  BY InvInit
<1>2. IInv /\ [Next]_vars => IInv'
  BY InvStep
<1>3. IInv => early \/ (OneServer /\ \A k \in Server : srv[k] = "run" => mux["uaSrvMux"] = k)
  BY DEF IInv, Orderly, ServerInv, SrvMux, OneServer
<1> QED  BY <1>1, <1>2, <1>3, PTL DEF Spec

=============================================================================
