----------------------------- MODULE Lifecycle -----------------------------
(***************************************************************************)
(* The life of the process (main.cpp, sources/all_func.cpp): bringing the  *)
(* parts up, the main loop with its OPC UA client, reconfiguration by 'C', *)
(* the end by 'Q' or Ctrl-C, and the threads that live beside it: those of *)
(* the OPC UA server and the REST server, and the tasks.                   *)
(*                                                                         *)
(* The handler of SIGINT runs on the main thread, on top of whatever that  *)
(* thread was doing, and never goes back to it: `pc` has one place for     *)
(* each, and the main thread moves only while the handler is off.          *)
(*                                                                         *)
(* Of the tasks one runs at a time here: the register refresh, the poll of *)
(* a PLC or task_millis_.  The scheduler's cycle is only seen through      *)
(* `tasks` (module Scheduler shows that stop ends).                        *)
(***************************************************************************)
EXTENDS Naturals, FiniteSets

CONSTANT Server   \* threads of the OPC UA server that may be there at a time

Mutex == {"scheduler_mux", "regmap_mux", "uaDataMux", "uaSrvMux", "muxClient"}
Frame == {"main", "signal"}

\* What a frame is doing: init_all, the loop, deinit_all and the end.
InitLabel == {"cfg", "opcinit", "vars", "vars2", "tasks", "tasks2", "mbtasks",
              "mbtasks2", "tstart", "opcstart", "netstart", "client"}
LoopLabel == {"loop", "connect", "request", "failed", "refresh", "refresh2",
              "srvop", "srvop2", "show", "show2", "sum", "sum2", "key"}
Label == InitLabel \cup LoopLabel \cup
  {"off", "D.tasks", "D.lock", "D.clear", "D.regs", "D.flag", "D.data", "D.srv",
   "D.free", "D.net", "D.mb", "X.tasks", "X.client", "exited", "crashed"}

\* What a mutex holds besides: it is not there, is free, or a task has it.
NoThread == {"null", "free", "task"}

ASSUME ServerAssumption ==
  /\ IsFiniteSet(Server) /\ Server # {}
  /\ Server \cap (NoThread \cup Frame) = {}

VARIABLES
  pc,        \* what "main" and "signal" are doing
  exiting,   \* main has taken 'Q', or a configuration has failed
  mux,       \* who holds each mutex; "null" where there is none
  tasks,     \* Task: "none", "listed" by add_task or "run"
  task,      \* the task that runs: what it is at, or "idle"
  plcs,      \* PLCvec is filled,
  regs,      \* ... and so is REGmap
  uaServer,  \* there is a server object
  uaRunning,
  srv,       \* the server threads
  stale,     \* those started for a server that has been deleted
  netNew,    \* a REST thread has been started and does not listen yet
  netUp,     \* ... one listens
  uaClient,  \* the client: "null", "new" or "open"
  connected, \* scConnect is GOOD
  \* history
  early,     \* a server was told to stop before its thread had run
  used       \* something was used that is gone or somebody else's

ghost  == <<early, used>>
server == <<uaServer, uaRunning, srv, stale>>
client == <<uaClient, connected>>
net    == <<netNew, netUp>>
others == <<tasks, task, plcs, regs, exiting>>
vars   == <<pc, mux, server, client, net, others, ghost>>

Init ==
  /\ pc = [f \in Frame |-> IF f = "main" THEN "cfg" ELSE "off"]
  /\ exiting = FALSE
  /\ mux = [m \in Mutex |-> IF m \in {"scheduler_mux", "regmap_mux"} THEN "free"
                                                                    ELSE "null"]
  /\ tasks = "none" /\ task = "idle" /\ plcs = FALSE /\ regs = FALSE
  /\ uaServer = FALSE /\ uaRunning = TRUE
  /\ srv = [k \in Server |-> "none"] /\ stale = {}
  /\ netNew = FALSE /\ netUp = FALSE
  /\ uaClient = "null" /\ connected = FALSE
  /\ early = FALSE /\ used = FALSE

-----------------------------------------------------------------------------
(* The main thread: a frame that runs, and its steps from label to label.  *)

Over == pc.main = "exited" \/ pc.signal = "exited" \/ pc.main = "crashed"

At(f, label) ==
  /\ ~Over
  /\ f = "main" => pc.signal = "off"
  /\ pc[f] = label

Goto(f, label) == pc' = [pc EXCEPT ![f] = label]

Lock(m, who)   == mux[m] = "free" /\ mux' = [mux EXCEPT ![m] = who]
Unlock(m)      == mux' = [mux EXCEPT ![m] = "free"]

\* mutex.lock, and mutex.unlock, on the way from one label to the next.
Locking(f, m, from, to) ==
  /\ At(f, from) /\ Lock(m, f) /\ Goto(f, to)
  /\ UNCHANGED <<server, client, net, others, ghost>>
Unlocking(f, m, from, to) ==
  /\ At(f, from) /\ Unlock(m) /\ Goto(f, to)
  /\ UNCHANGED <<server, client, net, others, ghost>>

-----------------------------------------------------------------------------
(* init_all.                                                               *)

\* cfg_master; init_all exits when it fails.
Configure(ok) ==
  /\ At("main", "cfg")
  /\ plcs' = ok /\ regs' = ok
  /\ IF ok THEN Goto("main", "opcinit") /\ UNCHANGED exiting
           ELSE Goto("main", "X.tasks") /\ exiting' = TRUE
  /\ UNCHANGED <<mux, server, client, net, tasks, task, ghost>>

\* opc_init: OpcServer_c::init makes the mutexes and a server.
OpcInit ==
  /\ At("main", "opcinit")
  /\ mux' = [mux EXCEPT !["uaSrvMux"] = "free", !["uaDataMux"] = "free"]
  /\ uaServer' = TRUE
  /\ Goto("main", "vars")
  /\ UNCHANGED <<uaRunning, srv, stale, client, net, others, ghost>>

\* opc_regs_init: AddVar ends in WriteNumber, which locks; once stands for
\* every variable.
OpcRegsInit ==
  \/ Locking("main", "uaDataMux", "vars", "vars2")
  \/ Unlocking("main", "uaDataMux", "vars2", "tasks")

\* tasks_init: add_task; once stands for every task of the program itself ...
TasksInit ==
  \/ Locking("main", "scheduler_mux", "tasks", "tasks2")
  \/ /\ At("main", "tasks2") /\ Unlock("scheduler_mux") /\ Goto("main", "mbtasks")
     /\ tasks' = "listed"
     /\ UNCHANGED <<server, client, net, task, plcs, regs, exiting, ghost>>

\* ... and once for those of the PLCs.
MbAddRefreshTasks ==
  \/ Locking("main", "scheduler_mux", "mbtasks", "mbtasks2")
  \/ Unlocking("main", "scheduler_mux", "mbtasks2", "tstart")

TasksStartMutant ==
  /\ At("main", "tstart") /\ Goto("main", "opcstart")
  /\ UNCHANGED <<mux, server, client, net, others, ghost>>

TasksStart ==
  /\ At("main", "tstart") /\ Goto("main", "opcstart")
  /\ tasks' = "run"
  /\ UNCHANGED <<mux, server, client, net, task, plcs, regs, exiting, ghost>>

\* opc_start detaches a thread.
OpcStart(k) ==
  /\ At("main", "opcstart") /\ Goto("main", "netstart")
  /\ srv[k] = "none"
  /\ srv' = [srv EXCEPT ![k] = "new"]
  /\ UNCHANGED <<mux, uaServer, uaRunning, stale, client, net, others, ghost>>

\* netsvc_start detaches one; after the first init_all comes OPCclient.init.
NetStart ==
  /\ At("main", "netstart")
  /\ netNew' = TRUE
  /\ Goto("main", IF mux["muxClient"] = "null" THEN "client" ELSE "loop")
  /\ UNCHANGED <<mux, server, client, netUp, others, ghost>>

ClientInit ==
  /\ At("main", "client") /\ Goto("main", "loop")
  /\ mux' = [mux EXCEPT !["muxClient"] = "free"]
  /\ uaClient' = "new"
  /\ UNCHANGED <<connected, server, net, others, ghost>>

-----------------------------------------------------------------------------
(* The main loop.                                                          *)

\* The program's own server would answer a client now.
Answers == uaServer /\ \E k \in Server : srv[k] = "run"

\* _connect, the first step of every request of the client: it connects only
\* until it has once succeeded.
Connect ==
  /\ At("main", "connect")
  /\ \/ connected /\ Goto("main", "request") /\ UNCHANGED client
     \/ ~connected /\ Answers /\ Goto("main", "request")
        /\ uaClient' = "open" /\ connected' = TRUE
     \/ ~connected /\ Goto("main", "failed")
        /\ uaClient' = "null" /\ UNCHANGED connected
  /\ UNCHANGED <<mux, server, net, others, ghost>>

\* The request itself, which the server answers or fails to.  opc_client_
\* makes several requests, of which one is enough here.
Request(ok, next) ==
  /\ At("main", "request")
  /\ ok => Answers
  /\ used' = (used \/ uaClient = "null")
  /\ Unlock("muxClient")
  /\ Goto("main", next)
  /\ UNCHANGED <<server, client, net, others, early>>

Read       == \E ok \in BOOLEAN : Request(ok, "srvop")
ReadNumber == Read
get_uatype == Read
Write      == Request(FALSE, "srvop") \/ Request(TRUE, "refresh")

\* After a write that went well.
RefreshAllValues ==
  \/ Locking("main", "uaDataMux", "refresh", "refresh2")
  \/ Unlocking("main", "uaDataMux", "refresh2", "srvop")

OpcClient ==
  \/ Locking("main", "muxClient", "loop", "connect")
  \/ Connect
  \/ Read \/ ReadNumber \/ get_uatype \/ Write
  \/ Unlocking("main", "muxClient", "failed", "srvop")
  \/ RefreshAllValues

\* opc_server_ reads and writes variables.
OpcServer ==
  \/ Locking("main", "uaDataMux", "srvop", "srvop2")
  \/ Unlocking("main", "uaDataMux", "srvop2", "show")

\* regs_update; when 'R' has hidden the registers it takes no mutex.
Show ==
  \/ Locking("main", "regmap_mux", "show", "show2")
  \/ /\ At("main", "show") /\ Goto("main", "sum")
     /\ UNCHANGED <<mux, server, client, net, others, ghost>>
  \/ Unlocking("main", "regmap_mux", "show2", "sum")

\* mb_print_summary writes the status of every PLC.
MbPrintSummary ==
  \/ Locking("main", "uaDataMux", "sum", "sum2")
  \/ Unlocking("main", "uaDataMux", "sum2", "key")

\* parse_char: 'Q', 'C', or a key (or none) that changes how things look and
\* how long pauses are.  'C' waits for a free thread here: a bound.
Key(ch) ==
  /\ At("main", "key")
  /\ Goto("main", IF ch \in {"Q", "C"} THEN "D.tasks" ELSE "loop")
  /\ ch = "C" => \E k \in Server : srv[k] = "none"
  /\ exiting' = (ch = "Q")
  /\ UNCHANGED <<mux, server, client, net, tasks, task, plcs, regs, ghost>>

-----------------------------------------------------------------------------
(* deinit_all, in whichever frame f calls it.                              *)

\* Task.stop: no cycle will start a task any more, and when all task mutexes
\* have been had no task is running.
TaskStop(f) ==
  \/ /\ At(f, "D.tasks") /\ Goto(f, "D.lock")
     /\ tasks' = "listed"
     /\ UNCHANGED <<mux, server, client, net, task, plcs, regs, exiting, ghost>>
  \/ Locking(f, "scheduler_mux", "D.lock", "D.clear")
  \/ /\ At(f, "D.clear") /\ task = "idle" /\ Goto(f, "D.regs")
     /\ tasks' = "none"
     /\ Unlock("scheduler_mux")
     /\ UNCHANGED <<server, client, net, task, plcs, regs, exiting, ghost>>

\* regs_deinit.
RegsDeinit(f) ==
  /\ At(f, "D.regs") /\ Goto(f, "D.flag")
  /\ regs' = FALSE
  /\ used' = (used \/ task # "idle")
  /\ UNCHANGED <<mux, server, client, net, tasks, task, plcs, exiting, early>>

\* OpcServer_c::stop.
StopFlag(f) ==
  /\ At(f, "D.flag") /\ Goto(f, "D.data")
  /\ uaRunning' = FALSE
  /\ early' = (early \/ \E k \in Server : srv[k] = "new")
  /\ UNCHANGED <<mux, uaServer, srv, stale, client, net, others, used>>

NoMutex(f, m, from, to) ==
  /\ At(f, from) /\ mux[m] = "null" /\ Goto(f, to)
  /\ UNCHANGED <<mux, server, client, net, others, ghost>>

StopLocksMutant(f) ==
  \/ Locking(f, "uaDataMux", "D.data", "D.free")
  \/ NoMutex(f, "uaDataMux", "D.data", "D.free")

StopLocks(f) ==
  \/ Locking(f, "uaDataMux", "D.data", "D.srv")
  \/ NoMutex(f, "uaDataMux", "D.data", "D.srv")
  \/ Locking(f, "uaSrvMux", "D.srv", "D.free")
  \/ NoMutex(f, "uaSrvMux", "D.srv", "D.free")

\* The server and the mutexes are deleted: nobody may be waiting for them.
StopFrees(f) ==
  /\ At(f, "D.free") /\ Goto(f, "D.net")
  /\ uaServer' = FALSE /\ stale' = {k \in Server : srv[k] # "none"}
  /\ used' = (used \/ \E k \in Server : srv[k] \in {"wait", "run"})
  /\ mux' = [mux EXCEPT !["uaDataMux"] = "null", !["uaSrvMux"] = "null"]
  /\ UNCHANGED <<uaRunning, srv, client, net, others, early>>

\* netsvc_deinit (a server that does not listen yet is not stopped).
NetsvcDeinit(f) ==
  /\ At(f, "D.net") /\ Goto(f, "D.mb")
  /\ netUp' = FALSE
  /\ UNCHANGED <<mux, server, client, netNew, others, ghost>>

\* mb_deinit and Console::restore; then back to reinit, or to exit.
MbDeinit(f) ==
  /\ At(f, "D.mb")
  /\ plcs' = FALSE
  /\ used' = (used \/ task # "idle")
  /\ Goto(f, IF f = "signal" \/ exiting THEN "X.tasks" ELSE "cfg")
  /\ UNCHANGED <<mux, server, client, net, tasks, task, regs, exiting, early>>

DeinitAll(f) ==
  \/ TaskStop(f) \/ RegsDeinit(f)
  \/ StopFlag(f) \/ StopLocks(f) \/ StopFrees(f)
  \/ NetsvcDeinit(f) \/ MbDeinit(f)

\* exit: the destructors of Task, which calls stop, of OPCs, which has no
\* mutex any more, and of OPCclient.
Exit(f) ==
  \/ /\ At(f, "X.tasks") /\ mux["scheduler_mux"] = "free" /\ task = "idle"
     /\ Goto(f, "X.client")
     /\ UNCHANGED <<mux, server, client, net, others, ghost>>
  \/ /\ At(f, "X.client") /\ Goto(f, "exited")
     /\ uaClient # "null" => mux["muxClient"] = "free"
     /\ UNCHANGED <<mux, server, client, net, others, ghost>>

-----------------------------------------------------------------------------
(* Ctrl-C: close_sigint.  A second one finds exit_now set.                 *)

Sigint ==
  /\ ~Over /\ pc.signal = "off"
  /\ Goto("signal", "D.tasks")
  /\ UNCHANGED <<mux, server, client, net, others, ghost>>

-----------------------------------------------------------------------------
(* The other threads.                                                      *)

\* OpcServer_c::run, entered with the mutex that is there at the moment.
RunBegins(k) ==
  /\ ~Over /\ srv[k] = "new"
  /\ \/ /\ mux["uaSrvMux"] = "null" /\ Goto("main", "crashed")
        /\ used' = TRUE /\ UNCHANGED <<srv, mux, uaRunning>>
     \/ /\ Lock("uaSrvMux", k) /\ uaRunning' = TRUE
        /\ srv' = [srv EXCEPT ![k] = "run"]
        /\ used' = (used \/ k \in stale) /\ UNCHANGED pc
     \/ /\ mux["uaSrvMux"] \notin {"null", "free"}
        /\ srv' = [srv EXCEPT ![k] = "wait"]
        /\ UNCHANGED <<pc, mux, uaRunning, used>>
  /\ UNCHANGED <<uaServer, stale, client, net, others, early>>

RunLocks(k) ==
  /\ ~Over /\ srv[k] = "wait"
  /\ Lock("uaSrvMux", k) /\ uaRunning' = TRUE
  /\ srv' = [srv EXCEPT ![k] = "run"]
  /\ used' = (used \/ k \in stale)
  /\ UNCHANGED <<pc, uaServer, stale, client, net, others, early>>

\* UA_Server_run returns.
RunEndsMutant(k) ==
  /\ ~Over /\ srv[k] = "run" /\ ~uaRunning
  /\ srv' = [srv EXCEPT ![k] = "none"] /\ stale' = stale \ {k}
  /\ UNCHANGED <<pc, mux, uaServer, uaRunning, client, net, others, ghost>>

RunEnds(k) ==
  /\ ~Over /\ srv[k] = "run" /\ ~uaRunning
  /\ srv' = [srv EXCEPT ![k] = "none"] /\ stale' = stale \ {k}
  /\ IF mux["uaSrvMux"] = k THEN Unlock("uaSrvMux") ELSE UNCHANGED mux
  /\ UNCHANGED <<pc, uaServer, uaRunning, client, net, others, ghost>>

OpcRun(k) == RunBegins(k) \/ RunLocks(k) \/ RunEnds(k)

\* netsvc_run_thread: listen.
Listen ==
  /\ ~Over /\ netNew
  /\ netNew' = FALSE /\ netUp' = TRUE
  /\ UNCHANGED <<pc, mux, server, client, others, ghost>>

\* A task at work: the mutexes it takes or gives back, and what it uses.
Tasking(from, to, useof) ==
  /\ ~Over /\ task = from /\ task' = to
  /\ from = "idle" => tasks = "run"
  /\ used' = (used \/ ~useof)
  /\ UNCHANGED <<pc, server, client, net, tasks, plcs, regs, exiting, early>>

\* task_regs_refresh_: regmap_mux for all of it, uaDataMux for every write.
RefreshBegins == Tasking("idle", "regs", regs) /\ Lock("regmap_mux", "task")
RefreshWrites == Tasking("regs", "data", regs /\ plcs /\ uaServer)
                 /\ Lock("uaDataMux", "task")
RefreshEnds   == Tasking("data", "idle", regs /\ uaServer)
                 /\ mux' = [mux EXCEPT !["uaDataMux"] = "free",
                                       !["regmap_mux"] = "free"]

\* task_millis_ goes through REGmap without a lock.
MillisWrites == Tasking("idle", "millis", regs /\ uaServer) /\ Lock("uaDataMux", "task")
MillisEnds   == Tasking("millis", "idle", regs /\ uaServer) /\ Unlock("uaDataMux")

\* task_plc_refresh_: update_master.
PlcBegins == Tasking("idle", "plc", plcs) /\ UNCHANGED mux
PlcEnds   == Tasking("plc", "idle", plcs) /\ UNCHANGED mux

TaskBegins == RefreshBegins \/ MillisWrites \/ PlcBegins
TaskGoesOn == RefreshWrites \/ RefreshEnds \/ MillisEnds \/ PlcEnds

-----------------------------------------------------------------------------
Main ==
  \/ \E ok \in BOOLEAN : Configure(ok)
  \/ OpcInit \/ OpcRegsInit \/ TasksInit \/ MbAddRefreshTasks \/ TasksStart
  \/ \E k \in Server : OpcStart(k)
  \/ NetStart \/ ClientInit
  \/ OpcClient \/ OpcServer \/ Show \/ MbPrintSummary
  \/ \E ch \in {"Q", "C", "any"} : Key(ch)

Next ==
  \/ Main \/ \E f \in Frame : DeinitAll(f) \/ Exit(f)
  \/ Sigint
  \/ \E k \in Server : OpcRun(k)
  \/ Listen \/ TaskBegins \/ TaskGoesOn

\* Every thread that can go on does, and locks are granted in the end.
Fairness ==
  /\ SF_vars(Main \/ \E f \in Frame : DeinitAll(f) \/ Exit(f))
  /\ \A k \in Server : SF_vars(OpcRun(k))
  /\ WF_vars(Listen) /\ SF_vars(TaskGoesOn)

Spec == Init /\ [][Next]_vars /\ Fairness

-----------------------------------------------------------------------------
(* Properties.                                                             *)

\* Types.
TypeOK ==
  /\ pc \in [Frame -> Label]
  /\ mux \in [Mutex -> NoThread \cup Frame \cup Server]
  /\ tasks \in {"none", "listed", "run"} /\ task \in {"idle", "regs", "data", "millis", "plc"}
  /\ exiting \in BOOLEAN /\ plcs \in BOOLEAN /\ regs \in BOOLEAN
  /\ uaServer \in BOOLEAN /\ uaRunning \in BOOLEAN
  /\ srv \in [Server -> {"none", "new", "wait", "run"}]
  /\ stale \subseteq Server
  /\ netNew \in BOOLEAN /\ netUp \in BOOLEAN
  /\ uaClient \in {"null", "new", "open"} /\ connected \in BOOLEAN
  /\ early \in BOOLEAN /\ used \in BOOLEAN

\* Whatever is taken down, and in whichever frame, nobody still uses it: no
\* task PLCs, a register map or a server that are gone, no client request a client
\* that is gone, no server thread another server or a mutex that is deleted
\* -- unless the server was stopped before its thread had run (deinit_all,
\* OpcServer_c::run and stop, _connect).
NothingUsedAfterFree == used => early

\* 'Q', Ctrl-C and a bad configuration end the process, unless the signal
\* found the main thread holding a mutex, or a server's thread not yet run.
Leaving == exiting \/ pc.signal # "off"
Caught  == pc.signal # "off" /\ \E m \in Mutex : mux[m] = "main"
LeavingEnds == Leaving ~> (Over \/ Caught \/ early)

\* After 'C', and at the start, the program comes back to serving OPC UA and
\* REST, with its tasks running, for as long as it is left alone.
InLoop == pc.signal = "off" /\ pc.main \in LoopLabel
Serving == Answers /\ netUp /\ tasks = "run" /\ regs /\ plcs
ComesUp ==
  /\ (pc.main = "cfg") ~> (InLoop \/ Leaving \/ early)
  /\ <>[](InLoop /\ ~early) => <>[]Serving

=============================================================================
