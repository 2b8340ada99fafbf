# A TLA+ verification of rw-modbus

rw-modbus polls Modbus/TCP devices (PLCs), publishes their registers as OPC UA
variables, sends what OPC clients write back to the devices, and runs a small
SCADA program (a still) on top of the same variables.  This directory holds
TLA+ models of its concurrent core, the TLC configurations that check them and
TLAPS proofs of the properties that matter most.

## 1. The system

One process, many threads:

    main thread ......... init_all, the console loop, reinit/deinit_all
    SIGINT handler ...... deinit_all, on top of whatever the thread was doing
    scheduler cycle ..... launches a detached thread for every task that is due
      Modbus:<plc> ...... ModbusPLC_c::refresh_master, one task per PLC
      OPC:Refresh_ ...... OpcServer_c::RefreshAllValues
      REGS:Refresh_ ..... task_regs_refresh_
      Scada_, Millis_ ... task_scada_, task_millis_
    OPC UA server ....... UA_Server_run, serves the clients
    REST server ......... serves the JSON dump

Data flows  device <-> mbreg_t <-> Reg_c (REGmap) <-> ua_var_t <-> OPC node <->
client.  Each arrow is a separate copy made by a separate thread at its own
pace, most without a common lock; that is where the hard behaviour is.

| Component | State | Operations | Hard behaviour | What makes it correct |
|---|---|---|---|---|
| Modbus master, `libs/mb_plc` | `ctx`, `rc`, `att`, `mb.errors`, `mb.status`; per register `rvalue`, `rupdate`, `rerrors` | `update_master` = `read_master` + `write_master`, `mb_connect`, `set_reg` | link comes and goes, retries, plain stores shared by the polling and the refresh thread, 16-bit counters | no exchange without a connection, a failed connection is renewed, a failure shows on every register, a command is kept until written |
| Scheduler, `libs/scheduler` | vector of tasks, `scheduler_mux`, per task `task_mux`, `taskRunning` | `init`, `add_task`, `start`, `stop`, cycle, `Task_c::run` | detached threads, reconfiguration while they run | a task never runs twice at once, tasks are not destroyed under their threads, `stop` ends, every task runs |
| Register refresh, `reg_func.cpp`, with `libs/reg` | `REGmap`: `Number.value`, `var_errors` | `task_regs_refresh_`, `get_plc_value`, `set_plc_value` | three looks at the error and one at the value of a register another thread changes | a failed reading is not shown as good, commands get through, only clients command |
| OPC server wrapper, `libs/opc_server` | `vars`: `raw_value`, `ua_status`; the server's nodes; `uaRunning`, two mutexes | `AddVar`, `WriteRawUnion`, `ReadRawUnion`, `RefreshAllValues`, `run`, `stop` | clients write at any time, the copy is older than the node, 8-byte copies of smaller values | copy, node and entry agree in the end |
| SCADA, `scada/` | `Process`, `Mode`, temperatures, static powers | `task_scada_` | results are published and read back, stale temperatures, 16-bit arithmetic | power follows the stage and stays in its limits |
| Register layer, `libs/reg`, `libs/number` | table of types; per entry `ptr_data_plc`, `Number` | `get_plc_value`, `set_plc_value`, `set_local_value`, `pull_plc_value32/64` | numbers of several registers read word by word while an answer is copied; four byte orders, two scalings | a number never mixes two answers, its words are in the order the type is named for, a command reads back |
| Configuration, `cfg_*.cpp`, `reg_main.cpp`, `opc_regs_init` | `PLCvec`, `REGmap`, the server's variables | `cfg_master`, `cfg_init_plcset`, `cfg_init_scadaset`, `regs_create_from_plc`, ... | pointers into a vector that may move, references that may lead nowhere, a second file after the first | every entry points at the registers the file names, nothing of an earlier file is left |
| Lifecycle, `main.cpp`, `all_func.cpp`, with the OPC client and the REST thread | what exists, who holds which mutex | `init_all`, the main loop, `reinit`, `deinit_all`, the SIGINT handler | a signal on top of the main thread, detached threads that have not run yet | nothing is used after it is destroyed, leaving ends, reconfiguration comes back to serving |
| Modbus slave | sockets, `lock_mux` | `check_slave`, `handle_slave` | error returns with a lock held | the lock is released (not instantiated today) |
| Console, logger, settings, timer | | | | I/O |

`PROJECT.json` lists every component with its status and every hazard with its
line and the properties that cover it.

## 2. Modules

| Module | Models | Runs |
|---|---|---|
| `MbMaster` | the Modbus master: polling thread, setter, link and device | `mb`, `mb_lost_command`, `mb_errors_wrap` |
| `Mirror` | what the master promises: a copy that follows the device, commands handed over at least once | (a property of `mb`) |
| `MbMasterProofs` | theorems of `MbMaster`, among them that it implements `Mirror` | |
| `Scheduler` | the scheduler, its cycle threads, task threads and `stop` | `sched`, `sched_doubled` |
| `SchedulerProofs` | theorems of `Scheduler` | |
| `RegSync` | the refresh task between driver and OPC server | `regsync_live`, `regsync_unasked` |
| `MCRegSync` | `RegSync` with the symmetry of the values | `regsync_safety` |
| `RegSyncProofs` | theorems of `RegSync` | |
| `RegTypes` | the table of types, byte orders, conversions, `Number_c` (operators only) | (extended by `Config`) |
| `Config` | from a configuration file to PLCs, entries and OPC variables, and back | (extended by `Registers`) |
| `Registers` | the loaded program polling, reading and commanding entries of several words | |
| `MCRegisters` | `Registers` with nineteen configuration files | `registers` |
| `RegistersProofs` | theorems of `RegTypes`, for any words; the types of `Config` and `Registers`, and what a running program leaves of PLCs and entries | |
| `LoadProofs` | theorems of loading, on top of `RegistersProofs` | |
| `ReadingProofs` | theorems of readings and commands in the loaded program, on top of `LoadProofs` | |
| `Lifecycle` | the process from `init_all` to `exit`, with its threads, mutexes and the signal | `lifecycle` |
| `LifecycleProofs` | theorems of `Lifecycle` | |
| `Scada` | the SCADA task against the operators | |
| `MCScada` | `Scada` with few sensors and one setting | `scada_round`, `scada_def` |
| `ScadaProofs` | theorems of `Scada` | |

How they fit together: each module takes one boundary of the system and keeps
of its neighbours what they do to it.  `MbMaster` has the two writers of a
register; `RegSync` sees that register change at any time and has the other
end, the OPC variable; `Registers` composes the configuration (`Config`), the
types (`RegTypes`), a driver reduced to its copying and the refresh task, over
several registers at once; `Scada` writes variables that `RegSync` allows any
task to write (`Driven`); `Lifecycle` starts and stops all of them and keeps of
each only the mutexes it takes and what it uses.

### MbMaster

State: `up`, `dev` are the link and the device's registers; `ctx`, `errors`,
`status`, `rc`, `att`, `rcWrite` are the members and locals of the same names
(`ctx` only as null or open); `rvalue`, `rupdate`, `rerrors` are the fields of
`mbreg_t::data`, one per register; `pc`, `phase`, `cur`, `buf` are where the
polling thread is; `spc`, `scmd` where `set_reg` is.  The other variables are
history (`due`: the command not yet written; `raced`, `served`, `wrapped`,
`dirty`, `polled`).

`Mirror` has three variables a user of the driver could name, the local copy,
the device and the request to write, and two of bookkeeping; the refinement maps
them to `rvalue`, `dev`, `rupdate`, `due` and `raced`.  A reading replaces the
copy only where no command waits, only the copy is ever sent and only on
request, and a request ends only when its command was sent -- unless setter and
poller have met over it (`raced`), which is what the finding on lost commands is
about.

| Action | Code |
|---|---|
| `BeginPoll` | `update_master` to the loop of `read_master` |
| `ConnectOk`, `ConnectFails`, `ConnectReuses` | the `mb_connect` of both retry loops |
| `ReadOk`, `ReadFails` | the exchange of `read_allregs` |
| `CopyTest`, `CopyStore`, `CopyDone` | its copy loop, test and store apart |
| `ReadMasterEnds` | the error loop and the return of `read_master` |
| `ScanReg` | `write_master`'s test of `rupdate` |
| `WriteOk`, `WriteFails`, `WriteAcked`, `WriteRegEnds` | `write_reg`, the exchange and what follows it apart |
| `WriteMasterEnds` | the return of `write_master` and `update_master` |
| `SetRegBegins`, `SetRegEnds` | the two stores of `set_reg` |
| `Link`, `DeviceChanges` | environment |

Steps are cut where another thread can act between two accesses to shared
state.  `set_reg`'s test and first store are one step (only the copy loop can
fall between, and the store then overwrites it); the loop that sets `rerrors`
is one step (the refresh task's looks are in `RegSync`).  gcc emits `set_reg`'s
two stores in program order on x86-64, which is the order modelled.
`Attempts > 0` is assumed: see the hazard on `Enabled`.

### Scheduler

State: `isRunning`, `size` (of the vector of tasks), `smux` and `mux[t]` (who
holds `scheduler_mux` and each `task_mux`), `mpc`, `mi` (the main thread),
`cpc[c]`, `ci[c]`, `cn[c]` (each cycle thread), `due[t]`, `taskRunning[t]`, and
`thr[t][stage]`, the number of threads of task `t` at each stage of
`Task_c::run` (threads of one task are alike).  History: `late`, `doubled`,
`overtaken`, `used`.  `StopCalled .. Clear`, `AddBegins`, `AddEnds` and `Start`
are the main thread's steps in `init`, `add_task`, `start` and `stop`;
`Cycle...` those of `scheduler_cycle_`; `Task...` those of `Task_c::run`;
`Elapse` is time.  When a thread uses a destroyed task nothing is known any
more: the model stops there (`Undefined`), with `used` set.

### RegSync

One register of one word, shown by `NVar` entries of REGmap (its own, and those
that refer to it).  `rvalue`, `rupdate`, `rerrors` are the driver's register,
reduced to what the task can see: readings, acknowledged writes and failures
arrive at any time (`PollReads`, `PollWrites`, `PollFails`).  `node`,
`nodeGood` are the value and status a client sees; `raw`, `uaGood` the
wrapper's `raw_value` and `ua_status`; `number`, `varErrors` the entry.
`Begin`, `LookAtErrors`, `LookAtValue`, `LookAgain`, `Publish` or `NoNews`,
`Executes` or `Passes` are the body of the loop of `task_regs_refresh_` in its
order, one step per look at the register or access to the server.
`TaskWrites` is a task of the process that writes a variable with `WriteValue`:
the SCADA task does so with `Pset`, which shows a register of a PLC, and
`task_millis_` with the `.millis` registers; the entries concerned are `Driven`.
`RefreshValue(x)` is one turn of `RefreshAllValues`: the sweep holds
`uaDataMux`, but its turns concern different variables and commute with
everything that mutex does not exclude, so taking them one by one adds no
behaviour that matters.

Values are compared as unions of 64 bits, and `WriteNumber` reads 8 bytes from
a parameter of 2 (undefined behaviour; gcc leaves what lies on the stack).
`rawJunk`, `numJunk`, `opcJunk`, `oldJunk` say that a copy has junk in its upper
bytes; every variable may start with it.  A copy refreshed from the server is
clean, since open62541 allocates it with `calloc`.

`Bad` is `bad_value`; a device is assumed never to read exactly that.

### RegTypes, Config, Registers

`RegTypes` translates `regprop_map`, `pull_plc_value32/64`, the conversions of
`get_plc_value` and the part of `Number_c` that registers use.  A word is known
by where it came from and whether its bytes were exchanged, so orders are
compared exactly and no arithmetic on 64 bits is needed; a scaled number is
"F10 of that word".  `Layout` is the reference: the order of words that the
names of the types (`be`, `bs`, `le`, `ls`) stand for in `reg_datatype.h`.

`Config`: `file` is what libconfig makes of the files, `pc`, `at`, `nth` say
where the loader is.  A pointer to a register is <buffer, PLC, address>:
`buffer` counts how often `PLCvec` has moved, so that a pointer into a buffer it
has left can be told (`Exists`).  `REGmap` maps full names to entries, `opcvars`
paths to types or "folder".

| Action | Code |
|---|---|
| `ReadFile`, `SkipPlc`, `AddPlc` | `cfg_master`, `cfg_init_plcset`, `cfg_init_plcregs`, `init_regs` and the vector's `reserve` and growth |
| `CreateEntries` | `regs_create_from_plc`; `fault` "late" is a lookup that throws behind it |
| `NextSet`, `SkipVar`, `AddVar`, `ScadaDone` | `cfg_init_scadaset`, `cfg_init_scadavars` and the constructor for SCADA variables, which follows `r_next` |
| `OpcRegsInit` | `opc_regs_init`, `add_VarName` and the folders |
| `RegsDeinit`, `OpcDeinit`, `MbDeinit` | what `deinit_all` undoes |

`Registers`: `dev` is the device, `poll` the polling thread of the first PLC,
`task` the refresh task with the entry it is at and the words it has, `JSON_reg`
the REST server's page (path to type of the number shown).  `cmd` and `shown`
are history.

| Action | Code |
|---|---|
| `Start`, `Stop` | `tasks_start`; the stop of the tasks |
| `PollAnswered`, `PollFails`, `CopyReg`, `CopyEnds` | `read_allregs` and `read_master`, one register per step |
| `WriteReg`, `WriteEnds` | `write_master` |
| `ReadBegins`, `ReadWord`, `ReadEnds` | `get_plc_value` with `get_plc_reg`, one word per step, and `json_update` |
| `WriteBegins`, `WriteWord`, `WriteDone` | `set_plc_value` with `set_plc_reg` and `set_reg`, then `set_local_value` and `json_update` |
| `TakeOpc` | the branch of `task_regs_refresh_` for entries that are only variables |

When the task reads and when it commands is `RegSync`'s matter, so here it may
do either at any time.  A write to a register is one step (its races are
`MbMaster`'s).  `var_errors` and the three looks at the error are `RegSync`'s
too: a reading that met an error, or was under way while an answer was copied
(`torn`), is excepted from what is said of undisturbed readings (`Calm`).

### Lifecycle

`pc` has a place for the main thread and one for the SIGINT handler, which runs
on top of it: the main thread moves only while the handler is off.  `mux` says
who holds each of the five mutexes, or that it does not exist.  `tasks` is the
scheduler (`Scheduler` has its inside), `task` the task that runs, `plcs`,
`regs`, `uaServer`, `uaClient`, `netNew`, `netUp` what exists, `srv` the server
threads; two of them, so that an old one can still be there when the next is
started.  History: `early`, `used`, `stale`.

| Action | Code |
|---|---|
| `Configure` .. `NetStart`, `ClientInit` | `init_all` in its order, and the client's `init` after it |
| `OpcClient` (`Connect`, `Read`, `ReadNumber`, `get_uatype`, `Write`, `RefreshAllValues`), `OpcServer`, `Show`, `MbPrintSummary`, `Key` | one turn of the main loop |
| `TaskStop`, `RegsDeinit`, `StopFlag`, `StopLocks`, `StopFrees`, `NetsvcDeinit`, `MbDeinit` | `deinit_all`, in either frame |
| `Exit`, `Sigint` | the destructors at exit; `close_sigint` |
| `RunBegins`, `RunLocks`, `RunEnds` | `OpcServer_c::run` in its detached thread |
| `Listen` | the REST thread |
| `RefreshBegins`, `RefreshWrites`, `RefreshEnds`, `MillisWrites`, `MillisEnds`, `PlcBegins`, `PlcEnds` | the tasks, by the mutexes they take and what they use |

A loop that takes and releases a mutex for each of many things is one turn of
it (`OpcRegsInit`, `TasksInit`, `MbPrintSummary`), and a turn of the main loop
makes one client request.  One task runs at a time: they share nothing here but
the mutexes and what is taken down under them.  The signal comes to the main
thread; what a handler may call at all (`printf`, `malloc`) is outside the model.
'C' waits for a free thread of `Server`, which bounds how many old ones there are.

### Scada

State: the OPC variables the program reads (`set`: P_MAX, P_WARM, ..., T_boil
and T_heat; `process`, `mode`, `pshift`) and writes (`pub`, `pset`, `mode`,
`alarm`); its globals and statics (`temp`, `process0`, `mode0`, `modDist`); `pc`,
`pos`, `shift`, `seen` are where the task is and what it has read.  History:
`more`, `raised`, `mixed`, `touched`.

| Action | Code |
|---|---|
| `ReadProcess`, `ReadMode` | `UpdateProcess` |
| `ReadTempGood`, `ReadTempBad`, `AddAlarm` | one sensor of `UpdateTemps`; the two halves of `AddAlarm` apart |
| `ReadShift` | the head of `SetPower` |
| `P_heat`, `P_dist`, `P_rect` | the functions of these names, with `Dist1`, `Dist2`, `CheckBoil` (`Boiled`) and the arithmetic as operators |
| `SetPower` | its tail: read back, shift, write `Pset` |
| `OrderProcess`, `OrderMode`, `Tune`, `OrderShift`, `OverwritePower`, `ResetAlarm` | OPC clients |
| `OverwritePset` | clients, and the refresh task, which shows the PLC's register there |

Of P.heat, P.dist and P.rect only the one of the stage in progress is kept (the
others are never read), and of the alarms one (they influence nothing).  A stage
reads its few settings and writes `Mode` and its power in one step.  What each
round sets before it looks at it is reset at the end of the round.  `PID` and
`P.boil` are in no configuration: `ReadValue` then returns an uninitialised
variable, any member of `Garbage`.  An `int` product that overflows gives any
share.  Variables start at 888, as `cfg_init_scadavars` leaves them.  Floats are
hundredths of a degree, and T_heat is assumed to fit ten times into a word.

## 3. Runs

Bounds.  `mb` has one read-only and one writable register (the loops pass from
one register to another, and a command on one meets a failure on the other); the
two violation runs of `MbMaster` need only the writable one.  Two values are
enough to tell a command from a reading.  Two attempts give a retry that
succeeds and one that does not; the two violation runs make do with one.  The
error counter has 8 values, so that it wraps within a few polls (the properties
that a wrap would break say so), and 64 in `mb_errors_wrap`, where the wrap itself
is shown.  `sched` has two tasks, two cycle threads (a reconfiguration starts the
second before the first has gone) and, besides the thread of a task that has its
mutex, one that waits for it or is about to end (`MaxThreads`), which is enough to
launch a task twice; `sched_doubled` lets two wait.  `regsync_safety` has two entries on one register: they influence
each other only through the register, so two show every case; `regsync_live` has
one, which other tasks write, too (`Driven`; the proofs cover any number of both
kinds).  The values are interchangeable in `regsync_safety`, which uses that
symmetry; no liveness run uses symmetry.  `scada_round` has one sensor, too hot or
not readable (sensors act on the rest through pure functions only, and the proofs
cover any number), a process of each kind (888 stops), one setting besides that
of the start, a shift of -5, and an alarm counter of two values, which wraps with
every second alarm.  `scada_def` has three sensors, since it is about taking one
for another.

`registers` has nineteen files, each made for a case: six types of two words and
one, commanded; four of four words, read; one with two PLCs, one not listed, one
incomplete, and every way a variable can be refused; "all"; a reference across a
gap; three records of one name; milliseconds with their status and variables of
their own; the same names with another type; lookups that throw before and after
`PLCvec` is filled.  Three of them are also loaded after another file.  `watched`
names the entries the task reads, `device` the words a device may hold: with two
contents every mixture of two answers can be told.  One command is enough,
since its words are told from those of the device by name.  `lifecycle` has two
server threads, and no other bound.

| Run | Shows |
|---|---|
| `mb` | seven invariants of the driver in every interleaving of poll, setter, link and device; it implements `Mirror`; every poll ends; driver and device converge |
| `mb_lost_command` | **violation**: a command can be lost |
| `mb_errors_wrap` | **violation**: after a wrap of the 16-bit counter a dead device looks sound |
| `sched` | mutual exclusion, stability of the vector, when a task can be destroyed under a thread, when it is launched twice; `stop` ends, every task runs |
| `sched_doubled` | **violation**: a task still running is launched again |
| `regsync_safety` | when the stand-in of a failed reading is shown as good; errors of entry and variable agree |
| `regsync_live` | commands are forwarded; device, entry and variable converge |
| `regsync_unasked` | **violation**: at start a command nobody gave is sent |
| `registers` | no pointer dangles where names are unique; a file is taken as it is written, on the OPC server and on the REST page, also after another; only a gap crashes the loader; numbers have the order of their type and never mix two answers, unless read during a copy; which commands read back |
| `lifecycle` | nothing is used after it is freed, leaving ends, start and 'C' come to serving, but for the executions the properties name |
| `scada_round` | an order to stop works within a round, limits of the powers, count of the alarms, power settles |
| `scada_def` | **violation**: Dist1 heats up by the wrong thermometer |

Deadlock is checked but in `registers`, where the program ends when loading fails
or crashes (a null pointer), and in `lifecycle`, where it exits, and where a
handler really waits for ever for a mutex the thread under it holds.

Exceptions the properties name, each of them a behaviour of the code:
`early` -- `OpcServer_c::stop` clears `uaRunning` before the detached thread has
entered `run`, which sets it again, so that `stop` waits for ever, or the thread
locks a mutex that is deleted or the next server's; `Caught` -- Ctrl-C while the
main thread holds a mutex; `NoTwins` -- records, registers or variables of one
name or address (of sets the names "-", "." and "" are one, and a set may not be
called like a PLC); `torn` -- a reading of several words during the copy of an
answer.  The properties show that nothing else does the harm.
`CommandReadsBack` is an equivalence: for the types it does not name a command is
read back as another value, which follows from `set_plc_value` ("byte-order not
supported yet").

### What the violations mean

* *Lost command.*  `rupdate` promises that a register waiting to be written is
  not overwritten.  Test and store of the copy loop, the two stores of
  `set_reg`, and the acknowledgement of an older write are unlocked;
  `CommandKeptUnlessRaced` (checked and proved) says these three windows are the
  only ways to lose a command.
* *Counter wrap.*  65536 errors, two per failed connection, take the counter
  back to 0; the registers then look sound for a poll.  Every property that
  would break says so (`wrapped`).
* *Doubled launch.*  `taskRunning` is set by the launched thread; one slower
  than the 10 ms pause is launched again.  `Excluded` (proved) says the runs
  still never overlap, and `DoubledOnlyIfLate` (proved, too) that nothing else doubles.
* *Unasked command.*  The junk of `WriteNumber` makes the first pass take the
  start value for a client's command; if the first reading has come by then,
  777 goes to every writable register of the device.  The same property also
  fails without junk: when a client's command and a change of the PLC meet in
  one pass, the task publishes the reading, executes the command, and takes the
  published reading for a command in the next pass.
* *Wrong thermometer.*  `Tdef0` is a reference to `Tbuf`.  The comments of
  `check()` and the configuration take it for the dephlegmator's temperature,
  which no code reads.

## 4. Fairness

`MbMaster`: weak fairness of the polling thread and of the second store of
`set_reg`: the scheduler launches the task for ever, and a thread that runs is
not stopped between two instructions.  Nothing obliges link, device or operator.
`Scheduler`: weak fairness of each thread and of time; functions of tasks
return; nobody has to call `stop` or `start`.  `RegSync`: weak fairness of the
refresh task, of the OPC refresh of each variable (both are tasks of the
scheduler: `EveryTaskRuns`) and of the acknowledgement of a pending write (the
driver retries it with every poll: `Converges` of `MbMaster`).  A device that
never answers is not excluded: `CommandForwarded` allows for `rerrors`, and
`Converges` supposes an end of the errors.  `Scada`: weak fairness of the task,
which the scheduler launches again and again; operators may write for ever.
`Lifecycle`: strong fairness of the main thread with its handler, of each server
thread and of a task that has begun, weak fairness of the REST thread.  Strong
fairness says that a mutex which is free again and again is granted in the end;
without it `pthread_mutex_lock` could be passed over for ever.  Nobody has to
press a key, send a signal or answer a client, and no task has to begin.

## 5. Proofs

TLAPS proves, for every value of the constants allowed by each module's
assumption:

* `MbMasterProofs`: `TypeCorrect`, then `Inductive`, the invariant that ties the
  error counter to the connection (an open connection without errors is clean; a
  failure is counted before the next test), the flags to the acknowledgements,
  and the setter's half-done command to the register.  `TypeOK` alone is not
  enough for any of the others: that `mb_connect` skips connecting only on a
  sound connection depends on the counter, the return code and the phase at
  once.  From it `Connected`, `ConnectionRenewed`, `FlagsAreServed`,
  `FailureIsReported`, `GoodIsGenuine`, `NoPlaceholderSent`, `CommandsAreKept`.
  `Implements` is the refinement: with `WindowInv` (only writable registers are
  ever asked to be written, and a flag that is set when the copy loop is about to
  store came in between its test and its store, as a race) every step of the
  driver is one step of `Mirror` or leaves its variables alone.
* `SchedulerProofs`: `Inductive` says which thread holds each mutex at each
  place and how many threads of a task can be at each stage (one inside, any
  number waiting).  From it `TypeCorrect`, `MutualExclusion`, `ReleaseIsSafe`,
  `VectorIsStable`, `StopWaitsForRuns`.  `OnlyLateIsDoubled` needs two more
  conjuncts: whoever holds a `task_mux` is at a place where it can have taken it
  (`OwnedInv`), and as long as no thread was late a task has at most one
  unfinished run, `taskRunning` tells of it once it is marked, and the cycle comes
  only to tasks whose last launch has got as far as that (`PunctualInv`).

* `RegSyncProofs`: `Inductive` says what each look of the task still means when
  the task acts on it: the error it saw stands, or was cleared since (`flicker`);
  the entry's flag is the one it found, or was raised by an error seen since; the
  status in the server is the one it found.  From it `StandInIsMarked`
  (`BadNeverGood`) and `FlagsAgree` (`ErrorsAgree`).

* `ScadaProofs`: lemmas on the 16-bit arithmetic (`HeatLimits`, `ShiftLowers`,
  `DistTyped`, ...), `TypeCorrect`, and from them `ShiftsLower`,
  `HeatStaysInLimits`, `StopHolds` (strengthened by `Informed`: once a round has
  ended with power after the stop, the round in progress has read the stop) and
  `AlarmsRight` (strengthened by `Fresh`: what `AddAlarm` has read is the counter
  unless a reset fell in between).

* `RegistersProofs`, first part, for words of any origin and numbers of any width: what
  `Pull` puts together has the `Layout` its order is named for
  (`PulledAsNamed`) and leaves what lies behind (`PulledLeavesRest`);
  `CommandReadBack` says for which words and orders a command is read back as it
  was given, as an equivalence; `NumbersFit` and `NoMoreThanFits` that a number
  is never wider than its OPC type.  There is no state here: these are facts about
  the operators, which hold of whatever the devices and the operators send.

* `RegistersProofs`, second part: `TypeCorrect`, for any files of the schema
  (`FilesAssumption` says that records, registers and variables are sequences
  and addresses natural numbers, which is what libconfig hands over, and that the
  device has something to answer).  The
  lemmas `RunKeepsVec` and `RunKeepsEntries` say what the running program leaves
  as it is: names, modes and neighbours of registers, pointers and types of
  entries.  `LoadProofs` uses them instead of going through the running actions
  again.

* `LoadProofs`, for any sequence of files of the schema.  The invariant `Sane`
  speaks of files without twins: each PLC is what one listed record asks for and
  its registers lead to their neighbours (`Made`); what has been reserved
  suffices, because each PLC made is a record passed (`Room`), so that the
  buffer does not move once a pointer leads into it -- without this no pointer
  could be shown to stay good; no listed PLC is missing (`HasAll`); the pointers
  of an entry run through registers in a row (`Led`), an entry of a register
  through the register of its name (`Origins`).  Then `NothingDangles`
  (`PointersLead`) and, since a null pointer is met only where such a row is
  interrupted (`Gap`), `GapsOnlyCrash` (`CrashIsAGap`).  For `TakenAsWritten`
  (`TakenIsWritten`) a second layer, `Taking`: every entry is published under its
  own name and with the type of its number (`Keyed`), of what the loader has
  passed nothing is missing and nothing else is there (`Listing`), what is
  shown is announced in a folder (`Serving`) and on the page with its type
  (`Paging`).  That the names do not collide is `GivenAsShown`: what is
  given in a file and the name it is shown by determine each other.

* `ReadingProofs`, for any files, any contents of the device and any commands: the
  three action properties of the running program.  The invariant `WInv` joins the
  loader's invariants to `RInv`, which says what the three actors leave between
  them.  Of the registers (`Devices`): words have their bytes as they came,
  nothing has been read or commanded before `tasks_start`, read-only registers
  are never commanded, and outside an answer's copy they hold one answer or the
  initial words (`Whole`; `Halfway` for what has been copied of it so far).  Of
  the refresh task (`Gathered`): every word it has collected is that of its
  register now, unless the register is in error or an answer was copied
  meanwhile -- this is what makes the words of a reading belong together, and it
  needs that an answer half copied cannot go unnoticed: while `torn` is not set, a
  copy under way has not stored a word yet.  Of the commands (`Commanding`): while a command stands,
  the registers hold it as far as the task has got (it no longer stands once
  anything else is written to one of them).  Above the words of its type a number is zero
  (`Padded`), else a command of two words could not be read back as a whole; an
  entry of a reference shows the register its source names (`Referring`).
  Then `ShownAsNamed` (`ReadingIsAsNamed`, with `PulledAsNamed` for the orders),
  `WholeUnlessTorn` (`AnswersStayWhole`) and `CommandReadsBack`
  (`CommandsReadBack`: both directions, so for `BE`, `BS`, `LE` and the scaled
  types it is proved that the reading differs from the command).

* `LifecycleProofs`, for any finite set of server threads (`ServerAssumption`
  only keeps them apart from the other holders of a mutex): `TypeCorrect`, then
  `Orderly`, which holds as long as no server was stopped before its thread had
  run.  It says what exists while tasks run and during each step of building up
  and taking down (`TasksInv`), that the one server thread holds `uaSrvMux` or
  has not asked for it yet and is gone when `StopFrees` deletes it
  (`ServerInv`), and when the client is open (`ClientInv`); handler and main
  thread are taken as one thread whose place is that of the handler once it is
  on.  From it `FreedIsUnused` (`NothingUsedAfterFree`) and `ServerIsAlone`.

Each proof follows one pattern: `Init` implies the invariant; for each action a
step that it is preserved, split by the conjuncts the action can disturb; the
temporal step by PTL.

Every invariant and every action property that a passing run checks is thus
stated by a theorem, and so is the refinement of `Mirror`.  Only model-checked:
the liveness properties (fairness and ENABLED are out of the prover's reach).

## 6. Not modelled, and what could follow

* Modbus slave: compiled, but nothing creates one, so there is no use of it to
  model.  Its lock, which is kept on an error return, is a listed hazard.
* `check()` of the SCADA program: nothing calls it.
* `STRmap`, the console and the logger: they only display.  `regs_update` clears
  `STRmap` without the mutex under which the refresh task writes it, and the page's
  string is copied by REST threads while it is assigned: data races on containers,
  listed as a hazard, with no order of events to check.
* `Number_c`'s comparison, arithmetic and text, which registers do not use;
  settings and command line; the clock (`millis` and tasks that are due: `Elapse`).
* `attempts = 0`, `Enabled`: a listed hazard; the proofs assume `Attempts > 0`.
* libmodbus, open62541, libconfig, httplib beyond what the code relies on.

What could follow: `RegSync` over `Mirror` instead of its own reduced driver.
