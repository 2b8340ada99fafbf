------------------------------ MODULE MbMaster ------------------------------
(***************************************************************************)
(* The Modbus master driver of one PLC (libs/mb_plc): the object's local   *)
(* register map, the polling thread that mirrors it with the device        *)
(* (update_master -> read_master -> write_master), and the thread of the   *)
(* register-refresh task that stores operator commands in it (set_reg).    *)
(*                                                                         *)
(* The two threads share the map without a lock: lock_mux is taken only by *)
(* the polling thread around its own exchanges, so it orders nothing here  *)
(* and is not a variable.  A step below is a piece of code that no other   *)
(* thread can observe half-done; every network exchange and every pair of  *)
(* unsynchronised accesses to a register is split.  The operators named    *)
(* ...Mutant are defective variants of the one that follows them, each the *)
(* way a slip in the code would look; nothing uses them but the mutation   *)
(* runs, which show that the properties notice.                            *)
(***************************************************************************)
EXTENDS Integers

CONSTANTS
  NReg,         \* number of registers; Reg lists them in address order
  Writable,     \* registers configured "rw" (rmode = 1)
  Value,        \* what a 16-bit register can hold, as far as it matters
  Placeholder,  \* the value 777 that init_regs stores before any reading
  Attempts,     \* tries per exchange, from the configuration
  ErrMod        \* the error counters are uint16_t: 2^16 in the code

Reg == 1 .. NReg

ASSUME MasterAssumption ==
  /\ NReg \in Nat \ {0}
  /\ Writable \subseteq 1 .. NReg
  /\ Value # {} /\ Placeholder \notin Value
  /\ Attempts \in Nat \ {0}
  /\ ErrMod \in Nat /\ ErrMod > 2

VARIABLES
  \* the device and the network, outside the program
  up,        \* an exchange with the device would succeed now
  dev,       \* the registers in the device
  \* the driver object
  ctx,       \* the libmodbus context: "null", or "open" when connected
  errors,    \* mb.errors
  status,    \* mb.status and rc_read: result of the last read_master
  rc, att,   \* the members shared by the functions of the driver
  rcWrite,   \* rc_write
  rvalue, rupdate, rerrors,   \* regs[r].data
  \* the polling thread
  pc, phase, \* where it is; inside read_master or write_master
  cur,       \* position of its loop over regs
  buf,       \* mbregs, the answer being copied
  \* the setter thread
  spc,       \* "idle", or the store of set_reg that is still to be made
  scmd,      \* the command it is executing
  \* history, for the properties
  due,       \* the last command for r that no write has carried yet
  raced,     \* that command met the polling thread in one of its windows
  served,    \* a write of r was answered since its rupdate was last raised
  wrapped,   \* errors ran over since the last good reading was published
  dirty,     \* the last exchange on this connection failed
  polled     \* some call of read_master has ended

device == <<up, dev>>
driver == <<ctx, errors, status, rc, att, rcWrite>>
regs   == <<rvalue, rupdate, rerrors>>
poller == <<pc, phase, cur, buf>>
setter == <<spc, scmd>>
ghost  == <<due, raced, served, wrapped, dirty, polled>>
vars   == <<device, driver, regs, poller, setter, ghost>>

None  == "none"
NoCmd == [reg |-> 0, val |-> Placeholder]
NoBuf == [r \in Reg |-> Placeholder]

-----------------------------------------------------------------------------
(* After the constructor and init_regs.                                    *)
Init ==
  /\ up \in BOOLEAN
  /\ dev \in [Reg -> Value]
  /\ ctx = "null" /\ errors = 0 /\ status = 0
  /\ rc = -1 /\ att = 0 /\ rcWrite = -1
  /\ rvalue = [r \in Reg |-> Placeholder]
  /\ rupdate = [r \in Reg |-> 0]
  /\ rerrors = [r \in Reg |-> 0]
  /\ pc = "idle" /\ phase = "read" /\ cur = 1 /\ buf = NoBuf
  /\ spc = "idle" /\ scmd = NoCmd
  /\ due = [r \in Reg |-> None]
  /\ raced = [r \in Reg |-> FALSE]
  /\ served = [r \in Reg |-> TRUE]
  /\ wrapped = FALSE /\ dirty = FALSE /\ polled = FALSE

-----------------------------------------------------------------------------
(* The environment.                                                        *)

\* The device or the network goes away or comes back.
Link ==
  /\ up' = ~up
  /\ UNCHANGED <<dev, driver, regs, poller, setter, ghost>>

\* The PLC's own program changes one of its registers.
DeviceChanges(r, v) ==
  /\ dev[r] # v
  /\ dev' = [dev EXCEPT ![r] = v]
  /\ UNCHANGED <<up, driver, regs, poller, setter, ghost>>

-----------------------------------------------------------------------------
(* The polling thread.                                                     *)

CountErrorsMutant(n) == errors' = errors + n /\ UNCHANGED wrapped

\* `n` more errors in a uint16_t counter.
CountErrors(n) ==
  /\ errors' = (errors + n) % ErrMod
  /\ wrapped' = (wrapped \/ errors + n >= ErrMod)

\* errors = 0, after an exchange that went well.
ClearErrors ==
  /\ errors' = 0
  /\ dirty' = FALSE

\* The condition of the two retry loops.
TryAgain == att < Attempts /\ rc <= 0

\* update_master finds the polling interval elapsed and enters read_master.
\* (A call that comes too early changes nothing.)
BeginPoll ==
  /\ pc = "idle"
  /\ pc' = "try" /\ phase' = "read"
  /\ rc' = 0 /\ att' = 0
  /\ UNCHANGED <<device, ctx, errors, status, rcWrite, regs, cur, buf,
                 setter, ghost>>

NeedsConnectMutant1 == errors > 0
NeedsConnectMutant2 == ctx = "null"

\* mb_connect makes a new connection when the last exchange went wrong.
NeedsConnect == errors > 0 \/ ctx = "null"

\* mb_connect: the old context is closed, a new one connects.
ConnectOk ==
  /\ pc = "try" /\ TryAgain /\ NeedsConnect
  /\ up
  /\ att' = att + 1
  /\ ctx' = "open" /\ rc' = 0 /\ dirty' = FALSE
  /\ pc' = "io"
  /\ UNCHANGED <<device, errors, status, rcWrite, regs, phase, cur, buf,
                 setter, due, raced, served, wrapped, polled>>

ConnectFailsMutant ==
  /\ pc = "try" /\ TryAgain /\ NeedsConnect
  /\ ~up
  /\ ctx' = "null" /\ rc' = -1
  /\ CountErrors(2)
  /\ UNCHANGED <<device, status, att, rcWrite, regs, poller, setter,
                 due, raced, served, dirty, polled>>

\* mb_connect counts the failure, and its caller counts it once more.
ConnectFails ==
  /\ pc = "try" /\ TryAgain /\ NeedsConnect
  /\ ~up
  /\ att' = att + 1
  /\ ctx' = "null" /\ rc' = -1
  /\ CountErrors(2)
  /\ UNCHANGED <<device, status, rcWrite, regs, poller, setter,
                 due, raced, served, dirty, polled>>

\* mb_connect leaves an open context alone and returns rc as it was.
ConnectReuses ==
  /\ pc = "try" /\ TryAgain /\ ~NeedsConnect
  /\ att' = att + 1
  /\ IF rc = 0
     THEN pc' = "io" /\ UNCHANGED <<errors, wrapped>>
     ELSE CountErrors(1) /\ UNCHANGED pc
  /\ UNCHANGED <<device, ctx, status, rc, rcWrite, regs, phase, cur, buf,
                 setter, due, raced, served, dirty, polled>>

\* read_allregs: the device answers with all its registers.
ReadOk ==
  /\ pc = "io" /\ phase = "read"
  /\ up
  /\ rc' = NReg
  /\ ClearErrors
  /\ buf' = dev
  /\ pc' = "copy" /\ cur' = 1
  /\ UNCHANGED <<device, ctx, status, att, rcWrite, regs, phase, setter,
                 due, raced, served, wrapped, polled>>

\* read_allregs: no answer (-1), or one of the wrong length (-2).
ReadFails ==
  /\ pc = "io" /\ phase = "read"
  /\ ~up
  /\ rc' \in {-1, -2}
  /\ CountErrors(1) /\ dirty' = TRUE
  /\ pc' = "try"
  /\ UNCHANGED <<device, ctx, status, att, rcWrite, regs, phase, cur, buf,
                 setter, due, raced, served, polled>>

MayCopyMutant1(r) == r \notin Writable /\ rupdate[r] = 0
MayCopyMutant2(r) == TRUE

\* A reading overwrites a register unless an update of it waits to be written.
MayCopy(r) == r \notin Writable \/ rupdate[r] = 0

\* The copy loop of read_allregs looks at one register.
CopyTest ==
  /\ pc = "copy" /\ cur \in Reg
  /\ IF MayCopy(cur)
     THEN pc' = "store" /\ UNCHANGED cur
     ELSE cur' = cur + 1 /\ UNCHANGED pc
  /\ raced' = [raced EXCEPT ![cur] = @ \/ (spc = "flag" /\ scmd.reg = cur)]
  /\ UNCHANGED <<device, driver, regs, phase, buf, setter,
                 due, served, wrapped, dirty, polled>>

CopyStoreMutant ==
  /\ pc = "store"
  /\ rvalue' = [rvalue EXCEPT ![cur] = buf[cur]]
  /\ rupdate' = [rupdate EXCEPT ![cur] = 0]
  /\ pc' = "copy" /\ cur' = cur + 1
  /\ UNCHANGED <<device, driver, rerrors, phase, buf, setter, ghost>>

\* ... and stores the value read.
CopyStore ==
  /\ pc = "store"
  /\ rvalue' = [rvalue EXCEPT ![cur] = buf[cur]]
  /\ pc' = "copy" /\ cur' = cur + 1
  /\ UNCHANGED <<device, driver, rupdate, rerrors, phase, buf, setter, ghost>>

\* The copy loop ends; the answer is freed.
CopyDone ==
  /\ pc = "copy" /\ cur \notin Reg
  /\ pc' = "try" /\ buf' = NoBuf
  /\ UNCHANGED <<device, driver, regs, phase, cur, setter, ghost>>

PublishErrorsMutant == rerrors' = IF rc > 0 THEN [r \in Reg |-> errors]
                                  ELSE rerrors

\* The loop over regs at the end of read_master.
PublishErrors == rerrors' = [r \in Reg |-> errors]

\* The retry loop of read_master ends: publish the result, and go on to
\* write_master only after a good reading.
ReadMasterEnds ==
  /\ pc = "try" /\ phase = "read" /\ ~TryAgain
  /\ status' = rc /\ polled' = TRUE
  /\ wrapped' = (wrapped /\ rc <= 0)
  /\ PublishErrors
  /\ IF rc > 0
     THEN /\ pc' = "scan" /\ phase' = "write" /\ cur' = 1
          /\ rcWrite' = 0
     ELSE /\ pc' = "idle" /\ cur' = 1
          /\ rcWrite' = rc
          /\ UNCHANGED phase
  /\ UNCHANGED <<device, ctx, errors, rc, att, rvalue, rupdate, buf, setter,
                 due, raced, served, dirty>>

\* write_master looks at one register.
ScanReg ==
  /\ pc = "scan" /\ cur \in Reg
  /\ IF cur \in Writable /\ rupdate[cur] = 1
     THEN rc' = 0 /\ att' = 0 /\ pc' = "try" /\ UNCHANGED cur
     ELSE cur' = cur + 1 /\ UNCHANGED <<rc, att, pc>>
  /\ UNCHANGED <<device, ctx, errors, status, rcWrite, regs, phase, buf,
                 setter, ghost>>

\* write_reg: rvalue is sent, the device stores it and answers.
WriteOk ==
  /\ pc = "io" /\ phase = "write"
  /\ up
  /\ dev' = [dev EXCEPT ![cur] = rvalue[cur]]
  /\ due' = [due EXCEPT ![cur] = IF @ = rvalue[cur] THEN None ELSE @]
  /\ served' = [served EXCEPT ![cur] = TRUE]
  /\ pc' = "acked"
  /\ UNCHANGED <<up, driver, regs, phase, cur, buf, setter,
                 raced, wrapped, dirty, polled>>

\* write_reg: the request or its answer is lost.
WriteFails ==
  /\ pc = "io" /\ phase = "write"
  /\ ~up
  /\ dev' \in {dev, [dev EXCEPT ![cur] = rvalue[cur]]}
  /\ rc' = -1
  /\ CountErrors(1) /\ dirty' = TRUE
  /\ rerrors' = [rerrors EXCEPT ![cur] = errors']
  /\ pc' = "try"
  /\ UNCHANGED <<up, ctx, status, att, rcWrite, rvalue, rupdate, phase, cur,
                 buf, setter, due, raced, served, polled>>

\* write_reg, after the answer: the request to update is taken as done.
WriteAcked ==
  /\ pc = "acked"
  /\ rc' = 1
  /\ ClearErrors
  /\ rupdate' = [rupdate EXCEPT ![cur] = 0]
  /\ rerrors' = [rerrors EXCEPT ![cur] = 0]
  /\ pc' = "try"
  /\ UNCHANGED <<device, ctx, status, att, rcWrite, rvalue, phase, cur, buf,
                 setter, due, raced, served, wrapped, polled>>

\* The retry loop for one register ends.
WriteRegEnds ==
  /\ pc = "try" /\ phase = "write" /\ ~TryAgain
  /\ rcWrite' = IF rc = -1 THEN rcWrite - 1 ELSE rcWrite
  /\ pc' = "scan" /\ cur' = cur + 1
  /\ UNCHANGED <<device, ctx, errors, status, rc, att, regs, phase, buf,
                 setter, ghost>>

\* write_master and update_master return.
WriteMasterEnds ==
  /\ pc = "scan" /\ cur \notin Reg
  /\ rc' = rcWrite
  /\ pc' = "idle" /\ phase' = "read" /\ cur' = 1
  /\ UNCHANGED <<device, ctx, errors, status, att, rcWrite, regs, buf, setter,
                 ghost>>

Poll ==
  \/ BeginPoll
  \/ ConnectOk \/ ConnectFails \/ ConnectReuses
  \/ ReadOk \/ ReadFails \/ CopyTest \/ CopyStore \/ CopyDone
  \/ ReadMasterEnds
  \/ ScanReg \/ WriteOk \/ WriteFails \/ WriteAcked \/ WriteRegEnds
  \/ WriteMasterEnds

-----------------------------------------------------------------------------
(* The setter: ModbusPLC_c::set_reg(rval, rptr), called by the register-   *)
(* refresh task.  Only a change of a "rw" register does anything.  Its two *)
(* stores are plain and unlocked, so the polling thread may act between    *)
(* them.  (Only that thread's store can fall between the test and the      *)
(* first store, which then overwrites it: the two are one step.)           *)

\* The polling thread has decided what to do with r and not done it yet.
InWindow(r) == pc \in {"store", "acked"} /\ cur = r

SetRegBeginsMutant(r, v) ==
  /\ spc = "idle" /\ r \in Writable /\ rvalue[r] # v
  /\ rupdate' = [rupdate EXCEPT ![r] = 1]
  /\ spc' = "flag" /\ scmd' = [reg |-> r, val |-> v]
  /\ UNCHANGED <<device, driver, rvalue, rerrors, poller, ghost>>

SetRegBegins(r, v) ==
  /\ spc = "idle"
  /\ r \in Writable
  /\ rvalue[r] # v
  /\ rvalue' = [rvalue EXCEPT ![r] = v]
  /\ spc' = "flag" /\ scmd' = [reg |-> r, val |-> v]
  /\ due' = [due EXCEPT ![r] = v]
  /\ raced' = [raced EXCEPT ![r] = InWindow(r)]
  /\ UNCHANGED <<device, driver, rupdate, rerrors, poller,
                 served, wrapped, dirty, polled>>

SetRegEnds ==
  /\ spc = "flag"
  /\ rupdate' = [rupdate EXCEPT ![scmd.reg] = 1]
  /\ spc' = "idle" /\ scmd' = NoCmd
  /\ served' = [served EXCEPT ![scmd.reg] = @ /\ rupdate[scmd.reg] = 1]
  /\ raced' = [raced EXCEPT ![scmd.reg] = @ \/ InWindow(scmd.reg)]
  /\ UNCHANGED <<device, driver, rvalue, rerrors, poller,
                 due, wrapped, dirty, polled>>

Command == \E r \in Reg, v \in Value : SetRegBegins(r, v)

-----------------------------------------------------------------------------
Drift == \E r \in Reg, v \in Value : DeviceChanges(r, v)

Next == Poll \/ Command \/ SetRegEnds \/ Link \/ Drift

\* The scheduler keeps calling update_master, and the refresh task is not
\* stopped in the middle of set_reg.  Nothing obliges the device, the network
\* or the operator to act.
Fairness == WF_vars(Poll) /\ WF_vars(SetRegEnds)

Spec     == Init /\ [][Next]_vars
FairSpec == Spec /\ Fairness

-----------------------------------------------------------------------------
(* Properties.                                                             *)

\* The polling thread is inside the loop body for one register.
OnRegister == pc \in {"store", "acked"} \/ (phase = "write" /\ pc \in {"try", "io"})

\* Every variable has the values the code's types and control flow allow.
TypeOK ==
  /\ up \in BOOLEAN
  /\ dev \in [Reg -> Value \cup {Placeholder}]
  /\ ctx \in {"null", "open"}
  /\ errors \in 0 .. ErrMod - 1
  /\ status \in Int /\ rc \in Int /\ att \in 0 .. Attempts /\ rcWrite \in Int
  /\ rvalue \in [Reg -> Value \cup {Placeholder}]
  /\ rupdate \in [Reg -> {0, 1}]
  /\ rerrors \in [Reg -> 0 .. ErrMod - 1]
  /\ pc \in {"idle", "try", "io", "copy", "store", "scan", "acked"}
  /\ phase \in {"read", "write"}
  /\ pc \in {"idle", "copy", "store"} => phase = "read"
  /\ pc \in {"scan", "acked"} => phase = "write"
  /\ cur \in 1 .. NReg + 1
  /\ OnRegister => cur \in Reg
  /\ buf \in [Reg -> Value \cup {Placeholder}]
  /\ spc \in {"idle", "flag"}
  /\ scmd \in [reg : Reg \cup {0}, val : Value \cup {Placeholder}]
  /\ due \in [Reg -> Value \cup {None}]
  /\ raced \in [Reg -> BOOLEAN] /\ served \in [Reg -> BOOLEAN]
  /\ wrapped \in BOOLEAN /\ dirty \in BOOLEAN /\ polled \in BOOLEAN

\* modbus_read_registers and modbus_write_register are only called on a
\* context that is allocated and connected, although mb_connect trusts the
\* error counter and a return code left by earlier calls (read_master,
\* write_master, mb_connect).
IoOnlyConnected == pc \in {"io", "acked"} => ctx = "open"

\* After a failed exchange the next one has a new connection, so a late
\* answer to the old request is never read as the answer to the new one --
\* as long as the 16-bit error counter has not run over (mb_connect).
FailedConnectionNotReused == pc = "io" /\ dirty => wrapped

\* rupdate of a register falls back to 0 only after the device has answered
\* a write of that register made since the flag was raised: no failure,
\* retry or reading drops the request (write_master, write_reg).
FlagClearedOnlyWhenServed == \A r \in Reg : rupdate[r] = 0 => served[r]

\* Between polls, when the last reading failed every register is marked with
\* an error, so that the register layer reports none of them as good -- as
\* long as the 16-bit error counter has not run over (read_master).
DownIsReported ==
  pc = "idle" /\ polled /\ status <= 0 /\ ~wrapped
    => \A r \in Reg : rerrors[r] > 0

\* Once a poll has ended, a register without errors holds something a device
\* or an operator put there, never the value it was initialised with
\* (init_regs, read_master).
GoodWasRead ==
  polled /\ ~wrapped
    => \A r \in Reg : rerrors[r] = 0 => rvalue[r] # Placeholder

\* The value a register is initialised with never reaches the device: the
\* flag that asks for a write is only up on registers that hold a command or
\* a reading (set_reg, write_reg).
PlaceholderNeverSent == \A r \in Reg : dev[r] \in Value

\* A command is kept until a write has carried it, unless set_reg met the
\* polling thread in one of three places: between its test of rupdate and
\* its store of the reading, between the answer to its write and the
\* clearing of rupdate, or testing rupdate between the two stores of set_reg.
\* No failure of the network loses a command, whatever its timing.
CommandKeptUnlessRaced ==
  \A r \in Writable :
    spc = "idle" /\ due[r] # None /\ ~raced[r]
      => rupdate[r] = 1 /\ rvalue[r] = due[r]

\* Of each register the driver shows what module Mirror says, and no more: a
\* reading never replaces a command that waits, nothing but the local copy is
\* ever sent and only on request, and a request ends with its command, however
\* connections, retries and failures interleave with set_reg.
M == INSTANCE Mirror WITH local <- rvalue, remote <- dev, asked <- rupdate,
                          want <- due, Unread <- Placeholder
ImplementsMirror == M!Spec

\* What the comments of rupdate and of the copy loop say: 1 means "need to
\* write/update remote register", and then "!! Do not update !!" it from a
\* reading.  So a command given stays marked until it is written.
CommandKept ==
  \A r \in Writable :
    spc = "idle" /\ due[r] # None => rupdate[r] = 1 /\ rvalue[r] = due[r]

\* What the comment of mb.errors says: a "counter of any current ERRORS
\* (reset if OK)", so after a failed reading no register is free of errors.
ErrorsUntilOk ==
  pc = "idle" /\ polled /\ status <= 0 => \A r \in Reg : rerrors[r] > 0

\* Whatever the network does, every poll ends: the retries are bounded.
PollEnds == []<>(pc = "idle")

\* When the network stays up and neither the operator nor the PLC's program
\* changes anything any more, the local registers and the device come to
\* agree for good: nothing is left to write and no error stands.
InStep == \A r \in Reg : rvalue[r] = dev[r] /\ rupdate[r] = 0 /\ rerrors[r] = 0

Converges ==
  (<>[]up /\ <>[][~Command /\ ~Drift]_vars) => <>[]InStep

=============================================================================
