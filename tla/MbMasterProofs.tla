--------------------------- MODULE MbMasterProofs ---------------------------
(***************************************************************************)
(* Proofs about the Modbus master driver: the safety invariants of         *)
(* MbMaster hold for every number of registers, every set of writable      *)
(* ones, every number of attempts and every width of the error counter.    *)
(***************************************************************************)
EXTENDS MbMaster, TLAPS

-----------------------------------------------------------------------------
(* Arithmetic of the error counter.                                        *)

\* A counter of width m stays below m.
LEMMA ModInRange == ASSUME NEW a \in Nat, NEW m \in Nat, m > 0
                    PROVE  a % m \in 0 .. m - 1
OBVIOUS

\* Below its width the counter counts.
LEMMA ModIdentity == ASSUME NEW a \in Nat, NEW m \in Nat, a < m
                     PROVE  a % m = a
OBVIOUS

\* Counting n >= 1 errors leaves the counter positive, or it has run over.
LEMMA CountedOrWrapped ==
  ASSUME errors \in 0 .. ErrMod - 1, wrapped \in BOOLEAN,
         NEW n \in Nat \ {0}, CountErrors(n)
  PROVE  /\ errors' \in 0 .. ErrMod - 1
         /\ wrapped' \in BOOLEAN
         /\ errors' > 0 \/ wrapped'
         /\ wrapped => wrapped'
<1>0. ErrMod \in Nat /\ ErrMod > 2
  BY MasterAssumption
<1>1. errors + n \in Nat /\ errors + n > 0
  BY <1>0
<1>2. errors' \in 0 .. ErrMod - 1
  BY <1>0, <1>1, ModInRange DEF CountErrors
<1>3. wrapped' = (wrapped \/ errors + n >= ErrMod)
  BY Zenon DEF CountErrors
<1>4. CASE errors + n >= ErrMod
  BY <1>2, <1>3, <1>4
<1>5. CASE ~(errors + n >= ErrMod)
  <2>1. errors + n < ErrMod
    BY <1>0, <1>1, <1>5
  <2>2. errors' = errors + n
    BY <1>0, <1>1, <2>1, ModIdentity DEF CountErrors
  <2>3. QED BY <1>1, <1>2, <1>3, <2>2
<1>6. QED BY <1>4, <1>5


\* A good exchange leaves the counter well typed.
LEMMA ClearedType ==
  ASSUME ClearErrors
  PROVE  errors' \in 0 .. ErrMod - 1 /\ dirty' \in BOOLEAN
<1>1. errors' \in 0 .. ErrMod - 1
  BY MasterAssumption DEF ClearErrors
<1>2. dirty' \in BOOLEAN
  BY Zenon DEF ClearErrors
<1>3. QED BY <1>1, <1>2

-----------------------------------------------------------------------------
(* Type correctness.                                                       *)

\* The initial state is well typed.
LEMMA InitTypeOK == Init => TypeOK
<1> SUFFICES ASSUME Init PROVE TypeOK
  OBVIOUS
<1>1. wrapped \in BOOLEAN /\ dirty \in BOOLEAN /\ polled \in BOOLEAN /\ up \in BOOLEAN
  BY Zenon DEF Init
<1>2. raced \in [Reg -> BOOLEAN] /\ served \in [Reg -> BOOLEAN]
  BY Zenon DEF Init
<1>3. /\ dev \in [Reg -> Value \cup {Placeholder}]
      /\ rvalue \in [Reg -> Value \cup {Placeholder}]
      /\ rupdate \in [Reg -> {0, 1}]
      /\ rerrors \in [Reg -> 0 .. ErrMod - 1]
      /\ buf \in [Reg -> Value \cup {Placeholder}]
      /\ due \in [Reg -> Value \cup {None}]
      /\ scmd \in [reg : Reg \cup {0}, val : Value \cup {Placeholder}]
  BY MasterAssumption DEF Init, NoBuf, NoCmd
<1>4. QED
  BY <1>1, <1>2, <1>3, MasterAssumption DEF Init, TypeOK, OnRegister, Reg

\* So is the state after any step.
LEMMA NextTypeOK == TypeOK /\ [Next]_vars => TypeOK'
<1> SUFFICES ASSUME TypeOK, [Next]_vars PROVE TypeOK'
  OBVIOUS
<1> USE MasterAssumption DEF TypeOK, OnRegister, Reg
<1>1. CASE BeginPoll
  BY <1>1 DEF BeginPoll, device, regs, setter, ghost
<1>2. CASE ConnectOk
  <2>1. dirty' \in BOOLEAN
    BY <1>2, Zenon DEF ConnectOk
  <2>2. att' \in 0 .. Attempts
    BY <1>2 DEF ConnectOk, TryAgain
  <2>3. rc' \in Int /\ ctx' \in {"null", "open"} /\ pc' \in {"io"}
    BY <1>2 DEF ConnectOk
  <2>4. QED BY <1>2, <2>1, <2>2, <2>3 DEF ConnectOk, TryAgain, device, regs, setter
<1>3. CASE ConnectFails
  BY <1>3, CountedOrWrapped DEF ConnectFails, TryAgain, device, regs, poller, setter
<1>4. CASE ConnectReuses
  <2>1. /\ errors' \in 0 .. ErrMod - 1
        /\ wrapped' \in BOOLEAN
        /\ pc' \in {"try", "io"}
    BY <1>4, CountedOrWrapped DEF ConnectReuses
  <2>2. QED BY <1>4, <2>1 DEF ConnectReuses, TryAgain, device, regs, setter
<1>5. CASE ReadOk
  BY <1>5, ClearedType DEF ReadOk, device, regs, setter
<1>6. CASE ReadFails
  BY <1>6, CountedOrWrapped DEF ReadFails, device, regs, setter
<1>7. CASE CopyTest
  BY <1>7 DEF CopyTest, device, driver, regs, setter
<1>8. CASE CopyStore
  BY <1>8 DEF CopyStore, device, driver, setter, ghost
<1>9. CASE CopyDone
  BY <1>9 DEF CopyDone, NoBuf, device, driver, regs, setter, ghost
<1>10. CASE ReadMasterEnds
  BY <1>10 DEF ReadMasterEnds, PublishErrors, device, setter
<1>11. CASE ScanReg
  BY <1>11 DEF ScanReg, device, regs, setter, ghost
<1>12. CASE WriteOk
  BY <1>12 DEF WriteOk, driver, regs, setter, None
<1>13. CASE WriteFails
  BY <1>13, CountedOrWrapped DEF WriteFails, setter
<1>14. CASE WriteAcked
  BY <1>14, ClearedType DEF WriteAcked, device, setter
<1>15. CASE WriteRegEnds
  BY <1>15 DEF WriteRegEnds, device, regs, setter, ghost
<1>16. CASE WriteMasterEnds
  BY <1>16 DEF WriteMasterEnds, device, regs, setter, ghost
<1>17. ASSUME NEW r \in Reg, NEW v \in Value, SetRegBegins(r, v)
       PROVE  TypeOK'
  BY <1>17 DEF SetRegBegins, InWindow, device, driver, poller
<1>18. CASE SetRegEnds
  BY <1>18 DEF SetRegEnds, InWindow, NoCmd, device, driver, poller
<1>19. CASE Link
  BY <1>19 DEF Link, driver, regs, poller, setter, ghost
<1>20. ASSUME NEW r \in Reg, NEW v \in Value, DeviceChanges(r, v)
       PROVE  TypeOK'
  BY <1>20 DEF DeviceChanges, driver, regs, poller, setter, ghost
<1>21. CASE UNCHANGED vars
  BY <1>21 DEF vars, device, driver, regs, poller, setter, ghost
<1>22. QED
  BY <1>1, <1>2, <1>3, <1>4, <1>5, <1>6, <1>7, <1>8, <1>9, <1>10, <1>11,
     <1>12, <1>13, <1>14, <1>15, <1>16, <1>17, <1>18, <1>19, <1>20, <1>21
     DEF Next, Poll, Command, Drift

\* Type correctness of the driver for every value of the constants.
THEOREM TypeCorrect == Spec => []TypeOK
BY InitTypeOK, NextTypeOK, PTL DEF Spec

-----------------------------------------------------------------------------
(* The inductive invariant, in parts.  The safety invariants alone are not *)
(* inductive: each part adds what the polling thread has established by    *)
(* the point it has reached.                                               *)

\* A failed exchange leaves a mark in the error counter, which is what makes
\* mb_connect connect again; a reading that is being copied was a good one.
ConnectionInv ==
  /\ IoOnlyConnected
  /\ FailedConnectionNotReused
  /\ dirty => errors > 0 \/ wrapped
  /\ pc \in {"copy", "store"} => rc > 0
  /\ phase = "read" /\ pc \in {"try", "copy", "store"} /\ rc > 0 => ~dirty

\* A try that failed left errors behind; write_master follows a good reading.
ReportInv ==
  /\ phase = "read" /\ pc = "try" /\ rc <= 0 /\ att > 0 => errors > 0 \/ wrapped
  /\ phase = "write" => status > 0
  /\ DownIsReported

\* write_master is trying to write the register it stands on.
Writing == phase = "write" /\ (pc = "io" \/ (pc = "try" /\ rc <= 0))

\* The flag of the register being written stays up until its write is
\* answered: only the polling thread lowers it.
FlagInv ==
  /\ FlagClearedOnlyWhenServed
  /\ Writing => rupdate[cur] = 1
  /\ pc = "acked" => rupdate[cur] = 1 /\ served[cur]

\* Where r holds a command or a reading.
Filled(r) == rvalue[r] # Placeholder

\* Registers marked for writing are filled, and a good reading fills the
\* others one by one.
ValueInv ==
  /\ PlaceholderNeverSent
  /\ \A r \in Reg : rupdate[r] = 1 => Filled(r)
  /\ spc = "flag" => scmd.reg \in Reg /\ Filled(scmd.reg)
  /\ pc \in {"copy", "store"} => \A r \in Reg : buf[r] \in Value
  /\ pc \in {"copy", "store"} => \A r \in Reg : r < cur => Filled(r)
  /\ phase = "read" /\ pc = "try" /\ rc > 0 => \A r \in Reg : Filled(r)
  /\ phase = "write" => \A r \in Reg : Filled(r)

\* A command that met no window is stored, marked or about to be marked, and
\* the polling thread is in no window of its register.
CommandInv ==
  \A r \in Writable :
    due[r] # None /\ ~raced[r] =>
      /\ rvalue[r] = due[r]
      /\ rupdate[r] = 1 \/ (spc = "flag" /\ scmd.reg = r)
      /\ ~InWindow(r)

IInv == TypeOK /\ ConnectionInv /\ ReportInv /\ FlagInv /\ ValueInv
               /\ GoodWasRead /\ CommandInv

-----------------------------------------------------------------------------
(* Every step keeps each part.                                             *)

\* Steps of the setter and of the environment leave the driver's own state
\* and the polling thread alone.
LEMMA OthersLeavePoller ==
  ASSUME \/ Command \/ SetRegEnds \/ Link \/ Drift \/ UNCHANGED vars
  PROVE  UNCHANGED <<ctx, errors, status, rc, att, rerrors, pc, phase, cur, buf,
                     wrapped, dirty, polled>>
BY DEF Command, Drift, SetRegBegins, SetRegEnds, Link, DeviceChanges, vars,
       driver, regs, poller, ghost

\* ConnectionInv is kept.
LEMMA ConnectionStep == TypeOK /\ ConnectionInv /\ [Next]_vars => ConnectionInv'
<1> SUFFICES ASSUME TypeOK, ConnectionInv, [Next]_vars PROVE ConnectionInv'
  OBVIOUS
<1> USE DEF ConnectionInv, IoOnlyConnected, FailedConnectionNotReused
<1>1. CASE Command \/ SetRegEnds \/ Link \/ Drift \/ UNCHANGED vars
  BY <1>1, OthersLeavePoller
<1>2. CASE BeginPoll
  BY <1>2 DEF BeginPoll, ghost
<1>3. CASE ConnectOk
  BY <1>3 DEF ConnectOk
<1>4. CASE ConnectFails
  <2>1. errors' > 0 \/ wrapped'
    BY <1>4, CountedOrWrapped DEF ConnectFails, TypeOK
  <2>2. QED BY <1>4, <2>1 DEF ConnectFails, poller
<1>5. CASE ConnectReuses
  <2>1. CASE rc = 0
    BY <1>5, <2>1 DEF ConnectReuses, NeedsConnect, TypeOK
  <2>2. CASE rc # 0
    <3>1. errors' > 0 \/ wrapped'
      BY <1>5, <2>2, CountedOrWrapped DEF ConnectReuses, TypeOK
    <3>2. QED BY <1>5, <2>2, <3>1 DEF ConnectReuses, TypeOK
  <2>3. QED BY <2>1, <2>2
<1>6. CASE ReadOk
  BY <1>6, MasterAssumption DEF ReadOk, ClearErrors
<1>7. CASE ReadFails
  <2>1. errors' > 0 \/ wrapped'
    BY <1>7, CountedOrWrapped DEF ReadFails, TypeOK
  <2>2. QED BY <1>7, <2>1 DEF ReadFails
<1>8. CASE CopyTest
  BY <1>8 DEF CopyTest, driver, TypeOK
<1>9. CASE CopyStore
  BY <1>9 DEF CopyStore, driver, ghost
<1>10. CASE CopyDone
  BY <1>10 DEF CopyDone, driver, ghost
<1>11. CASE ReadMasterEnds
  <2>1. dirty => errors > 0 \/ (wrapped /\ rc <= 0)
    BY <1>11 DEF ReadMasterEnds, TypeOK
  <2>2. wrapped' <=> wrapped /\ rc <= 0
    BY <1>11, Zenon DEF ReadMasterEnds
  <2>3. QED BY <1>11, <2>1, <2>2 DEF ReadMasterEnds
<1>12. CASE ScanReg
  BY <1>12 DEF ScanReg, ghost, TypeOK
<1>13. CASE WriteOk
  BY <1>13 DEF WriteOk, driver
<1>14. CASE WriteFails
  <2>1. errors' > 0 \/ wrapped'
    BY <1>14, CountedOrWrapped DEF WriteFails, TypeOK
  <2>2. QED BY <1>14, <2>1 DEF WriteFails
<1>15. CASE WriteAcked
  BY <1>15 DEF WriteAcked, ClearErrors, TypeOK
<1>16. CASE WriteRegEnds
  BY <1>16 DEF WriteRegEnds, ghost
<1>17. CASE WriteMasterEnds
  BY <1>17 DEF WriteMasterEnds, ghost
<1>18. QED
  BY <1>1, <1>2, <1>3, <1>4, <1>5, <1>6, <1>7, <1>8, <1>9, <1>10, <1>11,
     <1>12, <1>13, <1>14, <1>15, <1>16, <1>17 DEF Next, Poll

\* ReportInv is kept.
LEMMA ReportStep ==
  TypeOK /\ ConnectionInv /\ ReportInv /\ [Next]_vars => ReportInv'
<1> SUFFICES ASSUME TypeOK, ConnectionInv, ReportInv, [Next]_vars PROVE ReportInv'
  OBVIOUS
<1> USE DEF ReportInv, DownIsReported
<1>1. CASE Command \/ SetRegEnds \/ Link \/ Drift \/ UNCHANGED vars
  BY <1>1, OthersLeavePoller
<1>2. CASE BeginPoll
  BY <1>2 DEF BeginPoll
<1>3. CASE ConnectOk
  BY <1>3 DEF ConnectOk
<1>4. CASE ConnectFails
  <2>1. errors' > 0 \/ wrapped'
    BY <1>4, CountedOrWrapped DEF ConnectFails, TypeOK
  <2>2. QED BY <1>4, <2>1 DEF ConnectFails, poller
<1>5. CASE ConnectReuses
  <2>1. CASE rc = 0
    BY <1>5, <2>1 DEF ConnectReuses
  <2>2. CASE rc # 0
    <3>1. errors' > 0 \/ wrapped'
      BY <1>5, <2>2, CountedOrWrapped DEF ConnectReuses, TypeOK
    <3>2. QED BY <1>5, <2>2, <3>1 DEF ConnectReuses
  <2>3. QED BY <2>1, <2>2
<1>6. CASE ReadOk
  BY <1>6 DEF ReadOk
<1>7. CASE ReadFails
  <2>1. errors' > 0 \/ wrapped'
    BY <1>7, CountedOrWrapped DEF ReadFails, TypeOK
  <2>2. QED BY <1>7, <2>1 DEF ReadFails
<1>8. CASE CopyTest
  BY <1>8 DEF CopyTest, driver, TypeOK
<1>9. CASE CopyStore
  BY <1>9 DEF CopyStore, driver
<1>10. CASE CopyDone
  <2>1. rc > 0
    BY <1>10 DEF CopyDone, ConnectionInv
  <2>2. QED BY <1>10, <2>1 DEF CopyDone, driver, ghost, TypeOK
<1>11. CASE ReadMasterEnds
  <2>1. CASE rc > 0
    BY <1>11, <2>1 DEF ReadMasterEnds
  <2>2. CASE ~(rc > 0)
    <3>1. att > 0 /\ rc <= 0
      BY <1>11, <2>2, MasterAssumption DEF ReadMasterEnds, TryAgain, TypeOK
    <3>2. errors > 0 \/ wrapped
      BY <1>11, <3>1 DEF ReadMasterEnds
    <3>3. /\ pc' = "idle" /\ phase' = "read"
          /\ rerrors' = [r \in Reg |-> errors]
      BY <1>11, <2>2 DEF ReadMasterEnds, PublishErrors
    <3>4. wrapped' <=> wrapped
      BY <1>11, <3>1, Zenon DEF ReadMasterEnds
    <3>5. QED BY <3>2, <3>3, <3>4
  <2>3. QED BY <2>1, <2>2
<1>12. CASE ScanReg
  BY <1>12 DEF ScanReg, TypeOK
<1>13. CASE WriteOk
  BY <1>13 DEF WriteOk, driver
<1>14. CASE WriteFails
  BY <1>14 DEF WriteFails
<1>15. CASE WriteAcked
  BY <1>15 DEF WriteAcked, TypeOK
<1>16. CASE WriteRegEnds
  BY <1>16 DEF WriteRegEnds
<1>17. CASE WriteMasterEnds
  BY <1>17 DEF WriteMasterEnds, TypeOK
<1>18. QED
  BY <1>1, <1>2, <1>3, <1>4, <1>5, <1>6, <1>7, <1>8, <1>9, <1>10, <1>11,
     <1>12, <1>13, <1>14, <1>15, <1>16, <1>17 DEF Next, Poll

\* FlagInv is kept.
LEMMA FlagStep == TypeOK /\ FlagInv /\ [Next]_vars => FlagInv'
<1> SUFFICES ASSUME TypeOK, FlagInv, [Next]_vars PROVE FlagInv'
  OBVIOUS
<1> USE DEF FlagInv, FlagClearedOnlyWhenServed, Writing
<1>1. CASE Link \/ Drift \/ UNCHANGED vars
  <2>1. UNCHANGED <<rupdate, served, pc, phase, cur, rc>>
    BY <1>1 DEF Link, Drift, DeviceChanges, vars, regs, ghost, poller, driver
  <2>2. QED BY <2>1
<1>2. ASSUME NEW r \in Reg, NEW v \in Value, SetRegBegins(r, v) PROVE FlagInv'
  BY <1>2 DEF SetRegBegins, poller, driver
<1>3. CASE SetRegEnds
  <2>1. UNCHANGED <<pc, phase, cur, rc>>
    BY <1>3 DEF SetRegEnds, poller, driver
  <2>2. rupdate' = [rupdate EXCEPT ![scmd.reg] = 1]
    BY <1>3 DEF SetRegEnds
  <2>3. \A r \in Reg : rupdate[r] = 1 => rupdate'[r] = 1
    BY <2>2 DEF TypeOK
  <2>4. \A r \in Reg : served[r] /\ rupdate[r] = 1 => served'[r]
    BY <1>3 DEF SetRegEnds, TypeOK
  <2>5. \A r \in Reg : rupdate'[r] = 0 => r # scmd.reg /\ rupdate[r] = 0
    BY <2>2 DEF TypeOK
  <2>6. \A r \in Reg : r # scmd.reg => served'[r] = served[r]
    BY <1>3 DEF SetRegEnds, TypeOK
  <2>7. OnRegister => cur \in Reg
    BY DEF TypeOK
  <2>8. QED BY <2>1, <2>3, <2>4, <2>5, <2>6, <2>7 DEF OnRegister
<1>4. CASE BeginPoll
  BY <1>4 DEF BeginPoll, regs, ghost
<1>5. CASE ConnectOk
  BY <1>5 DEF ConnectOk, TryAgain, regs
<1>6. CASE ConnectFails
  BY <1>6 DEF ConnectFails, TryAgain, regs, poller
<1>7. CASE ConnectReuses
  BY <1>7 DEF ConnectReuses, TryAgain, regs
<1>8. CASE ReadOk
  BY <1>8 DEF ReadOk, regs
<1>9. CASE ReadFails
  BY <1>9 DEF ReadFails, regs
<1>10. CASE CopyTest
  BY <1>10 DEF CopyTest, regs, TypeOK
<1>11. CASE CopyStore
  BY <1>11 DEF CopyStore, ghost, TypeOK
<1>12. CASE CopyDone
  BY <1>12 DEF CopyDone, regs, ghost, TypeOK
<1>13. CASE ReadMasterEnds
  BY <1>13 DEF ReadMasterEnds
<1>14. CASE ScanReg
  BY <1>14 DEF ScanReg, regs, ghost, TypeOK
<1>15. CASE WriteOk
  BY <1>15 DEF WriteOk, regs, driver, TypeOK, OnRegister
<1>16. CASE WriteFails
  BY <1>16 DEF WriteFails
<1>17. CASE WriteAcked
  BY <1>17 DEF WriteAcked, TypeOK, OnRegister
<1>18. CASE WriteRegEnds
  BY <1>18 DEF WriteRegEnds, regs, ghost
<1>19. CASE WriteMasterEnds
  BY <1>19 DEF WriteMasterEnds, regs, ghost
<1>20. QED
  BY <1>1, <1>2, <1>3, <1>4, <1>5, <1>6, <1>7, <1>8, <1>9, <1>10, <1>11,
     <1>12, <1>13, <1>14, <1>15, <1>16, <1>17, <1>18, <1>19 DEF Next, Poll, Command

\* ValueInv is kept.
LEMMA ValueStep ==
  TypeOK /\ ConnectionInv /\ FlagInv /\ ValueInv /\ [Next]_vars => ValueInv'
<1> SUFFICES ASSUME TypeOK, ConnectionInv, FlagInv, ValueInv, [Next]_vars
             PROVE  ValueInv'
  OBVIOUS
<1> USE DEF ValueInv, PlaceholderNeverSent, Filled
<1>1. CASE Link \/ UNCHANGED vars
  BY <1>1 DEF Link, vars, device, regs, setter, poller, driver
<1>2. ASSUME NEW r \in Reg, NEW v \in Value, SetRegBegins(r, v) PROVE ValueInv'
  <2>1. v # Placeholder
    BY MasterAssumption
  <2>2. rvalue'[r] = v /\ \A q \in Reg : q # r => rvalue'[q] = rvalue[q]
    BY <1>2 DEF SetRegBegins, TypeOK
  <2>3. \A q \in Reg : Filled(q) => rvalue'[q] # Placeholder
    BY <2>1, <2>2
  <2>4. QED BY <1>2, <2>1, <2>2, <2>3 DEF SetRegBegins, device, poller, driver
<1>3. CASE SetRegEnds
  BY <1>3 DEF SetRegEnds, device, poller, driver, TypeOK
<1>4. ASSUME NEW r \in Reg, NEW v \in Value, DeviceChanges(r, v) PROVE ValueInv'
  BY <1>4 DEF DeviceChanges, driver, regs, poller, setter, TypeOK
<1>5. CASE BeginPoll
  BY <1>5 DEF BeginPoll, device, regs, setter
<1>6. CASE ConnectOk
  BY <1>6 DEF ConnectOk, device, regs, setter
<1>7. CASE ConnectFails
  BY <1>7 DEF ConnectFails, device, regs, poller, setter
<1>8. CASE ConnectReuses
  BY <1>8 DEF ConnectReuses, device, regs, setter
<1>9. CASE ReadOk
  BY <1>9 DEF ReadOk, device, regs, setter, Reg
<1>10. CASE ReadFails
  BY <1>10 DEF ReadFails, device, regs, setter
<1>11. CASE CopyTest
  <2>1. ~MayCopy(cur) => Filled(cur)
    BY <1>11 DEF CopyTest, MayCopy, TypeOK
  <2>2. CASE MayCopy(cur)
    BY <1>11, <2>2 DEF CopyTest, device, regs, setter, driver, TypeOK
  <2>3. CASE ~MayCopy(cur)
    <3>1. cur' = cur + 1 /\ cur \in Nat
      BY <1>11, <2>3 DEF CopyTest, Reg
    <3>2. \A r \in Reg : r < cur' => r < cur \/ r = cur
      BY <3>1 DEF Reg
    <3>3. QED BY <1>11, <2>1, <2>3, <3>2 DEF CopyTest, device, regs, setter, driver, TypeOK
  <2>4. QED BY <2>2, <2>3
<1>12. CASE CopyStore
  <2>1. cur \in Reg
    BY <1>12 DEF CopyStore, TypeOK, OnRegister
  <2>2. buf[cur] # Placeholder
    BY <1>12, <2>1, MasterAssumption DEF CopyStore
  <2>3. rvalue'[cur] # Placeholder /\ \A q \in Reg : q # cur => rvalue'[q] = rvalue[q]
    BY <1>12, <2>1, <2>2 DEF CopyStore, TypeOK
  <2>4. \A q \in Reg : Filled(q) => rvalue'[q] # Placeholder
    BY <2>3
  <2>5. \A q \in Reg : q < cur' => q < cur \/ q = cur
    BY <1>12, <2>1 DEF CopyStore, Reg
  <2>6. QED BY <1>12, <2>3, <2>4, <2>5 DEF CopyStore, device, setter, driver, TypeOK
<1>13. CASE CopyDone
  <2>1. \A r \in Reg : r < cur
    BY <1>13, MasterAssumption DEF CopyDone, TypeOK, Reg
  <2>2. QED BY <1>13, <2>1 DEF CopyDone, device, regs, setter, driver
<1>14. CASE ReadMasterEnds
  BY <1>14 DEF ReadMasterEnds, device, setter
<1>15. CASE ScanReg
  BY <1>15 DEF ScanReg, device, regs, setter, TypeOK
<1>16. CASE WriteOk
  BY <1>16, MasterAssumption DEF WriteOk, driver, regs, setter, TypeOK, OnRegister
<1>17. CASE WriteFails
  BY <1>17, MasterAssumption DEF WriteFails, setter, TypeOK, OnRegister
<1>18. CASE WriteAcked
  BY <1>18 DEF WriteAcked, device, setter, TypeOK
<1>19. CASE WriteRegEnds
  BY <1>19 DEF WriteRegEnds, device, regs, setter
<1>20. CASE WriteMasterEnds
  BY <1>20 DEF WriteMasterEnds, device, regs, setter
<1>21. QED
  BY <1>1, <1>2, <1>3, <1>4, <1>5, <1>6, <1>7, <1>8, <1>9, <1>10, <1>11, <1>12,
     <1>13, <1>14, <1>15, <1>16, <1>17, <1>18, <1>19, <1>20
     DEF Next, Poll, Command, Drift

\* GoodWasRead is kept: errors are withdrawn only from filled registers.
LEMMA GoodStep ==
  TypeOK /\ ReportInv /\ ValueInv /\ GoodWasRead /\ [Next]_vars => GoodWasRead'
<1> SUFFICES ASSUME TypeOK, ReportInv, ValueInv, GoodWasRead, [Next]_vars
             PROVE  GoodWasRead'
  OBVIOUS
<1> USE DEF GoodWasRead, Filled
<1>1. CASE Link \/ Drift \/ UNCHANGED vars
  BY <1>1 DEF Link, Drift, DeviceChanges, vars, regs, ghost
<1>2. ASSUME NEW r \in Reg, NEW v \in Value, SetRegBegins(r, v) PROVE GoodWasRead'
  BY <1>2, MasterAssumption DEF SetRegBegins, TypeOK
<1>3. CASE SetRegEnds
  BY <1>3 DEF SetRegEnds
<1>4. CASE ConnectFails
  BY <1>4, CountedOrWrapped DEF ConnectFails, regs, TypeOK
<1>5. CASE ConnectReuses
  <2>1. CASE rc = 0
    BY <1>5, <2>1 DEF ConnectReuses, regs
  <2>2. CASE rc # 0
    BY <1>5, <2>2, CountedOrWrapped DEF ConnectReuses, regs, TypeOK
  <2>3. QED BY <2>1, <2>2
<1>6. CASE ReadFails
  BY <1>6, CountedOrWrapped DEF ReadFails, regs, TypeOK
<1>7. CASE CopyStore
  BY <1>7, MasterAssumption DEF CopyStore, ghost, TypeOK, OnRegister, ValueInv
<1>8. CASE ReadMasterEnds
  <2>1. CASE rc > 0
    BY <1>8, <2>1 DEF ReadMasterEnds, ValueInv
  <2>2. CASE ~(rc > 0)
    <3>1. errors > 0 \/ wrapped
      BY <1>8, <2>2, MasterAssumption DEF ReadMasterEnds, TryAgain, TypeOK, ReportInv
    <3>2. rc <= 0
      BY <2>2 DEF TypeOK
    <3>3. wrapped' <=> wrapped
      BY <1>8, <3>2, Zenon DEF ReadMasterEnds
    <3>4. QED BY <1>8, <2>2, <3>1, <3>3 DEF ReadMasterEnds, PublishErrors
  <2>3. QED BY <2>1, <2>2
<1>9. CASE WriteFails
  <2>1. errors' > 0 \/ wrapped'
    BY <1>9, CountedOrWrapped DEF WriteFails, TypeOK
  <2>2. wrapped => wrapped'
    BY <1>9, CountedOrWrapped DEF WriteFails, TypeOK
  <2>3. QED BY <1>9, <2>1, <2>2 DEF WriteFails, ValueInv
<1>10. CASE WriteAcked
  BY <1>10 DEF WriteAcked, ValueInv, TypeOK
<1>11. CASE BeginPoll \/ ConnectOk \/ ReadOk \/ CopyTest \/ CopyDone \/ ScanReg
            \/ WriteOk \/ WriteRegEnds \/ WriteMasterEnds
  <2>1. UNCHANGED <<rvalue, rerrors, wrapped, polled>>
    BY <1>11 DEF BeginPoll, ConnectOk, ReadOk, CopyTest, CopyDone, ScanReg, WriteOk,
                 WriteRegEnds, WriteMasterEnds, regs, ghost
  <2>2. QED BY <2>1
<1>12. QED
  BY <1>1, <1>2, <1>3, <1>4, <1>5, <1>6, <1>7, <1>8, <1>9, <1>10, <1>11
     DEF Next, Poll, Command

\* CommandInv is kept: outside the windows no step takes a command away.
LEMMA CommandStep == TypeOK /\ FlagInv /\ CommandInv /\ [Next]_vars => CommandInv'
<1> SUFFICES ASSUME TypeOK, FlagInv, CommandInv, [Next]_vars PROVE CommandInv'
  OBVIOUS
<1> USE DEF CommandInv, InWindow
<1>0. Writable \subseteq Reg
  BY MasterAssumption DEF Reg
<1>1. CASE Link \/ Drift \/ UNCHANGED vars
  BY <1>1 DEF Link, Drift, DeviceChanges, vars, regs, ghost, setter, poller
<1>2. ASSUME NEW r \in Reg, NEW v \in Value, SetRegBegins(r, v) PROVE CommandInv'
  <2>1. raced'[r] <=> InWindow(r)
    BY <1>2 DEF SetRegBegins, TypeOK
  <2>2. /\ due'[r] = v /\ rvalue'[r] = v
        /\ spc' = "flag" /\ scmd'.reg = r /\ spc = "idle"
    BY <1>2 DEF SetRegBegins, TypeOK
  <2>3. \A q \in Reg : q # r => /\ due'[q] = due[q] /\ rvalue'[q] = rvalue[q]
                               /\ raced'[q] = raced[q]
    BY <1>2 DEF SetRegBegins, TypeOK
  <2>4. UNCHANGED <<rupdate, pc, cur>>
    BY <1>2 DEF SetRegBegins, poller
  <2>5. QED BY <1>0, <2>1, <2>2, <2>3, <2>4
<1>3. CASE SetRegEnds
  <2>1. UNCHANGED <<rvalue, due, pc, cur>>
    BY <1>3 DEF SetRegEnds, poller
  <2>2. \A q \in Reg : /\ raced[q] => raced'[q]
                       /\ q = scmd.reg => rupdate'[q] = 1
                       /\ rupdate[q] = 1 => rupdate'[q] = 1
    BY <1>3 DEF SetRegEnds, TypeOK
  <2>3. QED BY <1>0, <2>1, <2>2
<1>4. CASE CopyTest
  <2>1. UNCHANGED <<rvalue, rupdate, due, spc, scmd>>
    BY <1>4 DEF CopyTest, regs, setter
  <2>2. cur \in Reg /\ pc = "copy"
    BY <1>4 DEF CopyTest
  <2>3. \A q \in Reg : raced[q] => raced'[q]
    BY <1>4 DEF CopyTest, TypeOK
  <2>4. raced'[cur] <=> raced[cur] \/ (spc = "flag" /\ scmd.reg = cur)
    BY <1>4, <2>2 DEF CopyTest, TypeOK
  <2>5. CASE MayCopy(cur)
    BY <1>0, <1>4, <2>1, <2>2, <2>3, <2>4, <2>5 DEF CopyTest, MayCopy, TypeOK
  <2>6. CASE ~MayCopy(cur)
    BY <1>0, <1>4, <2>1, <2>2, <2>3, <2>6 DEF CopyTest
  <2>7. QED BY <2>5, <2>6
<1>5. CASE CopyStore
  <2>1. \A q \in Reg : q # cur => rvalue'[q] = rvalue[q]
    BY <1>5 DEF CopyStore, TypeOK
  <2>2. QED BY <1>0, <1>5, <2>1 DEF CopyStore, ghost, setter
<1>6. CASE WriteOk
  <2>1. cur \in Reg
    BY <1>6 DEF WriteOk, TypeOK, OnRegister
  <2>2. /\ due'[cur] = None \/ (due'[cur] = due[cur] /\ due[cur] # rvalue[cur])
        /\ \A q \in Reg : q # cur => due'[q] = due[q]
    BY <1>6, <2>1 DEF WriteOk, TypeOK
  <2>3. QED BY <1>0, <1>6, <2>1, <2>2 DEF WriteOk, regs, setter
<1>7. CASE WriteAcked
  <2>1. \A q \in Reg : q # cur => rupdate'[q] = rupdate[q]
    BY <1>7 DEF WriteAcked, TypeOK
  <2>2. QED BY <1>0, <1>7, <2>1 DEF WriteAcked, setter
<1>8. CASE BeginPoll \/ ConnectOk \/ ConnectFails \/ ConnectReuses \/ ReadOk
           \/ ReadFails \/ CopyDone \/ ReadMasterEnds \/ ScanReg \/ WriteFails
           \/ WriteRegEnds \/ WriteMasterEnds
  <2>1. UNCHANGED <<rvalue, rupdate, due, raced, spc, scmd>>
    BY <1>8 DEF BeginPoll, ConnectOk, ConnectFails, ConnectReuses, ReadOk, ReadFails,
                CopyDone, ReadMasterEnds, ScanReg, WriteFails, WriteRegEnds,
                WriteMasterEnds, regs, setter, ghost
  <2>2. pc' \notin {"store", "acked"}
    BY <1>8 DEF BeginPoll, ConnectOk, ConnectFails, ConnectReuses, ReadOk, ReadFails,
                CopyDone, ReadMasterEnds, ScanReg, WriteFails, WriteRegEnds,
                WriteMasterEnds, poller
  <2>3. QED BY <2>1, <2>2
<1>9. QED
  BY <1>1, <1>2, <1>3, <1>4, <1>5, <1>6, <1>7, <1>8 DEF Next, Poll, Command

-----------------------------------------------------------------------------
(* The theorems.                                                           *)

\* The whole invariant holds initially and is kept.
THEOREM Inductive == Spec => []IInv
<1>1. Init => IInv
  <2> SUFFICES ASSUME Init PROVE IInv
    OBVIOUS
  <2>1. TypeOK
    BY InitTypeOK
  <2>2. ConnectionInv /\ ReportInv /\ GoodWasRead
    BY DEF Init, ConnectionInv, IoOnlyConnected, FailedConnectionNotReused, ReportInv,
            DownIsReported, GoodWasRead
  <2>3. FlagInv /\ ValueInv
    BY DEF Init, FlagInv, FlagClearedOnlyWhenServed, Writing, ValueInv,
           PlaceholderNeverSent, Filled
  <2>4. CommandInv
    BY MasterAssumption DEF Init, CommandInv, Reg
  <2>5. QED BY <2>1, <2>2, <2>3, <2>4 DEF IInv
<1>2. IInv /\ [Next]_vars => IInv'
  BY NextTypeOK, ConnectionStep, ReportStep, FlagStep, ValueStep, GoodStep,
     CommandStep DEF IInv
<1>3. QED BY <1>1, <1>2, PTL DEF Spec

\* Exchanges happen only on a connected context (mb_connect), for any device
\* and network.
THEOREM Connected == Spec => []IoOnlyConnected
<1>1. IInv => IoOnlyConnected
  BY DEF IInv, ConnectionInv
<1>2. QED BY <1>1, Inductive, PTL

\* A connection whose last exchange failed carries no further exchange
\* (mb_connect), unless the error counter has run over.
THEOREM ConnectionRenewed == Spec => []FailedConnectionNotReused
<1>1. IInv => FailedConnectionNotReused
  BY DEF IInv, ConnectionInv
<1>2. QED BY <1>1, Inductive, PTL

\* rupdate falls only after an answered write (write_reg), for any set of
\* writable registers and any order of commands.
THEOREM FlagsAreServed == Spec => []FlagClearedOnlyWhenServed
<1>1. IInv => FlagClearedOnlyWhenServed
  BY DEF IInv, FlagInv
<1>2. QED BY <1>1, Inductive, PTL

\* A failed reading shows on every register (read_master), for any number of
\* attempts and any width of the counter that has not run over.
THEOREM FailureIsReported == Spec => []DownIsReported
<1>1. IInv => DownIsReported
  BY DEF IInv, ReportInv
<1>2. QED BY <1>1, Inductive, PTL

\* A register without errors was filled by a device or an operator
\* (read_allregs, read_master).
THEOREM GoodIsGenuine == Spec => []GoodWasRead
<1>1. IInv => GoodWasRead
  BY DEF IInv
<1>2. QED BY <1>1, Inductive, PTL

\* The device never receives the value of init_regs (write_reg).
THEOREM NoPlaceholderSent == Spec => []PlaceholderNeverSent
<1>1. IInv => PlaceholderNeverSent
  BY DEF IInv, ValueInv
<1>2. QED BY <1>1, Inductive, PTL

\* Outside the three windows no command is ever lost (set_reg, read_allregs,
\* write_reg).
THEOREM CommandsAreKept == Spec => []CommandKeptUnlessRaced
<1>1. IInv => CommandKeptUnlessRaced
  BY DEF IInv, CommandInv, CommandKeptUnlessRaced
<1>2. QED BY <1>1, Inductive, PTL

-----------------------------------------------------------------------------
(* The driver implements module Mirror.                                    *)

\* What the refinement needs besides IInv: only writable registers are ever
\* commanded, and between the test and the store of the copy loop the flag of
\* a register is down, or set_reg has raced.
WindowInv ==
  /\ spc = "flag" => scmd.reg \in Writable
  /\ \A r \in Reg : r \notin Writable => rupdate[r] = 0 /\ due[r] = None
  /\ pc = "store" => rupdate[cur] = 0 \/ raced[cur]

\* It is kept.
LEMMA WindowStep == TypeOK /\ WindowInv /\ [Next]_vars => WindowInv'
<1> SUFFICES ASSUME TypeOK, WindowInv, [Next]_vars PROVE WindowInv'
  OBVIOUS
<1> USE DEF WindowInv
<1>0. Writable \subseteq Reg
  BY MasterAssumption DEF Reg
<1>1. CASE Link \/ Drift \/ UNCHANGED vars
  BY <1>1 DEF Link, Drift, DeviceChanges, vars, regs, ghost, setter, poller
<1>2. ASSUME NEW r \in Reg, NEW v \in Value, SetRegBegins(r, v) PROVE WindowInv'
  <2>1. /\ scmd'.reg = r /\ r \in Writable
        /\ UNCHANGED <<rupdate, pc, cur>>
    BY <1>2 DEF SetRegBegins, poller
  <2>2. \A q \in Reg : q # r => due'[q] = due[q] /\ raced'[q] = raced[q]
    BY <1>2 DEF SetRegBegins, TypeOK
  <2>3. pc = "store" /\ cur = r => raced'[r]
    BY <1>2 DEF SetRegBegins, TypeOK, InWindow
  <2>4. pc = "store" => cur \in Reg
    BY DEF TypeOK, OnRegister
  <2>5. QED BY <2>1, <2>2, <2>3, <2>4
<1>3. CASE SetRegEnds
  <2>1. /\ UNCHANGED <<due, pc, cur>> /\ spc' = "idle"
        /\ scmd.reg \in Writable
    BY <1>3 DEF SetRegEnds, poller
  <2>2. \A q \in Reg : q # scmd.reg => rupdate'[q] = rupdate[q] /\ raced'[q] = raced[q]
    BY <1>3 DEF SetRegEnds, TypeOK
  <2>3. pc = "store" /\ cur = scmd.reg => raced'[cur]
    BY <1>0, <1>3, <2>1 DEF SetRegEnds, TypeOK, InWindow
  <2>4. pc = "store" => cur \in Reg
    BY DEF TypeOK, OnRegister
  <2>5. QED BY <1>0, <2>1, <2>2, <2>3, <2>4
<1>4. CASE CopyTest
  <2>1. UNCHANGED <<rupdate, due, spc, scmd>> /\ cur \in Reg
    BY <1>4 DEF CopyTest, regs, setter
  <2>2. pc' = "store" => MayCopy(cur) /\ cur' = cur
    BY <1>4 DEF CopyTest
  <2>3. QED BY <2>1, <2>2 DEF MayCopy, TypeOK
<1>5. CASE WriteOk
  <2>1. cur \in Reg
    BY <1>5 DEF WriteOk, TypeOK, OnRegister
  <2>2. \A q \in Reg : due'[q] = due[q] \/ due'[q] = None
    BY <1>5, <2>1 DEF WriteOk, TypeOK
  <2>3. QED BY <1>5, <2>2 DEF WriteOk, regs, setter
<1>6. CASE WriteAcked
  <2>1. \A q \in Reg : rupdate'[q] = rupdate[q] \/ rupdate'[q] = 0
    BY <1>6 DEF WriteAcked, TypeOK
  <2>2. QED BY <1>6, <2>1 DEF WriteAcked, setter
<1>7. CASE BeginPoll \/ ConnectOk \/ ConnectFails \/ ConnectReuses \/ ReadOk
           \/ ReadFails \/ CopyStore \/ CopyDone \/ ReadMasterEnds \/ ScanReg
           \/ WriteFails \/ WriteRegEnds \/ WriteMasterEnds
  <2>1. UNCHANGED <<rupdate, due, raced, spc, scmd>>
    BY <1>7 DEF BeginPoll, ConnectOk, ConnectFails, ConnectReuses, ReadOk, ReadFails,
                CopyStore, CopyDone, ReadMasterEnds, ScanReg, WriteFails, WriteRegEnds,
                WriteMasterEnds, regs, setter, ghost
  <2>2. pc' # "store"
    BY <1>7 DEF BeginPoll, ConnectOk, ConnectFails, ConnectReuses, ReadOk, ReadFails,
                CopyStore, CopyDone, ReadMasterEnds, ScanReg, WriteFails, WriteRegEnds,
                WriteMasterEnds, poller
  <2>3. QED BY <2>1, <2>2
<1>8. QED
  BY <1>1, <1>2, <1>3, <1>4, <1>5, <1>6, <1>7 DEF Next, Poll, Command

\* Steps that change nothing module Mirror sees are stutters of it.
LEMMA Unseen ==
  ASSUME \/ BeginPoll \/ ConnectOk \/ ConnectFails \/ ConnectReuses \/ ReadOk
         \/ ReadFails \/ CopyDone \/ ReadMasterEnds \/ ScanReg
         \/ WriteRegEnds \/ WriteMasterEnds \/ Link \/ UNCHANGED vars
  PROVE  UNCHANGED M!mirror
BY DEF M!mirror, BeginPoll, ConnectOk, ConnectFails, ConnectReuses, ReadOk, ReadFails,
       CopyDone, ReadMasterEnds, ScanReg, WriteRegEnds, WriteMasterEnds, Link, vars,
       regs, ghost, device

\* Every step of the driver is one of Mirror's, or none.
LEMMA MirrorStep == IInv /\ WindowInv /\ [Next]_vars => [M!Next]_(M!mirror)
<1> SUFFICES ASSUME IInv, WindowInv, [Next]_vars PROVE [M!Next]_(M!mirror)
  OBVIOUS
<1>0. TypeOK /\ FlagInv /\ ValueInv /\ CommandInv /\ Writable \subseteq Reg
  BY MasterAssumption DEF IInv, Reg
<1>1. ASSUME NEW r \in Reg, NEW v \in Value, DeviceChanges(r, v) PROVE M!Next
  <2>1. M!Drift(r, v)
    BY <1>1 DEF DeviceChanges, M!Drift, regs, ghost
  <2>2. QED BY <2>1 DEF M!Next
<1>2. ASSUME NEW r \in Reg, NEW v \in Value, SetRegBegins(r, v) PROVE M!Next
  <2>1. InWindow(r) \in BOOLEAN
    BY DEF InWindow
  <2>2. M!Give(r, v)
    BY <1>2, <2>1 DEF SetRegBegins, M!Give, device
  <2>3. QED BY <2>2 DEF M!Next
<1>3. CASE SetRegEnds
  <2>1. scmd.reg \in Writable /\ scmd.reg \in Reg
    BY <1>0, <1>3 DEF SetRegEnds, WindowInv
  <2>2. InWindow(scmd.reg) \in BOOLEAN
    BY DEF InWindow
  <2>3. M!Meet(scmd.reg)
    BY <1>3, <2>2 DEF SetRegEnds, M!Meet
  <2>4. M!Ask(scmd.reg)
    BY <1>3, <2>1, <2>3 DEF SetRegEnds, M!Ask, device
  <2>5. QED BY <2>1, <2>4 DEF M!Next
<1>4. CASE CopyTest
  <2>1. M!Meet(cur)
    <3>1. (spc = "flag" /\ scmd.reg = cur) \in BOOLEAN
      OBVIOUS
    <3>2. QED BY <1>4, <3>1 DEF CopyTest, M!Meet
  <2>2. cur \in Reg /\ UNCHANGED <<rvalue, dev, rupdate, due>>
    BY <1>4 DEF CopyTest, device, regs
  <2>3. QED BY <2>1, <2>2 DEF M!Next
<1>5. CASE CopyStore
  <2>1. cur \in Reg /\ buf[cur] \in Value
    BY <1>0, <1>5 DEF CopyStore, TypeOK, OnRegister, ValueInv
  <2>2. (due[cur] = None /\ rupdate[cur] = 0) \/ raced[cur]
    BY <1>0, <1>5, <2>1 DEF CopyStore, WindowInv, CommandInv, InWindow
  <2>3. M!Follow(cur, buf[cur])
    BY <1>5, <2>2 DEF CopyStore, M!Follow, device, ghost
  <2>4. QED BY <2>1, <2>3 DEF M!Next
<1>6. CASE WriteOk
  <2>1. cur \in Reg /\ rupdate[cur] = 1
    BY <1>0, <1>6 DEF WriteOk, TypeOK, OnRegister, FlagInv, Writing
  <2>2. cur \in Writable
    BY <2>1 DEF WindowInv
  <2>3. \/ due' = due
        \/ due[cur] = rvalue[cur] /\ due' = [due EXCEPT ![cur] = None]
    BY <1>0, <1>6, <2>1 DEF WriteOk, TypeOK
  <2>4. M!Deliver(cur)
    BY <1>6, <2>1, <2>2, <2>3 DEF WriteOk, M!Deliver, regs
  <2>5. QED BY <2>1, <2>4 DEF M!Next
<1>7. CASE WriteFails
  <2>1. cur \in Reg /\ rupdate[cur] = 1
    BY <1>0, <1>7 DEF WriteFails, TypeOK, OnRegister, FlagInv, Writing
  <2>2. cur \in Writable
    BY <2>1 DEF WindowInv
  <2>3. CASE dev' = dev
    BY <1>7, <2>3 DEF WriteFails, M!mirror
  <2>4. CASE dev' = [dev EXCEPT ![cur] = rvalue[cur]]
    <3>1. M!Deliver(cur)
      BY <1>7, <2>1, <2>2, <2>4 DEF WriteFails, M!Deliver
    <3>2. QED BY <2>1, <3>1 DEF M!Next
  <2>5. QED BY <1>7, <2>3, <2>4 DEF WriteFails
<1>8. CASE WriteAcked
  <2>1. cur \in Reg
    BY <1>0, <1>8 DEF WriteAcked, TypeOK, OnRegister
  <2>2. due[cur] = None \/ raced[cur]
    BY <1>0, <1>8, <2>1 DEF WriteAcked, WindowInv, CommandInv, InWindow
  <2>3. M!Answered(cur)
    BY <1>8, <2>2 DEF WriteAcked, M!Answered, device
  <2>4. QED BY <2>1, <2>3 DEF M!Next
<1>9. QED
  BY <1>1, <1>2, <1>3, <1>4, <1>5, <1>6, <1>7, <1>8, Unseen
     DEF Next, Poll, Command, Drift

\* The driver implements module Mirror (set_reg, read_allregs, write_reg), for
\* any number of registers and any behaviour of the network: what is said
\* there of readings, commands and writes holds of every register.
THEOREM Implements == Spec => ImplementsMirror
<1>1. Init => M!Init
  BY MasterAssumption DEF Init, M!Init
<1>2. Init => WindowInv
  BY MasterAssumption DEF Init, WindowInv, Reg
<1>3. Spec => []WindowInv
  <2>1. Spec => []TypeOK
    BY TypeCorrect
  <2>2. TypeOK /\ WindowInv /\ [Next]_vars => WindowInv'
    BY WindowStep
  <2>3. QED BY <1>2, <2>1, <2>2, PTL DEF Spec
<1>4. QED
  BY <1>1, <1>3, MirrorStep, Inductive, PTL DEF Spec, ImplementsMirror, M!Spec

=============================================================================
