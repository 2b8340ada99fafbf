--------------------------- MODULE RegSyncProofs ---------------------------
(* What TLAPS proves of RegSync, for any number of entries, any set of      *)
(* values and any commands of the clients.                                  *)
EXTENDS RegSync, TLAPS

-----------------------------------------------------------------------------
(* The invariant.  The task's decisions rest on looks that may be outdated   *)
(* when it acts on them; what each look still says is stated per place.      *)

\* The stand-in is in the driver only if it was sent there.
OnlySentIsBad == rvalue = Bad => badSent

\* What the looks of this pass found is still so, or was cleared meanwhile.
LooksHold ==
  /\ pc = "value" => (hasErr => rerrors \/ flicker)
  /\ pc = "again" /\ plcVal = Bad => badSent \/ rerrors \/ flicker
  /\ pc = "publish" /\ plcVal = Bad => badSent \/ plcErr \/ flicker

\* The entry's flag while the task is at it: as it was at Begin, or raised by
\* an error seen since.
FlagKept ==
  /\ pc \in {"errors", "value"} => varErrors[pos] = oldErr
  /\ pc = "again" /\ varErrors[pos] => oldErr \/ rerrors \/ flicker
  /\ pc = "publish" /\ varErrors[pos] => oldErr \/ plcErr \/ flicker

AtEntry == pc \in {"errors", "value", "again", "publish"}

\* The server's copy of the status changes only when the task publishes, or
\* another task makes it good.
StatusKept ==
  /\ AtEntry /\ ~opcErr => uaGood[pos]
  /\ AtEntry /\ pos \notin Driven => oldErr = ~uaGood[pos] \/ dirty[pos]
  /\ pc = "command" /\ ~plcErr /\ ~opcErr => uaGood[pos]

\* Entry and server agree on the errors, but for the entry the task is at.
OthersAgree ==
  \A x \in Var \ Driven : x # pos \/ ~AtEntry => varErrors[x] = ~uaGood[x] \/ dirty[x]

IInv == /\ TypeOK /\ OnlySentIsBad /\ LooksHold /\ FlagKept /\ StatusKept
        /\ OthersAgree /\ BadNeverGood

-----------------------------------------------------------------------------
(* Types.                                                                   *)

LEMMA TypeInit == Init => TypeOK
<1> SUFFICES ASSUME Init PROVE TypeOK
  OBVIOUS
<1>1. 1 \in Var
  BY SyncAssumption DEF Var
<1> QED
  BY <1>1 DEF Init, NoLocals, TypeOK, Word

\* The error, once set or cleared, and the history of it are Booleans.
LEMMA ErrorsBoolean ==
  ASSUME NEW e \in BOOLEAN, SetErrors(e), flicker \in BOOLEAN
  PROVE  rerrors' \in BOOLEAN /\ flicker' \in BOOLEAN
<1>1. rerrors' \in BOOLEAN
  BY Zenon DEF SetErrors
<1>2. flicker' = (flicker \/ (Looking /\ rerrors /\ ~e))
  BY Zenon DEF SetErrors
<1>3. flicker' \in BOOLEAN
  BY <1>2, Zenon
<1> QED
  BY <1>1, <1>3

\* What the driver does.
LEMMA TypeDriver ==
  ASSUME TypeOK, PollWrites \/ PollFails
                  \/ \E v \in Value \cup {rvalue} : PollReads(v)
  PROVE  TypeOK'
<1> USE DEF TypeOK, Word, opc, regmap, locals, opcOld
<1>1. CASE PollWrites
  <2>1. SetErrors(FALSE)
    BY <1>1 DEF PollWrites
  <2>2. rerrors' \in BOOLEAN /\ flicker' \in BOOLEAN
    BY <2>1, ErrorsBoolean
  <2>3. UNCHANGED <<dirty, badSent>>
    BY <2>1 DEF SetErrors
  <2> QED
    BY <1>1, <2>2, <2>3 DEF PollWrites
<1>2. CASE PollFails
  <2>1. SetErrors(TRUE)
    BY <1>2 DEF PollFails
  <2>2. rerrors' \in BOOLEAN /\ flicker' \in BOOLEAN
    BY <2>1, ErrorsBoolean
  <2>3. UNCHANGED <<dirty, badSent>>
    BY <2>1 DEF SetErrors
  <2> QED
    BY <1>2, <2>2, <2>3 DEF PollFails
<1>3. CASE \E v \in Value \cup {rvalue} : PollReads(v)
  <2>1. SetErrors(FALSE)
    BY <1>3 DEF PollReads
  <2>2. rerrors' \in BOOLEAN /\ flicker' \in BOOLEAN
    BY <2>1, ErrorsBoolean
  <2>3. UNCHANGED <<dirty, badSent>>
    BY <2>1 DEF SetErrors
  <2> QED
    BY <1>3, <2>2, <2>3 DEF PollReads
<1> QED
  BY <1>1, <1>2, <1>3

\* What the server does.
LEMMA TypeServer ==
  ASSUME TypeOK, Client \/ Tasks \/ \E x \in Var : RefreshValue(x)
  PROVE  TypeOK'
<1> USE DEF TypeOK, Word, plc, opc, regmap, locals, opcOld, history
<1>1. CASE Client
  BY <1>1, SyncAssumption DEF Client, ClientWrites
<1>2. CASE \E x \in Var : RefreshValue(x)
  BY <1>2 DEF RefreshValue
<1>3. CASE Tasks
  <2>1. PICK x \in Driven, v \in Value : TaskWrites(x, v)
    BY <1>3 DEF Tasks
  <2>2. rawJunk' \in [Var -> BOOLEAN]
    BY <2>1 DEF TaskWrites
  <2> QED
    BY <2>1, <2>2, SyncAssumption DEF TaskWrites
<1> QED
  BY <1>1, <1>2, <1>3

\* What the task does.
LEMMA TypeRefresh ==
  ASSUME TypeOK, Refresh
  PROVE  TypeOK'
<1> USE DEF TypeOK, Word, plc, opc, regmap, locals, opcOld, history
<1>1. CASE Begin
  BY <1>1 DEF Begin
<1>2. CASE LookAtErrors
  BY <1>2 DEF LookAtErrors
<1>3. CASE LookAtValue
  <2>1. plcVal' \in Word
    BY <1>3 DEF LookAtValue
  <2>2. varErrors' \in [Var -> BOOLEAN]
    BY <1>3 DEF LookAtValue
  <2>3. number' \in [Var -> Word] /\ numJunk' \in [Var -> BOOLEAN]
    BY <1>3, <2>1 DEF LookAtValue
  <2> QED
    BY <1>3, <2>1, <2>2, <2>3 DEF LookAtValue
<1>4. CASE LookAgain
  BY <1>4 DEF LookAgain
<1>5. CASE Publish
  BY <1>5 DEF Publish, OpcSet
<1>6. CASE NoNews
  BY <1>6 DEF NoNews
<1>7. pos = NVar \/ pos + 1 \in Var
  BY SyncAssumption DEF Var
<1>8. ASSUME NextEntry PROVE pos' \in Var
  BY <1>7, <1>8, SyncAssumption DEF NextEntry, Var
<1>9. CASE Executes
  BY <1>8, <1>9 DEF Executes, NextEntry, Forget
<1>10. CASE Passes
  BY <1>8, <1>10 DEF Passes, NextEntry, Forget
<1> QED
  BY <1>1, <1>2, <1>3, <1>4, <1>5, <1>6, <1>9, <1>10 DEF Refresh

LEMMA TypeStep == TypeOK /\ [Next]_vars => TypeOK'
<1> SUFFICES ASSUME TypeOK, [Next]_vars PROVE TypeOK'
  OBVIOUS
<1>1. CASE Next
  BY <1>1, TypeDriver, TypeServer, TypeRefresh DEF Next
<1>2. CASE UNCHANGED vars
  BY <1>2 DEF vars, plc, opc, regmap, locals, opcOld, history, TypeOK
<1> QED
  BY <1>1, <1>2

\* TypeOK holds in every reachable state, for any constants.
THEOREM TypeCorrect == Spec => []TypeOK
<1> QED
  BY TypeInit, TypeStep, PTL DEF Spec

-----------------------------------------------------------------------------
(* The invariant is inductive.                                              *)

Rest == /\ OnlySentIsBad /\ LooksHold /\ FlagKept /\ StatusKept
        /\ OthersAgree /\ BadNeverGood

LEMMA RestInit == Init => Rest
<1> SUFFICES ASSUME Init PROVE Rest
  OBVIOUS
<1>1. OnlySentIsBad
  BY SyncAssumption DEF Init, OnlySentIsBad
<1>2. LooksHold /\ FlagKept /\ StatusKept
  BY DEF Init, LooksHold, FlagKept, StatusKept, AtEntry
<1>3. OthersAgree
  BY DEF Init, OthersAgree
<1>4. BadNeverGood
  BY SyncAssumption DEF Init, BadNeverGood
<1> QED
  BY <1>1, <1>2, <1>3, <1>4 DEF Rest

\* Whatever the driver does: an error that is cleared while the task is
\* between its looks leaves a mark.
LEMMA DriverKeeps ==
  ASSUME IInv, NEW e \in BOOLEAN, SetErrors(e),
         rvalue' \in Value \cup {rvalue},
         UNCHANGED <<opc, regmap, pc, pos, locals>>
  PROVE  Rest'
<1> USE DEF opc, regmap, locals, opcOld
<1>1. rerrors' = e /\ UNCHANGED <<dirty, badSent>>
  BY DEF SetErrors
<1>2. flicker => flicker'
  BY Zenon DEF SetErrors
<1>3. Looking /\ rerrors => rerrors' \/ flicker'
  BY Zenon DEF SetErrors
<1>4. OnlySentIsBad'
  BY <1>1, SyncAssumption DEF IInv, OnlySentIsBad
<1>5. LooksHold'
  BY <1>1, <1>2, <1>3 DEF IInv, LooksHold, Looking
<1>6. FlagKept'
  BY <1>1, <1>2, <1>3 DEF IInv, FlagKept, Looking
<1>7. StatusKept' /\ OthersAgree' /\ BadNeverGood'
  BY <1>1 DEF IInv, StatusKept, OthersAgree, BadNeverGood, AtEntry
<1> QED
  BY <1>4, <1>5, <1>6, <1>7 DEF Rest

LEMMA RestDriver ==
  ASSUME IInv, PollWrites \/ PollFails
                  \/ \E v \in Value \cup {rvalue} : PollReads(v)
  PROVE  Rest'
<1>1. CASE PollWrites
  BY <1>1, DriverKeeps DEF PollWrites
<1>2. CASE PollFails
  BY <1>2, DriverKeeps DEF PollFails
<1>3. CASE \E v \in Value \cup {rvalue} : PollReads(v)
  <2>1. PICK v \in Value \cup {rvalue} : PollReads(v)
    BY <1>3
  <2>2. rvalue' \in Value \cup {rvalue}
    BY <2>1 DEF PollReads
  <2> QED
    BY <2>1, <2>2, DriverKeeps DEF PollReads
<1> QED
  BY <1>1, <1>2, <1>3

\* Another task makes a variable good, and writes no stand-in.
LEMMA RestTasks == ASSUME IInv, Tasks PROVE Rest'
<1> USE DEF plc, regmap, locals, opcOld, history
<1>1. PICK x \in Driven, v \in Value : TaskWrites(x, v)
  BY DEF Tasks
<1>2. UNCHANGED <<plc, regmap, pc, pos, locals, history>>
  BY <1>1 DEF TaskWrites
<1>3. x \in Var /\ v # Bad
  BY SyncAssumption
<1>4. /\ uaGood'[x] = TRUE /\ node'[x] = v
      /\ \A y \in Var : y # x => /\ uaGood'[y] = uaGood[y]
                                /\ node'[y] = node[y]
                                /\ nodeGood'[y] = nodeGood[y]
  BY <1>1, <1>3 DEF TaskWrites, IInv, TypeOK
<1>5. OnlySentIsBad' /\ LooksHold' /\ FlagKept'
  BY <1>2 DEF IInv, OnlySentIsBad, LooksHold, FlagKept
<1>6. StatusKept'
  BY <1>2, <1>4 DEF IInv, TypeOK, StatusKept, AtEntry
<1>7. OthersAgree'
  BY <1>2, <1>4 DEF IInv, OthersAgree, AtEntry
<1>8. BadNeverGood'
  BY <1>2, <1>3, <1>4 DEF IInv, BadNeverGood
<1> QED
  BY <1>5, <1>6, <1>7, <1>8 DEF Rest

\* A client writes no stand-in, and a refresh reaches the copy only.
LEMMA RestServer ==
  ASSUME IInv, Client \/ \E x \in Var : RefreshValue(x)
  PROVE  Rest'
<1> USE DEF plc, opc, regmap, locals, opcOld, history
<1>1. UNCHANGED <<plc, uaGood, regmap, pc, pos, locals, history>>
  BY DEF Client, ClientWrites, RefreshValue
<1>2. OnlySentIsBad' /\ LooksHold'
  BY <1>1 DEF IInv, OnlySentIsBad, LooksHold
<1>3. FlagKept' /\ StatusKept' /\ OthersAgree'
  BY <1>1 DEF IInv, FlagKept, StatusKept, OthersAgree, AtEntry
<1>4. BadNeverGood'
  <2>1. CASE Client
    <3>1. PICK x \in Var, v \in Asked : ClientWrites(x, v)
      BY <2>1 DEF Client
    <3>2. v # Bad
      BY SyncAssumption
    <3>3. \A y \in Var : node'[y] = Bad => y # x /\ node[y] = Bad
      BY <3>1, <3>2 DEF ClientWrites, IInv, TypeOK
    <3>4. \A y \in Var : y # x => nodeGood'[y] = nodeGood[y]
      BY <3>1 DEF ClientWrites, IInv, TypeOK
    <3> QED
      BY <1>1, <3>3, <3>4 DEF IInv, BadNeverGood
  <2>2. CASE \E x \in Var : RefreshValue(x)
    BY <2>2 DEF RefreshValue, IInv, BadNeverGood
  <2> QED
    BY <2>1, <2>2
<1> QED
  BY <1>2, <1>3, <1>4 DEF Rest

\* The looks change nothing the server or a client can see.
LEMMA RestLooks ==
  ASSUME IInv, Begin \/ LookAtErrors \/ LookAtValue \/ LookAgain
  PROVE  Rest'
<1> USE DEF plc, opc, regmap, locals, opcOld, history
<1>1. OnlySentIsBad' /\ BadNeverGood'
  BY DEF Begin, LookAtErrors, LookAtValue, LookAgain, IInv, OnlySentIsBad,
         BadNeverGood
<1>2. CASE Begin
  <2>1. LooksHold'
    BY <1>2 DEF Begin, LooksHold
  <2>2. FlagKept'
    BY <1>2 DEF Begin, FlagKept
  <2>3. StatusKept'
    BY <1>2 DEF Begin, StatusKept, AtEntry, IInv, TypeOK, OthersAgree
  <2>4. OthersAgree'
    BY <1>2 DEF Begin, OthersAgree, AtEntry, IInv
  <2> QED
    BY <1>1, <2>1, <2>2, <2>3, <2>4 DEF Rest
<1>3. CASE LookAtErrors
  <2>1. LooksHold' /\ FlagKept'
    BY <1>3 DEF LookAtErrors, LooksHold, FlagKept, IInv
  <2>2. StatusKept' /\ OthersAgree'
    BY <1>3 DEF LookAtErrors, StatusKept, OthersAgree, AtEntry, IInv
  <2> QED
    BY <1>1, <2>1, <2>2 DEF Rest
<1>4. CASE LookAtValue
  <2>1. LooksHold'
    BY <1>4 DEF LookAtValue, LooksHold, IInv, OnlySentIsBad
  <2>2. varErrors'[pos] => oldErr \/ rerrors
    BY <1>4 DEF LookAtValue, FlagKept, IInv, TypeOK
  <2>3. FlagKept'
    BY <1>4, <2>2 DEF LookAtValue, FlagKept
  <2>4. StatusKept'
    BY <1>4 DEF LookAtValue, StatusKept, AtEntry, IInv
  <2>5. \A x \in Var : x # pos => varErrors'[x] = varErrors[x]
    BY <1>4 DEF LookAtValue, IInv, TypeOK
  <2>6. OthersAgree'
    BY <1>4, <2>5 DEF LookAtValue, OthersAgree, AtEntry, IInv
  <2> QED
    BY <1>1, <2>1, <2>3, <2>4, <2>6 DEF Rest
<1>5. CASE LookAgain
  <2>1. LooksHold' /\ FlagKept'
    BY <1>5 DEF LookAgain, LooksHold, FlagKept, IInv
  <2>2. StatusKept' /\ OthersAgree'
    BY <1>5 DEF LookAgain, StatusKept, OthersAgree, AtEntry, IInv
  <2> QED
    BY <1>1, <2>1, <2>2 DEF Rest
<1> QED
  BY <1>2, <1>3, <1>4, <1>5

\* What is published as good although the looks disagreed is marked as dirty.
LEMMA RestPublish == ASSUME IInv, Publish PROVE Rest'
<1> USE DEF plc, opc, regmap, locals, opcOld
<1>1. /\ varErrors'[pos] = plcErr /\ uaGood'[pos] = ~plcErr
      /\ node'[pos] = plcVal /\ nodeGood'[pos] = ~plcErr
      /\ dirty'[pos] = flicker
  BY DEF Publish, OpcSet, IInv, TypeOK
<1>2. \A x \in Var : x # pos =>
        /\ varErrors'[x] = varErrors[x] /\ uaGood'[x] = uaGood[x]
        /\ node'[x] = node[x] /\ nodeGood'[x] = nodeGood[x]
        /\ dirty'[x] = dirty[x]
  BY DEF Publish, OpcSet, IInv, TypeOK
<1>3. OnlySentIsBad' /\ LooksHold' /\ FlagKept'
  BY DEF Publish, OnlySentIsBad, LooksHold, FlagKept, IInv
<1>4. StatusKept'
  BY <1>1 DEF Publish, StatusKept, AtEntry
<1>5. OthersAgree'
  <2> SUFFICES ASSUME NEW x \in Var \ Driven
               PROVE  varErrors'[x] = ~uaGood'[x] \/ dirty'[x]
    BY DEF OthersAgree
  <2>1. CASE x = pos
    <3>1. plcErr = TRUE \/ plcErr = FALSE
      BY DEF IInv, TypeOK
    <3>2. CASE plcErr = TRUE
      BY <1>1, <2>1, <3>2
    <3>3. CASE plcErr = FALSE
      BY <1>1, <2>1, <3>3
    <3> QED
      BY <3>1, <3>2, <3>3
  <2>2. CASE x # pos
    BY <1>2, <2>2 DEF IInv, OthersAgree
  <2> QED
    BY <2>1, <2>2
<1>6. BadNeverGood'
  <2> SUFFICES ASSUME NEW x \in Var, node'[x] = Bad, nodeGood'[x]
               PROVE  dirty'[x] \/ badSent'
    BY DEF BadNeverGood
  <2>1. badSent' = badSent
    BY DEF Publish
  <2>2. CASE x = pos
    <3>1. plcVal = Bad /\ ~plcErr
      BY <1>1, <2>2
    <3>2. badSent \/ flicker
      BY <3>1 DEF Publish, IInv, LooksHold
    <3> QED
      BY <1>1, <2>1, <2>2, <3>2
  <2>3. CASE x # pos
    BY <1>2, <2>1, <2>3 DEF IInv, BadNeverGood
  <2> QED
    BY <2>2, <2>3
<1> QED
  BY <1>3, <1>4, <1>5, <1>6 DEF Rest

\* When nothing is new the flag and the status agreed before, or an error was
\* seen by one look and not by the last.
LEMMA RestNoNews == ASSUME IInv, NoNews PROVE Rest'
<1> USE DEF plc, opc, locals, opcOld
<1>1. varErrors'[pos] = (varErrors[pos] \/ (oldErr /\ plcErr))
  BY DEF NoNews, IInv, TypeOK
<1>2. dirty'[pos] = (dirty[pos] \/ flicker)
  BY DEF NoNews, IInv, TypeOK
<1>3. \A x \in Var : x # pos => /\ varErrors'[x] = varErrors[x]
                                /\ dirty'[x] = dirty[x]
  BY DEF NoNews, IInv, TypeOK
<1>4. OnlySentIsBad' /\ LooksHold' /\ FlagKept'
  BY DEF NoNews, OnlySentIsBad, LooksHold, FlagKept, IInv
<1>5. StatusKept'
  BY DEF NoNews, StatusKept, AtEntry, IInv
<1>6. pc = "publish" /\ plcErr = oldErr
  BY DEF NoNews, News
<1>7. pos \notin Driven => varErrors'[pos] = ~uaGood[pos] \/ dirty'[pos]
  <2> SUFFICES ASSUME pos \notin Driven
               PROVE  varErrors'[pos] = ~uaGood[pos] \/ dirty'[pos]
    OBVIOUS
  <2>1. CASE dirty[pos] \/ flicker
    BY <1>2, <2>1
  <2>2. CASE ~dirty[pos] /\ ~flicker
    <3>1. oldErr = ~uaGood[pos]
      BY <1>6, <2>2 DEF IInv, StatusKept, AtEntry
    <3>2. varErrors[pos] => oldErr
      BY <1>6, <2>2 DEF IInv, FlagKept
    <3>3. varErrors'[pos] = oldErr
      <4>1. oldErr \in BOOLEAN /\ varErrors[pos] \in BOOLEAN
        BY DEF IInv, TypeOK
      <4>2. CASE oldErr = TRUE
        BY <1>1, <1>6, <4>2
      <4>3. CASE oldErr = FALSE
        <5>1. varErrors[pos] = FALSE
          BY <3>2, <4>1, <4>3
        <5> QED
          BY <1>1, <4>3, <5>1
      <4> QED
        BY <4>1, <4>2, <4>3
    <3> QED
      BY <3>1, <3>3
  <2> QED
    BY <2>1, <2>2
<1>8. OthersAgree'
  <2> SUFFICES ASSUME NEW x \in Var \ Driven
               PROVE  varErrors'[x] = ~uaGood'[x] \/ dirty'[x]
    BY DEF OthersAgree
  <2>1. uaGood' = uaGood
    BY DEF NoNews
  <2>2. CASE x = pos
    BY <1>7, <2>1, <2>2
  <2>3. CASE x # pos
    BY <1>3, <2>1, <2>3 DEF IInv, OthersAgree
  <2> QED
    BY <2>2, <2>3
<1>9. BadNeverGood'
  <2>1. UNCHANGED <<node, nodeGood, badSent>>
    BY DEF NoNews
  <2>2. \A x \in Var : dirty[x] => dirty'[x]
    BY <1>2, <1>3
  <2> QED
    BY <2>1, <2>2 DEF IInv, BadNeverGood
<1> QED
  BY <1>4, <1>5, <1>8, <1>9 DEF Rest

\* A command clears the flag of an entry whose status is good.
LEMMA RestExecutes == ASSUME IInv, Executes PROVE Rest'
<1> USE DEF opc, NextEntry, Forget
<1>1. pc' = "idle" /\ UNCHANGED <<node, nodeGood, uaGood, dirty>>
  BY DEF Executes
<1>2. badSent => badSent'
  BY Zenon DEF Executes
<1>3. opcVal = Bad => badSent'
  BY Zenon DEF Executes
<1>4. OnlySentIsBad'
  BY <1>3 DEF Executes, OnlySentIsBad
<1>5. LooksHold' /\ FlagKept' /\ StatusKept'
  BY <1>1 DEF LooksHold, FlagKept, StatusKept, AtEntry
<1>6. uaGood[pos]
  BY DEF Executes, IsCommand, IInv, StatusKept
<1>7. OthersAgree'
  <2> SUFFICES ASSUME NEW x \in Var \ Driven
               PROVE  varErrors'[x] = ~uaGood'[x] \/ dirty'[x]
    BY DEF OthersAgree
  <2>1. CASE x = pos
    <3>1. varErrors'[x] = FALSE
      BY <2>1 DEF Executes, IInv, TypeOK
    <3>2. (~uaGood'[x]) = FALSE
      BY <1>1, <1>6, <2>1
    <3> QED
      BY <3>1, <3>2
  <2>2. CASE x # pos
    <3>1. varErrors'[x] = varErrors[x]
      BY <2>2 DEF Executes, IInv, TypeOK
    <3> QED
      BY <1>1, <2>2, <3>1 DEF IInv, OthersAgree
  <2> QED
    BY <2>1, <2>2
<1>8. BadNeverGood'
  BY <1>1, <1>2 DEF IInv, BadNeverGood
<1> QED
  BY <1>4, <1>5, <1>7, <1>8 DEF Rest

LEMMA RestPasses == ASSUME IInv, Passes PROVE Rest'
<1> USE DEF plc, opc, regmap, NextEntry, Forget
<1>1. OnlySentIsBad' /\ BadNeverGood'
  BY DEF Passes, IInv, OnlySentIsBad, BadNeverGood
<1>2. LooksHold' /\ FlagKept' /\ StatusKept'
  BY DEF Passes, LooksHold, FlagKept, StatusKept, AtEntry
<1>3. OthersAgree'
  BY DEF Passes, IInv, OthersAgree, AtEntry
<1> QED
  BY <1>1, <1>2, <1>3 DEF Rest

LEMMA RestStep == IInv /\ [Next]_vars => Rest'
<1> SUFFICES ASSUME IInv, [Next]_vars PROVE Rest'
  OBVIOUS
<1>1. CASE Next
  <2>1. CASE Refresh
    BY <2>1, RestLooks, RestPublish, RestNoNews, RestExecutes, RestPasses
       DEF Refresh
  <2> QED
    BY <1>1, <2>1, RestDriver, RestServer, RestTasks DEF Next
<1>2. CASE UNCHANGED vars
  BY <1>2 DEF vars, plc, opc, regmap, locals, opcOld, history, IInv, Rest,
              OnlySentIsBad, LooksHold, FlagKept, StatusKept, OthersAgree,
              AtEntry, BadNeverGood
<1> QED
  BY <1>1, <1>2

\* The inductive invariant of the task, in every reachable state.
THEOREM Inductive == Spec => []IInv
<1>1. Init => IInv
  BY TypeInit, RestInit DEF IInv, Rest
<1>2. IInv /\ [Next]_vars => IInv'
  BY TypeStep, RestStep DEF IInv, Rest
<1> QED
  BY <1>1, <1>2, PTL DEF Spec

-----------------------------------------------------------------------------
(* The theorems.                                                            *)

\* The stand-in of a failed reading is published as good only by a pass that
\* an error's end has caught between two looks, or after it was really sent.
THEOREM StandInIsMarked == Spec => []BadNeverGood
<1>1. IInv => BadNeverGood
  BY DEF IInv
<1> QED
  BY <1>1, Inductive, PTL

\* Between two entries, REGmap's flags and the server's status agree.
THEOREM FlagsAgree == Spec => []ErrorsAgree
<1>1. IInv => ErrorsAgree
  BY DEF IInv, OthersAgree, AtEntry, ErrorsAgree
<1> QED
  BY <1>1, Inductive, PTL

=============================================================================
