------------------------------ MODULE RegSync ------------------------------
(***************************************************************************)
(* The register-refresh task (sources/reg_func.cpp): one Modbus register   *)
(* of one word, and the entries of REGmap that show it -- the register's   *)
(* own and those that refer to it -- each with its variable in the OPC UA  *)
(* server.  Several threads meet here: the task, the driver's polling      *)
(* thread (module MbMaster, of which only what the task can see is kept),  *)
(* the OPC:Refresh task, other tasks that write variables, and the         *)
(* server's thread that serves the clients.                                *)
(*                                                                         *)
(* The task holds regmap_mux, which none of the others takes.  It reads    *)
(* the driver's register in three separate looks; what happens between two *)
(* looks is a step of its own here.  uaDataMux makes each access to the    *)
(* server one step.  Error counts matter only as zero or not.              *)
(*                                                                         *)
(* A word lies in a numeric_u of 64 bits, and values are compared as such. *)
(* WriteNumber copies all 64 of them from a parameter of 16, so that what  *)
(* a variable starts with may have anything in its upper bits: such a copy *)
(* is marked as junk, and differs from the same word without it.           *)
(***************************************************************************)
EXTENDS Integers

CONSTANTS
  NVar,      \* entries of REGmap on this register, in the map's order
  Writable,  \* "rw"
  Value,     \* values of the word
  Asked,     \* values the clients write
  Driven,    \* entries whose variable other tasks of the process write
  Bad        \* bad_value.ui16, what a register in error reads as

Var == 1 .. NVar

ASSUME SyncAssumption ==
  /\ NVar \in Nat \ {0}
  /\ Writable \in BOOLEAN
  /\ Value # {} /\ Bad \notin Value
  /\ Asked \subseteq Value /\ Driven \subseteq Var

VARIABLES
  \* the driver's register
  rvalue, rupdate, rerrors,
  \* the OPC variables: the node's value and whether its status is good,
  \* and the wrapper's own copies of the two
  node, nodeGood, raw, rawJunk, uaGood,
  \* the entries of REGmap: Number.value, and var_errors # 0
  number, numJunk, varErrors,
  \* the task: where it is, at which entry, and its local variables
  pc, pos, opcVal, opcJunk, opcErr, oldVal, oldJunk, oldErr,
  hasErr, plcVal, plcErr,
  \* history, for the properties
  flicker,  \* an error was cleared between two looks of this pass
  dirty,    \* what an entry's last pass to publish saw was such a flicker
  badSent   \* the stand-in has been sent to the device

plc     == <<rvalue, rupdate, rerrors>>
opc     == <<node, nodeGood, raw, rawJunk, uaGood>>
regmap  == <<number, numJunk, varErrors>>
opcOld  == <<opcVal, opcJunk, opcErr, oldVal, oldJunk, oldErr>>
locals  == <<opcOld, hasErr, plcVal, plcErr>>
history == <<flicker, dirty, badSent>>
vars    == <<plc, opc, regmap, pc, pos, locals, history>>

Word == Value \cup {Bad}

NoLocals ==
  /\ opcVal = Bad /\ opcJunk = FALSE /\ opcErr = FALSE
  /\ oldVal = Bad /\ oldJunk = FALSE /\ oldErr = FALSE
  /\ hasErr = FALSE /\ plcVal = Bad /\ plcErr = FALSE

-----------------------------------------------------------------------------
(* The constructors of Reg_c and opc_regs_init: variable, copies and entry *)
(* agree and are good, whatever the register holds; the register's own     *)
(* entry starts with its value, the others with one of their own.          *)
Init ==
  /\ rvalue \in Value /\ rupdate = 0 /\ rerrors = FALSE
  /\ number \in [Var -> Value] /\ \E x \in Var : number[x] = rvalue
  /\ numJunk = [x \in Var |-> FALSE]
  /\ varErrors = [x \in Var |-> FALSE]
  /\ node = number /\ raw = number /\ rawJunk \in [Var -> BOOLEAN]
  /\ nodeGood = [x \in Var |-> TRUE] /\ uaGood = [x \in Var |-> TRUE]
  /\ pc = "idle" /\ pos = 1
  /\ NoLocals
  /\ flicker = FALSE /\ dirty = [x \in Var |-> FALSE] /\ badSent = FALSE

-----------------------------------------------------------------------------
(* The driver, as far as the task can see.                                 *)

\* The task is between its first and its last look at the register.
Looking == pc \in {"value", "again"}

SetErrors(e) ==
  /\ rerrors' = e
  /\ flicker' = (flicker \/ (Looking /\ rerrors /\ ~e))
  /\ UNCHANGED <<dirty, badSent>>

\* A reading; a register with a command pending keeps its value.
PollReads(v) ==
  /\ rvalue' = IF Writable /\ rupdate = 1 THEN rvalue ELSE v
  /\ SetErrors(FALSE)
  /\ UNCHANGED <<rupdate, opc, regmap, pc, pos, locals>>

\* The device acknowledges a write of the pending command.
PollWrites ==
  /\ Writable /\ rupdate = 1
  /\ rupdate' = 0
  /\ SetErrors(FALSE)
  /\ UNCHANGED <<rvalue, opc, regmap, pc, pos, locals>>

PollFails ==
  /\ SetErrors(TRUE)
  /\ UNCHANGED <<rvalue, rupdate, opc, regmap, pc, pos, locals>>

-----------------------------------------------------------------------------
(* The OPC UA server.                                                      *)

\* A client writes: value and status of the node, nothing else.
ClientWrites(x, v) ==
  /\ node' = [node EXCEPT ![x] = v]
  /\ nodeGood' = [nodeGood EXCEPT ![x] = TRUE]
  /\ UNCHANGED <<plc, raw, rawJunk, uaGood, regmap, pc, pos, locals, history>>

\* WriteValue of another task (the SCADA task for Pset, task_millis_): the
\* variable is good from now on, whatever the PLC does.
TaskWrites(x, v) ==
  /\ node' = [node EXCEPT ![x] = v] /\ raw' = [raw EXCEPT ![x] = v]
  /\ \E j \in BOOLEAN : rawJunk' = [rawJunk EXCEPT ![x] = j]
  /\ nodeGood' = [nodeGood EXCEPT ![x] = TRUE]
  /\ uaGood' = [uaGood EXCEPT ![x] = TRUE]
  /\ UNCHANGED <<plc, regmap, pc, pos, locals, history>>

RefreshValueMutant(x) ==
  /\ nodeGood[x]
  /\ UNCHANGED vars

\* RefreshAllValues, run by the OPC:Refresh task, copies the value of every
\* node that can be read, one after the other.
RefreshValue(x) ==
  /\ nodeGood[x]
  /\ raw' = [raw EXCEPT ![x] = node[x]]
  /\ rawJunk' = [rawJunk EXCEPT ![x] = FALSE]
  /\ UNCHANGED <<plc, node, nodeGood, uaGood, regmap, pc, pos, locals, history>>

\* opc_set_value
OpcSet(x, v, isOk) ==
  /\ raw' = [raw EXCEPT ![x] = v]
  /\ rawJunk' = [rawJunk EXCEPT ![x] = FALSE]
  /\ node' = [node EXCEPT ![x] = v]
  /\ uaGood' = [uaGood EXCEPT ![x] = isOk]
  /\ nodeGood' = [nodeGood EXCEPT ![x] = isOk]

-----------------------------------------------------------------------------
(* task_regs_refresh_, for the entry at pos.                               *)

\* opc_get_value, isGood, get_local_value, var_errors.
Begin ==
  /\ pc = "idle"
  /\ opcVal' = raw[pos] /\ opcJunk' = rawJunk[pos] /\ opcErr' = ~uaGood[pos]
  /\ oldVal' = number[pos] /\ oldJunk' = numJunk[pos]
  /\ oldErr' = varErrors[pos]
  /\ pc' = "errors"
  /\ UNCHANGED <<plc, opc, regmap, pos, hasErr, plcVal, plcErr, history>>

\* get_plc_value looks at the errors,
LookAtErrors ==
  /\ pc = "errors"
  /\ hasErr' = rerrors
  /\ pc' = "value"
  /\ UNCHANGED <<plc, opc, regmap, pos, opcOld, plcVal, plcErr, history>>

\* ... and get_plc_reg at errors and value; the result goes to Number.value.
LookAtValue ==
  /\ pc = "value"
  /\ plcVal' = IF hasErr \/ rerrors THEN Bad ELSE rvalue
  /\ varErrors' = [varErrors EXCEPT ![pos] = IF hasErr THEN @ ELSE rerrors]
  /\ number' = [number EXCEPT ![pos] = plcVal']
  /\ numJunk' = [numJunk EXCEPT ![pos] = FALSE]
  /\ pc' = "again"
  /\ UNCHANGED <<plc, opc, pos, opcOld, hasErr, plcErr, history>>

\* get_plc_errors, once more.
LookAgain ==
  /\ pc = "again"
  /\ plcErr' = rerrors
  /\ pc' = "publish"
  /\ UNCHANGED <<plc, opc, regmap, pos, opcOld, hasErr, plcVal, history>>

News == plcVal # oldVal \/ oldJunk \/ plcErr # oldErr

PublishMutant1 ==
  /\ pc = "publish" /\ News
  /\ number' = [number EXCEPT ![pos] = plcVal]
  /\ varErrors' = [varErrors EXCEPT ![pos] = plcErr]
  /\ OpcSet(pos, plcVal, TRUE)
  /\ dirty' = [dirty EXCEPT ![pos] = flicker]
  /\ pc' = "command"
  /\ UNCHANGED <<plc, numJunk, pos, locals, flicker, badSent>>

PublishMutant2 ==
  /\ pc = "publish" /\ News
  /\ number' = [number EXCEPT ![pos] = plcVal]
  /\ OpcSet(pos, plcVal, ~plcErr)
  /\ dirty' = [dirty EXCEPT ![pos] = flicker]
  /\ pc' = "command"
  /\ UNCHANGED <<plc, numJunk, varErrors, pos, locals, flicker, badSent>>

\* What is new from the PLC goes to REGmap and to the OPC variable.
Publish ==
  /\ pc = "publish" /\ News
  /\ number' = [number EXCEPT ![pos] = plcVal]
  /\ varErrors' = [varErrors EXCEPT ![pos] = plcErr]
  /\ OpcSet(pos, plcVal, ~plcErr)
  /\ dirty' = [dirty EXCEPT ![pos] = flicker]
  /\ pc' = "command"
  /\ UNCHANGED <<plc, numJunk, pos, locals, flicker, badSent>>

\* Nothing new; a standing error is counted.
NoNews ==
  /\ pc = "publish" /\ ~News
  /\ varErrors' = [varErrors EXCEPT ![pos] = @ \/ (oldErr /\ plcErr)]
  /\ dirty' = [dirty EXCEPT ![pos] = @ \/ flicker]
  /\ pc' = "command"
  /\ UNCHANGED <<plc, opc, number, numJunk, pos, locals, flicker, badSent>>

IsCommandMutant ==
  Writable /\ News /\ opcVal # oldVal /\ ~plcErr /\ ~opcErr

IsCommand ==
  Writable /\ (opcVal # oldVal \/ opcJunk # oldJunk) /\ ~plcErr /\ ~opcErr

Forget == /\ opcVal' = Bad /\ opcJunk' = FALSE /\ opcErr' = FALSE
          /\ oldVal' = Bad /\ oldJunk' = FALSE /\ oldErr' = FALSE
          /\ hasErr' = FALSE /\ plcVal' = Bad /\ plcErr' = FALSE
          /\ flicker' = FALSE

NextEntryMutant == pc' = "idle" /\ pos' = pos + 1 /\ Forget

NextEntry == /\ pc' = "idle"
             /\ pos' = IF pos = NVar THEN 1 ELSE pos + 1
             /\ Forget

\* What is new from the OPC client goes to the driver, if all is well.
Executes ==
  /\ pc = "command" /\ IsCommand
  /\ rvalue' = opcVal
  /\ rupdate' = IF rvalue # opcVal THEN 1 ELSE rupdate
  /\ number' = [number EXCEPT ![pos] = opcVal]
  /\ numJunk' = [numJunk EXCEPT ![pos] = opcJunk]
  /\ varErrors' = [varErrors EXCEPT ![pos] = FALSE]
  /\ badSent' = (badSent \/ opcVal = Bad)
  /\ NextEntry
  /\ UNCHANGED <<rerrors, opc, dirty>>

Passes ==
  /\ pc = "command" /\ ~IsCommand
  /\ NextEntry
  /\ UNCHANGED <<plc, opc, regmap, dirty, badSent>>

Refresh == \/ Begin \/ LookAtErrors \/ LookAtValue \/ LookAgain
           \/ Publish \/ NoNews \/ Executes \/ Passes

-----------------------------------------------------------------------------
Drift  == \E v \in Value : v # rvalue /\ rupdate = 0 /\ PollReads(v)
Client == \E x \in Var, v \in Asked : ClientWrites(x, v)
Tasks  == \E x \in Driven, v \in Value : TaskWrites(x, v)

Next ==
  \/ Refresh \/ Client \/ Tasks \/ \E x \in Var : RefreshValue(x)
  \/ PollWrites \/ PollFails \/ \E v \in Value \cup {rvalue} : PollReads(v)

\* The scheduler runs both tasks again and again, and the driver writes a
\* pending command as long as the device answers.
Fairness ==
  /\ WF_vars(Refresh)
  /\ \A x \in Var : WF_vars(RefreshValue(x))
  /\ WF_vars(PollWrites)

Spec     == Init /\ [][Next]_vars
FairSpec == Spec /\ Fairness

-----------------------------------------------------------------------------
(* Properties.                                                             *)

\* Types.
TypeOK ==
  /\ rvalue \in Word /\ rupdate \in {0, 1} /\ rerrors \in BOOLEAN
  /\ node \in [Var -> Word] /\ raw \in [Var -> Word]
  /\ nodeGood \in [Var -> BOOLEAN] /\ uaGood \in [Var -> BOOLEAN]
  /\ rawJunk \in [Var -> BOOLEAN] /\ numJunk \in [Var -> BOOLEAN]
  /\ number \in [Var -> Word] /\ varErrors \in [Var -> BOOLEAN]
  /\ pc \in {"idle", "errors", "value", "again", "publish", "command"}
  /\ pos \in Var
  /\ opcVal \in Word /\ oldVal \in Word /\ plcVal \in Word
  /\ opcJunk \in BOOLEAN /\ opcErr \in BOOLEAN
  /\ oldJunk \in BOOLEAN /\ oldErr \in BOOLEAN
  /\ hasErr \in BOOLEAN /\ plcErr \in BOOLEAN
  /\ flicker \in BOOLEAN /\ dirty \in [Var -> BOOLEAN] /\ badSent \in BOOLEAN

\* The stand-in for a value that could not be read is never shown as good,
\* unless the register recovered between two looks of the pass that published
\* it, or the stand-in really has been written to the device.
BadNeverGood ==
  \A x \in Var : node[x] = Bad /\ nodeGood[x] => dirty[x] \/ badSent

\* A command that waits to be sent to the device is one a client gave: the
\* task takes for a command only what is new from the OPC client.
OnlyClientsCommand == rupdate = 1 => rvalue \in Asked

\* The server's copy of the status and the entry's error flag tell the same
\* story whenever the task is between two entries, so that the next failure or
\* recovery will be noticed; after a flicker they may differ, and where a task
\* of the process writes the variable, too.
ErrorsAgree ==
  pc = "idle" => \A x \in Var \ Driven : varErrors[x] = ~uaGood[x] \/ dirty[x]

\* What a writable variable shows as good becomes what the driver holds, or
\* the variable changes or goes bad: no command of a client stays in the
\* server for ever without being executed.
CommandForwarded ==
  \A x \in Var : \A v \in Value :
    Writable /\ node[x] = v /\ uaGood[x]
      ~> rvalue = v \/ node[x] # v \/ ~uaGood[x] \/ rerrors

\* When the device answers, and neither it nor a client or task changes anything
\* any more, variables, entries and driver come to agree, all good, for good.
Agree == \A x \in Var : /\ node[x] = rvalue /\ nodeGood[x] /\ uaGood[x]
                        /\ number[x] = rvalue /\ ~numJunk[x] /\ ~varErrors[x]
                        /\ rupdate = 0

Converges ==
  Writable /\ <>[]~rerrors /\ <>[][~Drift /\ ~Client /\ ~Tasks]_vars => <>[]Agree
=============================================================================
