------------------------------- MODULE Scada -------------------------------
(***************************************************************************)
(* The SCADA task (scada/): once a round it reads what the operators want  *)
(* and what the sensors of the still show, computes the power of each      *)
(* stage, publishes it, and sets the power of the heater to that of the    *)
(* stage in progress.  Operators (OPC UA clients) write the same variables *)
(* at any time.                                                            *)
(*                                                                         *)
(* Reads and writes of different variables whose order no other thread can *)
(* tell are one step: a stage writes Mode and publishes its power at once, *)
(* and it reads its few settings at once.  The reading of Process, of      *)
(* Mode, of each sensor, of Pshift, and the final reading back are steps   *)
(* of their own, and so are the two halves of AddAlarm.  What every round  *)
(* sets before it looks at it is not kept from round to round.             *)
(*                                                                         *)
(* Of P.heat, P.dist and P.rect only the variable of the stage in progress *)
(* is kept: the program never looks at the others.  The three alarms do    *)
(* not influence anything, each other included: one, Watched, is kept.     *)
(*                                                                         *)
(* Temperatures are in hundredths of a degree (type f100); powers, modes   *)
(* and alarms are uint16_t, Pshift is int16_t.  check() is never called    *)
(* and no part of the module.                                              *)
(***************************************************************************)
EXTENDS Integers, Sequences

CONSTANTS
  TempMap,   \* the sensors, in the order of the map of that name
  Tkub1, Tkub2, Tbuf,  \* three of them, which decide on the power
  Temp,      \* temperatures
  Settings,  \* what operators choose from: P_MAX, P_WARM, ..., T_boil, T_heat
  Processes, Modes, Powers, Shifts,  \* what else they write
  Watched,   \* the alarm followed
  Garbage,   \* what reading a variable that is not configured may give
  AlarmMod   \* values of an alarm counter: 2^16

W == 65536
Word == 0 .. W - 1
Int16 == -32768 .. 32767

Power == {"P_MAX", "P_WARM", "P_HEAD", "P_BODY", "P_TAIL", "P_DIST",
          "P_DIST2", "P_DIST3"}
Setting == [power : [Power -> Word], boil : Int, heat : 0 .. 10 * W - 1]
Alarm == {"MB", "DS", "T"}
Sensor == {TempMap[i] : i \in 1 .. Len(TempMap)}

ASSUME ScadaAssumption ==
  /\ TempMap \in Seq(STRING) /\ Len(TempMap) > 0
  /\ {Tkub1, Tkub2, Tbuf} \subseteq Sensor
  /\ Temp \subseteq Int /\ Settings \subseteq Setting
  /\ Processes \subseteq Word /\ Modes \subseteq Word /\ Powers \subseteq Word
  /\ Shifts \subseteq Int16 /\ Watched \in Alarm
  /\ Garbage # {} /\ Garbage \subseteq Word
  /\ AlarmMod \in Nat \ {0}

VARIABLES
  \* the OPC variables
  set,           \* the settings
  process, mode, \* "Process", "Mode"
  pub,           \* "P.heat", "P.dist" or "P.rect", once published
  pset, pshift,  \* "Pset", "Pshift"
  alarm,         \* "Alarm.MB", "Alarm.DS" or "Alarm.T"
  \* the program's globals and statics
  temp, process0, mode0, modDist,
  \* the task: its step, its sensor, Pshift and the alarm's count as read
  pc, pos, shift, seen,
  \* history
  more,          \* rounds that ended with power since the operators' stop
  raised, mixed, \* alarms since the last reset; a reset fell into AddAlarm
  touched        \* operators changed a setting or a power in this round

opc     == <<set, process, mode, pub, pset, pshift, alarm>>
program == <<temp, process0, mode0, modDist>>
task    == <<pc, pos, shift, seen>>
history == <<more, raised, mixed, touched>>
vars    == <<opc, program, task, history>>

\* A variable without a PLC starts with 888 (cfg_init_scadavars); so does
\* Pset, which is linked to one.
Start == 888

Init ==
  /\ set = [power |-> [p \in Power |-> Start],
            boil |-> Start * 100, heat |-> Start * 100]
  /\ process = Start /\ mode = Start /\ pub = 0
  /\ pset = Start /\ pshift = Start
  /\ alarm = Start % AlarmMod
  /\ temp = [s \in Sensor |-> 0] /\ process0 = 0 /\ mode0 = 0 /\ modDist = 0
  /\ pc = "process" /\ pos = 1 /\ shift = 0 /\ seen = 0
  /\ more = 0 /\ raised = alarm /\ mixed = FALSE /\ touched = FALSE

-----------------------------------------------------------------------------
(* The powers, as functions of what was read.                              *)

Tkub0 == IF temp[Tkub1] > temp[Tkub2] THEN temp[Tkub1] ELSE temp[Tkub2]
Tdef0 == temp[Tbuf]  \* float &Tdef0 = Tbuf

InRange(t, low, high) == low * 100 <= t /\ t < high * 100

\* Dist1, Dist2: power and mode; where no branch sets the mode it stays.
Dist1(p, tdef, tkub, was) ==
  CASE tdef > 4000 /\ InRange(tkub, 0, 97)    -> <<p["P_DIST"], 31>>
    [] tdef > 4000 /\ InRange(tkub, 97, 101)  -> <<p["P_TAIL"], 71>>
    [] tdef > 4000 /\ ~InRange(tkub, 0, 101)  -> <<0, was>>
    [] tdef \in 3001 .. 4000                  -> <<(p["P_WARM"] * 2) % W, 21>>
    [] tdef <= 3000 /\ tkub > 10000           -> <<0, 91>>
    [] tdef <= 3000 /\ tkub <= 10000          -> <<p["P_MAX"], 11>>

Dist2(p, tdef, tkub, was) ==
  CASE tdef < 4000 /\ InRange(tkub, 0, 80)    -> <<p["P_MAX"], 12>>
    [] tdef < 4000 /\ InRange(tkub, 80, 100)  -> <<p["P_WARM"], 22>>
    [] tdef >= 4000 /\ InRange(tkub, 0, 82)   -> <<p["P_WARM"], 12>>
    [] tdef >= 4000 /\ InRange(tkub, 82, 97)  -> <<p["P_DIST2"], 32>>
    [] tdef >= 4000 /\ InRange(tkub, 97, 100) -> <<p["P_DIST3"], 33>>
    [] ~InRange(tkub, 0, 100)                 -> <<0, was>>

\* CheckBoil: the still is done.
Boiled(s, tkub) == tkub > s.heat \/ tkub > s.boil + 15

\* P_heat: T_heat, ten times, is the least power.  The product is computed
\* in int: where it overflows, the outcome is any.
Pmin(s) == s.heat \div 10
HeatMode(pid) == IF pid = 0 THEN 84 ELSE IF pid > 99 THEN 14 ELSE 24
IntMax == 2147483647
Shares(pid, pmax) ==
  IF pid * pmax <= IntMax THEN {((pid * pmax) \div 100) % W} ELSE Word

\* A mutant of Heat: P_MAX does not limit the sum.
HeatMutant(pid, share, pmax, pmin) ==
  LET sum == (pmin + share) % W
  IN  IF pid = 0 THEN 0 ELSE IF 0 < sum /\ sum < pmin THEN pmin ELSE sum

Heat(pid, share, pmax, pmin) ==
  LET sum     == (pmin + share) % W
      atLeast == IF 0 < sum /\ sum < pmin THEN pmin ELSE sum
  IN  IF pid = 0 THEN 0 ELSE IF atLeast > pmax THEN pmax ELSE atLeast

\* P_rect: the mode is the process, or the operators' in process 9.
RectMode(proc, m) ==
  IF proc > 90 \/ proc < 9 THEN 99 ELSE IF proc = 9 THEN m ELSE proc

Rect(p, m) ==
  CASE m \in 10 .. 19 -> p["P_MAX"]
    [] m \in 20 .. 29 -> p["P_WARM"]
    [] m \in 30 .. 49 -> p["P_HEAD"]
    [] m \in 50 .. 69 -> p["P_BODY"]
    [] m \in 70 .. 79 -> p["P_TAIL"]
    [] OTHER          -> 0

\* Pshift is read as an int from the two bytes of an int16_t and zeros.
AsInt(v) == v % W

\* The stages SetPower knows, and what it makes of a stage's power.
Powered(proc) == proc \in {1, 2, 4, 7} \cup 9 .. 79

\* A mutant of Shifted: a shift larger than the power is subtracted, too.
ShiftedMutant(proc, p, sh) == IF proc >= 9 THEN (p - sh) % W ELSE p

Shifted(proc, p, sh) == IF proc >= 9 /\ p > sh THEN (p - sh) % W ELSE p

\* The stages are at work: what they publish is still to be read back.
Computing == pc \in {"heat", "dist", "rect", "pset"}

-----------------------------------------------------------------------------
(* The task.                                                               *)

ReadProcess ==
  /\ pc = "process" /\ pc' = "mode" /\ process0' = process
  /\ UNCHANGED <<opc, temp, mode0, modDist, pos, shift, seen, history>>

\* A mutant of ReadMode: Mode is not read again.
ReadModeMutant ==
  /\ pc = "mode" /\ pc' = "temps" /\ mode0' = mode0
  /\ UNCHANGED <<opc, temp, process0, modDist, pos, shift, seen, history>>

ReadMode ==
  /\ pc = "mode" /\ pc' = "temps" /\ mode0' = mode
  /\ UNCHANGED <<opc, temp, process0, modDist, pos, shift, seen, history>>

\* A mutant of NextSensor: the loop goes one sensor too far.
NextSensorMutant ==
  IF pos <= Len(TempMap) THEN pc' = "temps" /\ pos' = pos + 1
                         ELSE pc' = "shift" /\ pos' = 1

NextSensor ==
  IF pos < Len(TempMap) THEN pc' = "temps" /\ pos' = pos + 1
                        ELSE pc' = "shift" /\ pos' = 1

\* A mutant of Raise: the counter is not read before it is counted.
RaiseMutant(alarms) ==
  \/ /\ Watched \in alarms /\ pc' = "alarm" /\ seen' = seen
     /\ raised' = (raised + 1) % AlarmMod /\ UNCHANGED pos
  \/ Watched \notin alarms /\ NextSensor /\ UNCHANGED <<seen, raised>>

\* A sensor calls for alarms: the task reads the counter, to count it next.
Raise(alarms) ==
  \/ /\ Watched \in alarms /\ pc' = "alarm" /\ seen' = alarm
     /\ raised' = (raised + 1) % AlarmMod /\ UNCHANGED pos
  \/ Watched \notin alarms /\ NextSensor /\ UNCHANGED <<seen, raised>>

Alarms(t) == {a \in {"T"} : t > 10000} \cup {a \in {"DS"} : t < -5400}

\* ReadTemp, for one sensor; of a variable that is not good nothing is kept.
ReadTempGood(t) ==
  /\ pc = "temps" /\ temp' = [temp EXCEPT ![TempMap[pos]] = t]
  /\ Raise(Alarms(t))
  /\ UNCHANGED <<opc, process0, mode0, modDist, shift, more, mixed, touched>>

ReadTempBad ==
  /\ pc = "temps" /\ Raise({"MB"})
  /\ UNCHANGED <<opc, program, shift, more, mixed, touched>>

AddAlarm ==
  /\ pc = "alarm" /\ NextSensor
  /\ alarm' = (seen + 1) % AlarmMod /\ seen' = 0
  /\ raised' = IF mixed THEN alarm' ELSE raised
  /\ UNCHANGED <<set, process, mode, pub, pset, pshift, program, shift, more,
                 mixed, touched>>

ReadShift ==
  /\ pc = "shift" /\ pc' = "heat" /\ shift' = AsInt(pshift)
  /\ touched' = FALSE
  /\ UNCHANGED <<opc, program, pos, seen, more, raised, mixed>>

Stays == UNCHANGED <<set, process, pset, pshift, alarm, temp, process0, mode0,
                     pos, shift, seen, history>>

P_heat ==
  /\ pc = "heat" /\ pc' = "dist" /\ Stays /\ UNCHANGED modDist
  /\ \/ /\ process0 = 4
        /\ \E pid \in Garbage : \E share \in Shares(pid, set.power["P_MAX"]) :
             /\ mode' = HeatMode(pid)
             /\ pub' = Heat(pid, share, set.power["P_MAX"], Pmin(set))
     \/ process0 # 4 /\ UNCHANGED <<pub, mode>>

Distils(d) ==
  /\ modDist' = IF Boiled(set, Tkub0) THEN 91 ELSE d[2]
  /\ mode' = modDist' /\ pub' = d[1]

P_dist ==
  /\ pc = "dist" /\ pc' = "rect" /\ Stays
  /\ \/ process0 = 1 /\ Distils(Dist1(set.power, Tdef0, Tkub0, modDist))
     \/ process0 = 2 /\ Distils(Dist2(set.power, Tdef0, Tkub0, modDist))
     \/ process0 \notin {1, 2} /\ UNCHANGED <<modDist, mode, pub>>

P_rect ==
  /\ pc = "rect" /\ pc' = "pset" /\ Stays /\ UNCHANGED <<modDist, mode>>
  /\ \/ /\ process0 \in 9 .. 79
        /\ pub' = Rect(set.power, RectMode(process0, mode0))
     \/ process0 \notin 9 .. 79 /\ UNCHANGED pub

\* A mutant of Chosen: Pset0 is not cleared for a process without a stage.
ChosenMutant ==
  CASE process0 \in {1, 2, 4} \cup 9 .. 79 -> {pub}
    [] process0 = 7                        -> Garbage
    [] OTHER                               -> {pset}

\* What SetPower reads back; "P.boil" is not configured.
Chosen ==
  CASE process0 \in {1, 2, 4} \cup 9 .. 79 -> {pub}
    [] process0 = 7                        -> Garbage
    [] OTHER                               -> {0}

SetPower ==
  /\ pc = "pset" /\ pc' = "process"
  /\ \E p \in Chosen : pset' = Shifted(process0, p, shift)
  /\ more' = IF Powered(process) \/ pset' = 0 \/ more > 1 THEN more ELSE more + 1
  /\ process0' = 0 /\ mode0' = 0 /\ shift' = 0 /\ pub' = 0 /\ touched' = FALSE
  /\ UNCHANGED <<set, process, mode, pshift, alarm, temp, modDist, pos, seen,
                 raised, mixed>>

Task ==
  \/ ReadProcess \/ ReadMode \/ (\E t \in Temp : ReadTempGood(t)) \/ ReadTempBad
  \/ AddAlarm \/ ReadShift \/ P_heat \/ P_dist \/ P_rect \/ SetPower

-----------------------------------------------------------------------------
(* The operators; Pset is also written by the refresh task, which shows    *)
(* what the heater's PLC holds.                                            *)

OrderProcess(p) ==
  /\ process' = p /\ more' = IF Powered(process) \/ Powered(p) THEN 0 ELSE more
  /\ UNCHANGED <<set, mode, pub, pset, pshift, alarm, program, task, raised,
                 mixed, touched>>

OrderMode(m) ==
  /\ mode' = m
  /\ UNCHANGED <<set, process, pub, pset, pshift, alarm, program, task, history>>

Tune(s) ==
  /\ set' = s /\ touched' = Computing
  /\ UNCHANGED <<process, mode, pub, pset, pshift, alarm, program, task, more,
                 raised, mixed>>

OrderShift(v) ==
  /\ pshift' = v
  /\ UNCHANGED <<set, process, mode, pub, pset, alarm, program, task, history>>

\* What is written to the stage's variable before the stage publishes, or
\* after SetPower has read it, nobody reads.
OverwritePower(p) ==
  /\ Computing /\ pub' = p /\ touched' = TRUE
  /\ UNCHANGED <<set, process, mode, pset, pshift, alarm, program, task, more,
                 raised, mixed>>

OverwritePset(p) ==
  /\ pset' = p
  /\ UNCHANGED <<set, process, mode, pub, pshift, alarm, program, task, history>>

ResetAlarm ==
  /\ alarm' = 0 /\ raised' = 0 /\ mixed' = (pc = "alarm")
  /\ UNCHANGED <<set, process, mode, pub, pset, pshift, program, task, more,
                 touched>>

Operators ==
  \/ \E p \in Processes : OrderProcess(p)
  \/ \E m \in Modes : OrderMode(m)
  \/ \E s \in Settings : Tune(s)
  \/ \E v \in Shifts : OrderShift(v)
  \/ \E p \in Powers : OverwritePower(p)
  \/ \E p \in Powers : OverwritePset(p)
  \/ ResetAlarm

Next == Task \/ Operators

Spec == Init /\ [][Next]_vars
LiveSpec == Spec /\ WF_vars(Task)

-----------------------------------------------------------------------------
(* Properties.                                                             *)

OpcTypes ==
  /\ set \in Setting /\ process \in Word /\ mode \in Word /\ pub \in Word
  /\ pset \in Word /\ pshift \in Int16 /\ alarm \in 0 .. AlarmMod - 1

ProgramTypes ==
  /\ temp \in [Sensor -> Int]
  /\ process0 \in Word /\ mode0 \in Word /\ modDist \in Word

TaskTypes ==
  /\ pc \in {"process", "mode", "temps", "alarm", "shift", "heat", "dist",
             "rect", "pset"}
  /\ pos \in 1 .. Len(TempMap) /\ shift \in Word /\ seen \in 0 .. AlarmMod - 1

HistoryTypes ==
  /\ more \in 0 .. 2 /\ raised \in 0 .. AlarmMod - 1
  /\ mixed \in BOOLEAN /\ touched \in BOOLEAN

\* Every variable keeps its type: the powers stay 16-bit words through every
\* sum and difference, and the loop over the sensors within its map.
TypeOK == OpcTypes /\ ProgramTypes /\ TaskTypes /\ HistoryTypes

\* Once the operators have written a stop to Process, at most one more round
\* (the one in progress) ends with power, whatever they write to the other
\* variables, Pshift below zero included.
AtMostOneMore == more <= 1

\* The power P_heat publishes stays at most P_MAX, and is at least the
\* smaller of P_MAX and ten times T_heat unless it is off, whatever PID holds
\* and wherever the sum and the product overflow.
HeatInLimits ==
  pc \in {"dist", "rect", "pset"} /\ process0 = 4 /\ ~touched
    => /\ pub <= set.power["P_MAX"]
       /\ pub \in {0, set.power["P_MAX"]} \/ pub >= Pmin(set)

\* Pshift only ever lowers a power: SetPower never sets more than the stage
\* in progress has published.
ShiftOnlyLowers ==
  [][pc = "pset" /\ pc' # pc => \E p \in Chosen : pset' <= p]_vars

\* An alarm counts every event since its last reset, in spite of resets at
\* any moment, but for one that falls between the two halves of AddAlarm.
AlarmsCount ==
  mixed \/ raised = IF pc = "alarm" THEN (alarm + 1) % AlarmMod ELSE alarm

\* When the operators have stopped the process for good the power is set to
\* zero again and again, whatever they write to Pset.
StopTurnsOff == <>[]~Powered(process) => []<>(pset = 0)

\* When the operators leave their variables alone, Pset settles at the power
\* their process and mode ask for in the rectification stage.
Wanted ==
  Shifted(process, Rect(set.power, RectMode(process, mode)), AsInt(pshift))
PowerSettles ==
  <>[][~Operators]_vars => <>[](process \in 9 .. 79 => pset = Wanted)

\* The comments of scada_check.cpp take Tdef0 for the temperature of the
\* dephlegmator: with that above 40 degrees Dist1 does not heat up (mode 11).
DephlegmatorDecides ==
  [][pc = "dist" /\ process0 = 1 /\ "Tdef" \in Sensor /\ temp["Tdef"] > 4000
       => mode' # 11]_vars
=============================================================================
