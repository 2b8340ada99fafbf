---------------------------- MODULE ScadaProofs ----------------------------
(***************************************************************************)
(* Theorems about Scada: the types of the powers, their limits, the        *)
(* operators' stop and the alarm counters, for any sensors, temperatures,  *)
(* settings and writes of the operators.                                   *)
(***************************************************************************)
EXTENDS Scada, TLAPS

-----------------------------------------------------------------------------
(* The powers.                                                             *)

\* A number taken modulo m is below m, and is itself when it was below m.
LEMMA WrapTyped ==
  ASSUME NEW a \in Int, NEW m \in Nat \ {0}
  PROVE  a % m \in 0 .. m - 1
BY SMT

LEMMA WrapSmall ==
  ASSUME NEW m \in Nat \ {0}, NEW a \in 0 .. m - 1
  PROVE  a % m = a
BY SMT

\* All the provers need to know of the size of a word.
LEMMA WordSize == W \in Nat /\ W > 100
BY SMT DEF W

LEMMA WordWrap ==
  ASSUME NEW a \in Int
  PROVE  a % W \in Word
BY SMT, WrapTyped, WordSize DEF Word

LEMMA SmallWords == \A m \in 0 .. 99 : m \in Word
BY SMT, WordSize DEF Word

\* The settings of a stage are words.
LEMMA PowersAreWords ==
  ASSUME NEW p \in [Power -> Word]
  PROVE  /\ p["P_MAX"] \in Word /\ p["P_WARM"] \in Word /\ p["P_HEAD"] \in Word
         /\ p["P_BODY"] \in Word /\ p["P_TAIL"] \in Word /\ p["P_DIST"] \in Word
         /\ p["P_DIST2"] \in Word /\ p["P_DIST3"] \in Word
BY SMT DEF Power

\* Distilling never leaves the 16 bits of the power and of the mode.
LEMMA DistTyped ==
  ASSUME NEW p \in [Power -> Word], NEW tdef \in Int, NEW tkub \in Int,
         NEW was \in Word
  PROVE  /\ Dist1(p, tdef, tkub, was) \in Word \X Word
         /\ Dist2(p, tdef, tkub, was) \in Word \X Word
<1>1. /\ p["P_MAX"] \in Word /\ p["P_WARM"] \in Word /\ p["P_TAIL"] \in Word
      /\ p["P_DIST"] \in Word /\ p["P_DIST2"] \in Word /\ p["P_DIST3"] \in Word
      /\ (p["P_WARM"] * 2) % W \in Word
  <2>1. \A v \in Word : (v * 2) % W \in Word
    BY SMT, WordWrap, WordSize DEF Word
  <2> QED  BY SMT, <2>1, PowersAreWords
<1>2. \A m \in 0 .. 99 : m \in Word
  BY SmallWords
<1>3. Dist1(p, tdef, tkub, was) \in Word \X Word
  <2>1. CASE tdef > 4000
    BY SMT, <1>1, <1>2, <2>1 DEF Dist1, InRange
  <2>2. CASE tdef \in 3001 .. 4000
    BY SMT, <1>1, <1>2, <2>2 DEF Dist1
  <2>3. CASE tdef <= 3000
    BY SMT, <1>1, <1>2, <2>3 DEF Dist1
  <2> QED  BY SMT, <2>1, <2>2, <2>3
<1>4. Dist2(p, tdef, tkub, was) \in Word \X Word
  <2>1. CASE tdef < 4000
    BY SMT, <1>1, <1>2, <2>1 DEF Dist2, InRange
  <2>2. CASE tdef >= 4000
    BY SMT, <1>1, <1>2, <2>2 DEF Dist2, InRange
  <2> QED  BY SMT, <2>1, <2>2
<1> QED  BY SMT, <1>3, <1>4

\* The power of a stage in rectification is a setting or nothing.
LEMMA RectTyped ==
  ASSUME NEW p \in [Power -> Word], NEW m \in Word
  PROVE  Rect(p, m) \in Word
<1>1. 0 \in Word
  BY SMT, SmallWords
<1> QED  BY SMT, <1>1, PowersAreWords DEF Rect

\* Whatever the share, P_heat's power stays within P_MAX, and is off, at
\* P_MAX, or at least the least power: a sum that runs over 2^16 comes back
\* below that and is raised to it, but for one that comes back as zero.
LEMMA HeatLimits ==
  ASSUME NEW pid \in Word, NEW share \in Word, NEW pmax \in Word,
         NEW pmin \in Word
  PROVE  /\ Heat(pid, share, pmax, pmin) \in Word
         /\ Heat(pid, share, pmax, pmin) <= pmax
         /\ \/ Heat(pid, share, pmax, pmin) \in {0, pmax}
            \/ Heat(pid, share, pmax, pmin) >= pmin
<1>1. PICK sum \in Word : sum = (pmin + share) % W
  BY SMT, WordWrap, WordSize DEF Word
<1>2. PICK atLeast \in Word :
        /\ atLeast = IF 0 < sum /\ sum < pmin THEN pmin ELSE sum
        /\ atLeast = 0 \/ atLeast >= pmin
  BY SMT, <1>1 DEF Word
<1>3. Heat(pid, share, pmax, pmin)
        = IF pid = 0 THEN 0 ELSE IF atLeast > pmax THEN pmax ELSE atLeast
  BY SMT, <1>1, <1>2 DEF Heat
<1> QED  BY SMT, <1>2, <1>3, WordSize DEF Word

\* Every share is a word.
LEMMA SharesAreWords ==
  ASSUME NEW pid \in Word, NEW pmax \in Word, NEW share \in Shares(pid, pmax)
  PROVE  share \in Word
<1>1. pid * pmax \in Nat
  BY SMT, WordSize DEF Word
<1>2. (pid * pmax) \div 100 \in Nat
  BY SMT, <1>1
<1>3. ((pid * pmax) \div 100) % W \in Word
  BY SMT, <1>2, WordWrap
<1> QED  BY SMT, <1>3 DEF Shares

\* Subtracting Pshift, read as an int of 0 .. 65535, never raises a power.
LEMMA ShiftLowers ==
  ASSUME NEW proc \in Word, NEW p \in Word, NEW sh \in Word
  PROVE  Shifted(proc, p, sh) \in Word /\ Shifted(proc, p, sh) <= p
<1>1. CASE proc >= 9 /\ p > sh
  <2>1. p - sh \in Word /\ p - sh <= p
    BY SMT, <1>1, WordSize DEF Word
  <2>2. (p - sh) % W = p - sh
    BY SMT, <2>1, WrapSmall, WordSize DEF Word
  <2> QED  BY SMT, <1>1, <2>1, <2>2 DEF Shifted
<1>2. CASE ~(proc >= 9 /\ p > sh)
  BY SMT, <1>2, WordSize DEF Shifted, Word
<1> QED  BY SMT, <1>1, <1>2

-----------------------------------------------------------------------------
(* Types.                                                                  *)

LEMMA Kept ==
  /\ OpcTypes /\ UNCHANGED opc => OpcTypes'
  /\ ProgramTypes /\ UNCHANGED program => ProgramTypes'
  /\ TaskTypes /\ UNCHANGED task => TaskTypes'
  /\ HistoryTypes /\ UNCHANGED history => HistoryTypes'
<1>1. OpcTypes /\ UNCHANGED opc => OpcTypes'
  BY DEF OpcTypes, opc
<1>2. ProgramTypes /\ UNCHANGED program => ProgramTypes'
  BY DEF ProgramTypes, program
<1>3. TaskTypes /\ UNCHANGED task => TaskTypes'
  BY DEF TaskTypes, task
<1>4. HistoryTypes /\ UNCHANGED history => HistoryTypes'
  BY DEF HistoryTypes, history
<1> QED  BY <1>1, <1>2, <1>3, <1>4

\* The sensors' loop stays within its map.
LEMMA SensorsTyped ==
  ASSUME pos \in 1 .. Len(TempMap), NextSensor
  PROVE  pos' \in 1 .. Len(TempMap) /\ pc' \in {"temps", "shift"}
<1>1. Len(TempMap) \in Nat /\ Len(TempMap) > 0
  <2>1. TempMap \in Seq(STRING) /\ Len(TempMap) > 0
    BY Zenon, ScadaAssumption
  <2> QED  BY SMT, <2>1
<1> QED  BY SMT, <1>1 DEF NextSensor

\* Counting an alarm keeps the counters' types.
LEMMA RaiseTyped ==
  ASSUME TypeOK, NEW alarms, Raise(alarms)
  PROVE  /\ pos' \in 1 .. Len(TempMap) /\ pc' \in {"temps", "shift", "alarm"}
         /\ seen' \in 0 .. AlarmMod - 1 /\ raised' \in 0 .. AlarmMod - 1
<1>1. AlarmMod \in Nat \ {0} /\ raised \in 0 .. AlarmMod - 1
  BY ScadaAssumption DEF TypeOK, HistoryTypes
<1>2. (raised + 1) % AlarmMod \in 0 .. AlarmMod - 1
  BY SMT, <1>1, WrapTyped
<1>3. /\ alarm \in 0 .. AlarmMod - 1 /\ seen \in 0 .. AlarmMod - 1
      /\ pos \in 1 .. Len(TempMap)
  BY DEF TypeOK, OpcTypes, TaskTypes
<1>4. CASE Watched \in alarms
  BY <1>2, <1>3, <1>4 DEF Raise
<1>5. CASE Watched \notin alarms
  <2>1. NextSensor /\ UNCHANGED <<seen, raised>>
    BY <1>5 DEF Raise
  <2> QED  BY <1>1, <1>3, <2>1, SensorsTyped
<1> QED  BY <1>4, <1>5

\* The task reads Process, Mode and Pshift.
LEMMA ReadingTyped ==
  ASSUME TypeOK, ReadProcess \/ ReadMode \/ ReadShift
  PROVE  TypeOK'
<1> USE DEF TypeOK
<1>1. CASE ReadProcess
  <2>1. OpcTypes' /\ HistoryTypes'
    BY <1>1, Kept DEF ReadProcess
  <2>2. ProgramTypes'
    BY <1>1 DEF ReadProcess, OpcTypes, ProgramTypes
  <2>3. TaskTypes'
    BY <1>1 DEF ReadProcess, TaskTypes
  <2> QED  BY <2>1, <2>2, <2>3
<1>2. CASE ReadMode
  <2>1. OpcTypes' /\ HistoryTypes'
    BY <1>2, Kept DEF ReadMode
  <2>2. ProgramTypes'
    BY <1>2 DEF ReadMode, OpcTypes, ProgramTypes
  <2>3. TaskTypes'
    BY <1>2 DEF ReadMode, TaskTypes
  <2> QED  BY <2>1, <2>2, <2>3
<1>3. CASE ReadShift
  <2>1. OpcTypes' /\ ProgramTypes'
    BY <1>3, Kept DEF ReadShift
  <2>2. AsInt(pshift) \in Word
    <3>1. pshift \in Int
      BY SMT DEF OpcTypes, Int16
    <3> QED  BY <3>1, WordWrap DEF AsInt
  <2>3. TaskTypes'
    BY <1>3, <2>2 DEF ReadShift, TaskTypes
  <2>4. HistoryTypes'
    BY <1>3 DEF ReadShift, HistoryTypes
  <2> QED  BY <2>1, <2>3, <2>4
<1> QED  BY <1>1, <1>2, <1>3

\* The task reads the sensors.
LEMMA SensingTyped ==
  ASSUME TypeOK, (\E t \in Temp : ReadTempGood(t)) \/ ReadTempBad
  PROVE  TypeOK'
<1> USE DEF TypeOK
<1>1. OpcTypes' /\ more' \in 0 .. 2 /\ mixed' \in BOOLEAN /\ touched' \in BOOLEAN
  <2>1. UNCHANGED <<opc, more, mixed, touched>>
    BY DEF ReadTempGood, ReadTempBad
  <2>2. OpcTypes'
    BY <2>1, Kept
  <2> QED  BY Zenon, <2>1, <2>2 DEF HistoryTypes
<1>2. PICK alarms : Raise(alarms)
  BY DEF ReadTempGood, ReadTempBad
<1>3. /\ pos' \in 1 .. Len(TempMap) /\ pc' \in {"temps", "shift", "alarm"}
      /\ seen' \in 0 .. AlarmMod - 1 /\ raised' \in 0 .. AlarmMod - 1
  BY <1>2, RaiseTyped
<1>4. HistoryTypes'
  BY <1>1, <1>3 DEF HistoryTypes
<1>5. shift' \in Word
  BY DEF ReadTempGood, ReadTempBad, TaskTypes
<1>6. TaskTypes'
  BY <1>3, <1>5 DEF TaskTypes
<1>7. ProgramTypes'
  <2>1. ASSUME NEW t \in Temp, ReadTempGood(t)
        PROVE  ProgramTypes'
    <3>1. t \in Int
      BY ScadaAssumption
    <3> QED  BY <2>1, <3>1 DEF ReadTempGood, ProgramTypes
  <2>2. CASE ReadTempBad
    BY <2>2, Kept DEF ReadTempBad
  <2> QED  BY <2>1, <2>2
<1> QED  BY <1>1, <1>4, <1>6, <1>7

\* The task counts an alarm.
LEMMA CountingTyped ==
  ASSUME TypeOK, AddAlarm
  PROVE  TypeOK'
<1> USE DEF TypeOK
<1>1. AlarmMod \in Nat \ {0} /\ seen \in 0 .. AlarmMod - 1
      /\ raised \in 0 .. AlarmMod - 1
  BY ScadaAssumption DEF TaskTypes, HistoryTypes
<1>2. (seen + 1) % AlarmMod \in 0 .. AlarmMod - 1
  BY SMT, <1>1, WrapTyped
<1>3. OpcTypes'
  BY <1>2 DEF AddAlarm, OpcTypes
<1>4. ProgramTypes'
  BY Kept DEF AddAlarm
<1>5. TaskTypes'
  <2>1. pos' \in 1 .. Len(TempMap) /\ pc' \in {"temps", "shift"}
    BY SensorsTyped DEF AddAlarm, TaskTypes
  <2>2. 0 \in 0 .. AlarmMod - 1
    BY SMT, <1>1
  <2> QED  BY <2>1, <2>2 DEF AddAlarm, TaskTypes
<1>6. HistoryTypes'
  <2>1. raised' \in 0 .. AlarmMod - 1
    BY <1>1, <1>2 DEF AddAlarm
  <2>2. more' \in 0 .. 2 /\ mixed' \in BOOLEAN /\ touched' \in BOOLEAN
    BY Zenon DEF AddAlarm, HistoryTypes
  <2> QED  BY <2>1, <2>2 DEF HistoryTypes
<1> QED  BY <1>3, <1>4, <1>5, <1>6

\* The stages compute, publish and set the mode.
LEMMA StagesTyped ==
  ASSUME TypeOK, P_heat \/ P_dist \/ P_rect
  PROVE  TypeOK'
<1> USE DEF TypeOK
<1>0. /\ set \in Setting /\ set.power \in [Power -> Word]
      /\ set.heat \in 0 .. 10 * W - 1
  BY DEF OpcTypes, Setting
<1>1. HistoryTypes'
  <2>1. UNCHANGED history
    BY DEF P_heat, P_dist, P_rect, Stays
  <2> QED  BY <2>1, Kept
<1>2. TaskTypes'
  BY DEF P_heat, P_dist, P_rect, Stays, TaskTypes
<1>3. /\ UNCHANGED <<set, process, pset, pshift, alarm, temp, process0, mode0>>
  BY DEF P_heat, P_dist, P_rect, Stays
<1>4. ASSUME pub' \in Word, mode' \in Word, modDist' \in Word
      PROVE  TypeOK'
  <2>1. OpcTypes'
    BY <1>3, <1>4 DEF OpcTypes
  <2>2. ProgramTypes'
    BY <1>3, <1>4 DEF ProgramTypes
  <2> QED  BY <1>1, <1>2, <2>1, <2>2
<1>5. /\ pub \in Word /\ mode \in Word /\ modDist \in Word /\ mode0 \in Word
      /\ process0 \in Word
  BY DEF OpcTypes, ProgramTypes
<1>6. CASE P_heat
  <2>1. CASE process0 # 4
    BY <1>4, <1>5, <1>6, <2>1 DEF P_heat
  <2>2. CASE process0 = 4
    <3>1. PICK pid \in Garbage : \E share \in Shares(pid, set.power["P_MAX"]) :
             /\ mode' = HeatMode(pid)
             /\ pub' = Heat(pid, share, set.power["P_MAX"], Pmin(set))
      BY <1>6, <2>2 DEF P_heat
    <3>2. PICK share \in Shares(pid, set.power["P_MAX"]) :
             /\ mode' = HeatMode(pid)
             /\ pub' = Heat(pid, share, set.power["P_MAX"], Pmin(set))
      BY <3>1
    <3>3. pid \in Word /\ set.power["P_MAX"] \in Word
      BY <1>0, ScadaAssumption, PowersAreWords
    <3>4. share \in Word
      BY <3>3, SharesAreWords
    <3>5. Pmin(set) \in Word
      BY SMT, <1>0, WordSize DEF Pmin, Word
    <3>6. pub' \in Word
      BY <3>2, <3>3, <3>4, <3>5, HeatLimits
    <3>7. mode' \in Word
      BY SMT, <3>2, SmallWords DEF HeatMode
    <3> QED  BY <1>4, <1>5, <1>6, <3>6, <3>7 DEF P_heat
  <2> QED  BY <2>1, <2>2
<1>7. CASE P_dist
  <2>1. ASSUME NEW d \in Word \X Word, Distils(d)
        PROVE  TypeOK'
    <3>1. 91 \in Word /\ d[1] \in Word /\ d[2] \in Word
      BY SMT, SmallWords
    <3> QED  BY <1>4, <2>1, <3>1 DEF Distils
  <2>2. Tkub0 \in Int /\ Tdef0 \in Int
    BY ScadaAssumption DEF ProgramTypes, Tkub0, Tdef0
  <2>3. /\ Dist1(set.power, Tdef0, Tkub0, modDist) \in Word \X Word
        /\ Dist2(set.power, Tdef0, Tkub0, modDist) \in Word \X Word
    BY <1>0, <1>5, <2>2, DistTyped
  <2>4. CASE process0 \notin {1, 2} /\ UNCHANGED <<modDist, mode, pub>>
    BY <1>4, <1>5, <2>4
  <2> QED  BY <1>7, <2>1, <2>3, <2>4 DEF P_dist
<1>8. CASE P_rect
  <2>1. RectMode(process0, mode0) \in Word
    BY SMT, <1>5, SmallWords DEF RectMode
  <2>2. pub' \in Word
    BY <1>0, <1>5, <1>8, <2>1, RectTyped DEF P_rect
  <2> QED  BY <1>4, <1>5, <1>8, <2>2 DEF P_rect
<1> QED  BY <1>6, <1>7, <1>8

\* What SetPower reads back is a word, and so is what it sets.
LEMMA PowerTyped ==
  ASSUME TypeOK, NEW p \in Chosen
  PROVE  /\ p \in Word /\ Shifted(process0, p, shift) \in Word
         /\ Shifted(process0, p, shift) <= p
<1>1. pub \in Word /\ Garbage \subseteq Word /\ 0 \in Word
  BY ScadaAssumption, SmallWords DEF TypeOK, OpcTypes
<1>2. p \in Word
  BY <1>1 DEF Chosen
<1>3. process0 \in Word /\ shift \in Word
  BY DEF TypeOK, ProgramTypes, TaskTypes
<1> QED  BY <1>2, <1>3, ShiftLowers

\* SetPower sets the power and ends the round.
LEMMA SettingTyped ==
  ASSUME TypeOK, SetPower
  PROVE  TypeOK'
<1> USE DEF TypeOK
<1>1. 0 \in Word
  BY SMT, SmallWords
<1>2. pset' \in Word
  <2>1. PICK p \in Chosen : pset' = Shifted(process0, p, shift)
    BY DEF SetPower
  <2> QED  BY <2>1, PowerTyped
<1>3. OpcTypes'
  BY <1>1, <1>2 DEF SetPower, OpcTypes
<1>4. ProgramTypes'
  BY <1>1 DEF SetPower, ProgramTypes
<1>5. TaskTypes'
  BY <1>1 DEF SetPower, TaskTypes
<1>6. HistoryTypes'
  <2>1. more' \in 0 .. 2
    BY SMT DEF SetPower, HistoryTypes
  <2>2. raised' \in 0 .. AlarmMod - 1
    BY DEF SetPower, HistoryTypes
  <2>3. mixed' \in BOOLEAN /\ touched' \in BOOLEAN
    BY Zenon DEF SetPower, HistoryTypes
  <2> QED  BY <2>1, <2>2, <2>3 DEF HistoryTypes
<1> QED  BY <1>3, <1>4, <1>5, <1>6

\* Whatever the operators write is of the variable's type.
LEMMA OperatorsTyped ==
  ASSUME TypeOK, Operators
  PROVE  TypeOK'
<1> USE DEF TypeOK
<1>1. ProgramTypes' /\ TaskTypes'
  <2>1. UNCHANGED program /\ UNCHANGED task
    BY DEF Operators, OrderProcess, OrderMode, Tune, OrderShift,
           OverwritePower, OverwritePset, ResetAlarm
  <2> QED  BY <2>1, Kept
<1>2. /\ Processes \subseteq Word /\ Modes \subseteq Word /\ Powers \subseteq Word
      /\ Settings \subseteq Setting /\ Shifts \subseteq Int16
      /\ AlarmMod \in Nat \ {0}
  BY ScadaAssumption
<1>3. 0 \in 0 .. AlarmMod - 1
  BY SMT, <1>2
<1>4. ASSUME UNCHANGED history, OpcTypes'
      PROVE  TypeOK'
  BY <1>1, <1>4, Kept
<1>5. ASSUME NEW p \in Processes, OrderProcess(p)
      PROVE  TypeOK'
  <2>1. OpcTypes'
    BY <1>2, <1>5 DEF OrderProcess, OpcTypes
  <2>2. more' \in 0 .. 2
    BY SMT, <1>5 DEF OrderProcess, HistoryTypes
  <2>3. UNCHANGED <<raised, mixed, touched>>
    BY <1>5 DEF OrderProcess
  <2> QED  BY Zenon, <1>1, <2>1, <2>2, <2>3 DEF HistoryTypes
<1>6. ASSUME NEW m \in Modes, OrderMode(m)
      PROVE  TypeOK'
  <2>1. OpcTypes'
    BY <1>2, <1>6 DEF OrderMode, OpcTypes
  <2> QED  BY <1>4, <1>6, <2>1 DEF OrderMode
<1>7. ASSUME NEW s \in Settings, Tune(s)
      PROVE  TypeOK'
  <2>1. OpcTypes'
    BY <1>2, <1>7 DEF Tune, OpcTypes
  <2>2. UNCHANGED <<more, raised, mixed>>
    BY <1>7 DEF Tune
  <2>3. touched' \in BOOLEAN
    <3>1. Computing \in BOOLEAN
      BY SMT DEF Computing
    <3> QED  BY Zenon, <1>7, <3>1 DEF Tune
  <2> QED  BY Zenon, <1>1, <2>1, <2>2, <2>3 DEF HistoryTypes
<1>8. ASSUME NEW v \in Shifts, OrderShift(v)
      PROVE  TypeOK'
  <2>1. OpcTypes'
    BY <1>2, <1>8 DEF OrderShift, OpcTypes
  <2> QED  BY <1>4, <1>8, <2>1 DEF OrderShift
<1>9. ASSUME NEW p \in Powers, OverwritePower(p)
      PROVE  TypeOK'
  <2>1. OpcTypes'
    BY <1>2, <1>9 DEF OverwritePower, OpcTypes
  <2>2. UNCHANGED <<more, raised, mixed>> /\ touched' = TRUE
    BY <1>9 DEF OverwritePower
  <2> QED  BY Zenon, <1>1, <2>1, <2>2 DEF HistoryTypes
<1>10. ASSUME NEW p \in Powers, OverwritePset(p)
       PROVE  TypeOK'
  <2>1. OpcTypes'
    BY <1>2, <1>10 DEF OverwritePset, OpcTypes
  <2> QED  BY <1>4, <1>10, <2>1 DEF OverwritePset
<1>11. CASE ResetAlarm
  <2>1. OpcTypes'
    BY <1>3, <1>11 DEF ResetAlarm, OpcTypes
  <2>2. UNCHANGED <<more, touched>> /\ raised' \in 0 .. AlarmMod - 1
    BY <1>3, <1>11 DEF ResetAlarm
  <2>3. mixed' \in BOOLEAN
    BY Zenon, <1>11 DEF ResetAlarm
  <2> QED  BY Zenon, <1>1, <2>1, <2>2, <2>3 DEF HistoryTypes
<1> QED
  BY Zenon, <1>5, <1>6, <1>7, <1>8, <1>9, <1>10, <1>11 DEF Operators

\* Type correctness of the SCADA task, the 16-bit powers included, for any
\* sensors, temperatures, settings and writes.
THEOREM TypeCorrect == Spec => []TypeOK
<1>1. Init => TypeOK
  <2> SUFFICES ASSUME Init PROVE TypeOK
    OBVIOUS
  <2>1. Start \in Word /\ 0 \in Word /\ Start \in Int16 /\ Start \in Nat
    BY SMT DEF Start, Word, W, Int16
  <2>2. Start * 100 \in 0 .. 10 * W - 1 /\ Start * 100 \in Int
    <3>1. Start * 100 = 88800 /\ 10 * W - 1 = 655359
      BY SMT DEF Start, W
    <3> QED  BY SMT, <3>1
  <2>3. set \in Setting
    BY <2>1, <2>2 DEF Init, Setting
  <2>4. AlarmMod \in Nat \ {0} /\ Start % AlarmMod \in 0 .. AlarmMod - 1
        /\ 0 \in 0 .. AlarmMod - 1
    <3>1. AlarmMod \in Nat \ {0}
      BY Zenon, ScadaAssumption
    <3>2. 0 \in 0 .. AlarmMod - 1
      BY SMT, <3>1
    <3> QED  BY SMT, <2>1, <3>1, <3>2, WrapTyped
  <2>5. Len(TempMap) \in Nat /\ Len(TempMap) > 0
    <3>1. TempMap \in Seq(STRING) /\ Len(TempMap) > 0
      BY Zenon, ScadaAssumption
    <3> QED  BY SMT, <3>1
  <2>6. OpcTypes
    BY <2>1, <2>3, <2>4 DEF Init, OpcTypes
  <2>7. ProgramTypes
    BY <2>1 DEF Init, ProgramTypes
  <2>8. TaskTypes
    BY <2>1, <2>4, <2>5 DEF Init, TaskTypes
  <2>9. HistoryTypes
    <3>1. more \in 0 .. 2
      BY SMT DEF Init
    <3>2. raised \in 0 .. AlarmMod - 1 /\ mixed \in BOOLEAN /\ touched \in BOOLEAN
      BY Zenon, <2>4 DEF Init
    <3> QED  BY <3>1, <3>2 DEF HistoryTypes
  <2> QED  BY <2>6, <2>7, <2>8, <2>9 DEF TypeOK
<1>2. TypeOK /\ [Next]_vars => TypeOK'
  <2>1. CASE UNCHANGED vars
    BY <2>1, Kept DEF TypeOK, vars
  <2>2. CASE Task
    BY <2>2, ReadingTyped, SensingTyped, CountingTyped, StagesTyped,
       SettingTyped DEF Task
  <2>3. CASE Operators
    BY <2>3, OperatorsTyped
  <2> QED  BY <2>1, <2>2, <2>3 DEF Next
<1> QED  BY <1>1, <1>2, PTL DEF Spec

-----------------------------------------------------------------------------
(* The power.                                                              *)

\* Pshift only ever lowers a power, for any value operators write to it.
THEOREM ShiftsLower == Spec => ShiftOnlyLowers
<1>1. TypeOK /\ [Next]_vars
        => [pc = "pset" /\ pc' # pc => \E p \in Chosen : pset' <= p]_vars
  <2> SUFFICES ASSUME TypeOK, Next, pc = "pset", pc' # pc
               PROVE  \E p \in Chosen : pset' <= p
    OBVIOUS
  <2>1. ~Operators
    BY DEF Operators, OrderProcess, OrderMode, Tune, OrderShift,
           OverwritePower, OverwritePset, ResetAlarm, task
  <2>2. SetPower
    BY <2>1 DEF Next, Task, ReadProcess, ReadMode, ReadTempGood, ReadTempBad,
           AddAlarm, ReadShift, P_heat, P_dist, P_rect
  <2>3. PICK p \in Chosen : pset' = Shifted(process0, p, shift)
    BY <2>2 DEF SetPower
  <2>4. Shifted(process0, p, shift) <= p
    BY PowerTyped
  <2> QED  BY <2>3, <2>4
<1> QED  BY <1>1, TypeCorrect, PTL DEF Spec, ShiftOnlyLowers

\* P_heat's power stays within its limits until it is read back, for any
\* value of PID and of the settings: where the sum of the least power and the
\* share overflows, too.
THEOREM HeatStaysInLimits == Spec => []HeatInLimits
<1>1. Init => HeatInLimits
  BY DEF Init, HeatInLimits
<1>2. TypeOK /\ HeatInLimits /\ [Next]_vars => HeatInLimits'
  <2> SUFFICES ASSUME TypeOK, HeatInLimits, [Next]_vars,
                      (pc \in {"dist", "rect", "pset"})', process0' = 4,
                      ~touched'
               PROVE  /\ pub' <= set'.power["P_MAX"]
                      /\ \/ pub' \in {0, set'.power["P_MAX"]}
                         \/ pub' >= Pmin(set')
    BY DEF HeatInLimits, Pmin
  <2>1. CASE P_heat
    <3>1. process0 = 4 /\ UNCHANGED set
      BY <2>1 DEF P_heat, Stays
    <3>2. PICK pid \in Garbage : \E share \in Shares(pid, set.power["P_MAX"]) :
             pub' = Heat(pid, share, set.power["P_MAX"], Pmin(set))
      BY <2>1, <3>1 DEF P_heat
    <3>3. PICK share \in Shares(pid, set.power["P_MAX"]) :
             pub' = Heat(pid, share, set.power["P_MAX"], Pmin(set))
      BY <3>2
    <3>4. /\ set.power \in [Power -> Word] /\ set.heat \in 0 .. 10 * W - 1
      BY DEF TypeOK, OpcTypes, Setting
    <3>5. pid \in Word /\ set.power["P_MAX"] \in Word
      BY <3>4, ScadaAssumption, PowersAreWords
    <3>6. share \in Word
      BY <3>5, SharesAreWords
    <3>7. Pmin(set) \in Word
      BY SMT, <3>4, WordSize DEF Pmin, Word
    <3> QED  BY <3>1, <3>3, <3>5, <3>6, <3>7, HeatLimits
  <2>2. ASSUME pc \in {"dist", "rect", "pset"}, process0 = 4, ~touched,
               UNCHANGED <<pub, set>>
        PROVE  /\ pub' <= set'.power["P_MAX"]
               /\ \/ pub' \in {0, set'.power["P_MAX"]}
                  \/ pub' >= Pmin(set')
    BY <2>2 DEF HeatInLimits
  <2>3. CASE P_dist \/ P_rect
    <3>1. process0 = 4 /\ UNCHANGED <<set, history>> /\ pc \in {"dist", "rect"}
      BY <2>3 DEF P_dist, P_rect, Stays
    <3>2. UNCHANGED pub
      BY SMT, <2>3, <3>1 DEF P_dist, P_rect
    <3>3. ~touched
      BY <3>1 DEF history
    <3> QED  BY <2>2, <3>1, <3>2, <3>3
  <2>4. CASE ReadProcess \/ ReadMode \/ ReadShift \/ SetPower
    BY <2>4 DEF ReadProcess, ReadMode, ReadShift, SetPower
  <2>5. CASE (\E t \in Temp : ReadTempGood(t)) \/ ReadTempBad \/ AddAlarm
    <3>1. pc' \in {"temps", "shift", "alarm"}
      <4>1. (\E t \in Temp : ReadTempGood(t)) \/ ReadTempBad
              => pc' \in {"temps", "shift", "alarm"}
        BY RaiseTyped DEF ReadTempGood, ReadTempBad
      <4>2. AddAlarm => pc' \in {"temps", "shift", "alarm"}
        BY SensorsTyped DEF AddAlarm, TypeOK, TaskTypes
      <4> QED  BY <2>5, <4>1, <4>2
    <3> QED  BY <3>1
  <2>6. CASE Operators
    <3>1. UNCHANGED task /\ UNCHANGED program
      BY <2>6 DEF Operators, OrderProcess, OrderMode, Tune, OrderShift,
           OverwritePower, OverwritePset, ResetAlarm
    <3>2. process0 = 4 /\ pc \in {"dist", "rect", "pset"}
      BY <3>1 DEF task, program
    <3>3. Computing
      BY <3>2 DEF Computing
    <3>4. ~\E s \in Settings : Tune(s)
      BY <3>3 DEF Tune
    <3>5. ~\E p \in Powers : OverwritePower(p)
      BY DEF OverwritePower
    <3>6. UNCHANGED <<set, pub, touched>>
      BY <2>6, <3>4, <3>5 DEF Operators, OrderProcess, OrderMode, OrderShift,
           OverwritePset, ResetAlarm, history
    <3> QED  BY <2>2, <3>2, <3>6
  <2>7. CASE UNCHANGED vars
    BY <2>2, <2>7 DEF vars, opc, program, task, history
  <2> QED  BY <2>1, <2>3, <2>4, <2>5, <2>6, <2>7 DEF Next, Task
<1> QED  BY <1>1, <1>2, TypeCorrect, PTL DEF Spec

\* When the operators have stopped and a round has ended with power since,
\* the round in progress knows it.
Informed ==
  ~Powered(process) /\ more >= 1 => pc = "process" \/ ~Powered(process0)

StopInv == AtMostOneMore /\ Informed

\* After a stop at most one more round ends with power, however writes of the
\* operators fall between the steps of the rounds.
THEOREM StopHolds == Spec => []AtMostOneMore
<1>1. Init => StopInv
  BY SMT DEF Init, StopInv, AtMostOneMore, Informed
<1>2. TypeOK /\ StopInv /\ [Next]_vars => StopInv'
  <2> SUFFICES ASSUME TypeOK, StopInv, [Next]_vars
               PROVE  StopInv'
    OBVIOUS
  <2>0. more \in 0 .. 2
    BY DEF TypeOK, HistoryTypes
  <2>1. ASSUME UNCHANGED <<process, more, process0, pc>>
        PROVE  StopInv'
    BY <2>1 DEF StopInv, AtMostOneMore, Informed, Powered
  <2>2. CASE ReadProcess
    <3>1. process0' = process' /\ UNCHANGED <<process, more>>
      BY <2>2 DEF ReadProcess, opc, history
    <3> QED  BY <3>1 DEF StopInv, AtMostOneMore, Informed, Powered
  <2>3. ASSUME pc # "process", UNCHANGED <<process, more, process0>>
        PROVE  StopInv'
    BY <2>3 DEF StopInv, AtMostOneMore, Informed, Powered
  <2>4. CASE ReadMode \/ (\E t \in Temp : ReadTempGood(t)) \/ ReadTempBad
             \/ AddAlarm \/ ReadShift \/ P_heat \/ P_dist \/ P_rect
    <3>1. pc # "process" /\ UNCHANGED <<process, more, process0>>
      BY <2>4 DEF ReadMode, ReadTempGood, ReadTempBad, AddAlarm, ReadShift,
           P_heat, P_dist, P_rect, Stays, opc, program, history
    <3> QED  BY <2>3, <3>1
  <2>5. CASE SetPower
    <3>1. Informed'
      BY <2>5 DEF SetPower, Informed
    <3>2. CASE more' = more
      BY <3>1, <3>2 DEF StopInv, AtMostOneMore
    <3>3. CASE more' # more
      <4>1. ~Powered(process) /\ pset' # 0 /\ more' = more + 1
        BY <2>5, <3>3 DEF SetPower
      <4>2. ~Powered(process0) => pset' = 0
        <5>1. ASSUME ~Powered(process0)
              PROVE  Chosen = {0}
          BY SMT, <5>1 DEF Powered, Chosen
        <5>2. Shifted(process0, 0, shift) = 0
          <6>1. shift \in Word
            BY DEF TypeOK, TaskTypes
          <6>2. ~(0 > shift)
            BY SMT, <6>1, WordSize DEF Word
          <6> QED  BY SMT, <6>2 DEF Shifted
        <5> QED  BY <2>5, <5>1, <5>2 DEF SetPower
      <4>3. Powered(process0) /\ pc = "pset"
        BY <2>5, <4>1, <4>2 DEF SetPower
      <4>4. ~(more >= 1)
        BY <4>1, <4>3 DEF StopInv, Informed
      <4> QED  BY SMT, <2>0, <3>1, <4>1, <4>4 DEF StopInv, AtMostOneMore
    <3> QED  BY <3>2, <3>3
  <2>6. ASSUME NEW p \in Processes, OrderProcess(p)
        PROVE  StopInv'
    <3>1. CASE Powered(process) \/ Powered(p)
      <4>1. more' = 0
        BY <2>6, <3>1 DEF OrderProcess
      <4> QED  BY SMT, <4>1 DEF StopInv, AtMostOneMore, Informed
    <3>2. CASE ~Powered(process) /\ ~Powered(p)
      <4>1. UNCHANGED <<more, process0, pc>> /\ process' = p
        BY <2>6, <3>2 DEF OrderProcess, program, task
      <4> QED  BY <3>2, <4>1 DEF StopInv, AtMostOneMore, Informed, Powered
    <3> QED  BY <3>1, <3>2
  <2>7. CASE Operators
    <3>1. ASSUME ~\E p \in Processes : OrderProcess(p)
          PROVE  UNCHANGED <<process, more, process0, pc>>
      BY <2>7, <3>1 DEF Operators, OrderMode, Tune, OrderShift,
         OverwritePower, OverwritePset, ResetAlarm, program, task, history
    <3> QED  BY <2>1, <2>6, <3>1
  <2>8. CASE UNCHANGED vars
    BY <2>1, <2>8 DEF vars, opc, program, task, history
  <2> QED  BY <2>2, <2>4, <2>5, <2>7, <2>8 DEF Next, Task
<1>3. StopInv => AtMostOneMore
  BY DEF StopInv
<1> QED  BY <1>1, <1>2, <1>3, TypeCorrect, PTL DEF Spec

-----------------------------------------------------------------------------
(* The alarms.                                                             *)

\* The count as read is the counter, unless a reset fell in between.
Fresh == pc = "alarm" /\ ~mixed => seen = alarm

AlarmInv == AlarmsCount /\ Fresh

\* The alarms are counted right, for every width of their counters and every
\* interleaving of resets with the two halves of AddAlarm.
THEOREM AlarmsRight == Spec => []AlarmsCount
<1>1. Init => AlarmInv
  BY DEF Init, AlarmInv, AlarmsCount, Fresh
<1>2. TypeOK /\ AlarmInv /\ [Next]_vars => AlarmInv'
  <2> SUFFICES ASSUME TypeOK, AlarmInv, [Next]_vars
               PROVE  AlarmInv'
    OBVIOUS
  <2>1. ASSUME UNCHANGED <<alarm, pc, seen, raised, mixed>>
        PROVE  AlarmInv'
    BY <2>1 DEF AlarmInv, AlarmsCount, Fresh
  <2>2. ASSUME pc # "alarm", pc' # "alarm", UNCHANGED <<alarm, raised, mixed>>
        PROVE  AlarmInv'
    BY <2>2 DEF AlarmInv, AlarmsCount, Fresh
  <2>3. CASE (\E t \in Temp : ReadTempGood(t)) \/ ReadTempBad
    <3>1. pc = "temps" /\ UNCHANGED <<alarm, mixed>>
      BY <2>3 DEF ReadTempGood, ReadTempBad, opc
    <3>2. mixed \/ raised = alarm
      BY <3>1 DEF AlarmInv, AlarmsCount
    <3>3. PICK alarms : Raise(alarms)
      BY <2>3 DEF ReadTempGood, ReadTempBad
    <3>4. CASE Watched \in alarms
      <4>1. /\ pc' = "alarm" /\ seen' = alarm
            /\ raised' = (raised + 1) % AlarmMod
        BY <3>3, <3>4 DEF Raise
      <4> QED  BY <3>1, <3>2, <4>1 DEF AlarmInv, AlarmsCount, Fresh
    <3>5. CASE Watched \notin alarms
      <4>1. NextSensor /\ UNCHANGED raised
        BY <3>3, <3>5 DEF Raise
      <4>2. pc' # "alarm"
        BY <4>1, SensorsTyped DEF TypeOK, TaskTypes
      <4> QED  BY <2>2, <3>1, <4>1, <4>2
    <3> QED  BY <3>4, <3>5
  <2>4. CASE AddAlarm
    <3>1. pc = "alarm" /\ pc' # "alarm" /\ UNCHANGED mixed
      BY <2>4, SensorsTyped DEF AddAlarm, TypeOK, TaskTypes
    <3>2. CASE mixed
      BY <3>1, <3>2 DEF AlarmInv, AlarmsCount, Fresh
    <3>3. CASE ~mixed
      <4>1. raised' = raised /\ alarm' = (seen + 1) % AlarmMod
        BY <2>4, <3>3 DEF AddAlarm
      <4>2. seen = alarm /\ raised = (alarm + 1) % AlarmMod
        BY <3>1, <3>3 DEF AlarmInv, AlarmsCount, Fresh
      <4> QED  BY <3>1, <4>1, <4>2 DEF AlarmInv, AlarmsCount, Fresh
    <3> QED  BY <3>2, <3>3
  <2>5. CASE ReadProcess \/ ReadMode \/ ReadShift \/ P_heat \/ P_dist \/ P_rect
             \/ SetPower
    <3>1. /\ pc # "alarm" /\ pc' # "alarm"
          /\ UNCHANGED <<alarm, raised, mixed>>
      BY <2>5 DEF ReadProcess, ReadMode, ReadShift, P_heat, P_dist, P_rect,
           SetPower, Stays, opc, history
    <3> QED  BY <2>2, <3>1
  <2>6. CASE ResetAlarm
    <3>1. /\ UNCHANGED task /\ alarm' = 0 /\ raised' = 0
          /\ mixed' = (pc = "alarm")
      BY <2>6 DEF ResetAlarm
    <3>2. CASE pc = "alarm"
      BY <3>1, <3>2 DEF AlarmInv, AlarmsCount, Fresh
    <3>3. CASE pc # "alarm"
      BY <3>1, <3>3 DEF AlarmInv, AlarmsCount, Fresh, task
    <3> QED  BY <3>2, <3>3
  <2>7. CASE Operators /\ ~ResetAlarm
    <3>1. UNCHANGED <<alarm, pc, seen, raised, mixed>>
      BY <2>7 DEF Operators, OrderProcess, OrderMode, Tune, OrderShift,
         OverwritePower, OverwritePset, task, history
    <3> QED  BY <2>1, <3>1
  <2>8. CASE UNCHANGED vars
    BY <2>1, <2>8 DEF vars, opc, task, history
  <2> QED  BY <2>3, <2>4, <2>5, <2>6, <2>7, <2>8 DEF Next, Task
<1>3. AlarmInv => AlarmsCount
  BY DEF AlarmInv
<1> QED  BY <1>1, <1>2, <1>3, TypeCorrect, PTL DEF Spec

=============================================================================
