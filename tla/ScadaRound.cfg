SPECIFICATION LiveSpec
CONSTANTS
  TempMap <- OneSensor
  Tkub1 = "Tbuf"
  Tkub2 = "Tbuf"
  Tbuf = "Tbuf"
  Temp = {10100}
  Settings <- OneSetting
  Processes = {888, 1, 2, 4, 9}
  Modes = {19}
  Powers = {888}
  Shifts <- NegativeShift
  Watched = "T"
  Garbage = {50}
  AlarmMod = 2
INVARIANTS TypeOK AtMostOneMore HeatInLimits AlarmsCount
PROPERTIES ShiftOnlyLowers StopTurnsOff PowerSettles
