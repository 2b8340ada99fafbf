SPECIFICATION Spec
CONSTANTS
  TempMap <- ThreeSensors
  Tkub1 = "Tkub1"
  Tkub2 = "Tkub1"
  Tbuf = "Tbuf"
  Temp = {2000, 4500}
  Settings <- OneSetting
  Processes = {1}
  Modes = {19}
  Powers = {888}
  Shifts <- NegativeShift
  Watched = "MB"
  Garbage = {50}
  AlarmMod = 2
PROPERTY DephlegmatorDecides
