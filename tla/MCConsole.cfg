SPECIFICATION Spec
CONSTANTS
  Chars <- MCChars
  Nul = "NUL"
  LineMax = 16
  Lines <- MCLines
  Texts <- MCTexts
  Junk <- MCJunk
  DataLen = 10
  TableRows = 2
  Word = 32768
  Voltages = {0, 7000, 8407}
  Currents = {0, 30000}
INVARIANTS TypeOK RunsWhatWasTyped DrawnInitialised CurrentCalibrated NothingHeld
PROPERTIES ShowsTable DeviceAllows
