--------------------------------- MODULE Ups ---------------------------------
(***************************************************************************)
(* ina219.c: the chip that measures the battery, over I2C.                 *)
(*                                                                         *)
(* "Sometimes a sharp load will reset the INA219": the chip may fall back  *)
(* to its power-on registers at any time, between two writes too, and      *)
(* without calibration it measures no current.  It keeps its registers     *)
(* over a reset of the processor.                                          *)
(*                                                                         *)
(* A register has Word values: 2^16 in the code, and unsigned int Word^2.  *)
(* The voltage register counts 4 mV in its upper bits, above three others. *)
(***************************************************************************)
EXTENDS Integers

CONSTANT
  Word,       \* values of a register of the chip
  Voltages,   \* what the bus voltage register may hold
  Currents    \* what the current register may hold

ASSUME WordAssumption ==
  /\ Word \in Nat /\ Word > 14831 /\ Word % 2 = 0
  /\ Voltages \subseteq 0 .. Word - 1
  /\ Currents \subseteq 0 .. Word - 1

VARIABLES
  g_init,      \* ina219_ensure_init has run
  cal,         \* g_ina219.cal, 0 before that
  chip,        \* the chip's registers
  shaken,      \* history: the chip was reset since the measurement began
  reading      \* what the last measurement returned: mV, mA or nothing

upsVars == <<g_init, cal, chip, shaken, reading>>

-----------------------------------------------------------------------------
(* The configuration register *)

INA219_CONFIG_BVOLTAGERANGE_32V == 8192
INA219_CONFIG_GAIN_8_320MV == 6144
INA219_CONFIG_BADCRES_12BIT == 384
INA219_CONFIG_SADCRES_12BIT_32S_17MS == 104
INA219_CONFIG_MODE_SANDBVOLT_CONTINUOUS == 7

config ==
  INA219_CONFIG_BVOLTAGERANGE_32V + INA219_CONFIG_GAIN_8_320MV + INA219_CONFIG_BADCRES_12BIT
    + INA219_CONFIG_SADCRES_12BIT_32S_17MS + INA219_CONFIG_MODE_SANDBVOLT_CONTINUOUS

\* After power-on: 32 V, 320 mV, 12 bits, one sample, continuous.
PowerOnRegisters == [CALIBRATION |-> 0, CONFIG |-> 8192 + 6144 + 384 + 24 + 7]

\* Range, gain, resolution and mode, but not how many samples are averaged.
Scale(value) == <<value \div 128, value % 8>>

UpsInit ==
  /\ g_init = FALSE /\ cal = 0
  /\ chip = PowerOnRegisters /\ shaken = FALSE
  /\ reading = 0

-----------------------------------------------------------------------------
(* Conversions *)

\* (int16_t)value
Signed(value) == IF 2 * value >= Word THEN value - Word ELSE value

\* (int16_t)((value >> 3) * 4)
Millivolts(value) == Signed(((value \div 8) * 4) % Word)

\* An int divided by the uint32_t current_div_mA, which is 1: a current out
\* of the battery becomes a huge one into it.
Milliamperes(value) == Signed(value) % (Word * Word)

\* (int)ina219_percentage, truncated towards zero: 3.0 V is 0, 4.2 V is 100.
Percent(mV) == IF mV >= 3000 THEN (mV - 3000) \div 12 ELSE -((3000 - mV) \div 12)

-----------------------------------------------------------------------------
(* Registers *)

\* Two bytes of a value of any width.
ina219_reg_write(reg, value) == chip' = [chip EXCEPT ![reg] = value % Word]

\* What a read may find.  Without calibration the current register is 0.
ina219_reg_read(reg) ==
  IF reg = "BUSVOLTAGE" THEN Voltages
  ELSE IF chip.CALIBRATION = 0 THEN {0} ELSE Currents

\* The two writes of ina219_init, between which a load may come.
ina219_init ==
  /\ ~g_init
  /\ cal' = 4096
  /\ ina219_reg_write("CALIBRATION", 4096)
  /\ shaken' = FALSE
  /\ UNCHANGED <<g_init, reading>>

ina219_init_config ==
  /\ ina219_reg_write("CONFIG", config)
  /\ g_init' = TRUE
  /\ UNCHANGED <<cal, shaken, reading>>

\* What ina219_ensure_init does from the second call on.
ina219_ensure_init == g_init /\ shaken' = FALSE /\ UNCHANGED <<g_init, cal, chip, reading>>

ina219_voltage ==
  /\ \E value \in ina219_reg_read("BUSVOLTAGE") : reading' = Millivolts(value)
  /\ UNCHANGED <<g_init, cal, chip, shaken>>

\* Mutant: the calibration is left to ina219_init.
TrustsInit == UNCHANGED <<g_init, cal, chip, shaken, reading>>

\* "avoid this by always setting a cal value"
ina219_recalibrate ==
  /\ ina219_reg_write("CALIBRATION", cal)
  /\ shaken' = FALSE
  /\ UNCHANGED <<g_init, cal, reading>>

ina219_current ==
  /\ \E value \in ina219_reg_read("CURRENT") : reading' = Milliamperes(value)
  /\ UNCHANGED <<g_init, cal, chip, shaken>>

\* What was returned is printed or drawn.
ForgetReading == reading' = 0 /\ UNCHANGED <<g_init, cal, chip, shaken>>

-----------------------------------------------------------------------------
(* The chip *)

SharpLoad ==
  /\ chip.CALIBRATION # 0
  /\ chip' = PowerOnRegisters
  /\ shaken' = TRUE
  /\ UNCHANGED <<g_init, cal, reading>>

UpsReset(powered) ==
  /\ g_init' = FALSE /\ cal' = 0
  /\ chip' = IF powered THEN chip ELSE PowerOnRegisters
  /\ shaken' = FALSE
  /\ reading' = 0
-----------------------------------------------------------------------------
UpsTypeOK ==
  /\ g_init \in BOOLEAN
  /\ cal \in {0, 4096}
  /\ chip \in [{"CALIBRATION", "CONFIG"} -> 0 .. Word - 1]
  /\ shaken \in BOOLEAN
  /\ reading \in Int
=============================================================================
