---------------------------- MODULE ConsoleProofs ----------------------------
(***************************************************************************)
(* The prompt's safety, for every set of lines, tables and readings, every *)
(* length of a line and every width of the chip's registers.  What is      *)
(* painted (ShowsTable) is computed by folds and stays with TLC.           *)
(***************************************************************************)
EXTENDS Console, ReplProofs

Images == {"black", "red"}

\* What is allocated or open in each phase, and who may be in it.
HoldsIn(phase, handler, things) ==
  /\ phase \in {"init", "black", "ups calibrate", "ups current", "ups print", "mount", "next",
               "prompt", "left", "fs open", "off"} => things = {}
  /\ phase = "red" => things = {"black"}
  /\ phase \in {"draw mount", "draw open"} => things = Images
  /\ phase = "draw read" => things = Images \cup {"handle"}
  /\ phase = "draw close" => things = Images \cup {"handle", "table"}
  /\ phase \in {"draw unmount", "paint"} => things = Images \cup {"table"}
  /\ phase \in {"ups init", "ups config", "ups voltage"} =>
       things = IF handler \in {"gui", "boot"} THEN Images \cup {"table"} ELSE {}
  /\ phase = "display" => things = IF handler = "clear" THEN {} ELSE Images
  /\ phase = "free" => things \subseteq Images
  /\ phase \in {"fs read", "fs close"} => things = {"handle"}
  /\ phase \in {"draw mount", "draw open", "draw read", "draw close", "draw unmount", "paint"} =>
       handler \in {"gui", "boot"}
  /\ phase \in {"black", "red"} => handler \in {"gui", "boot", "test"}
  /\ phase = "init" => handler \in {"gui", "boot", "test", "clear"}

HeldAt == HoldsIn(main, job, held)

LEMMA HandlersAre ==
  Handlers = {"ls", "cat", "xcat", "flash", "usb", "v", "ma", "%", "clear", "sleep", "test", "gui"}
  BY DEF Handlers, REPL_CMDS, Cmd, FsLut, ResetLut, UpsLut, EpaperLut

LEMMA HeldLeft ==
  ASSUME HeldAt, main' = main, job' = job, held' = held PROVE HeldAt'
  BY DEF HeldAt

LEMMA HeldStep == HeldAt /\ [Next]_vars => HeldAt'
<1> SUFFICES ASSUME HeldAt, [Next]_vars PROVE HeldAt'
  OBVIOUS
<1> USE DEF HeldAt, HoldsIn, Images, Goto, Jump, Keep, Without, Caller
<1>1. CASE Prompt
  BY <1>1 DEF Prompt, boot_mount, repl_prompt, repl_line, repl_leaves
<1>2. CASE Handler
  <2>1. CASE repl_fs \/ repl_flash \/ repl_sleep
    BY <2>1 DEF repl_fs, repl_flash, repl_sleep, Calls
  <2>2. CASE repl_ups
    BY <2>2 DEF repl_ups, Calls, UpsLut
  <2>3. CASE repl_clear \/ repl_test \/ repl_gui
    BY <2>3 DEF repl_clear, repl_test, repl_gui, Calls
  <2>4. CASE reset_usb
    BY <2>4 DEF reset_usb, LoseRam
  <2> QED
    BY <1>2, <2>1, <2>2, <2>3, <2>4 DEF Handler
<1>3. CASE FsCalls
  BY <1>3 DEF FsCalls, fs_open, fs_read, fs_close
<1>4. CASE UpsCalls
  BY <1>4 DEF UpsCalls, Measuring, ups_init, ups_config, ups_calibrate, ups_current, ups_voltage, ups_print, KeepButUps
<1>5. CASE DrawCalls
  <2>1. CASE draw_init
    BY <2>1 DEF draw_init
  <2>2. CASE malloc_black
    BY <2>2 DEF malloc_black
  <2>5. CASE malloc_red
    BY <2>5 DEF malloc_red
  <2>6. CASE \/ read_mount \/ read_open \/ read_open_fails \/ read_file
            \/ read_no_memory \/ read_close \/ read_unmount
    BY <2>6 DEF read_mount, read_open, read_open_fails, read_file, read_no_memory, read_close, read_unmount, KeepButFs
  <2>3. CASE paint
    BY <2>3 DEF paint, freeTable
  <2>4. CASE display \/ display_test \/ epaper_clear \/ free_images
    BY <2>4 DEF display, display_test, epaper_clear, free_images, Shows
  <2> QED
    BY <1>5, <2>1, <2>2, <2>3, <2>4, <2>5, <2>6 DEF DrawCalls
<1>6. CASE Others
  <2>1. CASE Save \/ Load
    <3>1. main' = main /\ job' = job /\ held' = held
      BY <2>1 DEF Save, Load, runVars
    <3> QED
      BY <3>1, HeldLeft
  <2>2. CASE PowerLoss \/ WatchdogReset \/ Reboot
    <3>1. main' = "off" /\ held' = {}
      BY <2>2 DEF PowerLoss, WatchdogReset, Reboot, LoseRam
    <3> QED
      BY <3>1
  <2>3. CASE PowerOn
    BY <2>3 DEF PowerOn
  <2> QED
    BY <1>6, <2>1, <2>2, <2>3 DEF Others
<1>7. CASE UNCHANGED vars
  <2>1. main' = main /\ job' = job /\ held' = held
    BY <1>7 DEF vars, runVars
  <2> QED
    BY <2>1, HeldLeft
<1> QED
  BY <1>1, <1>2, <1>3, <1>4, <1>5, <1>6, <1>7 DEF Next

\* Every way out of every handler gives back what it allocated or opened, also
\* where the second image could not be had or a file not be opened.
THEOREM EverythingGivenBack == Spec => []NothingHeld
<1>1. Init => HeldAt
  BY DEF Init, HeldAt, HoldsIn
<1>2. HeldAt => NothingHeld
  BY DEF HeldAt, HoldsIn, NothingHeld, Images
<1> QED
  BY <1>1, <1>2, HeldStep, PTL DEF Spec

-----------------------------------------------------------------------------
\* Between epaper_init and the image on the panel.
Drawing ==
  \/ main \in {"black", "red", "draw mount", "draw open", "draw read", "draw close",
               "draw unmount", "paint", "display"}
  \/ main \in {"ups init", "ups config", "ups voltage"} /\ job \in {"gui", "boot"}

\* A drawing goes on with a panel that was initialised since it slept, unless
\* its start has failed.
Initialised == panel \in {"ready", "woken"}

ActivePanel ==
  /\ g_active => Initialised
  /\ Drawing => Initialised \/ init_rc = -1

\* What leaves the panel alone and starts no drawing keeps ActivePanel.
LEMMA PanelLeft ==
  ASSUME ActivePanel, UNCHANGED epaperVars, Drawing' => Drawing PROVE ActivePanel'
<1> g_active' = g_active /\ panel' = panel /\ init_rc' = init_rc
  BY DEF epaperVars
<1> QED
  BY Zenon DEF ActivePanel, Initialised

LEMMA ActivePanelStep == ActivePanel /\ [Next]_vars => ActivePanel'
<1> SUFFICES ASSUME ActivePanel, [Next]_vars PROVE ActivePanel'
  OBVIOUS
<1> USE DEF Drawing, Goto, Jump, Keep, Without, Caller
<1>1. CASE Prompt
  BY <1>1, PanelLeft DEF Prompt, boot_mount, repl_prompt, repl_line, repl_leaves, epaperVars
<1>2. CASE Handler
  <2>1. CASE repl_fs \/ repl_flash
    BY <2>1, PanelLeft DEF repl_fs, repl_flash, Calls
  <2>2. CASE repl_ups
    BY <2>2, PanelLeft DEF repl_ups, Calls, UpsLut
  <2>3. CASE repl_clear \/ repl_test \/ repl_gui
    BY <2>3, PanelLeft DEF repl_clear, repl_test, repl_gui, Calls
  <2>4. CASE repl_sleep
    <3>1. ~g_active' /\ ~Drawing'
      BY <2>4 DEF repl_sleep, Calls, epaper_sleep
    <3> QED
      BY <3>1, Zenon DEF ActivePanel
  <2>5. CASE reset_usb
    <3>1. ~g_active' /\ ~Drawing'
      BY <2>5 DEF reset_usb, LoseRam, EpaperReset
    <3> QED
      BY <3>1, Zenon DEF ActivePanel
  <2> QED
    BY <1>2, <2>1, <2>2, <2>3, <2>4, <2>5 DEF Handler
<1>3. CASE FsCalls
  BY <1>3, PanelLeft DEF FsCalls, fs_open, fs_read, fs_close
<1>4. CASE UpsCalls
  BY <1>4, PanelLeft DEF UpsCalls, Measuring, ups_init, ups_config, ups_calibrate,
       ups_current, ups_voltage, ups_print, KeepButUps
<1>5. CASE DrawCalls
  <2>1. CASE draw_init
    <3>1. CASE init_not_needed
      BY <3>1, Zenon DEF init_not_needed, ActivePanel, Initialised
    <3>2. CASE init_fails
      BY <3>2, Zenon DEF init_fails, ActivePanel, Initialised
    <3>3. CASE init_panel
      BY <3>3 DEF init_panel, ActivePanel, Initialised
    <3> QED
      BY <2>1, <3>1, <3>2, <3>3 DEF draw_init, epaper_init
  <2>2. CASE malloc_black \/ malloc_red
    BY <2>2, PanelLeft DEF malloc_black, malloc_red
  <2>3. CASE \/ read_mount \/ read_open \/ read_open_fails \/ read_file
            \/ read_no_memory \/ read_close \/ read_unmount
    <3>1. UNCHANGED epaperVars
      BY <2>3 DEF read_mount, read_open, read_open_fails, read_file, read_no_memory, read_close, read_unmount, KeepButFs
    <3>2. Drawing' => Drawing
      BY <2>3 DEF read_mount, read_open, read_open_fails, read_file, read_no_memory, read_close, read_unmount
    <3> QED
      BY <3>1, <3>2, PanelLeft
  <2>4. CASE paint
    BY <2>4, PanelLeft DEF paint
  <2>5. CASE display \/ display_test \/ epaper_clear \/ free_images
    BY <2>5, PanelLeft DEF display, display_test, epaper_clear, free_images, Shows
  <2> QED
    BY <1>5, <2>1, <2>2, <2>3, <2>4, <2>5 DEF DrawCalls
<1>6. CASE Others
  <2>1. CASE Save \/ Load
    BY <2>1, PanelLeft DEF Save, Load, runVars
  <2>2. CASE PowerLoss \/ WatchdogReset \/ Reboot
    <3>1. ~g_active' /\ ~Drawing'
      BY <2>2 DEF PowerLoss, WatchdogReset, Reboot, LoseRam, EpaperReset
    <3> QED
      BY <3>1, Zenon DEF ActivePanel
  <2>3. CASE PowerOn
    BY <2>3, PanelLeft DEF PowerOn
  <2> QED
    BY <1>6, <2>1, <2>2, <2>3 DEF Others
<1>7. CASE UNCHANGED vars
  BY <1>7, PanelLeft DEF vars, runVars
<1> QED
  BY <1>1, <1>2, <1>3, <1>4, <1>5, <1>6, <1>7 DEF Next

\* The two flags of epaper.c never claim a panel that has not been initialised
\* since it slept or lost its power, over every sequence of commands, resets and
\* power losses.  Nothing is said of a panel that does not wake up when it is.
THEOREM PanelInitialised == Spec => []DrawnInitialised
<1>1. Init => ActivePanel
  BY DEF Init, EpaperInit, ActivePanel, Drawing
<1>2. ActivePanel => DrawnInitialised
  BY DEF ActivePanel, Initialised, Drawing, DrawnInitialised
<1> QED
  BY <1>1, <1>2, ActivePanelStep, PTL DEF Spec

-----------------------------------------------------------------------------
\* What the chip may hold, and that a current is read on a calibrated chip.
Registers ==
  {c \in [{"CALIBRATION", "CONFIG"} -> 0 .. Word - 1] : c["CONFIG"] \in {14831, 14751}}

ChipOK == cal \in {0, 4096} /\ chip \in Registers /\ reading \in Int

Calibrated == ChipOK /\ (main = "ups current" => chip["CALIBRATION"] = cal \/ shaken)

LEMMA WordIs == Word \in Nat /\ Word > 14831 /\ 4096 % Word = 4096 /\ 0 % Word = 0
  BY WordAssumption

LEMMA ConfigIs == config = 14831 /\ Scale(14831) = Scale(14751)
  BY DEF config, INA219_CONFIG_BVOLTAGERANGE_32V, INA219_CONFIG_GAIN_8_320MV,
     INA219_CONFIG_BADCRES_12BIT, INA219_CONFIG_SADCRES_12BIT_32S_17MS,
     INA219_CONFIG_MODE_SANDBVOLT_CONTINUOUS, Scale

LEMMA SameScale == \A c \in Registers : Scale(c["CONFIG"]) = Scale(config)
<1> TAKE c \in Registers
<1>1. c["CONFIG"] \in {14831, 14751}
  BY DEF Registers
<1> QED
  BY <1>1, ConfigIs

\* The two states a record of registers is set to as a whole.
LEMMA WholeChip ==
  /\ PowerOnRegisters \in Registers
  /\ \A c \in 0 .. Word - 1 : [CALIBRATION |-> c, CONFIG |-> config] \in Registers
  BY WordIs, ConfigIs DEF PowerOnRegisters, Registers

\* A reading is an integer, at every width of the registers.
LEMMA ReadingsAreInt ==
  ASSUME NEW value \in 0 .. Word - 1
  PROVE  Millivolts(value) \in Int /\ Milliamperes(value) \in Int
<1>1. ((value \div 8) * 4) % Word \in Int
  BY WordIs
<1>2. \A v \in Int : Signed(v) \in Int
  BY WordIs DEF Signed
<1>3. Word * Word \in Nat /\ Word * Word > 0
  BY WordIs
<1>4. Millivolts(value) \in Int
  BY <1>1, <1>2 DEF Millivolts
<1>5. value \in Int
  BY WordIs
<1>6. Milliamperes(value) \in Int
  BY <1>2, <1>3, <1>5 DEF Milliamperes
<1> QED
  BY <1>4, <1>6

LEMMA ChipStep ==
  ASSUME ChipOK,
         \/ ina219_ensure_init \/ ina219_init \/ ina219_init_config \/ ina219_voltage \/ ina219_recalibrate \/ ina219_current
         \/ ForgetReading \/ SharpLoad \/ (\E powered \in BOOLEAN : UpsReset(powered))
         \/ UNCHANGED upsVars
  PROVE  ChipOK'
<1> USE DEF ChipOK, Registers
<1>1. CASE ina219_ensure_init
  BY <1>1 DEF ina219_ensure_init
<1>2. CASE ina219_init \/ ina219_init_config
  <2>1. /\ \/ cal' = 4096 /\ chip' = [chip EXCEPT !["CALIBRATION"] = 4096 % Word]
           \/ cal' = cal /\ chip' = [chip EXCEPT !["CONFIG"] = config % Word]
        /\ reading' = reading
    BY <1>2 DEF ina219_init, ina219_init_config, ina219_reg_write
  <2>2. 4096 % Word \in 0 .. Word - 1 /\ config % Word = 14831 /\ 14831 \in 0 .. Word - 1
    BY WordIs, ConfigIs
  <2> QED
    BY <2>1, <2>2
<1>3. CASE ina219_voltage \/ ina219_current
  <2>1. \A reg : ina219_reg_read(reg) \subseteq 0 .. Word - 1
    BY WordIs, WordAssumption DEF ina219_reg_read
  <2>2. reading' \in Int
    BY <1>3, <2>1, ReadingsAreInt DEF ina219_voltage, ina219_current
  <2>3. UNCHANGED <<cal, chip>>
    BY <1>3 DEF ina219_voltage, ina219_current
  <2> QED
    BY <2>2, <2>3
<1>4. CASE ina219_recalibrate
  <2>1. chip' = [chip EXCEPT !["CALIBRATION"] = cal % Word] /\ cal % Word \in 0 .. Word - 1
        /\ UNCHANGED <<cal, reading>>
    BY <1>4, WordIs DEF ina219_recalibrate, ina219_reg_write
  <2> QED
    BY <2>1
<1>5. CASE ForgetReading
  BY <1>5 DEF ForgetReading
<1>6. CASE SharpLoad
  BY <1>6, WholeChip DEF SharpLoad
<1>7. ASSUME NEW powered \in BOOLEAN, UpsReset(powered) PROVE ChipOK'
  <2>1. chip' = chip \/ chip' = PowerOnRegisters
    BY <1>7 DEF UpsReset
  <2>2. cal' = 0 /\ reading' = 0
    BY <1>7 DEF UpsReset
  <2> QED
    BY <2>1, <2>2, WholeChip
<1>8. CASE UNCHANGED upsVars
  BY <1>8 DEF upsVars
<1> QED
  BY <1>1, <1>2, <1>3, <1>4, <1>5, <1>6, <1>7, <1>8

\* Every step of the console is one of these for the chip.
LEMMA ChipSteps ==
  ASSUME [Next]_vars
  PROVE  \/ ina219_ensure_init \/ ina219_init \/ ina219_init_config
         \/ ina219_voltage \/ ina219_recalibrate \/ ina219_current
         \/ ForgetReading \/ SharpLoad \/ (\E powered \in BOOLEAN : UpsReset(powered))
         \/ UNCHANGED upsVars
<1>1. CASE Prompt
  BY <1>1 DEF Prompt, boot_mount, repl_prompt, repl_line, repl_leaves, Keep, upsVars
<1>2. CASE Handler
  BY <1>2 DEF Handler, repl_fs, repl_ups, repl_clear, repl_test, repl_gui, repl_sleep, repl_flash,
     Calls, reset_usb, LoseRam
<1>3. CASE FsCalls
  BY <1>3 DEF FsCalls, fs_open, fs_read, fs_close, Keep
<1>4. CASE UpsCalls
  BY <1>4 DEF UpsCalls, Measuring, ups_init, ups_config, ups_calibrate, ups_current, ups_voltage, ups_print
<1>5. CASE DrawCalls
  BY <1>5 DEF DrawCalls, draw_init, malloc_black, malloc_red, read_mount, read_open, read_open_fails, read_file,
     read_no_memory, read_close, read_unmount, KeepButFs, paint, display, display_test, epaper_clear,
     Shows, free_images, Keep
<1>6. CASE Others
  BY <1>6 DEF Others, Save, Load, PowerLoss, WatchdogReset, Reboot, LoseRam, PowerOn
<1>7. CASE UNCHANGED vars
  BY <1>7 DEF vars
<1> QED
  BY <1>1, <1>2, <1>3, <1>4, <1>5, <1>6, <1>7 DEF Next

LEMMA CalibratedChip == Calibrated => chip \in Registers /\ cal \in {0, 4096}
<1>1. Calibrated => ChipOK
  BY Zenon DEF Calibrated
<1>2. ChipOK => chip \in Registers /\ cal \in {0, 4096}
  BY DEF ChipOK
<1> QED
  BY <1>1, <1>2

LEMMA CalibratedStep == Calibrated /\ [Next]_vars => Calibrated'
<1> SUFFICES ASSUME Calibrated, [Next]_vars PROVE Calibrated'
  OBVIOUS
<1>1. ChipOK'
  BY ChipStep, ChipSteps DEF Calibrated
<1>2. ASSUME main' = "ups current" PROVE chip'["CALIBRATION"] = cal' \/ shaken'
  <2>1. ups_calibrate \/ Save \/ Load \/ UNCHANGED vars
    BY <1>2 DEF Next, Prompt, boot_mount, repl_prompt, repl_line, repl_leaves, Handler, repl_fs, repl_ups,
       repl_clear, repl_test, repl_gui, repl_sleep, repl_flash, Calls, reset_usb, LoseRam, FsCalls,
       fs_open, fs_read, fs_close, UpsCalls, ups_init, ups_config, ups_current, ups_voltage, ups_print, DrawCalls,
       draw_init, malloc_black, malloc_red, read_mount, read_open, read_open_fails, read_file, read_no_memory, read_close,
       read_unmount, paint, display, display_test, epaper_clear, free_images, Others, PowerLoss,
       WatchdogReset, Reboot, PowerOn, Goto, Jump, Caller, Measuring
  <2>2. CASE ups_calibrate
    <3>1. chip' = [chip EXCEPT !["CALIBRATION"] = cal % Word] /\ cal' = cal
      BY <2>2 DEF ups_calibrate, ina219_recalibrate, ina219_reg_write
    <3>2. cal % Word = cal /\ chip \in Registers
      BY CalibratedChip, WordIs
    <3>3. chip'["CALIBRATION"] = cal'
      BY <3>1, <3>2 DEF Registers
    <3> QED
      BY <3>3
  <2>3. CASE Save \/ UNCHANGED vars
    <3>1. main' = main /\ UNCHANGED upsVars
      BY <2>3 DEF Save, runVars, vars
    <3>2. UNCHANGED <<chip, cal, shaken>>
      BY <3>1, Zenon DEF upsVars
    <3> QED
      BY <1>2, <3>1, <3>2, Zenon DEF Calibrated
  <2>4. CASE Load
    BY <2>4, Zenon DEF Load, SharpLoad
  <2> QED
    BY <2>1, <2>2, <2>3, <2>4
<1> QED
  BY <1>1, <1>2, Zenon DEF Calibrated

\* A current is read from a chip that is calibrated for it, on the scale the
\* calibration was computed for, unless a load has reset the chip between the
\* last write and the reading (ina219_current), for every width of a register
\* that holds the configuration.
THEOREM CurrentIsCalibrated == Spec => []CurrentCalibrated
<1>1. Init => Calibrated
  <2> SUFFICES ASSUME Init PROVE Calibrated
    OBVIOUS
  <2>1. cal = 0 /\ chip = PowerOnRegisters /\ reading = 0 /\ main = "init"
    BY DEF Init, UpsInit
  <2>2. ChipOK
    BY <2>1, WholeChip DEF ChipOK
  <2> QED
    BY <2>1, <2>2 DEF Calibrated
<1>2. ASSUME Calibrated PROVE CurrentCalibrated
  <2>1. chip \in Registers
    BY <1>2, CalibratedChip
  <2>2. Scale(chip["CONFIG"]) = Scale(config)
    BY <2>1, SameScale
  <2> QED
    BY <1>2, <2>2 DEF Calibrated, CurrentCalibrated
<1> QED
  BY <1>1, <1>2, CalibratedStep, PTL DEF Spec

-----------------------------------------------------------------------------
\* The buffer is cleared before a line is read: by the loop at the prompt, and
\* before the first line because nothing has been read.
LineCleared ==
  /\ job = "boot" \/ main \in {"prompt", "off"} => line = Cleared
  /\ main = "mount" => job = "boot"
  /\ main \in {"prompt", "next", "left", "off"} => job # "boot"

Prompted == LineCleared /\ ReplTypeOK /\ RunsWhatWasTyped

LEMMA ClearedStep == LineCleared /\ [Next]_vars => LineCleared'
<1> SUFFICES ASSUME LineCleared, [Next]_vars PROVE LineCleared'
  OBVIOUS
<1> USE DEF LineCleared, Goto, Jump, Keep, Caller, replVars
<1>1. CASE Prompt
  <2>1. CASE boot_mount
    BY <2>1 DEF boot_mount
  <2>2. CASE repl_prompt
    BY <2>2 DEF repl_prompt, ReplClears
  <2>3. ASSUME NEW t \in Lines, repl_line(t) \/ repl_leaves(t) PROVE LineCleared'
    <3>1. job' = job /\ main = "prompt" /\ main' \in {"next", "left"}
      BY <2>3 DEF repl_line, repl_leaves
    <3> QED
      BY <3>1
  <2> QED
    BY <1>1, <2>1, <2>2, <2>3 DEF Prompt
<1>2. CASE Handler
  <2>1. CASE repl_fs
    BY <2>1 DEF repl_fs, Calls, FsLut
  <2>2. CASE repl_ups
    BY <2>2 DEF repl_ups, Calls, UpsLut
  <2>3. CASE repl_clear \/ repl_test \/ repl_gui
    BY <2>3 DEF repl_clear, repl_test, repl_gui, Calls
  <2>4. CASE repl_sleep \/ repl_flash
    BY <2>4 DEF repl_sleep, repl_flash, Calls
  <2>5. CASE reset_usb
    BY <2>5 DEF reset_usb, LoseRam
  <2> QED
    BY <1>2, <2>1, <2>2, <2>3, <2>4, <2>5 DEF Handler
<1>3. CASE FsCalls
  BY <1>3 DEF FsCalls, fs_open, fs_read, fs_close
<1>4. CASE UpsCalls
  BY <1>4 DEF UpsCalls, Measuring, ups_init, ups_config, ups_calibrate, ups_current, ups_voltage, ups_print
<1>5. CASE DrawCalls
  <2>1. CASE draw_init \/ malloc_black \/ malloc_red \/ paint
    BY <2>1 DEF draw_init, malloc_black, malloc_red, paint
  <2>2. CASE \/ read_mount \/ read_open \/ read_open_fails \/ read_file
            \/ read_no_memory \/ read_close \/ read_unmount
    BY <2>2 DEF read_mount, read_open, read_open_fails, read_file, read_no_memory, read_close, read_unmount
  <2>3. CASE display \/ display_test \/ epaper_clear \/ free_images
    BY <2>3 DEF display, display_test, epaper_clear, free_images
  <2> QED
    BY <1>5, <2>1, <2>2, <2>3 DEF DrawCalls
<1>6. CASE Others
  BY <1>6 DEF Others, Save, Load, PowerLoss, WatchdogReset, Reboot, PowerOn, LoseRam, runVars
<1>7. CASE UNCHANGED vars
  BY <1>7 DEF vars, runVars
<1> QED
  BY <1>1, <1>2, <1>3, <1>4, <1>5, <1>6, <1>7 DEF Next

\* Every step of the console is one of these for the line.
LEMMA LineSteps ==
  ASSUME [Next]_vars
  PROVE  \/ (\E t \in Lines : main = "prompt" /\ (ReplDispatches(t) \/ ReplLeaves(t)))
         \/ ReplClears
         \/ (line' = Cleared /\ typed' = <<>> /\ ran' = {})
         \/ UNCHANGED replVars
<1>1. CASE Prompt
  BY <1>1 DEF Prompt, boot_mount, repl_prompt, repl_line, repl_leaves, replVars
<1>2. CASE Handler
  BY <1>2 DEF Handler, repl_fs, repl_ups, repl_clear, repl_test, repl_gui, repl_sleep, repl_flash,
     Calls, reset_usb, LoseRam
<1>3. CASE FsCalls
  BY <1>3 DEF FsCalls, fs_open, fs_read, fs_close, Goto
<1>4. CASE UpsCalls
  BY <1>4 DEF UpsCalls, Measuring, ups_init, ups_config, ups_calibrate, ups_current, ups_voltage, ups_print, Goto
<1>5. CASE DrawCalls
  BY <1>5 DEF DrawCalls, draw_init, malloc_black, malloc_red, read_mount, read_open, read_open_fails, read_file,
     read_no_memory, read_close, read_unmount, paint, display, display_test, epaper_clear,
     free_images, Goto
<1>6. CASE Others
  BY <1>6 DEF Others, Save, Load, PowerLoss, WatchdogReset, Reboot, LoseRam, PowerOn
<1>7. CASE UNCHANGED vars
  BY <1>7 DEF vars
<1> QED
  BY <1>1, <1>2, <1>3, <1>4, <1>5, <1>6, <1>7 DEF Next

\* A line read into a cleared buffer leaves a buffer of that length.
LEMMA FilledLine ==
  ASSUME line = Cleared, NEW t \in Lines, ReplDispatches(t) \/ ReplLeaves(t)
  PROVE  line' \in [0 .. LineMax - 1 -> Chars \cup {Nul}] /\ typed' = t
<1>1. t \in Seq(Chars) /\ LineMax \in Nat \ {0}
  BY LinesAssumption, LineAssumption
<1>2. CASE ReadLine(t)
  BY <1>1, <1>2, FilledFits DEF ReadLine
<1>3. CASE ~Fits(t) /\ typed' = t /\ line' = Filled(line, SubSeq(t, 1, LineMax - 1))
  <2> DEFINE u == SubSeq(t, 1, LineMax - 1)
  <2>1. LineMax - 1 \in 0 .. Len(t)
    BY <1>1, <1>3 DEF Fits
  <2>2. u \in Seq(Chars) /\ Len(u) = LineMax - 1
    BY <1>1, <2>1
  <2>3. Fits(u)
    BY <1>1, <2>2 DEF Fits
  <2> HIDE DEF u
  <2>4. Filled(Cleared, u) \in [0 .. LineMax - 1 -> Chars \cup {Nul}]
    BY <2>2, <2>3, FilledFits
  <2> QED
    BY <1>3, <2>4 DEF u
<1> QED
  BY <1>2, <1>3 DEF ReplDispatches, ReplLeaves

LEMMA ClearedIsLine == Cleared \in [0 .. LineMax - 1 -> Chars \cup {Nul}] /\ <<>> \in Seq(Chars)
  BY DEF Cleared

\* What is dispatched is in the tables.
LEMMA DispatchedInTables ==
  ASSUME NEW buf, NEW h \in Dispatched(buf)
  PROVE  \E c \in REPL_CMDS : h.cmd = c.cmd /\ h.run \in c.lut
<1>1. PICK c, w : Runs(c, w) /\ h.cmd = c.cmd /\ h.run = w
  BY DispatchedAre
<1> QED
  BY <1>1 DEF Runs

LEMMA PromptedStep == Prompted /\ [Next]_vars => Prompted'
<1> SUFFICES ASSUME Prompted, [Next]_vars PROVE Prompted'
  OBVIOUS
<1>1. LineCleared'
  BY ClearedStep DEF Prompted
<1>2. CASE \E t \in Lines : main = "prompt" /\ (ReplDispatches(t) \/ ReplLeaves(t))
  <2>1. PICK t \in Lines : main = "prompt" /\ (ReplDispatches(t) \/ ReplLeaves(t))
    BY <1>2
  <2>2. line = Cleared /\ t \in Seq(Chars)
    BY <2>1, LinesAssumption DEF Prompted, LineCleared
  <2>3. line' \in [0 .. LineMax - 1 -> Chars \cup {Nul}] /\ typed' \in Seq(Chars)
    BY <2>1, <2>2, FilledLine
  <2>4. CASE ReplDispatches(t)
    <3>1. \A h \in ran' : \E c \in REPL_CMDS : h.cmd = c.cmd /\ h.run \in c.lut
      BY <2>4, DispatchedInTables DEF ReplDispatches
    <3>2. ReplTypeOK'
      BY <2>3, <3>1 DEF ReplTypeOK
    <3> QED
      BY <1>1, <2>2, <2>4, <3>2, DispatchesWhatWasTyped DEF Prompted
  <2>5. CASE ReplLeaves(t)
    <3>1. ran' = {}
      BY <2>5 DEF ReplLeaves
    <3>2. ReplTypeOK' /\ RunsWhatWasTyped'
      BY <2>3, <3>1 DEF ReplTypeOK, RunsWhatWasTyped
    <3> QED
      BY <1>1, <3>2 DEF Prompted
  <2> QED
    BY <2>1, <2>4, <2>5
<1>3. CASE ReplClears \/ (line' = Cleared /\ typed' = <<>> /\ ran' = {})
  <2>1. line' = Cleared /\ typed' = <<>> /\ ran' = {}
    BY <1>3 DEF ReplClears
  <2>2. ReplTypeOK' /\ RunsWhatWasTyped'
    BY <2>1, ClearedIsLine DEF ReplTypeOK, RunsWhatWasTyped
  <2> QED
    BY <1>1, <2>2 DEF Prompted
<1>4. CASE UNCHANGED replVars
  <2>1. line' = line /\ typed' = typed /\ ran' = ran
    BY <1>4 DEF replVars
  <2>2. ReplTypeOK' /\ RunsWhatWasTyped'
    BY <2>1 DEF Prompted, ReplTypeOK, RunsWhatWasTyped, TypedAt
  <2> QED
    BY <1>1, <2>2 DEF Prompted
<1> QED
  BY <1>2, <1>3, <1>4, LineSteps

\* Whatever is typed, at every length of the buffer: no more than one handler
\* runs for a line, it is the one the line names, and its argument is the rest
\* of that line and nothing of an earlier one.
THEOREM RunsAsTyped == Spec => []RunsWhatWasTyped
<1>1. Init => Prompted
  BY ClearedIsLine DEF Init, ReplInit, Prompted, LineCleared, ReplTypeOK, RunsWhatWasTyped
<1>2. Prompted => RunsWhatWasTyped
  BY DEF Prompted
<1> QED
  BY <1>1, <1>2, PromptedStep, PTL DEF Spec

-----------------------------------------------------------------------------
\* Every step of the console is one of these for the panel.
LEMMA PanelSteps ==
  ASSUME [Next]_vars
  PROVE  \/ epaper_init \/ epaper_sleep \/ (\E powered \in BOOLEAN : EpaperReset(powered))
         \/ UNCHANGED epaperVars
<1>1. CASE Prompt
  BY <1>1 DEF Prompt, boot_mount, repl_prompt, repl_line, repl_leaves, Keep
<1>2. CASE Handler
  BY <1>2 DEF Handler, repl_fs, repl_ups, repl_clear, repl_test, repl_gui, repl_sleep, repl_flash,
     reset_usb, LoseRam
<1>3. CASE FsCalls
  BY <1>3 DEF FsCalls, fs_open, fs_read, fs_close, Keep
<1>4. CASE UpsCalls
  BY <1>4 DEF UpsCalls, Measuring, ups_init, ups_config, ups_calibrate, ups_current, ups_voltage, ups_print, KeepButUps
<1>5. CASE DrawCalls
  BY <1>5 DEF DrawCalls, draw_init, malloc_black, malloc_red, read_mount, read_open, read_open_fails, read_file,
     read_no_memory, read_close, read_unmount, KeepButFs, paint, display, display_test, epaper_clear,
     Shows, free_images, Keep
<1>6. CASE Others
  BY <1>6 DEF Others, Save, Load, PowerLoss, WatchdogReset, Reboot, LoseRam, PowerOn
<1>7. CASE UNCHANGED vars
  BY <1>7 DEF vars
<1> QED
  BY <1>1, <1>2, <1>3, <1>4, <1>5, <1>6, <1>7 DEF Next

LEMMA PanelType ==
  ASSUME EpaperTypeOK, [Next]_vars PROVE EpaperTypeOK'
<1>1. CASE epaper_init
  <2>1. CASE init_not_needed
    BY <2>1 DEF init_not_needed, EpaperTypeOK
  <2>2. CASE init_fails
    BY <2>2 DEF init_fails, EpaperTypeOK
  <2>3. CASE init_panel
    BY <2>3 DEF init_panel, EpaperTypeOK
  <2> QED
    BY <1>1, <2>1, <2>2, <2>3 DEF epaper_init
<1>2. CASE epaper_sleep
  <2>1. panel' = panel \/ panel' = "asleep"
    BY <1>2 DEF epaper_sleep
  <2>2. g_once' = g_once /\ g_active' = FALSE /\ init_rc' = init_rc
    BY <1>2, Zenon DEF epaper_sleep
  <2> QED
    BY <2>1, <2>2, Zenon DEF EpaperTypeOK
<1>3. ASSUME NEW powered \in BOOLEAN, EpaperReset(powered) PROVE EpaperTypeOK'
  <2>1. panel' = panel \/ panel' = "off"
    BY <1>3 DEF EpaperReset
  <2>2. g_once' = FALSE /\ g_active' = FALSE /\ init_rc' = 0
    BY <1>3, Zenon DEF EpaperReset
  <2> QED
    BY <2>1, <2>2, Zenon DEF EpaperTypeOK
<1>4. CASE UNCHANGED epaperVars
  BY <1>4 DEF epaperVars, EpaperTypeOK
<1> QED
  BY <1>1, <1>2, <1>3, <1>4, PanelSteps

LEMMA ChipType ==
  ASSUME UpsTypeOK, ChipOK', [Next]_vars PROVE UpsTypeOK'
<1>1. cal' \in {0, 4096} /\ chip' \in Registers /\ reading' \in Int
  BY DEF ChipOK, Registers
<1>2. chip' \in [{"CALIBRATION", "CONFIG"} -> 0 .. Word - 1]
  BY <1>1 DEF Registers
<1>3. g_init' \in BOOLEAN /\ shaken' \in BOOLEAN
  <2>1. /\ g_init' = g_init \/ g_init' = TRUE \/ g_init' = FALSE
        /\ shaken' = shaken \/ shaken' = TRUE \/ shaken' = FALSE
    <3>1. CASE ina219_init
      <4>1. g_init' = g_init /\ shaken' = FALSE
        BY <3>1 DEF ina219_init
      <4> QED
        BY <4>1, Zenon
    <3>2. CASE ina219_init_config
      BY <3>2, Zenon DEF ina219_init_config
    <3>3. CASE ina219_ensure_init
      BY <3>3, Zenon DEF ina219_ensure_init
    <3>4. CASE ina219_voltage \/ ina219_recalibrate \/ ina219_current \/ ForgetReading \/ SharpLoad
      BY <3>4, Zenon DEF ina219_voltage, ina219_recalibrate, ina219_current, ForgetReading, SharpLoad
    <3>5. CASE (\E powered \in BOOLEAN : UpsReset(powered)) \/ UNCHANGED upsVars
      BY <3>5, Zenon DEF UpsReset, upsVars
    <3> QED
      BY <3>1, <3>2, <3>3, <3>4, <3>5, ChipSteps, Zenon
  <2>2. g_init \in BOOLEAN /\ shaken \in BOOLEAN
    BY DEF UpsTypeOK
  <2>3. g_init' \in BOOLEAN
    BY <2>1, <2>2, Zenon
  <2>4. shaken' \in BOOLEAN
    BY <2>1, <2>2, Zenon
  <2> QED
    BY <2>3, <2>4
<1> QED
  BY <1>1, <1>2, <1>3 DEF UpsTypeOK

\* The rest of TypeOK.
RunTypes ==
  /\ main \in Phases
  /\ job \in Handlers \cup {"boot", "none"}
  /\ todo \subseteq ran
  /\ held \subseteq {"black", "red", "table", "handle"}
  /\ job = "boot" \/ main \in {"prompt", "off"} => todo = {}

FlagTypes == mounted \in BOOLEAN /\ armed \in BOOLEAN /\ drawn \in BOOLEAN

TextTypes == db \in Texts /\ file \in Texts \cup {<<>>} /\ table \in Texts \cup {<<>>}

LEMMA FlagStep == ASSUME FlagTypes, [Next]_vars PROVE FlagTypes'
<1>1. /\ mounted' = mounted \/ mounted' = TRUE \/ mounted' = FALSE
      /\ armed' = armed \/ armed' = TRUE \/ armed' = FALSE
      /\ drawn' = drawn \/ drawn' = TRUE \/ drawn' = FALSE
  <2> USE DEF Goto, Jump, Keep, fsVars, runVars
  <2>1. CASE Prompt
    BY <2>1, Zenon DEF Prompt, boot_mount, repl_prompt, repl_line, repl_leaves
  <2>2. CASE Handler
    BY <2>2, Zenon DEF Handler, repl_fs, repl_ups, repl_clear, repl_test, repl_gui, repl_sleep,
       repl_flash, Calls, reset_usb, LoseRam
  <2>3. CASE FsCalls \/ UpsCalls
    BY <2>3, Zenon DEF FsCalls, fs_open, fs_read, fs_close, UpsCalls, ups_init, ups_config, ups_calibrate,
       ups_current, ups_voltage, ups_print, KeepButUps
  <2>4. CASE DrawCalls
    BY <2>4, Zenon DEF DrawCalls, draw_init, malloc_black, malloc_red, read_mount, read_open,
       read_open_fails, read_file, read_no_memory, read_close, read_unmount, KeepButFs, paint, display, display_test,
       epaper_clear, Shows, free_images
  <2>5. CASE Others
    BY <2>5, Zenon DEF Others, Save, Load, PowerLoss, WatchdogReset, Reboot, LoseRam, PowerOn
  <2>6. CASE UNCHANGED vars
    BY <2>6, Zenon DEF vars
  <2> QED
    BY <2>1, <2>2, <2>3, <2>4, <2>5, <2>6, Zenon DEF Next
<1> QED
  BY <1>1, Zenon DEF FlagTypes

LEMMA TextStep == ASSUME TextTypes, [Next]_vars PROVE TextTypes'
<1> USE DEF TextTypes, Goto, Jump, Keep, fsVars, runVars
<1>1. CASE Prompt
  BY <1>1 DEF Prompt, boot_mount, repl_prompt, repl_line, repl_leaves
<1>2. CASE Handler
  BY <1>2 DEF Handler, repl_fs, repl_ups, repl_clear, repl_test, repl_gui, repl_sleep, repl_flash,
     Calls, reset_usb, LoseRam
<1>3. CASE FsCalls \/ UpsCalls
  BY <1>3 DEF FsCalls, fs_open, fs_read, fs_close, UpsCalls, ups_init, ups_config, ups_calibrate, ups_current,
     ups_voltage, ups_print, KeepButUps
<1>4. CASE DrawCalls
  BY <1>4 DEF DrawCalls, draw_init, malloc_black, malloc_red, read_mount, read_open, read_open_fails, read_file,
     read_no_memory, read_close, read_unmount, KeepButFs, paint, freeTable, display, display_test,
     epaper_clear, Shows, free_images
<1>5. CASE Others
  BY <1>5 DEF Others, Save, Load, PowerLoss, WatchdogReset, Reboot, LoseRam, PowerOn
<1>6. CASE UNCHANGED vars
  BY <1>6 DEF vars
<1> QED
  BY <1>1, <1>2, <1>3, <1>4, <1>5, <1>6 DEF Next

LEMMA RunStep == ASSUME RunTypes, ReplTypeOK, LineCleared, [Next]_vars PROVE RunTypes'
<1> USE DEF RunTypes, Phases, Goto, Jump, Keep, Without, Caller, runVars
<1>1. CASE Prompt
  <2>1. CASE boot_mount
    BY <2>1 DEF boot_mount, replVars, LineCleared
  <2>2. CASE repl_prompt
    BY <2>2 DEF repl_prompt, ReplClears
  <2>3. ASSUME NEW t \in Lines, repl_line(t) PROVE RunTypes'
    BY <2>3 DEF repl_line, LineCleared
  <2>4. ASSUME NEW t \in Lines, repl_leaves(t) PROVE RunTypes'
    BY <2>4 DEF repl_leaves, LineCleared
  <2> QED
    BY <1>1, <2>1, <2>2, <2>3, <2>4 DEF Prompt
<1>2. CASE Handler
  <2>1. ASSUME NEW handlers, NEW first \in Phases \ {"prompt", "off"}, Calls(handlers, first) PROVE RunTypes'
    <3>1. PICK h \in todo : job' = h.run /\ todo' = todo \ {h}
      BY <2>1 DEF Calls
    <3>2. h.run \in Handlers /\ h.run # "boot"
      <4>1. h \in ran
        BY <3>1
      <4>2. PICK c \in REPL_CMDS : h.run \in c.lut
        BY <4>1, Zenon DEF ReplTypeOK
      <4>3. h.run \in Handlers
        BY <4>2, Zenon DEF Handlers
      <4> QED
        BY <4>3, HandlersAre
    <3>3. main = "next" /\ main' = first /\ held' = held /\ ran' = ran
      BY <2>1 DEF Calls, replVars
    <3>4. main' = "prompt" \/ main' = "off" => FALSE
      BY <2>1, <3>3
    <3> HIDE DEF Phases
    <3> QED
      BY <2>1, <3>1, <3>2, <3>3, <3>4
  <2>2. CASE reset_usb
    BY <2>2 DEF reset_usb, LoseRam
  <2> QED
    BY <1>2, <2>1, <2>2 DEF Handler, repl_fs, repl_ups, repl_clear, repl_test, repl_gui, repl_sleep,
       repl_flash
<1>3. CASE FsCalls
  BY <1>3 DEF FsCalls, fs_open, fs_read, fs_close, replVars
<1>4. CASE UpsCalls
  BY <1>4 DEF UpsCalls, Measuring, ups_init, ups_config, ups_calibrate, ups_current, ups_voltage, ups_print, KeepButUps,
     replVars
<1>5. CASE DrawCalls
  BY <1>5 DEF DrawCalls, draw_init, malloc_black, malloc_red, read_mount, read_open, read_open_fails, read_file,
     read_no_memory, read_close, read_unmount, KeepButFs, paint, freeTable, display, display_test,
     epaper_clear, Shows, free_images, replVars
<1>6. CASE Others
  BY <1>6 DEF Others, Save, Load, PowerLoss, WatchdogReset, Reboot, LoseRam, PowerOn, replVars
<1>7. CASE UNCHANGED vars
  BY <1>7 DEF vars, replVars
<1> QED
  BY <1>1, <1>2, <1>3, <1>4, <1>5, <1>6, <1>7 DEF Next

\* Every variable keeps its type: the line, what is running and what it holds,
\* the chip's registers, the panel, and the texts in RAM and on the flash.
THEOREM TypesKept == Spec => []TypeOK
<1> DEFINE Inv == Prompted /\ ChipOK /\ UpsTypeOK /\ EpaperTypeOK /\ RunTypes /\ FlagTypes /\ TextTypes
<1>1. Init => Inv
  <2> SUFFICES ASSUME Init PROVE Inv
    OBVIOUS
  <2>1. Prompted
    BY ClearedIsLine DEF Init, ReplInit, Prompted, LineCleared, ReplTypeOK, RunsWhatWasTyped
  <2>2. ChipOK /\ UpsTypeOK
    <3>1. cal = 0 /\ reading = 0 /\ chip \in Registers /\ g_init = FALSE /\ shaken = FALSE
      BY WholeChip DEF Init, UpsInit
    <3>2. chip \in [{"CALIBRATION", "CONFIG"} -> 0 .. Word - 1]
      BY <3>1 DEF Registers
    <3>3. g_init \in BOOLEAN /\ shaken \in BOOLEAN
      BY <3>1, Zenon
    <3>4. cal \in {0, 4096} /\ reading \in Int
      BY <3>1
    <3> QED
      BY <3>1, <3>2, <3>3, <3>4 DEF ChipOK, UpsTypeOK
  <2>3. EpaperTypeOK
    BY DEF Init, EpaperInit, EpaperTypeOK
  <2>4. RunTypes
    BY DEF Init, RunTypes, Phases
  <2>5. FlagTypes /\ TextTypes
    BY DEF Init, FlagTypes, TextTypes
  <2> QED
    BY <2>1, <2>2, <2>3, <2>4, <2>5
<1>2. Inv /\ [Next]_vars => Inv'
  <2> SUFFICES ASSUME Inv, [Next]_vars PROVE Inv'
    OBVIOUS
  <2>1. ChipOK'
    BY ChipStep, ChipSteps
  <2> QED
    BY <2>1, PromptedStep, ChipType, PanelType, RunStep, FlagStep, TextStep DEF Prompted
<1>3. Inv => TypeOK
  BY DEF Prompted, RunTypes, FlagTypes, TextTypes, TypeOK
<1> QED
  BY <1>1, <1>2, <1>3, PTL DEF Spec

-----------------------------------------------------------------------------
(* Device allows what is typed. *)

\* Who draws at the prompt has drawn, and is seen so.
GuiDrawn == job = "gui" => drawn

LEMMA GuiStep == ASSUME GuiDrawn, [Next]_vars PROVE GuiDrawn'
<1> USE DEF GuiDrawn, Goto, Jump, Keep, runVars
<1>1. CASE Prompt
  BY <1>1 DEF Prompt, boot_mount, repl_prompt, repl_line, repl_leaves
<1>2. CASE Handler
  <2>1. CASE repl_fs \/ repl_ups
    BY <2>1 DEF repl_fs, repl_ups, Calls, FsLut, UpsLut
  <2>2. CASE repl_clear \/ repl_test \/ repl_sleep \/ repl_flash
    BY <2>2 DEF repl_clear, repl_test, repl_sleep, repl_flash, Calls
  <2>3. CASE repl_gui
    BY <2>3 DEF repl_gui
  <2>4. CASE reset_usb
    BY <2>4 DEF reset_usb, LoseRam
  <2> QED
    BY <1>2, <2>1, <2>2, <2>3, <2>4 DEF Handler
<1>3. CASE FsCalls \/ UpsCalls
  BY <1>3 DEF FsCalls, fs_open, fs_read, fs_close, UpsCalls, ups_init, ups_config, ups_calibrate, ups_current,
     ups_voltage, ups_print
<1>4. CASE DrawCalls
  BY <1>4 DEF DrawCalls, draw_init, malloc_black, malloc_red, read_mount, read_open, read_open_fails, read_file,
     read_no_memory, read_close, read_unmount, paint, display, display_test, epaper_clear, free_images
<1>5. CASE Others
  BY <1>5 DEF Others, Save, Load, PowerLoss, WatchdogReset, Reboot, LoseRam, PowerOn
<1>6. CASE UNCHANGED vars
  BY <1>6 DEF vars
<1> QED
  BY <1>1, <1>2, <1>3, <1>4, <1>5, <1>6 DEF Next

Powered == main # "off" /\ main' # "off"

\* A step that Device does not see.
LEMMA Unseen ==
  ASSUME Powered, DeviceMain' = DeviceMain, UNCHANGED <<mounted, armed, drawn>>
  PROVE  UNCHANGED Dev!vars
<1>1. (IF drawn /\ main # "off" THEN "prompt" ELSE "mount")'
        = IF drawn /\ main # "off" THEN "prompt" ELSE "mount"
  BY DEF Powered
<1>2. /\ (main # "off")' = (main # "off")
      /\ (IF main = "off" THEN 0 ELSE 1)' = IF main = "off" THEN 0 ELSE 1
  BY DEF Powered
<1> QED
  BY <1>1, <1>2 DEF Dev!vars, Dev!ramVars, Dev!flashVars, Dev!histVars

\* main goes on by one phase of Device.
LEMMA GoesOn ==
  ASSUME Powered, UNCHANGED drawn
  PROVE  /\ Dev!Goto(DeviceMain, DeviceMain')
         /\ UNCHANGED armed => Dev!KeepAllButMount
         /\ UNCHANGED <<armed, mounted>> => Dev!KeepRam
<1>1. (IF drawn /\ main # "off" THEN "prompt" ELSE "mount")'
        = IF drawn /\ main # "off" THEN "prompt" ELSE "mount"
  BY DEF Powered
<1>2. /\ (main # "off")' = (main # "off")
      /\ (IF main = "off" THEN 0 ELSE 1)' = IF main = "off" THEN 0 ELSE 1
  BY DEF Powered
<1> QED
  BY <1>1, <1>2 DEF Dev!Goto, Dev!KeepAllButMount, Dev!KeepRam, Dev!ramVars, Dev!flashVars, Dev!histVars

Seen == [Dev!Next]_(Dev!vars)

\* Losing RAM, with the power or by a reset, is one step of Device.
LEMMA RamLost ==
  ASSUME NEW powered \in BOOLEAN, LoseRam(powered), main # "off"
  PROVE  Dev!LoseRam
<1>1. main' = "off" /\ mounted' = FALSE /\ armed' = FALSE /\ drawn' = drawn
  BY DEF LoseRam
<1>2. DeviceMain' = "off"
  BY <1>1 DEF DeviceMain
<1>3. /\ (IF drawn /\ main # "off" THEN "prompt" ELSE "mount")' = "mount"
      /\ (main # "off")' = FALSE /\ (IF main = "off" THEN 0 ELSE 1)' = 0
  BY <1>1
<1> QED
  BY <1>1, <1>2, <1>3 DEF Dev!LoseRam, Dev!flashVars, Dev!histVars

LEMMA PromptSeen ==
  ASSUME LineCleared, Prompt, job # "boot", main \notin {"off", "left"}
  PROVE  Seen
<1> USE DEF DeviceMain, Powered
<1>1. CASE boot_mount
  BY <1>1 DEF boot_mount, LineCleared
<1>2. CASE repl_prompt
  BY <1>2, Unseen DEF Seen, repl_prompt, Jump, Keep, fsVars
<1>3. ASSUME NEW t \in Lines, repl_line(t) PROVE Seen
  BY <1>3, Unseen DEF Seen, repl_line, fsVars
<1>4. ASSUME NEW t \in Lines, repl_leaves(t) PROVE Seen
  <2>1. DeviceMain = "prompt" /\ DeviceMain' = "close http" /\ UNCHANGED <<drawn, armed, mounted>> /\ Powered
    BY <1>4 DEF repl_leaves, fsVars
  <2>2. Dev!repl_quit
    BY <2>1, GoesOn DEF Dev!repl_quit
  <2> QED
    BY <2>2 DEF Seen, Dev!Next, Dev!Repl
<1> QED
  BY <1>1, <1>2, <1>3, <1>4 DEF Prompt

LEMMA HandlerSeen ==
  ASSUME GuiDrawn, Handler
  PROVE  Seen
<1> USE DEF DeviceMain, Powered, Calls, fsVars
<1>1. CASE repl_fs
  <2>1. DeviceMain = "prompt" /\ DeviceMain' = "fs" /\ UNCHANGED <<drawn, armed, mounted>> /\ Powered
    BY <1>1 DEF repl_fs
  <2>2. Dev!repl_fs
    BY <2>1, GoesOn DEF Dev!repl_fs
  <2> QED
    BY <2>2 DEF Seen, Dev!Next, Dev!Repl
<1>2. CASE repl_ups
  BY <1>2, Unseen DEF Seen, repl_ups
<1>3. CASE repl_clear
  BY <1>3, Unseen DEF Seen, repl_clear
<1>4. CASE repl_test
  BY <1>4, Unseen DEF Seen, repl_test
<1>5. CASE repl_sleep
  BY <1>5, Unseen DEF Seen, repl_sleep
<1>6. CASE repl_gui
  <2>1. DeviceMain = "prompt" /\ DeviceMain' = "draw" /\ UNCHANGED <<armed, mounted>> /\ Powered /\ drawn' = TRUE
    BY <1>6 DEF repl_gui
  <2>2. /\ (IF drawn /\ main # "off" THEN "prompt" ELSE "mount")' = "prompt"
        /\ (main # "off")' = (main # "off")
        /\ (IF main = "off" THEN 0 ELSE 1)' = IF main = "off" THEN 0 ELSE 1
    BY <2>1
  <2>3. Dev!repl_epaper_gui
    BY <2>1, <2>2 DEF Dev!repl_epaper_gui, Dev!flashVars
  <2> QED
    BY <2>3 DEF Seen, Dev!Next, Dev!Repl
<1>7. CASE repl_flash
  <2>1. DeviceMain = "prompt" /\ DeviceMain' = "prompt" /\ UNCHANGED <<drawn, mounted>> /\ Powered /\ armed' = TRUE
    BY <1>7 DEF repl_flash
  <2>2. /\ (IF drawn /\ main # "off" THEN "prompt" ELSE "mount")'
             = IF drawn /\ main # "off" THEN "prompt" ELSE "mount"
        /\ (main # "off")' = (main # "off")
        /\ (IF main = "off" THEN 0 ELSE 1)' = IF main = "off" THEN 0 ELSE 1
    BY <2>1
  <2>3. Dev!repl_reset_flash
    BY <2>1, <2>2, GoesOn DEF Dev!repl_reset_flash
  <2> QED
    BY <2>3 DEF Seen, Dev!Next, Dev!Repl
<1>8. CASE reset_usb
  <2>1. DeviceMain = "prompt" /\ Dev!LoseRam
    BY <1>8, RamLost DEF reset_usb
  <2>2. Dev!repl_reset_usb
    BY <2>1 DEF Dev!repl_reset_usb
  <2> QED
    BY <2>2 DEF Seen, Dev!Next, Dev!Repl
<1> QED
  BY <1>1, <1>2, <1>3, <1>4, <1>5, <1>6, <1>7, <1>8 DEF Handler

LEMMA FsSeen ==
  ASSUME FsCalls, job # "boot"
  PROVE  Seen
<1> USE DEF DeviceMain, Powered, Goto, Jump, Keep, fsVars, Caller
<1>1. CASE DeviceMain' = DeviceMain
  BY <1>1, Unseen DEF Seen, FsCalls, fs_open, fs_read, fs_close
<1>2. CASE DeviceMain' # DeviceMain
  <2>1. DeviceMain = "fs" /\ DeviceMain' = "prompt" /\ UNCHANGED <<drawn, armed, mounted>> /\ Powered
    BY <1>2 DEF FsCalls, fs_open, fs_read, fs_close
  <2>2. Dev!repl_fs_done
    BY <2>1, GoesOn DEF Dev!repl_fs_done
  <2> QED
    BY <2>2 DEF Seen, Dev!Next
<1> QED
  BY <1>1, <1>2

LEMMA UpsSeen ==
  ASSUME UpsCalls, job # "boot"
  PROVE  Seen
BY Unseen DEF Seen, DeviceMain, Powered, Goto, Jump, KeepButUps, fsVars, Caller, Measuring, UpsCalls,
   ups_init, ups_config, ups_calibrate, ups_current, ups_voltage, ups_print

\* A drawing returns to the prompt, since the REPL has drawn.
LEMMA DrawSeen ==
  ASSUME DrawCalls, job # "boot", HeldAt, GuiDrawn
  PROVE  Seen
<1> USE DEF DeviceMain, Powered, Goto, Jump, Keep, KeepButFs, fsVars, Caller, HeldAt, HoldsIn
<1> DEFINE back == IF drawn /\ main # "off" THEN "prompt" ELSE "mount"
<1>1. CASE draw_init
  BY <1>1, Unseen DEF Seen, draw_init
<1>2. CASE malloc_black \/ malloc_red
  <2>1. Powered /\ UNCHANGED <<drawn, armed, mounted>>
    BY <1>2 DEF malloc_black, malloc_red
  <2>2. CASE DeviceMain' = DeviceMain
    BY <2>1, <2>2, Unseen DEF Seen
  <2>3. CASE DeviceMain' # DeviceMain
    <3>1. DeviceMain = "draw" /\ DeviceMain' \in {"prompt", "draw mount"} /\ job = "gui"
      BY <1>2, <2>3 DEF malloc_black, malloc_red
    <3>2. back = "prompt"
      BY <2>1, <3>1 DEF GuiDrawn
    <3>3. Dev!Draw
      BY <2>1, <3>1, <3>2, GoesOn DEF Dev!Draw, Dev!draw_malloc_fails, Dev!draw_reads
    <3> QED
      BY <3>3 DEF Seen, Dev!Next
  <2> QED
    BY <2>2, <2>3
<1>3. CASE read_mount
  <2>1. DeviceMain = "draw mount" /\ DeviceMain' = "draw open" /\ Powered /\ UNCHANGED <<drawn, armed>> /\ mounted' = TRUE
    BY <1>3 DEF read_mount
  <2>2. Dev!draw_mount
    BY <2>1, GoesOn DEF Dev!draw_mount
  <2> QED
    BY <2>2 DEF Seen, Dev!Next, Dev!Draw
<1>4. CASE read_open
  <2>1. DeviceMain = "draw open" /\ DeviceMain' = "draw read" /\ Powered /\ UNCHANGED <<drawn, armed, mounted>>
    BY <1>4 DEF read_open
  <2>2. Dev!draw_open
    BY <2>1, GoesOn DEF Dev!draw_open
  <2> QED
    BY <2>2 DEF Seen, Dev!Next, Dev!Draw
<1>5. CASE read_file
  <2>1. DeviceMain = "draw read" /\ DeviceMain' = "draw close" /\ Powered /\ UNCHANGED <<drawn, armed, mounted>>
    BY <1>5 DEF read_file
  <2>2. Dev!draw_read
    BY <2>1, GoesOn DEF Dev!draw_read
  <2> QED
    BY <2>2 DEF Seen, Dev!Next, Dev!Draw
<1>6. CASE read_no_memory
  BY <1>6, Unseen DEF Seen, read_no_memory
<1>7. CASE read_close
  <2>1. DeviceMain = "draw close" /\ DeviceMain' = "draw unmount" /\ Powered /\ UNCHANGED <<drawn, armed, mounted>>
    BY <1>7 DEF read_close
  <2>2. Dev!draw_close
    BY <2>1, GoesOn DEF Dev!draw_close
  <2> QED
    BY <2>2 DEF Seen, Dev!Next, Dev!Draw
<1>8. CASE read_unmount
  <2>1. DeviceMain = "draw unmount" /\ DeviceMain' = "prompt" /\ Powered /\ UNCHANGED <<drawn, armed>>
        /\ mounted' = FALSE /\ job = "gui"
    BY <1>8 DEF read_unmount
  <2>2. back = "prompt"
    BY <2>1 DEF GuiDrawn
  <2>3. Dev!draw_unmount
    BY <2>1, <2>2, GoesOn DEF Dev!draw_unmount
  <2> QED
    BY <2>3 DEF Seen, Dev!Next, Dev!Draw
<1>9. CASE paint
  BY <1>9, Unseen DEF Seen, paint
<1>10. CASE display \/ display_test \/ epaper_clear
  BY <1>10, Unseen DEF Seen, display, display_test, epaper_clear, Shows
<1>11. CASE free_images
  BY <1>11, Unseen DEF Seen, free_images
<1>12. CASE read_open_fails
  <2>1. DeviceMain = "draw open" /\ DeviceMain' = "draw read" /\ Powered /\ UNCHANGED <<drawn, armed, mounted>>
    BY <1>12 DEF read_open_fails
  <2>2. Dev!draw_open
    BY <2>1, GoesOn DEF Dev!draw_open
  <2> QED
    BY <2>2 DEF Seen, Dev!Next, Dev!Draw
<1> QED
  BY <1>1, <1>2, <1>3, <1>4, <1>5, <1>6, <1>7, <1>8, <1>9, <1>10, <1>11, <1>12 DEF DrawCalls

LEMMA OthersSeen ==
  ASSUME Others, main \notin {"off", "left"}
  PROVE  Seen
<1> USE DEF DeviceMain, Powered, fsVars, runVars
<1>1. CASE Save \/ Load
  BY <1>1, Unseen DEF Seen, Save, Load
<1>2. CASE PowerLoss \/ WatchdogReset
  <2>1. Dev!LoseRam /\ DeviceMain # "off" /\ (PowerLoss \/ armed)
    BY <1>2, RamLost DEF PowerLoss, WatchdogReset
  <2>2. Dev!PowerLoss
    BY <2>1 DEF Dev!PowerLoss
  <2> QED
    BY <2>2 DEF Seen, Dev!Next
<1>3. CASE Reboot \/ PowerOn
  BY <1>3 DEF Reboot, PowerOn
<1> QED
  BY <1>1, <1>2, <1>3 DEF Others

\* From the prompt on the console implements Device: a line, whatever it says
\* and whatever fails on the way, does no more to lfs, the watchdog and the
\* power than Device's REPL does.
THEOREM ConsoleImplementsDevice == Spec => DeviceAllows
<1> DEFINE Inv == LineCleared /\ HeldAt /\ GuiDrawn
           Allowed == job = "boot" \/ main \in {"off", "left"} \/ [Dev!Next]_(Dev!vars)
<1>1. Init => Inv
  BY DEF Init, ReplInit, LineCleared, HeldAt, HoldsIn, GuiDrawn
<1>2. Inv /\ [Next]_vars => Inv'
  BY ClearedStep, HeldStep, GuiStep
<1>3. Inv /\ [Next]_vars => [Allowed]_vars
  <2> SUFFICES ASSUME Inv, Next, job # "boot", main \notin {"off", "left"} PROVE Seen
    BY DEF Seen
  <2> QED
    BY PromptSeen, HandlerSeen, FsSeen, UpsSeen, DrawSeen, OthersSeen DEF Next
<1> QED
  BY <1>1, <1>2, <1>3, PTL DEF Spec, DeviceAllows
=============================================================================
