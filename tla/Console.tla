------------------------------- MODULE Console -------------------------------
(***************************************************************************)
(* What main does from power-on to the prompt and at the prompt: repl.c    *)
(* with the commands of repl_*.c, epaper_gui_draw call by call, the panel  *)
(* (Epaper), the battery's chip (Ups) and the line buffer (Repl).          *)
(*                                                                         *)
(* main is in one phase at a time; between two phases an HTTP handler may  *)
(* save db.txt, a load may reset the chip, the watchdog may fire and power *)
(* may fail.  The rest of the boot and the shutdown are in Device.         *)
(***************************************************************************)
EXTENDS Gui, Ups, Epaper, Repl

CONSTANTS
  Lines,   \* what may be typed
  Texts,   \* what db.txt may hold
  Junk     \* what an uninitialised int may hold

ASSUME LinesAssumption == Lines \subseteq Seq(Chars)
\* From 1000 rows on gamestotal_string is written past its end.
ASSUME TextsAssumption == \A text \in Texts : Readable(text) /\ getTableRowCount(text) < 1000
ASSUME JunkAssumption == Junk \subseteq Int

VARIABLES
  main,      \* the phase main is in
  job,       \* the handler that runs, or "boot"
  todo,      \* handlers the line matched that have not run
  held,      \* what is allocated or open: images, table, file handle
  mounted,   \* lfs is mounted
  armed,     \* watchdog_reboot was called
  drawn,     \* history: the REPL has drawn since the device was switched on
  db,        \* flash: the text of db.txt
  file,      \* the text readFile has opened
  table,     \* buffer and size of tableread.c
  image      \* what is painted into the images, as long as they are not shown

fsVars  == <<mounted, db, file, table>>
runVars == <<main, job, todo, held, armed, drawn, image>>
vars    == <<replVars, epaperVars, upsVars, runVars, fsVars>>

NoImage == [rows |-> <<>>]

Init ==
  /\ ReplInit /\ EpaperInit /\ UpsInit
  /\ main = "init" /\ job = "boot" /\ todo = {} /\ held = {}
  /\ mounted = FALSE /\ armed = FALSE /\ drawn = FALSE
  /\ db \in Texts /\ file = <<>> /\ table = <<>>
  /\ image = NoImage

-----------------------------------------------------------------------------
(* Phases *)

Jump(from, to) == main = from /\ main' = to /\ UNCHANGED <<job, todo, armed, drawn>>

Goto(from, to) == Jump(from, to) /\ UNCHANGED replVars

\* Where the handler returns to.
Caller == IF job = "boot" THEN "mount" ELSE "next"

Keep(things) == held' = things /\ UNCHANGED <<image, fsVars, epaperVars, upsVars>>

Without(thing) == held \ {thing}

-----------------------------------------------------------------------------
(* The prompt *)

\* main mounts lfs after the first drawing, and starts the servers.
boot_mount ==
  /\ main = "mount"
  /\ main' = "prompt" /\ job' = "none"
  /\ mounted' = TRUE
  /\ UNCHANGED <<todo, held, armed, drawn, image, db, file, table, replVars, epaperVars, upsVars>>

repl_line(t) ==
  /\ main = "prompt"
  /\ main' = "next"
  /\ ReplDispatches(t)
  /\ todo' = ran'
  /\ UNCHANGED <<job, held, armed, drawn, image, fsVars, epaperVars, upsVars>>

repl_leaves(t) ==
  /\ main = "prompt"
  /\ main' = "left"
  /\ ReplLeaves(t)
  /\ UNCHANGED <<job, todo, held, armed, drawn, image, fsVars, epaperVars, upsVars>>

repl_prompt == todo = {} /\ Jump("next", "prompt") /\ ReplClears /\ Keep(held)

\* The next handler, from its first phase on.
Calls(handlers, first) ==
  /\ main = "next"
  /\ main' = first
  /\ \E h \in todo : h.run \in handlers /\ job' = h.run /\ todo' = todo \ {h}
  /\ UNCHANGED <<held, image, replVars, fsVars, upsVars>>

repl_fs    == Calls(FsLut, "fs open") /\ UNCHANGED <<armed, drawn, epaperVars>>
repl_ups   == Calls(UpsLut, "ups init") /\ UNCHANGED <<armed, drawn, epaperVars>>
repl_clear == Calls({"clear"}, "init") /\ UNCHANGED <<armed, drawn, epaperVars>>
repl_test  == Calls({"test"}, "init") /\ UNCHANGED <<armed, drawn, epaperVars>>
repl_gui   == Calls({"gui"}, "init") /\ drawn' = TRUE /\ UNCHANGED <<armed, epaperVars>>
repl_sleep == Calls({"sleep"}, "next") /\ epaper_sleep /\ UNCHANGED <<armed, drawn>>
repl_flash == Calls({"flash"}, "next") /\ armed' = TRUE /\ UNCHANGED <<drawn, epaperVars>>

-----------------------------------------------------------------------------
(* fs ls, cat, xcat *)

fs_open ==
  \/ Goto("fs open", "fs read") /\ Keep(held \cup {"handle"})
  \/ Goto("fs open", Caller) /\ Keep(held)

\* To the end of the file, or to an error.
fs_read == Goto("fs read", "fs close") /\ Keep(held)

fs_close == Goto("fs close", Caller) /\ Keep(Without("handle"))

-----------------------------------------------------------------------------
(* ups v, ma, % and the battery of a drawing *)

KeepButUps == UNCHANGED <<held, image, fsVars, epaperVars>>

Measuring == IF job = "ma" THEN "ups calibrate" ELSE "ups voltage"

ups_init ==
  /\ \/ Goto("ups init", Measuring) /\ ina219_ensure_init
     \/ Goto("ups init", "ups config") /\ ina219_init
  /\ KeepButUps

ups_config == Goto("ups config", Measuring) /\ ina219_init_config /\ KeepButUps

ups_calibrate == Goto("ups calibrate", "ups current") /\ ina219_recalibrate /\ KeepButUps

ups_current == Goto("ups current", "ups print") /\ ina219_current /\ KeepButUps

ups_voltage ==
  /\ Goto("ups voltage", IF job \in {"gui", "boot"} THEN "paint" ELSE "ups print")
  /\ ina219_voltage /\ KeepButUps

ups_print == Goto("ups print", Caller) /\ ForgetReading /\ KeepButUps

-----------------------------------------------------------------------------
(* epaper clear, test, gui and the drawing at boot *)

\* The result of epaper_init is not looked at.
draw_init ==
  /\ Goto("init", IF job = "clear" THEN "display" ELSE "black")
  /\ epaper_init
  /\ UNCHANGED <<held, image, fsVars, upsVars>>

malloc_black ==
  \/ Goto("black", "red") /\ Keep(held \cup {"black"})
  \/ Goto("black", Caller) /\ Keep(held)

malloc_red ==
  \/ Goto("red", IF job = "test" THEN "display" ELSE "draw mount") /\ Keep(held \cup {"red"})
  \/ Goto("red", "free") /\ Keep(held)

KeepButFs == UNCHANGED <<image, db, table, epaperVars, upsVars>>

\* The flash is formatted: what else the very first drawing meets is in Device.
read_mount ==
  Goto("draw mount", "draw open") /\ mounted' = TRUE /\ UNCHANGED <<held, file>> /\ KeepButFs

read_open ==
  /\ Goto("draw open", "draw read")
  /\ held' = held \cup {"handle"}
  /\ file' = db
  /\ UNCHANGED mounted
  /\ KeepButFs

\* No memory for the file, or it is not there: its size is read from a handle that
\* was never filled in.
read_open_fails == Goto("draw open", "fault") /\ Keep(held)

read_file ==
  /\ Goto("draw read", "draw close")
  /\ held' = held \cup {"table"}
  /\ table' = file
  /\ UNCHANGED <<mounted, db, file, image, epaperVars, upsVars>>

\* calloc fails: lfs_file_read writes to address 0.
read_no_memory == file # <<>> /\ Goto("draw read", "fault") /\ Keep(held)

read_close ==
  /\ Goto("draw close", "draw unmount")
  /\ held' = Without("handle")
  /\ file' = <<>>
  /\ UNCHANGED mounted
  /\ KeepButFs

\* Mutant: lfs_unmount is missing.
LeavesMounted ==
  Goto("draw unmount", "ups init") /\ UNCHANGED <<mounted, held, file>> /\ KeepButFs

read_unmount ==
  Goto("draw unmount", "ups init") /\ mounted' = FALSE /\ UNCHANGED <<held, file>> /\ KeepButFs

freeTable == held' = Without("table") /\ table' = <<>>

\* Both images.
paint ==
  /\ Goto("paint", "display")
  /\ \E junk \in Junk : image' = Drawn(table, Percent(reading), junk)
  /\ freeTable
  /\ ForgetReading
  /\ UNCHANGED <<mounted, db, file, epaperVars>>

\* Both images are sent to the panel.
Shows == image' = NoImage /\ UNCHANGED <<held, fsVars, epaperVars, upsVars>>

display == job \in {"gui", "boot"} /\ Goto("display", "free") /\ Shows

display_test == job = "test" /\ Goto("display", "free") /\ Shows

epaper_clear == job = "clear" /\ Goto("display", Caller) /\ Shows

\* Mutant: the images are freed where they were shown only.
FreesIfBoth ==
  Goto("free", Caller) /\ Keep(IF "red" \in held THEN held \ {"black", "red"} ELSE held)

free_images == Goto("free", Caller) /\ Keep(held \ {"black", "red"})

-----------------------------------------------------------------------------
(* The others *)

\* http_post_fs: the servers run from the prompt on.
Save ==
  /\ main \notin {"off", "fault"} /\ job # "boot" /\ mounted
  /\ db' \in Texts
  /\ UNCHANGED <<replVars, epaperVars, upsVars, runVars, mounted, file, table>>

Load == main # "off" /\ SharpLoad /\ UNCHANGED <<replVars, epaperVars, runVars, fsVars>>

LoseRam(powered) ==
  /\ main' = "off" /\ job' = "none" /\ todo' = {} /\ held' = {}
  /\ mounted' = FALSE /\ armed' = FALSE
  /\ line' = Cleared /\ typed' = <<>> /\ ran' = {}
  /\ file' = <<>> /\ table' = <<>> /\ image' = NoImage
  /\ EpaperReset(powered) /\ UpsReset(powered)
  /\ UNCHANGED <<db, drawn>>

PowerLoss == main # "off" /\ LoseRam(FALSE)

WatchdogReset == armed /\ LoseRam(TRUE)

\* Shutdown and reboot, after the REPL.
Reboot == main = "left" /\ LoseRam(TRUE)

reset_usb == main = "next" /\ (\E h \in todo : h.run = "usb") /\ LoseRam(TRUE)

PowerOn ==
  /\ main = "off"
  /\ main' = "init" /\ job' = "boot" /\ drawn' = FALSE
  /\ UNCHANGED <<todo, held, armed, image, fsVars, replVars, epaperVars, upsVars>>

-----------------------------------------------------------------------------
Prompt == boot_mount \/ repl_prompt \/ \E t \in Lines : repl_line(t) \/ repl_leaves(t)

Handler ==
  repl_fs \/ repl_ups \/ repl_clear \/ repl_test \/ repl_gui \/ repl_sleep \/ repl_flash \/ reset_usb

FsCalls == fs_open \/ fs_read \/ fs_close

UpsCalls == ups_init \/ ups_config \/ ups_calibrate \/ ups_current \/ ups_voltage \/ ups_print

DrawCalls ==
  \/ draw_init \/ malloc_black \/ malloc_red
  \/ read_mount \/ read_open \/ read_open_fails \/ read_file \/ read_no_memory \/ read_close \/ read_unmount
  \/ paint \/ display \/ display_test \/ epaper_clear \/ free_images

Others == Save \/ Load \/ PowerLoss \/ WatchdogReset \/ Reboot \/ PowerOn

Next == Prompt \/ Handler \/ FsCalls \/ UpsCalls \/ DrawCalls \/ Others

Spec == Init /\ [][Next]_vars
-----------------------------------------------------------------------------
Phases ==
  {"off", "init", "black", "red", "draw mount", "draw open", "draw read", "draw close",
   "draw unmount", "ups init", "ups config", "ups calibrate", "ups current", "ups voltage",
   "ups print", "paint", "display", "free", "mount", "prompt", "next", "left",
   "fault", "fs open", "fs read", "fs close"}

TypeOK ==
  /\ ReplTypeOK /\ EpaperTypeOK /\ UpsTypeOK
  /\ main \in Phases
  /\ job \in Handlers \cup {"boot", "none"}
  /\ todo \subseteq ran
  /\ held \subseteq {"black", "red", "table", "handle"}
  /\ mounted \in BOOLEAN
  /\ armed \in BOOLEAN
  /\ drawn \in BOOLEAN
  /\ db \in Texts
  /\ file \in Texts \cup {<<>>}
  /\ table \in Texts \cup {<<>>}

\* Nothing is sent to a panel that was not initialised since it got its power
\* and since it slept: epaper_init lies between "epaper sleep" and the next
\* image, and between a reset that forgot the flags and the next image; unless
\* DEV_Module_Init has just failed, which no command looks at.  That the panel
\* then wakes up is not claimed: "unable to recover after sleep (?)".
DrawnInitialised == main = "display" => panel \in {"ready", "woken"} \/ init_rc = -1

\* "Now we can safely read the CURRENT register!": the chip is calibrated
\* then, whatever loads have reset it before, unless one did since the
\* measurement began; and it measures on the scale the calibration is for,
\* although a reset takes its configuration too, which is not written again.
CurrentCalibrated ==
  main = "ups current" =>
    /\ chip.CALIBRATION = cal \/ shaken
    /\ Scale(chip.CONFIG) = Scale(config)

\* What a handler allocates or opens it gives back on every way out: two
\* images of 38,880 bytes, the table and the handle of a file, which is closed
\* before the drawing unmounts lfs.
NothingHeld ==
  /\ main \in {"mount", "next", "prompt", "left"} => held = {}
  /\ main = "draw unmount" => "handle" \notin held
  /\ main = "display" /\ job # "clear" => held = {"black", "red"}

\* What is painted is the table as it was read: its last rows and its figures.
ShowsTable == [][paint => ShowsRows(image', table) /\ ShowsFigures(image', table)]_vars

-----------------------------------------------------------------------------
(* Device, seen from the prompt *)

DeviceMain ==
  CASE main \in {"init", "black", "red"} -> IF job \in {"boot", "gui"} THEN "draw" ELSE "prompt"
    [] main \in {"draw mount", "draw open", "draw read", "draw close", "draw unmount"} -> main
    [] main = "fault" -> "draw read"
    [] main \in {"fs open", "fs read", "fs close"} -> "fs"
    [] main = "left" -> "close http"
    [] main = "mount" -> "mount"
    [] main = "off" -> "off"
    [] OTHER -> "prompt"

Dev == INSTANCE Device WITH
  MaxBoots <- 1, main <- DeviceMain, mounted <- mounted,
  back <- IF drawn /\ main # "off" THEN "prompt" ELSE "mount",
  data <- <<>>, pos <- 0, boot_count <- IF main = "off" THEN 0 ELSE 1,
  net <- main # "off", armed <- armed, formatted <- TRUE, count <- <<1>>, db <- "saved",
  on <- 1, boots <- 1, drawn <- drawn

\* From the prompt on every step is one that Device makes, or none: what a
\* typed line leads to, with its prefixes, its arguments and its errors, does
\* no more to lfs, the watchdog and the power than Device's REPL.
DeviceAllows ==
  [][job = "boot" \/ main \in {"off", "left"} \/ [Dev!Next]_(Dev!vars)]_vars
=============================================================================
