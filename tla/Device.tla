------------------------------- MODULE Device --------------------------------
(***************************************************************************)
(* main.c: boot, the REPL and shutdown, and the one global lfs that main,  *)
(* the table reader (tableread.c), the REPL commands and the HTTP handlers *)
(* share.                                                                  *)
(*                                                                         *)
(* main is in one phase at a time; a phase that is named for an lfs call   *)
(* lasts as long as the call, and an HTTP handler may run in the middle of *)
(* it.  Power may fail at any time: what is in RAM is lost, what a closed  *)
(* file holds is not.                                                      *)
(*                                                                         *)
(* littlefs is not in the repository.  As the code uses it, a mount fails  *)
(* only on a flash that was never formatted, leaves nothing mounted then,  *)
(* and a file changes on the flash when it is closed.                      *)
(***************************************************************************)
EXTENDS Integers, Sequences

CONSTANT MaxBoots   \* how many times the device is switched on

ASSUME MaxBootsAssumption == MaxBoots \in Nat

VARIABLES
  main,        \* the phase main is in
  mounted,     \* lfs is mounted
  back,        \* the phase epaper_gui_draw returns to
  data, pos,   \* main's lfs_file_t for boot_count: its words and the position
  boot_count,  \* main's boot_count
  net,         \* HTTP handlers may be called
  armed,       \* watchdog_reboot was called
  formatted,   \* flash: it holds a filesystem
  count,       \* flash: the words in the file boot_count
  db,          \* flash: what became of db.txt
  on,          \* history: how often the device was switched on
  boots,       \* history: how many boots have closed the file boot_count
  drawn        \* history: the REPL has drawn since the device was switched on

ramVars   == <<mounted, back, data, pos, boot_count, net, armed>>
flashVars == <<formatted, count, db>>
histVars  == <<on, boots, drawn>>
vars == <<main, ramVars, flashVars, histVars>>

\* readFile of tableread.c, called by epaper_gui_draw.
DrawCalls == {"draw mount", "draw open", "draw read", "draw close", "draw unmount"}

CountCalls == {"count open", "count read", "count rewind", "count write", "count close"}

\* Phases in which main is inside an lfs call.
LfsCalls == DrawCalls \cup CountCalls
              \cup {"mount", "format", "remount", "db create", "fs", "unmount"}

\* Of these, the ones that need a mounted lfs.
NeedMount == LfsCalls \ {"draw mount", "mount", "format", "remount"}

Phases == LfsCalls \cup
  {"off", "draw", "open http", "failed", "prompt", "close http", "deinit", "watchdog", "returned"}

Init ==
  /\ main = "off"
  /\ mounted = FALSE /\ back = "mount" /\ data = <<>> /\ pos = 0 /\ boot_count = 0
  /\ net = FALSE /\ armed = FALSE
  /\ formatted = FALSE /\ count = <<>> /\ db = "absent"
  /\ on = 0 /\ boots = 0 /\ drawn = FALSE

-----------------------------------------------------------------------------
(* Power *)

\* The wireless chip may fail to come up: main returns.
PowerOn ==
  /\ main = "off"
  /\ on < MaxBoots
  /\ main' \in {"draw", "failed"}
  /\ on' = on + 1
  /\ drawn' = FALSE
  /\ UNCHANGED <<ramVars, flashVars, boots>>

LoseRam ==
  /\ main' = "off"
  /\ mounted' = FALSE /\ back' = "mount" /\ data' = <<>> /\ pos' = 0 /\ boot_count' = 0
  /\ net' = FALSE /\ armed' = FALSE
  /\ UNCHANGED <<flashVars, histVars>>

PowerLoss == main # "off" /\ LoseRam

\* The watchdog fires, some time after watchdog_reboot.
WatchdogReset == armed /\ LoseRam

-----------------------------------------------------------------------------
(* epaper_gui_draw, at boot and from the REPL *)

Goto(from, to) == main = from /\ main' = to /\ UNCHANGED <<flashVars, histVars>>
KeepRam == UNCHANGED ramVars
KeepAllButMount == UNCHANGED <<back, data, pos, boot_count, net, armed>>

\* No memory for the two images: nothing is read or drawn.
draw_malloc_fails == Goto("draw", back) /\ KeepRam
draw_reads        == Goto("draw", "draw mount") /\ KeepRam

\* The results of readFile's calls are not looked at.
draw_mount ==
  Goto("draw mount", "draw open") /\ mounted' = formatted /\ KeepAllButMount
draw_open  == Goto("draw open", "draw read") /\ KeepRam
draw_read  == Goto("draw read", "draw close") /\ KeepRam
draw_close == Goto("draw close", "draw unmount") /\ KeepRam

draw_unmount == Goto("draw unmount", back) /\ mounted' = FALSE /\ KeepAllButMount

-----------------------------------------------------------------------------
(* main: the filesystem *)

\* Mutant: the result of lfs_mount is not looked at, every boot formats.
FormatsAlways == Goto("mount", "format") /\ mounted' = formatted /\ KeepAllButMount

mount ==
  /\ Goto("mount", IF formatted THEN "count open" ELSE "format")
  /\ mounted' = formatted
  /\ KeepAllButMount

format ==
  /\ main = "format"
  /\ main' = "remount"
  /\ formatted' = TRUE /\ count' = <<>> /\ db' = "absent"
  /\ UNCHANGED <<ramVars, histVars>>

\* Mutant: lfs is not mounted again after the format.
ForgetsRemount == Goto("remount", "count open") /\ KeepRam

remount == Goto("remount", "count open") /\ mounted' = TRUE /\ KeepAllButMount

count_open ==
  /\ Goto("count open", "count read")
  /\ data' = count /\ pos' = 0
  /\ UNCHANGED <<mounted, back, boot_count, net, armed>>

\* A new file has nothing to read and boot_count stays 0.  Then it is
\* incremented.
count_read ==
  /\ Goto("count read", "count rewind")
  /\ boot_count' = (IF pos < Len(data) THEN data[pos + 1] ELSE boot_count) + 1
  /\ pos' = IF pos < Len(data) THEN pos + 1 ELSE pos
  /\ UNCHANGED <<mounted, back, data, net, armed>>

\* Mutant: lfs_file_rewind is missing.
SkipsRewind == Goto("count rewind", "count write") /\ KeepRam

count_rewind ==
  /\ Goto("count rewind", "count write")
  /\ pos' = 0
  /\ UNCHANGED <<mounted, back, data, boot_count, net, armed>>

count_write ==
  /\ Goto("count write", "count close")
  /\ data' = [k \in DOMAIN data \cup {pos + 1} |-> IF k = pos + 1 THEN boot_count ELSE data[k]]
  /\ pos' = pos + 1
  /\ UNCHANGED <<mounted, back, boot_count, net, armed>>

\* "the storage is not updated until the file is closed successfully"
count_close ==
  /\ main = "count close"
  /\ main' = "db create"
  /\ count' = data
  /\ boots' = boots + 1
  /\ data' = <<>> /\ pos' = 0
  /\ UNCHANGED <<mounted, back, boot_count, net, armed, formatted, db, on, drawn>>

\* Mutant: db.txt is opened without LFS_O_CREAT.
OpensDbOnly == Goto("db create", "open http") /\ KeepRam

db_create ==
  /\ main = "db create"
  /\ main' = "open http"
  /\ db' = IF db = "absent" THEN "empty" ELSE db
  /\ UNCHANGED <<ramVars, formatted, count, histVars>>

-----------------------------------------------------------------------------
(* main: the servers, the REPL and shutdown *)

open_http ==
  /\ Goto("open http", "prompt")
  /\ net' = TRUE
  /\ UNCHANGED <<mounted, back, data, pos, boot_count, armed>>

open_http_fails == Goto("open http", "failed") /\ KeepRam

\* fs ls, fs cat, fs xcat; they read only.
repl_fs      == Goto("prompt", "fs") /\ KeepRam
repl_fs_done == Goto("fs", "prompt") /\ KeepRam

\* Mutant: the drawing goes on with the boot.
DrawsAsInBoot == Goto("prompt", "draw") /\ KeepRam

repl_epaper_gui ==
  /\ main = "prompt"
  /\ main' = "draw"
  /\ back' = "prompt"
  /\ drawn' = TRUE
  /\ UNCHANGED <<mounted, data, pos, boot_count, net, armed, flashVars, on, boots>>

\* The REPL goes on until the watchdog fires.
repl_reset_flash ==
  /\ Goto("prompt", "prompt")
  /\ armed' = TRUE
  /\ UNCHANGED <<mounted, back, data, pos, boot_count, net>>

repl_reset_usb == main = "prompt" /\ LoseRam

\* A line that begins with q, or is too long.
repl_quit == Goto("prompt", "close http") /\ KeepRam

\* Clients that are connected stay connected.
http_server_close == Goto("close http", "deinit") /\ KeepRam

\* Mutant: cyw43_arch_deinit is missing.
NoDeinit == Goto("deinit", "unmount") /\ KeepRam

\* The DNS and DHCP servers go, then the network with all its interrupts.
cyw43_arch_deinit ==
  /\ Goto("deinit", "unmount")
  /\ net' = FALSE
  /\ UNCHANGED <<mounted, back, data, pos, boot_count, armed>>

unmount == Goto("unmount", "watchdog") /\ mounted' = FALSE /\ KeepAllButMount

\* Mutant: main returns without a reboot.
NoWatchdog == Goto("watchdog", "returned") /\ KeepRam

watchdog_reboot ==
  /\ Goto("watchdog", "returned")
  /\ armed' = TRUE
  /\ UNCHANGED <<mounted, back, data, pos, boot_count, net>>

\* An HTTP handler saves db.txt (http_post_fs), between any two steps of main
\* or in the middle of one.
http_post_fs ==
  /\ net
  /\ mounted
  /\ db # "absent"
  /\ db' = "saved"
  /\ UNCHANGED <<main, ramVars, formatted, count, histVars>>

-----------------------------------------------------------------------------
Draw == draw_malloc_fails \/ draw_reads \/ draw_mount \/ draw_open \/ draw_read
          \/ draw_close \/ draw_unmount

Boot == mount \/ format \/ remount \/ count_open \/ count_read \/ count_rewind
          \/ count_write \/ count_close \/ db_create \/ open_http \/ open_http_fails

Repl == repl_fs \/ repl_epaper_gui \/ repl_reset_flash \/ repl_reset_usb \/ repl_quit

Shutdown == http_server_close \/ cyw43_arch_deinit \/ unmount \/ watchdog_reboot

\* The device is off, or waits for somebody to type or to pull the plug.
Idle == main \in {"off", "prompt", "failed", "returned"} /\ UNCHANGED vars

Next ==
  \/ PowerOn \/ PowerLoss \/ WatchdogReset
  \/ Draw \/ Boot \/ Repl \/ repl_fs_done \/ Shutdown
  \/ http_post_fs \/ Idle

Spec == Init /\ [][Next]_vars

\* main runs whenever the power is on, and the watchdog counts.
FairSpec == Spec /\ WF_vars(Shutdown) /\ WF_vars(WatchdogReset)
-----------------------------------------------------------------------------
TypeOK ==
  /\ main \in Phases
  /\ mounted \in BOOLEAN
  /\ back \in {"mount", "prompt"}
  /\ data \in Seq(Nat)
  /\ pos \in Nat
  /\ boot_count \in Nat
  /\ net \in BOOLEAN
  /\ armed \in BOOLEAN
  /\ formatted \in BOOLEAN
  /\ count \in Seq(Nat)
  /\ db \in {"absent", "empty", "saved"}
  /\ on \in 0 .. MaxBoots
  /\ boots \in 0 .. on
  /\ drawn \in BOOLEAN

\* The counter on the flash is the number of boots that got as far as closing
\* it, wherever the power failed.
BootCountExact == count = IF boots = 0 THEN <<>> ELSE <<boots>>

\* "reformat if we can't mount": never once something was saved.
SavedStaysSaved == [][db = "saved" => db' = "saved"]_vars

\* "ensure the database is present": a handler never finds it missing.
DatabaseServed == net => db # "absent"

\* lfs is mounted whenever main or a handler uses it, except by the drawing
\* of the first boot, which comes before the format, and after the REPL has
\* drawn, which unmounts it.
MountedWhenUsed ==
  net \/ main \in NeedMount => mounted \/ drawn \/ ~formatted

\* A handler runs in the middle of an lfs call of main only if that is one
\* of a REPL command: boot and shutdown use lfs without the network.
NoReentry ==
  net /\ main \in LfsCalls => main = "fs" \/ (main \in DrawCalls /\ back = "prompt")

\* "release any resources we were using": what main unmounts is mounted.
ReleasesMounted == main = "unmount" => mounted

\* Leaving the REPL leads to a reboot.
QuitReboots == main = "close http" ~> main = "off"
=============================================================================
