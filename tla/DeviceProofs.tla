---------------------------- MODULE DeviceProofs -----------------------------
(***************************************************************************)
(* Theorems about Device, for any number of boots.  The inductive          *)
(* invariant says for each phase of main what is mounted, what the flash   *)
(* holds and how far the boot counter has come.  At the end, where in the  *)
(* flash littlefs may come (Flash).                                        *)
(***************************************************************************)
EXTENDS Device, Flash, TLAPS

Drawing == DrawCalls \cup {"draw"}

\* From the mounting to the servers.
Booting == CountCalls \cup {"db create", "open http"}

\* Before boot_count is read: nothing of this boot is in RAM yet.
Early == main \in {"off", "mount", "format", "remount", "count open"}
           \/ (main \in Drawing /\ back = "mount")

\* Once the servers may have run.
Running == {"prompt", "fs", "close http", "deinit", "unmount"}

Counting ==
  /\ main \in {"mount", "format", "remount"} \cup CountCalls
       \/ (main \in Drawing /\ back = "mount") => boots < on
  /\ Early \/ main = "count read" => boot_count = 0
  /\ main \in {"count read", "count write"} => pos = 0
  /\ main \in {"count read", "count rewind", "count write"} => data = count
  /\ main \in {"count rewind", "count write", "count close"} => boot_count = boots + 1
  /\ main = "count close" => data = <<boots + 1>>

Formatting ==
  /\ ~formatted => boots = 0 /\ db = "absent"
  /\ main = "format" => ~formatted
  /\ main = "remount" => formatted

Mounting ==
  /\ main \in Booting => mounted /\ formatted
  /\ main \in Running \/ (main \in Drawing /\ back = "prompt") =>
       formatted /\ (mounted \/ drawn)
  /\ main \in Drawing /\ back = "prompt" => drawn
  /\ main \in Drawing \ {"draw", "draw mount"} /\ back = "mount" => mounted \/ ~formatted
  /\ main \in {"off", "mount", "format", "remount"} \cup Booting => back = "mount"

Networking ==
  /\ net => main \in Running \ {"unmount"} \/ (main \in Drawing /\ back = "prompt")
  /\ main = "open http" => db # "absent"
  /\ DatabaseServed

IInv == TypeOK /\ BootCountExact /\ Counting /\ Formatting /\ Mounting /\ Networking

\* The file boot_count holds at most one word.
LEMMA NoWords == <<>> \in Seq(Nat)
  OBVIOUS
LEMMA OneWord ==
  ASSUME NEW n \in Nat
  PROVE  <<n>> \in Seq(Nat) /\ Len(<<n>>) = 1 /\ <<n>>[1] = n
  OBVIOUS
\* A write at the start of the file replaces that word.
LEMMA WordWritten ==
  ASSUME NEW words, NEW old \in Nat, words \in {<<>>, <<old>>}, NEW n \in Nat
  PROVE  [k \in DOMAIN words \cup {0 + 1} |-> IF k = 0 + 1 THEN n ELSE words[k]] = <<n>>
<1>1. DOMAIN words \cup {0 + 1} = {1}
  <2>1. CASE words = <<>>
    BY <2>1
  <2>2. CASE words = <<old>>
    BY <2>2
  <2> QED BY <2>1, <2>2
<1>2. [k \in {1} |-> IF k = 1 THEN n ELSE words[k]] = [k \in {1} |-> n]
  OBVIOUS
<1>3. [k \in 1 .. 1 |-> n] = <<n>>
  OBVIOUS
<1>4. 1 .. 1 = {1}
  OBVIOUS
<1> QED BY <1>1, <1>2, <1>3, <1>4

LEMMA BootsNat ==
  ASSUME TypeOK
  PROVE  on \in Nat /\ boots \in Nat
<1>1. on \in 0 .. MaxBoots /\ boots \in 0 .. on
  BY DEF TypeOK
<1> QED BY <1>1, MaxBootsAssumption

\* Everything the invariant says is a matter of a few variables; the provers see
\* it all in every step.
USE DEF Drawing, DrawCalls, CountCalls, LfsCalls, NeedMount, Phases, Early, Booting, Running

-----------------------------------------------------------------------------
LEMMA InitInv ==
  ASSUME Init
  PROVE  IInv
<1>1. TypeOK
  <2>1. on \in 0 .. MaxBoots /\ boots \in 0 .. on
    BY MaxBootsAssumption DEF Init
  <2> QED BY <2>1, NoWords DEF Init, TypeOK
<1>2. BootCountExact /\ Counting
  BY DEF Init, BootCountExact, Counting
<1>3. Formatting /\ Mounting /\ Networking
  BY DEF Init, Formatting, Mounting, Networking, DatabaseServed
<1> QED BY <1>1, <1>2, <1>3 DEF IInv

\* The device starts with nothing in RAM.
LEMMA PowerOnKeeps ==
  ASSUME IInv, PowerOn
  PROVE  IInv'
<1> USE DEF IInv, TypeOK, BootCountExact, Counting, Formatting, Mounting, Networking,
          DatabaseServed,
          Goto, KeepRam, KeepAllButMount, ramVars, flashVars, histVars
<1>1. on' \in 0 .. MaxBoots /\ boots' \in 0 .. on' /\ boots' < on'
  BY MaxBootsAssumption DEF PowerOn
<1> QED BY <1>1 DEF PowerOn

\* Losing the RAM leaves the counter where the last close put it.
LEMMA LoseRamKeeps ==
  ASSUME IInv, LoseRam
  PROVE  IInv'
<1> USE DEF IInv, TypeOK, BootCountExact, Counting, Formatting, Mounting, Networking,
          DatabaseServed,
          Goto, KeepRam, KeepAllButMount, ramVars, flashVars, histVars
<1> QED BY NoWords DEF LoseRam

\* The drawing mounts and unmounts; it writes nothing.
LEMMA DrawKeeps ==
  ASSUME IInv, Draw
  PROVE  IInv'
<1> USE DEF IInv, TypeOK, BootCountExact, Counting, Formatting, Mounting, Networking,
          DatabaseServed,
          Goto, KeepRam, KeepAllButMount, ramVars, flashVars, histVars
<1>1. CASE draw_malloc_fails
  BY <1>1 DEF draw_malloc_fails
<1>2. CASE draw_reads
  BY <1>2 DEF draw_reads
<1>3. CASE draw_mount
  BY <1>3 DEF draw_mount
<1>4. CASE draw_open
  BY <1>4 DEF draw_open
<1>5. CASE draw_read
  BY <1>5 DEF draw_read
<1>6. CASE draw_close
  BY <1>6 DEF draw_close
<1>7. CASE draw_unmount
  BY <1>7 DEF draw_unmount
<1> QED BY <1>1, <1>2, <1>3, <1>4, <1>5, <1>6, <1>7 DEF Draw

\* main mounts, or formats a flash that never was.
LEMMA MountKeeps ==
  ASSUME IInv, mount \/ format \/ remount
  PROVE  IInv'
<1> USE DEF IInv, TypeOK, BootCountExact, Counting, Formatting, Mounting, Networking,
          DatabaseServed,
          Goto, KeepRam, KeepAllButMount, ramVars, flashVars, histVars
<1>1. CASE mount
  BY <1>1 DEF mount
<1>2. CASE format
  BY <1>2 DEF format
<1>3. CASE remount
  BY <1>3 DEF remount
<1> QED BY <1>1, <1>2, <1>3

\* The file is open: it holds what the flash holds.
LEMMA CountOpenKeeps ==
  ASSUME IInv, count_open
  PROVE  IInv'
<1> USE DEF IInv, TypeOK, BootCountExact, Counting, Formatting, Mounting, Networking,
          DatabaseServed,
          Goto, KeepRam, KeepAllButMount, ramVars, flashVars, histVars
<1> QED BY DEF count_open

\* The one word read is the number of boots so far; a new file has none, and
\* boot_count is then counted from 0.
LEMMA CountReadResult ==
  ASSUME IInv, count_read
  PROVE  boot_count' = boots + 1 /\ pos' \in Nat
<1> HIDE DEF Drawing, DrawCalls, CountCalls, LfsCalls, NeedMount, Phases, Booting, Running
<1>1. boots \in Nat
  BY BootsNat DEF IInv
<1>2. data = count /\ pos = 0 /\ boot_count = 0
  BY DEF count_read, Goto, IInv, Counting
<1>3. /\ boot_count' = (IF pos < Len(data) THEN data[pos + 1] ELSE boot_count) + 1
      /\ pos' = IF pos < Len(data) THEN pos + 1 ELSE pos
  BY DEF count_read
<1>4. CASE boots = 0
  <2>1. data = <<>>
    BY <1>2, <1>4 DEF IInv, BootCountExact
  <2>2. ~(pos < Len(data))
    BY <1>2, <2>1
  <2> QED BY <1>2, <1>3, <1>4, <2>2
<1>5. CASE boots # 0
  <2>1. data = <<boots>>
    BY <1>2, <1>5 DEF IInv, BootCountExact
  <2>2. Len(data) = 1 /\ data[1] = boots
    BY <1>1, <2>1, OneWord
  <2> QED BY <1>1, <1>2, <1>3, <2>2
<1> QED BY <1>4, <1>5

LEMMA CountReadKeeps ==
  ASSUME IInv, count_read
  PROVE  IInv'
<1>1. main = "count read" /\ main' = "count rewind"
  BY DEF count_read, Goto
<1>2. UNCHANGED <<mounted, back, data, net, armed, flashVars, histVars>>
  BY DEF count_read, Goto
<1>3. boot_count' = boots + 1 /\ pos' \in Nat /\ boots \in Nat
  BY CountReadResult, BootsNat DEF IInv
<1>4. TypeOK'
  <2>1. boot_count' \in Nat
    BY <1>3
  <2> QED BY <1>1, <1>2, <1>3, <2>1 DEF IInv, TypeOK, flashVars, histVars
<1>5. BootCountExact' /\ Counting'
  BY <1>1, <1>2, <1>3 DEF IInv, BootCountExact, Counting, flashVars, histVars
<1>6. Formatting' /\ Mounting' /\ Networking'
  BY <1>1, <1>2 DEF IInv, Formatting, Mounting, Networking, DatabaseServed, flashVars, histVars
<1> QED BY <1>4, <1>5, <1>6 DEF IInv

\* Rewound, the new word goes over the old one.
LEMMA CountRewindKeeps ==
  ASSUME IInv, count_rewind
  PROVE  IInv'
<1> USE DEF IInv, TypeOK, BootCountExact, Counting, Formatting, Mounting, Networking,
          DatabaseServed,
          Goto, KeepRam, KeepAllButMount, ramVars, flashVars, histVars
<1> QED BY DEF count_rewind

LEMMA CountWriteResult ==
  ASSUME IInv, count_write
  PROVE  data' = <<boots + 1>> /\ pos' = 1
<1> HIDE DEF Drawing, DrawCalls, CountCalls, LfsCalls, NeedMount, Phases, Booting, Running
<1>1. boots \in Nat
  BY BootsNat DEF IInv
<1>2. data = count /\ pos = 0 /\ boot_count = boots + 1
  BY DEF count_write, Goto, IInv, Counting
<1>3. data \in {<<>>, <<boots>>}
  BY <1>2 DEF IInv, BootCountExact
<1>4. data' = [k \in DOMAIN data \cup {0 + 1} |-> IF k = 0 + 1 THEN boots + 1 ELSE data[k]]
  BY <1>2 DEF count_write
<1>5. boots + 1 \in Nat
  BY <1>1
<1>6. data' = <<boots + 1>>
  BY <1>1, <1>3, <1>4, <1>5, WordWritten
<1>7. pos' = pos + 1
  BY DEF count_write
<1> QED BY <1>2, <1>6, <1>7

LEMMA CountWriteKeeps ==
  ASSUME IInv, count_write
  PROVE  IInv'
<1>1. main = "count write" /\ main' = "count close"
  BY DEF count_write, Goto
<1>2. UNCHANGED <<mounted, back, boot_count, net, armed, flashVars, histVars>>
  BY DEF count_write, Goto
<1>3. data' = <<boots + 1>> /\ data' \in Seq(Nat) /\ pos' \in Nat
  <2>1. boots + 1 \in Nat
    BY BootsNat DEF IInv
  <2>2. data' = <<boots + 1>> /\ pos' = 1
    BY CountWriteResult
  <2> QED BY <2>1, <2>2, OneWord
<1>4. TypeOK'
  BY <1>1, <1>2, <1>3 DEF IInv, TypeOK, flashVars, histVars
<1>5. BootCountExact' /\ Counting'
  BY <1>1, <1>2, <1>3 DEF IInv, BootCountExact, Counting, flashVars, histVars
<1>6. Formatting' /\ Mounting' /\ Networking'
  BY <1>1, <1>2 DEF IInv, Formatting, Mounting, Networking, DatabaseServed, flashVars, histVars
<1> QED BY <1>4, <1>5, <1>6 DEF IInv

\* Closed: only now the flash holds the new counter.
LEMMA CountCloseKeeps ==
  ASSUME IInv, count_close
  PROVE  IInv'
<1>1. main = "count close" /\ main' = "db create"
  BY DEF count_close
<1>2. UNCHANGED <<mounted, back, boot_count, net, armed, formatted, db, on, drawn>>
  BY DEF count_close
<1>3. boots \in Nat /\ data = <<boots + 1>> /\ mounted /\ formatted
  BY <1>1, BootsNat DEF IInv, Counting, Mounting
<1>4. count' = data /\ boots' = boots + 1 /\ data' = <<>> /\ pos' = 0
  BY DEF count_close
<1>5. count' = <<boots'>> /\ boots' \in Nat \ {0}
  BY <1>3, <1>4
<1>6. TypeOK'
  <2>1. count' \in Seq(Nat) /\ data' \in Seq(Nat) /\ pos' \in Nat
    BY <1>4, <1>5, NoWords, OneWord
  <2>2. boots' \in 0 .. on'
    <3>1. boots < on /\ on \in Nat
      BY <1>1, BootsNat DEF IInv, Counting
    <3> QED BY <1>2, <1>3, <1>4, <3>1
  <2> QED BY <1>1, <1>2, <2>1, <2>2 DEF IInv, TypeOK
<1>7. BootCountExact' /\ Counting'
  BY <1>1, <1>5 DEF BootCountExact, Counting
<1>8. Formatting' /\ Mounting' /\ Networking'
  BY <1>1, <1>2, <1>3 DEF IInv, Formatting, Mounting, Networking, DatabaseServed
<1> QED BY <1>6, <1>7, <1>8 DEF IInv

\* db.txt exists before handlers may run.
LEMMA OpenKeeps ==
  ASSUME IInv, db_create \/ open_http \/ open_http_fails
  PROVE  IInv'
<1> USE DEF IInv, TypeOK, BootCountExact, Counting, Formatting, Mounting, Networking,
          DatabaseServed,
          Goto, KeepRam, KeepAllButMount, ramVars, flashVars, histVars
<1>1. CASE db_create
  BY <1>1 DEF db_create
<1>2. CASE open_http
  BY <1>2 DEF open_http
<1>3. CASE open_http_fails
  BY <1>3 DEF open_http_fails
<1> QED BY <1>1, <1>2, <1>3

\* The REPL draws, or leaves; it writes nothing.
LEMMA ReplKeeps ==
  ASSUME IInv, repl_fs \/ repl_fs_done \/ repl_epaper_gui \/ repl_reset_flash \/ repl_quit
  PROVE  IInv'
<1> USE DEF IInv, TypeOK, BootCountExact, Counting, Formatting, Mounting, Networking,
          DatabaseServed,
          Goto, KeepRam, KeepAllButMount, ramVars, flashVars, histVars
<1>1. CASE repl_fs
  BY <1>1 DEF repl_fs
<1>2. CASE repl_fs_done
  BY <1>2 DEF repl_fs_done
<1>3. CASE repl_epaper_gui
  BY <1>3 DEF repl_epaper_gui
<1>4. CASE repl_reset_flash
  BY <1>4 DEF repl_reset_flash
<1>5. CASE repl_quit
  BY <1>5 DEF repl_quit
<1> QED BY <1>1, <1>2, <1>3, <1>4, <1>5

\* The network is gone before lfs is unmounted.
LEMMA ShutdownKeeps ==
  ASSUME IInv, Shutdown
  PROVE  IInv'
<1> USE DEF IInv, TypeOK, BootCountExact, Counting, Formatting, Mounting, Networking,
          DatabaseServed,
          Goto, KeepRam, KeepAllButMount, ramVars, flashVars, histVars
<1>1. CASE http_server_close
  BY <1>1 DEF http_server_close
<1>2. CASE cyw43_arch_deinit
  BY <1>2 DEF cyw43_arch_deinit
<1>3. CASE unmount
  BY <1>3 DEF unmount
<1>4. CASE watchdog_reboot
  BY <1>4 DEF watchdog_reboot
<1> QED BY <1>1, <1>2, <1>3, <1>4 DEF Shutdown

\* A handler changes db.txt and nothing else.
LEMMA PostKeeps ==
  ASSUME IInv, http_post_fs
  PROVE  IInv'
<1> USE DEF IInv, TypeOK, BootCountExact, Counting, Formatting, Mounting, Networking,
          DatabaseServed,
          Goto, KeepRam, KeepAllButMount, ramVars, flashVars, histVars
<1> QED BY DEF http_post_fs

LEMMA NextKeeps ==
  ASSUME IInv, [Next]_vars
  PROVE  IInv'
<1>1. CASE UNCHANGED vars
  <2>1. TypeOK'
    <3> HIDE DEF Phases
    <3>1. UNCHANGED <<main, mounted, back, data, pos, boot_count, net, armed>>
      BY <1>1 DEF vars, ramVars
    <3>2. UNCHANGED <<formatted, count, db, on, boots, drawn>>
      BY <1>1 DEF vars, flashVars, histVars
    <3>3. TypeOK
      BY DEF IInv
    <3> QED BY <3>1, <3>2, <3>3 DEF TypeOK
  <2>2. BootCountExact' /\ Counting'
    BY <1>1 DEF vars, ramVars, flashVars, histVars, IInv, BootCountExact, Counting
  <2>3. Formatting' /\ Mounting' /\ Networking'
    BY <1>1 DEF vars, ramVars, flashVars, histVars, IInv, Formatting, Mounting, Networking,
                DatabaseServed
  <2> QED BY <2>1, <2>2, <2>3 DEF IInv
<1> QED
  BY <1>1, PowerOnKeeps, LoseRamKeeps, DrawKeeps, MountKeeps, CountOpenKeeps, CountReadKeeps,
     CountRewindKeeps, CountWriteKeeps, CountCloseKeeps, OpenKeeps, ReplKeeps, ShutdownKeeps,
     PostKeeps
     DEF Next, PowerLoss, WatchdogReset, Boot, Repl, repl_reset_usb, Idle

\* The inductive invariant holds in every state the device reaches.
THEOREM Invariance == Spec => []IInv
<1>1. Init => IInv
  BY InitInv
<1>2. IInv /\ [Next]_vars => IInv'
  BY NextKeeps
<1> QED BY <1>1, <1>2, PTL DEF Spec

\* Every variable keeps its type, for any number of boots.
THEOREM TypeCorrect == Spec => []TypeOK
<1>1. IInv => TypeOK
  BY DEF IInv
<1> QED BY <1>1, Invariance, PTL

\* The counter on the flash is the number of boots that closed it, however
\* often and wherever the power failed.
THEOREM BootsCounted == Spec => []BootCountExact
<1>1. IInv => BootCountExact
  BY DEF IInv
<1> QED BY <1>1, Invariance, PTL

\* A handler always finds db.txt.
THEOREM DatabaseAlwaysServed == Spec => []DatabaseServed
<1>1. IInv => DatabaseServed
  BY DEF IInv, Networking
<1> QED BY <1>1, Invariance, PTL

\* lfs is used unmounted only by the very first drawing, or after a drawing
\* from the REPL.
THEOREM UnmountedOnlyByDrawing == Spec => []MountedWhenUsed
<1>1. IInv => MountedWhenUsed
  BY DEF IInv, TypeOK, Mounting, Networking, MountedWhenUsed
<1> QED BY <1>1, Invariance, PTL

\* Boot and shutdown use lfs undisturbed by handlers.
THEOREM ReentryOnlyFromRepl == Spec => []NoReentry
<1>1. IInv => NoReentry
  BY DEF IInv, TypeOK, Networking, NoReentry
<1> QED BY <1>1, Invariance, PTL

\* No boot formats away what was saved: only a format makes db.txt anything
\* else, and only a flash without a filesystem is formatted.
THEOREM SavedDataSurvives == Spec => SavedStaysSaved
<1>1. IInv /\ [Next]_vars => [db = "saved" => db' = "saved"]_vars
  <2> SUFFICES ASSUME IInv, Next, db = "saved"
               PROVE  db' = "saved"
    OBVIOUS
  <2>1. CASE format
    BY <2>1 DEF format, IInv, Formatting
  <2>2. CASE db_create \/ http_post_fs
    BY <2>2 DEF db_create, http_post_fs
  <2>3. CASE UNCHANGED db
    BY <2>3
  <2> QED
    BY <2>1, <2>2, <2>3
       DEF Next, PowerOn, PowerLoss, WatchdogReset, LoseRam, Draw, draw_malloc_fails, draw_reads,
           draw_mount, draw_open, draw_read, draw_close, draw_unmount, Boot, mount, remount,
           count_open, count_read, count_rewind, count_write, count_close, open_http,
           open_http_fails, Repl, repl_fs, repl_fs_done, repl_epaper_gui, repl_reset_flash,
           repl_reset_usb, repl_quit, Shutdown, http_server_close, cyw43_arch_deinit, unmount,
           watchdog_reboot, Idle, vars, flashVars, Goto
<1> QED BY <1>1, Invariance, PTL DEF Spec, SavedStaysSaved

-----------------------------------------------------------------------------
\* The filesystem stays in its half of the flash: nothing it programs or
\* erases belongs to the program, and nothing lies behind the flash.
THEOREM StaysInItsHalf ==
  \A block, off, size : Access(block, off, size) =>
    /\ Address(block, off) >= FS_SIZE
    /\ Address(block, off) + size <= PICO_FLASH_SIZE_BYTES
    /\ EraseAddress(block) >= FS_SIZE
    /\ EraseAddress(block) + FLASH_BLOCK_SIZE <= PICO_FLASH_SIZE_BYTES
  BY DEF Access, Address, EraseAddress, FS_START, FS_SIZE, PICO_FLASH_SIZE_BYTES,
         FLASH_BLOCK_SIZE, FLASH_PAGE_SIZE, block_count, Width

\* Two blocks share no byte, and every access keeps to its own block.
THEOREM BlocksApart ==
  \A b, c, off, size : Access(b, off, size) /\ Access(c, 0, 0) /\ b # c =>
    \/ Address(b, off) + size <= EraseAddress(c)
    \/ EraseAddress(c) + FLASH_BLOCK_SIZE <= Address(b, off)
  BY DEF Access, Address, EraseAddress, FS_START, FS_SIZE, PICO_FLASH_SIZE_BYTES,
         FLASH_BLOCK_SIZE, FLASH_PAGE_SIZE, block_count, Width

\* What is programmed is aligned to pages, what is erased to sectors, as the
\* flash needs it.
THEOREM Aligned ==
  \A block, off, size : Access(block, off, size) =>
    /\ Address(block, off) % FLASH_PAGE_SIZE = 0
    /\ EraseAddress(block) % FLASH_SECTOR_SIZE = 0
    /\ FLASH_BLOCK_SIZE % FLASH_SECTOR_SIZE = 0
  BY DEF Access, Address, EraseAddress, FS_START, FS_SIZE, PICO_FLASH_SIZE_BYTES,
         FLASH_BLOCK_SIZE, FLASH_PAGE_SIZE, FLASH_SECTOR_SIZE, block_count, Width
=============================================================================
