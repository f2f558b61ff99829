# A TLA+ model of pokal

pokal is the firmware of a Raspberry Pi Pico W that keeps a table of games: it
draws the table on an e-paper display, opens a WLAN access point and serves the
table's file over HTTP for editing. This directory models it in TLA+, checks
the models with TLC and proves theorems about them with TLAPS.

## The system

One core runs everything. `main` runs in thread mode; lwIP and the handlers it
calls run from a low-priority interrupt (`pico_cyw43_arch_lwip_threadsafe_background`),
so a callback runs to its end between any two steps of `main`, and callbacks do
not interrupt each other.

| component | state | operations | correct when |
|---|---|---|---|
| HTTP server, `httpserver/` | the listening pcb; for each connection a record of 20 KB on the heap (request buffer, result buffer, lengths); callbacks and argument of each pcb | `http_server_open`, `http_server_close`, `accept`, `recv`, `sent`, `poll`, `err` | no callback sees a freed record, no record or pbuf leaks, each request reaches the right handler as it was sent, every connection ends |
| DHCP server, `dhcpserver/` | eight leases: MAC and the high half of the clock at which each ends | DISCOVER, REQUEST, init, deinit | an address is never in use by two clients, a lease lasts as long as the client was told, a free address is found, the reply fits the request it is written over |
| DNS server, `dnsserver/` | its socket and its own address | `dns_server_init`, `dns_server_deinit`, answer every query with the address | the answer stays inside the message, and names an address that was set |
| file system, `fs.c`, `fs.h` and littlefs | one global `lfs` (mounted or not), 1 MB of flash | read, program, erase a block, with interrupts off | one user at a time; a file is old or new after a power loss |
| file routes, `route_fs.c` | none of their own | GET lists a directory or shows a file as a form, POST replaces a file's contents | a saved form does not lose data |
| other routes, `route_led.c`, `route_root.c` | the LED | show and switch the LED, the start page | a link does what it says |
| main, `main.c` | boot counter and `db.txt` in flash | boot, format on first boot, start the servers, REPL, shut down | the file system is mounted whenever it is used |
| REPL, `repl*.c` | one line buffer | dispatch to `fs`, `reset`, `ups`, `epaper` | one command per line, with its own argument; every handler gives back what it took |
| table, `tableread.c`, and drawing, `epaper_gui.c` | a copy of `db.txt` on the heap, one cell | load, read a cell, count rows, draw | the last eight rows are shown, no cell is cut or overflows |
| display, `epaper.c` | two flags | init, sleep | the panel is initialised, since it slept or lost power, when it is drawn on |
| UPS, `ina219.c` | calibration, and the chip's registers | voltage, current, percentage | a current is read from a calibrated chip |
| `BitmapData.c` | two pictures | | a picture is as large as the panel, and nothing is written over what it shows |
| build files, `lwipopts*.h` | constants | | |

How they interact: `main` starts the servers and hands each a pointer to
itself; lwIP calls them back with that pointer (for a connection, with the
record made in `accept`); the HTTP server calls the route handlers out of
`recv`; the handlers, the REPL and the table reader share the global `lfs`.

What is hard here: callbacks between any two steps of `main`; five ways for a
connection to end, each of which frees the record; a byte stream read as if it
were messages, in a buffer that is reused; pbufs that an error path must give
back or not depending on an error code; a 32-bit millisecond clock stored in 16
bits; datagrams lost, repeated and reordered; a reboot that forgets the leases
while the clients go on; a global file system that one user unmounts under the
others; a chip that forgets its calibration and a panel that sleeps while two
flags remember something else. `PROJECT.json` lists each hazard at its line, with the properties that
look at it.

## The modules

### HTTP: HttpRequest, HttpServer, HttpFraming

`HttpRequest` has the pure part of `tcp_server_recv`: how a segment is copied
into `con->request`, how the body is found, how the blank line is overwritten
with NULs, when a header waits for its body, and which route matches. The
stream is a sequence of tokens (a request line, a header, a blank line, a piece
of a body) and the buffer an array of cells that hold one token or NUL. All
tokens thus have one length: a later token overwrites exactly one earlier one.
Headers a browser sends that the server does not look at are `"Host:"`.

`HttpServer` is the server: lwIP's pcbs, the callbacks and argument of each,
the records, the pool of receive pbufs, the listener and the client's script.

| variable | in the code |
|---|---|
| `main` | how far `http_server_open` or `http_server_close` has come |
| `pcb`, `arg`, `cbs` | the state, `callback_arg` and registered callbacks of a `tcp_pcb` |
| `live`, `con` | the heap blocks that are allocated, and their contents |
| `inflight` | bytes given to `tcp_write` and not acknowledged |
| `pool` | pbufs left of `PBUF_POOL_SIZE` |
| `fault` | the core has stopped after a dereference of a null pointer |
| `script`, `pos` | the stream the client sends with the positions at which its segments end, and how many tokens have arrived |
| `handled`, `orphans`, `early` | history for the properties |

Each callback is one action, or one per outcome: `tcp_server_recv` is
`RecvAwaitsBody`, `RecvNoRoute`, `RecvGivesUp`, `RecvAnswers`,
`RecvWithoutServer` and `RecvFin`; `tcp_server_err` is `ErrReset` and
`ErrAbort`. `main` takes one action per lwIP call, because a SYN can be handled
between two of them. lwIP is external: a pcb takes over the listener's
argument when the SYN arrives, a frame needs a pbuf to arrive in, a pcb closed
with input that was not given back is reset, and the pcb is gone before
`ERR_ABRT` is reported. `ErrAbort` may happen to any open connection at any
time; lwIP does it rarely (when it kills a connection for want of pcbs).

`HttpFraming` states what the handlers should be given, by a reference that
reads the whole stream of a connection at once: which requests it holds, where
each ends, what is sent of its body and how many have arrived whole. `WellCut`
says which streams the server reads as they were meant: every request ends with
a segment and is cut at most behind a header that announces a body, a body does
not begin with a blank line, the header and the first piece of the body fit, and
no request is shorter than one before it (unless it fills the buffer).

### DHCP: DhcpServer, DhcpNetwork, AddressLease

`DhcpServer` has the lease table and the clock: `ticks` counts to
`Granules * Granule` and wraps, an expiry is a granule number, and a lease is
expired when the wrapped difference is negative as a signed number. In the code
a granule is 2^16 ms, there are 2^16 of them and the lease time is 86,400,000
ms. `age` is history: the true time since the grant.

`DhcpNetwork` adds the clients and the datagrams in flight, which are lost,
repeated and reordered. A client asks for the address it was offered or had
before, and uses it for the lease time counted from the moment the server
answered. `Restart` is `dhcp_server_init` after a reboot.

`AddressLease` is the abstract specification: a client begins to use an address
only when nobody else does. `DhcpNetwork` implements it with
`holders[s]` = the clients that hold `s` (`Promise`).

### The device: Device

`Device` is `main.c` from power-on to reboot, with the one global `lfs`. `main`
is in a phase; a phase that is named for an lfs call (`"draw read"`,
`"count write"`) lasts as long as the call. Two kinds of steps may come in the
middle of it: an HTTP handler that saves `db.txt`, and a power failure.

| variable | in the code |
|---|---|
| `main` | the statement `main`, `readFile` or the REPL is at |
| `mounted` | whether `lfs` is mounted |
| `back` | who called `epaper_gui_draw`: `main`, or the REPL's `epaper gui` |
| `data`, `pos`, `boot_count` | `main`'s `file` (contents and position, in words) and counter |
| `net` | from `http_server_open` to `cyw43_arch_deinit`: handlers may run |
| `armed` | `watchdog_reboot` was called |
| `formatted`, `count`, `db` | the flash: a filesystem, the words in `boot_count`, what became of `db.txt` |
| `on`, `boots`, `drawn` | history: boots begun, boots that closed the counter, a drawing from the REPL |

`LoseRam` is what a power failure, the watchdog and `reset usb` do: everything
but the flash is back to its first value. The clients that stay connected
after `http_server_close` can still save until `cyw43_arch_deinit`. littlefs is
external: a mount fails only on a flash that was never formatted, and a file
changes on the flash when it is closed (`main.c:109` says so too). A handler
that finds lfs unmounted is not followed any further; that it can is what
`MountedWhenUsed` and `ReleasesMounted` are about.

### The file routes: FileRoutes

`FileRoutes` is `route_fs.c` call by call: `GET /fs` and `POST /fs` are split
at their calls of littlefs, each of which may fail, and power may fail between
any two. A handler is not interrupted by another one, so the steps of two
requests are never mixed; what the browsers hold from earlier requests is.

| variable | in the code |
|---|---|
| `pc` | the next call of the handler that runs |
| `who`, `path` | the connection it serves; `path` as `extract_path` gives it |
| `handles` | how many of `file` and `dir` are open |
| `value` | `http_post_fs`: the text behind `text=`, cut at the end of `con->request` |
| `data` | what the open `file` holds; the flash gets it when it is closed |
| `body_len`, `shown`, `button` | the page in `res->body`: its length, the text in it, whether the second part of the form fitted |
| `unread` | entries of the directory that `lfs_dir_read` has not returned |
| `flash` | what the files hold |
| `answer`, `form` | what the browsers got: the last status, and the form each of them shows with what the file held then (history) |

A file is a sequence of letters and line ends, the markup of a page only its
length: the code never looks at either. Texts that hold markup (`</textarea>`),
which the page does not escape, are thus outside. littlefs and the browsers are
external. A file changes on the flash when its handle is closed, whole or not
at all, and not after a call on it has failed (littlefs marks such a file and
its close writes nothing). A browser drops one line end at the start of a
`textarea`, and sends the text with a line end behind it (`enctype`
`text/plain`); a page that ends within the form has no button to send it with.
A user types what he likes, into a form or without one, for any path.

`post_close_fails` is a step of its own: `http_post_fs` does not look at the
result of its last call, and redirects the browser as after a save although the
file holds its old text.

### The prompt: Repl, Epaper, Ups, TableRead, Gui, Console

`Console` is what `main` does from power-on to the prompt and at the prompt,
call by call, over five smaller modules that have a part of the state or are
pure:

| module | source | what it has |
|---|---|---|
| `Repl` | `repl.c`, the tables of `main.c` and `repl_*.c` | the line buffer as an array of characters; `repl_getline`, `repl_dispatch` by prefix with the pointer behind the command, `repl_enter`'s loop |
| `Epaper` | `epaper.c` | the two flags, and the panel's own state, which survives a reset: without power, ready, asleep, or woken (initialised after it slept) |
| `Ups` | `ina219.c`, `ina219.h` | `g_init`, `cal`, and the chip's registers, which fall back to their power-on values at any moment (`SharpLoad`), between the two writes of `ina219_init` too |
| `TableRead` | `tableread.c` | the scans of the text as folds over its characters, and the reference: the text split at its line ends and commas |
| `Gui` | `epaper_gui.c`, `BitmapData.c` | the pictures, as their size and the rectangles around what they show; what a drawing shows, as a function of the table, the battery and an uninitialised `int`, with the lengths and places of its strings; what it should show, by the reference |

| variable of `Console` | in the code |
|---|---|
| `main`, `job` | the call `main` is at, and for which handler (or for the boot) |
| `todo` | handlers the line matched and that have not run yet |
| `held` | what is allocated or open: the two images, the table, a file's handle |
| `mounted`, `db`, `file`, `table` | `lfs`; the text on the flash, in the open file and in `buffer` |
| `armed` | `watchdog_reboot` was called |
| `image` | what was painted and not shown yet |
| `drawn` | history: the REPL has drawn |

A handler is a sequence of phases (`fs_open`, `fs_read`, `fs_close`; `draw_init`
to `free_images`), each with its failures. Between two of them an HTTP handler
saves `db.txt`, a load resets the chip, the watchdog fires or power fails. The
order of the tables is left out: `repl_dispatch` runs every match, and
`RunsWhatWasTyped` says that there is never a second one. A command without an
argument passes on a pointer behind the end of the line; that it finds nothing
there is what the `memset` at the head of the loop is for.

`Console` refines `Device` from the prompt on: `Dev` is an instance of `Device`
in which `DeviceMain` is `main`, and `DeviceAllows` says that each of its steps
is a step of `Device` or none. The boot itself (counting, formatting) and the
shutdown are `Device`'s alone; `Console` goes from the drawing at boot straight
to the prompt, with a mounted `lfs`.

Three pieces of undefined C are choices: the `i` of the two loops over the grid
is any value of `Junk`; memory that cannot be had for the table is a fault (the
file is read to address 0); and so is a file that cannot be opened for want of
memory, for its size is then asked of a handle that nothing was written to. From
the fault nothing leads on but a reset or the loss of power. An error of
`readFile`'s mount, which it ignores too, is in `Device`.

The panel that sleeps. `epaper_init` is written as if initialising a panel woke
it; `epaper_gui.c:152`, "FIXME - unable to recover after sleep (?)", doubts it,
and the drawing does not send the panel to sleep for that reason, but the REPL's
`epaper sleep` does. The driver is not in the repository, so the model takes no
side: a panel that is initialised after it slept is `"woken"`, not `"ready"`,
until it loses its power. `DrawnInitialised` says of the flags what the code
alone decides: nothing is sent to a panel that was not initialised since it
slept, since its power came back or since the processor forgot its flags
(unless `DEV_Module_Init` has just failed, which nobody looks at). That a
"woken" panel shows anything is not claimed by any property or theorem.

### The other servers: DnsServer, DhcpOptions, Led, Services

`DnsServer` has the scan of the question, one step per label, with the offsets
of the code and what a byte is chosen when it is read. `DhcpOptions` has the
bytes of the options: a message is its bytes and the offsets at which the client
put its options, copied over what the stack held (any bytes). `opt_find` searches
it, one option per step with the index of its loop as state, and the reply is
written over it. Which slot the table gives is `DhcpServer`'s part. `WellFormed`
and `Says` read a list of options by its offsets, as RFC 2132 has it; with them
`ReplyAnswersRequest` relates the reply to the request. `Led` has
the LED and what each browser shows of it: the first `?` of the whole header is
taken for the query, be it in the path or in the `Referer`.

`Services` composes the three with `main`, which starts and stops them one call
at a time while clients call from the moment a socket is bound; and with its
return after `http_server_open` failed, which leaves two sockets bound to a
frame that is gone.

### The flash: Flash

`Flash` has the addresses of `fs.c`. It has no state and no run: three theorems
in `DeviceProofs` say all there is to say.

## The runs

| run | bounds | shows |
|---|---|---|
| `http_lifecycle` | 2 pcbs, 2 records, 2 pbufs, 6 cells, 1 header unit and 1 or 2 body units, three scripts (a page, a form in two segments, a request nobody handles) | `CallbackArgValid`, `RecordsAccounted`, `FaultNeedsWindow`, `PbufLostOnlyWithConnection`, `TypeOK` |
| `http_framing` | 1 pcb, 7 cells, 1 header unit and 1 or 2 body units, eleven scripts of one or two requests | `HandledAsSent`, `CompleteMeansHandled`, `SpecificRouteWins`, `RequestTerminated`, `AllDoneMeansAcked`, `PcbReturned` |
| `http_shorter_second` | a POST in two segments, then a GET | violation of `CompleteMeansHandled` |
| `http_split_body` | a POST, its body in two segments | violation of `HandledAsSent` |
| `dhcp_wrap` | 3 clients, 2 slots, 8 granules of 2 ticks, leases of 3 | violation of `RefusedOnlyWhenLeased` |
| `dhcp_network` | 2 clients, 2 slots, 5 granules of 2 ticks, leases of 3, 2 datagrams in flight | `OneHolder`, `HoldersRecorded`, `LiveLooksLive`, `NoEviction`, `Promise`, `TypeOK` |
| `dhcp_restart` | the same, with reboots | violation of `OneHolder` |
| `device_boot` | 3 boots | `BootCountExact`, `DatabaseServed`, `MountedWhenUsed`, `NoReentry`, `SavedStaysSaved`, `QuitReboots`, `TypeOK` |
| `device_release` | 1 boot | violation of `ReleasesMounted` |
| `file_routes` | 2 browsers, 2 files, 1 directory, 1 path that is none; a page has room for 6 units of text, for 3 with its button, a request for 7; texts of 0 to 7 units | `HandlesClosed`, `FormShowsWholeFile`, `WholeOrNothing`, `SentBackLosesNothing`, `TypeOK` |
| `console` | 16 lines, buffer of 16, three tables, 2 rows shown, cells of 10, registers of 2^15, 2 currents and 3 voltages, 2 values of junk | `RunsWhatWasTyped`, `DrawnInitialised`, `CurrentCalibrated`, `NothingHeld`, `ShowsTable`, `DeviceAllows`, `TypeOK` |
| `services` | header of 2, labels to 3, names to 8, answer of 3, messages to 17 bytes; options of 40 bytes, fourteen DHCP messages over zeros or what any of them left, 2 slots; 2 browsers | `AnswerFits`, `AnswersOwnAddress`, `ReplyAnswersRequest`, `LinkDoesWhatItSays` |

Why the bounds are enough. Connections interact only through the heap, the
pool and the listener; two of each are enough for one to have what the other
lacks, and for both to be in any two of their states. The buffer of the
lifecycle run holds every script; that of the framing run is overflowed by two
of its scripts. The heap and the pool run out in both. The clocks of the DHCP
runs wrap several times, leases are not a multiple of a granule, and the clock
is just wide enough for `ClockAssumption` in the passing runs; in `dhcp_wrap`
it is wide enough for a lease to stay expired for some time before it looks
live again. Two clients that compete for a slot are all an exclusion property
needs, and one that holds both slots makes the table full for the other.

A boot of the device starts from what the one before left on the flash: never
formatted, formatted without a counter, or with one. Three boots go through all
of these, and through a rewrite of a counter that was itself rewritten.

The texts of the file routes fit with the button, without it, exactly without
it, or not at all; the posted ones fit the request, fit it exactly (with the
line end) or are cut. Two directory entries fit one by one and not together.
Two browsers are enough for one to save what the other one shows.

The lines of `console` are each command, and commands or arguments that are
missing, misspelt, run on or one character too long; "epaper" follows "epaper
ejectejec" and "fs xcatb", so that a buffer that was not cleared would show.
The tables are empty, longer and shorter than what is shown, with rows that lack
a winner, a line end or everything. Every string that a drawing of them writes
fits its array and lies beside the pictures and the other strings. The junk draws no line of the grid, or far
too many. The commands do not interact but through the flags, the chip and
`lfs`, all of which any two of them may find in any state. The widths of `Word`
and of the voltages reach both signs of the conversion. In `services`, the
longest query fills the message exactly, and the scan of a name ends at each
distance behind it. The DHCP messages hold the type and the address in every
order, addresses at and beyond both ends of the range and in another net, no
type, an unknown one, a `PAD`, and no `END`; an option behind a message without
`END` may be one that an earlier message left. `EncodingIsWellFormed` checks that
`WellFormed` holds of what a client's encoding gives and of nothing malformed.

The clients of `http_lifecycle` send one request each. Those of `http_framing`
may send the second one before the answer to the first is acknowledged, in whole
or in pieces, which is what `AllDoneMeansAcked` needs. The violation runs:

* `http_shorter_second`: the comment at `httpserver.c:108` says the server is
  "ready to receive another request", but the buffer is not cleared. A GET that
  is shorter than the POST before it is followed by what is left of the POST,
  whose `Content-Length:` makes the server wait for a body.
* `http_split_body`: "We expect the request body next" (`httpserver.c:103`), but
  the first piece of a body is taken for all of it. A handler that saves the
  body to a file saves a part.
* `dhcp_wrap`: "No more IP addresses left" (`dhcpserver.c:238`) is concluded
  although the leases ended long ago, once 2^31 ms have passed.
* `dhcp_restart`: "IP unused" (`dhcpserver.c:264`) is concluded from a table
  that was cleared by a reboot.
* `device_release`: "release any resources we were using" (`main.c:156`), but
  the drawing that the REPL starts has unmounted `lfs` (`tableread.c:31`).
  `MountedWhenUsed` says who else meets it then: all handlers and REPL commands
  after that drawing, and the drawing at the very first boot, which comes before
  the format. It says too that nobody else does.

Some properties exempt what the code does and nothing in it forbids:
`MountedWhenUsed` these drawings, `NoReentry` the REPL's own calls of lfs,
`AnswersOwnAddress` the two windows around the bind in `dns_server_init` and
after a failed `http_server_open`, `SavedStaysSaved` a mount that fails on a
formatted flash, `DrawnInitialised` a panel that does not wake up. The hazards
in `PROJECT.json` say in their notes what is left uncovered by it.

Fairness. `FairSpec` of `HttpServer` (run with `PcbReturned`) assumes that lwIP's slow timer polls a connection, ends a
handshake and ends a close, and nothing of clients or `main`:
`pico_cyw43_arch_lwip_threadsafe_background` runs the timers whenever the core
is not stopped. `Device` assumes that `main` goes on once the REPL is left, and
that the watchdog fires (`WF_vars(Shutdown)`, `WF_vars(WatchdogReset)`); none
of these statements waits for anything outside. Deadlock is checked in every run; `Stopped` is the core that
has stopped or the `main` that has returned, `Idle` the device that is off or
waits for somebody.

## The proofs

`HttpServerProofs`: for any set of pcbs and records, any buffer size, any pool
and any scripts, from `ReqSizeAssumption`, `NullAssumption`, `NamesAssumption`,
`SizesAssumption` and `ScriptsAssumption`,

* `TypeCorrect`: `Spec => []TypeOK`
* `CallbackArgsSafe`: `Spec => []CallbackArgValid`
* `NoRecordLeaks`: `Spec => []RecordsAccounted`
* `RequestStaysTerminated`: `Spec => []RequestTerminated`
* `PbufAccounting`: `Spec => PbufLostOnlyWithConnection`
* `StopsOnlyInWindow`: `Spec => []FaultNeedsWindow`

The inductive invariant is `IInv == TypeOK /\ Ownership /\ RequestTerminated`.
`CallbackArgValid` alone is not inductive: that a callback's argument is live
and names its pcb survives the freeing of another record only because no two
pcbs share one, which follows from `con[arg[p]].pcb = p`; and `RecordsAccounted`
needs that a pcb which is not open holds no record. `Ownership` says both.
`RequestTerminated` is part of it because the types of `BodyText` and of
`BodyAt` rest on a NUL in the last cell. The proof has one lemma per action
and, for the actions that close, one lemma they share.
`StopsOnlyInWindow` adds `Window`: a pcb without an argument, or a record without
a server, belongs to a SYN that came early.

`HttpFramingProofs`, from the same assumptions and on top of `IInv`,

* `ClosedWhenAcked`: `Spec => AllDoneMeansAcked`
* `MostSpecificRoute`: `Spec => []SpecificRouteWins`
* `HandlersGetWhatWasSent`: `Spec => []HandledAsSent`
* `NothingKeptWaiting`: `Spec => []CompleteMeansHandled`

The first two are about all streams. The other two assume that every script is
`WellCut`, for they do not hold without: the two violation runs of the framing
are scripts outside it, one for its last condition and one for the cuts. The
`ASSUME WellCutCovers` of `MCHttpFraming`, which TLC evaluates on each of its
runs, says that all scripts of `http_framing` are inside and those two outside.

All four are about one connection at a time; `LwipLocal` shows from the ownership
of the records that a callback for one pcb leaves every other connection as it
was (`Same`). `Acks` says of an open connection that what the record counts as
sent and what is in flight make up the answer; with a second answer on its way,
at least that. For the framing the invariant is `Frames`. Between two segments a
connection is `Idle`, with nothing kept and every request that has arrived
handled, or it `Waits` with the header of one request, whole and as it was sent,
for the body. And what lies in the buffer behind it is no longer than some
request that arrived before (`Rests`): this is why what is left of an earlier
request is never read as a part of a later one that is not shorter. It also says
of each pcb what its handlers were given so far. A segment is then one of three:
a whole request, a header that is kept (`TakesHeader`), or the body of a kept
header (both others by `ReadsRequest`, which follows the copy, the search for the
blank line and its overwriting with NULs through the buffer).

`DhcpProofs`: from `SlotsAssumption`, `ClockAssumption` and `MaxNetAssumption`,

* `LeaseTimeHonoured`: `ServerSpec => []LiveLooksLive`
* `NobodyEvicted`: `ServerSpec => NoEviction`
* `NetTypeCorrect`, `HoldersAreRecorded`: `Spec => []TypeOK`, `Spec => []HoldersRecorded`
* `NoSharedAddress`: `Spec => []OneHolder`
* `KeepsPromise`: `Spec => Promise`

The invariant of the server relates the stored expiry to the clock and the
true age: while a slot's age matters, the granule it stores is the one in which
`ticks - age + LeaseTime` falls, counted on the wrapped clock. That of the
network adds `HoldersRecorded` and `AcksRecorded`: who holds an address, or has
an acknowledgement on its way, is recorded as its owner for longer than it will
hold it.

`DeviceProofs`: for any number of boots, from `MaxBootsAssumption`,

* `TypeCorrect`: `Spec => []TypeOK`
* `BootsCounted`: `Spec => []BootCountExact`
* `DatabaseAlwaysServed`: `Spec => []DatabaseServed`
* `UnmountedOnlyByDrawing`: `Spec => []MountedWhenUsed`
* `ReentryOnlyFromRepl`: `Spec => []NoReentry`
* `SavedDataSurvives`: `Spec => SavedStaysSaved`

None of these is inductive: each needs to know what the phase of `main` implies.
The invariant has four parts for that. `Counting` follows the counter from the
flash to RAM and back (before the write the file holds what the flash holds and
the position is 0; at the close it holds the new number), and says that a boot
counts itself once; `Formatting` that what was never formatted holds nothing,
and that only such a flash is formatted; `Mounting` and `Networking` say in
which phases lfs is mounted and handlers may run.

`FileRoutesProofs`: for any browsers, files, texts, markup and sizes, from
`PathsAssumption`, `NullAssumption`, `TypedAssumption` and `SizesAssumption`,

* `PagesFit`: `Spec => []TypeOK`
* `NothingLeftOpen`: `Spec => []HandlesClosed`
* `FormsAreWhole`: `Spec => []FormShowsWholeFile`
* `SavesAreAtomic`: `Spec => WholeOrNothing`
* `NothingLost`: `Spec => SentBackLosesNothing`

The invariant adds `InHand` to them: a page with a button shows what its file
holds now (no handler that could change it runs in between), and a file that
was truncated is no longer than what will be written over it. The lemmas about
texts at the start of the module are all that is needed of sequences; the rest
of the proof does not look into a text.

`ReplProofs` and `ConsoleProofs`: for any lines, characters, length of the
buffer, tables, readings and junk, from `LineAssumption`, `TablesAssumption`,
`LinesAssumption`, `WordAssumption` and `TextsAssumption`,

* `RunsAsTyped`: `Spec => []RunsWhatWasTyped`
* `EverythingGivenBack`: `Spec => []NothingHeld`
* `PanelInitialised`: `Spec => []DrawnInitialised`
* `CurrentIsCalibrated`: `Spec => []CurrentCalibrated`
* `ConsoleImplementsDevice`: `Spec => DeviceAllows`
* `TypesKept`: `Spec => []TypeOK`

`TablesAssumption` says of the command tables what the provers cannot see, to
which a string has no characters: no command is a prefix of another, no word of
one of its table, and the longest path leaves room for the end of the line. TLC
evaluates it on every run of `MCConsole`. `ReplProofs` is about one line:
`FilledFits` (what a cleared buffer holds after `repl_getline`), `FoundIsTyped`
(what `strncmp` finds in it was typed) and `ArgumentIsRest` (what a pointer into
it stands for), then `DispatchesWhatWasTyped`; the invariant `Prompted` adds
that the buffer is clear whenever a line is read. `HeldAt` says for each phase
what is held; `ActivePanel` that the flags never claim a panel that was not
initialised since it slept or lost power, and that a drawing goes on with such a
panel or with a start that has failed (that the panel woke up is no part of it);
`Calibrated` that between the last write of the calibration and the reading only
a load comes in. For the refinement, `GuiDrawn` says that who draws is seen to
have drawn, and there is one lemma per kind of step.

`ServicesProofs`: for any sizes, messages, contents of the stack and browsers,
from the `SizesAssumption` of `DnsServer` and `OptionsAssumption`,

* `AnswersFit`: `Spec => []AnswerFits`
* `OwnAddressAnswered`: `Spec => []AnswersOwnAddress`
* `ClicksAreObeyed`: `Spec => LinkDoesWhatItSays`
* `RequestsAreAnswered`: `Spec => []ReplyAnswersRequest`

`Scanned` says where the scan and the answer may lie at each step: a name of at
most `MaxName` bytes, the four bytes behind it and the answer are what
`SizesAssumption` makes fit.

The invariant of the last is `Understood`. While a well-formed message is searched,
its bytes are still in the buffer (`Copied`), `opt_find` stands on one of its
options, and what it has passed is not what it looks for (`Passed`); so it stops
on the first option with the code or on `END`, and never reads what the stack
held. `ReplyAnswersRequest` alone does not say where a search has come. That the
reply is a list of options is `WritesReply`, which adds one option at a time:
`opt_write` leaves those before it as they are (`KeepsOptions`). `OptionsAssumption`
asks only that messages and the stack hold bytes, that the 34 bytes of a reply
fit, and that a slot's address is a byte.

In `DeviceProofs` too: `StaysInItsHalf`, `BlocksApart` and `Aligned`, about the
addresses of `Flash`, for whatever littlefs may ask of one block.

Model-checked only. Liveness (`PcbReturned`, `QuitReboots`) needs `ENABLED`,
which the prover has no rules for. `ShowsTable` is about folds over a text, whose
value for every text takes an induction over data. The five violations are
counterexamples.

## The plan

Everything with state of its own is modelled, checked and, within the prover's
reach, proved. What could still be added:

1. The boot of `Device` and the boot of `Console` in one module; they meet at the
   prompt.
2. The loops of `TableRead` with their indices as state, as `DhcpOptions` has
   those of `opt_find`, for a theorem about tables of any length.

## Not modelled

lwIP, littlefs, the SDK, the display driver, the chips and the clients are not
in the repository; they appear as the code uses them. Left out:

* of HTTP, the branch of `tcp_server_recv` for an empty pbuf, and several blank
  lines in a row at the start of a body (skipped by the code and in the model
  alike). A header in two segments, or two requests in one, are possible scripts,
  and the theorems without `WellCut` are about them too, but no run has them:
  nothing in the code says what should happen.
* of DHCP and DNS, the unused field `gw`, `DUMP_DATA`, messages too short to hold
  a type, and the checks of a DNS header, which lead to no change of state.
* of the table, cells that are longer than `data`, and 1000 rows or more, for
  which `gamestotal_string` is too short (both undefined in C and excluded by
  `TextsAssumption`), and `getWinnerOfTheYear`, which nothing calls.
* of the display, glyphs, fixed lines and headings, and the driver: what a panel
  shows that was initialised after it slept is left open. Of the two pictures of
  `BitmapData.c` the model has the size and the rectangles around what their
  pixels show; a drawing copies a whole panel from them.
* of littlefs, a mount that fails on a formatted flash, upon which `main` would
  format it.
* of the UPS, the registers and configurations nothing uses. Floats are integers:
  millivolts, and per cent rounded towards zero.
* `DEBUG_printf`, and what handlers print. The LED and the switch at boot. A
  failed `tcp_bind` leaks one pcb before `main` returns. `route_led.c` writes NULs
  into the header it is given; the server does not read that header again.
* build files, and the headers of compile-time options (`lwipopts*.h`): there is
  nothing in them to execute; the sizes of the pools are constants.
