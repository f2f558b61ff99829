----------------------------- MODULE HttpServer ------------------------------
(***************************************************************************)
(* httpserver/httpserver.c: the web server of the access point.            *)
(*                                                                         *)
(* lwIP runs in the background (pico_cyw43_arch_lwip_threadsafe_background)*)
(* and calls the server from an interrupt on the core that runs main, so a *)
(* callback is one step and happens between any two steps of main.  main   *)
(* opens and closes the listener one lwIP call at a time.                  *)
(*                                                                         *)
(* lwIP itself is not in the repository.  What it does to a pcb is modelled*)
(* from how the server uses it: it captures the listener's argument when a *)
(* SYN arrives, calls the callbacks that are registered, frees a pcb that  *)
(* is closed with unacknowledged input, and frees it before it reports     *)
(* ERR_ABRT.                                                               *)
(***************************************************************************)
EXTENDS HttpRequest

CONSTANTS
  Pcbs,       \* the tcp_pcbs lwIP has for clients
  Records,    \* the heap blocks an http_connection_t may be put in
  Server,     \* main's http_server_t
  Scripts,    \* what a client may send, and how the network cuts it
  PoolSize,   \* PBUF_POOL_SIZE
  MaxBody     \* the longest result, in units

ASSUME NamesAssumption ==
  /\ Server \notin Records \cup {Null}
  /\ Null \notin Records \cup Pcbs

ASSUME SizesAssumption ==
  /\ PoolSize \in Nat
  /\ MaxBody \in Nat

\* A stream of tokens and the positions at which its segments end.
Script == [text : Seq(Token), cuts : SUBSET Nat]

NoScript == [text |-> <<>>, cuts |-> {}]

ASSUME ScriptsAssumption ==
  /\ Scripts \subseteq Script
  /\ \A s \in Scripts : Len(s.text) \in s.cuts /\ \A c \in s.cuts : c <= Len(s.text)

VARIABLES
  main,      \* how far main is with http_server_open or http_server_close
  pcb,       \* the state of each tcp_pcb
  arg,       \* callback_arg of each tcp_pcb
  cbs,       \* the callbacks registered on each tcp_pcb
  live,      \* the records that are allocated
  con,       \* their contents
  inflight,  \* bytes written to the pcb and not yet acknowledged
  pool,      \* the pbufs left to receive with
  fault,     \* the core has stopped on a wild pointer
  script,    \* client: what it sends on the connection
  pos,       \* client: how many tokens of it have arrived
  handled,   \* history: the requests passed to a route handler
  orphans,   \* history: the records lwIP reported ERR_ABRT for
  early      \* history: the SYN came while the listener's arg was not set

vars == <<main, pcb, arg, cbs, live, con, inflight, pool, fault, script, pos,
          handled, orphans, early>>
conVars    == <<live, con, orphans>>
clientVars == <<script, pos, handled, early>>

Callbacks == {"sent", "recv", "poll", "err"}

\* A record as calloc leaves it.
Zeroed == [server |-> Null, pcb |-> Null, request |-> EmptyBuffer,
           request_len |-> 0, header_len |-> 0, result_len |-> 0, sent_len |-> 0]

http_connection_t ==
  [server : {Server, Null}, pcb : Pcbs \cup {Null}, request : Buffer,
   request_len : 0 .. ReqSize - 1, header_len : Nat, result_len : Nat, sent_len : Nat]

Request == [line : Cell, route : Lines, body : Seq(Cell)]

Init ==
  /\ main = "start"
  /\ pcb = [p \in Pcbs |-> "free"]
  /\ arg = [p \in Pcbs |-> Null]
  /\ cbs = [p \in Pcbs |-> {}]
  /\ live = {}
  /\ con = [r \in Records |-> Zeroed]
  /\ inflight = [p \in Pcbs |-> 0]
  /\ pool = PoolSize
  /\ fault = FALSE
  /\ script = [p \in Pcbs |-> NoScript]
  /\ pos = [p \in Pcbs |-> 0]
  /\ handled = [p \in Pcbs |-> <<>>]
  /\ orphans = {}
  /\ early = [p \in Pcbs |-> FALSE]

-----------------------------------------------------------------------------
(* main: the listener *)

\* What main's next call would see of the listening pcb.
Listening   == main \in {"listening", "argset", "open", "argcleared"}
AcceptSet   == main \in {"open", "argcleared"}
ListenerArg == IF main \in {"argset", "open"} THEN Server ELSE Null

MainStep(from, to) ==
  /\ main = from
  /\ main' = to
  /\ UNCHANGED <<pcb, arg, cbs, inflight, pool, fault, conVars, clientVars>>

\* tcp_new, tcp_bind and tcp_listen, each of which may fail: main gives up.
tcp_listen_ok     == MainStep("start", "listening")
http_server_fails == MainStep("start", "failed")

\* The two calls that arm the listener, and the two that take it down.
tcp_arg_server     == MainStep("listening", "argset")
tcp_accept_server  == MainStep("argset", "open")
tcp_arg_null       == MainStep("open", "argcleared")
tcp_close_listener == MainStep("argcleared", "closed")

\* main's watchdog_reboot: the device starts again.
Reboot ==
  /\ main = "closed"
  /\ main' = "start"
  /\ pcb' = [p \in Pcbs |-> "free"]
  /\ arg' = [p \in Pcbs |-> Null]
  /\ cbs' = [p \in Pcbs |-> {}]
  /\ live' = {}
  /\ con' = [r \in Records |-> Zeroed]
  /\ inflight' = [p \in Pcbs |-> 0]
  /\ pool' = PoolSize
  /\ script' = [p \in Pcbs |-> NoScript]
  /\ pos' = [p \in Pcbs |-> 0]
  /\ handled' = [p \in Pcbs |-> <<>>]
  /\ orphans' = {}
  /\ early' = [p \in Pcbs |-> FALSE]
  /\ UNCHANGED fault

-----------------------------------------------------------------------------
(* lwIP: a pcb comes and goes.  A frame needs a pbuf to arrive in. *)

\* tcp_listen_input: the new pcb takes over the listener's callback_arg.
Syn(p) ==
  /\ Listening
  /\ pool > 0
  /\ pcb[p] = "free"
  /\ pcb' = [pcb EXCEPT ![p] = "synrcvd"]
  /\ arg' = [arg EXCEPT ![p] = ListenerArg]
  /\ early' = [early EXCEPT ![p] = ListenerArg = Null]
  /\ \E s \in Scripts : script' = [script EXCEPT ![p] = s]
  /\ pos' = [pos EXCEPT ![p] = 0]
  /\ handled' = [handled EXCEPT ![p] = <<>>]
  /\ UNCHANGED <<main, cbs, inflight, pool, fault, conVars>>

\* The pcb is gone and lwIP calls nobody: the handshake failed, its listener
\* was closed or had no accept yet, or accept returned ERR_MEM; or the last
\* segment of a close was acknowledged, or answered by data, or timed out.
Dropped(p, from) ==
  /\ pcb[p] = from
  /\ pcb' = [pcb EXCEPT ![p] = "free"]
  /\ arg' = [arg EXCEPT ![p] = Null]
  /\ UNCHANGED <<main, cbs, inflight, pool, fault, conVars, clientVars>>

NotAccepted(p) == Dropped(p, "synrcvd")
CloseDone(p)   == Dropped(p, "closing")

\* Mutant: con->server is never set.
AcceptForgetsServer(p, r) ==
  /\ pcb[p] = "synrcvd" /\ AcceptSet /\ pool > 0 /\ r \notin live
  /\ live' = live \cup {r}
  /\ con' = [con EXCEPT ![r] = [Zeroed EXCEPT !.pcb = p]]
  /\ pcb' = [pcb EXCEPT ![p] = "open"]
  /\ arg' = [arg EXCEPT ![p] = r]
  /\ cbs' = [cbs EXCEPT ![p] = Callbacks]
  /\ UNCHANGED <<main, inflight, pool, fault, orphans, clientVars>>

\* Mutant: no poll callback is registered.
AcceptWithoutPoll(p, r) ==
  /\ pcb[p] = "synrcvd" /\ AcceptSet /\ pool > 0 /\ r \notin live
  /\ live' = live \cup {r}
  /\ con' = [con EXCEPT ![r] = [Zeroed EXCEPT !.server = arg[p], !.pcb = p]]
  /\ pcb' = [pcb EXCEPT ![p] = "open"]
  /\ arg' = [arg EXCEPT ![p] = r]
  /\ cbs' = [cbs EXCEPT ![p] = Callbacks \ {"poll"}]
  /\ UNCHANGED <<main, inflight, pool, fault, orphans, clientVars>>

\* http_server_accept, called with the argument captured at the SYN.
http_server_accept(p, r) ==
  /\ pcb[p] = "synrcvd"
  /\ AcceptSet
  /\ pool > 0
  /\ r \notin live
  /\ live' = live \cup {r}
  /\ con' = [con EXCEPT ![r] = [Zeroed EXCEPT !.server = arg[p], !.pcb = p]]
  /\ pcb' = [pcb EXCEPT ![p] = "open"]
  /\ arg' = [arg EXCEPT ![p] = r]
  /\ cbs' = [cbs EXCEPT ![p] = Callbacks]
  /\ UNCHANGED <<main, inflight, pool, fault, orphans, clientVars>>

\* What tcp_close, or the tcp_abort that follows when it fails, makes of a
\* pcb: with received bytes not given back by tcp_recved it is reset.
tcp_close(unread) == IF unread THEN {"free"} ELSE {"closing", "free"}

\* Mutant: tcp_err(client_pcb, NULL) is missing.
CloseKeepsErr(p, r, to) ==
  /\ pcb' = [pcb EXCEPT ![p] = to]
  /\ arg' = [arg EXCEPT ![p] = Null]
  /\ cbs' = [cbs EXCEPT ![p] = {"err"}]
  /\ inflight' = [inflight EXCEPT ![p] = 0]
  /\ live' = live \ {r}
  /\ con' = [con EXCEPT ![r] = Zeroed]

\* Mutant: free(con) is missing.
CloseKeepsRecord(p, r, to) ==
  /\ pcb' = [pcb EXCEPT ![p] = to]
  /\ arg' = [arg EXCEPT ![p] = Null]
  /\ cbs' = [cbs EXCEPT ![p] = {}]
  /\ inflight' = [inflight EXCEPT ![p] = 0]
  /\ UNCHANGED <<live, con>>

tcp_close_client_connection(p, r, to) ==
  /\ pcb' = [pcb EXCEPT ![p] = to]
  /\ arg' = [arg EXCEPT ![p] = Null]
  /\ cbs' = [cbs EXCEPT ![p] = {}]
  /\ inflight' = [inflight EXCEPT ![p] = 0]
  /\ live' = live \ {r}
  /\ con' = [con EXCEPT ![r] = Zeroed]

-----------------------------------------------------------------------------
(* tcp_server_recv *)

\* The record a callback on p is called with.
Con(p) == con[arg[p]]

NextCut(p) == Min({c \in script[p].cuts : c > pos[p]})

Segment(p) == SubSeq(script[p].text, pos[p] + 1, NextCut(p))

\* con->request with the next segment taken in.
Taken(p) == Received(Con(p).request, Con(p).request_len, Segment(p))

\* The next segment arrives and is handed to tcp_server_recv.
Receives(p) ==
  /\ pcb[p] = "open"
  /\ "recv" \in cbs[p]
  /\ pool > 0
  /\ pos[p] < Len(script[p].text)
  /\ pos' = [pos EXCEPT ![p] = NextCut(p)]
  /\ UNCHANGED <<main, script, orphans, early>>

\* Mutant: pbuf_free is missing.
AwaitsWithPbuf(p) ==
  /\ Receives(p)
  /\ AwaitsBody(Taken(p))
  /\ con' = [con EXCEPT ![arg[p]] =
              [@ EXCEPT !.request = Taken(p).buf, !.request_len = Taken(p).len]]
  /\ pool' = pool - 1
  /\ UNCHANGED <<pcb, arg, cbs, live, inflight, fault, handled>>

\* A header without its body yet: keep it and wait.
RecvAwaitsBody(p) ==
  /\ Receives(p)
  /\ AwaitsBody(Taken(p))
  /\ con' = [con EXCEPT ![arg[p]] =
              [@ EXCEPT !.request = Taken(p).buf, !.request_len = Taken(p).len]]
  /\ UNCHANGED <<pcb, arg, cbs, live, inflight, pool, fault, handled>>

\* Everything else is dispatched on its first line, on the server's routes.
Dispatches(p, server, route) ==
  /\ Receives(p)
  /\ ~AwaitsBody(Taken(p))
  /\ Con(p).server = server
  /\ route = RouteOf(Taken(p).buf[0])

\* Mutant: the pbuf is freed twice.
ErrorFreesTwice(p) ==
  /\ \E to \in tcp_close(TRUE) : tcp_close_client_connection(p, arg[p], to)
  /\ pool' = pool + 1
  /\ UNCHANGED fault

\* The pbuf of an answered request is freed, that of any other is not.
ErrorClose(p) ==
  /\ \E to \in tcp_close(TRUE) : tcp_close_client_connection(p, arg[p], to)
  /\ pool' = pool - 1
  /\ UNCHANGED fault

CallHandler(p, route) ==
  handled' = [handled EXCEPT ![p] = Append(@,
    [line |-> Taken(p).buf[0], route |-> route, body |-> BodyText(Taken(p))])]

RecvNoRoute(p) ==
  /\ Dispatches(p, Server, Null)
  /\ ErrorClose(p)
  /\ UNCHANGED handled

\* The handler made no header, or tcp_write took the header or body not.
RecvGivesUp(p) ==
  \E route \in Lines :
    /\ Dispatches(p, Server, route)
    /\ CallHandler(p, route)
    /\ ErrorClose(p)

\* Mutant: request_len is not set back.
AnsweredKeepsLen(c, r, a) ==
  [c EXCEPT !.request = r.buf, !.request_len = r.len,
            !.header_len = a[1], !.result_len = a[2], !.sent_len = 0]

\* The record once the answer is written; request_len is 0 but the buffer is
\* not cleared.
Answered(c, r, a) ==
  [c EXCEPT !.request = r.buf, !.request_len = 0,
            !.header_len = a[1], !.result_len = a[2], !.sent_len = 0]

RecvAnswers(p) ==
  \E route \in Lines :
    /\ Dispatches(p, Server, route)
    /\ CallHandler(p, route)
    /\ \E a \in Answers(route, MaxBody) :
         /\ con' = [con EXCEPT ![arg[p]] = Answered(@, Taken(p), a)]
         /\ inflight' = [inflight EXCEPT ![p] = @ + a[1] + a[2]]
    /\ UNCHANGED <<pcb, arg, cbs, live, pool, fault>>

\* con->server is NULL: the loop over server->routes reads the boot ROM at
\* address 0.  It finds no route there, or stops the core.
RecvWithoutServer(p) ==
  /\ \E route \in Lines \cup {Null} : Dispatches(p, Null, route)
  /\ UNCHANGED handled
  /\ \/ ErrorClose(p)
     \/ fault' = TRUE /\ UNCHANGED <<pcb, arg, cbs, live, con, inflight, pool>>

-----------------------------------------------------------------------------
(* The other callbacks *)

\* tcp_close_client_connection on a pcb whose input was all given back.
Closes(p) ==
  /\ \E to \in tcp_close(FALSE) : tcp_close_client_connection(p, arg[p], to)
  /\ UNCHANGED <<main, pool, fault, orphans, clientVars>>

\* The client's FIN: tcp_server_recv with no pbuf.
RecvFin(p) ==
  /\ pcb[p] = "open"
  /\ "recv" \in cbs[p]
  /\ pool > 0
  /\ Closes(p)

\* Mutant: the header's length is left out of the sum.
SentCountsBodyOnly(p, len) ==
  /\ pcb[p] = "open" /\ "sent" \in cbs[p] /\ pool > 0 /\ len \in 1 .. inflight[p]
  /\ IF Con(p).sent_len + len >= Con(p).result_len
     THEN Closes(p)
     ELSE /\ con' = [con EXCEPT ![arg[p]].sent_len = @ + len]
          /\ inflight' = [inflight EXCEPT ![p] = @ - len]
          /\ UNCHANGED <<main, pcb, arg, cbs, live, pool, fault, orphans, clientVars>>

tcp_server_sent(p, len) ==
  /\ pcb[p] = "open"
  /\ "sent" \in cbs[p]
  /\ pool > 0
  /\ len \in 1 .. inflight[p]
  /\ IF Con(p).sent_len + len >= Con(p).header_len + Con(p).result_len
     THEN Closes(p)
     ELSE /\ con' = [con EXCEPT ![arg[p]].sent_len = @ + len]
          /\ inflight' = [inflight EXCEPT ![p] = @ - len]
          /\ UNCHANGED <<main, pcb, arg, cbs, live, pool, fault, orphans, clientVars>>

\* Five seconds after accept, whatever the connection is doing.
tcp_server_poll(p) ==
  /\ pcb[p] = "open"
  /\ "poll" \in cbs[p]
  /\ Closes(p)

\* The client's RST: lwIP reports it and then frees the pcb.
ErrReset(p) ==
  /\ pcb[p] = "open"
  /\ "err" \in cbs[p]
  /\ pool > 0
  /\ tcp_close_client_connection(p, arg[p], "free")
  /\ UNCHANGED <<main, pool, fault, orphans, clientVars>>

\* lwIP has freed the pcb itself and reports ERR_ABRT: nothing is done.
ErrAbort(p) ==
  /\ pcb[p] = "open"
  /\ "err" \in cbs[p]
  /\ pcb' = [pcb EXCEPT ![p] = "free"]
  /\ arg' = [arg EXCEPT ![p] = Null]
  /\ cbs' = [cbs EXCEPT ![p] = {}]
  /\ inflight' = [inflight EXCEPT ![p] = 0]
  /\ orphans' = orphans \cup {arg[p]}
  /\ UNCHANGED <<main, live, con, pool, fault, clientVars>>

-----------------------------------------------------------------------------
Main ==
  \/ tcp_listen_ok \/ http_server_fails \/ tcp_arg_server \/ tcp_accept_server
  \/ tcp_arg_null \/ tcp_close_listener \/ Reboot

Recv(p) ==
  RecvAwaitsBody(p) \/ RecvNoRoute(p) \/ RecvGivesUp(p) \/ RecvAnswers(p) \/ RecvWithoutServer(p)

Lwip(p) ==
  \/ Syn(p) \/ NotAccepted(p) \/ CloseDone(p)
  \/ \E r \in Records : http_server_accept(p, r)
  \/ Recv(p) \/ RecvFin(p)
  \/ \E len \in 1 .. inflight[p] : tcp_server_sent(p, len)
  \/ tcp_server_poll(p) \/ ErrReset(p) \/ ErrAbort(p)

\* The core has stopped, or main has returned after http_server_open failed.
Stopped == (fault \/ main = "failed") /\ UNCHANGED vars

Next == (~fault /\ (Main \/ \E p \in Pcbs : Lwip(p))) \/ Stopped

Spec == Init /\ [][Next]_vars

\* lwIP's slow timer polls every connection and ends every handshake and
\* every close; clients and main owe nothing.
Fairness == \A p \in Pcbs :
  /\ WF_vars(~fault /\ tcp_server_poll(p))
  /\ WF_vars(~fault /\ NotAccepted(p))
  /\ WF_vars(~fault /\ CloseDone(p))

FairSpec == Spec /\ Fairness
-----------------------------------------------------------------------------
TypeOK ==
  /\ main \in {"start", "failed", "listening", "argset", "open", "argcleared", "closed"}
  /\ pcb \in [Pcbs -> {"free", "synrcvd", "open", "closing"}]
  /\ arg \in [Pcbs -> Records \cup {Server, Null}]
  /\ cbs \in [Pcbs -> SUBSET Callbacks]
  /\ live \subseteq Records
  /\ con \in [Records -> http_connection_t]
  /\ inflight \in [Pcbs -> Nat]
  /\ pool \in 0 .. PoolSize
  /\ fault \in BOOLEAN
  /\ script \in [Pcbs -> Scripts \cup {NoScript}]
  /\ pos \in [Pcbs -> Nat]
  /\ handled \in [Pcbs -> Seq(Request)]
  /\ orphans \subseteq live
  /\ early \in [Pcbs -> BOOLEAN]

\* What the asserts of lines 16 and 57 demand, for every callback lwIP may
\* call: its argument is an allocated record that names this very pcb.
CallbackArgValid ==
  \A p \in Pcbs : cbs[p] # {} =>
    /\ arg[p] \in live
    /\ con[arg[p]].pcb = p

\* Who owns what.  An open connection has a live record that names it and
\* all four callbacks; any other pcb has neither; and every record that was
\* not orphaned by ERR_ABRT belongs to an open connection.
OpenOwns ==
  \A p \in Pcbs : pcb[p] = "open" =>
    arg[p] \in live \ orphans /\ con[arg[p]].pcb = p /\ cbs[p] = Callbacks

OthersOwnNothing ==
  \A p \in Pcbs : pcb[p] # "open" => cbs[p] = {} /\ arg[p] \in {Server, Null}

AllOwned == \A r \in live \ orphans : \E p \in Pcbs : pcb[p] = "open" /\ arg[p] = r

Ownership == OpenOwns /\ OthersOwnNothing /\ AllOwned

\* No record leaks: each one allocated is the argument of the one connection
\* it was made for, or lwIP aborted that connection (tcp_server_err does
\* nothing on ERR_ABRT).  20 KB are at stake each time.
RecordsAccounted ==
  \A r \in live \ orphans : \E p \in Pcbs :
    arg[p] = r /\ cbs[p] = Callbacks /\ \A q \in Pcbs \ {p} : arg[q] # r

\* The strstr and strncmp of tcp_server_recv stop inside con->request,
\* however many segments were appended to it.
RequestTerminated == \A r \in Records : con[r].request[ReqSize - 1] = Nul

\* tcp_server_sent closes a connection with the acknowledgement of the last
\* byte, however the acknowledgements cut the answers: no connection waits
\* for one that has come.  And not before it, while the server has answered
\* one request: a second one takes over the counters of the first.
AllDoneMeansAcked ==
  [][\A p \in Pcbs : \A len \in 1 .. inflight[p] :
       tcp_server_sent(p, len) =>
         /\ len = inflight[p] => pcb'[p] # "open"
         /\ Len(handled[p]) = 1 /\ pcb'[p] # "open" => len = inflight[p]]_vars

\* The core is stopped only by a client whose SYN met the listener between
\* two of main's calls, before tcp_arg(server) or after tcp_arg(NULL).
FaultNeedsWindow == fault => \E p \in Pcbs : early[p] /\ pcb[p] = "open"

\* Receiving slots are lost only with a connection: when a step costs a
\* pbuf, that step also resets a connection and frees its record.
PbufLostOnlyWithConnection ==
  [][pool' < pool => \E p \in Pcbs : /\ pcb[p] = "open" /\ pcb'[p] = "free"
                                     /\ arg[p] \in live /\ arg[p] \notin live']_vars

\* No client can keep a pcb: its connection ends and its pcb becomes free
\* again, even if it never sends another frame.
PcbReturned == \A p \in Pcbs : pcb[p] # "free" ~> (pcb[p] = "free" \/ fault)
=============================================================================
