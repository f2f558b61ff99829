-------------------------- MODULE HttpFramingProofs --------------------------
(***************************************************************************)
(* Theorems about what the handlers are given and when an answer is done:  *)
(* what holds of each connection by itself, on top of the ownership that   *)
(* HttpServerProofs proves (no other connection's callback comes near its  *)
(* record).                                                                *)
(***************************************************************************)
EXTENDS HttpFraming, HttpServerProofs, FiniteSetTheorems

\* A callback for one pcb leaves every other connection as it was.
Same(q) ==
  /\ pcb'[q] = pcb[q] /\ inflight'[q] = inflight[q]
  /\ script'[q] = script[q] /\ pos'[q] = pos[q] /\ handled'[q] = handled[q]
  /\ pcb[q] = "open" => arg'[q] = arg[q] /\ con'[arg[q]] = con[arg[q]]

LEMMA CloseLocal ==
  ASSUME IInv, NEW p \in Pcbs, pcb[p] = "open", NEW to, tcp_close_client_connection(p, arg[p], to),
         NEW q \in Pcbs \ {p}, script'[q] = script[q], pos'[q] = pos[q], handled'[q] = handled[q]
  PROVE  Same(q)
<1>1. pcb[q] = "open" => con'[arg[q]] = con[arg[q]]
  BY OwnRecordOnly, OpenFacts DEF IInv, TypeOK, tcp_close_client_connection
<1> QED BY <1>1 DEF IInv, TypeOK, tcp_close_client_connection, Same

LEMMA RecvLocal ==
  ASSUME IInv, NEW p \in Pcbs, Recv(p), NEW q \in Pcbs \ {p}
  PROVE  Same(q)
<1>1. Receives(p) /\ pcb[p] = "open"
  BY DEF Recv, RecvAwaitsBody, RecvNoRoute, RecvGivesUp, RecvAnswers, RecvWithoutServer,
         Dispatches, Receives
<1>2. script'[q] = script[q] /\ pos'[q] = pos[q]
  BY <1>1 DEF Receives, IInv, TypeOK
<1>3. handled'[q] = handled[q]
  BY DEF Recv, RecvAwaitsBody, RecvNoRoute, RecvGivesUp, RecvAnswers, RecvWithoutServer,
         CallHandler, IInv, TypeOK
<1>4. CASE ErrorClose(p)
  BY <1>1, <1>2, <1>3, <1>4, CloseLocal DEF ErrorClose
<1>5. CASE ~ErrorClose(p)
  <2>1. UNCHANGED <<pcb, arg>> /\ inflight'[q] = inflight[q]
    BY <1>5 DEF Recv, RecvAwaitsBody, RecvNoRoute, RecvGivesUp, RecvAnswers, RecvWithoutServer,
                IInv, TypeOK
  <2>2. con' = con \/ \E c : con' = [con EXCEPT ![arg[p]] = c]
    BY <1>5 DEF Recv, RecvAwaitsBody, RecvNoRoute, RecvGivesUp, RecvAnswers, RecvWithoutServer
  <2>3. pcb[q] = "open" => con'[arg[q]] = con[arg[q]]
    <3> SUFFICES ASSUME pcb[q] = "open" PROVE con'[arg[q]] = con[arg[q]]
      OBVIOUS
    <3>1. arg[q] \in Records /\ arg[q] # arg[p]
      BY <1>1, OwnRecordOnly, OpenFacts
    <3>2. con \in [Records -> http_connection_t]
      BY DEF IInv, TypeOK
    <3> QED BY <2>2, <3>1, <3>2
  <2> QED BY <1>2, <1>3, <2>1, <2>3 DEF Same
<1> QED BY <1>4, <1>5

LEMMA LwipLocal ==
  ASSUME IInv, NEW p \in Pcbs, Lwip(p), NEW q \in Pcbs \ {p}
  PROVE  Same(q)
<1> USE DEF clientVars, conVars
<1>1. CASE Syn(p) \/ NotAccepted(p) \/ CloseDone(p) \/ ErrAbort(p)
  <2>1. UNCHANGED <<con, inflight>> \/ ErrAbort(p)
    BY <1>1 DEF Syn, NotAccepted, CloseDone, Dropped
  <2> QED
    BY <1>1, <2>1 DEF Syn, NotAccepted, CloseDone, Dropped, ErrAbort, Same, IInv, TypeOK
<1>2. ASSUME NEW r \in Records, http_server_accept(p, r) PROVE Same(q)
  <2>1. pcb[q] = "open" => con'[arg[q]] = con[arg[q]]
    BY <1>2, OpenFacts DEF http_server_accept, IInv, TypeOK
  <2> QED BY <1>2, <2>1 DEF http_server_accept, Same, IInv, TypeOK
<1>3. CASE Recv(p)
  BY <1>3, RecvLocal
<1>4. CASE (RecvFin(p) \/ tcp_server_poll(p))
  BY <1>4, CloseLocal DEF RecvFin, tcp_server_poll, Closes
<1>5. ASSUME NEW len \in 1 .. inflight[p], tcp_server_sent(p, len) PROVE Same(q)
  <2>1. CASE Closes(p)
    BY <1>5, <2>1, CloseLocal DEF Closes, tcp_server_sent
  <2>2. CASE ~Closes(p)
    <3>1. /\ con' = [con EXCEPT ![arg[p]].sent_len = @ + len]
          /\ inflight' = [inflight EXCEPT ![p] = @ - len]
          /\ UNCHANGED <<pcb, arg, script, pos, handled>> /\ pcb[p] = "open"
      BY <1>5, <2>2 DEF tcp_server_sent
    <3>2. pcb[q] = "open" => con'[arg[q]] = con[arg[q]]
      BY <3>1, OwnRecordOnly, OpenFacts DEF IInv, TypeOK
    <3> QED BY <3>1, <3>2 DEF Same, IInv, TypeOK
  <2> QED BY <2>1, <2>2
<1>6. CASE ErrReset(p)
  BY <1>6, CloseLocal DEF ErrReset
<1> QED BY <1>1, <1>2, <1>3, <1>4, <1>5, <1>6 DEF Lwip

\* What a callback may append to the history of its connection.
LEMMA HandledSteps ==
  ASSUME IInv, NEW p \in Pcbs, Lwip(p)
  PROVE  \/ handled'[p] = handled[p]
         \/ Syn(p) /\ handled'[p] = <<>>
         \/ \E route \in Lines :
              /\ Dispatches(p, Server, route)
              /\ handled'[p] = Append(handled[p],
                   [line |-> Taken(p).buf[0], route |-> route, body |-> BodyText(Taken(p))])
<1> USE DEF clientVars
<1>1. CASE Syn(p)
  BY <1>1 DEF Syn, IInv, TypeOK
<1>2. CASE RecvGivesUp(p) \/ RecvAnswers(p)
  <2>1. PICK route \in Lines : Dispatches(p, Server, route) /\ CallHandler(p, route)
    BY <1>2 DEF RecvGivesUp, RecvAnswers
  <2>2. handled'[p] = Append(handled[p],
          [line |-> Taken(p).buf[0], route |-> route, body |-> BodyText(Taken(p))])
    BY <2>1 DEF CallHandler, IInv, TypeOK
  <2> QED BY <2>1, <2>2
<1>3. CASE RecvAwaitsBody(p) \/ RecvNoRoute(p) \/ RecvWithoutServer(p)
  BY <1>3 DEF RecvAwaitsBody, RecvNoRoute, RecvWithoutServer
<1>4. CASE NotAccepted(p) \/ CloseDone(p) \/ RecvFin(p) \/ tcp_server_poll(p) \/ ErrReset(p) \/ ErrAbort(p)
  BY <1>4 DEF NotAccepted, CloseDone, Dropped, RecvFin, tcp_server_poll, ErrReset, ErrAbort, Closes
<1>5. ASSUME NEW r \in Records, http_server_accept(p, r) PROVE handled' = handled
  BY <1>5 DEF http_server_accept
<1>6. ASSUME NEW len \in 1 .. inflight[p], tcp_server_sent(p, len) PROVE handled' = handled
  BY <1>6 DEF tcp_server_sent, Closes
<1> QED BY <1>1, <1>2, <1>3, <1>4, <1>5, <1>6 DEF Lwip, Recv

\* main's calls leave the connections alone, but for a reboot, after which
\* there are none.
LEMMA MainLocal ==
  ASSUME IInv, Main
  PROVE  \/ \A q \in Pcbs : Same(q)
         \/ \A q \in Pcbs : pcb'[q] = "free" /\ inflight'[q] = 0 /\ handled'[q] = <<>>
<1>1. CASE Reboot
  BY <1>1 DEF Reboot
<1>2. CASE ~Reboot
  BY <1>2 DEF Main, MainStep, tcp_listen_ok, http_server_fails, tcp_arg_server, tcp_accept_server,
              tcp_arg_null, tcp_close_listener, conVars, clientVars, Same
<1> QED BY <1>1, <1>2

-----------------------------------------------------------------------------
\* The bytes of an answer that are not acknowledged are on their way.
AckOf(p) ==
  /\ pcb[p] # "open" => inflight[p] = 0
  /\ pcb[p] = "synrcvd" => handled[p] = <<>>
  /\ pcb[p] = "open" =>
       /\ handled[p] = <<>> => inflight[p] = 0
       /\ Con(p).sent_len + inflight[p] >= Con(p).header_len + Con(p).result_len
       /\ Len(handled[p]) = 1 =>
            Con(p).sent_len + inflight[p] = Con(p).header_len + Con(p).result_len

Acks == \A p \in Pcbs : AckOf(p)

LEMMA SameAcks ==
  ASSUME NEW q \in Pcbs, Same(q), AckOf(q)
  PROVE  AckOf(q)'
BY DEF Same, AckOf, Con

LEMMA CloseAcks ==
  ASSUME IInv, NEW p \in Pcbs, NEW to \in {"free", "closing"}, tcp_close_client_connection(p, arg[p], to)
  PROVE  AckOf(p)'
BY DEF tcp_close_client_connection, AckOf, IInv, TypeOK

\* What an answer puts into the record.
LEMMA AnsweredLengths ==
  ASSUME NEW c \in http_connection_t, NEW r, NEW a
  PROVE  /\ Answered(c, r, a).sent_len = 0 /\ Answered(c, r, a).request_len = 0
         /\ Answered(c, r, a).header_len = a[1] /\ Answered(c, r, a).result_len = a[2]
BY DEF Answered, http_connection_t

LEMMA RecvAcks ==
  ASSUME IInv, Acks, NEW p \in Pcbs, Recv(p)
  PROVE  AckOf(p)'
<1>0. Receives(p) /\ pcb[p] = "open" /\ AckOf(p)
  BY DEF Acks, Recv, RecvAwaitsBody, RecvNoRoute, RecvGivesUp, RecvAnswers, RecvWithoutServer,
         Dispatches, Receives
<1>1. CASE ErrorClose(p)
  BY <1>1, CloseAcks DEF ErrorClose, tcp_close
<1>2. CASE RecvAwaitsBody(p)
  <2> DEFINE kept == [con[arg[p]] EXCEPT !.request = Taken(p).buf, !.request_len = Taken(p).len]
  <2>1. con' = [con EXCEPT ![arg[p]] = kept] /\ UNCHANGED <<pcb, arg, inflight, handled>>
    BY <1>2 DEF RecvAwaitsBody
  <2>2. /\ kept.sent_len = Con(p).sent_len /\ kept.header_len = Con(p).header_len
        /\ kept.result_len = Con(p).result_len
    BY <1>0, OpenFacts DEF Con, http_connection_t
  <2> HIDE DEF kept
  <2>3. Con(p)' = kept
    BY <1>0, <2>1, OpenFacts DEF Con, IInv, TypeOK
  <2> QED BY <1>0, <2>1, <2>2, <2>3 DEF AckOf
<1>3. CASE RecvAnswers(p)
  <2>1. PICK route \in Lines :
          /\ Dispatches(p, Server, route) /\ CallHandler(p, route)
          /\ \E a \in Answers(route, MaxBody) :
               /\ con' = [con EXCEPT ![arg[p]] = Answered(@, Taken(p), a)]
               /\ inflight' = [inflight EXCEPT ![p] = @ + a[1] + a[2]]
    BY <1>3 DEF RecvAnswers
  <2>2. PICK a \in Answers(route, MaxBody) :
          /\ con' = [con EXCEPT ![arg[p]] = Answered(@, Taken(p), a)]
          /\ inflight' = [inflight EXCEPT ![p] = @ + a[1] + a[2]]
    BY <2>1
  <2>3. a[1] \in Nat /\ a[2] \in Nat
    <3>1. a \in {<<1, 0>>} \cup ({1} \X (1 .. MaxBody))
      BY DEF Answers
    <3> QED BY <3>1, SizesAssumption
  <2>4. UNCHANGED <<pcb, arg>> /\ inflight[p] \in Nat /\ inflight'[p] = inflight[p] + a[1] + a[2]
    BY <1>3, <2>2 DEF RecvAnswers, IInv, TypeOK
  <2>5. Con(p)' = Answered(Con(p), Taken(p), a)
    BY <1>0, <2>2, <2>4, OpenFacts DEF Con, IInv, TypeOK
  <2>6. /\ Con(p)'.sent_len = 0 /\ Con(p)'.header_len = a[1] /\ Con(p)'.result_len = a[2]
    BY <1>0, <2>5, OpenFacts, AnsweredLengths
  <2>7. handled[p] \in Seq(Request) /\ handled'[p] # <<>> /\ Len(handled'[p]) = Len(handled[p]) + 1
    BY <2>1 DEF CallHandler, IInv, TypeOK
  <2>8. Len(handled'[p]) = 1 => inflight[p] = 0
    <3> DEFINE m == Len(handled[p])
               n == Len(handled'[p])
    <3>1. m \in Nat /\ (handled[p] # <<>> => m # 0) /\ n = m + 1
      BY <2>7, EmptySeq, LenProperties
    <3>2. n = 1 => handled[p] = <<>>
      <4> HIDE DEF m, n
      <4> QED BY <3>1
    <3> QED BY <1>0, <3>2 DEF AckOf
  <2> QED BY <1>0, <2>3, <2>4, <2>6, <2>7, <2>8 DEF AckOf
<1>4. CASE RecvWithoutServer(p) /\ ~ErrorClose(p)
  <2>1. UNCHANGED <<pcb, arg, con, inflight, handled>>
    BY <1>4 DEF RecvWithoutServer
  <2> QED BY <1>0, <2>1 DEF AckOf, Con
<1> QED BY <1>1, <1>2, <1>3, <1>4 DEF Recv, RecvNoRoute, RecvGivesUp

LEMMA LwipAcks ==
  ASSUME IInv, Acks, NEW p \in Pcbs, Lwip(p)
  PROVE  AckOf(p)'
<1> USE DEF clientVars, conVars
<1>0. AckOf(p)
  BY DEF Acks
<1>1. CASE Syn(p) \/ NotAccepted(p) \/ CloseDone(p) \/ ErrAbort(p)
  BY <1>0, <1>1 DEF Syn, NotAccepted, CloseDone, Dropped, ErrAbort, AckOf, IInv, TypeOK
<1>2. ASSUME NEW r \in Records, http_server_accept(p, r) PROVE AckOf(p)'
  <2>1. /\ pcb'[p] = "open" /\ inflight'[p] = 0 /\ handled'[p] = <<>>
        /\ Con(p)' = [Zeroed EXCEPT !.server = arg[p], !.pcb = p]
    BY <1>0, <1>2 DEF http_server_accept, AckOf, Con, IInv, TypeOK
  <2>2. Con(p)'.sent_len = 0 /\ Con(p)'.header_len = 0 /\ Con(p)'.result_len = 0
    BY <2>1 DEF Zeroed
  <2> QED BY <2>1, <2>2 DEF AckOf
<1>3. CASE Recv(p)
  BY <1>3, RecvAcks
<1>4. CASE RecvFin(p) \/ tcp_server_poll(p) \/ ErrReset(p)
  BY <1>4, CloseAcks DEF RecvFin, tcp_server_poll, ErrReset, Closes, tcp_close
<1>5. ASSUME NEW len \in 1 .. inflight[p], tcp_server_sent(p, len) PROVE AckOf(p)'
  <2>1. CASE Closes(p)
    BY <1>5, <2>1, CloseAcks DEF Closes, tcp_close
  <2>2. CASE ~Closes(p)
    <3> DEFINE counted == [con[arg[p]] EXCEPT !.sent_len = @ + len]
    <3>1. /\ con' = [con EXCEPT ![arg[p]] = counted]
          /\ inflight' = [inflight EXCEPT ![p] = @ - len]
          /\ UNCHANGED <<pcb, arg, handled>> /\ pcb[p] = "open"
          /\ Con(p).sent_len + len < Con(p).header_len + Con(p).result_len
      <4>1. Con(p) \in http_connection_t /\ inflight[p] \in Nat
        BY <1>5, OpenFacts DEF tcp_server_sent, IInv, TypeOK
      <4> QED BY <1>5, <2>2, <4>1 DEF tcp_server_sent, http_connection_t
    <3>2. /\ Con(p) \in http_connection_t
          /\ counted.sent_len = Con(p).sent_len + len /\ counted.header_len = Con(p).header_len
          /\ counted.result_len = Con(p).result_len
      BY <3>1, OpenFacts DEF Con, http_connection_t
    <3> HIDE DEF counted
    <3>3. Con(p)' = counted
      BY <3>1, OpenFacts DEF Con, IInv, TypeOK
    <3>4. inflight[p] \in Nat /\ inflight'[p] = inflight[p] - len
      BY <3>1 DEF IInv, TypeOK
    <3>5. Con(p).sent_len \in Nat /\ Con(p).header_len \in Nat /\ Con(p).result_len \in Nat
      BY <3>2 DEF http_connection_t
    <3> QED BY <1>0, <3>1, <3>2, <3>3, <3>4, <3>5 DEF AckOf
  <2> QED BY <2>1, <2>2
<1> QED BY <1>1, <1>2, <1>3, <1>4, <1>5 DEF Lwip

LEMMA NextAcks ==
  ASSUME IInv, Acks, [Next]_vars
  PROVE  Acks'
<1>1. CASE UNCHANGED vars
  BY <1>1 DEF vars, Acks, AckOf, Con
<1>2. CASE Main
  BY <1>2, MainLocal, SameAcks DEF Acks, AckOf
<1>3. ASSUME NEW p \in Pcbs, Lwip(p) PROVE Acks'
  BY <1>3, LwipLocal, LwipAcks, SameAcks DEF Acks
<1> QED BY <1>1, <1>2, <1>3 DEF Next, Stopped

LEMMA AcksInvariance == Spec => []Acks
<1>1. Init => Acks
  BY DEF Init, Acks, AckOf
<1> QED BY <1>1, NextAcks, Invariance, PTL DEF Spec

\* No connection waits for an acknowledgement that has come, and the first
\* answer of a connection is acknowledged to its last byte before the
\* connection is closed, whatever pieces it is acknowledged in.
THEOREM ClosedWhenAcked == Spec => AllDoneMeansAcked
<1> DEFINE A == \A p \in Pcbs : \A len \in 1 .. inflight[p] :
       tcp_server_sent(p, len) =>
         /\ len = inflight[p] => pcb'[p] # "open"
         /\ Len(handled[p]) = 1 /\ pcb'[p] # "open" => len = inflight[p]
<1>1. ASSUME IInv, Acks PROVE A
  <2> SUFFICES ASSUME NEW p \in Pcbs, NEW len \in 1 .. inflight[p], tcp_server_sent(p, len)
               PROVE  /\ len = inflight[p] => pcb'[p] # "open"
                      /\ Len(handled[p]) = 1 /\ pcb'[p] # "open" => len = inflight[p]
    OBVIOUS
  <2>1. pcb[p] = "open" /\ AckOf(p) /\ inflight[p] \in Nat
    BY <1>1 DEF tcp_server_sent, Acks, IInv, TypeOK
  <2>2. Con(p).sent_len \in Nat /\ Con(p).header_len \in Nat /\ Con(p).result_len \in Nat
    BY <1>1, <2>1, OpenFacts DEF http_connection_t
  <2>3. CASE Con(p).sent_len + len >= Con(p).header_len + Con(p).result_len
    <3>1. pcb'[p] # "open"
      BY <1>1, <2>3 DEF tcp_server_sent, Closes, tcp_close, tcp_close_client_connection, IInv, TypeOK
    <3> QED BY <2>1, <2>2, <2>3, <3>1 DEF AckOf
  <2>4. CASE ~(Con(p).sent_len + len >= Con(p).header_len + Con(p).result_len)
    <3>1. pcb' = pcb
      BY <2>4 DEF tcp_server_sent
    <3> QED BY <2>1, <2>2, <2>4, <3>1 DEF AckOf
  <2> QED BY <2>3, <2>4
<1>2. IInv /\ Acks => [A]_vars
  BY <1>1
<1> QED BY <1>2, Invariance, AcksInvariance, PTL DEF AllDoneMeansAcked

-----------------------------------------------------------------------------
LEMMA FourLong ==
  ASSUME NEW a, NEW b, NEW c, NEW d
  PROVE  DOMAIN <<a, b, c, d>> = 1 .. 4
OBVIOUS

\* In the table, no route stands before one that it is a prefix of.
LEMMA FirstIsSpecific ==
  ASSUME NEW line, NEW n \in DOMAIN HTTP_ROUTES,
         Matches(HTTP_ROUTES[n], line), HTTP_ROUTES[n] # RouteOf(line)
  PROVE  ~Matches(RouteOf(line), HTTP_ROUTES[n])
<1> DEFINE hits == {k \in DOMAIN HTTP_ROUTES : Matches(HTTP_ROUTES[k], line)}
<1>0. /\ DOMAIN HTTP_ROUTES = 1 .. 4
      /\ HTTP_ROUTES[1] = "GET /fs" /\ HTTP_ROUTES[2] = "POST /fs" /\ HTTP_ROUTES[3] = "GET /led"
      /\ HTTP_ROUTES[4] = "GET /"
  <2> USE DEF HTTP_ROUTES, http_route_get_root, http_route_get_fs, http_route_post_fs,
              http_route_get_led
  <2>2. /\ HTTP_ROUTES[1] = "GET /fs" /\ HTTP_ROUTES[2] = "POST /fs" /\ HTTP_ROUTES[3] = "GET /led"
        /\ HTTP_ROUTES[4] = "GET /"
    OBVIOUS
  <2>3. DOMAIN HTTP_ROUTES = 1 .. 4
    BY FourLong
  <2> HIDE DEF HTTP_ROUTES
  <2> QED BY <2>2, <2>3
<1> HIDE DEF HTTP_ROUTES
<1>1. n \in hits /\ n \in 1 .. 4
  BY <1>0
<1>2. hits \subseteq 1 .. 4
  BY <1>0
<1>3. Min(hits) \in hits /\ Min(hits) <= n
  <2>1. hits \in SUBSET Nat /\ hits # {}
    BY <1>1, <1>2
  <2> HIDE DEF hits
  <2> QED BY <1>1, <2>1, MinOfNat
<1>4. RouteOf(line) = HTTP_ROUTES[Min(hits)]
  BY <1>1 DEF RouteOf
<1> DEFINE m == Min(hits)
<1> HIDE DEF hits
<1>5. m \in 1 .. 4 /\ m <= n /\ RouteOf(line) = HTTP_ROUTES[m]
  BY <1>2, <1>3, <1>4
<1> HIDE DEF m
<1>6. m \in 1 .. 3
  <2>1. m # n
    BY <1>5
  <2> QED BY <1>1, <1>5, <2>1
<1>7. HTTP_ROUTES[m] # "GET /"
  <2>1. m = 1 \/ m = 2 \/ m = 3
    BY <1>6
  <2> QED BY <1>0, <2>1
<1> QED BY <1>5, <1>7 DEF Matches

Routed == \A p \in Pcbs : \A k \in DOMAIN handled[p] : handled[p][k].route = RouteOf(handled[p][k].line)

LEMMA NextRouted ==
  ASSUME IInv, Routed, [Next]_vars
  PROVE  Routed'
<1>1. CASE UNCHANGED vars
  BY <1>1 DEF vars, Routed
<1>2. CASE Main
  BY <1>2, MainLocal DEF Routed, Same
<1>3. ASSUME NEW p \in Pcbs, Lwip(p) PROVE Routed'
  <2>1. \A q \in Pcbs \ {p} : handled'[q] = handled[q]
    BY <1>3, LwipLocal DEF Same
  <2>2. \A k \in DOMAIN handled'[p] : handled'[p][k].route = RouteOf(handled'[p][k].line)
    <3>1. CASE handled'[p] = handled[p] \/ handled'[p] = <<>>
      BY <3>1 DEF Routed
    <3>2. ASSUME NEW route \in Lines, Dispatches(p, Server, route),
                 handled'[p] = Append(handled[p],
                   [line |-> Taken(p).buf[0], route |-> route, body |-> BodyText(Taken(p))])
          PROVE  \A k \in DOMAIN handled'[p] : handled'[p][k].route = RouteOf(handled'[p][k].line)
      <4> DEFINE new == [line |-> Taken(p).buf[0], route |-> route, body |-> BodyText(Taken(p))]
      <4>1. new.route = RouteOf(new.line)
        BY <3>2 DEF Dispatches
      <4>2. handled[p] \in Seq(Request)
        BY DEF IInv, TypeOK
      <4> HIDE DEF new
      <4>3. handled'[p] = Append(handled[p], new)
        BY <3>2 DEF new
      <4> QED BY <4>1, <4>2, <4>3 DEF Routed
    <3> QED BY <1>3, <3>1, <3>2, HandledSteps
  <2> QED BY <2>1, <2>2 DEF Routed
<1> QED BY <1>1, <1>2, <1>3 DEF Next, Stopped

\* Whatever a client sends, each request is given to the handler of the most
\* specific route it matches.
THEOREM MostSpecificRoute == Spec => []SpecificRouteWins
<1>1. Init => Routed
  BY DEF Init, Routed
<1>2. Spec => []Routed
  BY <1>1, NextRouted, Invariance, PTL DEF Spec
<1>3. Routed => SpecificRouteWins
  BY FirstIsSpecific DEF Routed, SpecificRouteWins
<1> QED BY <1>2, <1>3, PTL
-----------------------------------------------------------------------------
(* The requests of a stream, when it is one that WellCut is about. *)

LEMMA StartFacts ==
  ASSUME NEW s \in Seq(Token), NEW i \in Starts(s)
  PROVE  /\ Len(s) \in Nat /\ i \in 1 .. Len(s) /\ s[i] \in Lines
         /\ End(s, i) \in i .. Len(s)
         /\ \A j \in Starts(s) : j > i => j > End(s, i)
         /\ End(s, i) = Len(s) \/ End(s, i) + 1 \in Starts(s)
<1> DEFINE next == {j \in Starts(s) : j > i} \cup {Len(s) + 1}
<1>1. Len(s) \in Nat /\ DOMAIN s = 1 .. Len(s) /\ i \in 1 .. Len(s) /\ s[i] \in Lines
  BY DEF Starts
<1>2. next \in SUBSET Nat /\ Len(s) + 1 \in next /\ \A j \in next : j > i
  BY <1>1 DEF Starts
<1>3. Min(next) \in next /\ \A j \in next : Min(next) <= j
  <2> HIDE DEF next
  <2> QED BY <1>2, MinOfNat
<1>4. End(s, i) = Min(next) - 1
  BY DEF End
<1> DEFINE m == Min(next)
<1>5. /\ m \in Nat /\ m > i /\ m <= Len(s) + 1 /\ End(s, i) = m - 1
      /\ m = Len(s) + 1 \/ m \in Starts(s)
      /\ \A j \in Starts(s) : j > i => j >= m
  BY <1>1, <1>2, <1>3, <1>4
<1> HIDE DEF m, next
<1>6. \A j \in Starts(s) : j \in Nat
  BY <1>1 DEF Starts
<1> QED BY <1>1, <1>5, <1>6

\* Request i of s is one that the server can read.
Readable(s, i) ==
  LET e == End(s, i)
      h == HeaderEnd(s, i)
  IN  /\ h \in i + 1 .. e /\ s[h] = Marker /\ \A j \in i .. h - 1 : s[j] # Marker
      /\ (\E j \in i .. h : s[j] = ContentLength) => h < e
      /\ h < e => s[h + 1] # Marker
      /\ h - i + (IF h < e THEN 2 ELSE 1) < ReqSize

LEMMA WellCutFacts ==
  ASSUME NEW c \in Script, WellCut(c), NEW i \in Starts(c.text)
  PROVE  LET s == c.text
             e == End(s, i)
         IN  /\ Readable(s, i)
             /\ e \in c.cuts
             /\ \A k \in c.cuts : k \in i .. e - 1 =>
                  k = HeaderEnd(s, i) /\ \E j \in i .. HeaderEnd(s, i) : s[j] = ContentLength
             /\ \A j \in Starts(s) : j < i => End(s, j) - j <= e - i \/ e - i >= ReqSize - 2
<1> DEFINE s == c.text
           e == End(s, i)
           h == HeaderEnd(s, i)
           marks == {j \in i .. e : s[j] = Marker}
<1>1. s \in Seq(Token)
  BY DEF Script
<1>2. i \in 1 .. Len(s) /\ e \in i .. Len(s) /\ s[i] \in Lines /\ Len(s) \in Nat
  BY <1>1, StartFacts
<1>3. /\ \E j \in i .. e : s[j] = Marker
      /\ e \in c.cuts
      /\ \A k \in c.cuts : k \in i .. e - 1 => k = h /\ \E j \in i .. h : s[j] = ContentLength
      /\ (\E j \in i .. h : s[j] = ContentLength) => h < e
      /\ h < e => s[h + 1] # Marker
      /\ h - i + (IF h < e THEN 2 ELSE 1) < ReqSize
      /\ \A j \in Starts(s) : j < i => End(s, j) - j <= e - i \/ e - i >= ReqSize - 2
  BY DEF WellCut
<1>4. marks \in SUBSET Nat /\ marks # {}
  BY <1>2, <1>3
<1>5. Min(marks) \in marks /\ \A j \in marks : Min(marks) <= j
  <2> HIDE DEF marks
  <2> QED BY <1>4, MinOfNat
<1>6. h \in marks /\ \A j \in marks : h <= j
  BY <1>5 DEF HeaderEnd
<1> HIDE DEF h, e, s
<1>7. h \in i .. e /\ s[h] = Marker /\ h # i
  BY <1>2, <1>6 DEF Lines, Marker
<1>8. \A j \in i .. h - 1 : s[j] # Marker
  BY <1>2, <1>6, <1>7
<1>9. h \in i + 1 .. e
  BY <1>2, <1>7
<1> QED BY <1>3, <1>7, <1>8, <1>9 DEF Readable, h, e, s

\* The requests of s that begin in its first n tokens.
Arrived(s, n) == {j \in Starts(s) : j <= n}

\* A request is counted with its first token.
LEMMA RankFacts ==
  ASSUME NEW s \in Seq(Token), NEW i \in Starts(s)
  PROVE  /\ Rank(s, i) = Cardinality(Arrived(s, i - 1)) + 1
         /\ \A n \in i .. End(s, i) : Cardinality(Arrived(s, n)) = Rank(s, i)
         /\ IsFiniteSet(Arrived(s, i - 1))
<1>1. /\ Len(s) \in Nat /\ i \in 1 .. Len(s) /\ End(s, i) \in i .. Len(s)
      /\ \A j \in Starts(s) : j > i => j > End(s, i)
  BY StartFacts
<1>2. Starts(s) \subseteq 1 .. Len(s)
  BY DEF Starts
<1>3. \A n \in Nat : IsFiniteSet(Arrived(s, n))
  <2>1. IsFiniteSet(1 .. Len(s))
    BY <1>1, FS_Interval
  <2>2. \A n \in Nat : Arrived(s, n) \subseteq 1 .. Len(s)
    BY <1>2 DEF Arrived
  <2> QED BY <2>1, <2>2, FS_Subset
<1>4. Arrived(s, i) = Arrived(s, i - 1) \cup {i} /\ i \notin Arrived(s, i - 1)
  BY <1>1, <1>2 DEF Arrived
<1>5. IsFiniteSet(Arrived(s, i - 1))
  BY <1>1, <1>3
<1>6. Cardinality(Arrived(s, i - 1) \cup {i}) = Cardinality(Arrived(s, i - 1)) + 1
  BY <1>4, <1>5, FS_AddElement
<1>7. \A n \in i .. End(s, i) : Arrived(s, n) = Arrived(s, i)
  BY <1>1, <1>2 DEF Arrived
<1>8. Rank(s, i) = Cardinality(Arrived(s, i))
  BY DEF Rank, Arrived
<1> QED BY <1>4, <1>5, <1>6, <1>7, <1>8

-----------------------------------------------------------------------------
(* con->request while request i of s is read into it. *)

USE DEF Index, Buffer

\* How much of request i the buffer holds in the end.
Kept(s, i) ==
  IF End(s, i) - i + 1 > ReqSize - 1 THEN ReqSize - 1 ELSE End(s, i) - i + 1

\* The first n cells are the first n tokens of request i.
Holds(buf, s, i, n) == \A k \in 0 .. n - 1 : buf[k] = s[i + k]

\* All of it that is kept, and behind it a NUL.
HoldsWhole(buf, s, i) == Holds(buf, s, i, Kept(s, i)) /\ buf[Kept(s, i)] = Nul

Ended(buf) == buf[ReqSize - 1] = Nul

\* The segment is the tokens a to b of s.
Piece(seg, s, a, b) == Len(seg) = b - a + 1 /\ \A k \in 1 .. Len(seg) : seg[k] = s[a - 1 + k]

Announces(s, a, b) == \E j \in a .. b : s[j] = ContentLength

\* How a buffer differs from what it was before: beyond cell n not at all, or
\* by no more text.
SameBehind(new, old, n) == \A k \in Index : k > n => new[k] = old[k]
EndsBehind(new, old, n) == \A k \in Index : new[k] # Nul => k <= n \/ old[k] # Nul
AddsNothing(new, old)   == \A k \in Index : new[k] # Nul => old[k] # Nul

\* What an earlier request left is not longer than request i.
NoRest(buf, s, i) ==
  \A k \in Index : buf[k] # Nul => k <= End(s, i) - i \/ End(s, i) - i >= ReqSize - 2

\* The buffer holds len tokens of request i, and the segment is the rest of it.
Completes(s, i, buf, len, seg) ==
  /\ s \in Seq(Token) /\ i \in Starts(s) /\ buf \in Buffer /\ Ended(buf)
  /\ len \in 0 .. ReqSize - 1 /\ i + len <= End(s, i) /\ Holds(buf, s, i, len)
  /\ NoRest(buf, s, i) /\ seg \in Seq(Token) /\ Piece(seg, s, i + len, End(s, i))

\* Whether the request comes in one segment or this is its second, the buffer
\* then holds it and a NUL behind it.
LEMMA StoresWhole ==
  ASSUME NEW s, NEW i, NEW buf, NEW len, NEW seg, Completes(s, i, buf, len, seg),
         NEW raw, raw = Stored(buf, len, seg), NEW n, n = RxLen(len, seg)
  PROVE  /\ len + n = Kept(s, i)
         /\ HoldsWhole(raw, s, i)
         /\ EndsBehind(raw, buf, End(s, i) - i)
<1> DEFINE e == End(s, i)
           m == Kept(s, i)
<1>00. /\ s \in Seq(Token) /\ i \in Starts(s) /\ buf \in Buffer /\ Ended(buf)
       /\ len \in 0 .. ReqSize - 1 /\ i + len <= e /\ Holds(buf, s, i, len)
       /\ NoRest(buf, s, i) /\ seg \in Seq(Token) /\ Piece(seg, s, i + len, e)
  BY DEF Completes
<1>0. Len(seg) = e - (i + len) + 1 /\ \A k \in 1 .. Len(seg) : seg[k] = s[i + len - 1 + k]
  <2>1. Len(seg) = e - (i + len) + 1
    BY <1>00 DEF Piece
  <2>2. i \in Nat /\ len \in Nat
    BY <1>00, StartFacts, ReqSizeAssumption
  <2>3. \A k \in 1 .. Len(seg) : seg[k] = s[i + len - 1 + k]
    <3> DEFINE a == i + len
    <3>1. Piece(seg, s, a, e) /\ a \in Nat
      BY <1>00, <2>2
    <3> HIDE DEF a
    <3>2. \A k \in 1 .. Len(seg) : seg[k] = s[a - 1 + k]
      BY <3>1 DEF Piece
    <3> QED BY <2>2, <3>2 DEF a
  <2> QED BY <2>1, <2>3
<1>1. i \in Nat /\ e \in Nat /\ ReqSize \in Nat \ {0} /\ len \in Nat /\ Len(seg) \in Nat
      /\ i + len <= e /\ Len(seg) = e - i + 1 - len
  <2>1. i \in 1 .. Len(s) /\ e \in i .. Len(s) /\ Len(s) \in Nat /\ i + len <= e
    BY <1>00, StartFacts
  <2> DEFINE l == Len(seg)
  <2>2. l = e - (i + len) + 1 /\ len \in Nat /\ ReqSize \in Nat \ {0}
    BY <1>0, <1>00, ReqSizeAssumption
  <2>3. i \in Nat /\ e \in Nat /\ i + len <= e
    <3> HIDE DEF e
    <3> QED BY <2>1
  <2> HIDE DEF e, l
  <2>4. l \in Nat /\ l = e - i + 1 - len
    BY <2>2, <2>3
  <2> QED BY <2>2, <2>3, <2>4 DEF l
<1>2. len + n = m /\ n \in Nat
  <2> DEFINE l == Len(seg)
  <2>1. n = IF l > ReqSize - len - 1 THEN ReqSize - len - 1 ELSE l
    BY DEF RxLen
  <2>2. m = IF e - i + 1 > ReqSize - 1 THEN ReqSize - 1 ELSE e - i + 1
    BY DEF Kept
  <2>3. l = e - i + 1 - len /\ l \in Nat /\ len <= ReqSize - 1
    BY <1>1, <1>00
  <2> HIDE DEF e, l, m
  <2> QED BY <1>1, <2>1, <2>2, <2>3
<1>3. m \in Index /\ m >= len /\ (m = ReqSize - 1 \/ (m = e - i + 1 /\ e - i < ReqSize - 2))
  <2>1. m = IF e - i + 1 > ReqSize - 1 THEN ReqSize - 1 ELSE e - i + 1
    BY DEF Kept
  <2>2. len <= ReqSize - 1
    BY <1>1, <1>00
  <2> HIDE DEF e, m
  <2> QED BY <1>1, <2>1, <2>2
<1> HIDE DEF m
<1>4. /\ \A k \in Index : k \in len .. len + n - 1 => raw[k] = seg[k - len + 1]
      /\ \A k \in Index : k \notin len .. len + n - 1 => raw[k] = buf[k]
  BY <1>00, <1>1, <1>2 DEF Stored
<1>5. ASSUME NEW k \in 0 .. m - 1 PROVE raw[k] = s[i + k]
  <2>1. k \in Index
    BY <1>1, <1>3
  <2>2. CASE k < len
    BY <1>00, <1>1, <1>4, <2>1, <2>2 DEF Holds
  <2>3. CASE k >= len
    <3>1. k - len + 1 \in 1 .. Len(seg)
      <4>1. m <= e - i + 1
        BY <1>1 DEF m, Kept
      <4> HIDE DEF e
      <4>2. k - len + 1 >= 1 /\ k - len + 1 <= e - i + 1 - len /\ k - len + 1 \in Nat
        BY <1>1, <1>3, <2>3, <4>1
      <4> QED BY <1>1, <4>2
    <3>2. seg[k - len + 1] = s[i + len - 1 + (k - len + 1)]
      BY <1>0, <3>1
    <3>3. i + len - 1 + (k - len + 1) = i + k
      BY <1>1
    <3>4. k \in len .. len + n - 1
      BY <1>1, <1>2, <1>3, <2>3
    <3>5. raw[k] = seg[k - len + 1]
      BY <1>4, <2>1, <3>4, Zenon
    <3> QED BY ONLY <3>2, <3>3, <3>5, Zenon
  <2> QED BY <1>1, <2>2, <2>3
<1>6. raw[m] = Nul
  <2>1. raw[m] = buf[m]
    <3>1. m \in Index /\ m \notin len .. len + n - 1
      BY <1>1, <1>2, <1>3
    <3> QED BY <1>4, <3>1, Zenon
  <2>2. CASE m = ReqSize - 1
    BY <1>00, <2>1, <2>2 DEF Ended
  <2>3. CASE m = e - i + 1 /\ e - i < ReqSize - 2
    <3>1. ~(m <= e - i) /\ ~(e - i >= ReqSize - 2)
      <4> HIDE DEF e
      <4> QED BY <1>1, <2>3
    <3> QED BY <1>00, <1>3, <2>1, <3>1 DEF NoRest
  <2> QED BY <1>3, <2>2, <2>3
<1>7. ASSUME NEW k \in Index, raw[k] # Nul, buf[k] = Nul PROVE k <= e - i
  <2>1. k \in len .. len + n - 1
    BY <1>4, <1>7
  <2>2. m <= e - i + 1
    BY <1>1 DEF m, Kept
  <2> HIDE DEF e
  <2> QED BY <1>1, <1>2, <1>3, <2>1, <2>2
<1> QED BY <1>2, <1>5, <1>6, <1>7 DEF Holds, HoldsWhole, EndsBehind, m

LEMMA MinIs ==
  ASSUME NEW S \in SUBSET Nat, NEW a \in S, \A x \in S : a <= x
  PROVE  Min(S) = a
<1>1. Min(S) \in S /\ Min(S) <= a
  BY MinOfNat
<1>2. Min(S) \in Nat /\ a \in Nat /\ a <= Min(S)
  BY <1>1
<1> DEFINE m == Min(S)
<1> HIDE DEF m
<1>3. m = a
  BY <1>1, <1>2 DEF m
<1> QED BY <1>3 DEF m

\* The numbers of a readable request.
LEMMA ReadableFacts ==
  ASSUME NEW s \in Seq(Token), NEW i \in Starts(s), Readable(s, i),
         NEW e, e = End(s, i), NEW h, h = HeaderEnd(s, i), NEW m, m = Kept(s, i)
  PROVE  /\ i \in Nat \ {0} /\ Len(s) \in Nat /\ e \in Nat /\ h \in Nat /\ m \in Nat
         /\ i < h /\ h <= e /\ e <= Len(s)
         /\ m <= ReqSize - 1 /\ m <= e - i + 1 /\ m \in Index /\ h - i < m
         /\ h < e => h - i + 1 < m
         /\ h = e => m = h - i + 1
         /\ i + m - 1 = e \/ (i + m - 1 = i + ReqSize - 2 /\ i + ReqSize - 2 <= e)
         /\ e <= i + ReqSize - 2 => i + m - 1 = e
         /\ \A k \in 0 .. m - 1 : i + k \in 1 .. Len(s) /\ s[i + k] \in Token
<1>1. i \in 1 .. Len(s) /\ e \in i .. Len(s) /\ Len(s) \in Nat
  BY StartFacts
<1>2. h \in i + 1 .. e /\ h - i + (IF h < e THEN 2 ELSE 1) < ReqSize
  BY DEF Readable
<1>3. m = IF e - i + 1 > ReqSize - 1 THEN ReqSize - 1 ELSE e - i + 1
  BY DEF Kept
<1>4. i \in Nat /\ e \in Nat /\ h \in Nat /\ ReqSize \in Nat \ {0}
  BY <1>1, <1>2, ReqSizeAssumption
<1>5. /\ m \in Nat /\ m <= ReqSize - 1 /\ m <= e - i + 1 /\ m \in Index /\ h - i < m
      /\ h < e => h - i + 1 < m
      /\ h = e => m = h - i + 1
      /\ i + m - 1 = e \/ (i + m - 1 = i + ReqSize - 2 /\ i + ReqSize - 2 <= e)
      /\ e <= i + ReqSize - 2 => i + m - 1 = e
  <2>1. i < h /\ h <= e /\ (h < e => h - i + 2 < ReqSize) /\ (h = e => h - i + 1 < ReqSize)
    BY <1>2, <1>4
  <2>2. CASE e - i + 1 > ReqSize - 1
    <3>1. m = ReqSize - 1
      BY <1>3, <2>2
    <3>2. m \in Nat /\ m \in 0 .. ReqSize - 1
      BY <1>4, <3>1
    <3>3. /\ m <= e - i + 1 /\ h - i < m
          /\ h < e => h - i + 1 < m
          /\ h = e => m = h - i + 1
      BY <1>4, <2>1, <2>2, <3>1
    <3>4. i + m - 1 = i + ReqSize - 2 /\ i + ReqSize - 2 <= e
      BY <1>4, <2>2, <3>1
    <3>5. e <= i + ReqSize - 2 => i + m - 1 = e
      BY <1>4, <3>4
    <3> QED BY <3>1, <3>2, <3>3, <3>4, <3>5
  <2>3. CASE ~(e - i + 1 > ReqSize - 1)
    <3>1. m = e - i + 1
      BY <1>3, <2>3
    <3>2. i + m - 1 = e
      BY <1>4, <3>1
    <3>3. m \in Nat /\ m <= ReqSize - 1 /\ m \in 0 .. ReqSize - 1
      BY <1>4, <2>1, <2>3, <3>1
    <3>4. /\ h - i < m
          /\ h < e => h - i + 1 < m
          /\ h = e => m = h - i + 1
      BY <1>4, <2>1, <3>1
    <3> QED BY <3>1, <3>2, <3>3, <3>4
  <2> QED BY <2>2, <2>3
<1>6. \A k \in 0 .. m - 1 : i + k \in 1 .. Len(s)
  <2>1. m \in Nat /\ m <= e - i + 1 /\ i >= 1 /\ e <= Len(s)
    BY <1>1, <1>5
  <2> QED BY <1>1, <1>4, <2>1
<1>7. \A k \in 0 .. m - 1 : s[i + k] \in Token
  BY <1>6
<1>8. i # 0 /\ i < h /\ h <= e /\ e <= Len(s)
  BY <1>1, <1>2, <1>4
<1>9. \A k \in 0 .. m - 1 : i + k \in 1 .. Len(s) /\ s[i + k] \in Token
  BY <1>6, <1>7
<1>10. i \in Nat \ {0} /\ Len(s) \in Nat
  BY <1>1, <1>4, <1>8
<1> QED BY <1>4, <1>5, <1>8, <1>9, <1>10, Zenon

\* A request that the buffer holds is found there: its text, the blank line
\* that ends its header, and its body if it has one.
LEMMA FindsBody ==
  ASSUME NEW s \in Seq(Token), NEW i \in Starts(s), Readable(s, i),
         NEW raw \in Buffer, HoldsWhole(raw, s, i),
         NEW h, h = HeaderEnd(s, i), NEW m, m = Kept(s, i)
  PROVE  /\ \A k \in 0 .. m - 1 : raw[k] = s[i + k] /\ raw[k] # Nul
         /\ Text(raw) = 0 .. m - 1
         /\ Markers(raw) # {} /\ Min(Markers(raw)) = h - i
         /\ BodyAt(raw, m) = IF h < End(s, i) THEN h - i + 1 ELSE Null
<1> DEFINE e == End(s, i)
<1>1. /\ i \in Nat \ {0} /\ Len(s) \in Nat /\ e \in Nat /\ h \in Nat /\ m \in Nat
      /\ i < h /\ h <= e /\ e <= Len(s)
      /\ m <= ReqSize - 1 /\ m \in Index /\ h - i < m
      /\ h < e => h - i + 1 < m
      /\ h = e => m = h - i + 1
      /\ \A k \in 0 .. m - 1 : s[i + k] \in Token
  BY ReadableFacts
<1>2. s[h] = Marker /\ (h < e => s[h + 1] # Marker) /\ \A j \in i .. h - 1 : s[j] # Marker
  BY DEF Readable
<1>3. (\A k \in 0 .. m - 1 : raw[k] = s[i + k]) /\ raw[m] = Nul
  BY DEF Holds, HoldsWhole
<1>4. \A k \in 0 .. m - 1 : raw[k] # Nul
  BY <1>1, <1>3 DEF Token, Lines, Pieces, Marker, ContentLength, Nul
<1> HIDE DEF e
<1>5. Text(raw) = 0 .. m - 1
  BY <1>1, <1>3, <1>4, ReqSizeAssumption DEF Text
<1>6. h - i \in Markers(raw) /\ Markers(raw) \in SUBSET Nat
  <2>1. h - i \in 0 .. m - 1 /\ i + (h - i) = h
    BY <1>1
  <2>2. raw[h - i] = Marker
    BY <1>2, <1>3, <2>1
  <2> QED BY <1>1, <1>5, <2>1, <2>2 DEF Markers
<1>7. \A x \in Markers(raw) : h - i <= x
  <2> SUFFICES ASSUME NEW x \in Markers(raw), x < h - i PROVE FALSE
    BY <1>1, <1>6
  <2>1. x \in 0 .. m - 1 /\ raw[x] = Marker
    BY <1>5 DEF Markers
  <2>2. i + x \in i .. h - 1
    BY <1>1, <2>1
  <2> QED BY <1>2, <1>3, <2>1, <2>2
<1>8. Min(Markers(raw)) = h - i
  BY <1>6, <1>7, MinIs
<1> DEFINE b == h - i + 1
           Rest == {k \in Index : k > h - i /\ raw[k] # Marker}
<1>9. b \in Nat /\ b <= m /\ b \in Index /\ b > h - i /\ (h < e => b < m) /\ (h = e => b = m)
  BY <1>1, ReqSizeAssumption
<1>10. raw[b] # Marker
  <2>1. CASE h < e
    <3>1. b \in 0 .. m - 1 /\ i + b = h + 1
      BY <1>1, <1>9, <2>1
    <3> HIDE DEF b
    <3>2. raw[b] = s[i + b]
      BY <1>3, <3>1, Zenon
    <3>3. raw[b] = s[h + 1]
      BY <3>1, <3>2, Zenon
    <3> QED BY <1>2, <2>1, <3>3, Zenon
  <2>2. CASE h = e
    <3> HIDE DEF b
    <3> QED BY <1>3, <1>9, <2>2 DEF Marker, Nul
  <2> QED BY <1>1, <2>1, <2>2
<1>11. Min(Rest) = b
  <2>1. Rest \in SUBSET Nat /\ b \in Rest
    BY <1>9, <1>10, ReqSizeAssumption
  <2>2. \A x \in Rest : b <= x
    BY <1>1, ReqSizeAssumption
  <2> HIDE DEF Rest, b
  <2> QED BY <2>1, <2>2, MinIs
<1>12. BodyAt(raw, m) = IF b >= m THEN Null ELSE b
  <2>1. BodyAt(raw, m) = IF Min(Rest) >= m THEN Null ELSE Min(Rest)
    BY <1>6, <1>8 DEF BodyAt
  <2> HIDE DEF Rest, b
  <2> QED BY <1>11, <2>1
<1>13. BodyAt(raw, m) = IF h < e THEN b ELSE Null
  <2> HIDE DEF b
  <2> QED BY <1>1, <1>9, <1>12
<1> QED BY <1>3, <1>4, <1>5, <1>6, <1>8, <1>13 DEF e

\* What tcp_server_recv then makes of it: the request that was sent.
LEMMA ReadsRequest ==
  ASSUME NEW s \in Seq(Token), NEW i \in Starts(s), Readable(s, i),
         NEW raw \in Buffer, HoldsWhole(raw, s, i),
         NEW r, r.body = BodyAt(raw, Kept(s, i)), r.buf = Sanitized(raw, r.body)
  PROVE  /\ ~AwaitsBody(r)
         /\ r.buf[0] = s[i]
         /\ BodyText(r) = SentRequest(s, i).body
         /\ AddsNothing(r.buf, raw)
<1> DEFINE e == End(s, i)
           h == HeaderEnd(s, i)
           m == Kept(s, i)
           b == h - i + 1
           sent == SubSeq(s, h + 1, Min({e, i + ReqSize - 2}))
<1>1. /\ i \in Nat \ {0} /\ Len(s) \in Nat /\ e \in Nat /\ h \in Nat /\ m \in Nat
      /\ i < h /\ h <= e /\ e <= Len(s)
      /\ m <= ReqSize - 1 /\ m \in Index /\ h - i < m
      /\ h < e => h - i + 1 < m
      /\ h = e => m = h - i + 1
      /\ i + m - 1 = e \/ (i + m - 1 = i + ReqSize - 2 /\ i + ReqSize - 2 <= e)
      /\ e <= i + ReqSize - 2 => i + m - 1 = e
      /\ \A k \in 0 .. m - 1 : i + k \in 1 .. Len(s) /\ s[i + k] \in Token
  BY ReadableFacts
<1>2. /\ \A k \in 0 .. m - 1 : raw[k] = s[i + k] /\ raw[k] # Nul
      /\ Text(raw) = 0 .. m - 1 /\ Min(Markers(raw)) = h - i
      /\ r.body = IF h < e THEN b ELSE Null
  <2>1. h = HeaderEnd(s, i) /\ m = Kept(s, i) /\ e = End(s, i)
    OBVIOUS
  <2> HIDE DEF h, m, e
  <2>2. /\ \A k \in 0 .. m - 1 : raw[k] = s[i + k] /\ raw[k] # Nul
        /\ Text(raw) = 0 .. m - 1 /\ Min(Markers(raw)) = h - i
        /\ BodyAt(raw, m) = IF h < End(s, i) THEN h - i + 1 ELSE Null
    <3>1. Text(raw) = 0 .. m - 1
      BY <2>1, FindsBody
    <3>2. Min(Markers(raw)) = h - i
      BY <2>1, FindsBody
    <3>3. BodyAt(raw, m) = IF h < End(s, i) THEN h - i + 1 ELSE Null
      BY <2>1, FindsBody
    <3>4. \A k \in 0 .. m - 1 : raw[k] = s[i + k]
      BY <2>1 DEF HoldsWhole, Holds
    <3>5. \A k \in 0 .. m - 1 : raw[k] # Nul
      BY <1>1, <3>4 DEF Token, Lines, Pieces, Marker, ContentLength, Nul
    <3> QED BY <3>1, <3>2, <3>3, <3>4, <3>5
  <2> QED BY <2>1, <2>2
<1>3. raw[m] = Nul
  BY DEF HoldsWhole
<1>4. SentRequest(s, i).body = sent
  BY DEF SentRequest
<1>5. Min({e, i + ReqSize - 2}) = i + m - 1
  <2> DEFINE S == {e, i + ReqSize - 2}
  <2>1. S \in SUBSET Nat /\ i + m - 1 \in S /\ \A x \in S : i + m - 1 <= x
    <3> HIDE DEF e, m, h
    <3> QED BY <1>1, ReqSizeAssumption
  <2> HIDE DEF S, m
  <2>2. Min(S) = i + m - 1
    BY <2>1, MinIs
  <2> QED BY <2>2 DEF S
<1>6. (h < e => r.body = b) /\ (h = e => r.body = Null) /\ (h < e \/ h = e)
  <2> HIDE DEF h, e, b
  <2> QED BY <1>1, <1>2
<1>7. sent = SubSeq(s, h + 1, i + m - 1)
  BY <1>5
<1> HIDE DEF e, h, m, sent
<1>8. CASE h < e
  <2>1. b \in Nat /\ b \in Index /\ b < m /\ b > h - i /\ h - i \in Index /\ h - i >= 1
    BY <1>1, <1>8, ReqSizeAssumption
  <2>2. r.body = b /\ r.body # Null
    BY <1>6, <1>8, <2>1, NullAssumption
  <2>3. r.buf = [raw EXCEPT ![h - i] = Nul]
    BY <1>2, <2>2 DEF Sanitized
  <2>4. \A k \in Index : k # h - i => r.buf[k] = raw[k]
    BY <2>3
  <2>5. r.buf[h - i] = Nul
    BY <2>1, <2>3
  <2>6. r.buf[0] = s[i]
    <3>1. 0 \in Index /\ 0 # h - i /\ 0 \in 0 .. m - 1 /\ i + 0 = i
      BY <1>1, ReqSizeAssumption
    <3> QED BY <1>2, <2>4, <3>1
  <2>7. ~AwaitsBody(r)
    BY <2>2 DEF AwaitsBody
  <2> DEFINE Ends == {ReqSize} \cup {k \in Index : k >= r.body /\ r.buf[k] = Nul}
  <2>8. Min(Ends) = m
    <3>1. Ends \in SUBSET Nat /\ m \in Ends
      BY <1>1, <1>3, <2>1, <2>2, <2>4, ReqSizeAssumption
    <3>2. ASSUME NEW x \in Ends, x < m PROVE FALSE
      <4>1. x # ReqSize
        BY <1>1, <3>2, ReqSizeAssumption
      <4>2. x \in Index /\ x >= b /\ r.buf[x] = Nul
        BY <2>2, <3>2, <4>1
      <4>3. x # h - i /\ x \in 0 .. m - 1
        BY <1>1, <2>1, <3>2, <4>2
      <4> QED BY <1>2, <2>4, <4>2, <4>3
    <3>3. \A x \in Ends : m <= x
      BY <1>1, <3>1, <3>2
    <3> HIDE DEF Ends
    <3> QED BY <3>1, <3>3, MinIs
  <2> HIDE DEF b
  <2>9. BodyText(r) = [k \in 1 .. m - b |-> r.buf[b + k - 1]]
    BY <2>2, <2>8 DEF BodyText
  <2>10. m - b = i + m - 1 - h
    BY <1>1 DEF b
  <2> DEFINE n == m - b
  <2>11. n \in Nat /\ n > 0 /\ i + m - 1 \in h + 1 .. Len(s) /\ i + m - 1 - h = n
    <3>1. m <= e - i + 1
      BY <1>1
    <3> QED BY <1>1, <2>1, <2>10, <3>1
  <2>12. ASSUME NEW k \in 1 .. n PROVE r.buf[b + k - 1] = s[h + k]
    <3>1. b + k - 1 \in 0 .. m - 1 /\ b + k - 1 \in Index /\ b + k - 1 # h - i
          /\ i + (b + k - 1) = h + k
      <4>1. k \in Nat /\ k >= 1 /\ k <= m - b /\ b = h - i + 1
        BY <2>11 DEF b
      <4> QED BY <1>1, <2>1, <4>1, ReqSizeAssumption
    <3> QED BY <1>2, <2>4, <3>1
  <2>13. /\ sent \in Seq(Token) /\ Len(sent) = n
         /\ \A k \in 1 .. n : sent[k] = s[h + k]
    <3> DEFINE last == i + m - 1
    <3>1. h \in Nat /\ last \in h + 1 .. Len(s) /\ last - h = n /\ sent = SubSeq(s, h + 1, last)
      BY <1>1, <1>7, <2>11
    <3> HIDE DEF last, n
    <3> QED BY <3>1, PieceProperties
  <2> HIDE DEF n
  <2>14. BodyText(r) = [k \in 1 .. n |-> s[h + k]]
    BY <2>9, <2>12 DEF n
  <2>15. sent = [k \in 1 .. n |-> s[h + k]]
    BY <2>13
  <2> QED BY <1>1, <1>4, <2>4, <2>5, <2>6, <2>7, <2>14, <2>15 DEF AddsNothing
<1>9. CASE h = e
  <2>1. r.body = Null /\ m = h - i + 1 /\ i + m - 1 = h
    BY <1>1, <1>6, <1>9
  <2>2. r.buf = raw
    BY <2>1 DEF Sanitized
  <2>3. ~AwaitsBody(r)
    <3> SUFFICES ASSUME NEW k \in Text(r.buf), r.buf[k] = ContentLength PROVE FALSE
      BY DEF AwaitsBody
    <3>1. k \in 0 .. m - 1 /\ s[i + k] = ContentLength
      BY <1>2, <2>2
    <3>2. i + k \in i .. h
      BY <1>1, <2>1, <3>1
    <3> QED BY <1>1, <1>9, <3>1, <3>2 DEF Readable, h, e
  <2>4. r.buf[0] = s[i]
    <3>1. 0 \in 0 .. m - 1 /\ i + 0 = i
      BY <1>1
    <3> QED BY <1>2, <2>2, <3>1
  <2>5. BodyText(r) = <<>>
    BY <2>1 DEF BodyText
  <2>6. sent = <<>>
    BY <1>1, <1>7, <2>1, SubSeqEmpty
  <2> QED BY <1>4, <2>2, <2>3, <2>4, <2>5, <2>6 DEF AddsNothing
<1> QED BY <1>6, <1>8, <1>9

\* The segment is the header of request i, which announces a body.
Begins(s, i, h, buf, seg) ==
  /\ s \in Seq(Token) /\ i \in Starts(s) /\ Readable(s, i)
  /\ h \in Nat /\ h = HeaderEnd(s, i) /\ h < End(s, i) /\ Announces(s, i, h)
  /\ buf \in Buffer /\ Ended(buf) /\ seg \in Seq(Token) /\ Piece(seg, s, i, h)

\* A header that announces a body, come by itself, is put at the front of the
\* buffer and kept, whatever lies behind it.
LEMMA TakesHeader ==
  ASSUME NEW s, NEW i, NEW h, NEW buf, NEW seg, Begins(s, i, h, buf, seg),
         NEW len, len = 0, NEW raw, raw = Stored(buf, len, seg), NEW r, r = Received(buf, len, seg)
  PROVE  /\ AwaitsBody(r) /\ r.len = h - i + 1 /\ r.buf = raw
         /\ Holds(raw, s, i, h - i + 1)
         /\ SameBehind(raw, buf, h - i)
<1> DEFINE n == h - i + 1
<1>0. /\ s \in Seq(Token) /\ i \in Starts(s) /\ Readable(s, i)
      /\ h \in Nat /\ h = HeaderEnd(s, i) /\ h < End(s, i) /\ Announces(s, i, h)
      /\ buf \in Buffer /\ Ended(buf) /\ seg \in Seq(Token) /\ Piece(seg, s, i, h)
  BY DEF Begins
<1> USE <1>0
<1>1. /\ i \in Nat \ {0} /\ Len(s) \in Nat /\ h \in Nat /\ i < h /\ h <= Len(s)
      /\ n \in Nat /\ n > 0 /\ n < ReqSize - 1
  <2>1. i \in 1 .. Len(s) /\ End(s, i) \in i .. Len(s) /\ Len(s) \in Nat
    BY StartFacts
  <2>2. h \in i + 1 .. End(s, i) /\ h - i + 2 < ReqSize
    BY DEF Readable
  <2> QED BY <2>1, <2>2, ReqSizeAssumption
<1>2. s[h] = Marker /\ \A j \in i .. h - 1 : s[j] # Marker
  BY DEF Readable
<1>3. Len(seg) = n /\ RxLen(len, seg) = n
  <2>1. Len(seg) = n
    BY DEF Piece
  <2> HIDE DEF n
  <2> QED BY <1>1, <2>1, ReqSizeAssumption DEF RxLen
<1> HIDE DEF n
<1>4. /\ \A k \in Index : k \in 0 .. n - 1 => raw[k] = seg[k + 1]
      /\ \A k \in Index : k \notin 0 .. n - 1 => raw[k] = buf[k]
  <2>1. len \in Nat
    OBVIOUS
  <2>2. /\ \A k \in Index : k \in len .. len + n - 1 => raw[k] = seg[k - len + 1]
        /\ \A k \in Index : k \notin len .. len + n - 1 => raw[k] = buf[k]
    BY <1>1, <1>3, <2>1 DEF Stored
  <2> QED BY <1>1, <2>2
<1>5. \A k \in 0 .. n - 1 : k \in Index /\ i + k \in i .. h
  BY <1>1, ReqSizeAssumption DEF n
<1>6. \A k \in 0 .. n - 1 : raw[k] = s[i + k]
  <2> SUFFICES ASSUME NEW k \in 0 .. n - 1 PROVE raw[k] = s[i + k]
    OBVIOUS
  <2>1. k + 1 \in 1 .. Len(seg) /\ i - 1 + (k + 1) = i + k
    BY <1>1, <1>3
  <2>2. seg[k + 1] = s[i - 1 + (k + 1)]
    BY <2>1 DEF Piece
  <2> QED BY <1>4, <1>5, <2>1, <2>2
<1>7. \A k \in 0 .. n - 1 : raw[k] # Nul
  <2>1. ASSUME NEW k \in 0 .. n - 1 PROVE i + k \in 1 .. Len(s)
    <3>1. i + k \in i .. h
      BY <1>5
    <3> QED BY <1>1, <3>1
  <2>2. \A k \in 0 .. n - 1 : s[i + k] \in Token
    BY <2>1
  <2> QED BY <1>6, <2>2 DEF Token, Lines, Pieces, Marker, ContentLength, Nul
<1>8. ReqSize - 1 \in Index /\ ReqSize - 1 \notin 0 .. n - 1 /\ raw[ReqSize - 1] = Nul
  <2>1. ReqSize - 1 \in Index /\ ReqSize - 1 \notin 0 .. n - 1
    BY <1>1, ReqSizeAssumption
  <2> QED BY <1>4, <2>1 DEF Ended
<1>9. \A k \in 0 .. n - 1 : k \in Text(raw)
  BY <1>1, <1>5, <1>7 DEF Text
<1>10. h - i \in 0 .. n - 1 /\ i + (h - i) = h /\ n = h - i + 1
  BY <1>1 DEF n
<1>11. h - i \in Markers(raw) /\ Markers(raw) \in SUBSET Nat
  <2>1. raw[h - i] = Marker
    BY <1>2, <1>6, <1>10
  <2> QED BY <1>9, <1>10, <2>1, ReqSizeAssumption DEF Markers, Text
<1>12. Min(Markers(raw)) = h - i
  <2>1. ASSUME NEW x \in Markers(raw), x < h - i PROVE FALSE
    <3>1. raw[x] = Marker /\ x \in Nat
      BY <1>11, <2>1 DEF Markers
    <3>2. x \in 0 .. n - 1 /\ i + x \in i .. h - 1
      <4>1. i \in Nat /\ h \in Nat /\ n = h - i + 1 /\ x \in Nat /\ x < h - i
        BY <1>1, <1>10, <2>1, <3>1
      <4> QED BY <4>1
    <3> QED BY <1>2, <1>6, <3>1, <3>2
  <2>2. \A x \in Markers(raw) : h - i <= x
    BY <1>1, <1>11, <2>1
  <2> QED BY <1>11, <2>2, MinIs
<1> DEFINE Rest == {k \in Index : k > h - i /\ raw[k] # Marker}
<1>13. Min(Rest) \in Rest
  <2>1. ReqSize - 1 \in Rest /\ Rest \in SUBSET Nat
    <3>1. ReqSize - 1 > h - i
      BY <1>1, <1>10, ReqSizeAssumption
    <3>2. raw[ReqSize - 1] # Marker
      BY <1>8 DEF Marker, Nul
    <3> QED BY <1>8, <3>1, <3>2, ReqSizeAssumption
  <2> HIDE DEF Rest
  <2> QED BY <2>1, MinOfNat
<1>14. Min(Rest) >= n
  <2> DEFINE x == Min(Rest)
  <2>1. x \in Nat /\ x > h - i
    BY <1>13, ReqSizeAssumption
  <2> HIDE DEF x
  <2>2. x >= n
    BY <1>1, <1>10, <2>1
  <2> QED BY <2>2 DEF x
<1>15. BodyAt(raw, n) = Null
  <2>1. BodyAt(raw, n) = IF Min(Rest) >= n THEN Null ELSE Min(Rest)
    BY <1>11, <1>12 DEF BodyAt
  <2> QED BY <1>14, <2>1
<1>16. r.len = n /\ r.body = Null /\ r.buf = raw
  <2>1. len + RxLen(len, seg) = n
    BY <1>1, <1>3
  <2>2. r = [buf |-> Sanitized(raw, BodyAt(raw, n)), len |-> n, body |-> BodyAt(raw, n)]
    BY <2>1 DEF Received
  <2> QED BY <1>15, <2>2 DEF Sanitized
<1>17. AwaitsBody(r)
  <2>1. PICK j \in i .. h : s[j] = ContentLength
    BY DEF Announces
  <2>2. j - i \in 0 .. n - 1 /\ i + (j - i) = j
    BY <1>1, <1>10
  <2>3. raw[j - i] = ContentLength /\ j - i \in Text(raw)
    BY <1>6, <1>9, <2>1, <2>2
  <2> QED BY <1>16, <2>3 DEF AwaitsBody
<1>18. \A k \in Index : k > h - i => raw[k] = buf[k]
  <2>1. \A k \in Index : k > h - i => k \notin 0 .. n - 1
    BY <1>1, <1>10, ReqSizeAssumption
  <2> QED BY <1>4, <2>1
<1> QED BY <1>6, <1>10, <1>16, <1>17, <1>18 DEF Holds, SameBehind

-----------------------------------------------------------------------------
(* What holds of a connection between two segments.                        *)

\* Its handlers were given what was sent (HandledAsSent, for one connection).
SentOf(p) ==
  \A k \in DOMAIN handled[p] : \E i \in Starts(script[p].text) :
    /\ Rank(script[p].text, i) = k
    /\ [line |-> handled[p][k].line, body |-> handled[p][k].body] = SentRequest(script[p].text, i)

\* Nothing is kept for later, and every request that has arrived was handled.
Idle(p) ==
  LET s == script[p].text
  IN  /\ Con(p).request_len = 0
      /\ pos[p] = Len(s) \/ pos[p] + 1 \in Starts(s)
      /\ Len(handled[p]) = Cardinality(Arrived(s, pos[p]))

\* The header of request i is kept until its body comes.
Waits(p, i) ==
  LET s == script[p].text
  IN  /\ i \in Starts(s) /\ pos[p] = HeaderEnd(s, i) /\ pos[p] < End(s, i)
      /\ \E j \in i .. pos[p] : s[j] = ContentLength
      /\ Con(p).request_len = pos[p] - i + 1
      /\ Holds(Con(p).request, s, i, pos[p] - i + 1)
      /\ Len(handled[p]) + 1 = Rank(s, i)

\* What lies in the buffer is no longer than some request that has arrived.
Rests(p) ==
  LET s == script[p].text
  IN  \A k \in Index : Con(p).request[k] # Nul =>
        \E j \in Arrived(s, pos[p]) : k <= End(s, j) - j

FrameOf(p) ==
  /\ pcb[p] = "synrcvd" => script[p] \in Scripts /\ pos[p] = 0 /\ handled[p] = <<>>
  /\ pcb[p] = "open" => /\ script[p] \in Scripts /\ Rests(p)
                        /\ Idle(p) \/ \E i \in Starts(script[p].text) : Waits(p, i)

Frames ==
  /\ \A p \in Pcbs : SentOf(p)
  /\ ~fault => \A p \in Pcbs : FrameOf(p)

LEMMA SameFrame ==
  ASSUME NEW q, Same(q)
  PROVE  /\ FrameOf(q) => FrameOf(q)'
         /\ SentOf(q) => SentOf(q)'
<1>1. SentOf(q) => SentOf(q)'
  BY DEF Same, SentOf
<1>2. CASE pcb[q] = "open"
  <2>1. Con(q)' = Con(q) /\ pcb'[q] = "open"
    BY <1>2 DEF Same, Con
  <2> QED BY <1>1, <1>2, <2>1 DEF Same, FrameOf, Rests, Idle, Waits
<1>3. CASE pcb[q] # "open"
  BY <1>1, <1>3 DEF Same, FrameOf
<1> QED BY <1>2, <1>3

\* The segment that comes next is a request, or one of the two parts of one.
NextPiece(p, i) ==
  LET s == script[p].text
      c == Con(p)
  IN  /\ Readable(s, i) /\ Len(handled[p]) + 1 = Rank(s, i)
      /\ i + c.request_len - 1 = pos[p] /\ pos[p] < End(s, i)
      /\ Holds(c.request, s, i, c.request_len) /\ NoRest(c.request, s, i)
      /\ \/ NextCut(p) = End(s, i)
         \/ /\ NextCut(p) = HeaderEnd(s, i) /\ HeaderEnd(s, i) < End(s, i) /\ c.request_len = 0
            /\ \E j \in i .. HeaderEnd(s, i) : s[j] = ContentLength

LEMMA HasNextPiece ==
  ASSUME IInv, \A c \in Scripts : WellCut(c), NEW p \in Pcbs, pcb[p] = "open",
         pos[p] < Len(script[p].text), FrameOf(p)
  PROVE  \E i \in Starts(script[p].text) : NextPiece(p, i)
<1> DEFINE s == script[p].text
           n == pos[p]
           c == Con(p)
           cut == NextCut(p)
<1>1. /\ script[p] \in Scripts /\ s \in Seq(Token) /\ n \in Nat /\ n < Len(s) /\ cut \in n + 1 .. Len(s)
      /\ cut \in script[p].cuts /\ \A x \in script[p].cuts : x > n => cut <= x
  BY CutFacts
<1>2. script[p] \in Script /\ WellCut(script[p])
  BY <1>1, ScriptsAssumption
<1>3. Rests(p) /\ (Idle(p) \/ \E i \in Starts(s) : Waits(p, i))
  BY DEF FrameOf
<1> HIDE DEF cut
<1>4. ASSUME NEW i \in Starts(s)
      PROVE  /\ i \in Nat /\ End(s, i) \in Nat /\ i <= End(s, i)
             /\ \A j \in Starts(s) : j \in Nat /\ (j > i => j > End(s, i))
             /\ Readable(s, i) /\ End(s, i) \in script[p].cuts
             /\ HeaderEnd(s, i) \in i + 1 .. End(s, i)
             /\ (\E j \in i .. HeaderEnd(s, i) : s[j] = ContentLength) => HeaderEnd(s, i) < End(s, i)
             /\ \A k \in script[p].cuts : k \in i .. End(s, i) - 1 =>
                  k = HeaderEnd(s, i) /\ \E j \in i .. HeaderEnd(s, i) : s[j] = ContentLength
             /\ \A j \in Starts(s) : j < i =>
                  End(s, j) - j <= End(s, i) - i \/ End(s, i) - i >= ReqSize - 2
  <2> HIDE DEF s
  <2>0. s \in Seq(Token) /\ s = script[p].text
    BY <1>1 DEF s
  <2>1. /\ i \in 1 .. Len(s) /\ End(s, i) \in i .. Len(s) /\ Len(s) \in Nat
        /\ \A j \in Starts(s) : j > i => j > End(s, i)
    BY <2>0, StartFacts
  <2>2. /\ Readable(s, i) /\ End(s, i) \in script[p].cuts
        /\ \A k \in script[p].cuts : k \in i .. End(s, i) - 1 =>
             k = HeaderEnd(s, i) /\ \E j \in i .. HeaderEnd(s, i) : s[j] = ContentLength
        /\ \A j \in Starts(s) : j < i =>
             End(s, j) - j <= End(s, i) - i \/ End(s, i) - i >= ReqSize - 2
    BY <1>2, <2>0, WellCutFacts
  <2>3. \A j \in Starts(s) : j \in Nat
    BY <2>0 DEF Starts
  <2>4. /\ HeaderEnd(s, i) \in i + 1 .. End(s, i)
        /\ (\E j \in i .. HeaderEnd(s, i) : s[j] = ContentLength) => HeaderEnd(s, i) < End(s, i)
    BY <2>2 DEF Readable
  <2> QED BY <2>1, <2>2, <2>3, <2>4
<1>5. ASSUME NEW i \in Starts(s), n < End(s, i), n + 1 >= i
      PROVE  \/ cut = End(s, i)
             \/ /\ cut = HeaderEnd(s, i) /\ HeaderEnd(s, i) < End(s, i) 
                /\ \E j \in i .. HeaderEnd(s, i) : s[j] = ContentLength
  <2> DEFINE e == End(s, i)
  <2>1. e \in Nat /\ i \in Nat /\ cut <= e
    BY <1>1, <1>4, <1>5
  <2>2. CASE cut < e
    <3>1. cut \in i .. e - 1
      BY <1>1, <1>5, <2>1, <2>2
    <3> QED BY <1>1, <1>4, <3>1
  <2> QED BY <1>1, <2>1, <2>2
<1>6. CASE Idle(p)
  <2> DEFINE i == n + 1
  <2>1. i \in Starts(s) /\ c.request_len = 0 /\ Len(handled[p]) = Cardinality(Arrived(s, n))
    BY <1>1, <1>6 DEF Idle
  <2>2. Len(handled[p]) + 1 = Rank(s, i) /\ i + c.request_len - 1 = n /\ i - 1 = n
    <3>1. i - 1 = n
      BY <1>1
    <3>2. Rank(s, i) = Cardinality(Arrived(s, i - 1)) + 1
      BY <1>1, <2>1, RankFacts
    <3> QED BY <1>1, <2>1, <3>1, <3>2
  <2>3. Holds(c.request, s, i, c.request_len)
    BY <2>1 DEF Holds
  <2>4. NoRest(c.request, s, i)
    <3> SUFFICES ASSUME NEW k \in Index, c.request[k] # Nul
                 PROVE  k <= End(s, i) - i \/ End(s, i) - i >= ReqSize - 2
      BY DEF NoRest
    <3>1. PICK j \in Arrived(s, n) : k <= End(s, j) - j
      BY <1>3 DEF Rests
    <3>2. j \in Starts(s) /\ j < i /\ j \in Nat
      BY <1>1, <1>4, <2>1, <3>1 DEF Arrived
    <3> DEFINE a == End(s, j) - j
               b == End(s, i) - i
    <3>3. a \in Int /\ b \in Int /\ (a <= b \/ b >= ReqSize - 2) /\ k <= a
      <4>1. End(s, j) \in Nat /\ j \in Nat /\ End(s, i) \in Nat /\ i \in Nat
        BY <1>4, <2>1, <3>2, Zenon
      <4>2. a \in Int /\ b \in Int
        BY <4>1
      <4>3. a <= b \/ b >= ReqSize - 2
        BY <1>4, <2>1, <3>2
      <4> QED BY <3>1, <4>2, <4>3
    <3> HIDE DEF a, b
    <3>4. k <= b \/ b >= ReqSize - 2
      BY <3>3, ReqSizeAssumption
    <3> QED BY <3>4 DEF b
  <2>5. n < End(s, i) /\ n + 1 >= i
    BY <1>1, <1>4, <2>1
  <2>6. NextPiece(p, i)
    <3> HIDE DEF i
    <3> QED BY <1>4, <1>5, <2>1, <2>2, <2>3, <2>4, <2>5 DEF NextPiece, cut
  <2> QED BY <2>1, <2>6
<1>7. ASSUME NEW i \in Starts(s), Waits(p, i) PROVE NextPiece(p, i)
  <2>1. /\ n = HeaderEnd(s, i) /\ n < End(s, i)
        /\ c.request_len = n - i + 1 /\ Holds(c.request, s, i, n - i + 1)
        /\ Len(handled[p]) + 1 = Rank(s, i)
    BY <1>7 DEF Waits
  <2> DEFINE e == End(s, i)
  <2>0. i \in Nat /\ n \in Nat /\ e \in Nat /\ i < n /\ n < e /\ i <= e
        /\ \A j \in Starts(s) : j \in Nat /\ (j > i => j > e)
    BY <1>1, <1>4, <2>1
  <2>2. n + 1 >= i /\ i + c.request_len - 1 = n
    <3> HIDE DEF n
    <3>1. n + 1 >= i /\ i + (n - i + 1) - 1 = n
      BY <2>0
    <3> QED BY <2>1, <3>1
  <2>3. cut = End(s, i)
    BY <1>1, <1>5, <2>1, <2>2
  <2>4. NoRest(c.request, s, i)
    <3> SUFFICES ASSUME NEW k \in Index, c.request[k] # Nul
                 PROVE  k <= End(s, i) - i \/ End(s, i) - i >= ReqSize - 2
      BY DEF NoRest
    <3>1. PICK j \in Arrived(s, n) : k <= End(s, j) - j
      BY <1>3 DEF Rests
    <3>2. j \in Starts(s) /\ j <= i /\ j \in Nat
      <4>1. j \in Starts(s) /\ j <= n
        BY <3>1 DEF Arrived
      <4>2. j \in Nat /\ (j > i => j > e)
        BY <2>0, <4>1
      <4> HIDE DEF n, e
      <4> QED BY <2>0, <4>1, <4>2
    <3> DEFINE a == End(s, j) - j
               b == End(s, i) - i
    <3>3. a \in Int /\ b \in Int /\ (a <= b \/ b >= ReqSize - 2) /\ k <= a
      <4>1. a \in Int /\ b \in Int /\ k <= a
        <5>1. End(s, j) \in Nat /\ j \in Nat /\ End(s, i) \in Nat /\ i \in Nat
          BY <1>4, <3>2, Zenon
        <5>2. a \in Int /\ b \in Int
          BY <5>1
        <5> QED BY <3>1, <5>2
      <4>2. j < i => a <= b \/ b >= ReqSize - 2
        BY <1>4, <3>2
      <4>3. j = i => a = b
        OBVIOUS
      <4> HIDE DEF a, b
      <4> QED BY <2>0, <3>2, <4>1, <4>2, <4>3
    <3> HIDE DEF a, b
    <3>4. k <= b \/ b >= ReqSize - 2
      BY <3>3, ReqSizeAssumption
    <3> QED BY <3>4 DEF b
  <2> QED BY <1>4, <2>1, <2>2, <2>3, <2>4 DEF NextPiece, cut
<1> QED BY <1>3, <1>6, <1>7

\* The segment that ends a request: it is dispatched as it was sent.
LEMMA TakenWhole ==
  ASSUME IInv, NEW p \in Pcbs, pcb[p] = "open", pos[p] < Len(script[p].text),
         NEW i \in Starts(script[p].text), NextPiece(p, i), NextCut(p) = End(script[p].text, i)
  PROVE  /\ ~AwaitsBody(Taken(p))
         /\ Taken(p).buf[0] = script[p].text[i]
         /\ BodyText(Taken(p)) = SentRequest(script[p].text, i).body
         /\ EndsBehind(Taken(p).buf, Con(p).request, End(script[p].text, i) - i)
<1> DEFINE s == script[p].text
           e == End(s, i)
           buf == Con(p).request
           len == Con(p).request_len
           seg == Segment(p)
           n == RxLen(len, seg)
           raw == Stored(buf, len, seg)
           r == Taken(p)
<1>1. /\ buf \in Buffer /\ buf[ReqSize - 1] = Nul /\ len \in 0 .. ReqSize - 1
      /\ s \in Seq(Token) /\ seg \in Seq(Token) /\ Len(seg) = NextCut(p) - pos[p]
      /\ pos[p] \in Nat /\ \A k \in 1 .. NextCut(p) - pos[p] : seg[k] = s[pos[p] + k]
  BY OpenFacts, CutFacts DEF http_connection_t
<1>2. /\ Readable(s, i) /\ i + len - 1 = pos[p] /\ pos[p] < e
      /\ Holds(buf, s, i, len) /\ NoRest(buf, s, i) /\ NextCut(p) = e
  BY DEF NextPiece
<1> HIDE DEF s, e, buf, len, seg
<1>3. s \in Seq(Token) /\ i \in Starts(s) /\ e = End(s, i) /\ i \in Nat /\ e \in Nat
  <2>1. s \in Seq(Token) /\ i \in Starts(s) /\ e = End(s, i)
    BY <1>1 DEF s, e
  <2>2. i \in 1 .. Len(s) /\ e \in i .. Len(s) /\ Len(s) \in Nat
    BY <2>1, StartFacts
  <2> QED BY <2>1, <2>2
<1>4. i + len <= End(s, i) /\ Piece(seg, s, i + len, End(s, i)) /\ Ended(buf)
  <2> DEFINE from == pos[p]
  <2>1. from \in Nat /\ len \in Nat /\ i + len - 1 = from /\ from < e /\ Len(seg) = e - from
    BY <1>1, <1>2, ReqSizeAssumption
  <2>2. \A k \in 1 .. e - from : seg[k] = s[from + k]
    BY <1>1, <1>2
  <2> HIDE DEF from
  <2>3. i + len <= e /\ Len(seg) = e - (i + len) + 1
    <3>1. i \in Nat /\ e \in Nat
      BY <1>3
    <3>2. from = i + len - 1
      BY <2>1, <3>1
    <3> DEFINE l == Len(seg)
    <3>3. l = e - from
      BY <2>1
    <3> HIDE DEF l
    <3>4. i + len <= e /\ l = e - (i + len) + 1
      BY <2>1, <3>1, <3>2, <3>3
    <3> QED BY <3>4 DEF l
  <2>4. \A k \in 1 .. Len(seg) : seg[k] = s[i + len - 1 + k]
    BY <2>1, <2>2
  <2> QED BY <1>1, <1>3, <2>3, <2>4 DEF Piece, Ended
<1>5. /\ len + n = Kept(s, i) /\ HoldsWhole(raw, s, i)
      /\ EndsBehind(raw, buf, e - i)
  <2>1. n = RxLen(len, seg) /\ raw = Stored(buf, len, seg)
    OBVIOUS
  <2> HIDE DEF n, raw
  <2>2. s \in Seq(Token) /\ i \in Starts(s) /\ buf \in Buffer /\ seg \in Seq(Token)
    BY <1>1, <1>3, Zenon
  <2>3. /\ Ended(buf) /\ len \in 0 .. ReqSize - 1 /\ i + len <= End(s, i)
        /\ Holds(buf, s, i, len) /\ NoRest(buf, s, i) /\ Piece(seg, s, i + len, End(s, i))
    BY <1>1, <1>2, <1>4, Zenon
  <2>4. Completes(s, i, buf, len, seg)
    BY <2>2, <2>3, Zenon DEF Completes
  <2>5. /\ len + n = Kept(s, i) /\ HoldsWhole(raw, s, i)
        /\ EndsBehind(raw, buf, End(s, i) - i)
    BY <2>1, <2>4, StoresWhole
  <2> QED BY <1>3, <2>5, Zenon
<1>6. raw \in Buffer
  BY <1>1, StoredProperties
<1>7. r.body = BodyAt(raw, Kept(s, i)) /\ r.buf = Sanitized(raw, r.body)
  <2>1. r = Received(buf, len, seg)
    BY DEF Taken, buf, len, seg
  <2>2. r.body = BodyAt(raw, len + n) /\ r.buf = Sanitized(raw, r.body)
    BY <2>1 DEF Received
  <2> QED BY <1>5, <2>2
<1> HIDE DEF raw, r, n
<1>8. /\ ~AwaitsBody(r) /\ r.buf[0] = s[i] /\ BodyText(r) = SentRequest(s, i).body
      /\ AddsNothing(r.buf, raw)
  BY <1>2, <1>3, <1>5, <1>6, <1>7, ReadsRequest
<1>9. EndsBehind(r.buf, buf, e - i)
  BY <1>5, <1>8 DEF AddsNothing, EndsBehind
<1> QED BY <1>8, <1>9 DEF r, s, e, buf

\* The header of a request whose body comes in the next segment: it is kept.
LEMMA TakenHeader ==
  ASSUME IInv, NEW p \in Pcbs, pcb[p] = "open", pos[p] < Len(script[p].text),
         NEW i \in Starts(script[p].text), NextPiece(p, i), NextCut(p) # End(script[p].text, i)
  PROVE  /\ AwaitsBody(Taken(p))
         /\ NextCut(p) = HeaderEnd(script[p].text, i) /\ NextCut(p) \in i .. End(script[p].text, i) - 1
         /\ \E j \in i .. NextCut(p) : script[p].text[j] = ContentLength
         /\ Taken(p).len = NextCut(p) - i + 1
         /\ Holds(Taken(p).buf, script[p].text, i, NextCut(p) - i + 1)
         /\ SameBehind(Taken(p).buf, Con(p).request, NextCut(p) - i)
<1> DEFINE s == script[p].text
           h == NextCut(p)
           buf == Con(p).request
           len == Con(p).request_len
           seg == Segment(p)
           raw == Stored(buf, len, seg)
           r == Taken(p)
<1>1. /\ buf \in Buffer /\ buf[ReqSize - 1] = Nul
      /\ s \in Seq(Token) /\ seg \in Seq(Token) /\ Len(seg) = h - pos[p]
      /\ pos[p] \in Nat /\ h \in Nat /\ \A k \in 1 .. h - pos[p] : seg[k] = s[pos[p] + k]
  BY OpenFacts, CutFacts DEF http_connection_t
<1>2. /\ Readable(s, i) /\ i + len - 1 = pos[p] /\ len = 0
      /\ h = HeaderEnd(s, i) /\ h < End(s, i) /\ \E j \in i .. h : s[j] = ContentLength
  BY DEF NextPiece
<1> HIDE DEF s, h, buf, len, seg
<1>3. i \in Starts(s) /\ i \in Nat /\ i < h /\ End(s, i) \in Nat
  <2>1. i \in Starts(s)
    BY DEF s
  <2>2. i \in 1 .. Len(s) /\ End(s, i) \in i .. Len(s) /\ Len(s) \in Nat
    BY <1>1, <2>1, StartFacts
  <2>3. h \in i + 1 .. End(s, i)
    BY <1>2 DEF Readable
  <2> QED BY <1>1, <2>1, <2>2, <2>3
<1>4. i - 1 = pos[p]
  BY <1>1, <1>2, <1>3
<1>5. Piece(seg, s, i, h) /\ Ended(buf)
  <2> DEFINE from == pos[p]
  <2>1. /\ from \in Nat /\ h \in Nat /\ i - 1 = from /\ Len(seg) = h - from
        /\ \A k \in 1 .. h - from : seg[k] = s[from + k]
    BY <1>1, <1>4
  <2> HIDE DEF from
  <2>2. Len(seg) = h - i + 1
    <3> DEFINE l == Len(seg)
    <3>1. l = h - from /\ i \in Nat /\ from = i - 1 /\ h \in Nat
      BY <1>3, <2>1
    <3> HIDE DEF l
    <3>2. l = h - i + 1
      BY <3>1
    <3> QED BY <3>2 DEF l
  <2>3. \A k \in 1 .. Len(seg) : seg[k] = s[i - 1 + k]
    BY <2>1
  <2> QED BY <1>1, <2>2, <2>3 DEF Piece, Ended
<1>6. r = Received(buf, len, seg)
  BY DEF Taken, buf, len, seg
<1>7. raw = Stored(buf, len, seg)
  OBVIOUS
<1> HIDE DEF raw, r
<1>8. /\ AwaitsBody(r) /\ r.len = h - i + 1 /\ r.buf = raw
      /\ Holds(raw, s, i, h - i + 1)
      /\ SameBehind(raw, buf, h - i)
  <2>1. Announces(s, i, h)
    BY <1>2 DEF Announces
  <2>2. s \in Seq(Token) /\ i \in Starts(s) /\ buf \in Buffer /\ seg \in Seq(Token)
    BY <1>1, <1>3, Zenon
  <2>3. /\ Readable(s, i) /\ h \in Nat /\ h = HeaderEnd(s, i) /\ h < End(s, i) /\ len = 0
        /\ Ended(buf) /\ Piece(seg, s, i, h)
    BY <1>1, <1>2, <1>5, Zenon
  <2>4. Begins(s, i, h, buf, seg) /\ len = 0
    BY <2>1, <2>2, <2>3, Zenon DEF Begins
  <2> QED BY <1>6, <1>7, <2>4, TakesHeader
<1>9. h \in i .. End(s, i) - 1
  BY <1>1, <1>2, <1>3
<1> QED BY <1>2, <1>8, <1>9 DEF r, s, h, buf

\* A segment of a sound stream.
LEMMA RecvFrame ==
  ASSUME IInv, \A c \in Scripts : WellCut(c), NEW p \in Pcbs, Recv(p), FrameOf(p), SentOf(p)
  PROVE  SentOf(p)' /\ (fault' \/ FrameOf(p)')
<1> DEFINE s == script[p].text
           cut == NextCut(p)
           t == Taken(p)
           old == Con(p).request
<1>1. /\ Receives(p) /\ pcb[p] = "open" /\ pos[p] < Len(s)
      /\ script' = script /\ pos' = [pos EXCEPT ![p] = cut]
  BY DEF Recv, RecvAwaitsBody, RecvNoRoute, RecvGivesUp, RecvAnswers, RecvWithoutServer,
         Dispatches, Receives
<1>2. script[p] \in Scripts /\ s \in Seq(Token) /\ pos[p] \in Nat /\ cut \in Nat /\ cut > pos[p]
      /\ arg[p] \in Records /\ Con(p) \in http_connection_t /\ handled[p] \in Seq(Request)
  <2>1. script[p] \in Scripts /\ s \in Seq(Token) /\ pos[p] \in Nat
        /\ cut \in pos[p] + 1 .. Len(s)
    BY <1>1, CutFacts
  <2>2. cut \in Nat /\ cut > pos[p]
    BY <2>1
  <2>3. arg[p] \in Records /\ Con(p) \in http_connection_t
    BY <1>1, OpenFacts
  <2>4. handled[p] \in Seq(Request)
    BY DEF IInv, TypeOK
  <2> QED BY <2>1, <2>2, <2>3, <2>4
<1>3. PICK i \in Starts(s) : NextPiece(p, i)
  BY <1>1, HasNextPiece
<1> DEFINE e == End(s, i)
<1>4. pos'[p] = cut /\ script'[p] = script[p]
  BY <1>1 DEF IInv, TypeOK
<1>5. Rests(p) /\ Len(handled[p]) + 1 = Rank(s, i) /\ pos[p] < e
      /\ i \in Nat /\ e \in Nat /\ i <= e
  <2>1. i \in 1 .. Len(s) /\ e \in i .. Len(s) /\ Len(s) \in Nat
    BY <1>2, StartFacts
  <2>2. Rests(p) /\ Len(handled[p]) + 1 = Rank(s, i) /\ pos[p] < e
    BY <1>1, <1>3 DEF FrameOf, NextPiece
  <2> QED BY <2>1, <2>2
<1> HIDE DEF s, e, cut, t
<1>6. ASSUME NEW new, EndsBehind(new, old, e - i), cut \in i .. e
      PROVE  \A k \in Index : new[k] # Nul => \E j \in Arrived(s, cut) : k <= End(s, j) - j
  <2> SUFFICES ASSUME NEW k \in Index, new[k] # Nul
               PROVE  \E j \in Arrived(s, cut) : k <= End(s, j) - j
    OBVIOUS
  <2>1. CASE k <= e - i
    <3>1. i \in Arrived(s, cut)
      BY <1>2, <1>5, <1>6 DEF Arrived
    <3> QED BY <2>1, <3>1 DEF e
  <2>2. CASE old[k] # Nul
    <3>1. PICK j \in Arrived(s, pos[p]) : k <= End(s, j) - j
      BY <1>5, <2>2 DEF Rests, s
    <3>2. j \in Arrived(s, cut)
      <4>1. j \in Starts(s) /\ j <= pos[p] /\ j \in Nat
        BY <1>2, <3>1 DEF Arrived, Starts
      <4> QED BY <1>2, <4>1 DEF Arrived
    <3> QED BY <3>1, <3>2
  <2> QED BY <1>6, <2>1, <2>2 DEF EndsBehind
<1>7. CASE cut # e
  <2>1. /\ AwaitsBody(t) /\ cut = HeaderEnd(s, i) /\ cut \in i .. e - 1
        /\ \E j \in i .. cut : s[j] = ContentLength
        /\ t.len = cut - i + 1 /\ Holds(t.buf, s, i, cut - i + 1)
        /\ SameBehind(t.buf, old, cut - i)
    BY <1>1, <1>3, <1>7, TakenHeader DEF s, e, cut, t
  <2> DEFINE kept == [Con(p) EXCEPT !.request = t.buf, !.request_len = t.len]
  <2>2. /\ con' = [con EXCEPT ![arg[p]] = kept]
        /\ UNCHANGED <<pcb, arg, handled>>
    BY <2>1 DEF Recv, RecvAwaitsBody, RecvNoRoute, RecvGivesUp, RecvAnswers, RecvWithoutServer,
                Dispatches, Con, t
  <2>3. kept.request = t.buf /\ kept.request_len = cut - i + 1
    BY <1>2, <2>1 DEF http_connection_t
  <2> HIDE DEF kept
  <2>4. Con(p)' = kept
    BY <1>2, <2>2 DEF Con, IInv, TypeOK
  <2>5. EndsBehind(t.buf, old, e - i) /\ cut \in i .. e
    <3>1. cut \in i .. e /\ cut - i <= e - i
      BY <1>5, <2>1
    <3>2. \A k \in Index : k > cut - i \/ k <= e - i
      BY <1>2, <1>5, <3>1, ReqSizeAssumption
    <3> QED BY <2>1, <3>1, <3>2 DEF SameBehind, EndsBehind
  <2>6. Rests(p)'
    <3>1. \A k \in Index : t.buf[k] # Nul => \E j \in Arrived(s, cut) : k <= End(s, j) - j
      BY <1>6, <2>5
    <3> QED BY <1>4, <2>3, <2>4, <3>1 DEF Rests, s
  <2>7. Waits(p, i)'
    <3>1. cut < e
      BY <1>2, <1>5, <2>1
    <3> QED BY <1>3, <1>4, <1>5, <2>1, <2>2, <2>3, <2>4, <3>1 DEF Waits, s, e
  <2>8. FrameOf(p)'
    BY <1>1, <1>2, <1>3, <1>4, <2>2, <2>6, <2>7 DEF FrameOf, s
  <2>9. SentOf(p)'
    BY <1>4, <2>2 DEF SentOf
  <2> QED BY <2>8, <2>9
<1>8. CASE cut = e
  <2>1. /\ ~AwaitsBody(t) /\ t.buf[0] = s[i] /\ BodyText(t) = SentRequest(s, i).body
        /\ EndsBehind(t.buf, old, e - i)
    BY <1>1, <1>3, <1>8, TakenWhole DEF s, e, cut, t
  <2>2. ~RecvAwaitsBody(p)
    BY <2>1 DEF RecvAwaitsBody, t
  <2>3. ASSUME NEW route \in Lines, CallHandler(p, route)
        PROVE  SentOf(p)' /\ Len(handled'[p]) = Len(handled[p]) + 1
    <3> DEFINE new == [line |-> t.buf[0], route |-> route, body |-> BodyText(t)]
    <3>1. handled'[p] = Append(handled[p], new)
      BY <2>3 DEF CallHandler, IInv, TypeOK, t
    <3>2. [line |-> new.line, body |-> new.body] = SentRequest(s, i)
      BY <2>1 DEF SentRequest
    <3> HIDE DEF new
    <3>3. /\ Len(handled'[p]) = Len(handled[p]) + 1 /\ handled'[p][Len(handled[p]) + 1] = new
          /\ DOMAIN handled'[p] = 1 .. Len(handled[p]) + 1 /\ DOMAIN handled[p] = 1 .. Len(handled[p])
          /\ \A k \in 1 .. Len(handled[p]) : handled'[p][k] = handled[p][k]
      BY <1>2, <3>1
    <3>4. SentOf(p)'
      <4> SUFFICES ASSUME NEW k \in DOMAIN handled'[p]
                   PROVE  \E j \in Starts(s) :
                            /\ Rank(s, j) = k
                            /\ [line |-> handled'[p][k].line, body |-> handled'[p][k].body] = SentRequest(s, j)
        BY <1>4 DEF SentOf, s
      <4>1. CASE k = Len(handled[p]) + 1
        BY <1>5, <3>2, <3>3, <4>1
      <4>2. CASE k \in 1 .. Len(handled[p])
        BY <3>3, <4>2 DEF SentOf, s
      <4> QED BY <1>2, <3>3, <4>1, <4>2
    <3> QED BY <3>3, <3>4
  <2>4. CASE ErrorClose(p)
    <3>1. pcb'[p] = "free"
      BY <1>2, <2>4 DEF ErrorClose, tcp_close, tcp_close_client_connection, IInv, TypeOK
    <3>2. handled' = handled \/ \E route \in Lines : CallHandler(p, route)
      BY <2>2 DEF Recv, RecvNoRoute, RecvGivesUp, RecvAnswers, RecvWithoutServer
    <3>3. SentOf(p)'
      BY <1>4, <2>3, <3>2 DEF SentOf
    <3> QED BY <3>1, <3>3 DEF FrameOf
  <2>5. CASE RecvAnswers(p)
    <3>0. PICK route \in Lines :
            /\ CallHandler(p, route)
            /\ \E a : con' = [con EXCEPT ![arg[p]] = Answered(Con(p), t, a)]
            /\ UNCHANGED <<pcb, arg>>
      BY <2>5 DEF RecvAnswers, Con, t
    <3>1. PICK a :
            /\ CallHandler(p, route)
            /\ con' = [con EXCEPT ![arg[p]] = Answered(Con(p), t, a)]
            /\ UNCHANGED <<pcb, arg>>
      BY <3>0
    <3> DEFINE c == Answered(Con(p), t, a)
    <3>2. c.request = t.buf /\ c.request_len = 0
      BY <1>2 DEF Answered, http_connection_t
    <3> HIDE DEF c
    <3>3. Con(p)' = c
      BY <1>2, <3>1 DEF Con, IInv, TypeOK, c
    <3>4. Rests(p)'
      <4>1. \A k \in Index : t.buf[k] # Nul => \E j \in Arrived(s, cut) : k <= End(s, j) - j
        BY <1>5, <1>6, <1>8, <2>1
      <4> QED BY <1>4, <3>2, <3>3, <4>1 DEF Rests, s
    <3>5. Idle(p)'
      <4>1. e = Len(s) \/ e + 1 \in Starts(s)
        BY <1>2, StartFacts DEF e
      <4>2. Cardinality(Arrived(s, e)) = Rank(s, i)
        BY <1>2, <1>5, RankFacts DEF e
      <4>3. Len(handled'[p]) = Cardinality(Arrived(s, cut))
        BY <1>5, <1>8, <2>3, <3>1, <4>2
      <4> QED BY <1>4, <1>8, <3>2, <3>3, <4>1, <4>3 DEF Idle, s
    <3>6. FrameOf(p)'
      BY <1>1, <1>2, <1>4, <3>1, <3>4, <3>5 DEF FrameOf
    <3> QED BY <2>3, <3>1, <3>6
  <2>6. CASE RecvWithoutServer(p) /\ ~ErrorClose(p)
    <3>1. fault' /\ handled' = handled
      BY <2>6 DEF RecvWithoutServer
    <3> QED BY <1>4, <3>1 DEF SentOf
  <2> QED BY <2>2, <2>4, <2>5, <2>6 DEF Recv, RecvNoRoute, RecvGivesUp
<1> QED BY <1>7, <1>8

\* A connection begins with the first token of its stream.
LEMMA BeginsIdle ==
  ASSUME NEW c \in Script, WellCut(c)
  PROVE  1 \in Starts(c.text) /\ Cardinality(Arrived(c.text, 0)) = 0
<1>1. c.text \in Seq(Token) /\ c.text # <<>> /\ c.text[1] \in Lines
  BY DEF Script, WellCut
<1>2. Len(c.text) \in Nat \ {0}
  BY <1>1, EmptySeq
<1>3. 1 \in Starts(c.text)
  BY <1>1, <1>2 DEF Starts
<1>4. Arrived(c.text, 0) = {}
  BY <1>1 DEF Arrived, Starts
<1> QED BY <1>3, <1>4, FS_EmptySet

LEMMA CloseFrame ==
  ASSUME IInv, NEW p \in Pcbs, NEW to \in {"free", "closing"}, SentOf(p),
         tcp_close_client_connection(p, arg[p], to), UNCHANGED clientVars
  PROVE  SentOf(p)' /\ FrameOf(p)'
<1>1. pcb'[p] = to
  BY DEF tcp_close_client_connection, IInv, TypeOK
<1> QED BY <1>1 DEF FrameOf, SentOf, clientVars

LEMMA LwipFrame ==
  ASSUME IInv, \A c \in Scripts : WellCut(c), NEW p \in Pcbs, Lwip(p), FrameOf(p), SentOf(p)
  PROVE  SentOf(p)' /\ (fault' \/ FrameOf(p)')
<1> USE DEF clientVars, conVars
<1>1. CASE Syn(p)
  <2>1. pcb'[p] = "synrcvd" /\ script'[p] \in Scripts /\ pos'[p] = 0 /\ handled'[p] = <<>>
    BY <1>1 DEF Syn, IInv, TypeOK
  <2> QED BY <2>1 DEF FrameOf, SentOf
<1>2. CASE NotAccepted(p) \/ CloseDone(p) \/ ErrAbort(p)
  <2>1. pcb'[p] = "free" /\ UNCHANGED <<script, handled>>
    BY <1>2 DEF NotAccepted, CloseDone, Dropped, ErrAbort, IInv, TypeOK
  <2> QED BY <2>1 DEF FrameOf, SentOf
<1>3. ASSUME NEW r \in Records, http_server_accept(p, r) PROVE SentOf(p)' /\ FrameOf(p)'
  <2>1. /\ pcb'[p] = "open" /\ Con(p)' = [Zeroed EXCEPT !.server = arg[p], !.pcb = p]
        /\ script[p] \in Scripts /\ pos[p] = 0 /\ handled[p] = <<>>
        /\ UNCHANGED <<script, pos, handled>>
    BY <1>3 DEF http_server_accept, FrameOf, Con, IInv, TypeOK
  <2>2. Con(p)'.request = EmptyBuffer /\ Con(p)'.request_len = 0
    BY <2>1 DEF Zeroed
  <2>3. 1 \in Starts(script[p].text) /\ Cardinality(Arrived(script[p].text, 0)) = 0
    BY <2>1, BeginsIdle, ScriptsAssumption
  <2>4. Idle(p)'
    <3>1. 0 + 1 = 1 /\ Len(handled[p]) = 0
      BY <2>1
    <3> QED BY <2>1, <2>2, <2>3, <3>1 DEF Idle
  <2>5. Rests(p)'
    BY <2>2 DEF Rests, EmptyBuffer
  <2> QED BY <2>1, <2>4, <2>5 DEF FrameOf, SentOf
<1>4. CASE Recv(p)
  BY <1>4, RecvFrame
<1>5. CASE RecvFin(p) \/ tcp_server_poll(p) \/ ErrReset(p)
  BY <1>5, CloseFrame DEF RecvFin, tcp_server_poll, ErrReset, Closes, tcp_close
<1>6. ASSUME NEW len \in 1 .. inflight[p], tcp_server_sent(p, len) PROVE SentOf(p)' /\ FrameOf(p)'
  <2>1. CASE Closes(p)
    BY <2>1, CloseFrame DEF Closes, tcp_close
  <2>2. CASE ~Closes(p)
    <3> DEFINE counted == [con[arg[p]] EXCEPT !.sent_len = @ + len]
    <3>1. /\ con' = [con EXCEPT ![arg[p]] = counted]
          /\ UNCHANGED <<pcb, arg, script, pos, handled>> /\ pcb[p] = "open"
      BY <1>6, <2>2 DEF tcp_server_sent
    <3>2. counted.request = Con(p).request /\ counted.request_len = Con(p).request_len
      BY <3>1, OpenFacts DEF Con, http_connection_t
    <3> HIDE DEF counted
    <3>3. Con(p)' = counted
      BY <3>1, OpenFacts DEF Con, IInv, TypeOK
    <3> QED BY <3>1, <3>2, <3>3 DEF FrameOf, SentOf, Rests, Idle, Waits
  <2> QED BY <2>1, <2>2
<1> QED BY <1>1, <1>2, <1>3, <1>4, <1>5, <1>6 DEF Lwip

LEMMA NextFrames ==
  ASSUME IInv, \A c \in Scripts : WellCut(c), Frames, [Next]_vars
  PROVE  Frames'
<1>1. CASE UNCHANGED vars
  BY <1>1 DEF vars, Frames, FrameOf, SentOf, Rests, Idle, Waits, Con
<1>2. CASE ~fault /\ Main
  <2>1. CASE \A q \in Pcbs : Same(q)
    BY <1>2, <2>1, SameFrame DEF Frames
  <2>2. CASE \A q \in Pcbs : pcb'[q] = "free" /\ inflight'[q] = 0 /\ handled'[q] = <<>>
    BY <2>2 DEF Frames, FrameOf, SentOf
  <2> QED BY <1>2, <2>1, <2>2, MainLocal
<1>3. ASSUME ~fault, NEW p \in Pcbs, Lwip(p) PROVE Frames'
  <2>1. FrameOf(p) /\ SentOf(p)
    BY <1>3 DEF Frames
  <2>2. SentOf(p)' /\ (fault' \/ FrameOf(p)')
    BY <1>3, <2>1, LwipFrame
  <2>3. ASSUME NEW q \in Pcbs \ {p} PROVE SentOf(q)' /\ FrameOf(q)'
    BY <1>3, LwipLocal, SameFrame DEF Frames
  <2> QED BY <2>2, <2>3 DEF Frames
<1> QED BY <1>1, <1>2, <1>3 DEF Next, Stopped

\* As long as nothing more than the last request's header is kept, what has
\* been handled is what has arrived.
LEMMA FrameIsComplete ==
  ASSUME NEW s \in Seq(Token), NEW n \in 0 .. Len(s)
  PROVE  /\ Complete(SubSeq(s, 1, n)) <= Cardinality(Arrived(s, n))
         /\ \A i \in Starts(s) :
              /\ Readable(s, i) /\ n = HeaderEnd(s, i) /\ n < End(s, i) /\ Announces(s, i, n)
              => Complete(SubSeq(s, 1, n)) <= Rank(s, i) - 1
<1> DEFINE t     == SubSeq(s, 1, n)
           whole == {i \in Starts(t) :
                      /\ \E j \in i .. End(t, i) : t[j] = Marker
                      /\ (\E j \in i .. End(t, i) : t[j] = ContentLength) => t[End(t, i)] # Marker}
<1>1. Len(s) \in Nat /\ n \in Nat
  BY LenProperties
<1>2. t \in Seq(Token) /\ Len(t) = n /\ \A k \in 1 .. n : t[k] = s[k]
  <2>1. \A k \in 1 .. n : s[k] \in Token
    BY <1>1
  <2>2. /\ SubSeq(s, 1, n) \in Seq(Token)
        /\ Len(SubSeq(s, 1, n)) = IF 1 <= n THEN n - 1 + 1 ELSE 0
        /\ \A k \in 1 .. n - 1 + 1 : SubSeq(s, 1, n)[k] = s[1 + k - 1]
    BY <1>1, <2>1, SubSeqProperties
  <2>3. Len(t) = n
    BY <1>1, <2>2
  <2>4. ASSUME NEW k \in 1 .. n PROVE t[k] = s[k]
    <3>1. k \in 1 .. n - 1 + 1 /\ 1 + k - 1 = k
      BY <1>1
    <3> QED BY <2>2, <3>1
  <2> QED BY <2>2, <2>3, <2>4
<1>3. Complete(SubSeq(s, 1, n)) = Cardinality(whole)
  BY DEF Complete
<1> HIDE DEF t
<1>4. Starts(t) = Arrived(s, n)
  <2>1. DOMAIN t = 1 .. n /\ DOMAIN s = 1 .. Len(s)
    BY <1>2, LenProperties
  <2> QED BY <1>1, <1>2, <2>1 DEF Starts, Arrived
<1>5. whole \subseteq Arrived(s, n)
  BY <1>4
<1>6. \A m \in Nat : IsFiniteSet(Arrived(s, m))
  <2>1. IsFiniteSet(1 .. Len(s))
    BY <1>1, FS_Interval
  <2>2. \A m \in Nat : Arrived(s, m) \subseteq 1 .. Len(s)
    BY LenProperties DEF Arrived, Starts
  <2> QED BY <2>1, <2>2, FS_Subset
<1>7. Cardinality(whole) <= Cardinality(Arrived(s, n))
  BY <1>1, <1>5, <1>6, FS_Subset
<1>8. ASSUME NEW i \in Starts(s),
             Readable(s, i), n = HeaderEnd(s, i), n < End(s, i), Announces(s, i, n)
      PROVE  Cardinality(whole) <= Rank(s, i) - 1
  <2>1. i \in Nat \ {0} /\ i < n /\ s[n] = Marker
    BY <1>8, <1>1, StartFacts DEF Readable
  <2>2. i \in Starts(t) /\ \A j \in Starts(t) : j \in Nat /\ j <= i
    <3>1. Starts(s) \subseteq 1 .. Len(s) /\ \A j \in Starts(s) : j > i => j > End(s, i)
      BY <1>8, StartFacts, LenProperties DEF Starts
    <3>2. End(s, i) \in Nat
      BY <1>1, <1>8, StartFacts
    <3>3. \A j \in Starts(s) : j <= n => j \in Nat /\ j <= i
      BY <1>1, <1>8, <2>1, <3>1, <3>2
    <3> QED BY <1>4, <2>1, <3>3, <1>8 DEF Arrived
  <2>3. End(t, i) = n
    <3>1. End(t, i) \in i .. n /\ (End(t, i) = n \/ End(t, i) + 1 \in Starts(t))
      BY <1>2, <2>2, StartFacts
    <3> QED BY <1>1, <2>1, <2>2, <3>1
  <2>4. i \notin whole
    <3>1. \E j \in i .. n : t[j] = ContentLength
      BY <1>1, <1>2, <1>8, <2>1 DEF Announces
    <3>2. t[n] = Marker
      BY <1>1, <1>2, <2>1
    <3> QED BY <2>3, <3>1, <3>2
  <2>5. whole \subseteq Arrived(s, i - 1)
    <3>1. \A j \in whole : j \in Starts(s) /\ j \in Nat /\ j <= i /\ j # i
      BY <1>4, <2>2, <2>4 DEF Arrived
    <3> HIDE DEF whole
    <3> QED BY <2>1, <3>1 DEF Arrived
  <2> HIDE DEF whole
  <2>6. Cardinality(whole) <= Cardinality(Arrived(s, i - 1)) /\ i - 1 \in Nat
    BY <1>6, <2>1, <2>5, FS_Subset
  <2>7. Cardinality(Arrived(s, i - 1)) \in Nat
    BY <1>6, <2>6, FS_CardinalityType
  <2>8. Rank(s, i) = Cardinality(Arrived(s, i - 1)) + 1
    BY <1>8, RankFacts
  <2> QED BY <2>6, <2>7, <2>8
<1> HIDE DEF whole
<1> QED BY <1>3, <1>7, <1>8

LEMMA FramesInvariance ==
  ASSUME \A c \in Scripts : WellCut(c)
  PROVE  Spec => []Frames
<1>1. Init => Frames
  BY DEF Init, Frames, FrameOf, SentOf
<1>2. IInv /\ Frames /\ [Next]_vars => Frames'
  BY NextFrames
<1> QED BY <1>1, <1>2, Invariance, PTL DEF Spec

\* For every number of connections and records, every buffer and every set of
\* streams whose requests end with a segment and are cut at most behind their
\* header: each handler of a connection is given the request that the client
\* sent, in the order it sent them, with the part of its body that the buffer
\* holds.  Nothing of an earlier request is taken for a part of a later one,
\* though the buffer is not cleared between them.
THEOREM HandlersGetWhatWasSent ==
  ASSUME \A c \in Scripts : WellCut(c)
  PROVE  Spec => []HandledAsSent
<1>1. Frames => HandledAsSent
  BY DEF Frames, SentOf, HandledAsSent
<1> QED BY <1>1, FramesInvariance, PTL

\* And none of them is kept waiting: when a request has arrived with the body
\* it announces, its handler has been called.
THEOREM NothingKeptWaiting ==
  ASSUME \A c \in Scripts : WellCut(c)
  PROVE  Spec => []CompleteMeansHandled
<1>1. ASSUME IInv, Frames PROVE CompleteMeansHandled
  <2> SUFFICES ASSUME NEW p \in Pcbs, pcb[p] = "open", ~fault
               PROVE  Len(handled[p]) >= Complete(SubSeq(script[p].text, 1, pos[p]))
    BY DEF CompleteMeansHandled
  <2> DEFINE s == script[p].text
  <2>1. /\ script[p] \in Scripts /\ FrameOf(p) /\ pos[p] \in Nat
        /\ handled[p] \in Seq(Request)
    BY <1>1 DEF Frames, FrameOf, IInv, TypeOK
  <2>2. script[p] \in Script /\ WellCut(script[p]) /\ s \in Seq(Token) /\ Len(s) \in Nat
    BY <2>1, ScriptsAssumption, LenProperties DEF Script
  <2>3. Len(handled[p]) \in Nat
    BY <2>1, LenProperties
  <2> HIDE DEF s
  <2>4. CASE Idle(p)
    <3>1. Len(handled[p]) = Cardinality(Arrived(s, pos[p])) /\ (pos[p] = Len(s) \/ pos[p] + 1 \in Starts(s))
      BY <2>4 DEF Idle, s
    <3>2. pos[p] \in 0 .. Len(s)
      BY <2>1, <2>2, <3>1 DEF Starts
    <3>3. Complete(SubSeq(s, 1, pos[p])) <= Cardinality(Arrived(s, pos[p]))
      BY <2>2, <3>2, FrameIsComplete
    <3> QED BY <3>1, <3>3 DEF s
  <2>5. ASSUME NEW i \in Starts(s), Waits(p, i)
        PROVE  Len(handled[p]) >= Complete(SubSeq(s, 1, pos[p]))
    <3>1. /\ pos[p] = HeaderEnd(s, i) /\ pos[p] < End(s, i) /\ Announces(s, i, pos[p])
          /\ Len(handled[p]) + 1 = Rank(s, i)
      BY <2>5 DEF Waits, Announces, s
    <3>2. Readable(s, i)
      BY <2>2, <2>5, WellCutFacts DEF s
    <3>3. pos[p] \in 0 .. Len(s)
      BY <2>1, <2>2, <2>5, <3>1, StartFacts
    <3>4. Complete(SubSeq(s, 1, pos[p])) <= Rank(s, i) - 1
      BY <2>2, <2>5, <3>1, <3>2, <3>3, FrameIsComplete
    <3>5. Rank(s, i) - 1 = Len(handled[p])
      BY <2>3, <3>1
    <3> QED BY <3>4, <3>5
  <2> QED BY <2>1, <2>4, <2>5 DEF FrameOf, s
<1>2. IInv /\ Frames => CompleteMeansHandled
  BY <1>1
<1> QED BY <1>2, Invariance, FramesInvariance, PTL
=============================================================================
