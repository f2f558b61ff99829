-------------------------- MODULE HttpServerProofs ---------------------------
(***************************************************************************)
(* Theorems about HttpServer.  The inductive invariant IInv says which     *)
(* record belongs to which connection; it holds for any number of clients, *)
(* any heap, any buffer size and whatever the clients send.                *)
(***************************************************************************)
EXTENDS HttpServer, TLAPS, WellFoundedInduction, SequenceTheorems

USE DEF Index, Buffer

\* A set of natural numbers that is not empty has a least element.
LEMMA MinOfNat ==
  ASSUME NEW S \in SUBSET Nat, S # {}
  PROVE  Min(S) \in S /\ \A x \in S : Min(S) <= x
<1> DEFINE Below == {pair \in Nat \X Nat : pair[1] < pair[2]}
<1>1. IsWellFoundedOn(Below, Nat)
  BY NatLessThanWellFounded DEF OpToRel
<1>2. \E x \in S : \A y \in S : x <= y
  <2>1. \E x \in S : \A y \in S : ~(<<y, x>> \in Below)
    <3> HIDE DEF Below
    <3> QED BY <1>1, WFMin
  <2>2. ASSUME NEW x \in S, NEW y \in S, ~(<<y, x>> \in Below)
        PROVE  x <= y
    <3>1. ~(y < x)
      BY <2>2
    <3> QED BY <3>1
  <2> HIDE DEF Below
  <2> QED BY <2>1, <2>2
<1> QED BY <1>2 DEF Min

\* Bytes are stored inside the buffer, and never in its last cell.
LEMMA StoredProperties ==
  ASSUME NEW buf \in Buffer, buf[ReqSize - 1] = Nul,
         NEW len \in 0 .. ReqSize - 1, NEW seg \in Seq(Token)
  PROVE  /\ len + RxLen(len, seg) \in 0 .. ReqSize - 1
         /\ Stored(buf, len, seg) \in Buffer
         /\ Stored(buf, len, seg)[ReqSize - 1] = Nul
<1>1. Len(seg) \in Nat
  OBVIOUS
<1>2. RxLen(len, seg) \in 0 .. ReqSize - len - 1 /\ RxLen(len, seg) <= Len(seg)
  BY <1>1, ReqSizeAssumption DEF RxLen
<1>3. ASSUME NEW i \in len .. len + RxLen(len, seg) - 1
      PROVE  seg[i - len + 1] \in Cell
  BY <1>1, <1>2, ReqSizeAssumption DEF Cell
<1> QED BY <1>2, <1>3, ReqSizeAssumption DEF Stored

\* A body found in a terminated buffer starts inside it.
LEMMA BodyAtProperties ==
  ASSUME NEW buf \in Buffer, buf[ReqSize - 1] = Nul, NEW len \in Nat
  PROVE  BodyAt(buf, len) \in Index \cup {Null}
<1>1. CASE Markers(buf) = {}
  BY <1>1 DEF BodyAt
<1>2. CASE Markers(buf) # {}
  <2> DEFINE m == Min(Markers(buf))
             Rest == {i \in Index : i > m /\ buf[i] # Marker}
  <2>1. Markers(buf) \in SUBSET Nat
    BY ReqSizeAssumption DEF Markers, Text
  <2>2. m \in Markers(buf)
    BY <1>2, <2>1, MinOfNat
  <2>3. m \in Index /\ m < ReqSize - 1
    <3>1. m \in Index /\ buf[m] = Marker
      <4> HIDE DEF m
      <4> QED BY <2>2 DEF Markers, Text
    <3> HIDE DEF m
    <3>2. m # ReqSize - 1
      BY <3>1 DEF Marker, Nul
    <3> QED BY <3>1, <3>2, ReqSizeAssumption
  <2>4. ReqSize - 1 \in Rest
    <3> HIDE DEF m
    <3>1. ReqSize - 1 \in Index /\ ReqSize - 1 > m
      BY <2>3, ReqSizeAssumption
    <3>2. buf[ReqSize - 1] # Marker
      BY DEF Marker, Nul
    <3> QED BY <3>1, <3>2
  <2>5. Min(Rest) \in Rest
    <3>1. Rest \in SUBSET Nat /\ Rest # {}
      BY <2>4, ReqSizeAssumption
    <3> HIDE DEF Rest
    <3> QED BY <3>1, MinOfNat
  <2>6. BodyAt(buf, len) \in {Null, Min(Rest)}
    BY <1>2 DEF BodyAt
  <2> QED BY <2>5, <2>6
<1> QED BY <1>1, <1>2

\* tcp_server_recv keeps the buffer terminated, and what it takes for the
\* body lies inside it.
LEMMA ReceivedProperties ==
  ASSUME NEW buf \in Buffer, buf[ReqSize - 1] = Nul,
         NEW len \in 0 .. ReqSize - 1, NEW seg \in Seq(Token)
  PROVE  LET r == Received(buf, len, seg)
         IN  /\ r.buf \in Buffer /\ r.buf[ReqSize - 1] = Nul
             /\ r.len \in 0 .. ReqSize - 1
             /\ r.body \in Index \cup {Null}
<1> DEFINE newlen == len + RxLen(len, seg)
           raw    == Stored(buf, len, seg)
           body   == BodyAt(raw, newlen)
           r      == Received(buf, len, seg)
<1>1. raw \in Buffer /\ raw[ReqSize - 1] = Nul /\ newlen \in 0 .. ReqSize - 1
  BY StoredProperties
<1>2. newlen \in Nat
  BY <1>1, ReqSizeAssumption
<1>3. body \in Index \cup {Null}
  <2> HIDE DEF raw, newlen
  <2> QED BY <1>1, <1>2, BodyAtProperties
<1>4. r.buf = Sanitized(raw, body) /\ r.len = newlen /\ r.body = body
  BY DEF Received
<1>5. Sanitized(raw, body) \in Buffer /\ Sanitized(raw, body)[ReqSize - 1] = Nul
  <2> HIDE DEF raw, body
  <2>1. ReqSize - 1 \in Index /\ Nul \in Cell
    BY ReqSizeAssumption DEF Cell
  <2> QED BY <1>1, <2>1 DEF Sanitized
<1> QED BY <1>1, <1>3, <1>4, <1>5

\* The body a handler reads ends inside the buffer.
LEMMA BodyTextType ==
  ASSUME NEW r, r.buf \in Buffer, r.buf[ReqSize - 1] = Nul, r.body \in Index \cup {Null}
  PROVE  BodyText(r) \in Seq(Cell)
<1>1. CASE r.body = Null
  BY <1>1 DEF BodyText
<1>2. CASE r.body # Null
  <2> DEFINE Ends == {ReqSize} \cup {i \in Index : i >= r.body /\ r.buf[i] = Nul}
             n    == Min(Ends) - r.body
  <2>1. r.body \in Index
    BY <1>2
  <2>2. Ends \in SUBSET Nat /\ ReqSize - 1 \in Ends /\ \A e \in Ends : e >= r.body
    BY <2>1, ReqSizeAssumption
  <2>3. Min(Ends) \in Ends /\ Min(Ends) <= ReqSize - 1
    <3> HIDE DEF Ends
    <3> QED BY <2>2, MinOfNat
  <2>4. n \in Nat /\ r.body + n <= ReqSize - 1
    <3> HIDE DEF Ends
    <3>1. Min(Ends) \in Nat /\ Min(Ends) <= ReqSize - 1 /\ Min(Ends) >= r.body
      BY <2>2, <2>3
    <3> QED BY <2>1, <3>1, ReqSizeAssumption
  <2>5. BodyText(r) = [k \in 1 .. n |-> r.buf[r.body + k - 1]]
    BY <1>2 DEF BodyText
  <2> HIDE DEF n
  <2>6. \A k \in 1 .. n : r.buf[r.body + k - 1] \in Cell
    BY <2>1, <2>4, ReqSizeAssumption
  <2> QED BY <2>4, <2>5, <2>6, SeqDef
<1> QED BY <1>1, <1>2

-----------------------------------------------------------------------------
USE DEF Callbacks

IInv == TypeOK /\ Ownership /\ RequestTerminated

\* A record fresh from calloc.
LEMMA ZeroedType ==
  Zeroed \in http_connection_t /\ Zeroed.request[ReqSize - 1] = Nul
  BY ReqSizeAssumption DEF Zeroed, http_connection_t, EmptyBuffer, Cell

\* What a callback on an open connection may rely on.
LEMMA OpenFacts ==
  ASSUME IInv, NEW p \in Pcbs, pcb[p] = "open"
  PROVE  /\ arg[p] \in Records /\ arg[p] \in live /\ arg[p] \notin orphans
         /\ Con(p) \in http_connection_t /\ Con(p).pcb = p
         /\ Con(p).request[ReqSize - 1] = Nul
<1>1. arg[p] \in live \ orphans /\ con[arg[p]].pcb = p
  BY DEF IInv, Ownership, OpenOwns
<1>2. arg[p] \in Records
  BY <1>1 DEF IInv, TypeOK
<1> QED BY <1>1, <1>2 DEF IInv, TypeOK, RequestTerminated, Con

\* What SubSeq cuts out of a stream.
LEMMA PieceProperties ==
  ASSUME NEW s \in Seq(Token), NEW m \in Nat, NEW n \in m + 1 .. Len(s)
  PROVE  /\ SubSeq(s, m + 1, n) \in Seq(Token)
         /\ Len(SubSeq(s, m + 1, n)) = n - m
         /\ \A k \in 1 .. n - m : SubSeq(s, m + 1, n)[k] = s[m + k]
<1>1. \A i \in m + 1 .. n : s[i] \in Token
  OBVIOUS
<1>2. m + 1 \in Int /\ n \in Int
  OBVIOUS
<1>3. /\ SubSeq(s, m + 1, n) \in Seq(Token)
      /\ Len(SubSeq(s, m + 1, n)) = (IF m + 1 <= n THEN n - (m + 1) + 1 ELSE 0)
      /\ \A i \in 1 .. n - (m + 1) + 1 : SubSeq(s, m + 1, n)[i] = s[m + 1 + i - 1]
  BY <1>1, <1>2, SubSeqProperties
<1> QED BY <1>3

\* The next segment is a piece of the stream that begins where the last one
\* ended.
LEMMA CutFacts ==
  ASSUME IInv, NEW p \in Pcbs, pos[p] < Len(script[p].text)
  PROVE  /\ script[p] \in Scripts /\ script[p].text \in Seq(Token)
         /\ pos[p] \in Nat /\ NextCut(p) \in pos[p] + 1 .. Len(script[p].text)
         /\ NextCut(p) \in script[p].cuts
         /\ \A c \in script[p].cuts : c > pos[p] => NextCut(p) <= c
         /\ Segment(p) \in Seq(Token) /\ Len(Segment(p)) = NextCut(p) - pos[p]
         /\ \A k \in 1 .. NextCut(p) - pos[p] : Segment(p)[k] = script[p].text[pos[p] + k]
<1> DEFINE s == script[p].text
           later == {c \in script[p].cuts : c > pos[p]}
<1>1. script[p] \in Scripts \cup {NoScript} /\ pos[p] \in Nat
  BY DEF IInv, TypeOK
<1>2. script[p] # NoScript
  BY <1>1 DEF NoScript
<1>3. script[p] \in Scripts /\ s \in Seq(Token) /\ script[p].cuts \subseteq Nat
  BY <1>1, <1>2, ScriptsAssumption DEF Script
<1>4. later \subseteq Nat /\ Len(s) \in later /\ \A c \in later : c <= Len(s) /\ c > pos[p]
  BY <1>3, ScriptsAssumption
<1>5. NextCut(p) \in later /\ \A c \in later : NextCut(p) <= c
  <2> HIDE DEF later
  <2>1. Min(later) \in later /\ \A c \in later : Min(later) <= c
    BY <1>4, MinOfNat
  <2> QED BY <2>1 DEF NextCut, later
<1>6. NextCut(p) \in pos[p] + 1 .. Len(s) /\ NextCut(p) \in script[p].cuts
  BY <1>1, <1>3, <1>4, <1>5
<1> HIDE DEF s
<1>7. /\ SubSeq(s, pos[p] + 1, NextCut(p)) \in Seq(Token)
      /\ Len(SubSeq(s, pos[p] + 1, NextCut(p))) = NextCut(p) - pos[p]
      /\ \A k \in 1 .. NextCut(p) - pos[p] : SubSeq(s, pos[p] + 1, NextCut(p))[k] = s[pos[p] + k]
  BY <1>1, <1>3, <1>6, PieceProperties
<1> QED BY <1>1, <1>3, <1>5, <1>6, <1>7 DEF s, Segment

\* What tcp_server_recv has in hand when it dispatches.
LEMMA TakenFacts ==
  ASSUME IInv, NEW p \in Pcbs, pcb[p] = "open", pos[p] < Len(script[p].text)
  PROVE  /\ Taken(p).buf \in Buffer /\ Taken(p).buf[ReqSize - 1] = Nul
         /\ Taken(p).len \in 0 .. ReqSize - 1
         /\ Taken(p).buf[0] \in Cell
         /\ BodyText(Taken(p)) \in Seq(Cell)
<1>1. Con(p).request \in Buffer /\ Con(p).request_len \in 0 .. ReqSize - 1
      /\ Con(p).request[ReqSize - 1] = Nul
  BY OpenFacts DEF http_connection_t
<1>2. Segment(p) \in Seq(Token)
  BY CutFacts
<1>3. /\ Taken(p).buf \in Buffer /\ Taken(p).buf[ReqSize - 1] = Nul
      /\ Taken(p).len \in 0 .. ReqSize - 1
      /\ Taken(p).body \in Index \cup {Null}
  BY <1>1, <1>2, ReceivedProperties DEF Taken
<1>4. Taken(p).buf[0] \in Cell
  BY <1>3, ReqSizeAssumption
<1>5. BodyText(Taken(p)) \in Seq(Cell)
  BY <1>3, BodyTextType
<1> QED BY <1>3, <1>4, <1>5

\* The part of TypeOK that a closing connection disturbs.
ConnectionTypes ==
  /\ pcb \in [Pcbs -> {"free", "synrcvd", "open", "closing"}]
  /\ arg \in [Pcbs -> Records \cup {Server, Null}]
  /\ cbs \in [Pcbs -> SUBSET Callbacks]
  /\ live \subseteq Records
  /\ con \in [Records -> http_connection_t]
  /\ inflight \in [Pcbs -> Nat]
  /\ orphans \subseteq live

\* Closing a connection takes its record with it and nobody else's.
LEMMA CloseKeeps ==
  ASSUME IInv, NEW p \in Pcbs, pcb[p] = "open", NEW to \in {"free", "closing"},
         tcp_close_client_connection(p, arg[p], to), orphans' = orphans
  PROVE  ConnectionTypes' /\ Ownership' /\ RequestTerminated'
<1> USE DEF tcp_close_client_connection
<1>1. /\ arg[p] \in Records /\ arg[p] \in live /\ arg[p] \notin orphans
      /\ con[arg[p]].pcb = p
  BY OpenFacts DEF Con
<1>2. ConnectionTypes'
  BY <1>1, ZeroedType DEF IInv, TypeOK, ConnectionTypes
<1>3. RequestTerminated'
  BY <1>1, ZeroedType DEF IInv, TypeOK, RequestTerminated
<1>4. ASSUME NEW q \in Pcbs, q # p, pcb[q] = "open"
      PROVE  arg[q] # arg[p]
  BY <1>1, <1>4, OpenFacts DEF Con
<1>5. OpenOwns'
  BY <1>1, <1>4 DEF IInv, TypeOK, Ownership, OpenOwns
<1>6. OthersOwnNothing'
  BY <1>1 DEF IInv, TypeOK, Ownership, OthersOwnNothing
<1>7. AllOwned'
  <2> SUFFICES ASSUME NEW r \in live \ orphans, r # arg[p]
               PROVE  \E q \in Pcbs : pcb'[q] = "open" /\ arg'[q] = r
    BY DEF AllOwned
  <2>1. PICK q \in Pcbs : pcb[q] = "open" /\ arg[q] = r
    BY DEF IInv, Ownership, AllOwned
  <2> QED BY <2>1 DEF IInv, TypeOK
<1> QED BY <1>2, <1>3, <1>5, <1>6, <1>7 DEF Ownership

\* Steps that leave every record and every open connection as it is.
LEMMA UntouchedKeeps ==
  ASSUME IInv, UNCHANGED conVars, UNCHANGED cbs,
         pcb' \in [Pcbs -> {"free", "synrcvd", "open", "closing"}],
         arg' \in [Pcbs -> Records \cup {Server, Null}],
         \A p \in Pcbs : pcb[p] = "open" => pcb'[p] = "open" /\ arg'[p] = arg[p],
         \A p \in Pcbs : pcb[p] # "open" => pcb'[p] # "open" /\ arg'[p] \in {Server, Null}
  PROVE  Ownership' /\ RequestTerminated'
<1> USE DEF conVars, IInv, Ownership
<1>1. OpenOwns'
  BY DEF OpenOwns
<1>2. OthersOwnNothing'
  BY DEF OthersOwnNothing
<1>3. AllOwned'
  BY DEF AllOwned
<1> QED BY <1>1, <1>2, <1>3 DEF RequestTerminated

\* main's calls change the listener only.
LEMMA MainKeeps ==
  ASSUME IInv, NEW from, 
         NEW to \in {"failed", "listening", "argset", "open", "argcleared", "closed"},
         MainStep(from, to)
  PROVE  IInv'
<1> USE DEF MainStep, conVars, clientVars
<1>1. TypeOK'
  BY DEF IInv, TypeOK
<1>2. Ownership' /\ RequestTerminated'
  BY DEF IInv, Ownership, OpenOwns, OthersOwnNothing, AllOwned, RequestTerminated
<1> QED BY <1>1, <1>2 DEF IInv

LEMMA InitIInv ==
  ASSUME Init
  PROVE  IInv
<1>1. TypeOK
  <2>1. ConnectionTypes
    BY ZeroedType DEF Init, ConnectionTypes
  <2>2. /\ script \in [Pcbs -> Scripts \cup {NoScript}]
        /\ handled \in [Pcbs -> Seq(Request)]
    BY DEF Init
  <2>3. pos \in [Pcbs -> Nat] /\ fault \in BOOLEAN /\ early \in [Pcbs -> BOOLEAN]
    BY DEF Init
  <2>4. pool \in 0 .. PoolSize
    BY SizesAssumption DEF Init
  <2> QED BY <2>1, <2>2, <2>3, <2>4 DEF Init, TypeOK, ConnectionTypes
<1>2. Ownership /\ RequestTerminated
  BY ZeroedType DEF Init, Ownership, OpenOwns, OthersOwnNothing, AllOwned, RequestTerminated
<1> QED BY <1>1, <1>2 DEF IInv

LEMMA RebootKeeps ==
  ASSUME IInv, Reboot
  PROVE  IInv'
<1>1. TypeOK'
  BY SizesAssumption, ZeroedType DEF IInv, Reboot, TypeOK
<1>2. Ownership' /\ RequestTerminated'
  BY ZeroedType DEF Reboot, Ownership, OpenOwns, OthersOwnNothing, AllOwned, RequestTerminated
<1> QED BY <1>1, <1>2 DEF IInv

LEMMA SynKeeps ==
  ASSUME IInv, NEW p \in Pcbs, Syn(p)
  PROVE  IInv'
<1> USE DEF Syn, conVars
<1>1. ListenerArg \in {Server, Null}
  BY DEF ListenerArg
<1>2. TypeOK'
  <2>1. PICK s \in Scripts : script' = [script EXCEPT ![p] = s]
    OBVIOUS
  <2> QED BY <1>1, <2>1 DEF IInv, TypeOK
<1>3. Ownership' /\ RequestTerminated'
  <2>1. pcb \in [Pcbs -> {"free", "synrcvd", "open", "closing"}] /\ arg \in [Pcbs -> Records \cup {Server, Null}]
    BY DEF IInv, TypeOK
  <2>2. \A q \in Pcbs : pcb[q] # "open" => arg[q] \in {Server, Null}
    BY DEF IInv, Ownership, OthersOwnNothing
  <2> QED BY <1>1, <2>1, <2>2, UntouchedKeeps
<1> QED BY <1>2, <1>3 DEF IInv

LEMMA DroppedKeeps ==
  ASSUME IInv, NEW p \in Pcbs, NEW from \in {"synrcvd", "closing"}, Dropped(p, from)
  PROVE  IInv'
<1> USE DEF Dropped, conVars, clientVars
<1>1. TypeOK'
  BY DEF IInv, TypeOK
<1>2. Ownership' /\ RequestTerminated'
  <2>1. pcb \in [Pcbs -> {"free", "synrcvd", "open", "closing"}] /\ arg \in [Pcbs -> Records \cup {Server, Null}]
    BY DEF IInv, TypeOK
  <2>2. \A q \in Pcbs : pcb[q] # "open" => arg[q] \in {Server, Null}
    BY DEF IInv, Ownership, OthersOwnNothing
  <2> QED BY <2>1, <2>2, UntouchedKeeps
<1> QED BY <1>1, <1>2 DEF IInv

\* A fresh record is nobody else's.
LEMMA AcceptKeeps ==
  ASSUME IInv, NEW p \in Pcbs, NEW r \in Records, http_server_accept(p, r)
  PROVE  IInv'
<1> DEFINE fresh == [Zeroed EXCEPT !.server = arg[p], !.pcb = p]
<1> USE DEF http_server_accept, clientVars
<1>1. arg[p] \in {Server, Null}
  BY DEF IInv, Ownership, OthersOwnNothing
<1>2. fresh \in http_connection_t /\ fresh.request[ReqSize - 1] = Nul /\ fresh.pcb = p
  BY <1>1, ZeroedType DEF http_connection_t, Zeroed
<1>3. con' = [con EXCEPT ![r] = fresh]
  OBVIOUS
<1> HIDE DEF fresh
<1>4. TypeOK'
  BY <1>2, <1>3 DEF IInv, TypeOK
<1>5. RequestTerminated'
  BY <1>2, <1>3 DEF IInv, TypeOK, RequestTerminated
<1>6. OpenOwns'
  <2>1. p \notin {q \in Pcbs : pcb[q] = "open"} /\ r \notin orphans
    BY DEF IInv, TypeOK
  <2>2. \A q \in Pcbs : pcb[q] = "open" => arg[q] # r
    BY DEF IInv, Ownership, OpenOwns
  <2> QED BY <1>2, <1>3, <2>1, <2>2 DEF IInv, TypeOK, Ownership, OpenOwns
<1>7. OthersOwnNothing'
  BY DEF IInv, TypeOK, Ownership, OthersOwnNothing
<1>8. AllOwned'
  BY DEF IInv, TypeOK, Ownership, AllOwned
<1> QED BY <1>4, <1>5, <1>6, <1>7, <1>8 DEF IInv, Ownership

\* New contents for the record of an open connection.
LEMMA ContentsKeep ==
  ASSUME IInv, NEW p \in Pcbs, pcb[p] = "open",
         UNCHANGED <<pcb, arg, cbs, live, orphans>>, inflight' \in [Pcbs -> Nat],
         NEW c \in http_connection_t, c.pcb = p, c.request[ReqSize - 1] = Nul,
         con' = [con EXCEPT ![arg[p]] = c]
  PROVE  ConnectionTypes' /\ Ownership' /\ RequestTerminated'
<1>1. arg[p] \in Records /\ con[arg[p]].pcb = p /\ con \in [Records -> http_connection_t]
  BY OpenFacts DEF Con, IInv, TypeOK
<1>2. con' \in [Records -> http_connection_t] /\ \A r \in Records : con'[r].pcb = con[r].pcb
  BY <1>1
<1>3. ConnectionTypes'
  BY <1>2 DEF IInv, TypeOK, ConnectionTypes
<1>4. OpenOwns'
  BY <1>2 DEF IInv, TypeOK, Ownership, OpenOwns
<1>5. OthersOwnNothing' /\ AllOwned'
  BY DEF IInv, Ownership, OthersOwnNothing, AllOwned
<1>6. RequestTerminated'
  BY <1>1 DEF IInv, RequestTerminated
<1> QED BY <1>3, <1>4, <1>5, <1>6 DEF Ownership

\* A header without its body only goes into the buffer.
LEMMA RecvAwaitsBodyKeeps ==
  ASSUME IInv, NEW p \in Pcbs, RecvAwaitsBody(p)
  PROVE  IInv'
<1> DEFINE kept == [con[arg[p]] EXCEPT !.request = Taken(p).buf, !.request_len = Taken(p).len]
<1>1. pcb[p] = "open" /\ pos[p] < Len(script[p].text) /\ pos' = [pos EXCEPT ![p] = NextCut(p)]
  BY DEF RecvAwaitsBody, Receives
<1>2. arg[p] \in Records /\ con[arg[p]] \in http_connection_t /\ con[arg[p]].pcb = p
  BY <1>1, OpenFacts DEF Con
<1>3. kept \in http_connection_t /\ kept.request[ReqSize - 1] = Nul /\ kept.pcb = p
  BY <1>1, <1>2, TakenFacts DEF http_connection_t
<1>4. UNCHANGED <<main, pcb, arg, cbs, live, inflight, pool, fault, script, handled, orphans, early>>
      /\ con' = [con EXCEPT ![arg[p]] = kept]
  BY DEF RecvAwaitsBody, Receives
<1> HIDE DEF kept
<1>5. ConnectionTypes' /\ Ownership' /\ RequestTerminated'
  <2>1. inflight' \in [Pcbs -> Nat]
    BY <1>4 DEF IInv, TypeOK
  <2> QED BY <1>1, <1>3, <1>4, <2>1, ContentsKeep
<1>6. pos' \in [Pcbs -> Nat]
  BY <1>1, CutFacts DEF IInv, TypeOK
<1> QED BY <1>4, <1>5, <1>6 DEF IInv, TypeOK, ConnectionTypes

LEMMA CallHandlerType ==
  ASSUME IInv, NEW p \in Pcbs, NEW route \in Lines, pcb[p] = "open", pos[p] < Len(script[p].text),
         CallHandler(p, route)
  PROVE  handled' \in [Pcbs -> Seq(Request)]
<1> DEFINE request == [line |-> Taken(p).buf[0], route |-> route, body |-> BodyText(Taken(p))]
<1>1. request \in Request
  BY TakenFacts DEF Request
<1>2. handled' = [handled EXCEPT ![p] = Append(handled[p], request)]
  BY DEF CallHandler
<1> HIDE DEF request
<1>3. handled \in [Pcbs -> Seq(Request)]
  BY DEF IInv, TypeOK
<1>4. Append(handled[p], request) \in Seq(Request)
  BY <1>1, <1>3, AppendProperties
<1> QED BY <1>2, <1>3, <1>4

LEMMA AnsweredType ==
  ASSUME NEW c \in http_connection_t, NEW r, r.buf \in Buffer, NEW a, a[1] \in Nat, a[2] \in Nat
  PROVE  /\ Answered(c, r, a) \in http_connection_t
         /\ Answered(c, r, a).pcb = c.pcb
         /\ Answered(c, r, a).request = r.buf
<1> DEFINE c1 == [c EXCEPT !.request = r.buf]
           c2 == [c1 EXCEPT !.request_len = 0]
           c3 == [c2 EXCEPT !.header_len = a[1]]
           c4 == [c3 EXCEPT !.result_len = a[2]]
           c5 == [c4 EXCEPT !.sent_len = 0]
<1>1. c1 \in http_connection_t /\ c1.pcb = c.pcb /\ c1.request = r.buf
  BY DEF http_connection_t
<1>2. c2 \in http_connection_t /\ c2.pcb = c.pcb /\ c2.request = r.buf
  <2>1. 0 \in 0 .. ReqSize - 1
    BY ReqSizeAssumption
  <2> HIDE DEF c1
  <2> QED BY <1>1, <2>1 DEF http_connection_t
<1>3. c3 \in http_connection_t /\ c3.pcb = c.pcb /\ c3.request = r.buf
  <2> HIDE DEF c2
  <2> QED BY <1>2 DEF http_connection_t
<1>4. c4 \in http_connection_t /\ c4.pcb = c.pcb /\ c4.request = r.buf
  <2> HIDE DEF c3
  <2> QED BY <1>3 DEF http_connection_t
<1>5. c5 \in http_connection_t /\ c5.pcb = c.pcb /\ c5.request = r.buf
  <2> HIDE DEF c4
  <2> QED BY <1>4 DEF http_connection_t
<1> QED BY <1>5 DEF Answered

\* An answer fills in the lengths and forgets how much of the buffer was used.
LEMMA RecvAnswersKeeps ==
  ASSUME IInv, NEW p \in Pcbs, RecvAnswers(p)
  PROVE  IInv'
<1>1. PICK route \in Lines :
        /\ Dispatches(p, Server, route) /\ CallHandler(p, route)
        /\ \E a \in Answers(route, MaxBody) :
             /\ con' = [con EXCEPT ![arg[p]] = Answered(@, Taken(p), a)]
             /\ inflight' = [inflight EXCEPT ![p] = @ + a[1] + a[2]]
  BY DEF RecvAnswers
<1>2. PICK a \in Answers(route, MaxBody) :
        /\ con' = [con EXCEPT ![arg[p]] = Answered(@, Taken(p), a)]
        /\ inflight' = [inflight EXCEPT ![p] = @ + a[1] + a[2]]
  BY <1>1
<1>3. UNCHANGED <<main, pcb, arg, cbs, live, pool, fault, script, orphans, early>>
      /\ pcb[p] = "open" /\ pos[p] < Len(script[p].text) /\ pos' = [pos EXCEPT ![p] = NextCut(p)]
  BY <1>1 DEF RecvAnswers, Dispatches, Receives
<1>4. a[1] \in Nat /\ a[2] \in Nat
  <2>1. a \in {<<1, 0>>} \cup ({1} \X (1 .. MaxBody))
    BY DEF Answers
  <2> QED BY <2>1, SizesAssumption
<1> DEFINE answered == Answered(con[arg[p]], Taken(p), a)
<1>5. arg[p] \in Records /\ con[arg[p]] \in http_connection_t /\ con[arg[p]].pcb = p
  BY <1>3, OpenFacts DEF Con
<1>6. answered \in http_connection_t /\ answered.request[ReqSize - 1] = Nul /\ answered.pcb = p
  BY <1>3, <1>4, <1>5, TakenFacts, AnsweredType
<1>7. con' = [con EXCEPT ![arg[p]] = answered]
  BY <1>2
<1> HIDE DEF answered
<1>8. ConnectionTypes' /\ Ownership' /\ RequestTerminated'
  <2>1. inflight' \in [Pcbs -> Nat]
    BY <1>2, <1>4 DEF IInv, TypeOK
  <2> QED BY <1>3, <1>6, <1>7, <2>1, ContentsKeep
<1>9. handled' \in [Pcbs -> Seq(Request)] /\ pos' \in [Pcbs -> Nat]
  BY <1>1, <1>3, CallHandlerType, CutFacts DEF IInv, TypeOK
<1> QED BY <1>3, <1>8, <1>9 DEF IInv, TypeOK, ConnectionTypes

\* The three ways tcp_server_recv resets the connection.
LEMMA ErrorCloseKeeps ==
  ASSUME IInv, NEW p \in Pcbs, Receives(p), ErrorClose(p), handled' \in [Pcbs -> Seq(Request)]
  PROVE  IInv'
<1> USE DEF Receives, ErrorClose
<1>1. PICK to \in tcp_close(TRUE) : tcp_close_client_connection(p, arg[p], to)
  OBVIOUS
<1>2. to \in {"free", "closing"}
  BY DEF tcp_close
<1>3. ConnectionTypes' /\ Ownership' /\ RequestTerminated'
  BY <1>1, <1>2, CloseKeeps
<1>4. pool' \in 0 .. PoolSize /\ pos' \in [Pcbs -> Nat]
  BY SizesAssumption, CutFacts DEF IInv, TypeOK
<1> QED BY <1>3, <1>4 DEF IInv, TypeOK, ConnectionTypes

LEMMA RecvKeeps ==
  ASSUME IInv, NEW p \in Pcbs, Recv(p)
  PROVE  IInv'
<1>1. handled \in [Pcbs -> Seq(Request)]
  BY DEF IInv, TypeOK
<1>2. CASE RecvAwaitsBody(p)
  BY <1>2, RecvAwaitsBodyKeeps
<1>3. CASE RecvNoRoute(p)
  BY <1>1, <1>3, ErrorCloseKeeps DEF RecvNoRoute, Dispatches
<1>4. CASE RecvGivesUp(p)
  <2>1. PICK route \in Lines : Dispatches(p, Server, route) /\ CallHandler(p, route) /\ ErrorClose(p)
    BY <1>4 DEF RecvGivesUp
  <2>2. handled' \in [Pcbs -> Seq(Request)]
    BY <2>1, CallHandlerType DEF Dispatches, Receives
  <2> QED BY <2>1, <2>2, ErrorCloseKeeps DEF Dispatches
<1>5. CASE RecvAnswers(p)
  BY <1>5, RecvAnswersKeeps
<1>6. CASE RecvWithoutServer(p)
  <2>1. Receives(p) /\ UNCHANGED handled
    BY <1>6 DEF RecvWithoutServer, Dispatches
  <2>2. CASE ErrorClose(p)
    BY <1>1, <2>1, <2>2, ErrorCloseKeeps
  <2>3. CASE fault' = TRUE /\ UNCHANGED <<pcb, arg, cbs, live, con, inflight, pool>>
    <3>1. TypeOK'
      BY <2>1, <2>3, CutFacts DEF IInv, TypeOK, Receives
    <3>2. Ownership' /\ RequestTerminated'
      BY <2>1, <2>3 DEF Receives, IInv, Ownership, OpenOwns, OthersOwnNothing, AllOwned, RequestTerminated
    <3> QED BY <3>1, <3>2 DEF IInv
  <2> QED BY <1>6, <2>2, <2>3 DEF RecvWithoutServer
<1> QED BY <1>2, <1>3, <1>4, <1>5, <1>6 DEF Recv

\* FIN, all done and poll close the connection in the same way.
LEMMA ClosesKeeps ==
  ASSUME IInv, NEW p \in Pcbs, pcb[p] = "open", Closes(p)
  PROVE  IInv'
<1>1. PICK to \in tcp_close(FALSE) : tcp_close_client_connection(p, arg[p], to)
  BY DEF Closes
<1>2. to \in {"free", "closing"}
  BY DEF tcp_close
<1>3. UNCHANGED <<main, pool, fault, orphans, clientVars>>
  BY DEF Closes
<1>4. ConnectionTypes' /\ Ownership' /\ RequestTerminated'
  BY <1>1, <1>2, <1>3, CloseKeeps
<1> QED BY <1>3, <1>4 DEF IInv, TypeOK, ConnectionTypes, clientVars

LEMMA SentKeeps ==
  ASSUME IInv, NEW p \in Pcbs, NEW len \in 1 .. inflight[p], tcp_server_sent(p, len)
  PROVE  IInv'
<1> DEFINE counted == [con[arg[p]] EXCEPT !.sent_len = @ + len]
<1>1. pcb[p] = "open"
  BY DEF tcp_server_sent
<1>2. CASE Closes(p)
  BY <1>1, <1>2, ClosesKeeps
<1>3. CASE /\ con' = [con EXCEPT ![arg[p]].sent_len = @ + len]
           /\ inflight' = [inflight EXCEPT ![p] = @ - len]
           /\ UNCHANGED <<main, pcb, arg, cbs, live, pool, fault, orphans, clientVars>>
  <2>1. inflight[p] \in Nat
    BY DEF IInv, TypeOK
  <2>2. arg[p] \in Records /\ con[arg[p]] \in http_connection_t /\ con[arg[p]].pcb = p
        /\ con[arg[p]].request[ReqSize - 1] = Nul
    BY <1>1, OpenFacts DEF Con
  <2>3. counted \in http_connection_t /\ counted.request[ReqSize - 1] = Nul /\ counted.pcb = p
    BY <2>1, <2>2 DEF http_connection_t
  <2>4. con' = [con EXCEPT ![arg[p]] = counted]
    BY <1>3
  <2> HIDE DEF counted
  <2>5. inflight' \in [Pcbs -> Nat]
    BY <1>3, <2>1 DEF IInv, TypeOK
  <2>6. ConnectionTypes' /\ Ownership' /\ RequestTerminated'
    BY <1>1, <1>3, <2>3, <2>4, <2>5, ContentsKeep
  <2> QED BY <1>3, <2>6 DEF IInv, TypeOK, ConnectionTypes, clientVars
<1> QED BY <1>2, <1>3 DEF tcp_server_sent

LEMMA ErrResetKeeps ==
  ASSUME IInv, NEW p \in Pcbs, ErrReset(p)
  PROVE  IInv'
<1>1. UNCHANGED <<main, pool, fault, orphans, clientVars>>
  BY DEF ErrReset
<1>2. ConnectionTypes' /\ Ownership' /\ RequestTerminated'
  BY <1>1, CloseKeeps DEF ErrReset
<1> QED BY <1>1, <1>2 DEF IInv, TypeOK, ConnectionTypes, clientVars

\* ERR_ABRT orphans exactly the record of the pcb that is gone.
LEMMA ErrAbortKeeps ==
  ASSUME IInv, NEW p \in Pcbs, ErrAbort(p)
  PROVE  IInv'
<1> USE DEF ErrAbort, clientVars
<1>1. arg[p] \in Records /\ arg[p] \in live /\ con[arg[p]].pcb = p
  BY OpenFacts DEF Con
<1>2. TypeOK'
  BY <1>1 DEF IInv, TypeOK
<1>3. \A q \in Pcbs : q # p /\ pcb[q] = "open" => arg[q] # arg[p]
  BY <1>1, OpenFacts DEF Con
<1>4. OpenOwns'
  BY <1>3 DEF IInv, TypeOK, Ownership, OpenOwns
<1>5. OthersOwnNothing'
  BY DEF IInv, TypeOK, Ownership, OthersOwnNothing
<1>6. AllOwned'
  BY DEF IInv, TypeOK, Ownership, AllOwned
<1>7. RequestTerminated'
  BY DEF IInv, RequestTerminated
<1> QED BY <1>2, <1>4, <1>5, <1>6, <1>7 DEF IInv, Ownership

\* The invariant survives every step.
LEMMA NextKeeps ==
  ASSUME IInv, [Next]_vars
  PROVE  IInv'
<1>1. CASE UNCHANGED vars
  BY <1>1 DEF vars, conVars, clientVars, IInv, TypeOK, Ownership, OpenOwns, OthersOwnNothing,
              AllOwned, RequestTerminated
<1>2. CASE Main
  <2>1. CASE Reboot
    BY <2>1, RebootKeeps
  <2>2. CASE tcp_listen_ok \/ http_server_fails \/ tcp_arg_server \/ tcp_accept_server
             \/ tcp_arg_null \/ tcp_close_listener
    BY <2>2, MainKeeps DEF tcp_listen_ok, http_server_fails, tcp_arg_server,
                           tcp_accept_server, tcp_arg_null, tcp_close_listener
  <2> QED BY <1>2, <2>1, <2>2 DEF Main
<1>3. ASSUME NEW p \in Pcbs, Lwip(p)
      PROVE  IInv'
  <2>1. CASE Syn(p)
    BY <2>1, SynKeeps
  <2>2. CASE NotAccepted(p) \/ CloseDone(p)
    BY <2>2, DroppedKeeps DEF NotAccepted, CloseDone
  <2>3. ASSUME NEW r \in Records, http_server_accept(p, r)
        PROVE  IInv'
    BY <2>3, AcceptKeeps
  <2>4. CASE Recv(p)
    BY <2>4, RecvKeeps
  <2>5. CASE RecvFin(p) \/ tcp_server_poll(p)
    BY <2>5, ClosesKeeps DEF RecvFin, tcp_server_poll
  <2>6. ASSUME NEW len \in 1 .. inflight[p], tcp_server_sent(p, len)
        PROVE  IInv'
    BY <2>6, SentKeeps
  <2>7. CASE ErrReset(p)
    BY <2>7, ErrResetKeeps
  <2>8. CASE ErrAbort(p)
    BY <2>8, ErrAbortKeeps
  <2> QED BY <1>3, <2>1, <2>2, <2>3, <2>4, <2>5, <2>6, <2>7, <2>8 DEF Lwip
<1> QED BY <1>1, <1>2, <1>3 DEF Next, Stopped

-----------------------------------------------------------------------------
\* The invariant holds throughout.
THEOREM Invariance == Spec => []IInv
<1>1. Init => IInv
  BY InitIInv
<1>2. IInv /\ [Next]_vars => IInv'
  BY NextKeeps
<1> QED BY <1>1, <1>2, PTL DEF Spec

\* Every variable keeps its type; in particular request_len never reaches the
\* size of con->request, whatever segments arrive.
THEOREM TypeCorrect == Spec => []TypeOK
<1>1. IInv => TypeOK
  BY DEF IInv
<1> QED BY <1>1, Invariance, PTL

\* Every callback lwIP may call has a live record that names its pcb: the
\* asserts of tcp_server_recv and tcp_close_client_connection hold, and no
\* callback touches a freed record.
THEOREM CallbackArgsSafe == Spec => []CallbackArgValid
<1>1. IInv => CallbackArgValid
  BY DEF IInv, Ownership, OpenOwns, OthersOwnNothing, CallbackArgValid
<1> QED BY <1>1, Invariance, PTL

\* Nothing but an ERR_ABRT leaks a record, and no two connections share one.
THEOREM NoRecordLeaks == Spec => []RecordsAccounted
<1>1. IInv => RecordsAccounted
  <2> SUFFICES ASSUME IInv, NEW r \in live \ orphans
               PROVE  \E p \in Pcbs :
                 arg[p] = r /\ cbs[p] = Callbacks /\ \A q \in Pcbs \ {p} : arg[q] # r
    BY DEF RecordsAccounted
  <2>1. PICK p \in Pcbs : pcb[p] = "open" /\ arg[p] = r
    BY DEF IInv, Ownership, AllOwned
  <2>2. cbs[p] = Callbacks /\ con[r].pcb = p
    BY <2>1 DEF IInv, Ownership, OpenOwns
  <2>3. r \in Records
    BY DEF IInv, TypeOK
  <2>4. ASSUME NEW q \in Pcbs \ {p}, arg[q] = r
        PROVE  FALSE
    <3>1. pcb[q] = "open"
      BY <2>3, <2>4, NamesAssumption DEF IInv, Ownership, OthersOwnNothing
    <3> QED BY <2>2, <2>4, <3>1 DEF IInv, Ownership, OpenOwns
  <2> QED BY <2>1, <2>2, <2>4
<1> QED BY <1>1, Invariance, PTL

\* strstr and strncmp never run off con->request.
THEOREM RequestStaysTerminated == Spec => []RequestTerminated
<1>1. IInv => RequestTerminated
  BY DEF IInv
<1> QED BY <1>1, Invariance, PTL

\* A pbuf is lost only together with a connection that is reset.
THEOREM PbufAccounting == Spec => PbufLostOnlyWithConnection
<1> DEFINE Lost == \E p \in Pcbs : /\ pcb[p] = "open" /\ pcb'[p] = "free"
                                   /\ arg[p] \in live /\ arg[p] \notin live'
<1>1. ASSUME IInv, NEW p \in Pcbs, Receives(p), ErrorClose(p)
      PROVE  Lost
  <2>1. tcp_close_client_connection(p, arg[p], "free")
    BY <1>1 DEF ErrorClose, tcp_close
  <2>2. pcb[p] = "open" /\ arg[p] \in live
    BY <1>1, OpenFacts DEF Receives
  <2>3. pcb'[p] = "free" /\ live' = live \ {arg[p]}
    BY <1>1, <2>1 DEF tcp_close_client_connection, IInv, TypeOK
  <2> QED BY <2>2, <2>3
<1>2. ASSUME IInv, Next, pool' < pool
      PROVE  Lost
  <2>1. pool \in 0 .. PoolSize
    BY <1>2 DEF IInv, TypeOK
  <2>2. ASSUME NEW p \in Pcbs, Recv(p)
        PROVE  Lost
    <3>1. RecvNoRoute(p) \/ RecvGivesUp(p) \/ RecvWithoutServer(p)
      BY <1>2, <2>1, <2>2 DEF Recv, RecvAwaitsBody, RecvAnswers
    <3>2. Receives(p) /\ ErrorClose(p)
      BY <1>2, <2>1, <3>1 DEF RecvNoRoute, RecvGivesUp, RecvWithoutServer, Dispatches
    <3> QED BY <1>1, <1>2, <3>2
  <2>3. ~Main /\ ~Stopped
    BY <1>2, <2>1, SizesAssumption
       DEF Main, MainStep, tcp_listen_ok, http_server_fails, tcp_arg_server, tcp_accept_server,
           tcp_arg_null, tcp_close_listener, Reboot, Stopped, vars
  <2>4. ASSUME NEW p \in Pcbs, Lwip(p)
        PROVE  Recv(p)
    <3>1. pool' # pool
      BY <1>2, <2>1
    <3>2. /\ ~Syn(p) /\ ~NotAccepted(p) /\ ~CloseDone(p) /\ ~RecvFin(p)
          /\ ~tcp_server_poll(p) /\ ~ErrReset(p) /\ ~ErrAbort(p)
      BY <3>1 DEF Syn, NotAccepted, CloseDone, Dropped, RecvFin, Closes, tcp_server_poll,
                  ErrReset, ErrAbort
    <3>3. \A r \in Records : ~http_server_accept(p, r)
      BY <3>1 DEF http_server_accept
    <3>4. \A len \in 1 .. inflight[p] : ~tcp_server_sent(p, len)
      BY <3>1 DEF tcp_server_sent, Closes
    <3> QED BY <2>4, <3>2, <3>3, <3>4 DEF Lwip
  <2> QED BY <1>2, <2>2, <2>3, <2>4 DEF Next
<1>3. IInv /\ [Next]_vars => [pool' < pool => Lost]_vars
  BY <1>2
<1> QED BY <1>3, Invariance, PTL DEF Spec, PbufLostOnlyWithConnection

-----------------------------------------------------------------------------
\* Who has no server came while the listener had none.
Window ==
  /\ \A p \in Pcbs : pcb[p] = "synrcvd" /\ arg[p] = Null => early[p]
  /\ \A p \in Pcbs : pcb[p] = "open" /\ con[arg[p]].server = Null => early[p]

\* A step that leaves every other connection alone, and gives p no record
\* without a server unless its SYN came early.
LEMMA WindowOf ==
  ASSUME IInv, Window, NEW p \in Pcbs,
         \A q \in Pcbs \ {p} : pcb'[q] = pcb[q] /\ arg'[q] = arg[q] /\ early'[q] = early[q],
         \A q \in Pcbs \ {p} : pcb[q] = "open" => con'[arg[q]].server = con[arg[q]].server,
         pcb'[p] = "synrcvd" /\ arg'[p] = Null => early'[p],
         pcb'[p] = "open" /\ con'[arg'[p]].server = Null => early'[p]
  PROVE  Window'
BY DEF Window

\* Closing p's connection is such a step, and so is writing to its record.
LEMMA OwnRecordOnly ==
  ASSUME IInv, NEW p \in Pcbs, pcb[p] = "open", NEW q \in Pcbs \ {p}, pcb[q] = "open"
  PROVE  arg[q] # arg[p]
BY OpenFacts DEF Con

LEMMA WindowClose ==
  ASSUME IInv, Window, NEW p \in Pcbs, pcb[p] = "open", NEW to \in {"free", "closing"},
         tcp_close_client_connection(p, arg[p], to), early' = early
  PROVE  Window'
<1> USE DEF tcp_close_client_connection
<1>1. pcb'[p] = to /\ \A q \in Pcbs \ {p} : pcb'[q] = pcb[q] /\ arg'[q] = arg[q]
  BY DEF IInv, TypeOK
<1>2. ASSUME NEW q \in Pcbs \ {p}, pcb[q] = "open" PROVE con'[arg[q]] = con[arg[q]]
  BY <1>2, OwnRecordOnly, OpenFacts DEF IInv, TypeOK
<1> QED
  BY <1>1, <1>2, WindowOf

LEMMA WindowContents ==
  ASSUME IInv, Window, NEW p \in Pcbs, pcb[p] = "open", UNCHANGED <<pcb, arg, early>>,
         NEW c, c.server = con[arg[p]].server, con' = [con EXCEPT ![arg[p]] = c]
  PROVE  Window'
<1>1. arg[p] \in Records /\ con'[arg[p]].server = con[arg[p]].server
  BY OpenFacts DEF IInv, TypeOK
<1>2. ASSUME NEW q \in Pcbs \ {p}, pcb[q] = "open" PROVE con'[arg[q]] = con[arg[q]]
  BY <1>2, OwnRecordOnly, OpenFacts DEF IInv, TypeOK
<1> QED
  BY <1>1, <1>2, WindowOf DEF Window

LEMMA AnsweredServer ==
  ASSUME NEW c \in http_connection_t, NEW r, NEW a
  PROVE  Answered(c, r, a).server = c.server
BY DEF Answered, http_connection_t

LEMMA WindowRecv ==
  ASSUME IInv, Window, NEW p \in Pcbs, Recv(p)
  PROVE  Window'
<1>1. CASE RecvAwaitsBody(p)
  <2> DEFINE kept == [con[arg[p]] EXCEPT !.request = Taken(p).buf, !.request_len = Taken(p).len]
  <2>1. pcb[p] = "open" /\ UNCHANGED <<pcb, arg, early>> /\ con' = [con EXCEPT ![arg[p]] = kept]
    BY <1>1 DEF RecvAwaitsBody, Receives
  <2>2. kept.server = con[arg[p]].server
    BY <2>1, OpenFacts DEF Con, http_connection_t
  <2> HIDE DEF kept
  <2> QED
    BY <2>1, <2>2, WindowContents
<1>2. CASE RecvAnswers(p)
  <2>1. PICK a : con' = [con EXCEPT ![arg[p]] = Answered(@, Taken(p), a)]
    BY <1>2 DEF RecvAnswers
  <2>2. pcb[p] = "open" /\ UNCHANGED <<pcb, arg, early>>
    BY <1>2 DEF RecvAnswers, Dispatches, Receives
  <2>3. Answered(con[arg[p]], Taken(p), a).server = con[arg[p]].server
    BY <2>2, OpenFacts, AnsweredServer DEF Con
  <2> QED
    BY <2>1, <2>2, <2>3, WindowContents
<1>3. CASE ErrorClose(p) /\ Receives(p)
  <2>1. tcp_close_client_connection(p, arg[p], "free") /\ early' = early /\ pcb[p] = "open"
    BY <1>3 DEF ErrorClose, Receives, tcp_close
  <2> QED
    BY <2>1, WindowClose
<1>4. CASE RecvWithoutServer(p) /\ ~ErrorClose(p)
  <2>1. UNCHANGED <<pcb, arg, con, early>>
    BY <1>4 DEF RecvWithoutServer, Dispatches, Receives
  <2> QED
    BY <2>1 DEF Window
<1> QED
  BY <1>1, <1>2, <1>3, <1>4 DEF Recv, RecvNoRoute, RecvGivesUp, RecvWithoutServer, Dispatches

LEMMA WindowStep ==
  ASSUME IInv, Window, NEW p \in Pcbs, Lwip(p)
  PROVE  Window'
<1> USE DEF clientVars, conVars
<1>1. CASE Syn(p)
  BY <1>1, WindowOf DEF Syn, IInv, TypeOK
<1>2. CASE NotAccepted(p) \/ CloseDone(p)
  BY <1>2, WindowOf DEF NotAccepted, CloseDone, Dropped, IInv, TypeOK
<1>3. ASSUME NEW r \in Records, http_server_accept(p, r) PROVE Window'
  <2> USE DEF http_server_accept
  <2>1. con'[arg'[p]].server = arg[p] /\ pcb[p] = "synrcvd" /\ early' = early
    BY <1>3 DEF IInv, TypeOK, Zeroed
  <2>2. ASSUME NEW q \in Pcbs \ {p}, pcb[q] = "open" PROVE con'[arg[q]] = con[arg[q]]
    BY <1>3, <2>2, OpenFacts DEF IInv, TypeOK
  <2>3. \A q \in Pcbs \ {p} : pcb'[q] = pcb[q] /\ arg'[q] = arg[q]
    BY <1>3 DEF IInv, TypeOK
  <2>4. pcb'[p] = "open"
    BY <1>3 DEF IInv, TypeOK
  <2> HIDE DEF http_server_accept
  <2> QED
    BY <2>1, <2>2, <2>3, <2>4, WindowOf DEF Window
<1>4. CASE Recv(p)
  BY <1>4, WindowRecv
<1>5. CASE RecvFin(p) \/ tcp_server_poll(p)
  <2>1. Closes(p) /\ pcb[p] = "open"
    BY <1>5 DEF RecvFin, tcp_server_poll
  <2> QED
    BY <2>1, WindowClose DEF Closes, tcp_close
<1>6. ASSUME NEW len \in 1 .. inflight[p], tcp_server_sent(p, len) PROVE Window'
  <2>1. CASE Closes(p)
    BY <1>6, <2>1, WindowClose DEF Closes, tcp_close, tcp_server_sent
  <2>2. CASE ~Closes(p)
    <3> DEFINE counted == [con[arg[p]] EXCEPT !.sent_len = @ + len]
    <3>1. /\ con' = [con EXCEPT ![arg[p]] = counted]
          /\ UNCHANGED <<pcb, arg, early>> /\ pcb[p] = "open"
      BY <1>6, <2>2 DEF tcp_server_sent
    <3>2. counted.server = con[arg[p]].server
      BY <3>1, OpenFacts DEF Con, http_connection_t
    <3> HIDE DEF counted
    <3> QED
      BY <3>1, <3>2, WindowContents
  <2> QED
    BY <2>1, <2>2
<1>7. CASE ErrReset(p)
  BY <1>7, WindowClose DEF ErrReset
<1>8. CASE ErrAbort(p)
  BY <1>8, WindowOf DEF ErrAbort, IInv, TypeOK
<1> QED
  BY <1>3, <1>1, <1>2, <1>4, <1>5, <1>6, <1>7, <1>8 DEF Lwip

\* The core stops only on the connection of a client whose SYN met the
\* listener between two of main's calls: tcp_accept has been called, but the
\* argument the pcb took over was not the server.
THEOREM StopsOnlyInWindow == Spec => []FaultNeedsWindow
<1> DEFINE Inv == Window /\ FaultNeedsWindow
<1>1. Init => Inv
  BY DEF Init, Window, FaultNeedsWindow
<1>2. IInv /\ Inv /\ [Next]_vars => Inv'
  <2> SUFFICES ASSUME IInv, Inv, [Next]_vars PROVE Inv'
    OBVIOUS
  <2>1. CASE UNCHANGED vars
    BY <2>1 DEF vars, conVars, clientVars, Window, FaultNeedsWindow
  <2>2. CASE ~fault /\ Main
    <3>1. ~fault'
      BY <2>2 DEF Main, MainStep, tcp_listen_ok, http_server_fails, tcp_arg_server, tcp_accept_server,
                  tcp_arg_null, tcp_close_listener, Reboot
    <3>2. Window'
      BY <2>2 DEF Main, MainStep, tcp_listen_ok, http_server_fails, tcp_arg_server, tcp_accept_server,
                  tcp_arg_null, tcp_close_listener, Reboot, Window, conVars, clientVars
    <3> QED
      BY <3>1, <3>2 DEF FaultNeedsWindow
  <2>3. ASSUME ~fault, NEW p \in Pcbs, Lwip(p) PROVE Inv'
    <3>1. Window'
      BY <2>3, WindowStep
    <3>2. CASE fault' = fault
      BY <2>3, <3>1, <3>2 DEF FaultNeedsWindow
    <3>3. CASE fault' # fault
      <4>1. RecvWithoutServer(p) /\ ~ErrorClose(p)
        BY <2>3, <3>3 DEF Lwip, Syn, NotAccepted, CloseDone, Dropped, http_server_accept, Recv,
           RecvAwaitsBody, RecvNoRoute, RecvGivesUp, RecvAnswers, RecvWithoutServer, ErrorClose,
           RecvFin, Closes, tcp_server_sent, tcp_server_poll, ErrReset, ErrAbort
      <4>2. pcb[p] = "open" /\ con[arg[p]].server = Null /\ UNCHANGED <<pcb, early>>
        BY <4>1 DEF RecvWithoutServer, Dispatches, Receives, Con
      <4>3. early'[p] /\ pcb'[p] = "open"
        BY <4>2 DEF Window
      <4> QED
        BY <3>1, <4>3 DEF FaultNeedsWindow
    <3> QED
      BY <3>2, <3>3
  <2> QED
    BY <2>1, <2>2, <2>3 DEF Next, Stopped
<1> QED
  BY <1>1, <1>2, Invariance, PTL DEF Spec, FaultNeedsWindow
=============================================================================
