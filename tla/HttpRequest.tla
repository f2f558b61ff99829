----------------------------- MODULE HttpRequest -----------------------------
(***************************************************************************)
(* How tcp_server_recv (httpserver/httpserver.c) stores what arrives on a  *)
(* connection in con->request and reads a request back out of it.          *)
(*                                                                         *)
(* The buffer is an array of ReqSize cells.  A cell holds one token of the *)
(* stream (a request line, a header, the blank line that ends the header,  *)
(* a piece of the body) or NUL, so every token has the same length and a   *)
(* later token overwrites exactly one earlier one.  What strstr and        *)
(* strncmp see is the text before the first NUL, whatever request_len is.  *)
(***************************************************************************)
EXTENDS Integers, Sequences, FiniteSetsExt

CONSTANTS
  ReqSize,   \* sizeof(con->request), in tokens
  Null       \* the null pointer, and "no route"

ASSUME ReqSizeAssumption == ReqSize \in Nat \ {0}

\* No pointer into a buffer is null.
ASSUME NullAssumption == Null \notin Nat

http_route_get_fs == "GET /fs"
http_route_post_fs == "POST /fs"
http_route_get_led == "GET /led"
http_route_get_root == "GET /"

\* Mutant: the least specific route first.
GeneralFirst == <<http_route_get_root, http_route_get_fs, http_route_post_fs, http_route_get_led>>

\* The routes in the order main.c mounts them: http_server takes the first
\* whose method_and_path is a prefix of the request.
HTTP_ROUTES == <<http_route_get_fs, http_route_post_fs, http_route_get_led, http_route_get_root>>

\* The start of a request.  No route is a prefix of "POST /".
Lines == {"GET /fs", "POST /fs", "GET /led", "GET /", "POST /"}

Nul           == "NUL"
Marker        == "CRLF CRLF"
ContentLength == "Content-Length:"
Pieces        == {"b1", "b2"}
Token == Lines \cup Pieces \cup {"Host:", ContentLength, Marker}
Cell  == Token \cup {Nul}
Index == 0 .. ReqSize - 1

Buffer == [Index -> Cell]

\* calloc(1, sizeof(http_connection_t))
EmptyBuffer == [i \in Index |-> Nul]

-----------------------------------------------------------------------------
\* Mutant: no cell kept for NUL.
FillsBuffer(len, seg) ==
  IF Len(seg) > ReqSize - len THEN ReqSize - len ELSE Len(seg)

\* rx_len: what fits behind the bytes already held, keeping one cell for NUL.
RxLen(len, seg) ==
  IF Len(seg) > ReqSize - len - 1 THEN ReqSize - len - 1 ELSE Len(seg)

\* pbuf_copy_partial(p, con->request + con->request_len, rx_len, 0)
Stored(buf, len, seg) ==
  [i \in Index |-> IF i \in len .. len + RxLen(len, seg) - 1
                   THEN seg[i - len + 1] ELSE buf[i]]

\* The cells a C string function started on the buffer reads.
Text(buf) == {i \in Index : \A j \in 0 .. i : buf[j] # Nul}

Markers(buf) == {i \in Text(buf) : buf[i] = Marker}

\* Where the body starts, Null if the bytes received so far hold none: the
\* first cell behind the first run of blank lines, if that lies before len.
BodyAt(buf, len) ==
  IF Markers(buf) = {} THEN Null
  ELSE LET start == Min({i \in Index : i > Min(Markers(buf)) /\ buf[i] # Marker})
       IN  IF start >= len THEN Null ELSE start

\* With a body found, the blank line becomes NULs and ends the header text.
\* No second marker is left to the strstr of the loop: the text ends there.
Sanitized(buf, body) ==
  IF body = Null THEN buf ELSE [buf EXCEPT ![Min(Markers(buf))] = Nul]

\* The buffer once a segment has been taken in and searched for a body.
Received(buf, len, seg) ==
  LET newlen == len + RxLen(len, seg)
      raw    == Stored(buf, len, seg)
      body   == BodyAt(raw, newlen)
  IN  [buf |-> Sanitized(raw, body), len |-> newlen, body |-> body]

\* Mutant: waits for a body that has come in the same segment.
AwaitsAnyBody(r) == \E i \in Text(r.buf) : r.buf[i] = ContentLength

\* The header text announces a body and none is there yet.
AwaitsBody(r) ==
  /\ r.body = Null
  /\ \E i \in Text(r.buf) : r.buf[i] = ContentLength

\* req.body as the handlers read it: a C string, up to the next NUL.
BodyText(r) ==
  IF r.body = Null THEN <<>>
  ELSE LET end == Min({ReqSize} \cup {i \in Index : i >= r.body /\ r.buf[i] = Nul})
       IN  [k \in 1 .. end - r.body |-> r.buf[r.body + k - 1]]

-----------------------------------------------------------------------------
\* strncmp(route, line, strlen(route)) == 0
Matches(route, line) ==
  \/ route = line
  \/ route = "GET /" /\ line \in {"GET /fs", "GET /led"}

RouteOf(line) ==
  LET hits == {k \in DOMAIN HTTP_ROUTES : Matches(HTTP_ROUTES[k], line)}
  IN  IF hits = {} THEN Null ELSE HTTP_ROUTES[Min(hits)]

\* header_len and result_len of an answer, in units.  POST /fs redirects and
\* has no body; the other bodies are as long as the handler makes them.
Answers(route, maxBody) ==
  IF route = "POST /fs" THEN {<<1, 0>>} ELSE {1} \X (1 .. maxBody)
=============================================================================
