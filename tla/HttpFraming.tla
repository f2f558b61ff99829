---------------------------- MODULE HttpFraming ------------------------------
(***************************************************************************)
(* What the requests passed to the route handlers should be: those the     *)
(* client sent, whatever segments they came in.  The reference reads the   *)
(* whole stream of a connection; tcp_server_recv reads it one segment at a *)
(* time out of a buffer it reuses.                                         *)
(***************************************************************************)
EXTENDS HttpServer, FiniteSets

\* The requests of a stream.  Request lines occur nowhere else in it.
Starts(s) == {i \in DOMAIN s : s[i] \in Lines}

End(s, i) == Min({j \in Starts(s) : j > i} \cup {Len(s) + 1}) - 1

HeaderEnd(s, i) == Min({j \in i .. End(s, i) : s[j] = Marker})

\* What is kept of a body: con->request has room for ReqSize - 1 tokens.
SentRequest(s, i) ==
  LET h == HeaderEnd(s, i)
  IN  [line |-> s[i], body |-> SubSeq(s, h + 1, Min({End(s, i), i + ReqSize - 2}))]

\* Which request of the stream starts at i, counted from 1.
Rank(s, i) == Cardinality({j \in Starts(s) : j <= i})

\* How many requests have arrived with their blank line and, if they
\* announce one, their body.
Complete(s) ==
  Cardinality({i \in Starts(s) :
    /\ \E j \in i .. End(s, i) : s[j] = Marker
    /\ (\E j \in i .. End(s, i) : s[j] = ContentLength) => s[End(s, i)] # Marker})

\* Every request a handler is given is one the client sent, in order, with
\* the whole of its body (as much of it as the buffer holds).
HandledAsSent ==
  \A p \in Pcbs : \A k \in DOMAIN handled[p] : \E i \in Starts(script[p].text) :
    /\ Rank(script[p].text, i) = k
    /\ [line |-> handled[p][k].line, body |-> handled[p][k].body] = SentRequest(script[p].text, i)

\* A request that has arrived whole is not kept waiting: on a connection
\* still open, the handlers have been given every complete request (unless
\* the core has stopped).
CompleteMeansHandled ==
  \A p \in Pcbs : pcb[p] = "open" /\ ~fault =>
    Len(handled[p]) >= Complete(SubSeq(script[p].text, 1, pos[p]))

\* main.c: "most specific *must* come first!"  The route taken is not a
\* prefix of another route that the request matches too.
SpecificRouteWins ==
  \A p \in Pcbs : \A k \in DOMAIN handled[p] :
    \A n \in DOMAIN HTTP_ROUTES :
      Matches(HTTP_ROUTES[n], handled[p][k].line) /\ HTTP_ROUTES[n] # handled[p][k].route =>
        ~Matches(handled[p][k].route, HTTP_ROUTES[n])

-----------------------------------------------------------------------------
\* The scripts the server reads as they were meant.  The stream is a sequence
\* of requests; each ends with a segment, and is cut at most once, behind the
\* blank line of a header that announces a body.
WellCut(c) ==
  LET s == c.text
  IN  /\ s # <<>> /\ s[1] \in Lines
      /\ \A i \in Starts(s) :
           LET e         == End(s, i)
               h         == HeaderEnd(s, i)
               announced == \E j \in i .. h : s[j] = ContentLength
           IN  /\ \E j \in i .. e : s[j] = Marker
               /\ e \in c.cuts
               /\ \A k \in c.cuts : k \in i .. e - 1 => k = h /\ announced
               /\ announced => h < e
               \* A body does not begin with a blank line; of each the buffer
               \* holds the header and the first piece of the body.
               /\ h < e => s[h + 1] # Marker
               /\ h - i + (IF h < e THEN 2 ELSE 1) < ReqSize
               \* No request is shorter than one before it.
               /\ \A j \in Starts(s) : j < i => End(s, j) - j <= e - i \/ e - i >= ReqSize - 2
=============================================================================
