---------------------------- MODULE MCHttpServer -----------------------------
(* Two clients, two records and one request per connection. *)
EXTENDS HttpServer, TLC

\* A page, a form posted in two segments, a request nobody handles.
Page    == [text |-> <<"GET /", Marker>>, cuts |-> {2}]
Form    == [text |-> <<"POST /fs", ContentLength, Marker, "b1">>, cuts |-> {3, 4}]
Nowhere == [text |-> <<"POST /", Marker>>, cuts |-> {2}]

SmallScripts == {Page, Form, Nowhere}

Symmetry == Permutations(Pcbs) \cup Permutations(Records)
=============================================================================
