---------------------------- MODULE MCHttpFraming ----------------------------
(* One connection at a time and the requests it may carry. *)
EXTENDS HttpFraming, SequencesExt

\* The stream that a sequence of segments is.
Cut(segments) ==
  [text |-> FlattenSeq(segments),
   cuts |-> {Len(FlattenSeq(SubSeq(segments, 1, k))) : k \in DOMAIN segments}]

Get  == <<"GET /fs", Marker>>
Led  == <<"GET /led", "Host:", Marker>>
Post == <<"POST /fs", ContentLength, Marker>>
PostHost == <<"POST /fs", "Host:", ContentLength, Marker>>

\* Each request in one segment, or in two cut at its blank line; a body with
\* a blank line in it, one that overflows the buffer; a second request that
\* is no shorter than the first.
WholeScripts == {Cut(s) : s \in {
  <<Get>>, << <<"GET /", Marker>> >>, << <<"POST /", "Host:", Marker>> >>,
  << Post \o <<"b1", Marker, "b2">> >>,
  <<Post, <<"b1", "b2">>>>,
  <<PostHost, <<"b2">>>>,
  <<Post, <<"b1", "b2", "b1", "b2">>>>,
  << PostHost \o <<"b1", "b1", "b2", "b2">> >>,
  <<Get, Led>>,
  <<Post, <<"b1">>, PostHost, <<"b2">>>>,
  <<Led, Post, <<"b2">>>> }}

\* A second request shorter than the first.
ShorterSecond == {Cut(<<PostHost, <<"b1">>, Get>>)}

\* A body in two segments.
SplitBody == {Cut(<<Post, <<"b1">>, <<"b2">>>>)}

\* Which of these WellCut is about.
ASSUME WellCutCovers ==
  /\ \A s \in WholeScripts : WellCut(s)
  /\ \A s \in ShorterSecond \cup SplitBody : ~WellCut(s)
=============================================================================
