---------------------------- MODULE MCFileRoutes -----------------------------
(***************************************************************************)
(* Two browsers and two files.  A page has room for a text of six units,   *)
(* of three with its button; a request for seven.  Users type texts of all *)
(* these lengths.                                                          *)
(***************************************************************************)
EXTENDS FileRoutes

MCTyped == {<<>>, <<"x">>, <<"x", LineEnd>>, <<"x", LineEnd, "y", "y">>,
            <<"x", "y", LineEnd, "x", LineEnd, "x", "y">>}
=============================================================================
