------------------------------ MODULE MCConsole -------------------------------
(* Lines as they are typed, and tables with rows of every kind. *)
EXTENDS Console

MCChars == {"a", "b", "c", "d", "e", "f", "g", "h", "i", "j", "k", "l", "m", "n", "o", "p",
            "q", "r", "s", "t", "u", "v", "w", "x", "y", "z", " ", "%"}

\* Each command; a command or its argument missing, misspelt or run on; a line
\* that is one character too long.
MCLines == {Text(w) : w \in
  {"epaper gui", "epaper test", "epaper clear", "epaper sleep", "epaper", "ups ma", "ups v",
   "ups", "fs xcatb", "fs cat", "reset flash", "reset usb", "", "eject", "q",
   "epaper ejectejec"}}

Row(year, winner, score) ==
  <<48, 49, 46, 48, 50, 46, 50, 48 + year, 44, 103, 44>> \o winner \o <<44, 48 + score, 13, 10>>

\* No row; more than fit, one without a winner, and one without a line end; as
\* many as fit, one of commas only and a blank one.
MCTexts == {
  <<>>,
  Row(3, <<65>>, 1) \o Row(5, <<>>, 2) \o Row(5, <<67>>, 5) \o <<48, 44, 65>>,
  <<44, 44, 44, 10, 13, 10>> }

\* More lines of the grid than there should be, and none.
MCJunk == {-3, 40}
=============================================================================
