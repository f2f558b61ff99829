-------------------------------- MODULE Repl ---------------------------------
(***************************************************************************)
(* repl.c and the command tables of main.c and repl_*.c: a line is read    *)
(* into one buffer and dispatched by prefix, once by its beginning and     *)
(* once more by what stands behind the command and one more character.     *)
(*                                                                         *)
(* A handler gets a pointer into the buffer that may lie behind the end of *)
(* the line (the line "epaper" is passed on from its eighth character).    *)
(*                                                                         *)
(* Every match is run; the order of the tables is left out, since no line *)
(* matches twice (RunsWhatWasTyped).                                       *)
(***************************************************************************)
EXTENDS Integers, Sequences

CONSTANTS
  Chars,    \* what getchar returns, but for the ends of lines
  Nul,      \* the byte 0
  LineMax   \* REPL_LINE_MAXLEN

ASSUME LineAssumption == LineMax \in Nat \ {0} /\ Nul \notin Chars

VARIABLES
  line,    \* char line[REPL_LINE_MAXLEN]
  typed,   \* history: what was typed as the last line
  ran      \* history: the handlers it was dispatched to, with their arguments

replVars == <<line, typed, ran>>

Text(word) == [k \in 1 .. Len(word) |-> SubSeq(word, k, k)]

-----------------------------------------------------------------------------
(* The tables *)

Cmd(word, lut) == [cmd |-> Text(word), lut |-> lut]

FsLut == {"ls", "cat", "xcat"}
ResetLut == {"flash", "usb"}
UpsLut == {"v", "ma", "%"}
EpaperLut == {"clear", "sleep", "test", "gui"}

REPL_CMDS ==
  {Cmd("fs", FsLut), Cmd("reset", ResetLut), Cmd("ups", UpsLut), Cmd("epaper", EpaperLut)}

\* Neither is a prefix of the other.
Differ(v, w) == \E k \in (1 .. Len(v)) \cap (1 .. Len(w)) : v[k] # w[k]

\* The longest path through the tables, with its two separators, leaves room
\* for the end of the line; no command is a prefix of another one, and no
\* word of another one of its table.
ASSUME TablesAssumption ==
  \A c \in REPL_CMDS :
    /\ c.cmd \in Seq(Chars)
    /\ \A d \in REPL_CMDS : d # c => Differ(c.cmd, d.cmd)
    /\ \A w \in c.lut :
         /\ Text(w) \in Seq(Chars) /\ Len(Text(w)) > 0
         /\ Len(c.cmd) + 1 + Len(Text(w)) + 1 < LineMax
         /\ \A v \in c.lut : v # w => Differ(Text(v), Text(w))

-----------------------------------------------------------------------------
(* The line *)

Cleared == [k \in 0 .. LineMax - 1 |-> Nul]

\* Mutant: the end of the line is not counted.
FitsWithoutEnd(t) == Len(t) <= LineMax

Fits(t) == Len(t) <= LineMax - 1

\* repl_getline: an empty line does not even write its end.
Filled(buf, t) ==
  [k \in (0 .. LineMax - 1) \cup (0 .. Len(t)) |->
     IF k < Len(t) THEN t[k + 1] ELSE IF k = Len(t) /\ t # <<>> THEN Nul ELSE buf[k]]

\* strncmp(buf + at, word, strlen(word)) == 0
StartsWith(buf, at, word) ==
  \A k \in 1 .. Len(word) : at + k <= LineMax /\ buf[at + k - 1] = word[k]

Quits(buf) == StartsWith(buf, 0, Text("q"))

\* The string that a pointer to buf + at stands for.
CString(buf, at) ==
  LET end == CHOOSE e \in at .. LineMax - 1 :
               buf[e] = Nul /\ \A k \in at .. e - 1 : buf[k] # Nul
  IN  [k \in 1 .. end - at |-> buf[at + k - 1]]

\* repl_dispatch with the table of a command.
SubDispatched(buf, c) ==
  {[cmd |-> c.cmd, run |-> w, arg |-> CString(buf, Len(c.cmd) + Len(Text(w)) + 2)] :
     w \in {w \in c.lut : StartsWith(buf, Len(c.cmd) + 1, Text(w))}}

\* repl_dispatch with REPL_CMDS.
Dispatched(buf) ==
  UNION {SubDispatched(buf, c) : c \in {c \in REPL_CMDS : StartsWith(buf, 0, c.cmd)}}

-----------------------------------------------------------------------------
ReplInit == line = Cleared /\ typed = <<>> /\ ran = {}

\* Mutant: the buffer is cleared once, not for each line.
ClearsOnce == typed' = <<>> /\ ran' = {} /\ UNCHANGED line

\* The head of the loop: memset.
ReplClears == typed' = <<>> /\ ran' = {} /\ line' = Cleared

ReadLine(t) == Fits(t) /\ typed' = t /\ line' = Filled(line, t)

\* A command, an unknown one or none.
ReplDispatches(t) ==
  /\ ReadLine(t)
  /\ ~Quits(line')
  /\ ran' = Dispatched(line')

\* "quit", anything else with a q, or a line that does not fit.
ReplLeaves(t) ==
  /\ \/ ReadLine(t) /\ Quits(line')
     \/ ~Fits(t) /\ typed' = t /\ line' = Filled(line, SubSeq(t, 1, LineMax - 1))
  /\ ran' = {}
-----------------------------------------------------------------------------
Handlers == UNION {c.lut : c \in REPL_CMDS}

ReplTypeOK ==
  /\ line \in [0 .. LineMax - 1 -> Chars \cup {Nul}]
  /\ typed \in Seq(Chars)
  /\ \A h \in ran : \E c \in REPL_CMDS : h.cmd = c.cmd /\ h.run \in c.lut

TypedAt(at, word) ==
  at + Len(word) <= Len(typed) /\ \A k \in 1 .. Len(word) : typed[at + k] = word[k]

\* A handler runs because the last line names it, and its argument is the
\* rest of that line: the pointer that repl_dispatch passes on may lie behind
\* the end of the line, and must not find there what was typed before.  And
\* no line runs two, although repl_dispatch does not stop at the first match.
RunsWhatWasTyped ==
  /\ \A h \in ran :
       LET sub == Len(h.cmd) + 1
           arg == sub + Len(Text(h.run)) + 1
       IN  /\ TypedAt(0, h.cmd)
           /\ TypedAt(sub, Text(h.run))
           /\ IF arg < Len(typed) THEN TypedAt(arg, h.arg) /\ arg + Len(h.arg) = Len(typed)
                                  ELSE h.arg = <<>>
  /\ \A g, h \in ran : g = h
=============================================================================
