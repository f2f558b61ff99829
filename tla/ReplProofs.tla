----------------------------- MODULE ReplProofs ------------------------------
(***************************************************************************)
(* Reading and dispatching a line, for every length of a line and every    *)
(* set of characters.  What is typed is arbitrary; the tables are those of *)
(* Repl, of which TablesAssumption says what matters.                      *)
(***************************************************************************)
EXTENDS Repl, TLAPS, SequenceTheorems

\* A line that fits, in a buffer that was cleared.
LEMMA FilledFits ==
  ASSUME NEW t \in Seq(Chars), Fits(t)
  PROVE  /\ Filled(Cleared, t) \in [0 .. LineMax - 1 -> Chars \cup {Nul}]
         /\ Len(t) \in 0 .. LineMax - 1
         /\ \A k \in 0 .. LineMax - 1 :
              Filled(Cleared, t)[k] = IF k < Len(t) THEN t[k + 1] ELSE Nul
<1>1. Len(t) \in Nat /\ Len(t) <= LineMax - 1 /\ LineMax \in Nat
  BY LineAssumption DEF Fits
<1>2. (0 .. LineMax - 1) \cup (0 .. Len(t)) = 0 .. LineMax - 1
  BY <1>1
<1>3. Filled(Cleared, t) = [k \in 0 .. LineMax - 1 |-> IF k < Len(t) THEN t[k + 1] ELSE Nul]
  BY <1>1, <1>2 DEF Filled, Cleared
<1>4. \A k \in 0 .. LineMax - 1 : k < Len(t) => t[k + 1] \in Chars
  BY <1>1
<1> QED
  BY <1>1, <1>3, <1>4

\* What strncmp finds in such a buffer was typed.
LEMMA FoundIsTyped ==
  ASSUME NEW t \in Seq(Chars), Fits(t), NEW at \in Nat, NEW word \in Seq(Chars),
         at <= Len(t) \/ Len(word) > 0,
         StartsWith(Filled(Cleared, t), at, word)
  PROVE  at + Len(word) <= Len(t) /\ \A k \in 1 .. Len(word) : t[at + k] = word[k]
<1>1. Len(t) \in Nat /\ Len(word) \in Nat /\ LineMax \in Nat
  BY LineAssumption
<1>2. ASSUME NEW k \in 1 .. Len(word) PROVE at + k <= Len(t) /\ t[at + k] = word[k]
  <2>1. at + k - 1 \in 0 .. LineMax - 1 /\ Filled(Cleared, t)[at + k - 1] = word[k]
    BY <1>1 DEF StartsWith
  <2>2. word[k] # Nul
    BY LineAssumption
  <2>3. word[k] = IF at + k - 1 < Len(t) THEN t[at + k - 1 + 1] ELSE Nul
    BY <2>1, FilledFits
  <2>4. at + k - 1 < Len(t) /\ word[k] = t[at + k - 1 + 1]
    BY <2>2, <2>3
  <2>5. at + k - 1 + 1 = at + k
    OBVIOUS
  <2> QED
    BY <1>1, <2>4, <2>5
<1> QED
  BY <1>1, <1>2

\* The string a pointer into such a buffer stands for is the rest of the line,
\* or empty, also where the pointer lies behind the end of the line.
LEMMA ArgumentIsRest ==
  ASSUME NEW t \in Seq(Chars), Fits(t), NEW at \in 0 .. LineMax - 1
  PROVE  IF at < Len(t)
         THEN /\ Len(CString(Filled(Cleared, t), at)) = Len(t) - at
              /\ \A k \in 1 .. Len(t) - at : CString(Filled(Cleared, t), at)[k] = t[at + k]
         ELSE CString(Filled(Cleared, t), at) = <<>>
<1> DEFINE buf == Filled(Cleared, t)
           stop == IF at < Len(t) THEN Len(t) ELSE at
           Ends(e) == buf[e] = Nul /\ \A k \in at .. e - 1 : buf[k] # Nul
           str == [k \in 1 .. stop - at |-> buf[at + k - 1]]
<1>1. /\ Len(t) \in 0 .. LineMax - 1 /\ LineMax \in Nat
      /\ \A k \in 0 .. LineMax - 1 : buf[k] = IF k < Len(t) THEN t[k + 1] ELSE Nul
  BY FilledFits, LineAssumption
<1>2. \A k \in 0 .. Len(t) - 1 : t[k + 1] # Nul
  BY <1>1, LineAssumption
<1> HIDE DEF buf
<1>3. stop \in at .. LineMax - 1 /\ Ends(stop)
  BY <1>1, <1>2
<1>4. \A e \in at .. LineMax - 1 : Ends(e) => e = stop
  BY <1>1, <1>2
<1>5. (CHOOSE e \in at .. LineMax - 1 : Ends(e)) = stop
  BY <1>3, <1>4
<1>6. CString(Filled(Cleared, t), at) = str
  BY <1>5 DEF CString, buf
<1>7. CASE at < Len(t)
  <2>1. stop - at = Len(t) - at /\ Len(t) - at \in Nat
    BY <1>1, <1>7
  <2>2. \A k \in 1 .. Len(t) - at : str[k] = t[at + k]
    <3> TAKE k \in 1 .. Len(t) - at
    <3>1. at + k - 1 \in 0 .. LineMax - 1 /\ at + k - 1 < Len(t) /\ at + k - 1 + 1 = at + k
      BY <1>1, <1>7
    <3>2. buf[at + k - 1] = t[at + k]
      BY <1>1, <3>1
    <3> QED
      BY <2>1, <3>2
  <2>3. Len(str) = Len(t) - at
    BY <2>1
  <2> QED
    BY <1>6, <1>7, <2>2, <2>3
<1>8. CASE ~(at < Len(t))
  <2>1. stop - at = 0
    BY <1>1, <1>8
  <2>2. str = << >>
    BY <2>1
  <2> QED
    BY <1>6, <1>8, <2>2
<1> QED
  BY <1>7, <1>8

-----------------------------------------------------------------------------
\* A command of the table with a word of its own table.
Runs(c, w) == c \in REPL_CMDS /\ w \in c.lut

ArgAt(c, w) == Len(c.cmd) + 1 + Len(Text(w)) + 1

LEMMA TableFacts ==
  ASSUME NEW c, NEW w, Runs(c, w)
  PROVE  /\ c.cmd \in Seq(Chars) /\ Text(w) \in Seq(Chars) /\ Len(Text(w)) > 0
         /\ Len(c.cmd) \in Nat /\ Len(Text(w)) \in Nat
         /\ ArgAt(c, w) \in 0 .. LineMax - 1
<1>1. /\ c.cmd \in Seq(Chars) /\ Text(w) \in Seq(Chars) /\ Len(Text(w)) > 0
      /\ ArgAt(c, w) < LineMax
  BY TablesAssumption DEF Runs, ArgAt
<1>2. Len(c.cmd) \in Nat /\ Len(Text(w)) \in Nat
  BY <1>1
<1> QED
  BY <1>1, <1>2, LineAssumption DEF ArgAt

LEMMA DispatchedAre ==
  ASSUME NEW buf, NEW h \in Dispatched(buf)
  PROVE  \E c, w :
           /\ Runs(c, w)
           /\ StartsWith(buf, 0, c.cmd) /\ StartsWith(buf, Len(c.cmd) + 1, Text(w))
           /\ h.cmd = c.cmd /\ h.run = w /\ h.arg = CString(buf, ArgAt(c, w))
<1>1. PICK c \in REPL_CMDS : StartsWith(buf, 0, c.cmd) /\ h \in SubDispatched(buf, c)
  BY DEF Dispatched
<1>2. PICK w \in c.lut :
        /\ StartsWith(buf, Len(c.cmd) + 1, Text(w))
        /\ h = [cmd |-> c.cmd, run |-> w, arg |-> CString(buf, Len(c.cmd) + Len(Text(w)) + 2)]
  BY <1>1 DEF SubDispatched
<1>3. Runs(c, w)
  BY <1>1, <1>2 DEF Runs
<1>4. Len(c.cmd) + Len(Text(w)) + 2 = ArgAt(c, w)
  BY <1>3, TableFacts DEF ArgAt
<1>5. h.cmd = c.cmd /\ h.run = w /\ h.arg = CString(buf, ArgAt(c, w))
  BY <1>2, <1>4
<1> QED
  BY <1>1, <1>2, <1>3, <1>5

\* A cleared buffer dispatches a line to what it names and passes on the rest
\* of it, and to no more than one handler.
LEMMA DispatchesWhatWasTyped ==
  ASSUME line = Cleared, NEW t \in Seq(Chars), ReplDispatches(t)
  PROVE  RunsWhatWasTyped'
<1>1. Fits(t) /\ typed' = t /\ line' = Filled(Cleared, t) /\ ran' = Dispatched(Filled(Cleared, t))
  BY DEF ReplDispatches, ReadLine
<1> DEFINE buf == Filled(Cleared, t)
           At(at, word) == at + Len(word) <= Len(t) /\ \A k \in 1 .. Len(word) : t[at + k] = word[k]
<1>2. ASSUME NEW h \in ran'
      PROVE  \E c, w :
               /\ Runs(c, w)
               /\ h.cmd = c.cmd /\ h.run = w /\ h.arg = CString(buf, ArgAt(c, w))
               /\ At(0, c.cmd) /\ At(Len(c.cmd) + 1, Text(w))
  <2>1. PICK c, w :
          /\ Runs(c, w)
          /\ StartsWith(buf, 0, c.cmd) /\ StartsWith(buf, Len(c.cmd) + 1, Text(w))
          /\ h.cmd = c.cmd /\ h.run = w /\ h.arg = CString(buf, ArgAt(c, w))
    BY <1>1, <1>2, DispatchedAre
  <2>2. Runs(c, w)
    BY <2>1
  <2>3. At(0, c.cmd)
    BY <1>1, <2>1, <2>2, TableFacts, FoundIsTyped
  <2>4. Len(c.cmd) + 1 \in Nat
    BY <2>2, TableFacts
  <2>5. At(Len(c.cmd) + 1, Text(w))
    BY <1>1, <2>1, <2>2, <2>4, TableFacts, FoundIsTyped
  <2> QED
    BY <2>1, <2>3, <2>5
<1>3. ASSUME NEW h \in ran'
      PROVE  LET sub == Len(h.cmd) + 1
                 arg == sub + Len(Text(h.run)) + 1
             IN  /\ At(0, h.cmd)
                 /\ At(sub, Text(h.run))
                 /\ IF arg < Len(t) THEN At(arg, h.arg) /\ arg + Len(h.arg) = Len(t)
                                    ELSE h.arg = <<>>
  <2>1. PICK c, w :
          /\ Runs(c, w)
          /\ h.cmd = c.cmd /\ h.run = w /\ h.arg = CString(buf, ArgAt(c, w))
          /\ At(0, c.cmd) /\ At(Len(c.cmd) + 1, Text(w))
    BY <1>2, <1>3
  <2>2. Runs(c, w)
    BY <2>1
  <2> DEFINE arg == ArgAt(c, w)
  <2>3. arg \in 0 .. LineMax - 1
    BY <2>2, TableFacts
  <2>4. IF arg < Len(t)
        THEN Len(h.arg) = Len(t) - arg /\ \A k \in 1 .. Len(t) - arg : h.arg[k] = t[arg + k]
        ELSE h.arg = <<>>
    BY <1>1, <2>1, <2>3, ArgumentIsRest
  <2>5. IF arg < Len(t) THEN At(arg, h.arg) /\ arg + Len(h.arg) = Len(t) ELSE h.arg = <<>>
    <3>1. Len(t) \in Nat /\ (arg < Len(t) => 1 .. Len(h.arg) = 1 .. Len(t) - arg)
      BY <2>4
    <3>2. arg < Len(t) => \A k \in 1 .. Len(h.arg) : t[arg + k] = h.arg[k]
      BY <2>4, <3>1
    <3>3. arg < Len(t) => arg + Len(h.arg) = Len(t)
      BY <2>3, <2>4, <3>1
    <3> QED
      BY <2>4, <3>1, <3>2, <3>3
  <2>6. arg = Len(h.cmd) + 1 + Len(Text(h.run)) + 1
    BY <2>1 DEF ArgAt
  <2> HIDE DEF arg, At
  <2> QED
    BY <2>1, <2>5, <2>6
<1>4. ASSUME NEW g \in ran', NEW h \in ran' PROVE g = h
  <2>1. PICK c, w :
          /\ Runs(c, w)
          /\ g.cmd = c.cmd /\ g.run = w /\ g.arg = CString(buf, ArgAt(c, w))
          /\ At(0, c.cmd) /\ At(Len(c.cmd) + 1, Text(w))
    BY <1>2, <1>4
  <2>2. PICK d, v :
          /\ Runs(d, v)
          /\ h.cmd = d.cmd /\ h.run = v /\ h.arg = CString(buf, ArgAt(d, v))
          /\ At(0, d.cmd) /\ At(Len(d.cmd) + 1, Text(v))
    BY <1>2, <1>4
  <2>3. c = d
    <3>1. ~Differ(d.cmd, c.cmd)
      BY <2>1, <2>2 DEF Differ
    <3> QED
      BY <2>1, <2>2, <3>1, TablesAssumption DEF Runs
  <2>4. w = v
    <3>1. ~Differ(Text(v), Text(w))
      BY <2>1, <2>2, <2>3 DEF Differ
    <3> QED
      BY <2>1, <2>2, <2>3, <3>1, TablesAssumption DEF Runs
  <2>5. \A r \in Dispatched(buf) : r = [cmd |-> r.cmd, run |-> r.run, arg |-> r.arg]
    BY DEF Dispatched, SubDispatched
  <2> QED
    BY <1>1, <2>1, <2>2, <2>3, <2>4, <2>5
<1>5. RunsWhatWasTyped' =
        /\ \A h \in ran' :
             LET sub == Len(h.cmd) + 1
                 arg == sub + Len(Text(h.run)) + 1
             IN  /\ At(0, h.cmd)
                 /\ At(sub, Text(h.run))
                 /\ IF arg < Len(t) THEN At(arg, h.arg) /\ arg + Len(h.arg) = Len(t)
                                    ELSE h.arg = <<>>
        /\ \A g, h \in ran' : g = h
  BY <1>1, Zenon DEF RunsWhatWasTyped, TypedAt
<1> HIDE DEF At
<1> QED
  BY <1>3, <1>4, <1>5
=============================================================================
