------------------------------ MODULE TableRead ------------------------------
(***************************************************************************)
(* tableread.c: the copy of db.txt on the heap, read as rows that end with *)
(* a line end and cells that end with a comma.  A row is                   *)
(*   date (dd.mm.yy), game, winner, score.                                 *)
(*                                                                         *)
(* Each cell is found by a scan of the whole text and returned in one      *)
(* static array.  A cell that does not fit in it is written behind it,     *)
(* which C leaves undefined: texts with such cells are outside.            *)
(***************************************************************************)
EXTENDS Integers, SequencesExt

CONSTANT DataLen   \* sizeof(data)

ASSUME DataLenAssumption == DataLen \in Nat /\ DataLen >= 9

\* Characters are their codes.
Comma   == 44
LineEnd == 10

\* Mutant: only a line end ends a cell of the row before.
ScansOn(state, c) ==
  IF c = Comma THEN [state EXCEPT !.col = @ + 1]
  ELSE IF c = LineEnd THEN [state EXCEPT !.row = @ + 1]
  ELSE IF <<state.row, state.col>> = state.want THEN [state EXCEPT !.data = Append(@, c)]
  ELSE state

\* One round of the loop of getTableData.
ScanChar(state, c) ==
  IF c = Comma THEN [state EXCEPT !.col = @ + 1]
  ELSE IF c = LineEnd THEN [state EXCEPT !.col = 0, !.row = @ + 1]
  ELSE IF <<state.row, state.col>> = state.want THEN [state EXCEPT !.data = Append(@, c)]
  ELSE state

Written(text, row, col) ==
  FoldLeft(ScanChar, [row |-> 0, col |-> 0, data |-> <<>>, want |-> <<row, col>>], text).data

\* The static array, filled up with zeros.
getTableData(text, row, col) ==
  LET cell == Written(text, row, col)
  IN  [j \in 0 .. DataLen - 1 |-> IF j < Len(cell) THEN cell[j + 1] ELSE 0]

getTableRowCount(text) == Len(SelectSeq(text, LAMBDA c : c = LineEnd))

\* The year of a row is read from its date as it stands: a row without a
\* date has the year 2000 - 528.
YearOf(text, row) ==
  LET date == getTableData(text, row, 0)
  IN  2000 + (date[6] - 48) * 10 + (date[7] - 48)

RowNumbers(text) == 0 .. getTableRowCount(text) - 1

getYearNow(text) == Max({0} \cup {YearOf(text, i) : i \in RowNumbers(text)})

getGamesInTheYear(text, year) ==
  Cardinality({i \in RowNumbers(text) : YearOf(text, i) = year})

-----------------------------------------------------------------------------
(* The reference: the text cut at its line ends, and a row at its commas.  *)

\* The pieces of s that are followed by sep, and what is behind the last one.
Split(s, sep) ==
  LET cuts == SetToSortSeq({i \in DOMAIN s : s[i] = sep}, <)
      from(k) == IF k = 1 THEN 1 ELSE cuts[k - 1] + 1
      to(k)   == IF k > Len(cuts) THEN Len(s) ELSE cuts[k] - 1
  IN  [k \in 1 .. Len(cuts) + 1 |-> SubSeq(s, from(k), to(k))]

\* The rows: what is behind the last line end is not one.
Rows(text) == Front(Split(text, LineEnd))

CellOf(row, col) ==
  LET cells == Split(row, Comma) IN IF col < Len(cells) THEN cells[col + 1] ELSE <<>>

\* A text the reader is made for: every cell leaves room for the zero that
\* ends it.
Readable(text) ==
  \A k \in DOMAIN Split(text, LineEnd) :
    \A cell \in ToSet(Split(Split(text, LineEnd)[k], Comma)) : Len(cell) < DataLen
=============================================================================
