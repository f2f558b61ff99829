--------------------------------- MODULE Gui ---------------------------------
(***************************************************************************)
(* epaper_gui.c: what epaper_gui_draw puts into the two images, as a       *)
(* function of the table and of the battery, and the pictures of           *)
(* BitmapData.c that they begin with: a picture is its size and the        *)
(* rectangles around what it shows.                                        *)
(*                                                                         *)
(* Two loops that draw the grid count from a variable that is never set:   *)
(* junk is what they find in it.  Lines are clipped at the image's border, *)
(* strings go on below where they began.                                   *)
(***************************************************************************)
EXTENDS TableRead

CONSTANT TableRows   \* rows of the table that are shown: 8

\* EPD_5IN83B_V2_WIDTH and EPD_5IN83B_V2_HEIGHT of the panel's driver.
PanelWidth  == 648
PanelHeight == 480

WidthBytes == IF PanelWidth % 8 = 0 THEN PanelWidth \div 8 ELSE PanelWidth \div 8 + 1
ImageBytes == WidthBytes * PanelHeight

\* A rectangle of pixels: its upper left corner and its size.
Box(x, y, w, h) == [x |-> x, y |-> y, w |-> w, h |-> h]

Apart(a, b) == a.x + a.w <= b.x \/ b.x + b.w <= a.x \/ a.y + a.h <= b.y \/ b.y + b.h <= a.y

\* The pictures are white but for a battery, a die, half a piece of domino and
\* the foot of the crown; and the title, the crown, the star and the other half.
blackData ==
  [bytes |-> 38886,
   ink   |-> {Box(6, 5, 44, 18), Box(24, 100, 31, 32), Box(36, 155, 20, 20), Box(330, 127, 30, 5)}]
redData ==
  [bytes |-> 38886,
   ink   |-> {Box(76, 17, 500, 58), Box(326, 98, 38, 25), Box(325, 152, 41, 39), Box(23, 168, 20, 20)}]

\* Paint_DrawBitMap takes as many bytes from a picture as an image has: what
\* it takes from the picture, and what from behind it.
BitMap(bytes) ==
  [taken |-> Min({bytes, ImageBytes}), behind |-> Max({0, ImageBytes - bytes})]

-----------------------------------------------------------------------------
(* Strings *)

\* What a C string in an array shows.
Shown(buf, size) ==
  LET end == Min({j \in 0 .. size - 1 : buf[j] = 0} \cup {size})
  IN  [k \in 1 .. end |-> buf[k - 1]]

Cell(text, row, col) == Shown(getTableData(text, row, col), DataLen)

\* lastwinner: the first 8 characters of the date, ": " and the winner.
LastWinner(text) ==
  LET last   == getTableRowCount(text) - 1
      date   == getTableData(text, last, 0)
      winner == getTableData(text, last, 2)
  IN  Shown([j \in 0 .. DataLen + 9 |->
               CASE j < 8 -> date[j] [] j = 8 -> 58 [] j = 9 -> 32 [] j > 9 -> winner[j - 10]],
            DataLen + 10)

Font16 == [w |-> 11, h |-> 16]
Font20 == [w |-> 14, h |-> 20]

\* The pixels of a string of n characters, which is wrapped at the border.
TextBox(x, y, n, font) ==
  LET fit == (PanelWidth - x) \div font.w
  IN  Box(x, y, Min({n, fit}) * font.w, ((n + fit - 1) \div fit) * font.h)

\* Characters of %d.
Digits(n) ==
  LET abs == IF n < 0 THEN -n ELSE n
  IN  (IF n < 0 THEN 2 ELSE 1) + Cardinality({k \in 1 .. 9 : abs >= 10 ^ k})

\* The strings above the table, with the size of the array they are put into:
\* "Spiele %d: %d", "Gesamte Spiele: %d", lastwinner and "%i: Pia".
Strings(text) ==
  LET year  == getYearNow(text)
      games == 9 + Digits(year) + Digits(getGamesInTheYear(text, year))
      total == 16 + Digits(getTableRowCount(text))
      last  == Len(LastWinner(text))
      best  == Digits(year) + 5
  IN  {[len |-> games, size |-> 20, box |-> TextBox(70, 110, games, Font16)],
       [len |-> total, size |-> 20, box |-> TextBox(70, 165, total, Font16)],
       [len |-> last, size |-> 2 * DataLen, box |-> TextBox(370, 110, last, Font20)],
       [len |-> best, size |-> 20, box |-> TextBox(370, 165, best, Font20)]}

\* '0' to '5' as stars; anything else is "Score?".
Stars(text, row) ==
  LET score == getTableData(text, row, 3)[0]
  IN  IF score \in 48 .. 53 THEN score - 48 ELSE -1

-----------------------------------------------------------------------------
(* The table *)

\* Mutant: the first rows, not the last.
FirstOnTop(total) == 0

\* The first row that is shown.
FirstShown(total) == IF total > TableRows THEN total - TableRows ELSE 0

\* Where the second loop over the grid leaves y2.
GridEnd(junk) == 235 - 50 + 30 * (IF junk < 10 THEN 10 - junk ELSE 0)

\* Mutant: y2 is not set back after the grid.
TopBelowGrid(junk) == GridEnd(junk)

\* y2 of the first row: it is set anew.
TableTop(junk) == 235 - 50 + 30 + 30

RowShown(text, i, y2) ==
  [y |-> y2, date |-> Cell(text, i, 0), game |-> Cell(text, i, 1),
   winner |-> Cell(text, i, 2), stars |-> Stars(text, i)]

Drawn(text, percent, junk) ==
  LET total == getTableRowCount(text)
      x     == FirstShown(total)
  IN  [black   |-> BitMap(blackData.bytes),
       red     |-> BitMap(redData.bytes),
       strings |-> Strings(text),
       battery |-> percent,
       year    |-> getYearNow(text),
       games   |-> getGamesInTheYear(text, getYearNow(text)),
       total   |-> total,
       last    |-> LastWinner(text),
       rows    |-> [k \in 1 .. total - x |-> RowShown(text, x + k - 1, TableTop(junk) + 30 * (k - 1))]]
-----------------------------------------------------------------------------
(* What a drawing should show, by the reference. *)

\* The pictures are as large as the panel.
Covers(bitmap) == bitmap.taken = ImageBytes /\ bitmap.behind = 0

BesidePictures(box) == \A drawn \in blackData.ink \cup redData.ink : Apart(box, drawn)

\* On the whole pictures the last rows of the table, in their order, each cell
\* whole and at its place, no row over another, over a picture, over the heading
\* or off the panel, whatever the grid came to.
ShowsRows(image, text) ==
  LET rows == Rows(text)
      from == IF Len(rows) > TableRows THEN Len(rows) - TableRows ELSE 0
  IN  /\ Covers(image.black) /\ Covers(image.red)
      /\ Len(image.rows) = Len(rows) - from
      /\ \A k \in DOMAIN image.rows :
           /\ image.rows[k].date = CellOf(rows[from + k], 0)
           /\ image.rows[k].game = CellOf(rows[from + k], 1)
           /\ image.rows[k].winner = CellOf(rows[from + k], 2)
           /\ k > 1 => image.rows[k].y - image.rows[k - 1].y >= 16
           /\ BesidePictures(Box(0, image.rows[k].y, PanelWidth, 16))
           /\ image.rows[k].y >= 235 /\ image.rows[k].y + 16 <= PanelHeight

Dated(row) == Len(CellOf(row, 0)) = 8

YearIn(row) == 1472 + 10 * CellOf(row, 0)[7] + CellOf(row, 0)[8]

\* The figures above the table, if each row has a date: the rows, the latest
\* year and its rows, and the date and the winner of the last row.  Their
\* strings fit the arrays they are put into, and none is over a picture or
\* over another.
ShowsFigures(image, text) ==
  LET rows == Rows(text)
  IN  rows # <<>> /\ (\A k \in DOMAIN rows : Dated(rows[k])) =>
        /\ image.total = Len(rows)
        /\ \A k \in DOMAIN rows : YearIn(rows[k]) <= image.year
        /\ image.games = Cardinality({k \in DOMAIN rows : YearIn(rows[k]) = image.year})
        /\ image.games > 0
        /\ image.last = CellOf(Last(rows), 0) \o <<58, 32>> \o CellOf(Last(rows), 2)
        /\ \A s \in image.strings :
             /\ s.len < s.size
             /\ BesidePictures(s.box)
             /\ \A t \in image.strings \ {s} : Apart(s.box, t.box)
=============================================================================
