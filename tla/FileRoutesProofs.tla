-------------------------- MODULE FileRoutesProofs ---------------------------
(***************************************************************************)
(* Theorems about FileRoutes, for any browsers, files, texts and sizes.    *)
(* The inductive invariant says what the handler has in hand in each of    *)
(* its phases.                                                             *)
(***************************************************************************)
EXTENDS FileRoutes, TLAPS, SequenceTheorems

\* The path is one of the handler's file in the phases that use it.
OnFile == {"file", "read", "truncate", "write", "close"}

InHand ==
  /\ pc # "idle" => who \in Browsers /\ path \in Paths
  /\ pc \in OnFile => path \in Files
  /\ button => pc \in {"end", "header"} /\ path \in Files /\ shown = flash[path]
  /\ pc = "write" => Len(data) <= Len(value)
  /\ pc = "close" => data = value

IInv == TypeOK /\ HandlesClosed /\ FormShowsWholeFile /\ InHand

-----------------------------------------------------------------------------
(* Texts *)

LEMMA EmptyText == <<>> \in Texts
  BY EmptySeq DEF Texts

LEMMA TextLength ==
  ASSUME NEW text \in Texts
  PROVE  Len(text) \in Nat
  BY LenProperties DEF Texts

LEMMA WholeText ==
  ASSUME NEW text \in Texts
  PROVE  SubSeq(text, 1, Len(text)) = text
  BY SubSeqFull DEF Texts

\* The start of a text is a text of the length asked for.
LEMMA TextStart ==
  ASSUME NEW text \in Texts, NEW n \in 0 .. Len(text)
  PROVE  SubSeq(text, 1, n) \in Texts /\ Len(SubSeq(text, 1, n)) = n
<1> DEFINE S == Letters \cup {LineEnd}
<1>1. text \in Seq(S) /\ Len(text) \in Nat
  BY TextLength DEF Texts
<1>2. \A i \in 1 .. n : text[i] \in S
  <2> HIDE DEF S
  <2> QED BY <1>1, ElementOfSeq
<1>3. SubSeq(text, 1, n) \in Seq(S) /\ Len(SubSeq(text, 1, n)) = n
  <2> HIDE DEF S
  <2> QED BY <1>1, <1>2, SubSeqProperties
<1> QED BY <1>3 DEF Texts

\* A text written over a shorter one is all that is left.
LEMMA WrittenOver ==
  ASSUME NEW old \in Texts, NEW new \in Texts, Len(old) <= Len(new)
  PROVE  new \o SubSeq(old, Len(new) + 1, Len(old)) = new
<1>1. Len(old) \in Nat /\ Len(new) \in Nat
  BY TextLength
<1>2. SubSeq(old, Len(new) + 1, Len(old)) = <<>>
  BY <1>1, SubSeqEmpty
<1> QED BY <1>2, ConcatEmptySeq DEF Texts

LEMMA TextareaText ==
  ASSUME NEW text \in Texts
  PROVE  InTextarea(text) \in Texts
  BY HeadTailProperties DEF InTextarea, Texts

LEMMA CutText ==
  ASSUME NEW text \in Texts
  PROVE  Cut(Append(text, LineEnd)) \in Texts
<1>1. Append(text, LineEnd) \in Texts
  BY AppendProperties DEF Texts
<1> DEFINE posted == Append(text, LineEnd)
<1>2. Len(posted) \in Nat
  BY <1>1, TextLength
<1>3. (IF Len(posted) < ReqMax THEN Len(posted) ELSE ReqMax) \in 0 .. Len(posted)
  BY <1>2, SizesAssumption
<1> HIDE DEF posted
<1>4. SubSeq(posted, 1, IF Len(posted) < ReqMax THEN Len(posted) ELSE ReqMax) \in Texts
  BY <1>1, <1>3, TextStart DEF posted
<1> QED BY <1>4 DEF Cut, posted

-----------------------------------------------------------------------------
LEMMA Sizes ==
  /\ BodyMax \in Nat /\ HtmlLen \in Nat /\ FormLen \in Nat
  /\ ButtonLen \in Nat /\ EndLen \in Nat /\ LinkLen \in Nat
  BY SizesAssumption

\* snprintf stays inside the body.
LEMMA PrintedInside ==
  ASSUME body_len \in 0 .. BodyMax, NEW n \in Nat, snprintf(n)
  PROVE  body_len' \in 0 .. BodyMax
  BY Sizes DEF snprintf

LEMMA InitInv ==
  ASSUME Init
  PROVE  IInv
<1> DEFINE none == <<>>
<1>1. TypeOK
  <2>1. none \in Texts
    BY EmptyText
  <2>2. /\ flash \in [Files -> {none}] /\ form = [b \in Browsers |-> Null]
        /\ value = none /\ data = none /\ shown = none
        /\ pc = "idle" /\ who = Null /\ path = Null /\ handles = 0 /\ body_len = 0
        /\ button = FALSE /\ unread = {} /\ answer = "none"
    BY DEF Init
  <2> HIDE DEF none
  <2>3. flash \in [Files -> Texts] /\ form \in [Browsers -> Form \cup {Null}]
    BY <2>1, <2>2
  <2>4. body_len \in 0 .. BodyMax /\ handles \in 0 .. 1
    BY <2>2, Sizes
  <2> QED BY <2>1, <2>2, <2>3, <2>4 DEF TypeOK, Phases
<1>2. HandlesClosed /\ FormShowsWholeFile /\ InHand
  BY DEF Init, HandlesClosed, FormShowsWholeFile, InHand, OnFile
<1> QED BY <1>1, <1>2 DEF IInv

-----------------------------------------------------------------------------
(* The steps *)

\* A handler that is over has nothing in hand and nothing open.
LEMMA LeavingKeeps ==
  ASSUME Leaves, handles' = 0,
         flash' \in [Files -> Texts], answer' \in {"none", "200", "302"},
         form' \in [Browsers -> Form \cup {Null}], FormShowsWholeFile'
  PROVE  IInv'
<1> DEFINE none == <<>>
<1>1. TypeOK'
  <2>1. none \in Texts
    BY EmptyText
  <2>2. /\ value' = none /\ data' = none /\ shown' = none
        /\ pc' = "idle" /\ who' = Null /\ path' = Null /\ body_len' = 0
        /\ button' = FALSE /\ unread' = {}
    BY DEF Leaves
  <2> HIDE DEF none
  <2>3. body_len' \in 0 .. BodyMax /\ handles' \in 0 .. 1
    BY <2>2, Sizes
  <2> QED BY <2>1, <2>2, <2>3 DEF TypeOK, Phases
<1>2. HandlesClosed' /\ InHand'
  BY DEF Leaves, HandlesClosed, InHand, OnFile
<1> QED BY <1>1, <1>2 DEF IInv

\* Without an answer nothing else changes.
LEMMA GivingKeeps ==
  ASSUME IInv, Gives, handles' = 0
  PROVE  IInv'
<1>1. FormShowsWholeFile'
  BY DEF IInv, FormShowsWholeFile, Gives
<1>2. /\ flash' \in [Files -> Texts] /\ answer' \in {"none", "200", "302"}
      /\ form' \in [Browsers -> Form \cup {Null}]
  BY DEF IInv, TypeOK, Gives
<1> QED BY <1>1, <1>2, LeavingKeeps DEF Gives

\* Every way out without an answer closes what is open.
LEMMA GivenUpKeeps ==
  ASSUME IInv, PowerLoss \/ get_refused \/ post_refused \/ post_fails
  PROVE  IInv'
<1>1. Gives
  BY DEF PowerLoss, get_refused, post_refused, post_fails
<1>2. handles' = 0
  BY DEF PowerLoss, get_refused, post_refused, post_fails, Keeps, Closes, IInv, TypeOK, HandlesClosed
<1> QED BY <1>1, <1>2, GivingKeeps

LEMMA RequestKeeps ==
  ASSUME IInv, NEW b \in Browsers, NEW p \in Paths
  PROVE  /\ Get(b, p) => IInv'
         /\ \A text \in Texts : Post(b, p, text) => IInv'
<1> USE DEF IInv, TypeOK, Phases, HandlesClosed, FormShowsWholeFile, InHand, OnFile, getVars, postVars
<1>1. ASSUME Get(b, p)
      PROVE  IInv'
  BY <1>1 DEF Get
<1>2. ASSUME NEW text \in Texts, Post(b, p, text)
      PROVE  IInv'
  BY <1>2, CutText DEF Post
<1> QED BY <1>1, <1>2

\* The steps of a GET but the reading of the file and the answer: the page
\* grows, and a file or directory is opened or closed.
LEMMA GetKeeps ==
  ASSUME IInv,
         get_begin \/ get_open_fails \/ get_file_open \/ get_file_read_fails \/ get_dir_open
           \/ get_dir_read \/ get_dir_close \/ get_end
  PROVE  IInv'
<1> USE Sizes DEF IInv, TypeOK, Phases, HandlesClosed, FormShowsWholeFile, InHand, OnFile,
                  Goto, Keeps, Opens, Closes, GetOnly, getVars, postVars, snprintf
<1>1. CASE get_begin
  BY <1>1 DEF get_begin
<1>2. CASE get_open_fails
  BY <1>2 DEF get_open_fails
<1>3. CASE get_file_open
  BY <1>3 DEF get_file_open
<1>4. CASE get_file_read_fails
  BY <1>4 DEF get_file_read_fails
<1>5. CASE get_dir_open
  BY <1>5 DEF get_dir_open
<1>6. CASE get_dir_read
  BY <1>6 DEF get_dir_read
<1>7. CASE get_dir_close
  BY <1>7 DEF get_dir_close
<1>8. CASE get_end
  BY <1>8 DEF get_end
<1> QED BY <1>1, <1>2, <1>3, <1>4, <1>5, <1>6, <1>7, <1>8

\* A form gets its button only behind the whole of its file.
LEMMA FileReadKeeps ==
  ASSUME IInv, get_file_read
  PROVE  IInv'
<1> DEFINE file == flash[path]
           read == IF Len(file) < Room THEN Len(file) ELSE Room
           fits == ButtonLen < Room - read
<1>1. /\ pc = "read" /\ pc' = "end" /\ path \in Files /\ file \in Texts
      /\ body_len \in 0 .. BodyMax /\ handles = 1
  BY DEF IInv, TypeOK, InHand, OnFile, HandlesClosed, get_file_read, Goto
<1>2. UNCHANGED <<flash, who, path, answer, form, value, data, unread>> /\ handles' = handles - 1
  BY DEF get_file_read, Goto, GetOnly, postVars, Closes
<1>3. /\ shown' = SubSeq(file, 1, read)
      /\ button' = fits
      /\ body_len' = body_len + read + (IF fits THEN ButtonLen ELSE 0)
  BY DEF get_file_read, ReadInto
<1>4. Room \in 0 .. BodyMax /\ Room = BodyMax - body_len /\ Len(file) \in Nat
  BY <1>1, Sizes, TextLength DEF Room
<1>5. read \in 0 .. Len(file) /\ read <= Room
  BY <1>4
<1>6. fits => read = Len(file)
  BY <1>4, Sizes
<1>7. shown' \in Texts
  <2> HIDE DEF file, read
  <2> QED BY <1>1, <1>3, <1>5, TextStart
<1>8. fits => shown' = file
  <2> HIDE DEF file, read, fits
  <2> QED BY <1>1, <1>3, <1>6, WholeText
<1>9. body_len' \in 0 .. BodyMax
  <2> HIDE DEF file, read
  <2> QED BY <1>1, <1>3, <1>4, <1>5, Sizes
<1> HIDE DEF read, fits
<1>10. TypeOK'
  <2>1. fits \in BOOLEAN
    BY DEF fits
  <2> QED BY <1>1, <1>2, <1>3, <1>7, <1>9, <2>1 DEF IInv, TypeOK, Phases
<1>11. HandlesClosed' /\ FormShowsWholeFile'
  BY <1>1, <1>2 DEF IInv, HandlesClosed, FormShowsWholeFile
<1>12. InHand'
  BY <1>1, <1>2, <1>3, <1>8 DEF IInv, InHand, OnFile
<1> QED BY <1>10, <1>11, <1>12 DEF IInv

\* The browser gets the form with the text that the file holds at that time.
LEMMA HeaderKeeps ==
  ASSUME IInv, get_header
  PROVE  IInv'
<1>1. who \in Browsers /\ handles' = 0 /\ Leaves /\ flash' = flash /\ answer' = "200"
  BY DEF IInv, TypeOK, InHand, HandlesClosed, get_header, Keeps
<1>2. CASE button
  <2> DEFINE page == [path |-> path, text |-> InTextarea(shown), was |-> flash[path]]
  <2>1. path \in Files /\ shown = flash[path] /\ shown \in Texts
    BY <1>2 DEF IInv, InHand, TypeOK
  <2>2. page \in Form /\ page.text = InTextarea(page.was)
    BY <2>1, TextareaText DEF Form
  <2>3. form' = [form EXCEPT ![who] = page]
    BY <1>2 DEF get_header
  <2> HIDE DEF page
  <2>4. form' \in [Browsers -> Form \cup {Null}]
    BY <1>1, <2>2, <2>3 DEF IInv, TypeOK
  <2>5. FormShowsWholeFile'
    BY <1>1, <2>2, <2>3 DEF IInv, TypeOK, FormShowsWholeFile
  <2> QED BY <1>1, <2>4, <2>5, LeavingKeeps DEF IInv, TypeOK
<1>3. CASE ~button
  <2>1. form' = [form EXCEPT ![who] = Null]
    BY <1>3 DEF get_header
  <2>2. form' \in [Browsers -> Form \cup {Null}] /\ FormShowsWholeFile'
    BY <1>1, <2>1 DEF IInv, TypeOK, FormShowsWholeFile
  <2> QED BY <1>1, <2>2, LeavingKeeps DEF IInv, TypeOK
<1> QED BY <1>2, <1>3

LEMMA PostOpenKeeps ==
  ASSUME IInv, post_open
  PROVE  IInv'
  BY DEF IInv, TypeOK, Phases, HandlesClosed, FormShowsWholeFile, InHand, OnFile,
         post_open, Goto, Opens, PostOnly, getVars

\* Truncated, the file is no longer than what will be written over it.
LEMMA TruncateKeeps ==
  ASSUME IInv, post_truncate
  PROVE  IInv'
<1> DEFINE n == IF Len(data) < Len(value) THEN Len(data) ELSE Len(value)
<1>1. pc = "truncate" /\ pc' = "write" /\ data \in Texts /\ value \in Texts
  BY DEF IInv, TypeOK, post_truncate, Goto
<1>2. Len(data) \in Nat /\ Len(value) \in Nat
  BY <1>1, TextLength
<1>3. n \in 0 .. Len(data) /\ n <= Len(value)
  BY <1>2
<1>4. data' = SubSeq(data, 1, n)
  BY DEF post_truncate
<1> HIDE DEF n
<1>5. data' \in Texts /\ Len(data') <= Len(value)
  BY <1>1, <1>3, <1>4, TextStart
<1>6. UNCHANGED <<flash, who, path, answer, form, value, body_len, shown, button, unread, handles>>
  BY DEF post_truncate, Goto, PostOnly, Keeps, getVars
<1>7. TypeOK'
  BY <1>1, <1>5, <1>6 DEF IInv, TypeOK, Phases
<1>8. HandlesClosed' /\ FormShowsWholeFile'
  BY <1>1, <1>6 DEF IInv, HandlesClosed, FormShowsWholeFile
<1>9. InHand'
  BY <1>1, <1>5, <1>6 DEF IInv, InHand, OnFile
<1> QED BY <1>7, <1>8, <1>9 DEF IInv

\* Written, the file holds what was posted.
LEMMA WriteKeeps ==
  ASSUME IInv, post_write
  PROVE  IInv'
<1>1. pc = "write" /\ pc' = "close" /\ data \in Texts /\ value \in Texts /\ Len(data) <= Len(value)
  BY DEF IInv, TypeOK, InHand, post_write, Goto
<1>2. data' = value
  BY <1>1, WrittenOver DEF post_write
<1>3. UNCHANGED <<flash, who, path, answer, form, value, body_len, shown, button, unread, handles>>
  BY DEF post_write, Goto, PostOnly, Keeps, getVars
<1>4. TypeOK'
  BY <1>1, <1>2, <1>3 DEF IInv, TypeOK, Phases
<1>5. HandlesClosed' /\ FormShowsWholeFile'
  BY <1>1, <1>3 DEF IInv, HandlesClosed, FormShowsWholeFile
<1>6. InHand'
  BY <1>1, <1>2, <1>3 DEF IInv, InHand, OnFile
<1> QED BY <1>4, <1>5, <1>6 DEF IInv

LEMMA CloseKeeps ==
  ASSUME IInv, post_close \/ post_close_fails
  PROVE  IInv'
<1>1. pc = "close" /\ Leaves /\ answer' = "302" /\ form' = form /\ handles' = handles - 1
  BY DEF post_close, post_close_fails, Redirects, Closes
<1>2. handles' = 0 /\ path \in Files /\ data \in Texts
  BY <1>1 DEF IInv, TypeOK, HandlesClosed, InHand, OnFile
<1>3. flash' \in [Files -> Texts]
  BY <1>2 DEF IInv, TypeOK, post_close, post_close_fails
<1>4. form' \in [Browsers -> Form \cup {Null}] /\ FormShowsWholeFile'
  BY <1>1 DEF IInv, TypeOK, FormShowsWholeFile
<1> QED BY <1>1, <1>2, <1>3, <1>4, LeavingKeeps

LEMMA NextKeeps ==
  ASSUME IInv, [Next]_vars
  PROVE  IInv'
<1>1. CASE UNCHANGED vars
  BY <1>1 DEF vars, getVars, postVars, IInv, TypeOK, HandlesClosed, FormShowsWholeFile, InHand
<1>2. CASE Requests
  <2>1. FormTexts \subseteq Texts
    BY NullAssumption DEF FormTexts, IInv, TypeOK, Form
  <2> QED BY <1>2, <2>1, RequestKeeps, TypedAssumption DEF Requests
<1>3. CASE GetSteps
  BY <1>3, GivenUpKeeps, GetKeeps, FileReadKeeps, HeaderKeeps DEF GetSteps
<1>4. CASE PostSteps
  BY <1>4, GivenUpKeeps, PostOpenKeeps, TruncateKeeps, WriteKeeps, CloseKeeps DEF PostSteps
<1>5. CASE PowerLoss
  BY <1>5, GivenUpKeeps
<1> QED BY <1>1, <1>2, <1>3, <1>4, <1>5 DEF Next

-----------------------------------------------------------------------------
\* The inductive invariant holds in every state of the file routes.
THEOREM Invariance == Spec => []IInv
<1>1. Init => IInv
  BY InitInv
<1>2. IInv /\ [Next]_vars => IInv'
  BY NextKeeps
<1> QED BY <1>1, <1>2, PTL DEF Spec

\* No page outgrows its buffer, whatever the directory and the files hold.
THEOREM PagesFit == Spec => []TypeOK
<1>1. IInv => TypeOK
  BY DEF IInv
<1> QED BY <1>1, Invariance, PTL

\* No handler leaves a file or a directory open, or closes it twice.
THEOREM NothingLeftOpen == Spec => []HandlesClosed
<1>1. IInv => HandlesClosed
  BY DEF IInv
<1> QED BY <1>1, Invariance, PTL

\* A form with a button shows the whole of its file.
THEOREM FormsAreWhole == Spec => []FormShowsWholeFile
<1>1. IInv => FormShowsWholeFile
  BY DEF IInv
<1> QED BY <1>1, Invariance, PTL

\* Only the closing of the file changes what it holds.
LEMMA OnlyCloseSaves ==
  ASSUME Next, flash' # flash
  PROVE  post_close
  BY DEF Next, Requests, Get, Post, GetSteps, PostSteps, PowerLoss, Gives, get_refused, get_begin,
         get_open_fails, get_file_open, get_file_read, get_file_read_fails, get_dir_open,
         get_dir_read, get_dir_close, get_end, get_header, post_refused, post_open, post_truncate,
         post_write, post_fails, post_close_fails, GetOnly, PostOnly

\* It then holds what was posted.
LEMMA SavedAsPosted ==
  ASSUME IInv, post_close
  PROVE  pc = "close" /\ path \in Files /\ flash' = [flash EXCEPT ![path] = value]
  BY DEF IInv, InHand, OnFile, post_close

\* A file holds the old text or the new one, never a part or a mixture.
THEOREM SavesAreAtomic == Spec => WholeOrNothing
<1>1. ASSUME IInv, [Next]_vars
      PROVE  [\A f \in Files : flash'[f] # flash[f] =>
                pc = "close" /\ f = path /\ flash'[f] = value]_vars
  <2> SUFFICES ASSUME Next, NEW f \in Files, flash'[f] # flash[f]
               PROVE  pc = "close" /\ f = path /\ flash'[f] = value
    BY <1>1
  <2>1. post_close
    BY OnlyCloseSaves
  <2> QED BY <1>1, <2>1, SavedAsPosted DEF IInv, TypeOK
<1> QED BY <1>1, Invariance, PTL DEF Spec, WholeOrNothing

\* A form sent back as it was shown loses nothing of its file.
THEOREM NothingLost == Spec => SentBackLosesNothing
<1> DEFINE SentBack(b) ==
      /\ flash' # flash
      /\ who = b /\ form[b] # Null /\ form[b].path = path
      /\ value = Append(form[b].text, LineEnd)
      /\ flash[path] = form[b].was
      /\ flash[path] = InTextarea(flash[path])
<1>1. ASSUME IInv, Next, NEW b \in Browsers, SentBack(b)
      PROVE  flash'[path] = Append(flash[path], LineEnd)
  <2>1. path \in Files /\ flash' = [flash EXCEPT ![path] = value]
    BY <1>1, OnlyCloseSaves, SavedAsPosted
  <2>2. form[b].text = InTextarea(form[b].was)
    BY <1>1 DEF IInv, FormShowsWholeFile
  <2> QED BY <1>1, <2>1, <2>2 DEF IInv, TypeOK
<1>2. ASSUME IInv, [Next]_vars
      PROVE  [\A b \in Browsers : SentBack(b) => flash'[path] = Append(flash[path], LineEnd)]_vars
  BY <1>1, <1>2
<1> QED BY <1>2, Invariance, PTL DEF Spec, SentBackLosesNothing
=============================================================================
