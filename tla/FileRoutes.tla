----------------------------- MODULE FileRoutes ------------------------------
(***************************************************************************)
(* route_fs.c: GET /fs shows a directory, or a file as a form; POST /fs    *)
(* replaces what the file holds.                                           *)
(*                                                                         *)
(* A handler runs to its end, one at a time, but power may fail between    *)
(* its calls of littlefs, and each call may fail (the flash is full or     *)
(* worn out).  littlefs and the browsers are not in the repository.  As    *)
(* the code uses it, littlefs changes a file on the flash when a handle    *)
(* is closed, and not at all when a call on that handle has failed.  A     *)
(* browser shows the form it was sent, and sends the text back with a line *)
(* end behind it (enctype text/plain).                                     *)
(*                                                                         *)
(* A file holds lines of text; a line end counts one unit, like a letter.  *)
(***************************************************************************)
EXTENDS Integers, Sequences

CONSTANTS
  Browsers,
  Files,       \* the paths of files
  Dirs,        \* the paths of directories
  BadPaths,    \* paths too long, or of nothing
  Letters,     \* what a text is made of, besides line ends
  Typed,       \* what users may type
  BodyMax,     \* res->body_maxlen
  HtmlLen, FormLen, ButtonLen, EndLen, LinkLen,   \* lengths of the markup
  ReqMax,      \* room for the text in con->request
  Null

LineEnd == "line end"
Texts   == Seq(Letters \cup {LineEnd})
Paths   == Files \cup Dirs \cup BadPaths

\* A form as the browser shows it, and what its file held then (history).
Form == [path : Files, text : Texts, was : Texts]

ASSUME PathsAssumption == Files \cap (Dirs \cup BadPaths) = {}

ASSUME NullAssumption == Null \notin Browsers \cup Paths \cup Form

ASSUME TypedAssumption == Typed \subseteq Texts

\* The start of a form always fits: its path has at most 1022 bytes.
ASSUME SizesAssumption ==
  /\ {BodyMax, HtmlLen, FormLen, ButtonLen, EndLen, LinkLen} \subseteq Nat \ {0}
  /\ HtmlLen + FormLen < BodyMax
  /\ ReqMax \in Nat

VARIABLES
  flash,       \* what the files hold on the flash
  pc,          \* where the handler is; "idle" when none runs
  who, path,   \* whose request it handles, and the path extracted from it
  handles,     \* how many files and directories the handler has open
  value,       \* POST: the text behind "text="
  data,        \* POST: what the open file holds, before it is closed
  body_len,    \* GET: res->body_len
  shown,       \* GET: the text in the page's form
  button,      \* GET: the page's form is complete
  unread,      \* GET: entries of the directory that were not read
  answer,      \* the status of the last answer
  form         \* what each browser shows

getVars  == <<body_len, shown, button, unread>>
postVars == <<value, data>>
vars == <<flash, pc, who, path, handles, postVars, getVars, answer, form>>

Phases == {"idle", "get", "file", "read", "dir", "entries", "end", "header",
           "post", "truncate", "write", "close"}

Init ==
  /\ flash \in [Files -> {<<>>}]
  /\ pc = "idle" /\ who = Null /\ path = Null /\ handles = 0
  /\ value = <<>> /\ data = <<>>
  /\ body_len = 0 /\ shown = <<>> /\ button = FALSE /\ unread = {}
  /\ answer = "none"
  /\ form = [b \in Browsers |-> Null]

\* A step inside a handler.
Goto(from, to) == pc = from /\ pc' = to /\ UNCHANGED <<who, path, answer, form>>

\* The handler is over, and with it its locals.
Leaves ==
  /\ pc' = "idle" /\ who' = Null /\ path' = Null
  /\ value' = <<>> /\ data' = <<>>
  /\ body_len' = 0 /\ shown' = <<>> /\ button' = FALSE /\ unread' = {}

\* It returns without a header, and the server closes the connection.
Gives == Leaves /\ UNCHANGED <<flash, answer, form>>

Keeps  == UNCHANGED handles
Opens  == handles' = handles + 1
Closes == handles' = handles - 1

PowerLoss == pc # "idle" /\ Gives /\ handles' = 0

-----------------------------------------------------------------------------
(* GET *)

GetOnly == UNCHANGED <<flash, postVars>>

\* Mutant: what snprintf returns is counted in any case.
CountsAll(n) == body_len' = body_len + n

\* snprintf to the end of the body; text that does not fit is not counted.
snprintf(n) == body_len' = IF n < BodyMax - body_len THEN body_len + n ELSE body_len

Get(b, p) ==
  /\ pc = "idle"
  /\ pc' = "get" /\ who' = b /\ path' = p
  /\ answer' = "none"
  /\ form' = [form EXCEPT ![b] = Null]
  /\ UNCHANGED <<flash, handles, postVars, getVars>>

\* The path is too long, or lfs_stat fails.
get_refused == pc = "get" /\ Gives /\ Keeps

get_begin ==
  /\ path \in Files \cup Dirs
  /\ Goto("get", IF path \in Files THEN "file" ELSE "dir")
  /\ snprintf(HtmlLen)
  /\ UNCHANGED <<shown, button, unread>> /\ GetOnly /\ Keeps

get_open_fails ==
  /\ pc \in {"file", "dir"}
  /\ Goto(pc, "end")
  /\ UNCHANGED getVars /\ GetOnly /\ Keeps

get_file_open ==
  /\ Goto("file", "read")
  /\ snprintf(FormLen)
  /\ UNCHANGED <<shown, button, unread>> /\ GetOnly /\ Opens

Room == BodyMax - body_len

\* lfs_file_read of at most n units into the page, and the form's end behind.
ReadInto(n) ==
  LET read == IF Len(flash[path]) < n THEN Len(flash[path]) ELSE n
      fits == ButtonLen < Room - read
  IN  /\ shown' = SubSeq(flash[path], 1, read)
      /\ button' = fits
      /\ body_len' = body_len + read + (IF fits THEN ButtonLen ELSE 0)

\* Mutant: room for the button is kept free.
ReadsBesideButton ==
  /\ Goto("read", "end")
  /\ ReadInto(IF ButtonLen < Room THEN Room - ButtonLen - 1 ELSE 0)
  /\ UNCHANGED unread /\ GetOnly /\ Closes

get_file_read ==
  /\ Goto("read", "end")
  /\ ReadInto(Room)
  /\ UNCHANGED unread /\ GetOnly /\ Closes

get_file_read_fails == Goto("read", "end") /\ UNCHANGED getVars /\ GetOnly /\ Closes

get_dir_open ==
  /\ Goto("dir", "entries")
  /\ unread' = Files
  /\ UNCHANGED <<body_len, shown, button>> /\ GetOnly /\ Opens

get_dir_read ==
  /\ Goto("entries", "entries")
  /\ \E f \in unread : unread' = unread \ {f}
  /\ snprintf(LinkLen)
  /\ UNCHANGED <<shown, button>> /\ GetOnly /\ Keeps

\* There are no more entries, or lfs_dir_read fails.
get_dir_close == Goto("entries", "end") /\ UNCHANGED getVars /\ GetOnly /\ Closes

\* A textarea has no line end at its start.
InTextarea(text) == IF text # <<>> /\ text[1] = LineEnd THEN Tail(text) ELSE text

get_end ==
  /\ Goto("end", "header")
  /\ snprintf(EndLen)
  /\ UNCHANGED <<shown, button, unread>> /\ GetOnly /\ Keeps

\* The page is sent; the browser has a form if there is a button.
get_header ==
  /\ pc = "header"
  /\ Leaves
  /\ answer' = "200"
  /\ form' = [form EXCEPT ![who] =
       IF button THEN [path |-> path, text |-> InTextarea(shown), was |-> flash[path]] ELSE Null]
  /\ UNCHANGED flash /\ Keeps

-----------------------------------------------------------------------------
(* POST *)

\* What fits in con->request of a text.
Cut(text) == SubSeq(text, 1, IF Len(text) < ReqMax THEN Len(text) ELSE ReqMax)

\* The text as the form showed it, or something typed, for any path.
Post(b, p, text) ==
  /\ pc = "idle"
  /\ \/ text \in Typed
     \/ form[b] # Null /\ p = form[b].path /\ text = form[b].text
  /\ pc' = "post" /\ who' = b /\ path' = p
  /\ value' = Cut(Append(text, LineEnd))
  /\ answer' = "none"
  /\ UNCHANGED <<flash, handles, data, getVars, form>>

PostOnly == UNCHANGED <<flash, value, getVars>>

\* The path is too long, there is no body or no "text=" in it, or
\* lfs_file_open fails.
post_refused == pc = "post" /\ Gives /\ Keeps

post_open ==
  /\ path \in Files
  /\ Goto("post", "truncate")
  /\ data' = flash[path]
  /\ PostOnly /\ Opens

\* Mutant: lfs_file_truncate is missing.
SkipsTruncate == Goto("truncate", "write") /\ UNCHANGED data /\ PostOnly /\ Keeps

\* Shortened, or made longer with zeros, which the write goes over.
post_truncate ==
  /\ Goto("truncate", "write")
  /\ data' = SubSeq(data, 1, IF Len(data) < Len(value) THEN Len(data) ELSE Len(value))
  /\ PostOnly /\ Keeps

\* Mutant: the file is written at its end.
WritesAtEnd == Goto("write", "close") /\ data' = data \o value /\ PostOnly /\ Keeps

\* At the start of the file.
post_write ==
  /\ Goto("write", "close")
  /\ data' = value \o SubSeq(data, Len(value) + 1, Len(data))
  /\ PostOnly /\ Keeps

\* Mutant: returns with the file open.
LeavesOpen == pc \in {"truncate", "write"} /\ Gives /\ Keeps

\* lfs_file_truncate or lfs_file_write fails.
post_fails == pc \in {"truncate", "write"} /\ Gives /\ Closes

Redirects == Leaves /\ answer' = "302" /\ UNCHANGED form /\ Closes

post_close ==
  /\ pc = "close"
  /\ Redirects
  /\ flash' = [flash EXCEPT ![path] = data]

\* lfs_file_close fails; the handler does not look.
post_close_fails == pc = "close" /\ Redirects /\ UNCHANGED flash

-----------------------------------------------------------------------------
GetSteps == get_refused \/ get_begin \/ get_open_fails \/ get_file_open \/ get_file_read
              \/ get_file_read_fails \/ get_dir_open \/ get_dir_read \/ get_dir_close \/ get_end \/ get_header

PostSteps == post_refused \/ post_open \/ post_truncate \/ post_write \/ post_fails
               \/ post_close \/ post_close_fails

FormTexts == {form[b].text : b \in {c \in Browsers : form[c] # Null}}

Requests ==
  \E b \in Browsers, p \in Paths : Get(b, p) \/ \E text \in Typed \cup FormTexts : Post(b, p, text)

Next == Requests \/ GetSteps \/ PostSteps \/ PowerLoss

Spec == Init /\ [][Next]_vars
-----------------------------------------------------------------------------
\* The page never outgrows res->body, and at most one handle is open.
TypeOK ==
  /\ flash \in [Files -> Texts]
  /\ pc \in Phases
  /\ who \in Browsers \cup {Null}
  /\ path \in Paths \cup {Null}
  /\ handles \in 0 .. 1
  /\ value \in Texts /\ data \in Texts
  /\ body_len \in 0 .. BodyMax
  /\ shown \in Texts
  /\ button \in BOOLEAN
  /\ unread \subseteq Files
  /\ answer \in {"none", "200", "302"}
  /\ form \in [Browsers -> Form \cup {Null}]

\* Every way out of a handler closes what it opened, once: lfs keeps the
\* address of an open handle, which is on the handler's stack.
HandlesClosed == (pc \in {"read", "entries", "truncate", "write", "close"}) <=> handles = 1

\* A form that can be sent back shows all of its file: one that was cut for
\* want of room has no button.
FormShowsWholeFile ==
  \A b \in Browsers : form[b] # Null => form[b].text = InTextarea(form[b].was)

\* A file changes at once from what it held to what was posted, whichever
\* call fails and wherever the power fails.
WholeOrNothing ==
  [][\A f \in Files : flash'[f] # flash[f] => pc = "close" /\ f = path /\ flash'[f] = value]_vars

\* The text of a form, sent back as it was shown, loses nothing of a file
\* that has not changed since: it grows by a line end.
SentBackLosesNothing ==
  [][\A b \in Browsers :
       /\ flash' # flash
       /\ who = b /\ form[b] # Null /\ form[b].path = path
       /\ value = Append(form[b].text, LineEnd)
       /\ flash[path] = form[b].was
       /\ flash[path] = InTextarea(flash[path])
       => flash'[path] = Append(flash[path], LineEnd)]_vars
=============================================================================
