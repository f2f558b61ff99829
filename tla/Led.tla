--------------------------------- MODULE Led ---------------------------------
(***************************************************************************)
(* route_led.c and route_root.c: browsers that show pages with a link to   *)
(* switch the LED, and send requests whose header may hold a '?' in the    *)
(* path and in the address of the page the link was on (Referer).          *)
(***************************************************************************)
EXTENDS Integers

CONSTANT Browsers

VARIABLES
  led,    \* the GPIO of the wireless chip
  page    \* what each browser shows: its path, what it says of the LED, its link

ledVars == <<led, page>>

\* What follows the '?' of a path.
Queries == {"none", "led=0", "led=1"}

StartPage == [path |-> "none", says |-> FALSE, link |-> "none"]

LedInit == led = FALSE /\ page = [b \in Browsers |-> StartPage]

-----------------------------------------------------------------------------
\* Mutant: the last '?' of the header.
LastQuery(path, referer) == IF referer # "none" THEN referer ELSE path

\* strchr(req->header, '?'): the path comes before the Referer.
FirstQuery(path, referer) == IF path # "none" THEN path ELSE referer

\* sscanf(params, "led=%d")
Switched(query) == IF query = "none" THEN led ELSE query = "led=1"

\* http_get_led: switch, then show the state and the way back.
http_get_led(b, path, referer) ==
  LET led_state == Switched(FirstQuery(path, referer))
  IN  /\ led' = led_state
      /\ page' = [page EXCEPT ![b] =
           [path |-> path, says |-> led_state, link |-> IF led_state THEN "led=0" ELSE "led=1"]]

http_get_root(b) == page' = [page EXCEPT ![b] = StartPage] /\ UNCHANGED led

\* The start page links to /led.
FollowStart(b) == page[b].link = "none" /\ http_get_led(b, "none", "none")

Click(b) == page[b].link # "none" /\ http_get_led(b, page[b].link, page[b].path)

\* The same request once more, also with the Referer it had: a path without
\* '?' was asked for from the start page.
Reload(b) ==
  /\ page[b].link # "none"
  /\ \E referer \in IF page[b].path = "none" THEN {"none"} ELSE Queries :
       http_get_led(b, page[b].path, referer)

LedRequests == \E b \in Browsers : http_get_root(b) \/ FollowStart(b) \/ Click(b) \/ Reload(b)
-----------------------------------------------------------------------------
LedTypeOK ==
  /\ led \in BOOLEAN
  /\ page \in [Browsers -> [path : Queries, says : BOOLEAN, link : Queries]]

\* "Turn led ON" turns it on, also from a page that is out of date, and the
\* new page says so; a page asked for by a path without '?' switches nothing.
LinkDoesWhatItSays ==
  [][\A b \in Browsers :
       /\ Click(b) => led' = (page[b].link = "led=1") /\ led' = ~page[b].says
       /\ page'[b] # page[b] /\ page'[b].link # "none" => page'[b].says = led'
       /\ FollowStart(b) => led' = led]_ledVars
=============================================================================
