--------------------------- MODULE ServicesProofs ----------------------------
(***************************************************************************)
(* The servers' safety, for every size of message, set of clients'         *)
(* messages, contents of the stack and number of browsers.                 *)
(***************************************************************************)
EXTENDS Services, TLAPS

\* Where a query's answer may lie, from the first label to the sending.
Scanned ==
  /\ DnsTypeOK
  /\ dns_pc \in {"idle", "scan"} => ~named
  /\ dns_pc = "check" /\ named => question_ptr <= msg_len
  /\ dns_pc = "send" =>
       /\ question_ptr <= Header + MaxName + TypeAndClass
       /\ answer_ptr = question_ptr + Answer
       /\ named => question_ptr <= msg_len + TypeAndClass

LEMMA SizesAreNat ==
  /\ Header \in Nat /\ MaxLabel \in Nat /\ MaxName \in Nat /\ Answer \in Nat /\ MsgMax \in Nat
  /\ Header + MaxName + 4 + Answer <= MsgMax
  BY SizesAssumption DEF TypeAndClass

LEMMA ForgetScanned ==
  ASSUME dns_forget, dns_udp' \in {"none", "new", "bound"}, dns_ip' \in BOOLEAN
  PROVE  Scanned'
<1>1. dns_pc' = "idle" /\ msg_len' = 0 /\ question_ptr' = 0 /\ answer_ptr' = 0
  BY DEF dns_forget
<1>2. ~named' /\ named' \in BOOLEAN
  BY Zenon DEF dns_forget
<1>3. msg_len' \in 0 .. MsgMax /\ question_ptr' \in Nat /\ answer_ptr' \in Nat
  BY <1>1, SizesAreNat
<1> QED
  BY <1>1, <1>2, <1>3, Zenon DEF Scanned, DnsTypeOK

LEMMA ScannedStep == Scanned /\ [Next]_vars => Scanned'
<1> SUFFICES ASSUME Scanned, [Next]_vars PROVE Scanned'
  OBVIOUS
<1> USE SizesAreNat DEF Scanned, DnsTypeOK, TypeAndClass
<1>1. ASSUME UNCHANGED dnsVars PROVE Scanned'
  BY <1>1 DEF dnsVars, dnsLocals
<1>2. CASE dns_server_init
  <2>1. CASE dns_socket_new
    BY <2>1 DEF dns_socket_new, dnsLocals
  <2>2. CASE dns_socket_bind
    BY <2>2 DEF dns_socket_bind, dnsLocals
  <2>3. CASE dns_set_ip
    BY <2>3 DEF dns_set_ip, dnsLocals
  <2> QED
    BY <1>2, <2>1, <2>2, <2>3 DEF dns_server_init
<1>3. CASE http_server_fails
  BY <1>3 DEF http_server_fails, dnsLocals
<1>4. CASE dns_server_deinit
  BY <1>4 DEF dns_server_deinit, dns_socket_free, dnsLocals
<1>5. CASE Reboot
  <2> dns_forget /\ dns_udp' = "none" /\ dns_ip' = FALSE
    BY <1>5 DEF Reboot
  <2> QED
    BY ForgetScanned, Zenon
<1>6. CASE DnsCall
  <2> USE DEF KeepServer, InQuery
  <2>1. ASSUME NEW len \in 0 .. MsgMax + MaxLabel, dns_query(len) PROVE Scanned'
    BY <2>1 DEF dns_query
  <2>2. ASSUME NEW label_len \in 1 .. MaxLabel, scan_label(label_len) PROVE Scanned'
    BY <2>2 DEF scan_label
  <2>3. CASE scan_invalid
    BY <2>3, ForgetScanned DEF scan_invalid
  <2>4. CASE scan_end
    BY <2>4 DEF scan_end
  <2>5. CASE scan_over
    BY <2>5 DEF scan_over
  <2>6. CASE name_too_long
    BY <2>6, ForgetScanned DEF name_too_long
  <2>7. CASE dns_answer
    BY <2>7 DEF dns_answer, NameFits
  <2>8. CASE dns_socket_sendto
    BY <2>8, ForgetScanned DEF dns_socket_sendto
  <2> QED
    BY <1>6, <2>1, <2>2, <2>3, <2>4, <2>5, <2>6, <2>7, <2>8 DEF DnsCall, dns_server_process
<1>7. ASSUME \/ dhcp_server_init \/ http_server_open \/ repl_returns \/ dhcp_server_deinit
             \/ arch_deinit \/ DhcpCall \/ HttpCall \/ UNCHANGED vars
      PROVE Scanned'
  BY <1>1, <1>7 DEF dhcp_server_init, http_server_open, repl_returns, dhcp_server_deinit,
       arch_deinit, DhcpCall, HttpCall, vars
<1> QED
  BY <1>2, <1>3, <1>4, <1>5, <1>6, <1>7 DEF Next, Starts, Stops

\* The answer to a query lies inside the message that holds it, for every
\* size of message, label and name that fit together (dns_server_process).
THEOREM AnswersFit == Spec => []AnswerFits
<1>1. ASSUME Init PROVE Scanned
  <2>1. dns_udp = "none" /\ dns_pc = "idle" /\ msg_len = 0 /\ question_ptr = 0 /\ answer_ptr = 0
    BY <1>1 DEF Init, DnsInit
  <2>2. ~named /\ named \in BOOLEAN /\ dns_ip \in BOOLEAN
    BY <1>1, Zenon DEF Init, DnsInit
  <2>3. msg_len \in 0 .. MsgMax /\ question_ptr \in Nat /\ answer_ptr \in Nat
    BY <2>1, SizesAreNat
  <2> QED
    BY <2>1, <2>2, <2>3, Zenon DEF Scanned, DnsTypeOK
<1>2. Scanned => AnswerFits
  BY SizesAreNat DEF Scanned, AnswerFits, DnsTypeOK, TypeAndClass
<1> QED
  BY <1>1, <1>2, ScannedStep, PTL DEF Spec

-----------------------------------------------------------------------------
\* Which sockets exist, and which addresses are set, at each call of main.
Started ==
  /\ dns_pc # "idle" => dns_udp = "bound"
  /\ dhcp_pc # "idle" => dhcp_udp = "bound"
  /\ dns_udp = "bound" => dns_ip \/ main \in {"dns copy", "failed"}
  /\ dhcp_udp = "bound" => dhcp_set \/ main = "failed"
  /\ main \in {"dhcp new", "dhcp bind"} => dhcp_set
  /\ main \in {"dhcp deinit", "arch deinit", "returned"} => dns_udp = "none"
  /\ main \in {"arch deinit", "returned"} => dhcp_udp = "none"

LEMMA StartedStep == Started /\ [Next]_vars => Started'
<1> SUFFICES ASSUME Started, [Next]_vars PROVE Started'
  OBVIOUS
<1> USE DEF Started, Main, Idle
<1>1. CASE dhcp_server_init
  <2> dns_udp' = dns_udp /\ dns_ip' = dns_ip /\ dns_pc' = dns_pc
    BY <1>1 DEF dhcp_server_init, dnsVars, dnsLocals
  <2>1. CASE Main("dhcp init", "dhcp new") /\ dhcp_set_fields
    BY <2>1 DEF dhcp_set_fields, dhcpLocals
  <2>2. CASE dhcp_socket_new /\ Main("dhcp new", IF dhcp_udp' = "new" THEN "dhcp bind" ELSE "dns new")
    BY <2>2 DEF dhcp_socket_new, dhcpLocals
  <2>3. CASE Main("dhcp bind", "dns new") /\ dhcp_socket_bind
    BY <2>3 DEF dhcp_socket_bind, dhcpLocals
  <2> QED
    BY <1>1, <2>1, <2>2, <2>3 DEF dhcp_server_init
<1>2. CASE dns_server_init
  <2> dhcp_udp' = dhcp_udp /\ dhcp_set' = dhcp_set /\ dhcp_pc' = dhcp_pc
    BY <1>2 DEF dns_server_init, dhcpVars, dhcpLocals
  <2>1. CASE dns_socket_new /\ Main("dns new", IF dns_udp' = "new" THEN "dns bind" ELSE "open http")
    BY <2>1 DEF dns_socket_new, dnsLocals
  <2>2. CASE dns_socket_bind /\ Main("dns bind", IF dns_udp' = "bound" THEN "dns copy" ELSE "open http")
    BY <2>2 DEF dns_socket_bind, dnsLocals
  <2>3. CASE Main("dns copy", "open http") /\ dns_set_ip
    BY <2>3 DEF dns_set_ip, dnsLocals
  <2> QED
    BY <1>2, <2>1, <2>2, <2>3 DEF dns_server_init
<1>3. CASE http_server_open \/ repl_returns \/ arch_deinit
  BY <1>3 DEF http_server_open, repl_returns, arch_deinit, dnsVars, dnsLocals, dhcpVars, dhcpLocals
<1>4. CASE http_server_fails
  BY <1>4 DEF http_server_fails, dnsLocals, dhcpLocals
<1>5. CASE dns_server_deinit
  BY <1>5 DEF dns_server_deinit, dns_socket_free, dnsLocals, dhcpVars, dhcpLocals
<1>6. CASE dhcp_server_deinit
  BY <1>6 DEF dhcp_server_deinit, dhcp_socket_free, dhcpLocals, dnsVars, dnsLocals
<1>7. CASE Reboot
  BY <1>7 DEF Reboot, dns_forget, dhcp_forget
<1>8. CASE DnsCall
  <2>1. main' = main /\ dhcp_udp' = dhcp_udp /\ dhcp_set' = dhcp_set /\ dhcp_pc' = dhcp_pc
    BY <1>8 DEF DnsCall, dhcpVars, dhcpLocals
  <2>2. dns_server_process
    BY <1>8 DEF DnsCall
  <2>3. dns_udp' = dns_udp /\ dns_ip' = dns_ip /\ (dns_pc # "idle" \/ dns_udp = "bound")
    BY <2>2 DEF dns_server_process, dns_query, scan_label, scan_invalid, scan_end, scan_over, InQuery,
         name_too_long, dns_answer, dns_socket_sendto, KeepServer
  <2> QED
    BY <2>1, <2>3
<1>9. CASE DhcpCall
  <2>1. main' = main /\ dns_udp' = dns_udp /\ dns_ip' = dns_ip /\ dns_pc' = dns_pc
    BY <1>9 DEF DhcpCall, dnsVars, dnsLocals
  <2>2. dhcp_server_process
    BY <1>9 DEF DhcpCall
  <2>3. dhcp_udp' = dhcp_udp /\ dhcp_set' = dhcp_set /\ (dhcp_pc # "idle" \/ dhcp_udp = "bound")
    <3>1. CASE dhcp_message
      BY <3>1 DEF dhcp_message, KeepDhcp
    <3>2. CASE opt_find_next \/ opt_find_null
      BY <3>2 DEF opt_find_next, opt_find_null, Searching, KeepDhcp
    <3>3. CASE read_type \/ request \/ no_reply \/ dhcp_socket_sendto \/ ignore_request
      BY <3>3 DEF read_type, request, no_reply, Asking, dhcp_socket_sendto, ignore_request, KeepDhcp
    <3>4. CASE offer \/ ack
      BY <3>4 DEF offer, ack, Asking, Replies, KeepDhcp
    <3> QED
      BY <2>2, <3>1, <3>2, <3>3, <3>4 DEF dhcp_server_process
  <2> QED
    BY <2>1, <2>3
<1>10. CASE HttpCall \/ UNCHANGED vars
  BY <1>10 DEF HttpCall, vars, dnsVars, dnsLocals, dhcpVars, dhcpLocals
<1> QED
  BY <1>1, <1>2, <1>3, <1>4, <1>5, <1>6, <1>7, <1>8, <1>9, <1>10 DEF Next, Starts, Stops

\* No client is told an address that was not set, and no server is called with
\* its variables gone, but in the window of dns_server_init and after main has
\* failed: whatever messages come, and whenever.
THEOREM OwnAddressAnswered == Spec => []AnswersOwnAddress
<1>1. Init => Started
  BY DEF Init, DnsInit, DhcpInit, Started
<1>2. Started => AnswersOwnAddress
  BY DEF Started, AnswersOwnAddress
<1> QED
  BY <1>1, <1>2, StartedStep, PTL DEF Spec

-----------------------------------------------------------------------------
\* Every page links to the state it does not show.
Pages ==
  /\ LedTypeOK
  /\ \A b \in Browsers :
       page[b].link # "none" => page[b].link = IF page[b].says THEN "led=0" ELSE "led=1"

\* What http_get_led leaves behind: a page that says and offers what it should.
LEMMA LedPage ==
  ASSUME NEW b \in Browsers, NEW path \in Queries, NEW referer \in Queries,
         Pages, http_get_led(b, path, referer)
  PROVE  /\ led' = Switched(FirstQuery(path, referer)) /\ led' \in BOOLEAN
         /\ page'[b].says = led'
         /\ \A c \in Browsers \ {b} : page'[c] = page[c]
         /\ Pages'
<1>1. led' = Switched(FirstQuery(path, referer)) /\ led' \in BOOLEAN
  BY DEF http_get_led, Switched, Pages, LedTypeOK
<1> DEFINE new == [path |-> path, says |-> led', link |-> IF led' THEN "led=0" ELSE "led=1"]
<1>2. page' = [page EXCEPT ![b] = new]
  BY <1>1 DEF http_get_led
<1>3. new \in [path : Queries, says : BOOLEAN, link : Queries] /\ new.says = led'
      /\ new.link = IF led' THEN "led=0" ELSE "led=1"
  BY <1>1 DEF Queries
<1> HIDE DEF new
<1>4. page'[b] = new /\ \A c \in Browsers \ {b} : page'[c] = page[c]
  BY <1>2 DEF Pages, LedTypeOK
<1>5. LedTypeOK'
  BY <1>1, <1>2, <1>3 DEF Pages, LedTypeOK
<1>6. Pages'
  BY <1>3, <1>4, <1>5 DEF Pages
<1>7. page'[b].says = led'
  BY <1>3, <1>4, Zenon
<1> QED
  BY <1>1, <1>4, <1>6, <1>7

LEMMA RootPage ==
  ASSUME NEW b \in Browsers, Pages, http_get_root(b)
  PROVE  Pages' /\ led' = led /\ page'[b] = StartPage
         /\ \A c \in Browsers \ {b} : page'[c] = page[c]
<1>1. StartPage \in [path : Queries, says : BOOLEAN, link : Queries] /\ StartPage.link = "none"
  BY DEF StartPage, Queries
<1>2. page' = [page EXCEPT ![b] = StartPage] /\ led' = led
  BY DEF http_get_root
<1> QED
  BY <1>1, <1>2 DEF Pages, LedTypeOK

\* The requests of browser b, as calls of the two handlers.
Requests(b) ==
  \/ http_get_root(b)
  \/ \E path, referer \in Queries : http_get_led(b, path, referer)

LEMMA RequestsAreCalls ==
  ASSUME Pages, NEW b \in Browsers,
         http_get_root(b) \/ FollowStart(b) \/ Click(b) \/ Reload(b)
  PROVE  Requests(b)
<1>1. page[b].link \in Queries /\ page[b].path \in Queries /\ "none" \in Queries
  BY DEF Pages, LedTypeOK, Queries
<1>2. CASE Reload(b)
  BY <1>1, <1>2 DEF Reload, Requests
<1>3. CASE FollowStart(b) \/ Click(b)
  BY <1>1, <1>3 DEF FollowStart, Click, Requests
<1> QED
  BY <1>2, <1>3 DEF Requests

LEMMA PagesStep == Pages /\ [Next]_vars => Pages'
<1> SUFFICES ASSUME Pages, [Next]_vars PROVE Pages'
  OBVIOUS
<1>1. CASE HttpCall
  <2>1. PICK b \in Browsers : http_get_root(b) \/ FollowStart(b) \/ Click(b) \/ Reload(b)
    BY <1>1 DEF HttpCall, LedRequests
  <2> QED
    BY <2>1, RequestsAreCalls, LedPage, RootPage DEF Requests
<1>2. CASE Reboot
  BY <1>2 DEF Reboot, Pages, LedTypeOK
<1>3. CASE UNCHANGED ledVars
  BY <1>3 DEF ledVars, Pages, LedTypeOK
<1>4. [Next]_vars => HttpCall \/ Reboot \/ UNCHANGED ledVars
  BY DEF Next, Starts, Stops, dhcp_server_init, dns_server_init, http_server_open,
     http_server_fails, repl_returns, dns_server_deinit, dhcp_server_deinit, arch_deinit,
     DnsCall, DhcpCall, vars
<1> QED
  BY <1>1, <1>2, <1>3, <1>4

\* A click does what its page says, however many browsers have switched the
\* LED since that page was shown, and its answer says what was done
\* (http_get_led).
THEOREM ClicksAreObeyed == Spec => LinkDoesWhatItSays
<1> DEFINE Obeyed == \A b \in Browsers :
             /\ Click(b) => led' = (page[b].link = "led=1") /\ led' = ~page[b].says
             /\ page'[b] # page[b] /\ page'[b].link # "none" => page'[b].says = led'
             /\ FollowStart(b) => led' = led
<1>1. ASSUME Pages, [Next]_vars PROVE [Obeyed]_ledVars
  <2> SUFFICES ASSUME NEW b \in Browsers, ledVars' # ledVars
               PROVE  /\ Click(b) => led' = (page[b].link = "led=1") /\ led' = ~page[b].says
                      /\ page'[b] # page[b] /\ page'[b].link # "none" => page'[b].says = led'
                      /\ FollowStart(b) => led' = led
    OBVIOUS
  <2>1. page[b].link \in Queries /\ page[b].path \in Queries /\ page[b].says \in BOOLEAN /\ "none" \in Queries
    BY <1>1 DEF Pages, LedTypeOK, Queries
  <2>2. ASSUME Click(b) PROVE led' = (page[b].link = "led=1") /\ led' = ~page[b].says
    <3>1. led' = Switched(FirstQuery(page[b].link, page[b].path))
      BY <1>1, <2>1, <2>2, LedPage DEF Click
    <3>2. page[b].link # "none" /\ page[b].link = IF page[b].says THEN "led=0" ELSE "led=1"
      BY <1>1, <2>2 DEF Click, Pages
    <3> QED
      BY <2>1, <3>1, <3>2 DEF Switched, FirstQuery
  <2>3. ASSUME FollowStart(b) PROVE led' = led
    <3>1. led' = Switched(FirstQuery("none", "none"))
      BY <1>1, <2>1, <2>3, LedPage DEF FollowStart
    <3> QED
      BY <3>1 DEF Switched, FirstQuery
  <2>4. ASSUME page'[b] # page[b], page'[b].link # "none" PROVE page'[b].says = led'
    <3>1. CASE HttpCall
      <4>1. PICK c \in Browsers : http_get_root(c) \/ FollowStart(c) \/ Click(c) \/ Reload(c)
        BY <3>1 DEF HttpCall, LedRequests
      <4>2. Requests(c)
        BY <1>1, <4>1, RequestsAreCalls
      <4>3. CASE http_get_root(c)
        <5>1. page'[c] = StartPage /\ \A d \in Browsers \ {c} : page'[d] = page[d]
          BY <1>1, <4>3, RootPage
        <5> QED
          BY <2>4, <5>1 DEF StartPage
      <4>4. CASE \E path, referer \in Queries : http_get_led(c, path, referer)
        <5>1. PICK path \in Queries, referer \in Queries : http_get_led(c, path, referer)
          BY <4>4
        <5>2. page'[c].says = led' /\ \A d \in Browsers \ {c} : page'[d] = page[d]
          BY <1>1, <5>1, LedPage
        <5> QED
          BY <2>4, <5>2
      <4> QED
        BY <4>2, <4>3, <4>4 DEF Requests
    <3>2. CASE ~HttpCall
      <4>1. page' = page
        BY <1>1, <3>2 DEF Next, Starts, Stops, dhcp_server_init, dns_server_init, http_server_open,
           http_server_fails, repl_returns, dns_server_deinit, dhcp_server_deinit, arch_deinit,
           DnsCall, DhcpCall, Reboot, vars, ledVars
      <4> QED
        BY <2>4, <4>1
    <3> QED
      BY <3>1, <3>2
  <2> QED
    BY <2>2, <2>3, <2>4
<1>2. ASSUME Init PROVE Pages
  <2>1. led \in BOOLEAN /\ \A b \in Browsers : page[b] = StartPage
    BY <1>2, Zenon DEF Init, LedInit
  <2>2. page = [b \in Browsers |-> StartPage]
    BY <1>2 DEF Init, LedInit
  <2>3. StartPage \in [path : Queries, says : BOOLEAN, link : Queries] /\ StartPage.link = "none"
    BY DEF StartPage, Queries
  <2>4. page \in [Browsers -> [path : Queries, says : BOOLEAN, link : Queries]]
    BY <2>2, <2>3
  <2> QED
    BY <2>1, <2>3, <2>4 DEF Pages, LedTypeOK
<1> QED
  BY <1>1, <1>2, PagesStep, PTL DEF Spec, LinkDoesWhatItSays
-----------------------------------------------------------------------------
(* The DHCP options. *)

LEMMA OptionSizes ==
  /\ OptMax \in Nat /\ ReplyLen = 34 /\ 34 <= OptMax /\ Cells = 0 .. OptMax + 4
  /\ Stacks \subseteq [Cells -> Byte] /\ Slots \subseteq 0 .. 239
  /\ \A m \in Messages : m.len \in Nat /\ m.bytes \in [0 .. m.len - 1 -> Byte] /\ m.starts \subseteq Nat
BY OptionsAssumption DEF ReplyLen, Cells, DHCPS_BASE_IP

\* An option begins at offset o.
OptionAt(bytes, o, code, data) ==
  /\ bytes[o] = code /\ bytes[o + 1] = Len(data)
  /\ \A k \in 1 .. Len(data) : bytes[o + 1 + k] = data[k]

\* The options of a list of offset, code and data lie before e.
Has(bytes, e, options) ==
  \A x \in options :
    /\ x[1] \in Nat /\ Len(x[3]) \in Nat /\ x[1] + 2 + Len(x[3]) <= e
    /\ OptionAt(bytes, x[1], x[2], x[3])

SameBefore(new, old, e) == \A i \in 0 .. e - 1 : new[i] = old[i]

LEMMA KeepsOptions ==
  ASSUME NEW new, NEW old, NEW e \in Nat, NEW options,
         SameBefore(new, old, e), Has(old, e, options), NEW f \in Nat, e <= f
  PROVE  Has(new, f, options)
<1> SUFFICES ASSUME NEW x \in options
             PROVE  x[1] + 2 + Len(x[3]) <= f /\ OptionAt(new, x[1], x[2], x[3])
  BY DEF Has
<1> DEFINE o == x[1]
           n == Len(x[3])
           d == x[3]
           c == x[2]
<1>1. o \in Nat /\ n \in Nat /\ o + 2 + n <= e /\ OptionAt(old, o, c, d)
  BY DEF Has
<1>2. n = Len(d)
  OBVIOUS
<1> HIDE DEF o, n, d, c
<1>3. o \in 0 .. e - 1 /\ o + 1 \in 0 .. e - 1 /\ \A k \in 1 .. n : o + 1 + k \in 0 .. e - 1
  BY <1>1
<1>4. OptionAt(new, o, c, d)
  BY <1>1, <1>2, <1>3 DEF OptionAt, SameBefore
<1>5. o + 2 + n <= f
  BY <1>1
<1> QED BY <1>4, <1>5 DEF o, n, d, c

Data(data, n) == n \in Byte /\ Len(data) = n /\ \A k \in 1 .. n : data[k] \in Byte

\* out is what some calls of opt_write have left.
Holds(out, e, options) == out.end = e /\ out.bytes \in [Cells -> Byte] /\ Has(out.bytes, e, options)

LEMMA WritesBytes ==
  ASSUME NEW out, NEW cmd, NEW data
  PROVE  /\ opt_write(out, cmd, data).bytes = [i \in Cells |-> opt_byte(out, cmd, data, i)]
         /\ opt_write(out, cmd, data).end = out.end + 2 + Len(data)
BY DEF opt_write

\* opt_write puts an option behind the others.
LEMMA Writes ==
  ASSUME NEW from, NEW e \in Nat, NEW options, Holds(from, e, options),
         NEW code \in Byte, NEW data, NEW n, Data(data, n), e + 2 + n <= OptMax
  PROVE  Holds(opt_write(from, code, data), e + 2 + n, options \cup {<<e, code, data>>})
<1> DEFINE b   == from.bytes
           out == opt_write(from, code, data)
           new == out.bytes
<1>1. /\ b \in [Cells -> Byte] /\ from.end = e /\ Has(b, e, options)
      /\ n \in Byte /\ Len(data) = n /\ \A k \in 1 .. n : data[k] \in Byte
  BY DEF Holds, Data
<1>2. n \in Nat /\ OptMax \in Nat /\ Cells = 0 .. OptMax + 4 /\ code \in Byte
  BY <1>1, OptionSizes DEF Byte
<1>3. /\ new = [i \in Cells |-> opt_byte(from, code, data, i)]
      /\ out.end = e + 2 + n
  BY <1>1, WritesBytes
<1>4. \A i : opt_byte(from, code, data, i) =
               CASE i = e     -> code
                 [] i = e + 1 -> n
                 [] i \in e + 2 .. e + 1 + n -> data[i - e - 1]
                 [] OTHER     -> b[i]
  BY <1>1 DEF opt_byte
<1> HIDE DEF b, out, new
<1>5. new \in [Cells -> Byte]
  <2>1. ASSUME NEW i \in Cells PROVE opt_byte(from, code, data, i) \in Byte
    <3>1. i \in e + 2 .. e + 1 + n => i - e - 1 \in 1 .. n
      BY <1>2
    <3>2. b[i] \in Byte
      BY <1>1
    <3> QED BY <1>1, <1>2, <1>4, <3>1, <3>2
  <2> QED BY <1>3, <2>1
<1>6. SameBefore(new, b, e)
  <2>1. ASSUME NEW i \in 0 .. e - 1 PROVE new[i] = b[i]
    <3>1. i \in Cells /\ i # e /\ i # e + 1 /\ i \notin e + 2 .. e + 1 + n
      BY <1>2
    <3> QED BY <1>3, <1>4, <3>1
  <2> QED BY <2>1 DEF SameBefore
<1>7. OptionAt(new, e, code, data)
  <2>1. e \in Cells /\ e + 1 \in Cells /\ e # e + 1
    BY <1>2
  <2>2. new[e] = code /\ new[e + 1] = n
    BY <1>3, <1>4, <2>1
  <2>3. ASSUME NEW k \in 1 .. n PROVE new[e + 1 + k] = data[k]
    <3> DEFINE i == e + 1 + k
    <3>1. i \in Cells /\ i # e /\ i # e + 1 /\ i \in e + 2 .. e + 1 + n /\ i - e - 1 = k
      BY <1>2
    <3> HIDE DEF i
    <3>2. new[i] = data[k]
      BY <1>3, <1>4, <3>1
    <3> QED BY <3>2 DEF i
  <2> QED BY <1>1, <2>2, <2>3 DEF OptionAt
<1>8. e + 2 + n \in Nat /\ e <= e + 2 + n
  BY <1>2
<1>9. Has(new, e + 2 + n, options)
  BY <1>1, <1>6, <1>8, KeepsOptions
<1>10. Has(new, e + 2 + n, options \cup {<<e, code, data>>})
  <2> DEFINE y == <<e, code, data>>
  <2>1. y[1] = e /\ y[2] = code /\ y[3] = data
    OBVIOUS
  <2> HIDE DEF y
  <2>2. Has(new, e + 2 + n, options \cup {y})
    BY <1>1, <1>2, <1>7, <1>9, <2>1 DEF Has
  <2> QED BY <2>2 DEF y
<1>11. Holds(out, e + 2 + n, options \cup {<<e, code, data>>})
  BY <1>3, <1>5, <1>10 DEF Holds, new
<1> QED BY <1>11 DEF out

\* What is sent, option by option.
ReplyOptions(msg_type) ==
  {<<0, MSG_TYPE, <<msg_type>>>>, <<3, SERVER_ID, ip>>, <<9, SUBNET_MASK, nm>>,
   <<15, ROUTER, ip>>, <<21, DNS, ip>>, <<27, LEASE_TIME, LeaseSeconds>>}

LEMMA FourBytes ==
  Data(ip, 4) /\ Data(nm, 4) /\ Data(LeaseSeconds, 4)
<1>1. 4 \in Byte /\ \A k \in 1 .. 4 : k = 1 \/ k = 2 \/ k = 3 \/ k = 4
  BY DEF Byte
<1>2. Len(ip) = 4 /\ ip[1] \in Byte /\ ip[2] \in Byte /\ ip[3] \in Byte /\ ip[4] \in Byte
  BY DEF ip, Byte
<1>3. Len(nm) = 4 /\ nm[1] \in Byte /\ nm[2] \in Byte /\ nm[3] \in Byte /\ nm[4] \in Byte
  BY DEF nm, Byte
<1>4. /\ Len(LeaseSeconds) = 4 /\ LeaseSeconds[1] \in Byte /\ LeaseSeconds[2] \in Byte
      /\ LeaseSeconds[3] \in Byte /\ LeaseSeconds[4] \in Byte
  BY DEF LeaseSeconds, Byte
<1> QED BY <1>1, <1>2, <1>3, <1>4 DEF Data

\* dhcp_server_process's reply, whatever it is written over.
LEMMA WritesReply ==
  ASSUME NEW b \in [Cells -> Byte], NEW msg_type \in Byte
  PROVE  /\ Written(b, msg_type).end = 34 /\ Written(b, msg_type).bytes \in [Cells -> Byte]
         /\ Written(b, msg_type).bytes[33] = END
         /\ Has(Written(b, msg_type).bytes, 34, ReplyOptions(msg_type))
<1> DEFINE t    == <<msg_type>>
           out1 == opt_write([bytes |-> b, end |-> 0], MSG_TYPE, t)
           out2 == opt_write(out1, SERVER_ID, ip)
           out3 == opt_write(out2, SUBNET_MASK, nm)
           out4 == opt_write(out3, ROUTER, ip)
           out5 == opt_write(out4, DNS, ip)
           out6 == opt_write(out5, LEASE_TIME, LeaseSeconds)
           has1 == {<<0, MSG_TYPE, t>>}
           has2 == has1 \cup {<<3, SERVER_ID, ip>>}
           has3 == has2 \cup {<<9, SUBNET_MASK, nm>>}
           has4 == has3 \cup {<<15, ROUTER, ip>>}
           has5 == has4 \cup {<<21, DNS, ip>>}
           has6 == has5 \cup {<<27, LEASE_TIME, LeaseSeconds>>}
<1>0. /\ MSG_TYPE \in Byte /\ SERVER_ID \in Byte /\ SUBNET_MASK \in Byte /\ ROUTER \in Byte
      /\ DNS \in Byte /\ LEASE_TIME \in Byte /\ END \in Byte /\ 1 \in Byte /\ 4 \in Byte
  BY DEF MSG_TYPE, SERVER_ID, SUBNET_MASK, ROUTER, DNS, LEASE_TIME, END, Byte
<1>00. OptMax \in Nat /\ 34 <= OptMax /\ Cells = 0 .. OptMax + 4
  BY OptionSizes
<1>1. Holds(out1, 3, has1)
  <2> DEFINE out0 == [bytes |-> b, end |-> 0]
  <2>1. Holds(out0, 0, {})
    BY DEF Holds, Has
  <2>2. 0 \in Nat /\ 0 + 2 + 1 <= OptMax
    BY <1>00
  <2>3. Data(t, 1) /\ 0 + 2 + 1 = 3 /\ {} \cup {<<0, MSG_TYPE, t>>} = {<<0, MSG_TYPE, t>>}
    BY <1>0 DEF Data
  <2> HIDE DEF t, out0
  <2>4. Holds(opt_write(out0, MSG_TYPE, t), 0 + 2 + 1, {} \cup {<<0, MSG_TYPE, t>>})
    BY <1>0, <2>1, <2>2, <2>3, Writes, Zenon
  <2>5. Holds(opt_write(out0, MSG_TYPE, t), 3, {<<0, MSG_TYPE, t>>})
    BY <2>3, <2>4
  <2> QED BY <2>5 DEF out0
<1> HIDE DEF t, out1, has1
<1>2. Holds(out2, 9, has2)
  <2>1. 3 \in Nat /\ 3 + 2 + 4 <= OptMax /\ 3 + 2 + 4 = 9
    BY <1>00
  <2>2. Holds(out2, 3 + 2 + 4, has2)
    BY <1>0, <1>1, <2>1, FourBytes, Writes
  <2> QED BY <2>1, <2>2
<1> HIDE DEF out2, has2
<1>3. Holds(out3, 15, has3)
  <2>1. 9 \in Nat /\ 9 + 2 + 4 <= OptMax /\ 9 + 2 + 4 = 15
    BY <1>00
  <2>2. Holds(out3, 9 + 2 + 4, has3)
    BY <1>0, <1>2, <2>1, FourBytes, Writes
  <2> QED BY <2>1, <2>2
<1> HIDE DEF out3, has3
<1>4. Holds(out4, 21, has4)
  <2>1. 15 \in Nat /\ 15 + 2 + 4 <= OptMax /\ 15 + 2 + 4 = 21
    BY <1>00
  <2>2. Holds(out4, 15 + 2 + 4, has4)
    BY <1>0, <1>3, <2>1, FourBytes, Writes
  <2> QED BY <2>1, <2>2
<1> HIDE DEF out4, has4
<1>5. Holds(out5, 27, has5)
  <2>1. 21 \in Nat /\ 21 + 2 + 4 <= OptMax /\ 21 + 2 + 4 = 27
    BY <1>00
  <2>2. Holds(out5, 21 + 2 + 4, has5)
    BY <1>0, <1>4, <2>1, FourBytes, Writes
  <2> QED BY <2>1, <2>2
<1> HIDE DEF out5, has5
<1>6. Holds(out6, 33, has6)
  <2>1. 27 \in Nat /\ 27 + 2 + 4 <= OptMax /\ 27 + 2 + 4 = 33
    BY <1>00
  <2>2. Holds(out6, 27 + 2 + 4, has6)
    BY <1>0, <1>5, <2>1, FourBytes, Writes
  <2> QED BY <2>1, <2>2
<1>7. Written(b, msg_type) = [bytes |-> [out6.bytes EXCEPT ![out6.end] = END], end |-> out6.end + 1]
  BY DEF Written, out1, out2, out3, out4, out5, t
<1> HIDE DEF out6, has6
<1>8. has6 = ReplyOptions(msg_type)
  BY DEF ReplyOptions, has1, has2, has3, has4, has5, has6, t
<1> DEFINE sent == [out6.bytes EXCEPT ![33] = END]
<1>9. out6.end = 33 /\ out6.bytes \in [Cells -> Byte] /\ Has(out6.bytes, 33, has6)
  BY <1>6 DEF Holds
<1>10. Written(b, msg_type).bytes = sent /\ Written(b, msg_type).end = 34
  BY <1>7, <1>9
<1>11. sent \in [Cells -> Byte] /\ sent[33] = END /\ SameBefore(sent, out6.bytes, 33)
  <2>1. 33 \in Cells /\ \A i \in 0 .. 33 - 1 : i \in Cells /\ i # 33
    BY <1>00
  <2> QED BY <1>0, <1>9, <2>1 DEF SameBefore
<1> HIDE DEF sent
<1>12. Has(sent, 34, has6)
  BY <1>9, <1>11, KeepsOptions
<1> QED BY <1>8, <1>10, <1>11, <1>12

\* An option of the reply is the only one with its code.
LEMMA ReplyCodes ==
  ASSUME NEW bytes, NEW msg_type, Has(bytes, 34, ReplyOptions(msg_type)), bytes[33] = END
  PROVE  /\ OptionAt(bytes, 0, MSG_TYPE, <<msg_type>>) /\ OptionAt(bytes, 3, SERVER_ID, ip)
         /\ OptionAt(bytes, 9, SUBNET_MASK, nm) /\ OptionAt(bytes, 15, ROUTER, ip)
         /\ OptionAt(bytes, 21, DNS, ip) /\ OptionAt(bytes, 27, LEASE_TIME, LeaseSeconds)
         /\ bytes[0] = 53 /\ bytes[3] = 54 /\ bytes[9] = 1 /\ bytes[15] = 3 /\ bytes[21] = 6
         /\ bytes[27] = 51 /\ bytes[33] = 255
         /\ bytes[1] = 1 /\ bytes[4] = 4 /\ bytes[10] = 4 /\ bytes[16] = 4 /\ bytes[22] = 4
         /\ bytes[28] = 4
<1>1. \A o, c, d : <<o, c, d>> \in ReplyOptions(msg_type) => OptionAt(bytes, o, c, d)
  <2> SUFFICES ASSUME NEW x \in ReplyOptions(msg_type) PROVE OptionAt(bytes, x[1], x[2], x[3])
    OBVIOUS
  <2> QED BY DEF Has
<1>2. /\ OptionAt(bytes, 0, MSG_TYPE, <<msg_type>>) /\ OptionAt(bytes, 3, SERVER_ID, ip)
      /\ OptionAt(bytes, 9, SUBNET_MASK, nm) /\ OptionAt(bytes, 15, ROUTER, ip)
      /\ OptionAt(bytes, 21, DNS, ip) /\ OptionAt(bytes, 27, LEASE_TIME, LeaseSeconds)
  BY <1>1 DEF ReplyOptions
<1>3. Len(<<msg_type>>) = 1 /\ Len(ip) = 4 /\ Len(nm) = 4 /\ Len(LeaseSeconds) = 4
  BY FourBytes DEF Data
<1>4. /\ bytes[0] = 53 /\ bytes[3] = 54 /\ bytes[9] = 1 /\ bytes[15] = 3 /\ bytes[21] = 6
      /\ bytes[27] = 51 /\ bytes[33] = 255
  BY <1>2 DEF OptionAt, MSG_TYPE, SERVER_ID, SUBNET_MASK, ROUTER, DNS, LEASE_TIME, END
<1>5. /\ bytes[1] = 1 /\ bytes[4] = 4 /\ bytes[10] = 4 /\ bytes[16] = 4 /\ bytes[22] = 4
      /\ bytes[28] = 4
  <2>1. /\ bytes[0 + 1] = 1 /\ bytes[3 + 1] = 4 /\ bytes[9 + 1] = 4 /\ bytes[15 + 1] = 4
        /\ bytes[21 + 1] = 4 /\ bytes[27 + 1] = 4
    BY <1>2, <1>3 DEF OptionAt
  <2> QED BY <2>1
<1> QED BY <1>2, <1>4, <1>5

\* The reply ends, and a client reads from it what was written.
LEMMA ReplyReads ==
  ASSUME NEW bytes, NEW msg_type, Has(bytes, 34, ReplyOptions(msg_type)), bytes[33] = END
  PROVE  /\ WellFormed(bytes, 34, ReplyStarts)
         /\ Says(bytes, ReplyStarts, MSG_TYPE, <<msg_type>>)
         /\ Says(bytes, ReplyStarts, SERVER_ID, ip) /\ Says(bytes, ReplyStarts, SUBNET_MASK, nm)
         /\ Says(bytes, ReplyStarts, ROUTER, ip) /\ Says(bytes, ReplyStarts, DNS, ip)
         /\ Says(bytes, ReplyStarts, LEASE_TIME, LeaseSeconds)
<1>1. /\ OptionAt(bytes, 0, MSG_TYPE, <<msg_type>>) /\ OptionAt(bytes, 3, SERVER_ID, ip)
      /\ OptionAt(bytes, 9, SUBNET_MASK, nm) /\ OptionAt(bytes, 15, ROUTER, ip)
      /\ OptionAt(bytes, 21, DNS, ip) /\ OptionAt(bytes, 27, LEASE_TIME, LeaseSeconds)
      /\ bytes[0] = 53 /\ bytes[3] = 54 /\ bytes[9] = 1 /\ bytes[15] = 3 /\ bytes[21] = 6
      /\ bytes[27] = 51 /\ bytes[33] = 255
      /\ bytes[1] = 1 /\ bytes[4] = 4 /\ bytes[10] = 4 /\ bytes[16] = 4 /\ bytes[22] = 4
      /\ bytes[28] = 4
  BY ReplyCodes
<1>2. WellFormed(bytes, 34, ReplyStarts)
  <2>1. 34 <= OptMax /\ ReplyStarts \subseteq 0 .. 34 - 1 /\ 0 \in ReplyStarts
    BY OptionSizes DEF ReplyStarts
  <2>2. \A q \in ReplyStarts : q <= 33
    BY DEF ReplyStarts
  <2>3. ASSUME NEW o \in ReplyStarts \ {33}
        PROVE  /\ bytes[o] \notin {0, 255} /\ o + 1 < 34
               /\ o + 2 + bytes[o + 1] \in ReplyStarts
               /\ \A q \in ReplyStarts : q > o => q >= o + 2 + bytes[o + 1]
               /\ bytes[o] = 53 => bytes[o + 1] = 1
               /\ bytes[o] # 50
    <3>1. o \in {0, 3, 9, 15, 21, 27}
      BY DEF ReplyStarts
    <3>2. CASE o = 0
      BY <1>1, <3>2 DEF ReplyStarts
    <3>3. CASE o = 3
      BY <1>1, <3>3 DEF ReplyStarts
    <3>4. CASE o = 9
      BY <1>1, <3>4 DEF ReplyStarts
    <3>5. CASE o = 15
      BY <1>1, <3>5 DEF ReplyStarts
    <3>6. CASE o = 21
      BY <1>1, <3>6 DEF ReplyStarts
    <3>7. CASE o = 27
      BY <1>1, <3>7 DEF ReplyStarts
    <3> QED BY <3>1, <3>2, <3>3, <3>4, <3>5, <3>6, <3>7
  <2> QED
    BY <1>1, <2>1, <2>2, <2>3 DEF WellFormed, PAD, END, MSG_TYPE, REQUESTED_IP
<1>3. ASSUME NEW o \in ReplyStarts, NEW code, NEW data, OptionAt(bytes, o, code, data)
      PROVE  Says(bytes, ReplyStarts, code, data)
  <2>1. bytes[o] = code
    BY <1>3 DEF OptionAt
  <2>2. \A q \in ReplyStarts : q < o => bytes[q] # bytes[o]
    BY <1>1 DEF ReplyStarts
  <2> QED BY <1>3, <2>1, <2>2 DEF OptionAt, Says
<1>4. 0 \in ReplyStarts /\ 3 \in ReplyStarts /\ 9 \in ReplyStarts /\ 15 \in ReplyStarts
      /\ 21 \in ReplyStarts /\ 27 \in ReplyStarts
  BY DEF ReplyStarts
<1> QED BY <1>1, <1>2, <1>3, <1>4

-----------------------------------------------------------------------------
\* What was asked is still in the buffer, as far as it is of interest.
Copied == \A i \in 0 .. asked.len - 1 : opt[i] = asked.bytes[i]

\* What opt_find has passed is not what it looks for.
Passed ==
  at \in asked.starts /\ \A q \in asked.starts : q < at => asked.bytes[q] # Sought

\* For a message that is well formed, how far the two searches have come.
Read ==
  /\ dhcp_pc \in {"find type", "switch", "find ip"} => Copied
  /\ Searching => Passed
  /\ type # NoType => Says(asked.bytes, asked.starts, MSG_TYPE, <<type>>)
  /\ at = NotFound =>
       \A o \in asked.starts :
         asked.bytes[o] # (IF type = NoType THEN MSG_TYPE ELSE REQUESTED_IP)
  /\ dhcp_pc = "send" /\ type = DHCPREQUEST =>
       Says(asked.bytes, asked.starts, REQUESTED_IP, <<ip[1], ip[2], ip[3], DHCPS_BASE_IP + yi>>)

Understood ==
  /\ dhcp_pc \in {"idle", "find type", "switch", "find ip", "send", "ignore"}
  /\ opt \in [Cells -> Byte]
  /\ asked \in Messages \cup {Nothing}
  /\ dhcp_pc = "idle" => asked = Nothing
  /\ dhcp_pc # "ignore" => at \in Nat
  /\ dhcp_pc \in {"idle", "find type"} => type = NoType
  /\ dhcp_pc = "idle" => at = 0
  /\ dhcp_pc = "find ip" => type = DHCPREQUEST
  /\ dhcp_pc \in {"switch", "find ip", "send"} => type \in Byte
  /\ dhcp_pc = "send" => ReplyTells
  /\ WellFormed(asked.bytes, asked.len, asked.starts) => Read

LEMMA MessageFacts ==
  ASSUME asked \in Messages \cup {Nothing}, WellFormed(asked.bytes, asked.len, asked.starts)
  PROVE  /\ asked \in Messages /\ asked.len \in Nat /\ asked.len <= OptMax
         /\ asked.bytes \in [0 .. asked.len - 1 -> Byte] /\ asked.starts \subseteq 0 .. asked.len - 1
<1>1. 0 \in asked.starts /\ asked.len <= OptMax /\ asked.starts \subseteq 0 .. asked.len - 1
  BY DEF WellFormed
<1>2. asked # Nothing
  <2>1. Nothing.starts = {}
    BY DEF Nothing
  <2> QED BY <1>1, <2>1
<1> QED BY <1>1, <1>2, OptionSizes

\* An option that opt_find stands on is not the last, and lies in the message.
LEMMA StandsOn ==
  ASSUME Understood, Searching, WellFormed(asked.bytes, asked.len, asked.starts),
         NEW b, b = asked.bytes
  PROVE  /\ at \in asked.starts /\ at \in 0 .. asked.len - 1 /\ at < OptMax /\ opt[at] = b[at]
         /\ \A q \in asked.starts : q < at => b[q] # Sought
         /\ opt[at] = END => \A q \in asked.starts : q <= at
         /\ opt[at] # END =>
              /\ at + 1 < asked.len /\ opt[at + 1] = b[at + 1]
              /\ at + 2 + b[at + 1] \in asked.starts
              /\ \A q \in asked.starts : q > at => q >= at + 2 + b[at + 1]
              /\ b[at] = MSG_TYPE => b[at + 1] = 1
              /\ b[at] = REQUESTED_IP => b[at + 1] = 4
<1>1. Passed /\ Copied
  BY DEF Understood, Read, Searching
<1>2. /\ asked.len \in Nat /\ asked.len <= OptMax /\ at \in asked.starts
      /\ asked.starts \subseteq 0 .. asked.len - 1 /\ OptMax \in Nat
  BY <1>1, MessageFacts, OptionSizes DEF Understood, Passed
<1>3. opt[at] = b[at] /\ (at + 1 < asked.len => opt[at + 1] = b[at + 1])
  BY <1>1, <1>2 DEF Copied
<1>4. \A q \in asked.starts : q < at => b[q] # Sought
  BY <1>1 DEF Passed
<1>5. \/ b[at] = END /\ \A q \in asked.starts : q <= at
      \/ /\ b[at] \notin {PAD, END} /\ at + 1 < asked.len
         /\ at + 2 + b[at + 1] \in asked.starts
         /\ \A q \in asked.starts : q > at => q >= at + 2 + b[at + 1]
         /\ b[at] = MSG_TYPE => b[at + 1] = 1
         /\ b[at] = REQUESTED_IP => b[at + 1] = 4
  BY <1>2 DEF WellFormed
<1> QED BY <1>2, <1>3, <1>4, <1>5
LEMMA Codes ==
  /\ \A n \in Nat : n # NotFound /\ n # NoType
  /\ DHCPREQUEST # DHCPDISCOVER /\ DHCPREQUEST \in Nat /\ DHCPOFFER \in Byte /\ DHCPACK \in Byte
  /\ 0 \in Nat
BY DEF NotFound, NoType, DHCPREQUEST, DHCPDISCOVER, DHCPOFFER, DHCPACK, Byte

LEMMA ForgetUnderstood ==
  ASSUME dhcp_forget
  PROVE  Understood'
<1>1. /\ dhcp_pc' = "idle" /\ asked' = Nothing /\ opt' = Zeroes /\ at' = 0 /\ type' = NoType
  BY DEF dhcp_forget
<1>2. ~WellFormed(asked.bytes, asked.len, asked.starts)'
  <2>1. Nothing.starts = {}
    BY DEF Nothing
  <2> QED BY <1>1, <2>1 DEF WellFormed
<1>3. Zeroes \in [Cells -> Byte]
  BY DEF Zeroes, Byte
<1> QED BY <1>1, <1>2, <1>3 DEF Understood

LEMMA MessageUnderstood ==
  ASSUME Understood, dhcp_message
  PROVE  Understood'
<1>1. PICK m \in Messages, old \in Stacks : asked' = m /\ opt' = Over(m, old)
  BY DEF dhcp_message
<1>2. /\ m.len \in Nat /\ m.bytes \in [0 .. m.len - 1 -> Byte] /\ old \in [Cells -> Byte]
      /\ OptMax \in Nat /\ Cells = 0 .. OptMax + 4
  BY OptionSizes
<1>3. /\ dhcp_pc' = "find type" /\ at' = 0 /\ type' = NoType
  BY DEF dhcp_message, Understood
<1>4. opt' \in [Cells -> Byte]
  <2>1. ASSUME NEW i \in Cells, i < m.len PROVE m.bytes[i] \in Byte
    <3>1. i \in 0 .. m.len - 1
      BY <1>2, <2>1
    <3> QED BY <1>2, <3>1
  <2> QED BY <1>1, <1>2, <2>1 DEF Over
<1>5. WellFormed(m.bytes, m.len, m.starts) => Copied' /\ Passed'
  <2> SUFFICES ASSUME WellFormed(m.bytes, m.len, m.starts) PROVE Copied' /\ Passed'
    OBVIOUS
  <2>1. m.len <= OptMax /\ 0 \in m.starts /\ m.starts \subseteq 0 .. m.len - 1
    BY DEF WellFormed
  <2>2. \A i \in 0 .. m.len - 1 : opt'[i] = m.bytes[i]
    BY <1>1, <1>2, <2>1 DEF Over
  <2>3. \A q \in m.starts : ~(q < 0)
    BY <1>2, <2>1
  <2> QED BY <1>1, <1>3, <2>1, <2>2, <2>3 DEF Copied, Passed
<1>6. NotFound # 0
  BY Codes
<1>7. WellFormed(asked.bytes, asked.len, asked.starts)' => Read'
  BY <1>1, <1>3, <1>5, <1>6 DEF Read
<1> QED BY <1>1, <1>3, <1>4, <1>7 DEF Understood

LEMMA StartsAreNat ==
  ASSUME Understood, WellFormed(asked.bytes, asked.len, asked.starts)
  PROVE  \A q \in asked.starts : q \in Nat /\ ~(q < 0)
<1>1. asked.len \in Nat /\ asked.starts \subseteq 0 .. asked.len - 1
  BY MessageFacts DEF Understood
<1> QED BY <1>1

LEMMA SearchUnderstood ==
  ASSUME Understood, opt_find_next \/ opt_find_null
  PROVE  Understood'
<1>0. at \in Nat /\ OptMax \in Nat /\ Cells = 0 .. OptMax + 4
  BY OptionSizes DEF opt_find_next, opt_find_null, Searching, Understood
<1>1. Searching /\ UNCHANGED <<asked, opt, type, yi>>
  BY DEF opt_find_next, opt_find_null
<1>2. Sought \in {MSG_TYPE, REQUESTED_IP} /\ END \notin {MSG_TYPE, REQUESTED_IP}
  BY DEF Sought, MSG_TYPE, REQUESTED_IP, END
<1>3. CASE opt_find_next
  <2>1. dhcp_pc' = dhcp_pc /\ at' = at + 2 + opt[at + 1] /\ at < OptMax /\ opt[at] # END /\ opt[at] # Sought
    BY <1>3 DEF opt_find_next, InOptions
  <2>2. opt[at + 1] \in Nat
    <3>1. at < OptMax
      BY <2>1
    <3>2. at + 1 \in Cells
      BY <1>0, <3>1
    <3>3. opt \in [Cells -> Byte]
      BY DEF Understood
    <3> QED BY <3>2, <3>3 DEF Byte
  <2>3. at' \in Nat /\ at' # NotFound /\ at # NotFound
    <3>1. at' \in Nat
      BY <1>0, <2>1, <2>2
    <3> QED BY <1>0, <3>1, Codes
  <2>4. Sought' = Sought
    BY <2>1 DEF Sought
  <2>5. ASSUME WellFormed(asked.bytes, asked.len, asked.starts) PROVE Passed'
    <3>1. at' \in asked.starts /\ \A q \in asked.starts : q > at => q >= at'
      BY <1>1, <2>1, <2>5, StandsOn
    <3>2. \A q \in asked.starts : q \in Nat
      BY <2>5, StartsAreNat
    <3>3. ASSUME NEW q \in asked.starts, q < at' PROVE asked.bytes[q] # Sought
      <4>1. q < at \/ q = at
        BY <1>0, <2>3, <3>1, <3>2, <3>3
      <4> QED BY <1>1, <2>1, <2>5, <4>1, StandsOn
    <3> QED BY <1>1, <2>4, <3>1, <3>3 DEF Passed
  <2>6. ASSUME WellFormed(asked.bytes, asked.len, asked.starts) PROVE Read'
    BY <1>1, <2>1, <2>3, <2>5, <2>6 DEF Read, Copied, Understood, Searching
  <2> QED BY <1>1, <2>1, <2>3, <2>6 DEF Understood, Searching
<1>4. CASE opt_find_null
  <2>1. dhcp_pc' = "ignore" /\ at' = NotFound /\ ~InOptions
    BY <1>4 DEF opt_find_null
  <2>2. IF type = NoType THEN Sought = MSG_TYPE ELSE Sought = REQUESTED_IP
    <3>1. dhcp_pc = "find type" \/ dhcp_pc = "find ip"
      BY <1>1 DEF Searching
    <3>2. CASE dhcp_pc = "find type"
      BY <3>2 DEF Understood, Sought
    <3>3. CASE dhcp_pc = "find ip"
      <4>1. type = DHCPREQUEST /\ DHCPREQUEST # NoType /\ Sought = REQUESTED_IP
        BY <3>3, Codes DEF Understood, Sought
      <4> QED BY <4>1
    <3> QED BY <3>1, <3>2, <3>3
  <2>3. ASSUME WellFormed(asked.bytes, asked.len, asked.starts)
        PROVE  \A o \in asked.starts : asked.bytes[o] # Sought
    <3>1. opt[at] = END /\ opt[at] = asked.bytes[at] /\ \A q \in asked.starts : q <= at
      BY <1>1, <2>1, <2>3, StandsOn DEF InOptions
    <3>2. \A q \in asked.starts : q \in Nat
      BY <2>3, StartsAreNat
    <3>3. ASSUME NEW q \in asked.starts PROVE asked.bytes[q] # Sought
      <4>1. q < at \/ q = at
        BY <1>0, <3>1, <3>2
      <4> QED BY <1>1, <1>2, <2>3, <3>1, <4>1, StandsOn
    <3> QED BY <3>3
  <2>4. ASSUME WellFormed(asked.bytes, asked.len, asked.starts) PROVE Read'
    BY <1>1, <2>1, <2>2, <2>3, <2>4 DEF Read, Understood, Searching
  <2> QED BY <1>1, <2>1, <2>4 DEF Understood
<1> QED BY <1>3, <1>4

LEMMA TypeUnderstood ==
  ASSUME Understood, read_type
  PROVE  Understood'
<1>1. /\ dhcp_pc = "find type" /\ at < OptMax /\ opt[at] = MSG_TYPE /\ opt[at] # END
      /\ type' = opt[at + 2] /\ dhcp_pc' = "switch" /\ UNCHANGED <<asked, opt, at, yi>>
      /\ Searching /\ Sought = MSG_TYPE
  BY DEF read_type, InOptions, Searching, Sought
<1>0. at \in Nat /\ at < OptMax /\ OptMax \in Nat /\ Cells = 0 .. OptMax + 4
  BY OptionSizes DEF read_type, InOptions, Understood
<1>2. opt[at + 2] \in Byte
  <2>1. at + 2 \in Cells
    BY <1>0
  <2> QED BY <2>1 DEF Understood
<1>3. at # NotFound
  BY <1>0, Codes
<1>4. ASSUME WellFormed(asked.bytes, asked.len, asked.starts) PROVE Read'
  <2> DEFINE b == asked.bytes
  <2>1. /\ at \in asked.starts /\ at \in 0 .. asked.len - 1 /\ b[at] = MSG_TYPE
        /\ \A q \in asked.starts : q < at => b[q] # MSG_TYPE
        /\ at + 2 + b[at + 1] \in asked.starts /\ b[at + 1] = 1
    BY <1>1, <1>4, StandsOn
  <2>2. asked.len \in Nat /\ asked.starts \subseteq 0 .. asked.len - 1
    BY <1>4, MessageFacts DEF Understood
  <2>3. Copied
    BY <1>1, <1>4 DEF Understood, Read
  <2>4. b[at + 2] = opt[at + 2]
    <3>1. at + 2 \in 0 .. asked.len - 1
      <4> DEFINE c == b[at + 1]
      <4>1. c = 1 /\ at + 2 + c \in asked.starts
        BY <2>1
      <4> HIDE DEF c
      <4> QED BY <1>0, <2>2, <4>1
    <3> QED BY <2>3, <3>1 DEF Copied
  <2>5. Says(b, asked.starts, MSG_TYPE, <<type'>>)
    <3> DEFINE d == <<type'>>
    <3>1. Len(d) = 1 /\ d[1] = type'
      OBVIOUS
    <3>2. \A k \in 1 .. 1 : b[at + 1 + k] = d[k]
      <4>1. at + 1 + 1 = at + 2 /\ \A k \in 1 .. 1 : k = 1
        BY <1>0
      <4>2. b[at + 2] = type'
        BY <1>1, <2>4
      <4> HIDE DEF d, b
      <4> QED BY <3>1, <4>1, <4>2
    <3> HIDE DEF d
    <3>3. Says(b, asked.starts, MSG_TYPE, d)
      BY <2>1, <3>1, <3>2 DEF Says
    <3> QED BY <3>3 DEF d
  <2> QED BY <1>1, <1>3, <2>3, <2>5 DEF Read, Copied, Searching
<1> QED BY <1>1, <1>2, <1>4 DEF Understood

\* What a reply leaves of the invariant to show.
LEMMA ReplyUnderstood ==
  ASSUME Understood, NEW slot \in Slots, NEW msg_type \in Byte, Replies(slot, msg_type),
         dhcp_pc \in {"switch", "find ip"},
         msg_type = IF type = DHCPDISCOVER THEN DHCPOFFER ELSE DHCPACK,
         type = DHCPREQUEST /\ WellFormed(asked.bytes, asked.len, asked.starts) =>
           Says(asked.bytes, asked.starts, REQUESTED_IP, <<ip[1], ip[2], ip[3], DHCPS_BASE_IP + slot>>)
  PROVE  Understood'
<1>1. /\ opt' = Written(opt, msg_type).bytes /\ end' = Written(opt, msg_type).end /\ yi' = slot
      /\ dhcp_pc' = "send" /\ UNCHANGED <<asked, at, type>>
  BY DEF Replies
<1>2. opt \in [Cells -> Byte] /\ at \in Nat /\ type \in Byte
  BY DEF Understood
<1>3. /\ end' = 34 /\ opt' \in [Cells -> Byte] /\ opt'[33] = END
      /\ Has(opt', 34, ReplyOptions(msg_type))
  BY <1>1, <1>2, WritesReply
<1>4. ReplyTells'
  <2>1. /\ WellFormed(opt', 34, ReplyStarts)
        /\ Says(opt', ReplyStarts, MSG_TYPE, <<msg_type>>)
        /\ Says(opt', ReplyStarts, SERVER_ID, ip) /\ Says(opt', ReplyStarts, SUBNET_MASK, nm)
        /\ Says(opt', ReplyStarts, ROUTER, ip) /\ Says(opt', ReplyStarts, DNS, ip)
        /\ Says(opt', ReplyStarts, LEASE_TIME, LeaseSeconds)
    BY <1>3, ReplyReads
  <2> QED BY <1>1, <1>3, <2>1 DEF ReplyTells, ReplyLen
<1>5. at # NotFound
  BY <1>2, Codes
<1>6. ASSUME WellFormed(asked.bytes, asked.len, asked.starts) PROVE Read'
  BY <1>1, <1>5, <1>6 DEF Understood, Read, Searching
<1> QED BY <1>1, <1>2, <1>3, <1>4, <1>6 DEF Understood

LEMMA AckUnderstood ==
  ASSUME Understood, ack
  PROVE  Understood'
<1>1. PICK slot \in Slots :
        /\ slot = (opt[at + 5] - 16) % 256 /\ \A k \in 1 .. 3 : opt[at + 1 + k] = ip[k]
        /\ Replies(slot, DHCPACK)
  BY DEF ack, Requested, DHCPS_BASE_IP
<1>0. at \in Nat /\ at < OptMax /\ OptMax \in Nat /\ Cells = 0 .. OptMax + 4 /\ slot \in 0 .. 239
  BY OptionSizes DEF ack, Asking, InOptions, Understood
<1>2. /\ dhcp_pc = "find ip" /\ opt[at] = REQUESTED_IP /\ opt[at] # END
      /\ Searching /\ Sought = REQUESTED_IP /\ type = DHCPREQUEST
  BY DEF ack, Asking, InOptions, Understood, Searching, Sought
<1>3. opt[at + 5] = 16 + slot
  <2>2. at + 5 \in Cells
    <3>1. at + 1 <= OptMax
      BY <1>0
    <3> QED BY <1>0, <3>1
  <2>3. opt[at + 5] \in Byte
    BY <2>2 DEF Understood
  <2> DEFINE x == opt[at + 5]
  <2> HIDE DEF x
  <2>4. x \in 0 .. 255 /\ slot = (x - 16) % 256 /\ slot \in 0 .. 239
    BY <1>0, <1>1, <2>3 DEF x, Byte
  <2>5. x = 16 + slot
    <3>1. CASE x >= 16
      <4>1. x - 16 \in 0 .. 255
        BY <2>4, <3>1
      <4>2. (x - 16) % 256 = x - 16
        BY <4>1
      <4> QED BY <2>4, <4>2
    <3>2. CASE x < 16
      <4>1. (x - 16) % 256 = x + 240
        BY <2>4, <3>2
      <4> QED BY <2>4, <3>2, <4>1
    <3> QED BY <2>4, <3>1, <3>2
  <2> QED BY <2>5 DEF x
<1>4. ASSUME WellFormed(asked.bytes, asked.len, asked.starts)
      PROVE  Says(asked.bytes, asked.starts, REQUESTED_IP, <<ip[1], ip[2], ip[3], 16 + slot>>)
  <2> DEFINE b == asked.bytes
             d == <<ip[1], ip[2], ip[3], 16 + slot>>
  <2>1. /\ at \in asked.starts /\ at \in 0 .. asked.len - 1 /\ b[at] = REQUESTED_IP
        /\ \A q \in asked.starts : q < at => b[q] # REQUESTED_IP
        /\ at + 2 + b[at + 1] \in asked.starts /\ b[at + 1] = 4
    BY <1>2, <1>4, StandsOn
  <2>2. asked.len \in Nat /\ asked.starts \subseteq 0 .. asked.len - 1
    BY <1>4, MessageFacts DEF Understood
  <2>3. Copied
    BY <1>2, <1>4 DEF Understood, Read
  <2>4. \A k \in 1 .. 4 : b[at + 1 + k] = opt[at + 1 + k]
    <3>1. \A k \in 1 .. 4 : at + 1 + k \in 0 .. asked.len - 1
      <4> DEFINE c == b[at + 1]
      <4>1. c = 4 /\ at + 2 + c \in asked.starts
        BY <2>1
      <4> HIDE DEF c
      <4>2. at + 6 <= asked.len - 1
        BY <1>0, <2>2, <4>1
      <4> QED BY <1>0, <2>2, <4>2
    <3> QED BY <2>3, <3>1 DEF Copied
  <2>5. Len(d) = 4 /\ d[1] = ip[1] /\ d[2] = ip[2] /\ d[3] = ip[3] /\ d[4] = 16 + slot
    OBVIOUS
  <2> HIDE DEF d
  <2>6. ASSUME NEW k \in 1 .. 4 PROVE b[at + 1 + k] = d[k]
    <3>1. CASE k \in 1 .. 3
      <4>1. d[k] = ip[k]
        <5>1. k = 1 \/ k = 2 \/ k = 3
          BY <3>1
        <5> QED BY <2>5, <5>1
      <4> QED BY <1>1, <2>4, <3>1, <4>1
    <3>2. CASE k = 4
      <4>1. at + 1 + k = at + 5
        BY <1>0, <3>2
      <4> QED BY <1>3, <2>4, <2>5, <3>2, <4>1
    <3> QED BY <3>1, <3>2
  <2>7. Says(b, asked.starts, REQUESTED_IP, d)
    BY <2>1, <2>5, <2>6 DEF Says
  <2> QED BY <2>7 DEF d
<1>5. DHCPACK \in Byte /\ DHCPACK = IF type = DHCPDISCOVER THEN DHCPOFFER ELSE DHCPACK
  <2>1. type # DHCPDISCOVER /\ DHCPACK \in Byte
    BY <1>2, Codes
  <2> QED BY <2>1
<1> QED BY <1>1, <1>2, <1>4, <1>5, ReplyUnderstood DEF DHCPS_BASE_IP

LEMMA UnderstoodStep == Understood /\ [Next]_vars => Understood'
<1> SUFFICES ASSUME Understood, [Next]_vars PROVE Understood'
  OBVIOUS
<1>1. ASSUME UNCHANGED dhcpLocals PROVE Understood'
  <2>1. UNCHANGED <<dhcp_pc, asked, opt, at, type, yi, end>>
    BY <1>1 DEF dhcpLocals
  <2> QED BY <2>1 DEF Understood, Read, Copied, Passed, Searching, Sought, ReplyTells
<1>2. CASE DhcpCall
  <2>1. dhcp_server_process
    BY <1>2 DEF DhcpCall
  <2>2. CASE dhcp_message
    BY <2>2, MessageUnderstood
  <2>3. CASE opt_find_next \/ opt_find_null
    BY <2>3, SearchUnderstood
  <2>4. CASE read_type
    BY <2>4, TypeUnderstood
  <2>5. CASE offer
    <3>1. PICK slot \in Slots : Replies(slot, DHCPOFFER)
      BY <2>5 DEF offer
    <3>2. /\ type = DHCPDISCOVER /\ dhcp_pc = "switch" /\ DHCPOFFER \in Byte /\ type # DHCPREQUEST
      BY <2>5 DEF offer, DHCPOFFER, DHCPDISCOVER, DHCPREQUEST, Byte
    <3> QED BY <3>1, <3>2, ReplyUnderstood
  <2>6. CASE request
    <3>1. /\ dhcp_pc = "switch" /\ type = DHCPREQUEST /\ at' = 0 /\ dhcp_pc' = "find ip"
          /\ UNCHANGED <<asked, opt, type, yi, end>>
      BY <2>6 DEF request
    <3>2. ASSUME WellFormed(asked.bytes, asked.len, asked.starts) PROVE Read'
      <4>1. 0 \in asked.starts /\ \A q \in asked.starts : ~(q < 0)
        BY <3>2, StartsAreNat DEF WellFormed
      <4>2. Passed' /\ at' # NotFound
        BY <3>1, <4>1, Codes DEF Passed
      <4>3. Copied'
        BY <3>1, <3>2 DEF Understood, Read, Copied
      <4> QED BY <3>1, <3>2, <4>2, <4>3 DEF Understood, Read
    <3> QED BY <3>1, <3>2 DEF Understood
  <2>7. CASE ack
    BY <2>7, AckUnderstood
  <2>8. CASE no_reply \/ dhcp_socket_sendto
    <3>1. dhcp_pc \in {"switch", "find ip", "send"} /\ dhcp_pc' = "ignore" /\ UNCHANGED <<asked, opt, at, type, yi, end>>
      BY <2>8 DEF no_reply, dhcp_socket_sendto, Asking
    <3>2. Read => Read'
      BY <3>1 DEF Read, Searching
    <3> QED BY <3>1, <3>2 DEF Understood
  <2>9. CASE ignore_request
    BY <2>9, ForgetUnderstood DEF ignore_request
  <2> QED
    BY <2>1, <2>2, <2>3, <2>4, <2>5, <2>6, <2>7, <2>8, <2>9 DEF dhcp_server_process
<1>3. CASE Reboot
  BY <1>3, ForgetUnderstood DEF Reboot
<1>4. [Next]_vars => DhcpCall \/ Reboot \/ UNCHANGED dhcpLocals
  BY DEF Next, Starts, Stops, dhcp_server_init, dns_server_init, http_server_open,
     http_server_fails, repl_returns, dns_server_deinit, dhcp_server_deinit, arch_deinit,
     DnsCall, HttpCall, vars, dhcpVars, dhcp_set_fields, dhcp_socket_new, dhcp_socket_bind,
     dhcp_socket_free
<1> QED
  BY <1>1, <1>2, <1>3, <1>4

\* Whatever a client sends and whatever the stack held: a reply of the DHCP
\* server is complete, and to a message that is well formed it answers what
\* was asked, in whatever order the options came (dhcp_server_process).
THEOREM RequestsAreAnswered == Spec => []ReplyAnswersRequest
<1>1. Init => Understood
  <2>1. ASSUME Init PROVE ~WellFormed(asked.bytes, asked.len, asked.starts)
    <3>1. Nothing.starts = {}
      BY DEF Nothing
    <3> QED BY <2>1, <3>1 DEF Init, DhcpInit, WellFormed
  <2>2. Zeroes \in [Cells -> Byte]
    BY DEF Zeroes, Byte
  <2>3. Init => at = 0 /\ 0 \in Nat
    BY Codes DEF Init, DhcpInit
  <2> QED BY <2>1, <2>2, <2>3 DEF Init, DhcpInit, Understood
<1>2. Understood => ReplyAnswersRequest
  BY DEF Understood, Read, ReplyAnswersRequest
<1> QED
  BY <1>1, <1>2, UnderstoodStep, PTL DEF Spec
=============================================================================
