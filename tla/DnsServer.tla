------------------------------ MODULE DnsServer ------------------------------
(***************************************************************************)
(* dnsserver/dnsserver.c: every question is answered with the server's own *)
(* address, written into the query behind the first question.              *)
(*                                                                         *)
(* A byte of the query is read at most once: what it is, is chosen then.   *)
(* Queries that are ignored for their header (too short, no query, not a   *)
(* standard one, no question) change nothing and are left out.             *)
(***************************************************************************)
EXTENDS Integers

CONSTANTS
  Header,     \* sizeof(dns_header_t): 12
  MaxLabel,   \* the longest label: 63
  MaxName,    \* the longest name, with its labels' lengths: 255
  Answer,     \* bytes of the answer record: 16
  MsgMax      \* MAX_DNS_MSG_SIZE: 300

\* Behind the name, QTYPE and QCLASS.
TypeAndClass == 4

ASSUME SizesAssumption ==
  /\ {Header, MaxLabel, MaxName, Answer, MsgMax} \subseteq Nat
  /\ Header + MaxName + TypeAndClass + Answer <= MsgMax

VARIABLES
  dns_udp,        \* d->udp: none, new or bound
  dns_ip,         \* d->ip has been set
  dns_pc,         \* where dns_server_process is
  msg_len,        \* bytes of the query in dns_msg
  question_ptr,   \* offset in dns_msg
  named,          \* history: the name ended with an empty label
  answer_ptr      \* offset of the end of the answer

dnsLocals == <<dns_pc, msg_len, question_ptr, named, answer_ptr>>
dnsVars   == <<dns_udp, dns_ip, dnsLocals>>

dns_forget ==
  dns_pc' = "idle" /\ msg_len' = 0 /\ question_ptr' = 0 /\ named' = FALSE /\ answer_ptr' = 0

DnsInit ==
  /\ dns_udp = "none" /\ dns_ip = FALSE
  /\ dns_pc = "idle" /\ msg_len = 0 /\ question_ptr = 0 /\ named = FALSE /\ answer_ptr = 0

-----------------------------------------------------------------------------
(* dns_server_init and dns_server_deinit *)

\* There may be no pcb left: dns_server_init returns.
dns_socket_new == dns_udp' \in {"new", "none"} /\ UNCHANGED <<dns_ip, dnsLocals>>

\* The port may be taken; then, too.
dns_socket_bind == dns_udp' \in {"bound", "new"} /\ UNCHANGED <<dns_ip, dnsLocals>>

dns_set_ip == dns_ip' = TRUE /\ UNCHANGED <<dns_udp, dnsLocals>>

dns_socket_free == dns_udp' = "none" /\ UNCHANGED <<dns_ip, dnsLocals>>

-----------------------------------------------------------------------------
(* dns_server_process *)

KeepServer == UNCHANGED <<dns_udp, dns_ip>>

\* pbuf_copy_partial copies what fits.
dns_query(len) ==
  /\ dns_udp = "bound" /\ dns_pc = "idle"
  /\ msg_len' = IF len < MsgMax THEN len ELSE MsgMax
  /\ msg_len' >= Header
  /\ question_ptr' = Header
  /\ dns_pc' = "scan"
  /\ KeepServer /\ UNCHANGED <<named, answer_ptr>>

InQuery == dns_pc = "scan" /\ question_ptr < msg_len

\* A label may reach over the end of the query.
scan_label(label_len) ==
  /\ InQuery
  /\ question_ptr' = question_ptr + 1 + label_len
  /\ KeepServer /\ UNCHANGED <<dns_pc, msg_len, named, answer_ptr>>

scan_invalid == InQuery /\ dns_forget /\ KeepServer

scan_end ==
  /\ InQuery
  /\ question_ptr' = question_ptr + 1
  /\ named' = TRUE
  /\ dns_pc' = "check"
  /\ KeepServer /\ UNCHANGED <<msg_len, answer_ptr>>

\* The query ends before the name does.
scan_over ==
  /\ dns_pc = "scan" /\ question_ptr >= msg_len
  /\ dns_pc' = "check"
  /\ KeepServer /\ UNCHANGED <<msg_len, question_ptr, named, answer_ptr>>

\* Mutant: the length of a name is not checked.
AnyName == TRUE

NameFits == question_ptr - Header <= MaxName

name_too_long == dns_pc = "check" /\ ~NameFits /\ dns_forget /\ KeepServer

\* The answer record is written behind the question.
dns_answer ==
  /\ dns_pc = "check" /\ NameFits
  /\ question_ptr' = question_ptr + TypeAndClass
  /\ answer_ptr' = question_ptr' + Answer
  /\ dns_pc' = "send"
  /\ KeepServer /\ UNCHANGED <<msg_len, named>>

\* Sent, or not for want of a pbuf.
dns_socket_sendto == dns_pc = "send" /\ dns_forget /\ KeepServer

dns_server_process ==
  \/ \E len \in 0 .. MsgMax + MaxLabel : dns_query(len)
  \/ \E label_len \in 1 .. MaxLabel : scan_label(label_len)
  \/ scan_invalid \/ scan_end \/ scan_over
  \/ name_too_long \/ dns_answer \/ dns_socket_sendto
-----------------------------------------------------------------------------
DnsTypeOK ==
  /\ dns_udp \in {"none", "new", "bound"}
  /\ dns_ip \in BOOLEAN
  /\ dns_pc \in {"idle", "scan", "check", "send"}
  /\ msg_len \in 0 .. MsgMax
  /\ question_ptr \in Nat
  /\ named \in BOOLEAN
  /\ answer_ptr \in Nat

\* The answer is written inside dns_msg, although the scan of the name may end
\* up to a label behind the query, and the query may fill the message; and
\* what it follows is the whole question, if the query held one.
AnswerFits ==
  dns_pc = "send" =>
    /\ answer_ptr <= MsgMax
    /\ named => answer_ptr - Answer - TypeAndClass <= msg_len
=============================================================================
