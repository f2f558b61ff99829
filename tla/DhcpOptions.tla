----------------------------- MODULE DhcpOptions -----------------------------
(***************************************************************************)
(* dhcpserver/dhcpserver.c: how dhcp_server_process reads the options of a *)
(* message and writes those of its reply over them.                        *)
(*                                                                         *)
(* A message is its bytes, and the offsets at which the client that wrote  *)
(* it put its options.  Whether the table of leases has a slot is          *)
(* DhcpServer's part: here either may happen.  Messages too short to hold  *)
(* a type are left out.                                                    *)
(* Behind a message, dhcp_msg holds what the stack held.                   *)
(***************************************************************************)
EXTENDS Integers, Sequences

CONSTANTS
  OptMax,     \* bytes of dhcp_msg.options behind the magic cookie: 308
  Messages,   \* what clients send behind the cookie
  Stacks,     \* what dhcp_msg.options, and the bytes behind it, may hold at first
  Slots       \* 0 .. DHCPS_MAX_IP - 1

DHCPDISCOVER == 1
DHCPOFFER    == 2
DHCPREQUEST  == 3
DHCPACK      == 5

PAD          == 0
SUBNET_MASK  == 1
ROUTER       == 3
DNS          == 6
REQUESTED_IP == 50
LEASE_TIME   == 51
MSG_TYPE     == 53
SERVER_ID    == 54
END          == 255

DHCPS_BASE_IP == 16

ip == <<192, 168, 4, 1>>
nm == <<255, 255, 255, 0>>

\* DEFAULT_LEASE_TIME_S, as opt_write_u32 writes it.
LeaseSeconds == <<0, 1, 81, 128>>

Byte == 0 .. 255

\* The last option that opt_find looks at begins at OptMax - 1, and what is
\* read of it is opt[0] to opt[5].
Cells == 0 .. OptMax + 4

\* The options of a reply: a type, five times four bytes, and END.
ReplyLen == 34

ASSUME OptionsAssumption ==
  /\ OptMax \in Nat /\ ReplyLen <= OptMax
  /\ Stacks \subseteq [Cells -> Byte]
  /\ Slots \subseteq 0 .. 255 - DHCPS_BASE_IP
  /\ \A m \in Messages :
       m.len \in Nat /\ m.bytes \in [0 .. m.len - 1 -> Byte] /\ m.starts \subseteq Nat

VARIABLES
  dhcp_udp,   \* d->udp: none, new or bound
  dhcp_set,   \* d->ip and d->nm have been set
  dhcp_pc,    \* where dhcp_server_process is
  asked,      \* history: the message the client sent
  opt,        \* the bytes of dhcp_msg.options behind the cookie
  at,         \* i of opt_find
  type,       \* msgtype[2]
  yi,         \* the slot of the reply
  end         \* how many bytes of opt are sent

dhcpLocals == <<dhcp_pc, asked, opt, at, type, yi, end>>
dhcpVars   == <<dhcp_udp, dhcp_set, dhcpLocals>>

Zeroes == [i \in Cells |-> 0]

Nothing == [len |-> 0, bytes |-> <<>>, starts |-> {}]

NotFound == -1
NoType   == -1
NoSlot   == -1

dhcp_forget ==
  /\ dhcp_pc' = "idle" /\ asked' = Nothing /\ opt' = Zeroes
  /\ at' = 0 /\ type' = NoType /\ yi' = NoSlot /\ end' = 0

DhcpInit ==
  /\ dhcp_udp = "none" /\ dhcp_set = FALSE
  /\ dhcp_pc = "idle" /\ asked = Nothing /\ opt = Zeroes
  /\ at = 0 /\ type = NoType /\ yi = NoSlot /\ end = 0

-----------------------------------------------------------------------------
(* Options *)

\* pbuf_copy_partial: new bytes are copied over old ones.
Over(message, old) ==
  [i \in Cells |-> IF i < message.len /\ i < OptMax THEN message.bytes[i] ELSE old[i]]

\* opt_write_n, opt_write_u8 and opt_write_u32: a code, the length, the data;
\* *opt, here out.end, moves on.
opt_byte(out, cmd, data, i) ==
  CASE i = out.end     -> cmd
    [] i = out.end + 1 -> Len(data)
    [] i \in out.end + 2 .. out.end + 1 + Len(data) -> data[i - out.end - 1]
    [] OTHER           -> out.bytes[i]

opt_write(out, cmd, data) ==
  [bytes |-> [i \in Cells |-> opt_byte(out, cmd, data, i)], end |-> out.end + 2 + Len(data)]

\* The reply, written over what the message left.
Written(bytes, msg_type) ==
  LET out1 == opt_write([bytes |-> bytes, end |-> 0], MSG_TYPE, <<msg_type>>)
      out2 == opt_write(out1, SERVER_ID, ip)
      out3 == opt_write(out2, SUBNET_MASK, nm)
      out4 == opt_write(out3, ROUTER, ip)
      out5 == opt_write(out4, DNS, ip)
      out6 == opt_write(out5, LEASE_TIME, LeaseSeconds)
  IN  [bytes |-> [out6.bytes EXCEPT ![out6.end] = END], end |-> out6.end + 1]

-----------------------------------------------------------------------------
(* dhcp_server_init and dhcp_server_deinit *)

dhcp_set_fields == dhcp_set' = TRUE /\ UNCHANGED <<dhcp_udp, dhcpLocals>>

dhcp_socket_new == dhcp_udp' \in {"new", "none"} /\ UNCHANGED <<dhcp_set, dhcpLocals>>

dhcp_socket_bind == dhcp_udp' \in {"bound", "new"} /\ UNCHANGED <<dhcp_set, dhcpLocals>>

dhcp_socket_free == dhcp_udp' = "none" /\ UNCHANGED <<dhcp_set, dhcpLocals>>

-----------------------------------------------------------------------------
(* dhcp_server_process *)

KeepDhcp == UNCHANGED <<dhcp_udp, dhcp_set>>

dhcp_message ==
  /\ dhcp_udp = "bound" /\ dhcp_pc = "idle"
  /\ \E message \in Messages, old \in Stacks : asked' = message /\ opt' = Over(message, old)
  /\ dhcp_pc' = "find type"
  /\ KeepDhcp /\ UNCHANGED <<at, type, yi, end>>

\* The option that is searched for.
Sought == IF dhcp_pc = "find type" THEN MSG_TYPE ELSE REQUESTED_IP

Searching == dhcp_pc \in {"find type", "find ip"}

\* The condition of opt_find's loop.
InOptions == at < OptMax /\ opt[at] # END

\* Mutant: the length is taken to count itself.
SkipsLess ==
  /\ Searching /\ InOptions /\ opt[at] # Sought
  /\ at' = at + 1 + opt[at + 1]
  /\ KeepDhcp /\ UNCHANGED <<dhcp_pc, asked, opt, type, yi, end>>

\* Every option is taken to have a length, PAD too.
opt_find_next ==
  /\ Searching /\ InOptions /\ opt[at] # Sought
  /\ at' = at + 2 + opt[at + 1]
  /\ KeepDhcp /\ UNCHANGED <<dhcp_pc, asked, opt, type, yi, end>>

\* "A DHCP package without MSG_TYPE?", or a REQUEST without an address
opt_find_null ==
  /\ Searching /\ ~InOptions
  /\ at' = NotFound
  /\ dhcp_pc' = "ignore"
  /\ KeepDhcp /\ UNCHANGED <<asked, opt, type, yi, end>>

read_type ==
  /\ dhcp_pc = "find type" /\ InOptions /\ opt[at] = MSG_TYPE
  /\ type' = opt[at + 2]
  /\ dhcp_pc' = "switch"
  /\ KeepDhcp /\ UNCHANGED <<asked, opt, at, yi, end>>

Replies(slot, msg_type) ==
  /\ yi' = slot
  /\ \E out \in {Written(opt, msg_type)} : opt' = out.bytes /\ end' = out.end
  /\ dhcp_pc' = "send"
  /\ KeepDhcp /\ UNCHANGED <<asked, at, type>>

\* To the slot that the table gives.
offer == dhcp_pc = "switch" /\ type = DHCPDISCOVER /\ \E slot \in Slots : Replies(slot, DHCPOFFER)

request ==
  /\ dhcp_pc = "switch" /\ type = DHCPREQUEST
  /\ at' = 0
  /\ dhcp_pc' = "find ip"
  /\ KeepDhcp /\ UNCHANGED <<asked, opt, type, yi, end>>

\* The slot of the address asked for, if that is one of ours.
Requested ==
  {s \in Slots : s = (opt[at + 5] - DHCPS_BASE_IP) % 256 /\ \A k \in 1 .. 3 : opt[at + 1 + k] = ip[k]}

Asking == dhcp_pc = "find ip" /\ InOptions /\ opt[at] = REQUESTED_IP

ack == Asking /\ \E slot \in Requested : Replies(slot, DHCPACK)

\* No slot or another type; not one of ours, or somebody's ("Should be NACK").
no_reply ==
  /\ (dhcp_pc = "switch" /\ type # DHCPREQUEST) \/ Asking
  /\ dhcp_pc' = "ignore"
  /\ KeepDhcp /\ UNCHANGED <<asked, opt, at, type, yi, end>>

dhcp_socket_sendto ==
  /\ dhcp_pc = "send"
  /\ dhcp_pc' = "ignore"
  /\ KeepDhcp /\ UNCHANGED <<asked, opt, at, type, yi, end>>

\* pbuf_free, and the handler returns.
ignore_request == dhcp_pc = "ignore" /\ dhcp_forget /\ KeepDhcp

dhcp_server_process ==
  \/ dhcp_message \/ opt_find_next \/ opt_find_null \/ read_type
  \/ offer \/ request \/ ack \/ no_reply \/ dhcp_socket_sendto \/ ignore_request
-----------------------------------------------------------------------------
(* What the two sides should understand, by the offsets of the options. *)

\* The first len bytes are a list of options that begin at starts, as RFC 2132
\* has it, but without PAD, which opt_find does not know.
WellFormed(bytes, len, starts) ==
  /\ len <= OptMax /\ starts \subseteq 0 .. len - 1 /\ 0 \in starts
  /\ \A o \in starts :
       LET next == o + 2 + bytes[o + 1]
       IN  \/ bytes[o] = END /\ \A q \in starts : q <= o
           \/ /\ bytes[o] \notin {PAD, END} /\ o + 1 < len
              /\ next \in starts /\ \A q \in starts : q > o => q >= next
              /\ bytes[o] = MSG_TYPE     => bytes[o + 1] = 1
              /\ bytes[o] = REQUESTED_IP => bytes[o + 1] = 4

\* The first option with this code has this data.
Says(bytes, starts, code, data) ==
  \E o \in starts :
    /\ bytes[o] = code /\ \A q \in starts : q < o => bytes[q] # code
    /\ bytes[o + 1] = Len(data) /\ \A k \in 1 .. Len(data) : bytes[o + 1 + k] = data[k]

\* Where a client finds the options of a reply, one behind the other.
ReplyStarts == {0, 3, 9, 15, 21, 27, 33}

ReplyTells ==
  /\ end = ReplyLen /\ WellFormed(opt, end, ReplyStarts)
  /\ Says(opt, ReplyStarts, MSG_TYPE, <<IF type = DHCPDISCOVER THEN DHCPOFFER ELSE DHCPACK>>)
  /\ Says(opt, ReplyStarts, SERVER_ID, ip) /\ Says(opt, ReplyStarts, SUBNET_MASK, nm)
  /\ Says(opt, ReplyStarts, ROUTER, ip)    /\ Says(opt, ReplyStarts, DNS, ip)
  /\ Says(opt, ReplyStarts, LEASE_TIME, LeaseSeconds)

\* The reply is complete and tells what the server knows; and to a well-formed
\* message it answers the type that was sent, wherever that stands among the
\* options, and grants the address that was asked for, although it is written
\* over the request and over what the stack held.  An option is missed only if
\* it is not there.
ReplyAnswersRequest ==
  /\ dhcp_pc = "send" => ReplyTells
  /\ WellFormed(asked.bytes, asked.len, asked.starts) =>
       /\ type # NoType => Says(asked.bytes, asked.starts, MSG_TYPE, <<type>>)
       /\ at = NotFound =>
            \A o \in asked.starts :
              asked.bytes[o] # (IF type = NoType THEN MSG_TYPE ELSE REQUESTED_IP)
       /\ dhcp_pc = "send" /\ type = DHCPREQUEST =>
            Says(asked.bytes, asked.starts, REQUESTED_IP, <<ip[1], ip[2], ip[3], DHCPS_BASE_IP + yi>>)
=============================================================================
