----------------------------- MODULE DhcpNetwork -----------------------------
(***************************************************************************)
(* The clients of dhcpserver.c and the datagrams between them and it.      *)
(*                                                                         *)
(* Datagrams are lost, delivered twice and delivered in any order; a client*)
(* may repeat any of its messages.  The server answers in the callback that*)
(* receives the message, and reserves nothing when it makes an offer.      *)
(*                                                                         *)
(* The clients are not in the repository: a client asks for the address it *)
(* was offered or had before, and gives up its address when the lease time *)
(* it was told has run out, counted from the moment the server sent it.    *)
(***************************************************************************)
EXTENDS DhcpServer, FiniteSets

CONSTANT MaxNet   \* datagrams in flight at once

ASSUME MaxNetAssumption == MaxNet \in Nat

VARIABLES
  net,    \* the datagrams in flight
  known,  \* client: the addresses it may ask for (at most one)
  held,   \* client: the addresses it uses (at most one)
  left    \* client: how long it may go on using it

clientVars == <<known, held, left>>
vars == <<serverVars, net, clientVars>>

Discovers == [type : {"DISCOVER"}, mac : Macs]
Requests  == [type : {"REQUEST"}, mac : Macs, slot : Slots]
Offers    == [type : {"OFFER"}, mac : Macs, slot : Slots]
Acks      == [type : {"ACK"}, mac : Macs, slot : Slots, left : 0 .. LeaseTime]
Datagrams == Discovers \cup Requests \cup Offers \cup Acks

Init ==
  /\ ServerInit
  /\ net = {}
  /\ known = [m \in Macs |-> {}]
  /\ held = [m \in Macs |-> {}]
  /\ left = [m \in Macs |-> 0]

\* A datagram leaves for the air, or is lost (pbuf_alloc or sendto failed).
Send(d) ==
  \/ net' = net \cup {d} /\ Cardinality(net') <= MaxNet
  \/ net' = net

\* A datagram stays in flight after its delivery: it may come again.
Lose(d) == net' = net \ {d} /\ UNCHANGED <<serverVars, clientVars>>

SendDiscover(m) ==
  /\ held[m] = {}
  /\ Send([type |-> "DISCOVER", mac |-> m])
  /\ UNCHANGED <<serverVars, clientVars>>

\* After an offer, as a retry, to renew, or after the client's own restart.
SendRequest(m) ==
  /\ \E s \in known[m] : Send([type |-> "REQUEST", mac |-> m, slot |-> s])
  /\ UNCHANGED <<serverVars, clientVars>>

(* dhcp_server_process *)

RecvDiscover(d) ==
  /\ d \in Discovers
  /\ Discover(d.mac)
  /\ \/ \E s \in OfferTo(d.mac) : Send([type |-> "OFFER", mac |-> d.mac, slot |-> s])
     \/ Refuses(d.mac) /\ UNCHANGED net
  /\ UNCHANGED clientVars

RecvRequest(d) ==
  /\ d \in Requests
  /\ Grant(d.mac, d.slot)
  /\ Send([type |-> "ACK", mac |-> d.mac, slot |-> d.slot, left |-> LeaseTime])
  /\ UNCHANGED clientVars

(* The clients *)

RecvOffer(d) ==
  /\ d \in Offers
  /\ held[d.mac] = {}
  /\ known' = [known EXCEPT ![d.mac] = {d.slot}]
  /\ UNCHANGED <<serverVars, net, held, left>>

RecvAck(d) ==
  /\ d \in Acks
  /\ d.slot \in known[d.mac]
  /\ d.left > 0
  /\ held' = [held EXCEPT ![d.mac] = {d.slot}]
  /\ left' = [left EXCEPT ![d.mac] = d.left]
  /\ UNCHANGED <<serverVars, net, known>>

\* An acknowledgement on its way grows old; one that is worth nothing is gone.
Aged(d) == IF d \in Acks THEN [d EXCEPT !.left = d.left - 1] ELSE d
Worn(d) == d \in Acks /\ d.left <= 1

Tick ==
  /\ PassTime
  /\ net' = {Aged(d) : d \in {e \in net : ~Worn(e)}}
  /\ left' = [m \in Macs |-> IF left[m] > 0 THEN left[m] - 1 ELSE 0]
  /\ held' = [m \in Macs |-> IF left[m] > 1 THEN held[m] ELSE {}]
  /\ UNCHANGED known

Step ==
  \/ \E m \in Macs : SendDiscover(m) \/ SendRequest(m)
  \/ \E d \in net : Lose(d) \/ RecvDiscover(d) \/ RecvRequest(d) \/ RecvOffer(d) \/ RecvAck(d)
  \/ Tick

Spec == Init /\ [][Step]_vars

\* dhcp_server_init after a reboot: the table is empty and the clock starts
\* again, while the clients go on.
Restart ==
  /\ ticks' = 0
  /\ mac' = [s \in Slots |-> NoMac]
  /\ expiry' = [s \in Slots |-> 0]
  /\ age' = [s \in Slots |-> Over]
  /\ UNCHANGED <<net, clientVars>>

RestartSpec == Init /\ [][Step \/ Restart]_vars
-----------------------------------------------------------------------------
TypeOK ==
  /\ ServerTypeOK
  /\ net \subseteq Datagrams
  /\ known \in [Macs -> SUBSET Slots]
  /\ held \in [Macs -> SUBSET Slots]
  /\ left \in [Macs -> 0 .. LeaseTime]

\* What a client holds, or is about to, is recorded as its own, and it will
\* have stopped using it when the server's lease ends.
HoldersRecorded ==
  \A m \in Macs : \A s \in held[m] :
    mac[s] = m /\ 0 < left[m] /\ left[m] + age[s] <= LeaseTime

AcksRecorded ==
  \A d \in net \cap Acks :
    d.left > 0 => mac[d.slot] = d.mac /\ d.left + age[d.slot] <= LeaseTime

\* No address is in use by two clients, whatever becomes of the datagrams.
OneHolder ==
  \A m, n \in Macs : m # n => held[m] \cap held[n] = {}
-----------------------------------------------------------------------------
(* The promise: addresses are handed out like locks. *)

Holders == [s \in Slots |-> {m \in Macs : s \in held[m]}]

AddressLease == INSTANCE AddressLease WITH Clients <- Macs, holders <- Holders

Promise == AddressLease!Spec
=============================================================================
