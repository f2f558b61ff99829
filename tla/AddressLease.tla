---------------------------- MODULE AddressLease -----------------------------
(***************************************************************************)
(* What a DHCP server promises of the addresses it leases: a client begins *)
(* to use an address only when nobody else does.                           *)
(***************************************************************************)
CONSTANTS Clients, Slots

VARIABLE holders   \* the clients that use each address

Init == holders = [s \in Slots |-> {}]

\* A client starts to use an address nobody uses, and stops using any other.
Acquire(m, s) ==
  /\ holders[s] = {}
  /\ holders' = [t \in Slots |-> IF t = s THEN {m} ELSE holders[t] \ {m}]

\* Any number of leases end at once.
Release ==
  \E gone \in SUBSET Clients : holders' = [s \in Slots |-> holders[s] \ gone]

Next == Release \/ \E m \in Clients, s \in Slots : Acquire(m, s)

Spec == Init /\ [][Next]_holders
=============================================================================
