----------------------------- MODULE DhcpServer ------------------------------
(***************************************************************************)
(* dhcpserver/dhcpserver.c: the table of leases and the 32-bit millisecond *)
(* clock it is kept by.                                                    *)
(*                                                                         *)
(* A lease stores the high half of the clock value at which it ends, so it *)
(* is rounded up to a whole granule, and is compared with the clock by the *)
(* sign of a wrapped difference.  In the code the clock has 2^32 values, a *)
(* granule is 2^16 of them and a lease 86 400 000.                         *)
(*                                                                         *)
(* Requests the handler ignores before it looks at the table (short frames,*)
(* no message type, no requested address or one of another network) change *)
(* nothing and are left out.                                               *)
(***************************************************************************)
EXTENDS Integers, FiniteSetsExt

CONSTANTS
  Macs,      \* the clients' hardware addresses
  NoMac,     \* 00:00:00:00:00:00, the mark of a free slot
  Slots,     \* 0 .. DHCPS_MAX_IP - 1
  Granule,   \* milliseconds in one step of the stored expiry
  Granules,  \* values of the stored expiry
  LeaseTime  \* DEFAULT_LEASE_TIME_S, in milliseconds

TickMod == Granules * Granule

ASSUME SlotsAssumption == Slots \in SUBSET Nat /\ NoMac \notin Macs

ASSUME ClockAssumption ==
  /\ Granule \in Nat \ {0}
  /\ Granules \in Nat \ {0}
  /\ LeaseTime \in Nat \ {0}
  /\ 2 * (LeaseTime + Granule) <= TickMod

VARIABLES
  ticks,   \* cyw43_hal_ticks_ms()
  mac,     \* lease[i].mac
  expiry,  \* lease[i].expiry
  age      \* history: time since the slot was last granted, while that matters

serverVars == <<ticks, mac, expiry, age>>

\* From this age on a lease is over, whatever the rounding.
Over == LeaseTime + Granule

ServerInit ==
  /\ ticks = 0
  /\ mac = [s \in Slots |-> NoMac]
  /\ expiry = [s \in Slots |-> 0]
  /\ age = [s \in Slots |-> Over]

-----------------------------------------------------------------------------
(* The clock *)

Wrapped(t) == IF t >= TickMod THEN t - TickMod ELSE t

\* Mutant: the end is not cut to 16 bits.
ExpiryUncut(now) == (now + LeaseTime) \div Granule

\* (now + DEFAULT_LEASE_TIME_S * 1000) >> 16
ExpiryFor(now) == Wrapped(now + LeaseTime) \div Granule

\* Mutant: expiry << 16 without the low bits, rounded down.
EndOfDown(e) == e * Granule

\* The last tick of the granule: expiry << 16 | 0xffff
EndOf(e) == e * Granule + Granule - 1

\* The unsigned difference of two clock values.
Diff(a, b) == IF a >= b THEN a - b ELSE a - b + TickMod

\* Read as a signed number, the difference is negative.
Negative(d) == 2 * d >= TickMod

\* Mutant: the two clock values compared as they are.
ExpiredUnsigned(s) == EndOf(expiry[s]) < ticks

Expired(s) == Negative(Diff(EndOf(expiry[s]), ticks))

-----------------------------------------------------------------------------
(* DHCPDISCOVER: the loop over the slots *)

Matching(m)  == {s \in Slots : mac[s] = m}
Available    == {s \in Slots : mac[s] = NoMac \/ Expired(s)}

\* The slots the loop gives up waiting for a match at: the first available
\* one, unless a match comes before it.
Fallback(m) ==
  LET first == {s \in Available : \A t \in Available : s <= t}
  IN  {s \in first : \A t \in Matching(m) : s < t}

\* The slot to offer: a match anywhere, else the fallback, else none.
OfferTo(m) ==
  LET match == {s \in Matching(m) : \A t \in Matching(m) : s <= t}
  IN  IF match # {} THEN match ELSE Fallback(m)

\* Mutant: the slot offered is wiped, a match too.
DiscoverWipesOffer(m) ==
  /\ mac' = [s \in Slots |-> IF s \in OfferTo(m) THEN NoMac ELSE mac[s]]
  /\ UNCHANGED <<ticks, expiry, age>>

\* A fallback that was reached by expiry is wiped, even if a match follows.
Discover(m) ==
  /\ mac' = [s \in Slots |-> IF s \in Fallback(m) THEN NoMac ELSE mac[s]]
  /\ UNCHANGED <<ticks, expiry, age>>

\* "No more IP addresses left"
Refuses(m) == OfferTo(m) = {}

(* DHCPREQUEST *)

\* Mutant: a requested slot is not looked up.
GrantsAny(m, s) == s \in Slots /\ m \in Macs

Grants(m, s) == mac[s] \in {m, NoMac}

Grant(m, s) ==
  /\ Grants(m, s)
  /\ mac' = [mac EXCEPT ![s] = m]
  /\ expiry' = [expiry EXCEPT ![s] = ExpiryFor(ticks)]
  /\ age' = [age EXCEPT ![s] = 0]
  /\ UNCHANGED ticks

PassTime ==
  /\ ticks' = Wrapped(ticks + 1)
  /\ age' = [s \in Slots |-> IF age[s] < Over THEN age[s] + 1 ELSE Over]
  /\ UNCHANGED <<mac, expiry>>

-----------------------------------------------------------------------------
(* The server by itself: any client may ask anything at any time. *)

ServerNext ==
  \/ \E m \in Macs : Discover(m)
  \/ \E m \in Macs, s \in Slots : Grant(m, s)
  \/ PassTime

ServerSpec == ServerInit /\ [][ServerNext]_serverVars
-----------------------------------------------------------------------------
ServerTypeOK ==
  /\ ticks \in 0 .. TickMod - 1
  /\ mac \in [Slots -> Macs \cup {NoMac}]
  /\ expiry \in [Slots -> 0 .. Granules - 1]
  /\ age \in [Slots -> 0 .. Over]

\* The wrapped clock never makes a lease end early: while the lease time has
\* not passed since the grant, the slot does not look expired.
LiveLooksLive == \A s \in Slots : age[s] <= LeaseTime => ~Expired(s)

\* What a client was granted stays its own for the whole lease time: no
\* DISCOVER wipes the slot and no REQUEST of another client takes it.
NoEviction ==
  [][\A s \in Slots : mac[s] # NoMac /\ age[s] <= LeaseTime => mac'[s] = mac[s]]_serverVars

\* "No more IP addresses left" is said only when every slot is leased.
RefusedOnlyWhenLeased ==
  \A m \in Macs : Refuses(m) => \A s \in Slots : age[s] < Over
=============================================================================
