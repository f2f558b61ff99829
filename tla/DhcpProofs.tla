----------------------------- MODULE DhcpProofs ------------------------------
(***************************************************************************)
(* Theorems about the DHCP server and its network: the wrapped clock never *)
(* ends a lease early, so no address is ever in use by two clients, for    *)
(* any number of clients and addresses and any number of datagrams.        *)
(***************************************************************************)
EXTENDS DhcpNetwork, TLAPS

LEMMA TickModType == TickMod \in Nat \ {0}
  BY ClockAssumption DEF TickMod

\* What becomes of a clock value that is stored as an expiry and read back:
\* it is rounded up, by less than a granule, and stays a clock value.
LEMMA RoundedUp ==
  ASSUME NEW x \in 0 .. TickMod - 1
  PROVE  /\ x \div Granule \in 0 .. Granules - 1
         /\ EndOf(x \div Granule) \in x .. TickMod - 1
         /\ EndOf(x \div Granule) < x + Granule
<1> DEFINE q == x \div Granule
           r == x % Granule
<1>1. q \in Nat /\ r \in 0 .. Granule - 1 /\ x = Granule * q + r
  BY TickModType, ClockAssumption
<1> HIDE DEF q, r
<1>2. \A a, b \in Nat : a < b => Granule * a + Granule <= Granule * b
  BY ClockAssumption
<1>3. q < Granules
  <2> SUFFICES ASSUME Granules <= q PROVE FALSE
    BY <1>1, ClockAssumption
  <2>1. Granule * Granules <= Granule * q
    BY <1>1, <1>2, ClockAssumption
  <2> QED BY <1>1, <2>1, ClockAssumption DEF TickMod
<1>4. Granule * q + Granule <= Granule * Granules
  BY <1>1, <1>2, <1>3, ClockAssumption
<1>5. EndOf(q) = Granule * q + Granule - 1
  BY <1>1, ClockAssumption DEF EndOf
<1>6. q \in 0 .. Granules - 1
  BY <1>1, <1>3, ClockAssumption
<1>7. EndOf(q) \in x .. TickMod - 1 /\ EndOf(q) < x + Granule
  BY <1>1, <1>4, <1>5, ClockAssumption DEF TickMod
<1> QED BY <1>6, <1>7 DEF q

\* The end of a granule is a clock value.
LEMMA EndOfType ==
  ASSUME NEW q \in 0 .. Granules - 1
  PROVE  EndOf(q) \in 0 .. TickMod - 1
<1>1. \A a, b \in Nat : a < b => Granule * a + Granule <= Granule * b
  BY ClockAssumption
<1>2. q \in Nat /\ q < Granules /\ Granules \in Nat
  BY ClockAssumption
<1>3. Granule * q + Granule <= Granule * Granules
  BY <1>1, <1>2
<1>4. EndOf(q) = Granule * q + Granule - 1 /\ TickMod = Granule * Granules
  BY <1>2, ClockAssumption DEF EndOf, TickMod
<1>5. Granule * q \in Nat
  BY <1>2, ClockAssumption
<1> QED BY <1>3, <1>4, <1>5, ClockAssumption

-----------------------------------------------------------------------------
(* The server *)

\* How far a lease is from its end, in terms of the time since its grant.
RemainingBounds ==
  \A s \in Slots : age[s] <= LeaseTime =>
    Diff(EndOf(expiry[s]), ticks) \in LeaseTime - age[s] .. Over - 1 - age[s]

ServerInv == ServerTypeOK /\ RemainingBounds

LEMMA LiveNotExpired ==
  ASSUME ServerInv, NEW s \in Slots, age[s] <= LeaseTime
  PROVE  ~Expired(s)
<1> DEFINE d == Diff(EndOf(expiry[s]), ticks)
<1>1. d \in LeaseTime - age[s] .. Over - 1 - age[s] /\ age[s] \in Nat
  BY ClockAssumption DEF ServerInv, RemainingBounds, ServerTypeOK, Over
<1>2. d \in Int /\ 2 * d < TickMod
  <2> HIDE DEF d
  <2> QED BY <1>1, TickModType, ClockAssumption DEF Over
<1> QED BY <1>2, TickModType DEF Expired, Negative

LEMMA ServerInitInv ==
  ASSUME ServerInit
  PROVE  ServerInv
  BY TickModType, ClockAssumption, SlotsAssumption
     DEF ServerInit, ServerInv, ServerTypeOK, RemainingBounds, Over

LEMMA DiscoverKeeps ==
  ASSUME ServerInv, NEW m \in Macs, Discover(m)
  PROVE  /\ ServerInv'
         /\ \A s \in Slots : mac[s] # NoMac /\ age[s] <= LeaseTime => mac'[s] = mac[s]
<1>1. ServerInv'
  BY DEF ServerInv, ServerTypeOK, RemainingBounds, Discover
<1>2. ASSUME NEW s \in Slots, mac[s] # NoMac, age[s] <= LeaseTime
      PROVE  mac'[s] = mac[s]
  <2>1. s \notin Available
    BY <1>2, LiveNotExpired DEF Available
  <2>2. s \notin Fallback(m)
    BY <2>1 DEF Fallback
  <2> QED BY <2>2 DEF Discover
<1> QED BY <1>1, <1>2

LEMMA GrantKeeps ==
  ASSUME ServerInv, NEW m \in Macs, NEW s \in Slots, Grant(m, s)
  PROVE  /\ ServerInv'
         /\ \A t \in Slots : mac[t] # NoMac /\ age[t] <= LeaseTime => mac'[t] = mac[t]
<1> DEFINE x == Wrapped(ticks + LeaseTime)
<1>1. ticks \in 0 .. TickMod - 1
  BY DEF ServerInv, ServerTypeOK
<1>2. x \in 0 .. TickMod - 1
  BY <1>1, TickModType, ClockAssumption DEF Wrapped
<1>3. /\ ExpiryFor(ticks) \in 0 .. Granules - 1
      /\ EndOf(ExpiryFor(ticks)) \in x .. TickMod - 1
      /\ EndOf(ExpiryFor(ticks)) < x + Granule
  <2> HIDE DEF x
  <2> QED BY <1>2, RoundedUp DEF ExpiryFor, x
<1>4. Diff(EndOf(ExpiryFor(ticks)), ticks) \in LeaseTime .. Over - 1
  <2> DEFINE e == EndOf(ExpiryFor(ticks))
  <2>1. e \in x .. TickMod - 1 /\ e < x + Granule
    BY <1>3
  <2> HIDE DEF e
  <2>2. CASE ticks + LeaseTime >= TickMod
    <3>1. x = ticks + LeaseTime - TickMod
      BY <1>1, <2>2, TickModType, ClockAssumption DEF Wrapped
    <3> HIDE DEF x
    <3>3. x < ticks /\ x + Granule <= ticks
      BY <1>1, <3>1, TickModType, ClockAssumption
    <3>2. Diff(e, ticks) = e - ticks + TickMod
      BY <1>1, <2>1, <3>1, <3>3, TickModType, ClockAssumption DEF Diff
    <3> QED BY <1>1, <2>1, <3>1, <3>2, TickModType, ClockAssumption DEF Over, e
  <2>3. CASE ticks + LeaseTime < TickMod
    <3>1. x = ticks + LeaseTime
      BY <1>1, <2>3, TickModType, ClockAssumption DEF Wrapped
    <3> HIDE DEF x
    <3>2. Diff(e, ticks) = e - ticks
      BY <1>1, <2>1, <3>1, TickModType, ClockAssumption DEF Diff
    <3> QED BY <1>1, <2>1, <3>1, <3>2, TickModType, ClockAssumption DEF Over, e
  <2> QED BY <1>1, <2>2, <2>3, TickModType, ClockAssumption
<1>5. ServerTypeOK'
  BY <1>3, ClockAssumption DEF Grant, ServerInv, ServerTypeOK, Over
<1>6. RemainingBounds'
  <2> SUFFICES ASSUME NEW t \in Slots, age'[t] <= LeaseTime
               PROVE  Diff(EndOf(expiry'[t]), ticks') \in LeaseTime - age'[t] .. Over - 1 - age'[t]
    BY DEF RemainingBounds
  <2>1. CASE t = s
    <3>1. expiry'[t] = ExpiryFor(ticks) /\ age'[t] = 0 /\ ticks' = ticks
      BY <2>1 DEF Grant, ServerInv, ServerTypeOK
    <3> QED BY <1>4, <3>1, ClockAssumption DEF Over
  <2>2. CASE t # s
    BY <2>2 DEF Grant, ServerInv, ServerTypeOK, RemainingBounds
  <2> QED BY <2>1, <2>2
<1> QED BY <1>5, <1>6 DEF ServerInv, Grant, Grants, ServerTypeOK

LEMMA PassTimeKeeps ==
  ASSUME ServerInv, PassTime
  PROVE  ServerInv'
<1>1. ServerTypeOK'
  BY TickModType, ClockAssumption DEF PassTime, Wrapped, ServerInv, ServerTypeOK, Over
<1>2. RemainingBounds'
  <2> SUFFICES ASSUME NEW s \in Slots, age'[s] <= LeaseTime
               PROVE  Diff(EndOf(expiry'[s]), ticks') \in LeaseTime - age'[s] .. Over - 1 - age'[s]
    BY DEF RemainingBounds
  <2> DEFINE e == EndOf(expiry[s])
  <2>1. age[s] \in Nat /\ age[s] < LeaseTime /\ age'[s] = age[s] + 1
    <3>1. age[s] \in 0 .. Over /\ age'[s] = IF age[s] < Over THEN age[s] + 1 ELSE Over
      BY DEF PassTime, ServerInv, ServerTypeOK
    <3>2. Over \in Nat /\ Over > LeaseTime /\ LeaseTime \in Nat
      BY ClockAssumption DEF Over
    <3>3. age[s] < Over
      <4> SUFFICES ASSUME ~(age[s] < Over) PROVE FALSE
        OBVIOUS
      <4>1. age'[s] = Over
        BY <3>1
      <4> QED BY <3>2, <4>1
    <3>4. age'[s] = age[s] + 1
      BY <3>1, <3>3
    <3>5. age[s] \in Nat
      BY <3>1, <3>2
    <3>6. age[s] + 1 <= LeaseTime
      BY <3>4
    <3> QED BY <3>2, <3>4, <3>5, <3>6
  <2>2. Diff(e, ticks) \in LeaseTime - age[s] .. Over - 1 - age[s]
    <3>1. age[s] <= LeaseTime
      BY <2>1, ClockAssumption
    <3> QED BY <3>1 DEF ServerInv, RemainingBounds
  <2>3. ticks \in 0 .. TickMod - 1 /\ ticks' = Wrapped(ticks + 1) /\ expiry' = expiry
    BY DEF PassTime, ServerInv, ServerTypeOK
  <2>4. e \in 0 .. TickMod - 1
    <3>1. expiry[s] \in 0 .. Granules - 1
      BY DEF ServerInv, ServerTypeOK
    <3> QED BY <3>1, EndOfType
  <2>5. Diff(e, ticks') = Diff(e, ticks) - 1
    <3> HIDE DEF e
    <3> QED BY <2>1, <2>2, <2>3, <2>4, TickModType, ClockAssumption DEF Diff, Wrapped, Over
  <2> HIDE DEF e
  <2>6. Diff(e, ticks') \in LeaseTime - age'[s] .. Over - 1 - age'[s]
    BY <2>1, <2>2, <2>5, ClockAssumption DEF Over
  <2> QED BY <2>3, <2>6 DEF e
<1> QED BY <1>1, <1>2 DEF ServerInv

LEMMA ServerNextKeeps ==
  ASSUME ServerInv, [ServerNext]_serverVars
  PROVE  ServerInv'
<1>1. CASE UNCHANGED serverVars
  BY <1>1 DEF serverVars, ServerInv, ServerTypeOK, RemainingBounds
<1> QED BY <1>1, DiscoverKeeps, GrantKeeps, PassTimeKeeps DEF ServerNext

THEOREM ServerInvariance == ServerSpec => []ServerInv
<1>1. ServerInit => ServerInv
  BY ServerInitInv
<1>2. ServerInv /\ [ServerNext]_serverVars => ServerInv'
  BY ServerNextKeeps
<1> QED BY <1>1, <1>2, PTL DEF ServerSpec

\* Rounding to granules and the wrap of the clock never end a lease early.
THEOREM LeaseTimeHonoured == ServerSpec => []LiveLooksLive
<1>1. ServerInv => LiveLooksLive
  BY LiveNotExpired DEF LiveLooksLive
<1> QED BY <1>1, ServerInvariance, PTL

\* Nobody else's DISCOVER or REQUEST takes a slot within its lease time.
THEOREM NobodyEvicted == ServerSpec => NoEviction
<1> DEFINE Kept == \A s \in Slots : mac[s] # NoMac /\ age[s] <= LeaseTime => mac'[s] = mac[s]
<1>1. ServerInv /\ [ServerNext]_serverVars => [Kept]_serverVars
  <2>1. ASSUME ServerInv, ServerNext
        PROVE  Kept
    BY <2>1, DiscoverKeeps, GrantKeeps DEF ServerNext, PassTime
  <2> QED BY <2>1
<1> QED BY <1>1, ServerInvariance, PTL DEF ServerSpec, NoEviction

-----------------------------------------------------------------------------
(* The network *)

AtMostOne == \A m \in Macs : \A s, t \in held[m] : s = t

NetInv == TypeOK /\ RemainingBounds /\ HoldersRecorded /\ AcksRecorded /\ AtMostOne

\* The parts of NetInv that speak of clients survive a step of the server
\* that leaves clients alone, takes no slot within its lease time and grants
\* only to the client an acknowledgement is for.
LEMMA ServerStepKeeps ==
  ASSUME NetInv, ServerInv', UNCHANGED clientVars, net' \subseteq Datagrams,
         \A s \in Slots : mac[s] # NoMac /\ age[s] <= LeaseTime =>
           mac'[s] = mac[s] /\ age'[s] <= age[s],
         \A d \in (net' \ net) \cap Acks : mac'[d.slot] = d.mac /\ d.left + age'[d.slot] <= LeaseTime
  PROVE  NetInv'
<1> USE DEF clientVars
<1>1. TypeOK' /\ RemainingBounds' /\ AtMostOne'
  BY DEF NetInv, TypeOK, ServerInv, AtMostOne
<1>2. ASSUME NEW s \in Slots, NEW m \in Macs, NEW n \in 0 .. LeaseTime, 0 < n,
             mac[s] = m, n + age[s] <= LeaseTime
      PROVE  mac'[s] = m /\ n + age'[s] <= LeaseTime
  <2>1. age[s] \in Nat /\ age'[s] \in Nat
    BY ClockAssumption DEF NetInv, TypeOK, ServerInv, ServerTypeOK, Over
  <2>2. mac[s] # NoMac /\ age[s] <= LeaseTime
    BY <1>2, <2>1, SlotsAssumption, ClockAssumption
  <2>3. mac'[s] = mac[s] /\ age'[s] <= age[s]
    BY <2>2
  <2> QED BY <1>2, <2>1, <2>3, ClockAssumption
<1>3. HoldersRecorded'
  <2> SUFFICES ASSUME NEW m \in Macs, NEW s \in held[m]
               PROVE  mac'[s] = m /\ 0 < left[m] /\ left[m] + age'[s] <= LeaseTime
    BY DEF HoldersRecorded
  <2>1. s \in Slots /\ left[m] \in 0 .. LeaseTime
    BY DEF NetInv, TypeOK
  <2>2. mac[s] = m /\ 0 < left[m] /\ left[m] + age[s] <= LeaseTime
    BY DEF NetInv, HoldersRecorded
  <2> QED BY <1>2, <2>1, <2>2
<1>4. AcksRecorded'
  <2> SUFFICES ASSUME NEW d \in net' \cap Acks, d.left > 0
               PROVE  mac'[d.slot] = d.mac /\ d.left + age'[d.slot] <= LeaseTime
    BY DEF AcksRecorded
  <2>1. CASE d \in net
    <3>1. d.slot \in Slots /\ d.mac \in Macs /\ d.left \in 0 .. LeaseTime
      BY DEF Acks
    <3>2. mac[d.slot] = d.mac /\ d.left + age[d.slot] <= LeaseTime
      BY <2>1 DEF NetInv, AcksRecorded
    <3> QED BY <1>2, <3>1, <3>2
  <2>2. CASE d \notin net
    BY <2>2
  <2> QED BY <2>1, <2>2
<1> QED BY <1>1, <1>3, <1>4 DEF NetInv

LEMMA NetInitInv ==
  ASSUME Init
  PROVE  NetInv
<1>1. ServerInv
  BY ServerInitInv DEF Init
<1> QED BY <1>1, ClockAssumption
    DEF Init, NetInv, TypeOK, ServerInv, HoldersRecorded, AcksRecorded, AtMostOne

\* A server step seen from the table: nothing changes.
LEMMA QuietStepKeeps ==
  ASSUME NetInv, UNCHANGED serverVars, UNCHANGED clientVars,
         net' \subseteq Datagrams, net' \cap Acks \subseteq net
  PROVE  NetInv'
<1>1. ServerInv'
  BY DEF NetInv, TypeOK, ServerInv, ServerTypeOK, RemainingBounds, serverVars
<1>2. \A s \in Slots : age[s] \in Int /\ age'[s] <= age[s] /\ mac'[s] = mac[s]
  BY ClockAssumption DEF NetInv, TypeOK, ServerTypeOK, serverVars, Over
<1> QED BY <1>1, <1>2, ServerStepKeeps

LEMMA RecvDiscoverKeeps ==
  ASSUME NetInv, NEW d \in net, RecvDiscover(d)
  PROVE  NetInv'
<1>1. d.mac \in Macs /\ Discover(d.mac) /\ UNCHANGED clientVars
  BY DEF RecvDiscover, Discovers
<1>2. ServerInv' /\ \A s \in Slots : mac[s] # NoMac /\ age[s] <= LeaseTime => mac'[s] = mac[s]
  BY <1>1, DiscoverKeeps DEF NetInv, TypeOK, ServerInv
<1>3. \A s \in Slots : age[s] \in Int /\ age'[s] = age[s]
  BY <1>1, ClockAssumption DEF Discover, NetInv, TypeOK, ServerTypeOK, Over
<1>4. net' \subseteq Datagrams /\ (net' \ net) \cap Acks = {}
  <2>1. \A s \in OfferTo(d.mac) : s \in Slots
    BY DEF OfferTo, Matching, Fallback, Available
  <2>2. \A s \in Slots : [type |-> "OFFER", mac |-> d.mac, slot |-> s] \in Datagrams \ Acks
    BY <1>1 DEF Datagrams, Offers, Acks
  <2>3. \/ \E s \in Slots : net' \subseteq net \cup {[type |-> "OFFER", mac |-> d.mac, slot |-> s]}
        \/ net' = net
    BY <2>1 DEF RecvDiscover, Send
  <2> QED BY <2>2, <2>3 DEF NetInv, TypeOK
<1> QED BY <1>1, <1>2, <1>3, <1>4, ServerStepKeeps

LEMMA RecvRequestKeeps ==
  ASSUME NetInv, NEW d \in net, RecvRequest(d)
  PROVE  NetInv'
<1> DEFINE ack == [type |-> "ACK", mac |-> d.mac, slot |-> d.slot, left |-> LeaseTime]
<1>1. d.mac \in Macs /\ d.slot \in Slots /\ Grant(d.mac, d.slot) /\ UNCHANGED clientVars
  BY DEF RecvRequest, Requests
<1>2. ServerInv' /\ \A s \in Slots : mac[s] # NoMac /\ age[s] <= LeaseTime => mac'[s] = mac[s]
  BY <1>1, GrantKeeps DEF NetInv, TypeOK, ServerInv
<1>3. \A s \in Slots : age[s] \in Nat /\ age'[s] <= age[s]
  BY <1>1, ClockAssumption DEF Grant, NetInv, TypeOK, ServerTypeOK, Over
<1>4. mac'[d.slot] = d.mac /\ age'[d.slot] = 0
  BY <1>1 DEF Grant, NetInv, TypeOK, ServerTypeOK
<1>5. ack \in Acks /\ ack.slot = d.slot /\ ack.mac = d.mac /\ ack.left = LeaseTime
  BY <1>1, ClockAssumption DEF Acks
<1>6. net' \subseteq net \cup {ack}
  BY DEF RecvRequest, Send
<1> HIDE DEF ack
<1>7. net' \subseteq Datagrams
  BY <1>5, <1>6 DEF NetInv, TypeOK, Datagrams
<1>8. \A e \in (net' \ net) \cap Acks : mac'[e.slot] = e.mac /\ e.left + age'[e.slot] <= LeaseTime
  BY <1>4, <1>5, <1>6, ClockAssumption
<1> QED BY <1>1, <1>2, <1>3, <1>7, <1>8, ServerStepKeeps

LEMMA RecvAckKeeps ==
  ASSUME NetInv, NEW d \in net, RecvAck(d)
  PROVE  NetInv'
<1> USE DEF RecvAck, serverVars
<1>1. d \in Acks /\ d.mac \in Macs /\ d.slot \in Slots /\ d.left \in 0 .. LeaseTime /\ d.left > 0
  BY DEF Acks
<1>2. mac[d.slot] = d.mac /\ d.left + age[d.slot] <= LeaseTime
  BY <1>1 DEF NetInv, AcksRecorded
<1>3. TypeOK' /\ RemainingBounds' /\ AcksRecorded'
  BY <1>1 DEF NetInv, TypeOK, ServerTypeOK, RemainingBounds, AcksRecorded
<1>4. HoldersRecorded' /\ AtMostOne'
  BY <1>1, <1>2 DEF NetInv, TypeOK, HoldersRecorded, AtMostOne
<1> QED BY <1>3, <1>4 DEF NetInv

LEMMA RecvOfferKeeps ==
  ASSUME NetInv, NEW d \in net, RecvOffer(d)
  PROVE  NetInv'
<1> USE DEF RecvOffer, serverVars
<1>1. d.mac \in Macs /\ d.slot \in Slots
  BY DEF Offers
<1>2. TypeOK' /\ RemainingBounds'
  BY <1>1 DEF NetInv, TypeOK, ServerTypeOK, RemainingBounds
<1>3. HoldersRecorded' /\ AcksRecorded' /\ AtMostOne'
  BY DEF NetInv, HoldersRecorded, AcksRecorded, AtMostOne
<1> QED BY <1>2, <1>3 DEF NetInv

\* Time wears leases, addresses in use and acknowledgements down together.
LEMMA TickKeeps ==
  ASSUME NetInv, Tick
  PROVE  NetInv'
<1> USE DEF Tick
<1>1. ServerInv'
  BY PassTimeKeeps DEF NetInv, TypeOK, ServerInv
<1>2. \A s \in Slots : age[s] \in 0 .. Over /\ (age[s] <= LeaseTime => age'[s] = age[s] + 1)
      /\ mac'[s] = mac[s]
  <2> SUFFICES ASSUME NEW s \in Slots
               PROVE  age[s] \in 0 .. Over /\ (age[s] <= LeaseTime => age'[s] = age[s] + 1)
                      /\ mac'[s] = mac[s]
    OBVIOUS
  <2>1. age[s] \in 0 .. Over /\ age'[s] = IF age[s] < Over THEN age[s] + 1 ELSE Over
    BY DEF PassTime, NetInv, TypeOK, ServerTypeOK
  <2>2. age[s] <= LeaseTime => age[s] < Over
    BY <2>1, ClockAssumption DEF Over
  <2> QED BY <2>1, <2>2 DEF PassTime
<1>3. ASSUME NEW s \in Slots, NEW n \in 0 .. LeaseTime, 0 < n, n + age[s] <= LeaseTime
      PROVE  n - 1 + age'[s] <= LeaseTime
  <2>1. age[s] \in Nat
    BY <1>2, ClockAssumption DEF Over
  <2>2. age'[s] = age[s] + 1
    BY <1>2, <1>3, <2>1, ClockAssumption
  <2> QED BY <1>3, <2>1, <2>2, ClockAssumption
<1>4. \A m \in Macs : /\ left[m] \in 0 .. LeaseTime
                      /\ left'[m] = IF left[m] > 0 THEN left[m] - 1 ELSE 0
                      /\ held'[m] = IF left[m] > 1 THEN held[m] ELSE {}
  BY DEF NetInv, TypeOK
<1>5. HoldersRecorded'
  <2> SUFFICES ASSUME NEW m \in Macs, NEW s \in held'[m]
               PROVE  mac'[s] = m /\ 0 < left'[m] /\ left'[m] + age'[s] <= LeaseTime
    BY DEF HoldersRecorded
  <2>1. left[m] > 1 /\ s \in held[m] /\ left'[m] = left[m] - 1
    BY <1>4, ClockAssumption
  <2>2. s \in Slots
    BY <2>1 DEF NetInv, TypeOK
  <2>3. mac[s] = m /\ left[m] + age[s] <= LeaseTime
    BY <2>1 DEF NetInv, HoldersRecorded
  <2> QED BY <1>2, <1>3, <1>4, <2>1, <2>2, <2>3, ClockAssumption
<1>6. \A d \in net' : \/ d \in net /\ d \notin Acks
                      \/ \E e \in net \cap Acks : d = [e EXCEPT !.left = e.left - 1] /\ e.left > 1
  <2> SUFFICES ASSUME NEW e \in net, ~Worn(e), e \in Acks
               PROVE  e.left > 1
    BY DEF Aged
  <2> QED BY ClockAssumption DEF Worn, Acks
<1>7. ASSUME NEW e \in net \cap Acks, e.left > 1
      PROVE  LET d == [e EXCEPT !.left = e.left - 1]
             IN  d \in Acks /\ mac'[d.slot] = d.mac /\ d.left + age'[d.slot] <= LeaseTime
  <2>1. e.slot \in Slots /\ e.mac \in Macs /\ e.left \in 0 .. LeaseTime
    BY DEF Acks
  <2>2. mac[e.slot] = e.mac /\ e.left + age[e.slot] <= LeaseTime
    BY <1>7, <2>1 DEF NetInv, AcksRecorded
  <2>3. mac'[e.slot] = e.mac /\ e.left - 1 + age'[e.slot] <= LeaseTime
    BY <1>2, <1>3, <1>7, <2>1, <2>2
  <2>4. [e EXCEPT !.left = e.left - 1] \in Acks
    BY <1>7, <2>1, ClockAssumption DEF Acks
  <2> QED BY <2>3, <2>4 DEF Acks
<1>8. AcksRecorded'
  BY <1>6, <1>7 DEF AcksRecorded
<1>9. TypeOK'
  <2>1. net' \subseteq Datagrams
    BY <1>6, <1>7 DEF NetInv, TypeOK, Datagrams
  <2>2. left' \in [Macs -> 0 .. LeaseTime] /\ held' \in [Macs -> SUBSET Slots]
    BY <1>4, ClockAssumption DEF NetInv, TypeOK
  <2> QED BY <1>1, <2>1, <2>2 DEF NetInv, TypeOK, ServerInv
<1>10. AtMostOne'
  BY <1>4 DEF NetInv, AtMostOne
<1> QED BY <1>1, <1>5, <1>8, <1>9, <1>10 DEF NetInv, ServerInv

LEMMA StepKeeps ==
  ASSUME NetInv, [Step]_vars
  PROVE  NetInv'
<1>1. CASE UNCHANGED vars
  BY <1>1 DEF vars, serverVars, clientVars, NetInv, TypeOK, ServerTypeOK, RemainingBounds,
              HoldersRecorded, AcksRecorded, AtMostOne
<1>2. ASSUME NEW m \in Macs, SendDiscover(m) \/ SendRequest(m)
      PROVE  NetInv'
  <2> DEFINE ask == [type |-> "DISCOVER", mac |-> m]
             req(s) == [type |-> "REQUEST", mac |-> m, slot |-> s]
  <2>1. ask \in Datagrams \ Acks
    BY DEF Datagrams, Discovers, Acks
  <2>2. \A s \in Slots : req(s) \in Datagrams \ Acks
    BY DEF Datagrams, Requests, Acks
  <2>3. known[m] \subseteq Slots /\ net \subseteq Datagrams
    BY DEF NetInv, TypeOK
  <2>4. \E d \in Datagrams \ Acks : net' \subseteq net \cup {d}
    <3>1. CASE SendDiscover(m)
      BY <2>1, <3>1 DEF SendDiscover, Send
    <3>2. CASE SendRequest(m)
      BY <2>2, <2>3, <3>2 DEF SendRequest, Send
    <3> QED BY <1>2, <3>1, <3>2
  <2>5. UNCHANGED serverVars /\ UNCHANGED clientVars
    BY <1>2 DEF SendDiscover, SendRequest
  <2> QED BY <2>3, <2>4, <2>5, QuietStepKeeps
<1>3. ASSUME NEW d \in net, Lose(d)
      PROVE  NetInv'
  BY <1>3, QuietStepKeeps DEF Lose, NetInv, TypeOK
<1>4. ASSUME NEW d \in net, RecvDiscover(d) \/ RecvRequest(d) \/ RecvOffer(d) \/ RecvAck(d)
      PROVE  NetInv'
  BY <1>4, RecvDiscoverKeeps, RecvRequestKeeps, RecvOfferKeeps, RecvAckKeeps
<1> QED BY <1>1, <1>2, <1>3, <1>4, TickKeeps DEF Step

THEOREM NetInvariance == Spec => []NetInv
<1>1. Init => NetInv
  BY NetInitInv
<1>2. NetInv /\ [Step]_vars => NetInv'
  BY StepKeeps
<1> QED BY <1>1, <1>2, PTL DEF Spec

\* No address is in use by two clients, whatever the network does.
THEOREM NoSharedAddress == Spec => []OneHolder
<1>1. NetInv => OneHolder
  BY DEF NetInv, HoldersRecorded, OneHolder
<1> QED BY <1>1, NetInvariance, PTL

\* Every datagram, table and clock keeps its type on any network.
THEOREM NetTypeCorrect == Spec => []TypeOK
<1>1. NetInv => TypeOK
  BY DEF NetInv
<1> QED BY <1>1, NetInvariance, PTL

\* A client never uses an address past the moment from which the server may
\* give it to somebody else, whatever datagrams are lost, repeated or late.
THEOREM HoldersAreRecorded == Spec => []HoldersRecorded
<1>1. NetInv => HoldersRecorded
  BY DEF NetInv
<1> QED BY <1>1, NetInvariance, PTL

-----------------------------------------------------------------------------
(* The network implements AddressLease. *)

LEMMA HoldersInit ==
  ASSUME Init
  PROVE  AddressLease!Init
  BY DEF Init, AddressLease!Init, Holders

LEMMA HoldersStep ==
  ASSUME NetInv, [Step]_vars
  PROVE  [AddressLease!Next]_Holders
<1>1. CASE held' = held
  BY <1>1 DEF Holders
<1>2. ASSUME NEW d \in net, RecvAck(d)
      PROVE  [AddressLease!Next]_Holders
  <2>1. d.mac \in Macs /\ d.slot \in Slots /\ d \in Acks /\ d.left > 0
    BY <1>2 DEF RecvAck, Acks
  <2>2. \A m \in Macs : d.slot \in held[m] => m = d.mac
    BY <2>1 DEF NetInv, HoldersRecorded, AcksRecorded
  <2>3. \A m \in Macs : held'[m] = IF m = d.mac THEN {d.slot} ELSE held[m]
    BY <1>2, <2>1 DEF RecvAck, NetInv, TypeOK
  <2>4. CASE d.slot \in held[d.mac]
    <3>1. held[d.mac] = {d.slot}
      BY <2>1, <2>4 DEF NetInv, AtMostOne
    <3>2. \A m \in Macs : held'[m] = held[m]
      BY <2>3, <3>1
    <3> QED BY <3>2 DEF Holders
  <2>5. CASE d.slot \notin held[d.mac]
    <3>1. Holders[d.slot] = {}
      BY <2>1, <2>2, <2>5 DEF Holders
    <3>2. ASSUME NEW t \in Slots
          PROVE  Holders'[t] = IF t = d.slot THEN {d.mac} ELSE Holders[t] \ {d.mac}
      BY <2>1, <2>2, <2>3, <2>5 DEF Holders
    <3>3. Holders' = [t \in Slots |-> IF t = d.slot THEN {d.mac} ELSE Holders[t] \ {d.mac}]
      BY <3>2 DEF Holders
    <3> QED BY <2>1, <3>1, <3>3 DEF AddressLease!Next, AddressLease!Acquire
  <2> QED BY <2>4, <2>5
<1>3. CASE Tick
  <2> DEFINE gone == {m \in Macs : ~(left[m] > 1)}
  <2>1. \A m \in Macs : held'[m] = IF m \in gone THEN {} ELSE held[m]
    BY <1>3 DEF Tick
  <2> HIDE DEF gone
  <2>2. Holders' = [s \in Slots |-> Holders[s] \ gone]
    BY <2>1 DEF Holders
  <2>3. gone \in SUBSET Macs
    BY DEF gone
  <2> QED BY <2>2, <2>3 DEF AddressLease!Next, AddressLease!Release
<1> QED BY <1>1, <1>2, <1>3
    DEF Step, vars, clientVars, SendDiscover, SendRequest, Lose, RecvDiscover, RecvRequest, RecvOffer

\* DhcpNetwork implements AddressLease: an address is taken only when free.
THEOREM KeepsPromise == Spec => Promise
<1>1. Init => AddressLease!Init
  BY HoldersInit
<1>2. NetInv /\ [Step]_vars => [AddressLease!Next]_Holders
  BY HoldersStep
<1> QED BY <1>1, <1>2, NetInvariance, PTL DEF Spec, Promise, AddressLease!Spec
=============================================================================
