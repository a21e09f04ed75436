-------------------------- MODULE NatTable_proofs --------------------------
(***************************************************************************)
(* Theorems about NatTable for every port range, set of clients and set of *)
(* destinations.                                                           *)
(***************************************************************************)
EXTENDS NatTable, FiniteSetTheorems, WellFoundedInduction, TLAPS

(* No two leases have the same port: PortsUnique for the keys of h2Port.   *)
LeasesDisjoint ==
  \A g, h \in Hashes : g # h /\ h2Port[h] # NoPort => h2Port[g] # h2Port[h]

(* A sweep under way drops sessions that are there.                        *)
SweepDropsSessions ==
  alloc.pc = "clear" => \A s \in alloc.expired : sessions[s] # NoSession

(* The inductive invariant: PortsUnique alone is not inductive, since a    *)
(* new lease is checked against mapped, and a sweep goes by sessions.      *)
IInv ==
  /\ TypeOK
  /\ LeasesDisjoint
  /\ MappedIffLeased
  /\ SessionOwnsPort
  /\ SweepDropsSessions

(* A uint16 whose slot exists is a port of the range, the slot is its      *)
(* distance from the start, and the next port does not wrap.               *)
LEMMA SlotOfPort ==
  ASSUME NEW p \in 0 .. Word - 1, Slot(p) \in Slots
  PROVE  /\ p \in From .. To - 1
         /\ Slot(p) = p - From
         /\ (p + 1) % Word = p + 1
BY NatAssumption DEF Slot, Slots, Size

(* A port of the range has a slot. *)
LEMMA PortHasSlot ==
  ASSUME NEW p \in From .. To - 1
  PROVE  Slot(p) \in Slots /\ Slot(p) = p - From /\ p = From + Slot(p)
BY NatAssumption DEF Slot, Slots, Size

(* hashAddr tells the clients of different addresses apart: the port does  *)
(* not reach the bits of the address.                                      *)
LEMMA HashOrder ==
  ASSUME NEW a \in Nat, NEW b \in Nat, a < b,
         NEW p \in 0 .. Word - 1, NEW q \in 0 .. Word - 1
  PROVE  a * Word + p < b * Word + q
<1>1. Word \in Nat
  BY NatAssumption
<1>2. PICK k \in Nat : b = a + 1 + k
  <2>1. b - a - 1 \in Nat /\ b = a + 1 + (b - a - 1)
    OBVIOUS
  <2>. QED  BY <2>1
<1>3. b * Word = a * Word + Word + k * Word
  BY <1>1, <1>2
<1>4. k * Word >= 0 /\ k * Word \in Int /\ a * Word \in Int
  BY <1>1, <1>2
<1>. QED  BY <1>1, <1>3, <1>4

LEMMA HashInjective ==
  ASSUME NEW c \in Clients, NEW d \in Clients, hashAddr(c) = hashAddr(d)
  PROVE  c = d
<1>1. /\ c \in [ip : Nat, port : 0 .. Word - 1]
      /\ d \in [ip : Nat, port : 0 .. Word - 1]
  BY NatAssumption
<1>2. c.ip = d.ip
  <2>1. /\ c.ip \in Nat /\ c.port \in 0 .. Word - 1
        /\ d.ip \in Nat /\ d.port \in 0 .. Word - 1
    BY <1>1
  <2>2. hashAddr(c) \in Int
    BY <2>1, NatAssumption DEF hashAddr
  <2>3. c.ip < d.ip => hashAddr(c) < hashAddr(d)
    BY <2>1, HashOrder, Zenon DEF hashAddr
  <2>4. d.ip < c.ip => hashAddr(d) < hashAddr(c)
    BY <2>1, HashOrder, Zenon DEF hashAddr
  <2>. QED  BY <2>1, <2>2, <2>3, <2>4
<1>3. c.port = d.port
  <2>1. c.ip * Word \in Int
    BY <1>1, NatAssumption
  <2>. QED  BY <1>1, <1>2, <2>1 DEF hashAddr
<1>. QED  BY <1>1, <1>2, <1>3

(* The port an iteration of Map looks at is a uint16. *)
LEMMA CandidateIsWord ==
  ASSUME TypeOK, Searching
  PROVE  candidate \in 0 .. Word - 1
<1>1. alloc \in Calls
  BY DEF TypeOK, Searching, Idle
<1>2. alloc.next \in Nat /\ alloc.i \in Nat
  BY <1>1, NatAssumption DEF Calls, Size
<1> DEFINE q == (alloc.next + alloc.i) % Word
<1>3. q \in 0 .. Word - 1
  BY <1>2, NatAssumption
<1>4. ASSUME q >= To  PROVE ((q % To) + From) % Word \in 0 .. Word - 1
  <2>1. (q % To) \in Int
    BY <1>3, NatAssumption
  <2>. QED  BY <2>1, NatAssumption
<1>. QED  BY <1>3, <1>4 DEF candidate
-----------------------------------------------------------------------------
(* The steps that write the leases keep the invariant. *)
LEMMA ClearExpiredKeeps ==
  ASSUME IInv, ClearExpired
  PROVE  IInv'
<1> USE DEF IInv
<1> DEFINE hs == {hashAddr(sessions[s].src) : s \in alloc.expired}
<1>1. /\ alloc \in Calls /\ alloc.pc = "clear" /\ alloc.expired \subseteq Slots
      /\ alloc' = [alloc EXCEPT !.pc = "map"]
  BY DEF TypeOK, ClearExpired, Calls, Idle
<1>2. /\ \A s \in alloc.expired : sessions[s] # NoSession
      /\ \A s \in alloc.expired : sessions[s].src \in Clients
      /\ \A s \in alloc.expired : hashAddr(sessions[s].src) \in Hashes
      /\ \A s \in alloc.expired : h2Port[hashAddr(sessions[s].src)] = From + s
  BY <1>1 DEF SweepDropsSessions, TypeOK, NatSession, Hashes, SessionOwnsPort
<1>3. /\ sessions' = [s \in Slots |->
            IF s \in alloc.expired THEN NoSession ELSE sessions[s]]
      /\ h2Port' = [h \in Hashes |-> IF h \in hs THEN NoPort ELSE h2Port[h]]
      /\ mapped' = [s \in Slots |-> mapped[s] /\
            ~ \E h \in hs : h2Port[h] # NoPort /\ Slot(h2Port[h]) = s]
  BY DEF ClearExpired, Unmap
<1>4. TypeOK'
  BY <1>1, <1>3 DEF TypeOK, ClearExpired, Calls
<1>5. LeasesDisjoint'
  BY <1>3 DEF LeasesDisjoint
<1>6. ASSUME NEW s \in Slots
      PROVE  /\ mapped'[s] = (mapped[s] /\ s \notin alloc.expired)
             /\ h2Port[hashAddr(sessions[s].src)] # NoPort \/ sessions[s] = NoSession
  <2>1. s \in Nat /\ From + s \in From .. To - 1
    BY NatAssumption DEF Slots, Size
  <2>2. ASSUME s \in alloc.expired
        PROVE  \E h \in hs : h2Port[h] # NoPort /\ Slot(h2Port[h]) = s
    BY <1>2, <2>1, <2>2, PortHasSlot, NatAssumption DEF NoPort
  <2>3. ASSUME NEW h \in hs, h2Port[h] # NoPort, Slot(h2Port[h]) = s
        PROVE  s \in alloc.expired
    <3>1. PICK t \in alloc.expired : h = hashAddr(sessions[t].src)
      BY <2>3
    <3>2. h2Port[h] = From + t /\ t \in Slots
      BY <1>1, <1>2, <3>1
    <3>3. From + t \in From .. To - 1 /\ t \in Nat
      BY <3>2, NatAssumption DEF Slots, Size
    <3>4. Slot(h2Port[h]) = t
      BY <3>2, <3>3, PortHasSlot, NatAssumption
    <3>. QED  BY <2>3, <3>4
  <2>4. mapped'[s] = (mapped[s] /\ s \notin alloc.expired)
    BY <1>3, <2>2, <2>3
  <2>5. h2Port[hashAddr(sessions[s].src)] # NoPort \/ sessions[s] = NoSession
    BY <2>1, NatAssumption DEF SessionOwnsPort, NoPort
  <2>. QED  BY <2>4, <2>5
<1>7. MappedIffLeased'
  <2> SUFFICES ASSUME NEW s \in Slots
               PROVE  mapped'[s] <=> \E h \in Hashes : h2Port'[h] = From + s
    BY DEF MappedIffLeased
  <2>1. s \in Nat /\ From + s # NoPort
    BY NatAssumption DEF Slots, Size, NoPort
  <2>2. ASSUME mapped'[s]  PROVE \E h \in Hashes : h2Port'[h] = From + s
    <3>1. mapped[s] /\ s \notin alloc.expired
      BY <1>6, <2>2
    <3>2. PICK h \in Hashes : h2Port[h] = From + s
      BY <3>1 DEF MappedIffLeased
    <3>3. h \notin hs
      BY <1>1, <1>2, <3>1, <3>2, <2>1, NatAssumption DEF Slots
    <3>. QED  BY <1>3, <3>2, <3>3
  <2>3. ASSUME NEW h \in Hashes, h2Port'[h] = From + s  PROVE mapped'[s]
    <3>1. h \notin hs /\ h2Port[h] = From + s
      BY <1>3, <2>1, <2>3
    <3>2. mapped[s]
      BY <3>1 DEF MappedIffLeased
    <3>3. s \notin alloc.expired
      BY <1>2, <2>1, <3>1 DEF LeasesDisjoint
    <3>. QED  BY <1>6, <3>2, <3>3
  <2>. QED  BY <2>2, <2>3
<1>8. SessionOwnsPort'
  <2> SUFFICES ASSUME NEW s \in Slots
               PROVE  /\ mapped'[s] => sessions'[s] # NoSession
                      /\ sessions'[s] # NoSession =>
                           h2Port'[hashAddr(sessions'[s].src)] = From + s
    BY DEF SessionOwnsPort
  <2>1. CASE s \in alloc.expired
    BY <1>3, <1>6, <2>1
  <2>2. CASE s \notin alloc.expired /\ sessions[s] = NoSession
    BY <1>3, <1>6, <2>2 DEF SessionOwnsPort
  <2>3. CASE s \notin alloc.expired /\ sessions[s] # NoSession
    <3> DEFINE h == hashAddr(sessions[s].src)
    <3>1. h \in Hashes /\ h2Port[h] = From + s /\ sessions'[s] = sessions[s]
      BY <1>3, <2>3 DEF SessionOwnsPort, TypeOK, NatSession, Hashes
    <3>2. h \notin hs
      BY <1>1, <1>2, <2>3, <3>1, NatAssumption DEF Slots
    <3>3. h2Port'[h] = From + s
      BY <1>3, <3>1, <3>2
    <3>. QED  BY <2>3, <3>1, <3>3
  <2>. QED  BY <2>1, <2>2, <2>3
<1>9. SweepDropsSessions'
  BY <1>1 DEF SweepDropsSessions, Calls
<1>. QED  BY <1>4, <1>5, <1>7, <1>8, <1>9

LEMMA MapNewKeeps ==
  ASSUME IInv, MapNew
  PROVE  IInv'
<1> USE DEF IInv
<1> DEFINE p == candidate
           slot == Slot(p)
           h == hashAddr(alloc.src)
           new == [src |-> alloc.src, dst |-> alloc.dst,
                   lastTouch |-> alloc.now]
<1>1. /\ alloc \in Calls /\ alloc' = Idle
      /\ h \in Hashes /\ h2Port[h] = NoPort /\ new \in NatSession
  BY DEF TypeOK, MapNew, Searching, Calls, Idle, Hashes, NatSession
<1>2. /\ p \in From .. To - 1 /\ p \in Nat /\ p # NoPort
      /\ slot \in Slots /\ slot = p - From
      /\ next' = p + 1 /\ p + 1 \in 0 .. Word - 1
  BY CandidateIsWord, SlotOfPort, NatAssumption DEF MapNew, NoPort
<1>3. /\ ~ mapped[slot]
      /\ mapped' = [mapped EXCEPT ![slot] = TRUE]
      /\ h2Port' = [h2Port EXCEPT ![h] = p]
      /\ sessions' = [sessions EXCEPT ![slot] = new]
      /\ handed' = handed \cup {p}
      /\ UNCHANGED <<now, lastCheck, panicked>>
  BY DEF MapNew
<1> HIDE DEF p, slot, h, new
<1>4. TypeOK'
  <2>1. p \in 0 .. Word - 1
    BY <1>2, NatAssumption
  <2>2. h2Port' \in [Hashes -> (From .. To - 1) \cup {NoPort}]
    BY <1>2, <1>3 DEF TypeOK
  <2>3. sessions' \in [Slots -> NatSession \cup {NoSession}]
    BY <1>1, <1>3 DEF TypeOK
  <2>4. mapped' \in [Slots -> BOOLEAN]
    BY <1>3 DEF TypeOK
  <2>. QED  BY <1>1, <1>2, <1>3, <2>1, <2>2, <2>3, <2>4 DEF TypeOK
<1>5. ASSUME NEW g \in Hashes  PROVE h2Port[g] # p
  BY <1>2, <1>3, NatAssumption DEF MappedIffLeased
<1>6. LeasesDisjoint'
  BY <1>1, <1>3, <1>5 DEF LeasesDisjoint, TypeOK
<1>7. MappedIffLeased'
  <2> SUFFICES ASSUME NEW s \in Slots
               PROVE  mapped'[s] <=> \E g \in Hashes : h2Port'[g] = From + s
    BY DEF MappedIffLeased
  <2>1. s \in Nat /\ From + s # NoPort /\ (From + s = p <=> s = slot)
    BY <1>2, NatAssumption DEF Slots, Size, NoPort
  <2>2. CASE s = slot
    BY <1>1, <1>3, <2>1, <2>2 DEF TypeOK
  <2>3. CASE s # slot
    <3>1. mapped'[s] = mapped[s]
      BY <1>3, <2>3 DEF TypeOK
    <3>2. \A g \in Hashes : h2Port'[g] = From + s <=> h2Port[g] = From + s
      BY <1>1, <1>3, <2>1, <2>3 DEF TypeOK
    <3>. QED  BY <3>1, <3>2 DEF MappedIffLeased
  <2>. QED  BY <2>2, <2>3
<1>8. SessionOwnsPort'
  <2> SUFFICES ASSUME NEW s \in Slots
               PROVE  /\ mapped'[s] => sessions'[s] # NoSession
                      /\ sessions'[s] # NoSession =>
                           h2Port'[hashAddr(sessions'[s].src)] = From + s
    BY DEF SessionOwnsPort
  <2>1. CASE s = slot
    <3>1. sessions'[s] = new /\ new.src = alloc.src
      BY <1>3, <2>1 DEF TypeOK, new
    <3>2. h2Port'[h] = From + s
      BY <1>1, <1>2, <1>3, <2>1, NatAssumption DEF TypeOK
    <3>. QED  BY <1>1, <3>1, <3>2, NoSessionAssumption DEF h
  <2>2. CASE s # slot
    <3>1. sessions'[s] = sessions[s] /\ mapped'[s] = mapped[s]
      BY <1>3, <2>2 DEF TypeOK
    <3>2. ASSUME sessions[s] # NoSession
          PROVE  h2Port'[hashAddr(sessions[s].src)] = From + s
      <4>1. /\ hashAddr(sessions[s].src) \in Hashes
            /\ h2Port[hashAddr(sessions[s].src)] = From + s
        BY <3>2 DEF SessionOwnsPort, TypeOK, NatSession, Hashes
      <4>2. From + s # NoPort
        BY NatAssumption DEF Slots, NoPort
      <4>. QED  BY <1>1, <1>3, <4>1, <4>2 DEF TypeOK
    <3>. QED  BY <3>1, <3>2 DEF SessionOwnsPort
  <2>. QED  BY <2>1, <2>2
<1>9. SweepDropsSessions'
  BY <1>1 DEF SweepDropsSessions, Idle
<1>. QED  BY <1>4, <1>6, <1>7, <1>8, <1>9

(* The steps that leave the leases alone. *)
leaseVars == <<h2Port, mapped, next>>

LEMMA LeasesKept ==
  ASSUME IInv, leaseVars' = leaseVars, TypeOK', SweepDropsSessions',
         \A s \in Slots : (sessions[s] = NoSession <=> sessions'[s] = NoSession)
                          /\ sessions'[s].src = sessions[s].src
  PROVE  IInv'
BY DEF IInv, leaseVars, LeasesDisjoint, MappedIffLeased, SessionOwnsPort

LEMMA GetSessionKeeps ==
  ASSUME IInv, NEW port \in PeerPorts, GetSession(port)
  PROVE  IInv'
<1> USE DEF IInv
<1>1. \/ sessions' = sessions
      \/ /\ Slot(port) \in Slots /\ sessions[Slot(port)] # NoSession
         /\ sessions' = [sessions EXCEPT ![Slot(port)].lastTouch = now]
  BY DEF GetSession
<1>2. UNCHANGED <<now, next, h2Port, mapped, lastCheck, alloc, handed>>
      /\ panicked' \in BOOLEAN
  BY DEF GetSession, TypeOK
<1>3. /\ sessions' \in [Slots -> NatSession \cup {NoSession}]
      /\ \A s \in Slots : (sessions[s] = NoSession <=> sessions'[s] = NoSession)
                          /\ sessions'[s].src = sessions[s].src
  <2>1. CASE sessions' = sessions
    BY <2>1 DEF TypeOK
  <2>2. CASE /\ Slot(port) \in Slots /\ sessions[Slot(port)] # NoSession
             /\ sessions' = [sessions EXCEPT ![Slot(port)].lastTouch = now]
    <3> DEFINE old == sessions[Slot(port)]
               new == [old EXCEPT !.lastTouch = now]
    <3>1. old \in NatSession /\ now \in Nat
      BY <2>2 DEF TypeOK
    <3>2. new \in NatSession /\ new.src = old.src /\ new # NoSession
      BY <3>1, NoSessionAssumption DEF NatSession
    <3>3. sessions' = [sessions EXCEPT ![Slot(port)] = new]
      BY <2>2
    <3>. QED  BY <2>2, <3>2, <3>3 DEF TypeOK
  <2>. QED  BY <1>1, <2>1, <2>2
<1>4. TypeOK'
  BY <1>2, <1>3 DEF TypeOK
<1>5. SweepDropsSessions'
  BY <1>2, <1>3 DEF SweepDropsSessions, TypeOK, Calls, Idle
<1>. QED  BY <1>2, <1>3, <1>4, <1>5, LeasesKept DEF leaseVars
-----------------------------------------------------------------------------
LEMMA InitEstablishes == Init => IInv
<1> SUFFICES ASSUME Init PROVE IInv
  OBVIOUS
<1>1. TypeOK
  <2>1. From \in 0 .. Word - 1 /\ StartTime \in Nat
    BY NatAssumption
  <2>. QED  BY <2>1 DEF Init, TypeOK
<1>2. LeasesDisjoint
  BY DEF Init, LeasesDisjoint
<1>3. MappedIffLeased /\ SessionOwnsPort
  BY NatAssumption
     DEF Init, MappedIffLeased, SessionOwnsPort, Slots, Size, NoPort
<1>4. SweepDropsSessions
  BY DEF Init, SweepDropsSessions, Idle
<1>. QED  BY <1>1, <1>2, <1>3, <1>4 DEF IInv

LEMMA StepKeeps == IInv /\ [Next]_vars => IInv'
<1> SUFFICES ASSUME IInv, [Next]_vars PROVE IInv'
  OBVIOUS
<1> USE DEF IInv
<1>1. ASSUME NEW src \in Clients, NEW dst \in Dests, AllocBegin(src, dst)
      PROVE  IInv'
  <2>1. TypeOK'
    <3>1. alloc' \in Calls
      <4>1. {s \in Slots : IsExpired(s)} \in SUBSET Slots /\ {} \in SUBSET Slots
        OBVIOUS
      <4>2. 0 \in 0 .. Size
        BY NatAssumption DEF Size
      <4>. QED  BY <1>1, <4>1, <4>2 DEF AllocBegin, Calls, TypeOK
    <3>. QED  BY <1>1, <3>1 DEF AllocBegin, TypeOK
  <2>2. SweepDropsSessions'
    BY <1>1 DEF AllocBegin, SweepDropsSessions, IsExpired
  <2>. QED  BY <1>1, <2>1, <2>2, LeasesKept DEF AllocBegin, leaseVars
<1>2. CASE ClearExpired
  BY <1>2, ClearExpiredKeeps
<1>3. CASE MapKnown
  <2>1. TypeOK'
    <3>1. h2Port[hashAddr(alloc.src)] \in 0 .. Word - 1
      BY <1>3, NatAssumption DEF MapKnown, TypeOK, Calls, Idle, Hashes, NoPort
    <3>. QED  BY <1>3, <3>1 DEF MapKnown, TypeOK
  <2>. QED  BY <1>3, <2>1, LeasesKept DEF MapKnown, leaseVars, SweepDropsSessions, Idle
<1>4. CASE MapSkip
  <2>1. TypeOK'
    <3>1. alloc \in Calls /\ alloc.i + 1 \in 0 .. Size
      BY <1>4, NatAssumption DEF MapSkip, Searching, TypeOK, Calls, Idle, Size
    <3>2. candidate \in 0 .. Word - 1
      BY <1>4, CandidateIsWord DEF MapSkip
    <3> DEFINE c == candidate
    <3> HIDE DEF c
    <3>3. alloc' = [alloc EXCEPT !.i = @ + 1, !.next = c]
      BY <1>4 DEF MapSkip, c
    <3>4. alloc' \in Calls
      BY <3>1, <3>2, <3>3 DEF Calls, c
    <3>. QED  BY <1>4, <3>4 DEF MapSkip, TypeOK
  <2>. QED
    BY <1>4, <2>1, LeasesKept
       DEF MapSkip, Searching, leaseVars, SweepDropsSessions, TypeOK, Calls, Idle
<1>5. CASE MapNew
  BY <1>5, MapNewKeeps
<1>6. CASE MapFull
  <2>1. 0 \in 0 .. Word - 1
    BY NatAssumption
  <2>. QED  BY <1>6, <2>1, LeasesKept
            DEF MapFull, leaseVars, TypeOK, SweepDropsSessions, Idle
<1>7. CASE MapPanic
  BY <1>7, LeasesKept DEF MapPanic, leaseVars, TypeOK, SweepDropsSessions
<1>8. ASSUME NEW port \in PeerPorts, GetSession(port)
      PROVE  IInv'
  BY <1>8, GetSessionKeeps
<1>9. CASE Tick
  BY <1>9, LeasesKept DEF Tick, leaseVars, TypeOK, SweepDropsSessions
<1>10. CASE UNCHANGED vars
  BY <1>10, LeasesKept DEF vars, leaseVars, TypeOK, SweepDropsSessions
<1>. QED
  BY <1>1, <1>2, <1>3, <1>4, <1>5, <1>6, <1>7, <1>8, <1>9, <1>10 DEF Next

(* In every reachable state the table of leases, the bits of mapped and    *)
(* the sessions describe the same leases, no two on one port.              *)
THEOREM Invariance == Spec => []IInv
BY InitEstablishes, StepKeeps, PTL DEF Spec

(* Every variable of the NAT keeps its type. *)
THEOREM TypeCorrect == Spec => []TypeOK
BY Invariance, PTL DEF IInv

(* No two clients hold the same port (Map, Unmap, clearExpiredSessions).   *)
THEOREM PortsNeverShared == Spec => []PortsUnique
<1>1. IInv => PortsUnique
  BY HashInjective DEF IInv, LeasesDisjoint, PortsUnique, Hashes
<1>. QED  BY <1>1, Invariance, PTL

(* A port is marked mapped exactly when a client leases it (Map, Unmap).   *)
THEOREM BitsAreLeases == Spec => []MappedIffLeased
BY Invariance, PTL DEF IInv

(* A leased port has the session of the client that leases it (Map, Unmap, *)
(* clearExpiredSessions).                                                  *)
THEOREM TablesAgree == Spec => []SessionOwnsPort
BY Invariance, PTL DEF IInv
-----------------------------------------------------------------------------
(* What the uint16 arithmetic of Map's loop keeps: every position but the  *)
(* first is a port of the range.                                           *)
LoopInRange ==
  /\ next \in From .. To
  /\ handed \subseteq (From .. To - 1) \cup {0}
  /\ alloc # Idle => /\ alloc.next \in From .. To
                     /\ alloc.i > 0 => alloc.next < To

LEMMA ModOnce ==
  ASSUME NEW a \in Nat, NEW b \in Nat, b <= a, a < 2 * b
  PROVE  a % b = a - b
OBVIOUS

LEMMA ModSmall ==
  ASSUME NEW b \in Nat, NEW a \in 0 .. b - 1
  PROVE  a % b = a
OBVIOUS

(* Unless its sum wraps, an iteration only looks at ports of the range.    *)
LEMMA CandidateInRange ==
  ASSUME TypeOK, LoopInRange, Searching, alloc.i < Size, ~ Wraps
  PROVE  candidate \in From .. To - 1
<1>1. alloc \in Calls /\ alloc # Idle
  BY DEF TypeOK, Searching, Idle
<1>2. alloc.i \in Nat /\ alloc.next \in Nat /\ alloc.next + alloc.i < Word
      /\ alloc.next + alloc.i >= From
  BY <1>1, NatAssumption DEF Calls, Size, LoopInRange, Wraps
<1> DEFINE q == alloc.next + alloc.i
<1>3. q \in Nat /\ (alloc.next + alloc.i) % Word = q
  BY <1>2, NatAssumption
<1>4. CASE q < To
  BY <1>2, <1>3, <1>4, NatAssumption DEF candidate
<1>5. CASE q >= To
  <2>1. q < 2 * To /\ q - To + From < To
    BY <1>1, <1>2, NatAssumption DEF Calls, Size, LoopInRange
  <2>2. q % To = q - To
    BY <1>3, <1>5, <2>1, ModOnce, NatAssumption
  <2>3. (q - To + From) % Word = q - To + From
    BY <1>3, <1>5, <2>1, ModSmall, NatAssumption
  <2>4. candidate = q - To + From
    BY <1>3, <1>5, <2>2, <2>3 DEF candidate
  <2>. QED  BY <1>3, <1>5, <2>1, <2>4, NatAssumption
<1>. QED  BY <1>3, <1>4, <1>5, NatAssumption

LEMMA LoopStep ==
  ASSUME IInv, LoopInRange, [Next]_vars
  PROVE  LoopInRange'
<1> USE DEF IInv
<1>1. ASSUME NEW src \in Clients, NEW dst \in Dests, AllocBegin(src, dst)
      PROVE  LoopInRange'
  BY <1>1 DEF AllocBegin, LoopInRange
<1>2. CASE ClearExpired
  <2>1. alloc' = [alloc EXCEPT !.pc = "map"] /\ alloc \in Calls /\ alloc # Idle
    BY <1>2 DEF ClearExpired, TypeOK, Idle
  <2>2. alloc'.next = alloc.next /\ alloc'.i = alloc.i
    BY <2>1 DEF Calls
  <2>. QED  BY <1>2, <2>1, <2>2 DEF ClearExpired, LoopInRange, Unmap
<1>3. CASE MapKnown
  <2>1. h2Port[hashAddr(alloc.src)] \in From .. To - 1
    BY <1>3 DEF MapKnown, TypeOK, Calls, Idle, Hashes
  <2>. QED  BY <1>3, <2>1 DEF MapKnown, LoopInRange
<1>4. CASE MapSkip
  <2>1. alloc \in Calls /\ alloc' = [alloc EXCEPT !.i = @ + 1, !.next = candidate]
    BY <1>4 DEF MapSkip, Searching, TypeOK, Idle
  <2>2. candidate \in From .. To - 1
    BY <1>4, CandidateIsWord, SlotOfPort DEF MapSkip
  <2>3. alloc'.next = candidate
    BY <2>1 DEF Calls
  <2>. QED  BY <1>4, <2>2, <2>3, NatAssumption DEF MapSkip, LoopInRange
<1>5. CASE MapNew
  <2>1. candidate \in From .. To - 1 /\ (candidate + 1) % Word = candidate + 1
    BY <1>5, CandidateIsWord, SlotOfPort DEF MapNew
  <2>. QED  BY <1>5, <2>1, NatAssumption DEF MapNew, LoopInRange
<1>6. CASE MapFull
  BY <1>6 DEF MapFull, Searching, LoopInRange
<1>7. CASE MapPanic
  BY <1>7 DEF MapPanic, LoopInRange
<1>8. ASSUME NEW port \in PeerPorts, GetSession(port)
      PROVE  LoopInRange'
  BY <1>8 DEF GetSession, LoopInRange
<1>9. CASE Tick
  BY <1>9 DEF Tick, LoopInRange
<1>10. CASE UNCHANGED vars
  BY <1>10 DEF vars, LoopInRange
<1>. QED
  BY <1>1, <1>2, <1>3, <1>4, <1>5, <1>6, <1>7, <1>8, <1>9, <1>10 DEF Next

LEMMA LoopInvariance == Spec => []LoopInRange
<1>1. Init => LoopInRange
  BY NatAssumption DEF Init, LoopInRange
<1>2. IInv /\ LoopInRange /\ [Next]_vars => LoopInRange'
  BY LoopStep
<1>. QED  BY <1>1, <1>2, Invariance, PTL DEF Spec

(* Even where the uint16 sums of Map wrap, no port outside of the range is *)
(* ever handed out.                                                        *)
THEOREM HandedOutInRange == Spec => []HandedInRange
BY LoopInvariance, PTL DEF LoopInRange, HandedInRange

(* Unless the sum of an iteration wraps, its index is within bounds.       *)
LEMMA SumBoundsIndex ==
  ASSUME TypeOK, LoopInRange
  PROVE  PanicOnlyByWrap
BY CandidateInRange, PortHasSlot DEF PanicOnlyByWrap, SearchInBounds

(* Map's loop indexes the slots within bounds unless one of its uint16     *)
(* sums has wrapped, in every range, however often it was searched before. *)
THEOREM PanicsExplained == Spec => []PanicOnlyByWrap
BY SumBoundsIndex, LoopInvariance, TypeCorrect, PTL

(* What ends the process: a sum of Map's loop that wraps, or a look-up for *)
(* a peer with a port outside of the range, which is the source port 0 of  *)
(* a packet that was redirected without a port, or that of a program which *)
(* has come to the relay's socket by itself (getSession of nat.go:88).     *)
THEOREM PanicsAreOutside ==
  Spec => [][~ panicked /\ panicked' =>
               \/ MapPanic /\ Wraps
               \/ \E port \in DirectPorts \cup {0} :
                    port \notin From .. To - 1 /\ GetSession(port)]_vars
<1>1. ASSUME TypeOK, LoopInRange, Next, ~ panicked, panicked'
      PROVE  \/ MapPanic /\ Wraps
             \/ \E port \in DirectPorts \cup {0} :
                  port \notin From .. To - 1 /\ GetSession(port)
  <2>1. CASE MapPanic
    BY <1>1, <2>1, SumBoundsIndex DEF MapPanic, PanicOnlyByWrap, SearchInBounds
  <2>2. ASSUME NEW port \in PeerPorts, GetSession(port)
        PROVE  \E p \in DirectPorts \cup {0} : p \notin From .. To - 1 /\ GetSession(p)
    <3>1. Slot(port) \notin Slots
      BY <1>1, <2>2 DEF GetSession
    <3>2. port \notin From .. To - 1
      BY <3>1, PortHasSlot
    <3>. QED  BY <1>1, <2>2, <3>2 DEF PeerPorts, LoopInRange
  <2>3. CASE \E src \in Clients, dst \in Dests : AllocBegin(src, dst)
    BY <1>1, <2>3 DEF AllocBegin
  <2>4. CASE ClearExpired \/ MapKnown \/ MapSkip \/ MapNew \/ MapFull \/ Tick
    BY <1>1, <2>4 DEF ClearExpired, MapKnown, MapSkip, MapNew, MapFull, Tick
  <2>. QED  BY <1>1, <2>1, <2>2, <2>3, <2>4 DEF Next
<1>2. TypeOK /\ LoopInRange /\ [Next]_vars =>
        [~ panicked /\ panicked' =>
           \/ MapPanic /\ Wraps
           \/ \E port \in DirectPorts \cup {0} :
                port \notin From .. To - 1 /\ GetSession(port)]_vars
  BY <1>1
<1>. QED  BY <1>2, LoopInvariance, TypeCorrect, PTL DEF Spec

(* In a range that ends early enough no sum wraps: of the ports that the   *)
(* configuration allows, those below 2^15 are always safe.  The search is  *)
(* within bounds then, whatever peers the relay has.                       *)
THEOREM NoPanicInLoop ==
  ASSUME 2 * To - From - 2 < Word
  PROVE  Spec => []SearchInBounds
<1>1. TypeOK /\ LoopInRange => SearchInBounds
  <2> SUFFICES ASSUME TypeOK, LoopInRange, Searching, alloc.i < Size
               PROVE  ~ Wraps
    BY SumBoundsIndex DEF PanicOnlyByWrap, SearchInBounds
  <2>1. alloc \in Calls /\ alloc # Idle
    BY DEF TypeOK, Searching, Idle
  <2>2. alloc.i \in Nat /\ alloc.next \in Nat
    BY <2>1, NatAssumption DEF Calls, Size
  <2>. QED  BY <2>1, <2>2, NatAssumption DEF LoopInRange, Wraps, Size
<1>. QED  BY <1>1, LoopInvariance, TypeCorrect, PTL
-----------------------------------------------------------------------------
(* The search for a port goes in longer and longer strides: iteration i is *)
(* a triangular number away from where the search began.                   *)
Triangle(i) == (i * (i + 1)) \div 2
LookedAt(i) == (next - From + Triangle(i)) % Size

(* Induction over numbers, by a smallest counterexample.                   *)
LEMMA Induction ==
  ASSUME NEW Good \in SUBSET Nat, 0 \in Good, \A n \in Good : n + 1 \in Good
  PROVE  \A n \in Nat : n \in Good
<1> SUFFICES ASSUME Nat \ Good # {} PROVE FALSE
  OBVIOUS
<1>1. PICK n \in Nat \ Good : \A m \in Nat \ Good : <<m, n>> \notin OpToRel(<, Nat)
  BY NatLessThanWellFounded, WFMin
<1>2. \A m \in Nat \ Good : ~ (m < n)
  BY <1>1 DEF OpToRel
<1>3. n - 1 \in Nat /\ n - 1 \in Good
  BY <1>2
<1> QED
  BY <1>3

(* Powers of two count subsets: one element more gives each subset with it *)
(* and without it.                                                         *)
LEMMA Doubling ==
  ASSUME NEW n \in Nat
  PROVE  2 ^ n \in Nat /\ 2 ^ n >= 1 /\ 2 ^ (n + 1) = 2 * 2 ^ n
<1> DEFINE x == n + 1
           A == SUBSET (1 .. n)
           C == SUBSET (1 .. x)
           B == {s \in C : x \in s}
           with == [s \in A |-> s \cup {x}]
<1>1. /\ IsFiniteSet(A) /\ Cardinality(A) = 2 ^ n
      /\ IsFiniteSet(C) /\ Cardinality(C) = 2 ^ (n + 1)
  <2>1. /\ IsFiniteSet(1 .. n) /\ Cardinality(1 .. n) = n
        /\ IsFiniteSet(1 .. x) /\ Cardinality(1 .. x) = n + 1
    BY FS_Interval
  <2>2. IsFiniteSet(A) /\ Cardinality(A) = 2 ^ Cardinality(1 .. n)
    BY <2>1, FS_SUBSET
  <2>3. IsFiniteSet(C) /\ Cardinality(C) = 2 ^ Cardinality(1 .. x)
    BY <2>1, FS_SUBSET
  <2> QED
    BY <2>1, <2>2, <2>3
<1>2. /\ 1 .. x = (1 .. n) \cup {x} /\ x \notin 1 .. n
      /\ C = A \cup B /\ A \cap B = {}
  OBVIOUS
<1>3. with \in Bijection(A, B)
  <2>1. with \in [A -> B]
    BY <1>2
  <2>2. \A s, t \in A : with[s] = with[t] => s = t
    BY <1>2
  <2>3. ASSUME NEW t \in B PROVE \E s \in A : with[s] = t
    <3>1. t \ {x} \in A /\ (t \ {x}) \cup {x} = t
      BY <1>2
    <3> QED
      BY <3>1
  <2> HIDE DEF with, A, B
  <2> QED
    BY <2>1, <2>2, <2>3 DEF Bijection, Injection, Surjection, IsInjective
<1> HIDE DEF with, A, B, C
<1>4. IsFiniteSet(B) /\ Cardinality(B) = Cardinality(A)
  BY <1>1, <1>3, FS_Bijection DEF ExistsBijection
<1>5. Cardinality(C) = Cardinality(A) + Cardinality(B)
  <2>1. Cardinality(A \cup B) =
          Cardinality(A) + Cardinality(B) - Cardinality(A \cap B)
    BY <1>1, <1>4, FS_Union
  <2>2. Cardinality(A \cap B) = 0 /\ Cardinality(A) \in Nat /\ Cardinality(B) \in Nat
    BY <1>1, <1>2, <1>4, FS_EmptySet, FS_CardinalityType
  <2> QED
    BY <1>2, <2>1, <2>2
<1>6. Cardinality(A) \in Nat /\ Cardinality(A) # 0
  <2>1. A # {}
    BY DEF A
  <2> QED
    BY <1>1, <2>1, FS_CardinalityType, FS_EmptySet
<1> QED
  BY <1>1, <1>4, <1>5, <1>6

(* What divides an odd multiple and is a power of two divides the number.  *)
LEMMA OddFactor ==
  ASSUME NEW a \in Int, a % 2 = 1
  PROVE  \A n \in Nat : \A x, m \in Int :
           a * x = 2 ^ n * m => \E y \in Int : x = 2 ^ n * y
<1> DEFINE Divides(n) == \A x, m \in Int :
             a * x = 2 ^ n * m => \E y \in Int : x = 2 ^ n * y
           Good == {n \in Nat : Divides(n)}
<1>1. Divides(0)
  <2>1. 2 ^ 0 = 1
    <3>1. IsFiniteSet({}) /\ Cardinality({}) = 0
      BY FS_EmptySet
    <3>2. Cardinality(SUBSET {}) = 2 ^ Cardinality({})
      BY <3>1, FS_SUBSET
    <3>3. SUBSET {} = {{}}
      OBVIOUS
    <3> QED
      BY <3>1, <3>2, <3>3, FS_Singleton
  <2> QED
    BY <2>1
<1>2. ASSUME NEW n \in Nat, Divides(n) PROVE Divides(n + 1)
  <2> SUFFICES ASSUME NEW x \in Int, NEW m \in Int, a * x = 2 ^ (n + 1) * m
               PROVE  \E y \in Int : x = 2 ^ (n + 1) * y
    OBVIOUS
  <2>1. PICK p : p = 2 ^ n
    OBVIOUS
  <2>2. p \in Nat /\ 2 ^ (n + 1) = 2 * p
    BY <2>1, Doubling
  <2>3. a * x = 2 * (p * m) /\ p * m \in Int
    BY <2>2
  <2>4. PICK u \in Int : a = 2 * u + 1
    OBVIOUS
  <2>5. a * x = 2 * (u * x) + x /\ u * x \in Int
    BY <2>4
  <2>6. PICK z \in Int : x = 2 * z
    <3>1. PICK v \in Int, w \in Int : v = p * m /\ w = u * x
      BY <2>3, <2>5
    <3>2. x = 2 * (v - w) /\ v - w \in Int
      BY <2>3, <2>5, <3>1
    <3> QED
      BY <3>2
  <2>7. a * z \in Int /\ a * x = 2 * (a * z)
    BY <2>6
  <2>8. a * z = p * m
    BY <2>3, <2>7
  <2>9. PICK y \in Int : z = p * y
    BY <1>2, <2>1, <2>8
  <2>10. x = (2 * p) * y
    BY <2>2, <2>6, <2>9
  <2> QED
    BY <2>2, <2>10
<1> HIDE DEF Divides
<1>3. \A n \in Nat : n \in Good
  <2>1. Good \in SUBSET Nat /\ 0 \in Good /\ \A n \in Good : n + 1 \in Good
    BY <1>1, <1>2
  <2> HIDE DEF Good
  <2> QED
    BY <2>1, Induction
<1> QED
  BY <1>3 DEF Divides
-----------------------------------------------------------------------------
(* The arithmetic of the strides and of the range's size.                  *)
LEMMA TriangleIs ==
  ASSUME NEW i \in Nat
  PROVE  /\ Triangle(i) \in Nat /\ 2 * Triangle(i) = i * (i + 1)
         /\ Triangle(i + 1) = Triangle(i) + i + 1
<1>1. ASSUME NEW n \in Nat PROVE Triangle(n) \in Nat /\ 2 * Triangle(n) = n * (n + 1)
  <2>1. PICK p : p = n * (n + 1)
    OBVIOUS
  <2>2. \E z \in Nat : p = 2 * z
    <3>1. CASE n % 2 = 0
      <4>1. PICK u \in Nat : n = 2 * u
        BY <3>1
      <4>2. u * (n + 1) \in Nat /\ p = 2 * (u * (n + 1))
        BY <2>1, <4>1
      <4> QED
        BY <4>2
    <3>2. CASE n % 2 = 1
      <4>0. PICK v \in Nat : n = 2 * v + 1
        BY <3>2
      <4>1. PICK u \in Nat : n + 1 = 2 * u
        <5>1. n + 1 = 2 * (v + 1) /\ v + 1 \in Nat
          BY <4>0
        <5> QED
          BY <5>1
      <4>2. n * u \in Nat /\ p = 2 * (n * u)
        <5>1. p = n * (2 * u)
          BY <2>1, <4>1
        <5>2. n * u \in Nat /\ n * (2 * u) = 2 * (n * u)
          OBVIOUS
        <5> QED
          BY <5>1, <5>2
      <4> QED
        BY <4>2
    <3> QED
      BY <3>1, <3>2
  <2>3. PICK z \in Nat : p = 2 * z
    BY <2>2
  <2>4. Triangle(n) = p \div 2
    BY <2>1 DEF Triangle
  <2> QED
    BY <2>1, <2>3, <2>4
<1>2. (i + 1) * (i + 1 + 1) = i * (i + 1) + 2 * (i + 1)
  OBVIOUS
<1>3. /\ Triangle(i) \in Nat /\ 2 * Triangle(i) = i * (i + 1)
      /\ Triangle(i + 1) \in Nat /\ 2 * Triangle(i + 1) = (i + 1) * (i + 1 + 1)
  BY <1>1
<1> QED
  BY <1>2, <1>3

LEMMA ModDiff ==
  ASSUME NEW n \in Nat \ {0}, NEW a \in Int, NEW b \in Int, a % n = b % n
  PROVE  \E m \in Int : a - b = n * m
<1>0. ASSUME NEW c \in Int, NEW r, r = c % n PROVE \E q \in Int : c = n * q + r
  <2>1. PICK q : q = c \div n
    OBVIOUS
  <2>2. q \in Int /\ c = n * q + r
    BY <1>0, <2>1
  <2> QED
    BY <2>2
<1>1. PICK r : r = a % n /\ r = b % n
  OBVIOUS
<1>2. PICK x \in Int : a = n * x + r
  BY <1>0, <1>1
<1>3. PICK y \in Int : b = n * y + r
  BY <1>0, <1>1
<1>4. x - y \in Int /\ a - b = n * (x - y)
  <2>1. r \in Int
    BY <1>1
  <2>2. n * x \in Int /\ n * y \in Int /\ n * (x - y) = n * x - n * y
    OBVIOUS
  <2> QED
    BY <1>2, <1>3, <2>1, <2>2
<1> QED
  BY <1>4

PowerDivides(n, x) == \E z \in Int : x = 2 ^ n * z

(* OddFactor for one product. *)
LEMMA OddFactorAt ==
  ASSUME NEW n \in Nat, NEW a \in Int, NEW x \in Int, NEW m \in Int,
         a % 2 = 1, a * x = 2 ^ n * m
  PROVE  PowerDivides(n, x)
<1>1. \A y, r \in Int : a * y = 2 ^ n * r => \E z \in Int : y = 2 ^ n * z
  BY OddFactor
<1> QED
  BY <1>1 DEF PowerDivides

(* In a range whose size is a power of two, each iteration looks at a slot *)
(* of its own.                                                             *)
LEMMA SlotsDiffer ==
  ASSUME NEW k \in Nat, Size = 2 ^ k, next \in Nat, From \in Nat,
         NEW i \in Slots, NEW j \in Slots, LookedAt(i) = LookedAt(j)
  PROVE  i = j
<1>1. Size \in Nat \ {0} /\ i \in Nat /\ j \in Nat /\ i < Size /\ j < Size
  BY Doubling DEF Slots
<1>2. /\ Triangle(i) \in Nat /\ 2 * Triangle(i) = i * (i + 1)
      /\ Triangle(j) \in Nat /\ 2 * Triangle(j) = j * (j + 1)
  BY <1>1, TriangleIs
<1>3. PICK m \in Int : Triangle(i) - Triangle(j) = Size * m
  <2>1. PICK a \in Int, b \in Int : /\ a = next - From + Triangle(i)
                                    /\ b = next - From + Triangle(j)
    BY <1>2
  <2>2. a % Size = b % Size
    BY <2>1 DEF LookedAt
  <2>3. PICK m \in Int : a - b = Size * m
    BY <1>1, <2>2, ModDiff
  <2>4. a - b = Triangle(i) - Triangle(j)
    BY <1>2, <2>1
  <2> QED
    BY <2>3, <2>4
<1>4. PICK x \in Int, y \in Int : x = i - j /\ y = i + j + 1
  BY <1>1
<1>5. x * y = 2 ^ (k + 1) * m
  <2>1. x * y = i * (i + 1) - j * (j + 1)
    BY <1>1, <1>4
  <2>2. 2 ^ (k + 1) = 2 * Size
    BY Doubling
  <2>3. PICK w \in Int : w = Size * m
    BY <1>1
  <2>4. (2 * Size) * m = 2 * w
    BY <1>1, <2>3
  <2>5. i * (i + 1) \in Int /\ j * (j + 1) \in Int
    BY <1>1
  <2> QED
    BY <1>2, <1>3, <2>1, <2>2, <2>3, <2>4, <2>5
<1>6. k + 1 \in Nat /\ 2 ^ (k + 1) = 2 * Size
  BY Doubling
<1>7. CASE x % 2 = 1
  <2>1. PICK z \in Int : y = 2 ^ (k + 1) * z
    <3>1. PowerDivides(k + 1, y)
      BY <1>5, <1>6, <1>7, OddFactorAt
    <3> QED
      BY <3>1 DEF PowerDivides
  <2>2. 0 < y /\ y < 2 * Size /\ y = (2 * Size) * z
    BY <1>1, <1>4, <1>6, <2>1
  <2> QED
    BY <1>1, <2>2
<1>8. CASE y % 2 = 1
  <2>1. y * x = 2 ^ (k + 1) * m
    BY <1>5
  <2>2. PICK z \in Int : x = 2 ^ (k + 1) * z
    <3>1. PowerDivides(k + 1, x)
      BY <1>6, <1>8, <2>1, OddFactorAt
    <3> QED
      BY <3>1 DEF PowerDivides
  <2>3. - (2 * Size) < x /\ x < 2 * Size /\ x = (2 * Size) * z
    BY <1>1, <1>4, <1>6, <2>2
  <2>4. z = 0
    BY <1>1, <2>3
  <2> QED
    BY <1>1, <1>4, <2>3, <2>4
<1>9. x % 2 = 1 \/ y % 2 = 1
  BY <1>1, <1>4
<1> QED
  BY <1>7, <1>8, <1>9

(* And so the iterations together look at all of them.                     *)
LEMMA AllLookedAt ==
  ASSUME NEW k \in Nat, Size = 2 ^ k, next \in Nat, From \in Nat
  PROVE  \A s \in Slots : \E i \in Slots : LookedAt(i) = s
<1> DEFINE f == [i \in Slots |-> LookedAt(i)]
<1>1. Size \in Nat \ {0} /\ IsFiniteSet(Slots)
  <2>1. Size \in Nat \ {0}
    BY Doubling
  <2> QED
    BY <2>1, FS_Interval DEF Slots
<1>2. f \in [Slots -> Slots]
  <2>1. ASSUME NEW i \in Slots PROVE LookedAt(i) \in Slots
    <3>1. i \in Nat
      BY <1>1 DEF Slots
    <3>2. next - From + Triangle(i) \in Int
      BY <3>1, TriangleIs
    <3> QED
      BY <1>1, <3>2 DEF LookedAt, Slots
  <2> QED
    BY <2>1
<1>3. ASSUME NEW i \in Slots, NEW j \in Slots, f[i] = f[j] PROVE i = j
  BY <1>3, SlotsDiffer
<1> HIDE DEF f
<1>4. f \in Injection(Slots, Slots)
  BY <1>2, <1>3 DEF Injection, IsInjective
<1>5. f \in Surjection(Slots, Slots)
  BY <1>1, <1>4, FS_Injection
<1> QED
  BY <1>5 DEF Surjection, f
-----------------------------------------------------------------------------
(* The slot of an iteration is the last one's with the stride added.       *)
LEMMA Remainder ==
  ASSUME NEW n \in Nat \ {0}, NEW q \in Int, NEW r \in 0 .. n - 1
  PROVE  (n * q + r) % n = r
OBVIOUS

LEMMA ModAdd ==
  ASSUME NEW n \in Nat \ {0}, NEW a \in Int, NEW b \in Nat, b < n
  PROVE  /\ a % n \in 0 .. n - 1
         /\ (a + b) % n = IF (a % n) + b < n THEN (a % n) + b ELSE (a % n) + b - n
<1>1. PICK q, r : q = a \div n /\ r = a % n
  OBVIOUS
<1>2. q \in Int /\ r \in 0 .. n - 1 /\ a = n * q + r
  BY <1>1
<1>3. CASE r + b < n
  <2>1. a + b = n * q + (r + b) /\ r + b \in 0 .. n - 1
    BY <1>2, <1>3
  <2> QED
    BY <1>1, <1>2, <1>3, <2>1, Remainder
<1>4. CASE ~ (r + b < n)
  <2>1. a + b = n * (q + 1) + (r + b - n) /\ r + b - n \in 0 .. n - 1 /\ q + 1 \in Int
    <3>1. n * (q + 1) = n * q + n
      BY <1>2
    <3>2. n * q \in Int
      BY <1>2
    <3> QED
      BY <1>2, <1>4, <3>1, <3>2
  <2> QED
    BY <1>1, <1>2, <1>4, <2>1, Remainder
<1> QED
  BY <1>3, <1>4

LEMMA LooksNext ==
  ASSUME next \in Nat, NEW i \in Nat, i + 1 < Size
  PROVE  /\ LookedAt(i) \in Slots
         /\ LookedAt(i + 1) = IF LookedAt(i) + (i + 1) < Size
                              THEN LookedAt(i) + (i + 1)
                              ELSE LookedAt(i) + (i + 1) - Size
<1>1. Size \in Nat \ {0} /\ From \in Nat
  BY NatAssumption DEF Size
<1>2. PICK a : a = next - From + Triangle(i)
  OBVIOUS
<1>3. a \in Int /\ next - From + Triangle(i + 1) = a + (i + 1)
  <2>1. PICK t, u : t = Triangle(i) /\ u = Triangle(i + 1)
    OBVIOUS
  <2>2. t \in Nat /\ u = t + i + 1
    BY <2>1, TriangleIs
  <2> QED
    BY <1>1, <1>2, <2>1, <2>2
<1>4. i + 1 \in Nat /\ i + 1 < Size
  OBVIOUS
<1>5. /\ a % Size \in 0 .. Size - 1
      /\ (a + (i + 1)) % Size = IF (a % Size) + (i + 1) < Size
                                THEN (a % Size) + (i + 1) ELSE (a % Size) + (i + 1) - Size
  BY <1>1, <1>3, <1>4, ModAdd
<1>6. LookedAt(i) = a % Size /\ LookedAt(i + 1) = (a + (i + 1)) % Size
  BY <1>2, <1>3 DEF LookedAt
<1> QED
  BY <1>5, <1>6 DEF Slots

(* A search begins at next, which may be just behind the range.            *)
LEMMA LooksFirst ==
  ASSUME next \in From .. To
  PROVE  LookedAt(0) = IF next = To THEN 0 ELSE next - From
<1>1. Triangle(0) = 0
  BY DEF Triangle
<1>2. Size \in Nat \ {0} /\ From \in Nat /\ To \in Nat /\ To = From + Size
  BY NatAssumption DEF Size
<1>3. LookedAt(0) = (next - From) % Size
  BY <1>1, <1>2 DEF LookedAt
<1>4. CASE next = To
  <2>1. next - From = Size
    BY <1>2, <1>4
  <2> QED
    BY <1>2, <1>3, <1>4, <2>1, ModOnce
<1>5. CASE next # To
  <2>1. next - From \in 0 .. Size - 1
    BY <1>2, <1>5
  <2> QED
    BY <1>2, <1>3, <1>5, <2>1, ModSmall
<1> QED
  BY <1>4, <1>5

(* A search under way has found every slot it has looked at leased, and    *)
(* goes on from the last one.                                              *)
SearchSoFar ==
  alloc # Idle =>
    /\ alloc.pc = "clear" => alloc.i = 0
    /\ alloc.next = IF alloc.i = 0 THEN next ELSE From + LookedAt(alloc.i - 1)
    /\ \A j \in 0 .. alloc.i - 1 : mapped[LookedAt(j)]

(* What NoPanicInLoop assumes: no sum of a search wraps.                   *)
NoWrap == 2 * To - From - 2 < Word

LEMMA CandidateIsLookedAt ==
  ASSUME NoWrap, TypeOK, LoopInRange, SearchSoFar, Searching, alloc.i < Size
  PROVE  candidate = From + LookedAt(alloc.i)
<1>1. alloc \in Calls /\ alloc # Idle
  BY DEF TypeOK, Searching, Idle
<1>2. PICK i, n, q : i = alloc.i /\ n = alloc.next /\ q = n + i
  OBVIOUS
<1>3. /\ i \in Nat /\ i < Size /\ Size \in Nat \ {0} /\ From \in Nat /\ To \in Nat
      /\ Word \in Nat /\ To = From + Size /\ next \in From .. To /\ To < Word
  BY <1>1, <1>2, NatAssumption DEF Calls, Size, LoopInRange
<1>4. n \in From .. To /\ (i > 0 => n < To)
  BY <1>1, <1>2 DEF LoopInRange
<1>5. /\ candidate = IF q % Word >= To THEN (((q % Word) % To) + From) % Word ELSE q % Word
      /\ q \in Nat /\ q < Word /\ q >= From /\ q - To < Size /\ q < 2 * To
  <2>1. q \in Nat /\ q < Word /\ q >= From /\ q - To < Size /\ q < 2 * To
    BY <1>2, <1>3, <1>4 DEF NoWrap
  <2> QED
    BY <1>2, <2>1 DEF candidate
<1>6. q % Word = q
  BY <1>3, <1>5, ModSmall
<1>7. candidate = IF q >= To THEN q - To + From ELSE q
  <2>1. CASE q >= To
    <3>1. q % To = q - To
      BY <1>3, <1>5, <2>1, ModOnce
    <3>2. q - To + From \in 0 .. Word - 1
      BY <1>3, <1>5, <2>1
    <3>3. (q - To + From) % Word = q - To + From
      BY <1>3, <3>2, ModSmall
    <3> QED
      BY <1>5, <1>6, <2>1, <3>1, <3>3
  <2>2. CASE ~ (q >= To)
    BY <1>5, <1>6, <2>2
  <2> QED
    BY <2>1, <2>2
<1>8. CASE i = 0
  <2>1. n = next /\ q = next
    BY <1>1, <1>2, <1>3, <1>8 DEF SearchSoFar
  <2>2. LookedAt(0) = IF next = To THEN 0 ELSE next - From
    BY <1>3, LooksFirst
  <2>3. candidate = From + LookedAt(0)
    BY <1>3, <1>7, <2>1, <2>2
  <2> QED
    BY <1>2, <1>8, <2>3
<1>9. CASE i # 0
  <2>1. PICK k \in Nat : i = k + 1
    <3>1. i - 1 \in Nat /\ i = (i - 1) + 1
      BY <1>3, <1>9
    <3> QED
      BY <3>1
  <2>2. alloc.next = From + LookedAt(i - 1)
    BY <1>1, <1>2, <1>9 DEF SearchSoFar
  <2>3. i - 1 = k
    BY <2>1
  <2>4. n = From + LookedAt(k)
    BY <1>2, <2>2, <2>3
  <2>5. /\ LookedAt(k) \in Slots
        /\ LookedAt(k + 1) = IF LookedAt(k) + (k + 1) < Size
                             THEN LookedAt(k) + (k + 1) ELSE LookedAt(k) + (k + 1) - Size
    BY <1>3, <2>1, LooksNext
  <2>6. PICK l \in Nat : l = LookedAt(k)
    BY <1>3, <2>5 DEF Slots
  <2>7. candidate = From + LookedAt(k + 1)
    BY <1>2, <1>3, <1>7, <2>1, <2>4, <2>5, <2>6
  <2> QED
    BY <1>2, <2>1, <2>7
<1> QED
  BY <1>8, <1>9

LEMMA SearchStep ==
  ASSUME NoWrap, IInv, LoopInRange, SearchSoFar, [Next]_vars
  PROVE  SearchSoFar'
<1> USE DEF IInv
<1>0. ASSUME alloc' = alloc, next' = next, mapped' = mapped PROVE SearchSoFar'
  BY <1>0 DEF SearchSoFar, LookedAt
<1>1. ASSUME NEW src \in Clients, NEW dst \in Dests, AllocBegin(src, dst)
      PROVE  SearchSoFar'
  <2>1. alloc'.i = 0 /\ alloc'.next = next /\ next' = next
    BY <1>1 DEF AllocBegin
  <2>2. 0 .. alloc'.i - 1 = {}
    BY <2>1
  <2> QED
    BY <2>1, <2>2 DEF SearchSoFar
<1>2. CASE ClearExpired
  <2>1. /\ alloc' = [alloc EXCEPT !.pc = "map"] /\ alloc \in Calls /\ alloc # Idle
        /\ alloc.pc = "clear" /\ next' = next
    BY <1>2 DEF ClearExpired, TypeOK, Idle
  <2>2. alloc'.next = alloc.next /\ alloc'.i = 0 /\ alloc'.pc = "map" /\ alloc.i = 0
    BY <2>1 DEF Calls, SearchSoFar
  <2>3. alloc'.next = next' /\ 0 .. alloc'.i - 1 = {}
    BY <2>1, <2>2 DEF SearchSoFar
  <2> QED
    BY <2>2, <2>3 DEF SearchSoFar
<1>3. ASSUME alloc' = Idle PROVE SearchSoFar'
  BY <1>3 DEF SearchSoFar
<1>4. CASE MapSkip
  <2>1. /\ alloc \in Calls /\ alloc # Idle /\ Searching /\ alloc.i < Size
        /\ alloc' = [alloc EXCEPT !.i = @ + 1, !.next = candidate]
        /\ next' = next /\ mapped' = mapped /\ mapped[Slot(candidate)]
        /\ Slot(candidate) \in Slots /\ alloc.pc = "map"
    BY <1>4 DEF MapSkip, Searching, TypeOK, Idle
  <2>2. PICK i : i = alloc.i
    OBVIOUS
  <2>3. i \in Nat /\ From \in Nat /\ alloc'.i = i + 1 /\ alloc'.next = candidate
        /\ alloc'.pc = "map"
    BY <2>1, <2>2, NatAssumption DEF Calls
  <2>4. candidate = From + LookedAt(i)
    BY <2>1, <2>2, CandidateIsLookedAt
  <2>5. mapped[LookedAt(i)]
    <3>1. candidate \in 0 .. Word - 1
      BY <2>1, CandidateIsWord
    <3>2. candidate \in From .. To - 1 /\ Slot(candidate) = candidate - From
      BY <2>1, <3>1, SlotOfPort
    <3>3. PICK c \in Nat : c = candidate /\ c >= From
      BY <2>3, <3>2, NatAssumption
    <3>4. Slot(candidate) \in Nat
      BY <2>3, <3>2, <3>3
    <3>5. PICK l : l = LookedAt(i)
      OBVIOUS
    <3>6. l \in Int
      <4>1. Triangle(i) \in Nat /\ next \in Int /\ Size \in Nat \ {0}
        <5>1. Triangle(i) \in Nat
          BY <2>3, TriangleIs
        <5> QED
          BY <5>1, NatAssumption DEF Size, LoopInRange
      <4> QED
        BY <2>3, <3>5, <4>1 DEF LookedAt
    <3>7. Slot(candidate) = l
      BY <2>3, <2>4, <3>2, <3>5, <3>6
    <3> QED
      BY <2>1, <3>5, <3>7
  <2>6. \A j \in 0 .. i : mapped[LookedAt(j)]
    <3>1. \A j \in 0 .. i - 1 : mapped[LookedAt(j)]
      BY <2>1, <2>2 DEF SearchSoFar
    <3> QED
      BY <2>3, <2>5, <3>1
  <2>7. \A j : LookedAt(j)' = LookedAt(j)
    BY <2>1 DEF LookedAt
  <2>8. (i + 1) - 1 = i /\ i + 1 # 0
    BY <2>3
  <2> QED
    BY <2>1, <2>3, <2>4, <2>6, <2>7, <2>8 DEF SearchSoFar
<1> QED
  BY <1>0, <1>1, <1>2, <1>3, <1>4
     DEF Next, vars, MapKnown, MapNew, MapFull, MapPanic, GetSession, Tick

(* A search that ends without a port has none to give: a client gets no    *)
(* port only when all of them are leased.                                  *)
FullMeansLeased ==
  Searching /\ alloc.i = Size => \A s \in Slots : mapped[s]

(* The growing strides of Map's loop leave no slot out, in a range whose   *)
(* size is a power of two and where no sum wraps.  (In other ranges they   *)
(* do: of three ports the search looks at two.)                            *)
THEOREM NoPortLeftOut ==
  ASSUME NoWrap, NEW k \in Nat, Size = 2 ^ k
  PROVE  Spec => []FullMeansLeased
<1>1. Init => SearchSoFar
  BY DEF Init, SearchSoFar
<1>2. IInv /\ LoopInRange /\ SearchSoFar /\ [Next]_vars => SearchSoFar'
  BY SearchStep
<1>3. IInv /\ LoopInRange /\ SearchSoFar => FullMeansLeased
  <2> SUFFICES ASSUME IInv, LoopInRange, SearchSoFar, Searching, alloc.i = Size,
                      NEW s \in Slots
               PROVE  mapped[s]
    BY DEF FullMeansLeased
  <2>1. next \in Nat /\ From \in Nat /\ Size \in Nat
    BY NatAssumption DEF LoopInRange, Size
  <2>2. PICK i \in Slots : LookedAt(i) = s
    BY <2>1, AllLookedAt
  <2>3. alloc # Idle /\ i \in 0 .. alloc.i - 1
    BY <2>1, <2>2 DEF Searching, Idle, Slots
  <2> QED
    BY <2>2, <2>3 DEF SearchSoFar
<1> QED
  BY <1>1, <1>2, <1>3, Invariance, LoopInvariance, PTL DEF Spec
-----------------------------------------------------------------------------
(* The sessions a sweep is about to drop were idle when it began, or have  *)
(* been looked up since.                                                   *)
SweepJustified ==
  /\ alloc # Idle => alloc.now <= now
  /\ alloc.pc = "clear" =>
       \A s \in alloc.expired :
         \/ alloc.now - sessions[s].lastTouch >= SessionLife
         \/ sessions[s].lastTouch >= alloc.now

LEMMA SweepStep ==
  ASSUME IInv, SweepJustified, [Next]_vars
  PROVE  SweepJustified'
<1> USE DEF IInv
<1>1. ASSUME NEW src \in Clients, NEW dst \in Dests, AllocBegin(src, dst)
      PROVE  SweepJustified'
  BY <1>1 DEF AllocBegin, SweepJustified, IsExpired, TypeOK
<1>2. CASE ClearExpired
  <2>1. alloc' = [alloc EXCEPT !.pc = "map"] /\ alloc \in Calls /\ alloc # Idle
    BY <1>2 DEF ClearExpired, TypeOK, Idle
  <2>2. alloc'.now = alloc.now /\ alloc'.pc = "map" /\ now' = now
    BY <1>2, <2>1 DEF Calls, ClearExpired
  <2>. QED  BY <2>1, <2>2 DEF SweepJustified
<1>3. CASE MapKnown \/ MapNew \/ MapFull
  <2>1. alloc' = Idle
    BY <1>3 DEF MapKnown, MapNew, MapFull
  <2>. QED  BY <2>1 DEF SweepJustified, Idle
<1>4. CASE MapSkip
  <2>1. /\ alloc' = [alloc EXCEPT !.i = @ + 1, !.next = candidate]
        /\ alloc \in Calls /\ alloc # Idle /\ alloc.pc = "map" /\ now' = now
    BY <1>4 DEF MapSkip, Searching, TypeOK, Idle
  <2>2. alloc'.now = alloc.now /\ alloc'.pc = "map"
    BY <2>1 DEF Calls
  <2>. QED  BY <2>1, <2>2 DEF SweepJustified
<1>5. CASE MapPanic
  BY <1>5 DEF MapPanic, SweepJustified
<1>6. ASSUME NEW port \in PeerPorts, GetSession(port)
      PROVE  SweepJustified'
  <2>1. alloc' = alloc /\ now' = now
    BY <1>6 DEF GetSession
  <2>2. ASSUME alloc.pc = "clear", NEW s \in alloc.expired
        PROVE  \/ alloc.now - sessions'[s].lastTouch >= SessionLife
               \/ sessions'[s].lastTouch >= alloc.now
    <3>1. s \in Slots /\ alloc # Idle /\ sessions[s] \in NatSession
      BY <2>2 DEF TypeOK, Calls, Idle, SweepDropsSessions
    <3>2. sessions'[s] = sessions[s] \/ sessions'[s].lastTouch = now
      BY <1>6, <3>1 DEF GetSession, TypeOK, NatSession
    <3>. QED  BY <2>2, <3>1, <3>2 DEF SweepJustified
  <2>. QED  BY <2>1, <2>2 DEF SweepJustified
<1>7. CASE Tick
  BY <1>7 DEF Tick, SweepJustified, TypeOK, Calls, Idle
<1>8. CASE UNCHANGED vars
  BY <1>8 DEF vars, SweepJustified
<1>. QED
  BY <1>1, <1>2, <1>3, <1>4, <1>5, <1>6, <1>7, <1>8 DEF Next

LEMMA SweepInvariance == Spec => []SweepJustified
<1>1. Init => SweepJustified
  BY DEF Init, SweepJustified, Idle
<1>2. IInv /\ SweepJustified /\ [Next]_vars => SweepJustified'
  BY SweepStep
<1>. QED  BY <1>1, <1>2, Invariance, PTL DEF Spec

(* Which steps drop or replace a session.                                  *)
LEMMA SessionSteps ==
  ASSUME IInv, [Next]_vars, NEW s \in Slots, sessions[s] # NoSession
  PROVE  /\ sessions'[s] = NoSession => ClearExpired /\ s \in alloc.expired
         /\ sessions'[s] # NoSession => /\ sessions'[s].src = sessions[s].src
                                        /\ sessions'[s].dst = sessions[s].dst
<1> USE DEF IInv
<1>0. sessions[s] \in NatSession
  BY DEF TypeOK
<1>1. CASE sessions' = sessions
  BY <1>1
<1>2. CASE ClearExpired
  BY <1>2 DEF ClearExpired
<1>3. CASE MapNew
  <2>1. /\ ~ mapped[Slot(candidate)]
        /\ \E n : sessions' = [sessions EXCEPT ![Slot(candidate)] = n]
    BY <1>3 DEF MapNew
  <2>2. mapped[s]
    BY <1>0 DEF SessionOwnsPort, MappedIffLeased, NatSession, Hashes
  <2>. QED  BY <2>1, <2>2 DEF TypeOK
<1>4. ASSUME NEW port \in PeerPorts, GetSession(port)
      PROVE  /\ sessions'[s] # NoSession
             /\ sessions'[s].src = sessions[s].src
             /\ sessions'[s].dst = sessions[s].dst
  <2>1. \/ sessions'[s] = sessions[s]
        \/ sessions'[s] = [sessions[s] EXCEPT !.lastTouch = now]
    BY <1>4 DEF GetSession, TypeOK
  <2>2. [sessions[s] EXCEPT !.lastTouch = now] \in NatSession
    BY <1>0 DEF NatSession, TypeOK
  <2>. QED  BY <1>0, <2>1, <2>2, NoSessionAssumption DEF NatSession
<1>5. ASSUME NEW src \in Clients, NEW dst \in Dests, AllocBegin(src, dst)
      PROVE  sessions' = sessions
  BY <1>5 DEF AllocBegin
<1>6. MapKnown \/ MapSkip \/ MapFull \/ MapPanic \/ Tick \/ UNCHANGED vars
        => sessions' = sessions
  BY DEF MapKnown, MapSkip, MapFull, MapPanic, Tick, vars
<1>. QED  BY <1>1, <1>2, <1>3, <1>4, <1>5, <1>6 DEF Next

(* A session is dropped only after a whole life without a look-up, or when *)
(* the look-up came after the sweep had judged it.                         *)
THEOREM SessionsOutliveTheirLife == Spec => NoEarlyExpiry
<1>1. IInv /\ SweepJustified /\ [Next]_vars =>
        [\A s \in Slots :
           sessions[s] # NoSession /\ sessions'[s] = NoSession =>
             \/ alloc.now - sessions[s].lastTouch >= SessionLife
             \/ sessions[s].lastTouch >= alloc.now]_vars
  BY SessionSteps DEF SweepJustified, ClearExpired
<1>. QED  BY <1>1, Invariance, SweepInvariance, PTL DEF Spec, NoEarlyExpiry

(* No step moves a slot from one client to another (Map, getSession and    *)
(* clearExpiredSessions): in between it has no session.                    *)
THEOREM ConversationsStayApart == Spec => NeverHandedOver
<1>1. IInv /\ [Next]_vars =>
        [\A s \in Slots :
           sessions[s] # NoSession /\ sessions'[s] # NoSession =>
             sessions'[s].src = sessions[s].src]_vars
  BY SessionSteps
<1>. QED  BY <1>1, Invariance, PTL DEF Spec, NeverHandedOver
-----------------------------------------------------------------------------
(* The ports the clients hold, as Lease sees them.                         *)
held == [c \in Clients |-> h2Port[hashAddr(c)]]

LEMMA StepIsLease ==
  ASSUME IInv, [Next]_vars
  PROVE  PortLease!Next \/ UNCHANGED held
<1> USE DEF IInv
<1>0. \A c \in Clients : hashAddr(c) \in Hashes
  BY DEF Hashes
<1>1. CASE UNCHANGED h2Port
  BY <1>1 DEF held
<1>2. CASE MapNew
  <2> DEFINE c == alloc.src
             p == candidate
  <2>1. /\ c \in Clients /\ h2Port[hashAddr(c)] = NoPort
        /\ h2Port' = [h2Port EXCEPT ![hashAddr(c)] = p]
        /\ ~ mapped[Slot(p)] /\ Slot(p) \in Slots
    BY <1>2 DEF MapNew, Searching, TypeOK, Calls, Idle
  <2>2. p \in From .. To - 1 /\ p = From + Slot(p)
    BY <1>2, CandidateIsWord, SlotOfPort, NatAssumption DEF MapNew
  <2>3. \A d \in Clients : h2Port[hashAddr(d)] # p
    BY <1>0, <2>1, <2>2 DEF MappedIffLeased
  <2> HIDE DEF p
  <2>4. held' = [held EXCEPT ![c] = p]
    BY <1>0, <2>1, HashInjective DEF held, TypeOK
  <2>5. PortLease!Grant(c, p)
    BY <2>1, <2>3, <2>4 DEF PortLease!Grant, held
  <2>. QED  BY <2>1, <2>2, <2>5 DEF PortLease!Next
<1>3. CASE ClearExpired
  <2> DEFINE S == {c \in Clients : held[c] # NoPort /\ held'[c] = NoPort}
  <2>1. \A c \in Clients : held'[c] = NoPort \/ held'[c] = held[c]
    BY <1>0, <1>3 DEF ClearExpired, Unmap, held
  <2>2. held' = [c \in Clients |-> IF c \in S THEN NoPort ELSE held[c]]
    BY <2>1 DEF held
  <2>3. PortLease!Release(S)
    BY <2>2 DEF PortLease!Release, held
  <2>. QED  BY <2>3 DEF PortLease!Next
<1>4. ASSUME NEW src \in Clients, NEW dst \in Dests, AllocBegin(src, dst)
      PROVE  UNCHANGED h2Port
  BY <1>4 DEF AllocBegin
<1>5. ASSUME NEW port \in PeerPorts, GetSession(port)
      PROVE  UNCHANGED h2Port
  BY <1>5 DEF GetSession
<1>6. MapKnown \/ MapSkip \/ MapFull \/ MapPanic \/ Tick \/ UNCHANGED vars
        => UNCHANGED h2Port
  BY DEF MapKnown, MapSkip, MapFull, MapPanic, Tick, vars
<1>. QED  BY <1>1, <1>2, <1>3, <1>4, <1>5, <1>6 DEF Next

(* The NAT table implements Lease: only a free port is granted, only to a  *)
(* client that holds none, and a client keeps its port until a sweep takes *)
(* it back.                                                                *)
THEOREM ImplementsPortLease == Spec => RefinesLease
<1>1. Init => PortLease!Init
  BY DEF Init, PortLease!Init, Hashes
<1>2. IInv /\ [Next]_vars => [PortLease!Next]_held
  BY StepIsLease
<1>. QED
  BY <1>1, <1>2, Invariance, PTL DEF Spec, RefinesLease, PortLease!Spec, held
=============================================================================
