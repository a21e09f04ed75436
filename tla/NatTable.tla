------------------------------ MODULE NatTable ------------------------------
(***************************************************************************)
(* The NAT of a relay (k1/nat.go): a table of leased ports (NatTable), the *)
(* session kept for each leased port (Nat.sessions), and the sweep that    *)
(* drops idle sessions.  allocSession is called by the goroutine that      *)
(* reads the tun device only; getSession is called by it and by every      *)
(* relay goroutine, without a lock, so a call of getSession may fall       *)
(* between the steps of an allocSession in progress.                       *)
(***************************************************************************)
EXTENDS Integers, FiniteSets

CONSTANTS
  Word,            \* the number of values of uint16: port sums are modulo it
  From, To,        \* the ports of the NAT are From .. To-1
  Clients,         \* the source addresses the tun device sees: [ip, port]
  Dests,           \* the destination addresses of their packets
  NoSession,       \* the nil *NatSession
  SessionLife,     \* NatSessionLifeSeconds
  CheckInterval,   \* NatSessionCheckInterval
  StartTime,       \* the time at which the process starts
  DirectPorts,     \* ports of programs that talk to the relay by themselves
  MaxTime          \* bound: the clock stops here

ASSUME NatAssumption ==
  /\ Word \in Nat /\ From \in Nat /\ To \in Nat /\ From < To /\ To < Word
  /\ Clients \subseteq [ip : Nat, port : 0 .. Word - 1]
  /\ SessionLife \in Nat \ {0} /\ CheckInterval \in Nat
  /\ DirectPorts \subseteq 0 .. Word - 1
  /\ StartTime \in Nat /\ MaxTime \in Nat /\ CheckInterval <= StartTime

Size   == To - From
Slots  == 0 .. Size - 1
NoPort == -1

(* mapped and sessions are indexed by port-from, a uint16 subtraction. *)
Slot(port) == (port - From) % Word

(* Mutation: colliding hashes. *)
hashAddrSum(c) == c.ip + c.port

hashAddr(c) == c.ip * Word + c.port

Hashes == {hashAddr(c) : c \in Clients}

NatSession == [src : Clients, dst : Dests, lastTouch : Nat]
ASSUME NoSessionAssumption == NoSession \notin NatSession

checkThreshold == Size \div 10
-----------------------------------------------------------------------------
VARIABLES
  now,        \* the clock, in seconds
  next,       \* NatTable.next, where the next search for a port starts
  h2Port,     \* NatTable.h2Port: hash of a client -> its port, or NoPort
  mapped,     \* NatTable.mapped: slot -> is its port leased
  sessions,   \* Nat.sessions: slot -> session, or NoSession
  lastCheck,  \* Nat.lastCheck: time of the last sweep
  alloc,      \* the allocSession call in progress
  handed,     \* the ports written into redirected packets so far
  panicked    \* an index out of range, in any goroutine, has ended the process

vars == <<now, next, h2Port, mapped, sessions, lastCheck, alloc, handed,
          panicked>>

Idle == [pc |-> "idle"]

(* "expired" holds the slots whose session the sweep found too old, "i"    *)
(* and "next" are the locals of Map's loop.                                *)
Calls == [pc : {"clear", "map"}, src : Clients, dst : Dests, now : Nat,
          i : 0 .. Size, next : 0 .. Word - 1, expired : SUBSET Slots]

Init ==
  /\ now = StartTime
  /\ next = From
  /\ h2Port = [h \in Hashes |-> NoPort]
  /\ mapped = [s \in Slots |-> FALSE]
  /\ sessions = [s \in Slots |-> NoSession]
  /\ lastCheck = 0
  /\ alloc = Idle
  /\ handed = {}
  /\ panicked = FALSE

count == Cardinality({h \in Hashes : h2Port[h] # NoPort})
-----------------------------------------------------------------------------
(* allocSession reads the clock and clearExpiredSessions decides whether a *)
(* sweep is due and which sessions it drops.                               *)
(* Mutation: the wrong constant. *)
IsExpiredSoon(s) ==
  sessions[s] # NoSession /\ now - sessions[s].lastTouch >= CheckInterval

IsExpired(s) ==
  sessions[s] # NoSession /\ now - sessions[s].lastTouch >= SessionLife

SweepDue == now - lastCheck >= CheckInterval /\ count >= checkThreshold

AllocBegin(src, dst) ==
  /\ ~ panicked
  /\ alloc = Idle
  /\ alloc' = [pc |-> IF SweepDue THEN "clear" ELSE "map",
               src |-> src, dst |-> dst, now |-> now, i |-> 0, next |-> next,
               expired |-> IF SweepDue THEN {s \in Slots : IsExpired(s)}
                                       ELSE {}]
  /\ lastCheck' = IF SweepDue THEN now ELSE lastCheck
  /\ UNCHANGED <<now, next, h2Port, mapped, sessions, handed, panicked>>

(* Mutations: the bit of the port stays; the entry is zeroed, not deleted. *)
UnmapKeepsBit(hs) ==
  /\ UNCHANGED mapped
  /\ h2Port' = [h \in Hashes |-> IF h \in hs THEN NoPort ELSE h2Port[h]]

UnmapZeroes(hs) ==
  /\ mapped' = [s \in Slots |->
       mapped[s] /\ ~ \E h \in hs : h2Port[h] # NoPort /\ Slot(h2Port[h]) = s]
  /\ h2Port' = [h \in Hashes |-> IF h \in hs THEN 0 ELSE h2Port[h]]

(* Unmap for a set of client hashes. *)
Unmap(hs) ==
  /\ mapped' = [s \in Slots |->
       mapped[s] /\ ~ \E h \in hs : h2Port[h] # NoPort /\ Slot(h2Port[h]) = s]
  /\ h2Port' = [h \in Hashes |-> IF h \in hs THEN NoPort ELSE h2Port[h]]

(* Mutation: the ports are unmapped, the sessions stay. *)
ClearExpiredKeepsSessions ==
  /\ ~ panicked
  /\ alloc.pc = "clear"
  /\ Unmap({hashAddr(sessions[s].src) : s \in alloc.expired})
  /\ alloc' = [alloc EXCEPT !.pc = "map"]
  /\ UNCHANGED <<now, next, sessions, lastCheck, handed, panicked>>

(* The sweep drops the sessions it found too old, and unmaps their source. *)
ClearExpired ==
  /\ ~ panicked
  /\ alloc.pc = "clear"
  /\ sessions' = [s \in Slots |->
       IF s \in alloc.expired THEN NoSession ELSE sessions[s]]
  /\ Unmap({hashAddr(sessions[s].src) : s \in alloc.expired})
  /\ alloc' = [alloc EXCEPT !.pc = "map"]
  /\ UNCHANGED <<now, next, lastCheck, handed, panicked>>
-----------------------------------------------------------------------------
(* The client holds a port already: its session is left as it is. *)
MapKnown ==
  LET h == hashAddr(alloc.src)
  IN  /\ ~ panicked
      /\ alloc.pc = "map"
      /\ h2Port[h] # NoPort
      /\ handed' = handed \cup {h2Port[h]}
      /\ alloc' = Idle
      /\ UNCHANGED <<now, next, h2Port, mapped, sessions, lastCheck, panicked>>

(* Map's loop runs for a client without a port.  Its locals are alloc.i    *)
(* and alloc.next; candidate is the port that iteration i looks at, and    *)
(* the next iteration starts from there with a longer stride.              *)
Searching ==
  /\ ~ panicked
  /\ alloc.pc = "map"
  /\ h2Port[hashAddr(alloc.src)] = NoPort

(* Mutation: off by one at the end of the range. *)
candidatePastEnd ==
  LET q == (alloc.next + alloc.i) % Word
  IN  IF q > To THEN ((q % To) + From) % Word ELSE q

candidate ==
  LET q == (alloc.next + alloc.i) % Word
  IN  IF q >= To THEN ((q % To) + From) % Word ELSE q

MapSkip ==
  /\ Searching
  /\ alloc.i < Size
  /\ Slot(candidate) \in Slots /\ mapped[Slot(candidate)]
  /\ alloc' = [alloc EXCEPT !.i = @ + 1, !.next = candidate]
  /\ UNCHANGED <<now, next, h2Port, mapped, sessions, lastCheck, handed,
                 panicked>>

(* Mutation: the port is not marked as leased. *)
MapNewUnmarked ==
  /\ Searching
  /\ alloc.i < Size
  /\ Slot(candidate) \in Slots /\ ~ mapped[Slot(candidate)]
  /\ h2Port' = [h2Port EXCEPT ![hashAddr(alloc.src)] = candidate]
  /\ next' = (candidate + 1) % Word
  /\ sessions' = [sessions EXCEPT ![Slot(candidate)] =
       [src |-> alloc.src, dst |-> alloc.dst, lastTouch |-> alloc.now]]
  /\ handed' = handed \cup {candidate}
  /\ alloc' = Idle
  /\ UNCHANGED <<now, mapped, lastCheck, panicked>>

(* A free port is leased and a new session stored under it. *)
MapNew ==
  /\ Searching
  /\ alloc.i < Size
  /\ Slot(candidate) \in Slots /\ ~ mapped[Slot(candidate)]
  /\ mapped' = [mapped EXCEPT ![Slot(candidate)] = TRUE]
  /\ h2Port' = [h2Port EXCEPT ![hashAddr(alloc.src)] = candidate]
  /\ next' = (candidate + 1) % Word
  /\ sessions' = [sessions EXCEPT ![Slot(candidate)] =
       [src |-> alloc.src, dst |-> alloc.dst, lastTouch |-> alloc.now]]
  /\ handed' = handed \cup {candidate}
  /\ alloc' = Idle
  /\ UNCHANGED <<now, lastCheck, panicked>>

(* Mutation: the port at which the next search starts is returned. *)
MapFullReturnsNext ==
  /\ Searching
  /\ alloc.i = Size
  /\ handed' = handed \cup {next}
  /\ alloc' = Idle
  /\ UNCHANGED <<now, next, h2Port, mapped, sessions, lastCheck, panicked>>

(* The loop has ended without a port: allocSession returns (false, 0) and  *)
(* the filter redirects the packet with source port 0.                     *)
MapFull ==
  /\ Searching
  /\ alloc.i = Size
  /\ handed' = handed \cup {0}
  /\ alloc' = Idle
  /\ UNCHANGED <<now, next, h2Port, mapped, sessions, lastCheck, panicked>>

(* The uint16 sum next + i has wrapped: the index is out of range.         *)
MapPanic ==
  /\ Searching
  /\ alloc.i < Size
  /\ Slot(candidate) \notin Slots
  /\ panicked' = TRUE
  /\ UNCHANGED <<now, next, h2Port, mapped, sessions, lastCheck, alloc, handed>>
-----------------------------------------------------------------------------
(* A relay goroutine, or the tun goroutine between two allocations, looks  *)
(* up the session of a peer's port.  The peer is the source of redirected  *)
(* packets, or any program that reaches the relay's socket without KONE:   *)
(* its port may be free, another's, or none of the range.                  *)
PeerPorts == handed \cup DirectPorts

GetSession(port) ==
  /\ ~ panicked
  /\ port \in PeerPorts
  /\ IF Slot(port) \notin Slots
     THEN panicked' = TRUE /\ UNCHANGED sessions
     ELSE /\ sessions' = IF sessions[Slot(port)] = NoSession THEN sessions
                         ELSE [sessions EXCEPT ![Slot(port)].lastTouch = now]
          /\ UNCHANGED panicked
  /\ UNCHANGED <<now, next, h2Port, mapped, lastCheck, alloc, handed>>

Tick ==
  /\ ~ panicked
  /\ now < MaxTime
  /\ now' = now + 1
  /\ UNCHANGED <<next, h2Port, mapped, sessions, lastCheck, alloc, handed,
                 panicked>>

Next ==
  \/ \E src \in Clients, dst \in Dests : AllocBegin(src, dst)
  \/ ClearExpired
  \/ MapKnown
  \/ MapSkip
  \/ MapNew
  \/ MapFull
  \/ MapPanic
  \/ \E port \in PeerPorts : GetSession(port)
  \/ Tick

Spec == Init /\ [][Next]_vars
-----------------------------------------------------------------------------
TypeOK ==
  /\ now \in Nat /\ lastCheck \in Nat
  /\ next \in 0 .. Word - 1
  /\ h2Port \in [Hashes -> (From .. To - 1) \cup {NoPort}]
  /\ mapped \in [Slots -> BOOLEAN]
  /\ sessions \in [Slots -> NatSession \cup {NoSession}]
  /\ alloc \in Calls \cup {Idle}
  /\ handed \subseteq 0 .. Word - 1
  /\ panicked \in BOOLEAN

(* A relay tells its clients apart by port alone: no two clients, however  *)
(* their leases expire and are renewed, hold the same port (Map, Unmap).   *)
PortsUnique ==
  \A c, d \in Clients :
    c # d /\ h2Port[hashAddr(c)] # NoPort =>
      h2Port[hashAddr(c)] # h2Port[hashAddr(d)]

(* h2Port, mapped and sessions are three views of one set of leases, and   *)
(* no sweep or allocation leaves them apart: a bit of mapped without a     *)
(* lease would be a port lost for good, a session without a bit a port     *)
(* leased twice, a lease without its own session replies sent to nobody or *)
(* to another client.                                                      *)
MappedIffLeased ==
  \A s \in Slots : mapped[s] <=> \E h \in Hashes : h2Port[h] = From + s

SessionOwnsPort ==
  \A s \in Slots :
    /\ mapped[s] => sessions[s] # NoSession
    /\ sessions[s] # NoSession => h2Port[hashAddr(sessions[s].src)] = From + s

(* A session the sweep drops has been idle for its whole life at the time  *)
(* the sweep began, or was looked up while the sweep was under way.        *)
NoEarlyExpiry ==
  [][\A s \in Slots :
       sessions[s] # NoSession /\ sessions'[s] = NoSession =>
         \/ alloc.now - sessions[s].lastTouch >= SessionLife
         \/ sessions[s].lastTouch >= alloc.now]_vars

(* A port passes from one client to another only through a sweep that has  *)
(* left it without a session: no reply of a conversation in use, looked up *)
(* before a step and after it, goes to two clients.                        *)
NeverHandedOver ==
  [][\A s \in Slots :
       sessions[s] # NoSession /\ sessions'[s] # NoSession =>
         sessions'[s].src = sessions[s].src]_vars

(* The uint16 sums of Map's loop may wrap when the range ends close to the *)
(* last port; then the loop never yields a port outside of the range, it   *)
(* panics.  (0 is what allocSession hands out when the loop finds none.)   *)
HandedInRange == handed \subseteq (From .. To - 1) \cup {0}

(* Map's loop indexes the slots within bounds, whatever it has skipped and *)
(* wherever the last search has ended, unless a uint16 sum wraps.  (A peer *)
(* may end the process as well: see GetSession.)                           *)
Wraps == alloc.next + alloc.i >= Word

SearchInBounds == Searching /\ alloc.i < Size => Slot(candidate) \in Slots

PanicOnlyByWrap == SearchInBounds \/ Wraps

(* What TestNatAlloc checks of a call: the session of the port it returns  *)
(* has the source and the destination of the call.                         *)
SessionDescribesCall ==
  [][alloc # Idle /\ alloc' = Idle =>
       \E s \in Slots : /\ sessions'[s] # NoSession
                        /\ sessions'[s].src = alloc.src
                        /\ sessions'[s].dst = alloc.dst]_vars

(* To its callers the table is a lease of the ports by the clients: only a *)
(* free port is granted, only to a client that holds none, and a client    *)
(* keeps its port until a sweep takes it back.                             *)
PortLease == INSTANCE Lease
               WITH Holders <- Clients, Items <- From .. To - 1,
                    Nothing <- NoPort,
                    lease <- [c \in Clients |-> h2Port[hashAddr(c)]]
RefinesLease == PortLease!Spec
=============================================================================
