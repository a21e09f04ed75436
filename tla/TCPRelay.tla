------------------------------ MODULE TCPRelay ------------------------------
(***************************************************************************)
(* The TCP relay (k1/tcp_relay.go) and the accounting of the manager       *)
(* (consumeData, k1/manager.go).  Each accepted connection has a goroutine *)
(* that finds out where the client wanted to go, dials there, starts two   *)
(* more goroutines that copy either way, waits for what they have copied   *)
(* and hands the counts to the manager, over a channel without room.       *)
(***************************************************************************)
EXTENDS Naturals, FiniteSets, FiniteSetsExt

CONSTANTS
  Conns,     \* bound: the connections that clients make
  Route,     \* what the NAT and the DNS table say of each, and of its dialer
             \* whether its connections are half-closed: [src, dst, proxy, half]
  MaxBytes   \* bound: connection -> way -> the bytes sent

Srcs    == {Route[c].src : c \in Conns}
Dsts    == {Route[c].dst : c \in Conns}
Proxies == {Route[c].proxy : c \in Conns}

(* The two ways of a tunnel: from the client, and to it.                   *)
Ways == {"up", "down"}
Back(w) == IF w = "up" THEN "down" ELSE "up"

ASSUME TCPAssumption ==
  /\ Route \in [Conns ->
       [src : Srcs, dst : Dsts, proxy : Proxies, half : BOOLEAN]]
  /\ {"none", "starting", "idle"} \cap Conns = {}
  /\ IsFiniteSet(Conns) /\ MaxBytes \in [Conns -> [Ways -> Nat]]

VARIABLES
  conn,      \* connection -> where its handleConn is
  ends,      \* connection -> way -> the end where the way begins
  flow,      \* connection -> way -> the bytes of it, and the goroutine
  manager,   \* "none", "starting", "idle", or the connection it books
  hosts,     \* Manager.hosts: source -> TrafficRecord
  websites,  \* Manager.websites: destination -> TrafficRecord
  proxies    \* Manager.proxies: proxy -> TrafficRecord, without details

relayVars == <<conn, ends, flow>>
books     == <<hosts, websites, proxies>>
vars      == <<relayVars, manager, books>>

(* sent is what the end sends in all; open and eof are what the relay has  *)
(* done: reads no more there, and told the other end that nothing comes.   *)
Flow(n) == [pc |-> "copy", sent |-> n, written |-> 0, open |-> TRUE, eof |-> FALSE]
NoFlow  == [Flow(0) EXCEPT !.pc = "off"]

NoBytes == [w \in Ways |-> 0]

(* A record that is not in its map yet counts nothing.                     *)
TrafficRecord(endpoints) ==
  [bytes |-> NoBytes, details |-> [e \in endpoints |-> NoBytes]]

Init ==
  /\ conn = [c \in Conns |-> "accept"]
  /\ ends = [c \in Conns |-> [w \in Ways |-> "sends"]]
  /\ flow = [c \in Conns |-> [w \in Ways |-> NoFlow]]
  /\ manager \in {"none", "starting"}
  /\ hosts = [s \in Srcs |-> TrafficRecord(Dsts)]
  /\ websites = [d \in Dsts |-> TrafficRecord(Srcs)]
  /\ proxies = [p \in Proxies |-> TrafficRecord({})]
-----------------------------------------------------------------------------
(* The ends: the client at the beginning of "up", the host at that of      *)
(* "down".  Either may finish its sending, or be gone with its connection. *)
Relaying(c) == conn[c] \in {"upload", "download"}

Finishes(c, w) ==
  /\ Relaying(c) /\ ends[c][w] = "sends"
  /\ ends' = [ends EXCEPT ![c][w] = "finished"]
  /\ UNCHANGED <<conn, flow, manager, books>>

Resets(c, w) ==
  /\ Relaying(c) /\ ends[c][w] = "sends"
  /\ ends' = [ends EXCEPT ![c][w] = "reset"]
  /\ UNCHANGED <<conn, flow, manager, books>>
-----------------------------------------------------------------------------
(* handleConn.  There is no session, the record of the fake address has    *)
(* expired, or the dial fails: the connection is closed.                   *)
Refused(c) ==
  /\ conn[c] = "accept"
  /\ conn' = [conn EXCEPT ![c] = "closed"]
  /\ UNCHANGED <<ends, flow, manager, books>>

(* The tunnel is there, and the goroutines are started.                    *)
Dialled(c) ==
  /\ conn[c] = "accept"
  /\ conn' = [conn EXCEPT ![c] = "upload"]
  /\ \E up \in 0 .. MaxBytes[c]["up"], down \in 0 .. MaxBytes[c]["down"] :
       flow' = [flow EXCEPT ![c] = [up |-> Flow(up), down |-> Flow(down)]]
  /\ UNCHANGED <<ends, manager, books>>

Copies(c, w) ==
  /\ flow[c][w].pc = "copy" /\ flow[c][w].open
  /\ flow[c][w].written < flow[c][w].sent
  /\ \A v \in Ways : ends[c][v] # "reset"
  /\ flow' = [flow EXCEPT ![c][w].written = @ + 1]
  /\ UNCHANGED <<conn, ends, manager, books>>

(* io.Copy returns when all is read, or a read fails, or a write: that the *)
(* end it writes to is gone is not noticed before there is something to    *)
(* write.                                                                  *)
CopyReturns(c, w) ==
  /\ flow[c][w].pc = "copy"
  /\ \/ ends[c][w] = "finished" /\ flow[c][w].written = flow[c][w].sent
     \/ ends[c][w] = "reset" \/ ~ flow[c][w].open
     \/ ends[c][Back(w)] = "reset" /\ flow[c][w].written < flow[c][w].sent

(* Mutations: the destination is closed for reading too; it is not closed. *)
CopyEndsAndCloses(c, w) ==
  /\ CopyReturns(c, w)
  /\ flow' = [flow EXCEPT ![c][w].pc = "count", ![c][w].eof = Route[c].half,
                          ![c][w].open = ~ Route[c].half,
                          ![c][Back(w)].open = ~ Route[c].half]
  /\ UNCHANGED <<conn, ends, manager, books>>

CopyEndsSilently(c, w) ==
  /\ CopyReturns(c, w)
  /\ flow' = [flow EXCEPT ![c][w].pc = "count", ![c][w].open = ~ Route[c].half]
  /\ UNCHANGED <<conn, ends, manager, books>>

(* copyAndClose closes the destination for writing and the source for      *)
(* reading, copy leaves both as they are.                                  *)
CopyEnds(c, w) ==
  /\ CopyReturns(c, w)
  /\ flow' = [flow EXCEPT ![c][w].pc = "count", ![c][w].eof = Route[c].half,
                          ![c][w].open = ~ Route[c].half]
  /\ UNCHANGED <<conn, ends, manager, books>>

(* handleConn takes the count of the upload, and then of the download: the *)
(* goroutine of either waits with its count until then.                    *)
Uploaded(c) ==
  /\ conn[c] = "upload" /\ flow[c]["up"].pc = "count"
  /\ flow' = [flow EXCEPT ![c]["up"].pc = "done"]
  /\ conn' = [conn EXCEPT ![c] = "download"]
  /\ UNCHANGED <<ends, manager, books>>

(* Mutation: the report is made without waiting for the download. *)
DownloadedEarly(c) ==
  /\ conn[c] = "download"
  /\ conn' = [conn EXCEPT ![c] = IF manager = "none" THEN "return" ELSE "report"]
  /\ UNCHANGED <<ends, flow, manager, books>>

Downloaded(c) ==
  /\ conn[c] = "download" /\ flow[c]["down"].pc = "count"
  /\ flow' = [flow EXCEPT ![c]["down"].pc = "done"]
  /\ conn' = [conn EXCEPT ![c] = IF manager = "none" THEN "return" ELSE "report"]
  /\ UNCHANGED <<ends, manager, books>>

(* The manager takes the data when it is done with those before.           *)
Report(c) ==
  /\ conn[c] = "report" /\ manager = "idle"
  /\ conn' = [conn EXCEPT ![c] = "return"]
  /\ manager' = c
  /\ UNCHANGED <<ends, flow, books>>

(* The deferred calls close both ends, if they were not closed by halves.  *)
Return(c) ==
  /\ conn[c] = "return"
  /\ conn' = [conn EXCEPT ![c] = "closed"]
  /\ flow' = [flow EXCEPT ![c] =
               [w \in Ways |-> [@[w] EXCEPT !.eof = TRUE, !.open = FALSE]]]
  /\ UNCHANGED <<ends, manager, books>>
-----------------------------------------------------------------------------
(* Manager.Serve starts consumeData. *)
Serve ==
  /\ manager = "starting"
  /\ manager' = "idle"
  /\ UNCHANGED <<relayVars, books>>

Counted(c) == [w \in Ways |-> flow[c][w].written]
Plus(a, b) == [w \in Ways |-> a[w] + b[w]]

(* Mutation: the details of a known endpoint are replaced. *)
accumulateReplaces(s, name, endpoint, bytes) ==
  [s EXCEPT ![name] =
     [bytes |-> Plus(@.bytes, bytes),
      details |-> [e \in DOMAIN @.details |->
                     IF e = endpoint THEN bytes ELSE @.details[e]]]]

(* consumeData's accumulate: the record, and the detail of the endpoint.   *)
accumulate(s, name, endpoint, bytes) ==
  [s EXCEPT ![name] =
     [bytes |-> Plus(@.bytes, bytes),
      details |-> [e \in DOMAIN @.details |->
                     IF e = endpoint THEN Plus(@.details[e], bytes) ELSE @.details[e]]]]

Book ==
  \E c \in Conns :
    /\ manager = c
    /\ LET r == Route[c]
       IN  /\ hosts' = accumulate(hosts, r.src, r.dst, Counted(c))
           /\ websites' = accumulate(websites, r.dst, r.src, Counted(c))
           /\ proxies' = accumulate(proxies, r.proxy, "", Counted(c))
    /\ manager' = "idle"
    /\ UNCHANGED relayVars
-----------------------------------------------------------------------------
HandleConn(c) ==
  Refused(c) \/ Dialled(c) \/ Uploaded(c) \/ Downloaded(c) \/ Report(c) \/ Return(c)

Copying(c, w) == Copies(c, w) \/ CopyEnds(c, w)

Next ==
  \/ \E c \in Conns : HandleConn(c)
  \/ \E c \in Conns, w \in Ways : Copying(c, w) \/ Finishes(c, w) \/ Resets(c, w)
  \/ Serve
  \/ Book

Spec == Init /\ [][Next]_vars

(* Goroutines that can run do run.  The manager takes from its channel     *)
(* whatever waits.  An end that is told that nothing more comes finishes   *)
(* what it sends itself.                                                   *)
Fairness ==
  /\ \A c \in Conns : WF_vars(HandleConn(c))
  /\ \A c \in Conns, w \in Ways :
       /\ WF_vars(Copying(c, w))
       /\ WF_vars(flow[c][w].eof /\ Finishes(c, Back(w)))
  /\ WF_vars(Serve \/ Book)

FairSpec == Spec /\ Fairness
-----------------------------------------------------------------------------
Flows ==
  [pc : {"off", "copy", "count", "done"}, sent : Nat, written : Nat,
   open : BOOLEAN, eof : BOOLEAN]

Counts == [Ways -> Nat]
Records(endpoints) == [bytes : Counts, details : [endpoints -> Counts]]

(* The types.  A goroutine that has handed its count in was waited for: a  *)
(* connection that is reported or closed has no goroutine left.            *)
TypeOK ==
  /\ conn \in [Conns -> {"accept", "upload", "download", "report", "return", "closed"}]
  /\ ends \in [Conns -> [Ways -> {"sends", "finished", "reset"}]]
  /\ flow \in [Conns -> [Ways -> Flows]]
  /\ \A c \in Conns, w \in Ways : flow[c][w].written <= flow[c][w].sent
  /\ manager \in {"none", "starting", "idle"} \cup Conns
  /\ hosts \in [Srcs -> Records(Dsts)]
  /\ websites \in [Dsts -> Records(Srcs)]
  /\ proxies \in [Proxies -> Records({})]
  /\ \A c \in Conns : conn[c] \in {"report", "return", "closed"} =>
       \A w \in Ways : flow[c][w].pc \in {"off", "done"}

Through(c, w) ==
  \/ ends[c][w] = "finished" /\ flow[c][w].written = flow[c][w].sent
  \/ \E v \in Ways : ends[c][v] = "reset"

(* No end is told that nothing more comes, and no connection is closed,    *)
(* before the other end has finished and all it sent is passed on, unless  *)
(* one of them is gone: the end of one way does not cut the other.         *)
NothingCut ==
  \A c \in Conns, w \in Ways : flow[c][w].eof => Through(c, w)

(* The three books agree with each other and with the connections: every   *)
(* byte that was copied for a connection that has been reported is counted *)
(* once for its host, its website and its proxy.                           *)
Reported(c) == flow[c]["down"].pc = "done" /\ conn[c] \in {"return", "closed"}
                 /\ manager # "none" /\ manager # c

Total(P(_), w) ==
  MapThenSumSet(LAMBDA c : flow[c][w].written, {c \in Conns : Reported(c) /\ P(c)})

BooksAgree ==
  \A s \in Srcs, d \in Dsts : hosts[s].details[d] = websites[d].details[s]

BooksBalance ==
  BooksAgree /\ \A w \in Ways :
    /\ \A s \in Srcs : hosts[s].bytes[w] = Total(LAMBDA c : Route[c].src = s, w)
    /\ \A d \in Dsts : websites[d].bytes[w] = Total(LAMBDA c : Route[c].dst = d, w)
    /\ \A p \in Proxies : proxies[p].bytes[w] = Total(LAMBDA c : Route[c].proxy = p, w)
    /\ \A s \in Srcs, d \in Dsts :
         hosts[s].details[d][w] =
           Total(LAMBDA c : Route[c].src = s /\ Route[c].dst = d, w)

(* A connection that an end has finished or left is given up in the end,   *)
(* with its goroutines, although they wait for each other's counts and for *)
(* the manager: when the other end can be told so, or is through as well   *)
(* and neither end is gone without a word.                                 *)
Left(c, w) == ends[c][w] # "sends"

ConnsEnd ==
  \A c \in Conns, w \in Ways :
    Left(c, w) /\ (Route[c].half \/ Left(c, Back(w))) ~> conn[c] = "closed"
=============================================================================
