-------------------------- MODULE TCPRelay_proofs --------------------------
(***************************************************************************)
(* What holds of the TCP relay for any number of connections and bytes.    *)
(***************************************************************************)
EXTENDS TCPRelay, FiniteSetTheorems, WellFoundedInduction, TLAPS

(* Where the goroutines are, given where their handleConn is, and that a   *)
(* goroutine leaves its copying only with all passed on, or an end gone.   *)
Goroutines ==
  \A c \in Conns, w \in Ways :
    /\ flow[c][w].pc = "copy" => flow[c][w].open /\ ~ flow[c][w].eof
    /\ flow[c][w].pc \in {"count", "done"} => Through(c, w)
    /\ flow[c][w].pc = "off" => conn[c] \in {"accept", "closed"} /\ ~ flow[c][w].eof
    /\ conn[c] = "accept" => flow[c][w].pc = "off"
    /\ conn[c] = "download" => flow[c]["up"].pc = "done"

IInv == TypeOK /\ Goroutines /\ BooksAgree

USE DEF Ways

(* The program starts with its connections to come and its books empty.    *)
LEMMA InitIInv == Init => IInv
<1> SUFFICES ASSUME Init PROVE IInv
  OBVIOUS
<1>1. TypeOK
  <2>1. NoFlow \in Flows /\ NoFlow.written = 0 /\ NoFlow.sent = 0
    BY DEF NoFlow, Flow, Flows
  <2>2. \A E : TrafficRecord(E) \in Records(E)
    BY DEF TrafficRecord, NoBytes, Records, Counts
  <2> HIDE DEF Ways
  <2>3. /\ conn \in [Conns -> {"accept", "upload", "download", "report", "return", "closed"}]
        /\ ends \in [Conns -> [Ways -> {"sends", "finished", "reset"}]]
        /\ flow \in [Conns -> [Ways -> Flows]]
        /\ \A c \in Conns, w \in Ways : flow[c][w].written <= flow[c][w].sent
        /\ manager \in {"none", "starting", "idle"} \cup Conns
        /\ \A c \in Conns : conn[c] = "accept"
    BY <2>1 DEF Init
  <2>4. /\ hosts \in [Srcs -> Records(Dsts)]
        /\ websites \in [Dsts -> Records(Srcs)]
        /\ proxies \in [Proxies -> Records({})]
    BY <2>2 DEF Init
  <2> QED
    BY <2>3, <2>4 DEF TypeOK
<1>2. Goroutines
  BY DEF Init, Goroutines, NoFlow, Flow
<1>3. BooksAgree
  BY DEF Init, BooksAgree, TrafficRecord
<1> QED
  BY <1>1, <1>2, <1>3 DEF IInv

(* What a step of the goroutines of one connection leaves alone.           *)
LEMMA RouteOf ==
  ASSUME NEW c \in Conns
  PROVE  /\ Route[c].src \in Srcs /\ Route[c].dst \in Dsts /\ Route[c].proxy \in Proxies
         /\ Route[c].half \in BOOLEAN
  BY TCPAssumption DEF Srcs, Dsts, Proxies

(* Accounting keeps the records what they are.                             *)
LEMMA AccumulateType ==
  ASSUME NEW names, NEW endpoints, NEW s \in [names -> Records(endpoints)],
         NEW name \in names, NEW endpoint, NEW bytes \in Counts
  PROVE  accumulate(s, name, endpoint, bytes) \in [names -> Records(endpoints)]
<1>1. \A a \in Counts : Plus(a, bytes) \in Counts
  BY DEF Plus, Counts
<1> DEFINE details == [e \in DOMAIN s[name].details |->
                        IF e = endpoint THEN Plus(s[name].details[e], bytes)
                        ELSE s[name].details[e]]
<1>2. s[name] \in Records(endpoints)
  OBVIOUS
<1>3. details \in [endpoints -> Counts]
  BY <1>1, <1>2 DEF Records
<1>4. Plus(s[name].bytes, bytes) \in Counts
  BY <1>1, <1>2 DEF Records
<1>5. accumulate(s, name, endpoint, bytes) =
        [s EXCEPT ![name] = [bytes |-> Plus(s[name].bytes, bytes), details |-> details]]
  BY <1>2 DEF accumulate, Records
<1> HIDE DEF details
<1>6. [bytes |-> Plus(s[name].bytes, bytes), details |-> details] \in Records(endpoints)
  BY <1>3, <1>4 DEF Records
<1> QED
  BY <1>5, <1>6

(* Accounting changes the detail it is about, and no other.                *)
LEMMA AccumulateDetails ==
  ASSUME NEW names, NEW endpoints, NEW s \in [names -> Records(endpoints)],
         NEW name \in names, NEW endpoint, NEW bytes \in Counts,
         NEW n \in names, NEW e \in endpoints
  PROVE  accumulate(s, name, endpoint, bytes)[n].details[e] =
           IF n = name /\ e = endpoint THEN Plus(s[n].details[e], bytes)
           ELSE s[n].details[e]
<1>1. s[name] \in Records(endpoints) /\ s[n] \in Records(endpoints)
  OBVIOUS
<1>2. CASE n = name
  BY <1>1, <1>2 DEF accumulate, Records
<1>3. CASE n # name
  BY <1>1, <1>3 DEF accumulate, Records
<1> QED
  BY <1>2, <1>3

(* Each way of each connection has a record of its own.                    *)
LEMMA FlowOf ==
  ASSUME TypeOK, NEW c \in Conns, NEW w \in Ways
  PROVE  flow[c][w] \in Flows
  BY DEF TypeOK

(* Every step of a connection and of the manager keeps the invariant.      *)
LEMMA NextIInv == IInv /\ [Next]_vars => IInv'
<1> SUFFICES ASSUME IInv, [Next]_vars PROVE IInv'
  OBVIOUS
<1> USE DEF IInv
<1>1. ASSUME NEW c \in Conns, Refused(c) PROVE IInv'
  <2>1. TypeOK'
    BY <1>1 DEF Refused, TypeOK, Goroutines, books
  <2>2. Goroutines'
    BY <1>1 DEF Refused, TypeOK, Goroutines, Through
  <2> QED
    BY <1>1, <2>1, <2>2 DEF Refused, BooksAgree, books
<1>2. ASSUME NEW c \in Conns, Dialled(c) PROVE IInv'
  <2>1. PICK up \in 0 .. MaxBytes[c]["up"], down \in 0 .. MaxBytes[c]["down"] :
          flow' = [flow EXCEPT ![c] = [up |-> Flow(up), down |-> Flow(down)]]
    BY <1>2 DEF Dialled
  <2>0. up \in Nat /\ down \in Nat
    <3>1. MaxBytes[c]["up"] \in Nat /\ MaxBytes[c]["down"] \in Nat
      BY TCPAssumption
    <3> QED
      BY <3>1
  <2>2. \A n \in Nat : Flow(n) \in Flows /\ Flow(n).written <= Flow(n).sent
                        /\ Flow(n).pc = "copy" /\ Flow(n).open /\ ~ Flow(n).eof
    BY DEF Flow, Flows
  <2>3. [up |-> Flow(up), down |-> Flow(down)] \in [Ways -> Flows]
    BY <2>0, <2>2
  <2>4. \A w \in Ways : flow'[c][w] \in {Flow(up), Flow(down)}
    BY <2>1 DEF TypeOK
  <2>5. \A b \in Conns \ {c} : flow'[b] = flow[b]
    BY <2>1 DEF TypeOK
  <2>6. TypeOK'
    <3>1. flow' \in [Conns -> [Ways -> Flows]]
      BY <2>1, <2>3 DEF TypeOK
    <3>2. \A b \in Conns, w \in Ways : flow'[b][w].written <= flow'[b][w].sent
      BY <2>0, <2>2, <2>4, <2>5 DEF TypeOK
    <3> QED
      BY <1>2, <2>5, <3>1, <3>2 DEF Dialled, TypeOK, books
  <2>7. Goroutines'
    BY <1>2, <2>0, <2>2, <2>4, <2>5 DEF Dialled, TypeOK, Goroutines, Through
  <2> QED
    BY <1>2, <2>6, <2>7 DEF Dialled, BooksAgree, books
<1>3. ASSUME NEW c \in Conns, NEW w \in Ways, Copies(c, w) PROVE IInv'
  <2>1. TypeOK'
    <3> DEFINE f == [flow[c][w] EXCEPT !.written = flow[c][w].written + 1]
    <3>0. flow[c][w] \in Flows
      BY FlowOf
    <3>1. f \in Flows
      BY <3>0 DEF Flows
    <3>2. flow' = [flow EXCEPT ![c][w] = f]
      BY <1>3 DEF Copies
    <3> HIDE DEF f
    <3>3. flow' \in [Conns -> [Ways -> Flows]]
      BY <3>1, <3>2 DEF TypeOK
    <3>4. \A b \in Conns, v \in Ways : flow'[b][v].written <= flow'[b][v].sent
      BY <1>3 DEF Copies, TypeOK, Flows
    <3>5. \A b \in Conns, v \in Ways : flow'[b][v].pc = flow[b][v].pc
      BY <1>3 DEF Copies, TypeOK, Flows
    <3> QED
      BY <1>3, <3>3, <3>4, <3>5 DEF Copies, TypeOK, books
  <2>2. Goroutines'
    BY <1>3 DEF Copies, TypeOK, Flows, Goroutines, Through
  <2> QED
    BY <1>3, <2>1, <2>2 DEF Copies, BooksAgree, books
<1>4. ASSUME NEW c \in Conns, NEW w \in Ways, CopyEnds(c, w) PROVE IInv'
  <2>1. TypeOK'
    <3> DEFINE f == [flow[c][w] EXCEPT !.pc = "count", !.eof = Route[c].half,
                                       !.open = ~ Route[c].half]
    <3>0. flow[c][w] \in Flows
      BY FlowOf
    <3>1. f \in Flows
      BY <3>0, RouteOf DEF Flows
    <3>2. flow' = [flow EXCEPT ![c][w] = f]
      BY <1>4 DEF CopyEnds
    <3> HIDE DEF f
    <3>3. flow' \in [Conns -> [Ways -> Flows]]
      BY <3>1, <3>2 DEF TypeOK
    <3>4. \A b \in Conns, v \in Ways : flow'[b][v].written <= flow'[b][v].sent
      BY <1>4 DEF CopyEnds, TypeOK, Flows
    <3>5. conn[c] \notin {"report", "return", "closed"}
      BY <1>4 DEF CopyEnds, CopyReturns, TypeOK
    <3>6. \A b \in Conns, v \in Ways : b # c => flow'[b][v].pc = flow[b][v].pc
      BY <1>4 DEF CopyEnds, TypeOK
    <3> QED
      BY <1>4, <3>3, <3>4, <3>5, <3>6 DEF CopyEnds, TypeOK, books
  <2>2. Through(c, w)
    BY <1>4 DEF CopyEnds, CopyReturns, Goroutines, Through, Back
  <2>3. Goroutines'
    BY <1>4, <2>2 DEF CopyEnds, CopyReturns, TypeOK, Flows, Goroutines, Through
  <2> QED
    BY <1>4, <2>1, <2>3 DEF CopyEnds, BooksAgree, books
<1>5. ASSUME NEW c \in Conns, Uploaded(c) PROVE IInv'
  <2>1. TypeOK'
    BY <1>5 DEF Uploaded, TypeOK, Flows, books
  <2>2. Goroutines'
    BY <1>5 DEF Uploaded, TypeOK, Flows, Goroutines, Through
  <2> QED
    BY <1>5, <2>1, <2>2 DEF Uploaded, BooksAgree, books
<1>6. ASSUME NEW c \in Conns, Downloaded(c) PROVE IInv'
  <2>1. TypeOK'
    BY <1>6 DEF Downloaded, TypeOK, Flows, Goroutines, books
  <2>2. Goroutines'
    BY <1>6 DEF Downloaded, TypeOK, Flows, Goroutines, Through
  <2> QED
    BY <1>6, <2>1, <2>2 DEF Downloaded, BooksAgree, books
<1>7. ASSUME NEW c \in Conns, Report(c) PROVE IInv'
  <2>1. TypeOK'
    BY <1>7 DEF Report, TypeOK, books
  <2>2. Goroutines'
    BY <1>7 DEF Report, TypeOK, Goroutines, Through
  <2> QED
    BY <1>7, <2>1, <2>2 DEF Report, BooksAgree, books
<1>8. ASSUME NEW c \in Conns, Return(c) PROVE IInv'
  <2>1. TypeOK'
    <3>1. \A w \in Ways : [flow[c][w] EXCEPT !.eof = TRUE, !.open = FALSE] \in Flows
      BY FlowOf DEF Flows
    <3>2. flow' \in [Conns -> [Ways -> Flows]]
      BY <1>8, <3>1 DEF Return, TypeOK
    <3>3. \A b \in Conns, v \in Ways :
            /\ flow'[b][v].written = flow[b][v].written
            /\ flow'[b][v].sent = flow[b][v].sent
            /\ flow'[b][v].pc = flow[b][v].pc
      BY <1>8 DEF Return, TypeOK, Flows
    <3> QED
      BY <1>8, <3>2, <3>3 DEF Return, TypeOK, books
  <2>2. Goroutines'
    BY <1>8 DEF Return, TypeOK, Flows, Goroutines, Through
  <2> QED
    BY <1>8, <2>1, <2>2 DEF Return, BooksAgree, books
<1>9. ASSUME NEW c \in Conns, NEW w \in Ways, Finishes(c, w) \/ Resets(c, w)
      PROVE  IInv'
  <2>1. TypeOK'
    BY <1>9 DEF Finishes, Resets, TypeOK, books
  <2>2. \A b \in Conns, v \in Ways : Through(b, v) => Through(b, v)'
    BY <1>9 DEF Finishes, Resets, TypeOK, Through
  <2>3. Goroutines'
    BY <1>9, <2>2 DEF Finishes, Resets, Goroutines
  <2> QED
    BY <1>9, <2>1, <2>3 DEF Finishes, Resets, BooksAgree, books
<1>10. CASE Serve
  BY <1>10 DEF Serve, TypeOK, Goroutines, Through, BooksAgree, relayVars, books
<1>11. CASE Book
  <2>1. PICK c \in Conns :
          /\ hosts' = accumulate(hosts, Route[c].src, Route[c].dst, Counted(c))
          /\ websites' = accumulate(websites, Route[c].dst, Route[c].src, Counted(c))
          /\ proxies' = accumulate(proxies, Route[c].proxy, "", Counted(c))
          /\ manager' = "idle" /\ UNCHANGED relayVars
    BY <1>11 DEF Book
  <2>2. Counted(c) \in Counts
    BY DEF Counted, Counts, TypeOK, Flows
  <2>3. TypeOK'
    <3>1. /\ hosts' \in [Srcs -> Records(Dsts)]
          /\ websites' \in [Dsts -> Records(Srcs)]
          /\ proxies' \in [Proxies -> Records({})]
      BY <2>1, <2>2, RouteOf, AccumulateType DEF TypeOK
    <3> QED
      BY <2>1, <3>1 DEF TypeOK, relayVars
  <2>4. BooksAgree'
    <3> SUFFICES ASSUME NEW s \in Srcs, NEW d \in Dsts
                 PROVE  hosts'[s].details[d] = websites'[d].details[s]
      BY DEF BooksAgree
    <3>1. hosts'[s].details[d] =
            IF s = Route[c].src /\ d = Route[c].dst
            THEN Plus(hosts[s].details[d], Counted(c)) ELSE hosts[s].details[d]
      <4>1. hosts \in [Srcs -> Records(Dsts)]
        BY DEF TypeOK
      <4>2. Route[c].src \in Srcs
        BY RouteOf
      <4>3. accumulate(hosts, Route[c].src, Route[c].dst, Counted(c))[s].details[d] =
              IF s = Route[c].src /\ d = Route[c].dst
              THEN Plus(hosts[s].details[d], Counted(c)) ELSE hosts[s].details[d]
        BY <2>2, <4>1, <4>2, AccumulateDetails
      <4> QED
        BY <2>1, <4>3
    <3>2. websites'[d].details[s] =
            IF d = Route[c].dst /\ s = Route[c].src
            THEN Plus(websites[d].details[s], Counted(c)) ELSE websites[d].details[s]
      <4>1. websites \in [Dsts -> Records(Srcs)]
        BY DEF TypeOK
      <4>2. Route[c].dst \in Dsts
        BY RouteOf
      <4>3. accumulate(websites, Route[c].dst, Route[c].src, Counted(c))[d].details[s] =
              IF d = Route[c].dst /\ s = Route[c].src
              THEN Plus(websites[d].details[s], Counted(c)) ELSE websites[d].details[s]
        BY <2>2, <4>1, <4>2, AccumulateDetails
      <4> QED
        BY <2>1, <4>3
    <3> QED
      BY <3>1, <3>2 DEF BooksAgree
  <2>5. Goroutines'
    <3>1. conn' = conn /\ ends' = ends /\ flow' = flow
      BY <2>1 DEF relayVars
    <3>2. Goroutines
      OBVIOUS
    <3> QED
      BY <3>1, <3>2 DEF Goroutines, Through
  <2> QED
    BY <2>3, <2>4, <2>5
<1>12. CASE UNCHANGED vars
  BY <1>12 DEF vars, relayVars, books, TypeOK, Goroutines, Through, BooksAgree
<1> QED
  BY <1>1, <1>2, <1>3, <1>4, <1>5, <1>6, <1>7, <1>8, <1>9, <1>10, <1>11, <1>12
  DEF Next, HandleConn, Copying

LEMMA Invariant == Spec => []IInv
<1> QED
  BY InitIInv, NextIInv, PTL DEF Spec

(* The variables keep their types: no more is written than was sent, and a *)
(* connection that is reported or closed has no goroutine left             *)
(* (handleConn, tcp_relay.go).                                             *)
THEOREM TypeCorrect == Spec => []TypeOK
<1>1. IInv => TypeOK
  BY DEF IInv
<1> QED
  BY <1>1, Invariant, PTL

(* The end of one way of a tunnel never cuts the other, for any number of  *)
(* connections and bytes (copyAndClose, tcp_relay.go).                     *)
THEOREM NoWayIsCut == Spec => []NothingCut
<1>1. IInv => NothingCut
  BY DEF IInv, TypeOK, Flows, Goroutines, NothingCut
<1> QED
  BY <1>1, Invariant, PTL

(* What the manager says of a host's traffic to a website it says of the   *)
(* website's traffic from the host (consumeData, manager.go).              *)
THEOREM BooksSayTheSame == Spec => []BooksAgree
<1>1. IInv => BooksAgree
  BY DEF IInv
<1> QED
  BY <1>1, Invariant, PTL
-----------------------------------------------------------------------------
(* The bytes of the connections of s, each byte by itself: what a sum      *)
(* counts.  wt gives each connection its number of bytes.                  *)
Column(wt, c) == {c} \X (1 .. wt[c])
Cells(wt, s)  == UNION {Column(wt, c) : c \in s}
Bytes(wt, s)  == Cardinality(Cells(wt, s))

LEMMA ColumnSize ==
  ASSUME NEW wt \in [Conns -> Nat], NEW c \in Conns
  PROVE  IsFiniteSet(Column(wt, c)) /\ Cardinality(Column(wt, c)) = wt[c]
<1>1. wt[c] \in Nat
  OBVIOUS
<1>2. IsFiniteSet(1 .. wt[c]) /\ Cardinality(1 .. wt[c]) = wt[c]
  BY <1>1, FS_Interval
<1>3. IsFiniteSet({c}) /\ Cardinality({c}) = 1
  BY FS_Singleton
<1>4. /\ IsFiniteSet({c} \X (1 .. wt[c]))
      /\ Cardinality({c} \X (1 .. wt[c])) = Cardinality({c}) * Cardinality(1 .. wt[c])
  BY <1>2, <1>3, FS_Product
<1> QED
  BY <1>1, <1>2, <1>3, <1>4 DEF Column

(* A set of sets of connections that has each set whose smaller subsets it *)
(* has, has them all: induction over finite sets, by a smallest            *)
(* counterexample.                                                         *)
LEMMA SetInduction ==
  ASSUME NEW Good \in SUBSET SUBSET Conns,
         \A s \in SUBSET Conns : (\A t \in SUBSET s : t # s => t \in Good) => s \in Good
  PROVE  \A s \in SUBSET Conns : s \in Good
<1> DEFINE Bad == (SUBSET Conns) \ Good
           R   == StrictSubsetOrdering(Conns)
<1> SUFFICES ASSUME Bad # {} PROVE FALSE
  OBVIOUS
<1>1. IsWellFoundedOn(R, SUBSET Conns)
  <2>1. IsFiniteSet(Conns)
    BY TCPAssumption
  <2>2. FiniteSubsetsOf(Conns) = SUBSET Conns
    BY <2>1, FS_FiniteSubsetsOfFinite
  <2>3. IsWellFoundedOn(R, FiniteSubsetsOf(Conns))
    BY FS_StrictSubsetOrderingWellFounded
  <2> HIDE DEF R
  <2> QED
    BY <2>2, <2>3
<1>2. PICK s \in Bad : \A t \in Bad : ~ (<<t, s>> \in R)
  <2>1. Bad \subseteq SUBSET Conns
    OBVIOUS
  <2> HIDE DEF R, Bad
  <2> QED
    BY <1>1, <2>1, WFMin
<1>3. \A t \in SUBSET s : t # s => <<t, s>> \in R
  BY DEF StrictSubsetOrdering
<1> HIDE DEF R
<1>4. PICK t \in SUBSET s : t # s /\ t \notin Good
  OBVIOUS
<1>5. t \in Bad
  BY <1>4
<1> QED
  BY <1>2, <1>3, <1>4, <1>5

LEMMA CellsFinite ==
  ASSUME NEW wt \in [Conns -> Nat]
  PROVE  \A s \in SUBSET Conns : IsFiniteSet(Cells(wt, s))
<1> DEFINE Good == {s \in SUBSET Conns : IsFiniteSet(Cells(wt, s))}
<1>1. ASSUME NEW s \in SUBSET Conns, \A t \in SUBSET s : t # s => t \in Good
      PROVE  IsFiniteSet(Cells(wt, s))
  <2>1. CASE s = {}
    BY <2>1, FS_EmptySet DEF Cells
  <2>2. CASE s # {}
    <3>1. PICK c \in s : TRUE
      BY <2>2
    <3>2. Cells(wt, s) = Cells(wt, s \ {c}) \cup Column(wt, c)
      BY <3>1 DEF Cells
    <3>3. IsFiniteSet(Cells(wt, s \ {c}))
      BY <1>1, <3>1
    <3>4. IsFiniteSet(Column(wt, c))
      BY <3>1, ColumnSize
    <3> QED
      BY <3>2, <3>3, <3>4, FS_Union
  <2> QED
    BY <2>1, <2>2
<1>2. \A s \in SUBSET Conns : (\A t \in SUBSET s : t # s => t \in Good) => s \in Good
  BY <1>1
<1>3. Good \in SUBSET SUBSET Conns
  OBVIOUS
<1> HIDE DEF Good
<1>4. \A s \in SUBSET Conns : s \in Good
  BY <1>2, <1>3, SetInduction
<1> QED
  BY <1>4 DEF Good

(* One connection more: its bytes are added. *)
LEMMA BytesOfOneMore ==
  ASSUME NEW wt \in [Conns -> Nat], NEW s \in SUBSET Conns, NEW c \in Conns, c \notin s
  PROVE  Bytes(wt, s) \in Nat /\ Bytes(wt, s \cup {c}) = Bytes(wt, s) + wt[c]
<1>1. Cells(wt, s \cup {c}) = Cells(wt, s) \cup Column(wt, c)
  BY DEF Cells
<1>2. Cells(wt, s) \cap Column(wt, c) = {}
  BY DEF Cells, Column
<1>3. IsFiniteSet(Cells(wt, s)) /\ IsFiniteSet(Column(wt, c))
      /\ Cardinality(Column(wt, c)) = wt[c]
  BY CellsFinite, ColumnSize
<1>4. Cardinality(Cells(wt, s)) \in Nat /\ wt[c] \in Nat
  BY <1>3, FS_CardinalityType
<1>5. Cardinality(Cells(wt, s) \cup Column(wt, c)) =
        Cardinality(Cells(wt, s)) + Cardinality(Column(wt, c)) - Cardinality({})
  BY <1>2, <1>3, FS_Union
<1>6. Cardinality({}) = 0
  BY FS_EmptySet
<1>7. Bytes(wt, s \cup {c}) = Cardinality(Cells(wt, s) \cup Column(wt, c))
  BY <1>1 DEF Bytes
<1>8. Bytes(wt, s) = Cardinality(Cells(wt, s))
  BY DEF Bytes
<1> QED
  BY <1>3, <1>4, <1>5, <1>6, <1>7, <1>8

(* What a sum of the community modules recurs on. *)
Picked(s) == CHOOSE x \in s : TRUE

IsSum(wt, S, g) ==
  g = [s \in SUBSET S |->
         IF s = {} THEN 0 ELSE wt[Picked(s)] + g[s \ {Picked(s)}]]

LEMMA SumExists ==
  ASSUME NEW wt \in [Conns -> Nat], NEW S \in SUBSET Conns
  PROVE  IsSum(wt, S, [s \in SUBSET S |-> Bytes(wt, s)])
<1> DEFINE g == [s \in SUBSET S |-> Bytes(wt, s)]
<1>1. Bytes(wt, {}) = 0
  BY FS_EmptySet DEF Bytes, Cells
<1>2. ASSUME NEW s \in SUBSET S, s # {}
      PROVE  g[s] = wt[Picked(s)] + g[s \ {Picked(s)}]
  <2>1. Picked(s) \in s
    BY <1>2 DEF Picked
  <2>2. Bytes(wt, s) = Bytes(wt, s \ {Picked(s)}) + wt[Picked(s)]
        /\ Bytes(wt, s \ {Picked(s)}) \in Nat
    <3>1. s = (s \ {Picked(s)}) \cup {Picked(s)}
      BY <2>1
    <3> QED
      BY <2>1, <3>1, BytesOfOneMore
  <2>3. wt[Picked(s)] \in Nat
    BY <2>1
  <2> QED
    BY <2>1, <2>2, <2>3
<1> QED
  BY <1>1, <1>2 DEF IsSum

LEMMA SumUnique ==
  ASSUME NEW wt \in [Conns -> Nat], NEW S \in SUBSET Conns, NEW g, IsSum(wt, S, g)
  PROVE  g[S] = Bytes(wt, S)
<1> DEFINE h == [s \in SUBSET S |-> Bytes(wt, s)]
           Good == {s \in SUBSET Conns : s \in SUBSET S => g[s] = h[s]}
<1>1. h[S] = Bytes(wt, S)
  OBVIOUS
<1>2. IsSum(wt, S, h)
  BY SumExists
<1> HIDE DEF h
<1>3. ASSUME NEW s \in SUBSET Conns, \A t \in SUBSET s : t # s => t \in Good,
             s \in SUBSET S
      PROVE  g[s] = h[s]
  <2>1. CASE s = {}
    BY <1>2, <1>3, <2>1 DEF IsSum
  <2>2. CASE s # {}
    <3>1. Picked(s) \in s
      BY <2>2 DEF Picked
    <3>2. g[s \ {Picked(s)}] = h[s \ {Picked(s)}]
      BY <1>3, <3>1
    <3>3. g[s] = wt[Picked(s)] + g[s \ {Picked(s)}]
      BY <1>3, <2>2 DEF IsSum
    <3>4. h[s] = wt[Picked(s)] + h[s \ {Picked(s)}]
      BY <1>2, <1>3, <2>2 DEF IsSum
    <3> QED
      BY <3>2, <3>3, <3>4
  <2> QED
    BY <2>1, <2>2
<1>4. \A s \in SUBSET Conns : (\A t \in SUBSET s : t # s => t \in Good) => s \in Good
  BY <1>3
<1>5. Good \in SUBSET SUBSET Conns
  OBVIOUS
<1> HIDE DEF Good
<1>6. \A s \in SUBSET Conns : s \in Good
  BY <1>4, <1>5, SetInduction
<1> QED
  BY <1>1, <1>6 DEF Good

(* A sum that a book is compared with is the number of the bytes it counts. *)
Written(w) == [c \in Conns |-> flow[c][w].written]

LEMMA WrittenType ==
  ASSUME TypeOK, NEW w \in Ways
  PROVE  Written(w) \in [Conns -> Nat]
  BY FlowOf DEF Written, Flows

LEMMA SumIsBytes ==
  ASSUME TypeOK, NEW w \in Ways, NEW S \in SUBSET Conns
  PROVE  MapThenSumSet(LAMBDA c : flow[c][w].written, S) = Bytes(Written(w), S)
<1> DEFINE step(g) ==
             [s \in SUBSET S |->
                IF s = {} THEN 0
                ELSE flow[Picked(s)][w].written + g[s \ {Picked(s)}]]
           iter == CHOOSE g : g = step(g)
<1>1. ASSUME NEW g PROVE IsSum(Written(w), S, g) <=> g = step(g)
  <2>1. \A s \in SUBSET S : s # {} => Written(w)[Picked(s)] = flow[Picked(s)][w].written
    BY DEF Picked, Written
  <2> QED
    BY <2>1 DEF IsSum
<1>2. IsSum(Written(w), S, [s \in SUBSET S |-> Bytes(Written(w), s)])
  BY WrittenType, SumExists
<1>3. \E g : g = step(g)
  BY <1>1, <1>2
<1>4. iter = step(iter)
  BY <1>3
<1>5. IsSum(Written(w), S, iter)
  BY <1>1, <1>4
<1>6. iter[S] = Bytes(Written(w), S)
  BY <1>5, WrittenType, SumUnique
<1>7. MapThenSumSet(LAMBDA c : flow[c][w].written, S) = iter[S]
  BY DEF MapThenSumSet, MapThenFoldSet, Picked
<1> QED
  BY <1>6, <1>7
-----------------------------------------------------------------------------
(* What the books should say of the connections of S.                      *)
Booked(S)         == {c \in S : Reported(c)}
BookedBytes(S, w) == Bytes(Written(w), Booked(S))

Of(s, d) == {c \in Conns : Route[c].src = s /\ Route[c].dst = d}
OfSrc(s) == {c \in Conns : Route[c].src = s}
OfDst(d) == {c \in Conns : Route[c].dst = d}
OfProxy(p) == {c \in Conns : Route[c].proxy = p}

Balance ==
  \A w \in Ways :
    /\ \A s \in Srcs : hosts[s].bytes[w] = BookedBytes(OfSrc(s), w)
    /\ \A d \in Dsts : websites[d].bytes[w] = BookedBytes(OfDst(d), w)
    /\ \A p \in Proxies : proxies[p].bytes[w] = BookedBytes(OfProxy(p), w)
    /\ \A s \in Srcs, d \in Dsts :
         hosts[s].details[d][w] = BookedBytes(Of(s, d), w)

(* The connection that the manager books is through with its copying.      *)
Booking ==
  manager \in Conns =>
    flow[manager]["down"].pc = "done" /\ conn[manager] \in {"return", "closed"}

LEMMA BytesSame ==
  ASSUME NEW a, NEW b, NEW s, \A c \in s : a[c] = b[c]
  PROVE  Bytes(a, s) = Bytes(b, s)
<1>1. \A c \in s : Column(a, c) = Column(b, c)
  BY DEF Column
<1>2. Cells(a, s) = Cells(b, s)
  BY <1>1 DEF Cells
<1> QED
  BY <1>2 DEF Bytes

(* A step that is not the manager's neither makes a connection one of the  *)
(* booked ones, nor copies for one that is.                                *)
Unbooked ==
  /\ UNCHANGED books
  /\ \A c \in Conns : Reported(c)' = Reported(c)
  /\ \A c \in Conns, w \in Ways :
       Reported(c) => flow'[c][w].written = flow[c][w].written

LEMMA OtherSteps ==
  ASSUME IInv, IInv', Booking, [Next]_vars
  PROVE  Booking' /\ (Unbooked \/ Book)
<1> USE DEF IInv
<1>0. \A c \in Conns : manager = c => manager \notin {"none", "starting", "idle"}
  BY TCPAssumption
<1>1. ASSUME NEW c \in Conns, Refused(c) PROVE Booking' /\ Unbooked
  BY <1>1 DEF Refused, TypeOK, Goroutines, Booking, Unbooked, Reported
<1>2. ASSUME NEW c \in Conns, Dialled(c) PROVE Booking' /\ Unbooked
  BY <1>2 DEF Dialled, TypeOK, Goroutines, Booking, Unbooked, Reported
<1>3. ASSUME NEW c \in Conns, NEW w \in Ways, Copies(c, w) PROVE Booking' /\ Unbooked
  <2>1. conn[c] \notin {"return", "closed"}
    BY <1>3 DEF Copies, TypeOK
  <2>2. \A b \in Conns, v \in Ways : b # c => flow'[b][v] = flow[b][v]
    BY <1>3 DEF Copies, TypeOK
  <2>3. \A b \in Conns, v \in Ways : flow'[b][v].pc = flow[b][v].pc
    BY <1>3 DEF Copies, TypeOK, Flows
  <2>4. UNCHANGED <<conn, manager, books>>
    BY <1>3 DEF Copies
  <2>5. Booking'
    BY <2>3, <2>4 DEF Booking
  <2>6. \A b \in Conns : Reported(b)' = Reported(b)
    BY <2>3, <2>4 DEF Reported
  <2>7. ~ Reported(c)
    BY <2>1 DEF Reported
  <2>8. \A b \in Conns, v \in Ways :
          Reported(b) => flow'[b][v].written = flow[b][v].written
    BY <2>2, <2>7
  <2>9. Unbooked
    BY <2>4, <2>6, <2>8 DEF Unbooked
  <2> QED
    BY <2>5, <2>9
<1>4. ASSUME NEW c \in Conns, NEW w \in Ways, CopyEnds(c, w) PROVE Booking' /\ Unbooked
  <2>1. conn[c] \notin {"return", "closed"}
    BY <1>4 DEF CopyEnds, CopyReturns, TypeOK
  <2>2. \A b \in Conns, v \in Ways : flow'[b][v].written = flow[b][v].written
    <3>1. flow \in [Conns -> [Ways -> Flows]]
      BY DEF TypeOK
    <3> QED
      BY <1>4, <3>1 DEF CopyEnds, Flows
  <2>3. \A b \in Conns, v \in Ways : b # c => flow'[b][v].pc = flow[b][v].pc
    BY <1>4 DEF CopyEnds, TypeOK
  <2>4. UNCHANGED <<conn, manager, books>>
    BY <1>4 DEF CopyEnds
  <2>5. \A b \in Conns : Reported(b)' = Reported(b)
    BY <2>1, <2>3, <2>4 DEF Reported
  <2>6. Booking'
    BY <2>1, <2>3, <2>4 DEF Booking
  <2> QED
    BY <2>2, <2>4, <2>5, <2>6 DEF Unbooked
<1>5. ASSUME NEW c \in Conns, Uploaded(c) PROVE Booking' /\ Unbooked
  BY <1>5 DEF Uploaded, TypeOK, Flows, Goroutines, Booking, Unbooked, Reported
<1>6. ASSUME NEW c \in Conns, Downloaded(c) PROVE Booking' /\ Unbooked
  BY <1>6 DEF Downloaded, TypeOK, Flows, Goroutines, Booking, Unbooked, Reported
<1>7. ASSUME NEW c \in Conns, Report(c) PROVE Booking' /\ Unbooked
  BY <1>0, <1>7, TCPAssumption DEF Report, TypeOK, Flows, Goroutines, Booking, Unbooked, Reported
<1>8. ASSUME NEW c \in Conns, Return(c) PROVE Booking' /\ Unbooked
  BY <1>8 DEF Return, TypeOK, Flows, Goroutines, Booking, Unbooked, Reported
<1>9. ASSUME NEW c \in Conns, NEW w \in Ways, Finishes(c, w) \/ Resets(c, w)
      PROVE  Booking' /\ Unbooked
  BY <1>9 DEF Finishes, Resets, Booking, Unbooked, Reported
<1>10. CASE Serve
  BY <1>0, <1>10, TCPAssumption DEF Serve, relayVars, Booking, Unbooked, Reported
<1>11. CASE Book
  BY <1>11, TCPAssumption DEF Book, Booking
<1>12. CASE UNCHANGED vars
  BY <1>12 DEF vars, relayVars, Booking, Unbooked, Reported
<1> QED
  BY <1>1, <1>2, <1>3, <1>4, <1>5, <1>6, <1>7, <1>8, <1>9, <1>10, <1>11, <1>12
  DEF Next, HandleConn, Copying

(* Such a step leaves what the books should say as it is.                  *)
LEMMA UnbookedBytes ==
  ASSUME Unbooked, NEW S \in SUBSET Conns, NEW w \in Ways
  PROVE  BookedBytes(S, w)' = BookedBytes(S, w)
<1>1. Booked(S)' = Booked(S)
  BY DEF Unbooked, Booked
<1>2. \A c \in Booked(S) : Written(w)'[c] = Written(w)[c]
  BY DEF Unbooked, Booked, Written
<1>3. Bytes(Written(w)', Booked(S)) = Bytes(Written(w), Booked(S))
  BY <1>2, BytesSame
<1>4. BookedBytes(S, w)' = Bytes(Written(w)', Booked(S)')
  BY DEF BookedBytes, Bytes, Cells, Column
<1> QED
  BY <1>1, <1>3, <1>4 DEF BookedBytes

(* The manager's step adds the bytes of the connection that it books.      *)
LEMMA BookBytes ==
  ASSUME TypeOK, Booking, NEW c \in Conns, manager = c, manager' = "idle",
         UNCHANGED relayVars, NEW S \in SUBSET Conns, NEW w \in Ways
  PROVE  /\ BookedBytes(S, w) \in Nat
         /\ BookedBytes(S, w)' =
             IF c \in S THEN BookedBytes(S, w) + Counted(c)[w] ELSE BookedBytes(S, w)
<1>1. Written(w)' = Written(w)
  BY DEF Written, relayVars
<1>2. c \notin Booked(S)
  BY DEF Booked, Reported
<1>3. Booked(S)' = IF c \in S THEN Booked(S) \cup {c} ELSE Booked(S)
  BY TCPAssumption DEF Booking, Booked, Reported, relayVars
<1>4. BookedBytes(S, w)' = Bytes(Written(w)', Booked(S)')
  BY DEF BookedBytes, Bytes, Cells, Column
<1>5. Booked(S) \in SUBSET Conns
  BY DEF Booked
<1>6. /\ Bytes(Written(w), Booked(S)) \in Nat
      /\ Bytes(Written(w), Booked(S) \cup {c}) =
           Bytes(Written(w), Booked(S)) + Written(w)[c]
  BY <1>2, <1>5, WrittenType, BytesOfOneMore
<1>7. Written(w)[c] = Counted(c)[w]
  BY DEF Written, Counted
<1> QED
  BY <1>1, <1>3, <1>4, <1>6, <1>7 DEF BookedBytes

(* Accounting adds to the record that it is about, and to no other.        *)
LEMMA AccumulateBytes ==
  ASSUME NEW names, NEW endpoints, NEW s \in [names -> Records(endpoints)],
         NEW name \in names, NEW endpoint, NEW bytes \in Counts, NEW n \in names
  PROVE  accumulate(s, name, endpoint, bytes)[n].bytes =
           IF n = name THEN Plus(s[n].bytes, bytes) ELSE s[n].bytes
<1>1. s[name] \in Records(endpoints) /\ s[n] \in Records(endpoints)
  OBVIOUS
<1>2. CASE n = name
  BY <1>1, <1>2 DEF accumulate, Records
<1>3. CASE n # name
  BY <1>1, <1>3 DEF accumulate, Records
<1> QED
  BY <1>2, <1>3

LEMMA InitBalance == Init => Booking /\ Balance
<1> SUFFICES ASSUME Init PROVE Booking /\ Balance
  OBVIOUS
<1>1. Booking
  BY TCPAssumption DEF Init, Booking
<1>2. \A S \in SUBSET Conns : Booked(S) = {}
  BY DEF Init, Booked, Reported
<1>3. ASSUME NEW w \in Ways, NEW S \in SUBSET Conns PROVE BookedBytes(S, w) = 0
  <2>1. Bytes(Written(w), {}) = 0
    BY FS_EmptySet DEF Bytes, Cells
  <2> QED
    BY <1>2, <2>1 DEF BookedBytes
<1>4. /\ \A s : OfSrc(s) \in SUBSET Conns /\ OfDst(s) \in SUBSET Conns
      /\ \A s : OfProxy(s) \in SUBSET Conns
      /\ \A s, d : Of(s, d) \in SUBSET Conns
  BY DEF OfSrc, OfDst, OfProxy, Of
<1>5. \A w \in Ways :
        /\ \A s \in Srcs : hosts[s].bytes[w] = 0
        /\ \A d \in Dsts : websites[d].bytes[w] = 0
        /\ \A p \in Proxies : proxies[p].bytes[w] = 0
        /\ \A s \in Srcs, d \in Dsts : hosts[s].details[d][w] = 0
  BY DEF Init, TrafficRecord, NoBytes
<1> QED
  BY <1>1, <1>3, <1>4, <1>5 DEF Balance

LEMMA NextBalance ==
  ASSUME IInv, IInv', Booking, Balance, [Next]_vars
  PROVE  Booking' /\ Balance'
<1>0. /\ \A s : OfSrc(s) \in SUBSET Conns /\ OfDst(s) \in SUBSET Conns
      /\ \A s : OfProxy(s) \in SUBSET Conns
      /\ \A s, d : Of(s, d) \in SUBSET Conns
  BY DEF OfSrc, OfDst, OfProxy, Of
<1>1. Booking' /\ (Unbooked \/ Book)
  BY OtherSteps
<1>2. CASE Unbooked
  <2>1. \A S \in SUBSET Conns, w \in Ways : BookedBytes(S, w)' = BookedBytes(S, w)
    BY <1>2, UnbookedBytes
  <2>2. UNCHANGED books
    BY <1>2 DEF Unbooked
  <2> SUFFICES ASSUME NEW w \in Ways
      PROVE  /\ \A s \in Srcs : hosts'[s].bytes[w] = BookedBytes(OfSrc(s), w)'
             /\ \A d \in Dsts : websites'[d].bytes[w] = BookedBytes(OfDst(d), w)'
             /\ \A p \in Proxies : proxies'[p].bytes[w] = BookedBytes(OfProxy(p), w)'
             /\ \A s \in Srcs, d \in Dsts :
                  hosts'[s].details[d][w] = BookedBytes(Of(s, d), w)'
    BY <1>1 DEF Balance
  <2> QED
    BY <1>0, <2>1, <2>2 DEF Balance, books
<1>3. CASE Book
  <2>1. PICK c \in Conns :
          /\ manager = c /\ manager' = "idle"
          /\ hosts' = accumulate(hosts, Route[c].src, Route[c].dst, Counted(c))
          /\ websites' = accumulate(websites, Route[c].dst, Route[c].src, Counted(c))
          /\ proxies' = accumulate(proxies, Route[c].proxy, "", Counted(c))
          /\ UNCHANGED relayVars
    BY <1>3 DEF Book
  <2>2. TypeOK /\ Counted(c) \in Counts
    BY DEF IInv, Counted, Counts, TypeOK, Flows
  <2>3. /\ hosts \in [Srcs -> Records(Dsts)]
        /\ websites \in [Dsts -> Records(Srcs)]
        /\ proxies \in [Proxies -> Records({})]
    BY <2>2 DEF TypeOK
  <2>4. \A a : \A w \in Ways : Plus(a, Counted(c))[w] = a[w] + Counted(c)[w]
    BY DEF Plus
  <2>5. ASSUME NEW S \in SUBSET Conns, NEW w \in Ways
        PROVE  BookedBytes(S, w)' =
                 IF c \in S THEN BookedBytes(S, w) + Counted(c)[w] ELSE BookedBytes(S, w)
    BY <2>1, <2>2, BookBytes
  <2>6. ASSUME NEW w \in Ways, NEW s \in Srcs
        PROVE  hosts'[s].bytes[w] = BookedBytes(OfSrc(s), w)'
    <3>1. hosts'[s].bytes =
            IF s = Route[c].src THEN Plus(hosts[s].bytes, Counted(c)) ELSE hosts[s].bytes
      <4>1. Route[c].src \in Srcs
        BY RouteOf
      <4>2. accumulate(hosts, Route[c].src, Route[c].dst, Counted(c))[s].bytes =
                IF s = Route[c].src THEN Plus(hosts[s].bytes, Counted(c)) ELSE hosts[s].bytes
        BY <2>2, <2>3, <4>1, AccumulateBytes
      <4> QED
        BY <2>1, <4>2
    <3>2. c \in OfSrc(s) <=> s = Route[c].src
      BY DEF OfSrc
    <3>3. hosts[s].bytes[w] = BookedBytes(OfSrc(s), w)
      BY DEF Balance
    <3>4. BookedBytes(OfSrc(s), w)' =
            IF c \in OfSrc(s) THEN BookedBytes(OfSrc(s), w) + Counted(c)[w]
            ELSE BookedBytes(OfSrc(s), w)
      BY <1>0, <2>5
    <3>5. Plus(hosts[s].bytes, Counted(c))[w] = hosts[s].bytes[w] + Counted(c)[w]
      BY <2>4
    <3> QED
      BY <3>1, <3>2, <3>3, <3>4, <3>5
  <2>7. ASSUME NEW w \in Ways, NEW d \in Dsts
        PROVE  websites'[d].bytes[w] = BookedBytes(OfDst(d), w)'
    <3>1. websites'[d].bytes =
            IF d = Route[c].dst THEN Plus(websites[d].bytes, Counted(c))
            ELSE websites[d].bytes
      <4>1. Route[c].dst \in Dsts
        BY RouteOf
      <4>2. accumulate(websites, Route[c].dst, Route[c].src, Counted(c))[d].bytes =
                IF d = Route[c].dst THEN Plus(websites[d].bytes, Counted(c))
                ELSE websites[d].bytes
        BY <2>2, <2>3, <4>1, AccumulateBytes
      <4> QED
        BY <2>1, <4>2
    <3>2. c \in OfDst(d) <=> d = Route[c].dst
      BY DEF OfDst
    <3>3. websites[d].bytes[w] = BookedBytes(OfDst(d), w)
      BY DEF Balance
    <3>4. BookedBytes(OfDst(d), w)' =
            IF c \in OfDst(d) THEN BookedBytes(OfDst(d), w) + Counted(c)[w]
            ELSE BookedBytes(OfDst(d), w)
      BY <1>0, <2>5
    <3>5. Plus(websites[d].bytes, Counted(c))[w] = websites[d].bytes[w] + Counted(c)[w]
      BY <2>4
    <3> QED
      BY <3>1, <3>2, <3>3, <3>4, <3>5
  <2>8. ASSUME NEW w \in Ways, NEW p \in Proxies
        PROVE  proxies'[p].bytes[w] = BookedBytes(OfProxy(p), w)'
    <3>1. proxies'[p].bytes =
            IF p = Route[c].proxy THEN Plus(proxies[p].bytes, Counted(c))
            ELSE proxies[p].bytes
      <4>0. proxies \in [Proxies -> Records({})]
        BY <2>3
      <4>1. Route[c].proxy \in Proxies
        BY RouteOf
      <4>2. ASSUME NEW endpoint
            PROVE  accumulate(proxies, Route[c].proxy, endpoint, Counted(c))[p].bytes =
                     IF p = Route[c].proxy THEN Plus(proxies[p].bytes, Counted(c))
                     ELSE proxies[p].bytes
        BY <2>2, <4>0, <4>1, AccumulateBytes
      <4> QED
        BY <2>1, <4>2
    <3>2. c \in OfProxy(p) <=> p = Route[c].proxy
      BY DEF OfProxy
    <3>3. proxies[p].bytes[w] = BookedBytes(OfProxy(p), w)
      BY DEF Balance
    <3>4. BookedBytes(OfProxy(p), w)' =
            IF c \in OfProxy(p) THEN BookedBytes(OfProxy(p), w) + Counted(c)[w]
            ELSE BookedBytes(OfProxy(p), w)
      BY <1>0, <2>5
    <3>5. Plus(proxies[p].bytes, Counted(c))[w] = proxies[p].bytes[w] + Counted(c)[w]
      BY <2>4
    <3> QED
      BY <3>1, <3>2, <3>3, <3>4, <3>5
  <2>9. ASSUME NEW w \in Ways, NEW s \in Srcs, NEW d \in Dsts
        PROVE  hosts'[s].details[d][w] = BookedBytes(Of(s, d), w)'
    <3>1. hosts'[s].details[d] =
            IF s = Route[c].src /\ d = Route[c].dst
            THEN Plus(hosts[s].details[d], Counted(c)) ELSE hosts[s].details[d]
      <4>0. hosts \in [Srcs -> Records(Dsts)]
        BY <2>3
      <4>1. Route[c].src \in Srcs
        BY RouteOf
      <4>2. accumulate(hosts, Route[c].src, Route[c].dst, Counted(c))[s].details[d] =
                IF s = Route[c].src /\ d = Route[c].dst
                THEN Plus(hosts[s].details[d], Counted(c)) ELSE hosts[s].details[d]
        BY <2>2, <4>0, <4>1, AccumulateDetails
      <4> QED
        BY <2>1, <4>2
    <3>2. c \in Of(s, d) <=> s = Route[c].src /\ d = Route[c].dst
      BY DEF Of
    <3>3. hosts[s].details[d][w] = BookedBytes(Of(s, d), w)
      BY DEF Balance
    <3>4. BookedBytes(Of(s, d), w)' =
            IF c \in Of(s, d) THEN BookedBytes(Of(s, d), w) + Counted(c)[w]
            ELSE BookedBytes(Of(s, d), w)
      BY <1>0, <2>5
    <3>5. Plus(hosts[s].details[d], Counted(c))[w] = hosts[s].details[d][w] + Counted(c)[w]
      BY <2>4
    <3> QED
      BY <3>1, <3>2, <3>3, <3>4, <3>5
  <2> QED
    BY <1>1, <2>6, <2>7, <2>8, <2>9 DEF Balance
<1> QED
  BY <1>1, <1>2, <1>3

(* The sums of BooksBalance are those of the invariant.                    *)
LEMMA BalanceIsBalance == IInv /\ Balance => BooksBalance
<1> SUFFICES ASSUME IInv, Balance PROVE BooksBalance
  OBVIOUS
<1>1. TypeOK /\ BooksAgree
  BY DEF IInv
<1>2. ASSUME NEW w \in Ways, NEW s \in Srcs
      PROVE  Total(LAMBDA c : Route[c].src = s, w) = hosts[s].bytes[w]
  <2>1. Booked(OfSrc(s)) = {c \in Conns : Reported(c) /\ Route[c].src = s}
    BY DEF Booked, OfSrc
  <2>2. MapThenSumSet(LAMBDA c : flow[c][w].written, Booked(OfSrc(s))) =
          Bytes(Written(w), Booked(OfSrc(s)))
    BY <1>1, <2>1, SumIsBytes
  <2>3. hosts[s].bytes[w] = BookedBytes(OfSrc(s), w)
    BY DEF Balance
  <2> QED
    BY <2>1, <2>2, <2>3 DEF Total, BookedBytes
<1>3. ASSUME NEW w \in Ways, NEW d \in Dsts
      PROVE  Total(LAMBDA c : Route[c].dst = d, w) = websites[d].bytes[w]
  <2>1. Booked(OfDst(d)) = {c \in Conns : Reported(c) /\ Route[c].dst = d}
    BY DEF Booked, OfDst
  <2>2. MapThenSumSet(LAMBDA c : flow[c][w].written, Booked(OfDst(d))) =
          Bytes(Written(w), Booked(OfDst(d)))
    BY <1>1, <2>1, SumIsBytes
  <2>3. websites[d].bytes[w] = BookedBytes(OfDst(d), w)
    BY DEF Balance
  <2> QED
    BY <2>1, <2>2, <2>3 DEF Total, BookedBytes
<1>4. ASSUME NEW w \in Ways, NEW p \in Proxies
      PROVE  Total(LAMBDA c : Route[c].proxy = p, w) = proxies[p].bytes[w]
  <2>1. Booked(OfProxy(p)) = {c \in Conns : Reported(c) /\ Route[c].proxy = p}
    BY DEF Booked, OfProxy
  <2>2. MapThenSumSet(LAMBDA c : flow[c][w].written, Booked(OfProxy(p))) =
          Bytes(Written(w), Booked(OfProxy(p)))
    BY <1>1, <2>1, SumIsBytes
  <2>3. proxies[p].bytes[w] = BookedBytes(OfProxy(p), w)
    BY DEF Balance
  <2> QED
    BY <2>1, <2>2, <2>3 DEF Total, BookedBytes
<1>5. ASSUME NEW w \in Ways, NEW s \in Srcs, NEW d \in Dsts
      PROVE  Total(LAMBDA c : Route[c].src = s /\ Route[c].dst = d, w) = hosts[s].details[d][w]
  <2>1. Booked(Of(s, d)) = {c \in Conns : Reported(c) /\ (Route[c].src = s /\ Route[c].dst = d)}
    BY DEF Booked, Of
  <2>2. MapThenSumSet(LAMBDA c : flow[c][w].written, Booked(Of(s, d))) =
          Bytes(Written(w), Booked(Of(s, d)))
    BY <1>1, <2>1, SumIsBytes
  <2>3. hosts[s].details[d][w] = BookedBytes(Of(s, d), w)
    BY DEF Balance
  <2> QED
    BY <2>1, <2>2, <2>3 DEF Total, BookedBytes
<1> QED
  BY <1>1, <1>2, <1>3, <1>4, <1>5 DEF BooksBalance

(* The books balance, for any number of connections and bytes: each byte   *)
(* that was copied for a connection that has been reported is counted once *)
(* for its host, for its website and for its proxy (consumeData,           *)
(* manager.go).                                                            *)
THEOREM BooksAreBalanced == Spec => []BooksBalance
<1>1. Init => Booking /\ Balance
  BY InitBalance
<1>2. IInv /\ IInv' /\ (Booking /\ Balance) /\ [Next]_vars => (Booking /\ Balance)'
  BY NextBalance
<1>3. Spec => [](Booking /\ Balance)
  BY <1>1, <1>2, Invariant, PTL DEF Spec
<1>4. IInv /\ (Booking /\ Balance) => BooksBalance
  BY BalanceIsBalance
<1> QED
  BY <1>3, <1>4, Invariant, PTL
=============================================================================
