------------------------------ MODULE Resolve ------------------------------
(***************************************************************************)
(* One call of Dns.resolve (k1/dns.go): the name servers are asked one     *)
(* after the other, a tick apart, each by a goroutine of its own, until    *)
(* one of them has answered; when all have been asked the call waits for   *)
(* every goroutine.  msgCh has room for one message and a goroutine that   *)
(* finds it full drops its own.                                            *)
(***************************************************************************)
EXTENDS Integers

CONSTANT N   \* the number of name servers; 1 .. N is their order

ASSUME ResolveAssumption == N \in Nat \ {0}

Servers == 1 .. N
Nobody  == 0      \* an empty msgCh
Error   == N + 1  \* resolveErr

VARIABLES
  pc,      \* resolve: in its loop, in wg.Wait, or returned
  asked,   \* how many servers have been asked: Servers up to it run Q
  asking,  \* is resolve in the select of the loop?
  q,       \* the goroutine of each server
  good,    \* the servers whose answer can be used
  msgCh,   \* the server whose message is in the channel, or Nobody
  tick,    \* has the ticker fired since resolve last read it?
  result   \* the server whose answer is returned, Error, or Nobody

vars == <<pc, asked, asking, q, good, msgCh, tick, result>>

Init ==
  /\ pc = "loop" /\ asked = 0 /\ asking = FALSE
  /\ q = [ns \in Servers |-> "off"]
  /\ good = {} /\ msgCh = Nobody /\ tick = FALSE /\ result = Nobody
-----------------------------------------------------------------------------
(* Mutation: one server too many. *)
AskOneMore ==
  /\ pc = "loop" /\ ~ asking /\ asked <= N
  /\ asked' = asked + 1
  /\ asking' = TRUE
  /\ q' = [q EXCEPT ![asked + 1] = "exchange"]
  /\ UNCHANGED <<pc, good, msgCh, tick, result>>

(* wg.Add, and go Q(ns) for the next server. *)
Ask ==
  /\ pc = "loop" /\ ~ asking /\ asked < N
  /\ asked' = asked + 1
  /\ asking' = TRUE
  /\ q' = [q EXCEPT ![asked + 1] = "exchange"]
  /\ UNCHANGED <<pc, good, msgCh, tick, result>>

Return(r) == /\ result' = r
             /\ pc' = "done"

(* The select of the loop takes whichever is ready. *)
Receive ==
  /\ pc = "loop" /\ asking
  /\ msgCh # Nobody
  /\ Return(msgCh)
  /\ msgCh' = Nobody
  /\ UNCHANGED <<asked, asking, q, good, tick>>

NextServer ==
  /\ pc = "loop" /\ asking
  /\ tick
  /\ tick' = FALSE
  /\ asking' = FALSE
  /\ UNCHANGED <<pc, asked, q, good, msgCh, result>>

LoopEnds ==
  /\ pc = "loop" /\ ~ asking /\ asked = N
  /\ pc' = "wait"
  /\ UNCHANGED <<asked, asking, q, good, msgCh, tick, result>>

(* wg.Wait has returned: the message there is, or an error. *)
AllDone == \A ns \in Servers : q[ns] = "done"

(* Mutation: the last select has no default. *)
CollectBlocks ==
  /\ pc = "wait"
  /\ AllDone /\ msgCh # Nobody
  /\ Return(msgCh)
  /\ msgCh' = Nobody
  /\ UNCHANGED <<asked, asking, q, good, tick>>

Collect ==
  /\ pc = "wait"
  /\ AllDone
  /\ Return(IF msgCh = Nobody THEN Error ELSE msgCh)
  /\ msgCh' = Nobody
  /\ UNCHANGED <<asked, asking, q, good, tick>>
-----------------------------------------------------------------------------
(* Exchange returns: an error, a server failure, or an answer to send.     *)
ExchangeFails(ns) ==
  /\ q[ns] = "exchange"
  /\ q' = [q EXCEPT ![ns] = "done"]
  /\ UNCHANGED <<pc, asked, asking, good, msgCh, tick, result>>

ExchangeAnswers(ns) ==
  /\ q[ns] = "exchange"
  /\ q' = [q EXCEPT ![ns] = "send"]
  /\ good' = good \cup {ns}
  /\ UNCHANGED <<pc, asked, asking, msgCh, tick, result>>

(* Mutations: a channel without room; a send without default. *)
SendUnbuffered(ns) ==
  /\ q[ns] = "send"
  /\ q' = [q EXCEPT ![ns] = "done"]
  /\ msgCh' = IF msgCh = Nobody /\ pc = "loop" /\ asking THEN ns ELSE msgCh
  /\ UNCHANGED <<pc, asked, asking, good, tick, result>>

SendBlocks(ns) ==
  /\ q[ns] = "send"
  /\ msgCh = Nobody
  /\ q' = [q EXCEPT ![ns] = "done"]
  /\ msgCh' = ns
  /\ UNCHANGED <<pc, asked, asking, good, tick, result>>

Send(ns) ==
  /\ q[ns] = "send"
  /\ q' = [q EXCEPT ![ns] = "done"]
  /\ msgCh' = IF msgCh = Nobody THEN ns ELSE msgCh
  /\ UNCHANGED <<pc, asked, asking, good, tick, result>>

(* The ticker runs until resolve returns and stops it. *)
Ticker ==
  /\ pc # "done"
  /\ tick' = TRUE
  /\ UNCHANGED <<pc, asked, asking, q, good, msgCh, result>>

Main == Ask \/ Receive \/ NextServer \/ LoopEnds \/ Collect

Q(ns) == ExchangeFails(ns) \/ ExchangeAnswers(ns) \/ Send(ns)

Next ==
  \/ Ask
  \/ Receive
  \/ NextServer
  \/ LoopEnds
  \/ Collect
  \/ \E ns \in Servers : Q(ns)
  \/ Ticker

Spec == Init /\ [][Next]_vars

(* The goroutines run, an exchange ends by its timeouts at the latest, and *)
(* the ticker fires.                                                       *)
FairSpec == /\ Spec
            /\ WF_vars(Main)
            /\ WF_vars(Ticker)
            /\ \A ns \in Servers : WF_vars(Q(ns))
-----------------------------------------------------------------------------
TypeOK ==
  /\ pc \in {"loop", "wait", "done"}
  /\ asked \in 0 .. N /\ asking \in BOOLEAN
  /\ q \in [Servers -> {"off", "exchange", "send", "done"}]
  /\ good \subseteq Servers
  /\ msgCh \in Servers \cup {Nobody}
  /\ tick \in BOOLEAN
  /\ result \in Servers \cup {Nobody, Error}

(* A call fails only when every server was asked and none gave an answer   *)
(* that can be used: neither the full channel nor a tick that wins the     *)
(* select against a message loses the one there was.                       *)
FailsOnlyWhenAllFail ==
  result = Error => AllDone /\ good = {}

(* The call returns, and leaves no goroutine behind, although nobody reads *)
(* msgCh any more.                                                         *)
Returns == <>(pc = "done")
NoGoroutineLeaks ==
  []<>(\A ns \in Servers : q[ns] \in {"off", "done"})
=============================================================================
