--------------------------- MODULE Resolve_proofs ---------------------------
(***************************************************************************)
(* Resolve for any number of name servers: a call fails only when each of  *)
(* them was asked and none gave an answer that can be used.                *)
(***************************************************************************)
EXTENDS Resolve, TLAPS

(* The goroutines that run are those of the servers asked so far.          *)
AskedInOrder ==
  /\ \A ns \in Servers : q[ns] = "off" <=> ns > asked
  /\ pc = "wait" => asked = N

(* Only usable answers are sent, and one that was sent is in the channel   *)
(* as long as resolve has not returned.                                    *)
NoAnswerLost ==
  /\ \A ns \in good : q[ns] \in {"send", "done"}
  /\ \A ns \in Servers : q[ns] = "send" => ns \in good
  /\ msgCh # Nobody => msgCh \in good
  /\ pc # "done" => /\ result = Nobody
                    /\ \A ns \in good : q[ns] = "done" => msgCh # Nobody

IInv == TypeOK /\ AskedInOrder /\ NoAnswerLost /\ FailsOnlyWhenAllFail

LEMMA InitEstablishes == Init => IInv
<1>. SUFFICES ASSUME Init PROVE IInv
  OBVIOUS
<1>. USE ResolveAssumption DEF Init, Servers, Nobody, Error
<1>1. TypeOK
  <2>1. q \in [1 .. N -> {"off", "exchange", "send", "done"}]
    OBVIOUS
  <2>2. good \subseteq 1 .. N /\ asked \in 0 .. N
    OBVIOUS
  <2>3. pc \in {"loop", "wait", "done"}
    OBVIOUS
  <2>4. asking \in BOOLEAN /\ tick \in BOOLEAN
    OBVIOUS
  <2>. QED  BY <2>1, <2>2, <2>3, <2>4 DEF TypeOK
<1>2. AskedInOrder /\ NoAnswerLost
  BY DEF AskedInOrder, NoAnswerLost
<1>3. FailsOnlyWhenAllFail
  BY DEF FailsOnlyWhenAllFail
<1>. QED  BY <1>1, <1>2, <1>3 DEF IInv

(* Once resolve has returned an error no goroutine has a step left.        *)
LEMMA StepKeeps ==
  ASSUME IInv, [Next]_vars
  PROVE  IInv'
<1>. USE ResolveAssumption DEF IInv, Nobody, Error, Servers
<1>1. CASE Ask
  BY <1>1 DEF Ask, TypeOK, AskedInOrder, NoAnswerLost, FailsOnlyWhenAllFail
<1>2. CASE Receive
  BY <1>2 DEF Receive, Return, TypeOK, AskedInOrder, NoAnswerLost,
              FailsOnlyWhenAllFail
<1>3. CASE NextServer
  BY <1>3 DEF NextServer, TypeOK, AskedInOrder, NoAnswerLost,
              FailsOnlyWhenAllFail, AllDone
<1>4. CASE LoopEnds
  BY <1>4 DEF LoopEnds, TypeOK, AskedInOrder, NoAnswerLost,
              FailsOnlyWhenAllFail, AllDone
<1>5. CASE Collect
  <2>1. TypeOK' /\ AskedInOrder' /\ NoAnswerLost'
    BY <1>5 DEF Collect, Return, TypeOK, AskedInOrder, NoAnswerLost
  <2>2. msgCh = Nobody => good = {}
    BY <1>5 DEF Collect, AllDone, TypeOK, NoAnswerLost
  <2>3. FailsOnlyWhenAllFail'
    BY <1>5, <2>2 DEF Collect, Return, AllDone, TypeOK, FailsOnlyWhenAllFail
  <2>. QED  BY <2>1, <2>3
<1>6. ASSUME NEW ns \in Servers, Q(ns)
      PROVE  IInv'
  <2>1. result # Error
    BY <1>6 DEF Q, ExchangeFails, ExchangeAnswers, Send, FailsOnlyWhenAllFail,
                AllDone
  <2>2. CASE ExchangeFails(ns)
    BY <2>1, <2>2 DEF ExchangeFails, TypeOK, AskedInOrder, NoAnswerLost,
                      FailsOnlyWhenAllFail
  <2>3. CASE ExchangeAnswers(ns)
    BY <2>1, <2>3 DEF ExchangeAnswers, TypeOK, AskedInOrder, NoAnswerLost,
                      FailsOnlyWhenAllFail
  <2>4. CASE Send(ns)
    <3>1. TypeOK' /\ AskedInOrder' /\ FailsOnlyWhenAllFail'
      BY <2>1, <2>4 DEF Send, TypeOK, AskedInOrder, FailsOnlyWhenAllFail
    <3>2. ns \in good
      BY <2>4 DEF Send, NoAnswerLost
    <3>3. NoAnswerLost'
      BY <2>4, <3>2 DEF Send, TypeOK, NoAnswerLost
    <3>. QED  BY <3>1, <3>3
  <2>. QED  BY <1>6, <2>2, <2>3, <2>4 DEF Q
<1>7. CASE Ticker
  BY <1>7 DEF Ticker, TypeOK, AskedInOrder, NoAnswerLost, FailsOnlyWhenAllFail,
              AllDone
<1>8. CASE UNCHANGED vars
  BY <1>8 DEF vars, TypeOK, AskedInOrder, NoAnswerLost, FailsOnlyWhenAllFail,
              AllDone
<1>. QED
  BY <1>1, <1>2, <1>3, <1>4, <1>5, <1>6, <1>7, <1>8 DEF Next

THEOREM Invariance == Spec => []IInv
  BY InitEstablishes, StepKeeps, PTL DEF Spec

(* The locals of resolve and its goroutines keep their types.              *)
THEOREM TypeCorrect == Spec => []TypeOK
<1>1. IInv => TypeOK
  BY DEF IInv
<1>. QED  BY <1>1, Invariance, PTL

(* resolve reports an error only after every server has failed.            *)
THEOREM NoFalseError == Spec => []FailsOnlyWhenAllFail
<1>1. IInv => FailsOnlyWhenAllFail
  BY DEF IInv
<1>. QED  BY <1>1, Invariance, PTL
=============================================================================
