------------------------- MODULE ProviderCallProofs -------------------------
(***************************************************************************)
(* Send keeps its contract for every value of PROVIDER_MAX_RETRIES, the    *)
(* negative ones included.  The invariant counts requests: those taken,    *)
(* those still underway and the one waited for are no more than the        *)
(* attempts begun, and an attempt begins only while attempt <= Retries.    *)
(***************************************************************************)
EXTENDS ProviderCall, TLAPS

\* How many requests have been sent at most.
Begun == IF at = "asking" \/ status # "none" THEN attempt + 1 ELSE attempt

Awaited == IF at = "asking" /\ ~taken THEN 1 ELSE 0

\* Where the call is and what it knows.
Phases ==
    /\ at \in {"loop", "asking", "reading"} <=> result = "none"
    /\ at \in {"loop", "asking"} => status = "none"
    /\ at = "reading" => status # "none"
    /\ at = "asking" \/ status # "none" => attempt <= Retries
    /\ result = "sent" => status \in {"2xx", "3xx"}

Counted ==
    /\ accepted + underway + Awaited <= Begun
    /\ at = "asking" /\ taken => accepted > 0
    /\ status = "2xx" => accepted > 0

PInv == TypeOK /\ Phases /\ Counted /\ Persistent

LEMMA PInvInit == Init => PInv
<1> SUFFICES ASSUME Init PROVE PInv
  OBVIOUS
<1>1. TypeOK
  <2>1. 0 \in 0 .. MaxAttempts
    BY RetriesAssumption DEF MaxAttempts
  <2> QED
    BY <2>1, Zenon DEF Init, TypeOK
<1>2. Phases /\ Persistent
  BY RetriesAssumption DEF Init, Phases, Persistent
<1>3. Counted
  BY DEF Init, Counted, Begun, Awaited
<1> QED
  BY <1>1, <1>2, <1>3 DEF PInv

LEMMA PInvNext == PInv /\ [Next]_vars => PInv'
<1> SUFFICES ASSUME PInv, [Next]_vars PROVE PInv'
  OBVIOUS
<1> USE RetriesAssumption
<1> USE DEF PInv, TypeOK, Phases, Counted, Persistent, Begun, Awaited, MaxAttempts
<1>1. CASE Ask
  <2>0. CASE ~parses
    BY <1>1, <2>0 DEF Ask, MayAsk, Return
  <2>1. CASE parses /\ live
    <3>1. TypeOK'
      BY <1>1, <2>1 DEF Ask, MayAsk
    <3>2. Phases'
      BY <1>1, <2>1 DEF Ask, MayAsk
    <3>3. Counted'
      BY <1>1, <2>1 DEF Ask, MayAsk
    <3>4. Persistent'
      BY <1>1, <2>1 DEF Ask, MayAsk
    <3> QED
      BY <3>1, <3>2, <3>3, <3>4
  <2>2. CASE parses /\ ~live
    BY <1>1, <2>2 DEF Ask, MayAsk
  <2> QED
    BY <2>0, <2>1, <2>2
<1>2. CASE Interrupted
  BY <1>2 DEF Interrupted, MayAsk, Return
<1>3. CASE Exhausted
  BY <1>3 DEF Exhausted, MayAsk, Return
<1>4. CASE NoAnswer
  BY <1>4 DEF NoAnswer
<1>5. ASSUME NEW s \in StatusClass, Answer(s) PROVE PInv'
  BY <1>5 DEF Answer, Again, NextAttempt, StatusClass
<1>6. CASE Conclude
  BY <1>6 DEF Conclude, Return, Refusing, StatusClass
<1>7. CASE Cancel
  BY <1>7 DEF Cancel
<1>8. CASE ProviderTakes
  BY <1>8 DEF ProviderTakes
<1>9. CASE ProviderTakesLate
  BY <1>9 DEF ProviderTakesLate
<1>10. CASE UNCHANGED vars
  BY <1>10 DEF vars
<1> QED
  BY <1>1, <1>2, <1>3, <1>4, <1>5, <1>6, <1>7, <1>8, <1>9, <1>10 DEF Next, Do

LEMMA SpecPInv == Spec => []PInv
BY PInvInit, PInvNext, PTL DEF Spec

\* Types and bounds of the counters: never more than MaxAttempts attempts, and
\* never more requests taken (httpclient.Do).
THEOREM ProviderCallTypeOK == Spec => []TypeOK
<1>1. PInv => TypeOK
  BY DEF PInv
<1> QED
  BY <1>1, SpecPInv, PTL

\* A live call whose request can be made gives up only after all its attempts
\* (client.go:46, 79).
THEOREM SendPersists == Spec => []Persistent
<1>1. PInv => Persistent
  BY DEF PInv
<1> QED
  BY <1>1, SpecPInv, PTL

LEMMA StepRefines == PInv /\ [Next]_vars => [\/ Contract!Taken \/ Contract!Succeeded
                                      \/ Contract!Redirected \/ Contract!Failed]_(Contract!cvars)
<1> SUFFICES ASSUME PInv, [Next]_vars
             PROVE  \/ Contract!Taken \/ Contract!Succeeded
                    \/ Contract!Redirected \/ Contract!Failed
                    \/ UNCHANGED Contract!cvars
  OBVIOUS
<1> USE RetriesAssumption
<1> USE DEF PInv, TypeOK, Phases, Counted, Contract!cvars
<1>1. CASE Conclude
  <2>1. CASE result' = "sent" /\ status # "3xx"
    BY <1>1, <2>1 DEF Conclude, Return, Refusing, StatusClass, Contract!Succeeded
  <2>3. CASE result' = "sent" /\ status = "3xx"
    BY <1>1, <2>3 DEF Conclude, Return, Contract!Redirected
  <2>2. CASE result' \in {"rejected", "connectionFailed"}
    BY <1>1, <2>2 DEF Conclude, Return, Contract!Failed
  <2> QED
    BY <1>1, <2>1, <2>2, <2>3 DEF Conclude, Return
<1>2. CASE Interrupted \/ Exhausted \/ (Ask /\ ~parses)
  BY <1>2 DEF Interrupted, Exhausted, Ask, Return, Contract!Failed
<1>3. CASE ProviderTakes
  BY <1>3 DEF ProviderTakes, Contract!Taken, Begun, Awaited, MaxAttempts
<1>4. CASE ProviderTakesLate
  BY <1>4 DEF ProviderTakesLate, Contract!Taken, Begun, Awaited, MaxAttempts
<1>5. CASE (Ask /\ parses) \/ NoAnswer \/ Cancel \/ UNCHANGED vars
  BY <1>5 DEF Ask, NoAnswer, Cancel, vars
<1>6. ASSUME NEW s \in StatusClass, Answer(s) PROVE UNCHANGED Contract!cvars
  BY <1>6 DEF Answer
<1> QED
  BY <1>1, <1>2, <1>3, <1>4, <1>5, <1>6 DEF Next, Do

\* Send implements its contract: it hands the provider at most MaxAttempts
\* requests and reports as sent only what the provider took or answered with a
\* redirection that nobody follows (sms/service.go:28).
THEOREM SendKeepsContract == Spec => ImplementsSendContract
<1>1. Init => Contract!CInit
  BY DEF Init, Contract!CInit
<1> QED
  BY <1>1, SpecPInv, StepRefines, PTL DEF Spec, ImplementsSendContract, Contract!CSpec

=============================================================================
