--------------------------- MODULE ResilienceProofs ---------------------------
(***************************************************************************)
(* Proofs about ResiliencePipeline, for any number of lookups and permits  *)
(* and for all timeouts that TimeoutAssumption allows.                     *)
(***************************************************************************)
EXTENDS ResiliencePipeline, FiniteSetTheorems, TLAPS

(***************************************************************************)
(* What a lookup carries at each stage.  Nothing is spent before the first *)
(* attempt, a pause follows an attempt that may be retried, and a lookup   *)
(* that was never refused has spent a whole timeout per attempt.           *)
(***************************************************************************)
CarriesOk ==
    \A c \in Lookups :
        /\ stage[c] = "pause" => attempt[c] \in 1 .. MaxRetryAttempts
        /\ stage[c] = "attempt" => attempt[c] \in 1 .. MaxRetryAttempts + 1
        /\ stage[c] = "decide" => result[c] # "none"

TimeAddsUp ==
    \A c \in Lookups : c \notin refused =>
        /\ stage[c] = "attempt" => AttemptTimeout * (attempt[c] - 1) <= spent[c]
        /\ stage[c] = "pause" => AttemptTimeout * attempt[c] <= spent[c]
        /\ stage[c] = "decide" => result[c] \notin Failures

(***************************************************************************)
(* The circuit.  A break starts when the circuit opens, and when it is     *)
(* over nothing from before it is left.                                    *)
(***************************************************************************)
BreakOk ==
    /\ blocked => circuit = "Open"
    /\ circuit = "Open" /\ ~blocked => Passed = {}
    /\ HalfOpenIsTheProbe

PipeInv ==
    /\ TypeOK
    /\ CarriesOk
    /\ TimeAddsUp
    /\ BreakOk
    /\ PermitsAreKept

LEMMA InitPipe == Init => PipeInv
<1> SUFFICES ASSUME Init PROVE PipeInv
  OBVIOUS
<1> USE PipelineAssumption DEF PipelineAssumption
<1>1. TypeOK
  <2>1. permits \in Nat /\ result \in [Lookups -> Results]
    BY DEF Init, Results
  <2>2. attempt \in [Lookups -> 0 .. MaxRetryAttempts + 1]
    BY DEF Init
  <2>3. spent \in [Lookups -> 0 .. LookupTimeout]
    BY DEF Init
  <2> QED
    BY <2>1, <2>2, <2>3 DEF Init, TypeOK
<1>2. CarriesOk /\ TimeAddsUp
  BY DEF Init, CarriesOk, TimeAddsUp
<1>3. BreakOk
  BY DEF Init, BreakOk, HalfOpenIsTheProbe
<1>4. Holders = {}
  BY DEF Init, Holders
<1>5. PermitsAreKept
  BY <1>4, FS_EmptySet DEF Init, PermitsAreKept
<1> QED
  BY <1>1, <1>2, <1>3, <1>5 DEF PipeInv

(***************************************************************************)
(* Types, with what a lookup carries.                                      *)
(***************************************************************************)
LEMMA TypeStep ==
    ASSUME TypeOK, CarriesOk, [Next]_vars
    PROVE  TypeOK' /\ CarriesOk'
<1> USE PipelineAssumption DEF PipelineAssumption
<1>1. ASSUME NEW c \in Lookups, Ask(c) PROVE TypeOK' /\ CarriesOk'
  BY <1>1 DEF TypeOK, CarriesOk, Ask, breaker, Passed
<1>2. ASSUME NEW c \in Lookups, Admit(c) \/ Probe(c) PROVE TypeOK' /\ CarriesOk'
  BY <1>2 DEF TypeOK, CarriesOk, Admit, Probe, Pass, Passed
<1>3. ASSUME NEW c \in Lookups, TurnAway(c) PROVE TypeOK' /\ CarriesOk'
  BY <1>3 DEF TypeOK, CarriesOk, TurnAway, breaker, Passed
<1>4. ASSUME NEW c \in Lookups, Acquire(c) PROVE TypeOK' /\ CarriesOk'
  BY <1>4 DEF TypeOK, CarriesOk, Acquire, breaker, Passed
<1>5. ASSUME NEW c \in Lookups, Reject(c) PROVE TypeOK' /\ CarriesOk'
  BY <1>5 DEF TypeOK, CarriesOk, Reject, breaker, Passed, Results
<1>6. ASSUME NEW c \in Lookups, Answer(c) PROVE TypeOK' /\ CarriesOk'
  BY <1>6 DEF TypeOK, CarriesOk, Answer, Finish, breaker, Passed, Results, Answers
<1>7. ASSUME NEW c \in Lookups, Fail(c) PROVE TypeOK' /\ CarriesOk'
  <2>1. spent' \in [Lookups -> 0 .. LookupTimeout]
    BY <1>7 DEF TypeOK, Fail
  <2> QED
    BY <1>7, <2>1
    DEF TypeOK, CarriesOk, Fail, RetryOrFinish, Finish, breaker, Passed, Results, Failures
<1>8. ASSUME NEW c \in Lookups, Slow(c) PROVE TypeOK' /\ CarriesOk'
  <2>1. spent' \in [Lookups -> 0 .. LookupTimeout]
    BY <1>8 DEF TypeOK, Slow
  <2> QED
    BY <1>8, <2>1
    DEF TypeOK, CarriesOk, Slow, RetryOrFinish, Finish, breaker, Passed, Results, Failures
<1>9. ASSUME NEW c \in Lookups, Resume(c) PROVE TypeOK' /\ CarriesOk'
  <2>1. spent' \in [Lookups -> 0 .. LookupTimeout]
    BY <1>9 DEF TypeOK, Resume
  <2> QED
    BY <1>9, <2>1 DEF TypeOK, CarriesOk, Resume, breaker, Passed
<1>10. ASSUME NEW c \in Lookups, Cancel(c) PROVE TypeOK' /\ CarriesOk'
  BY <1>10 DEF TypeOK, CarriesOk, Cancel, Finish, breaker, Passed, Results
<1>11. ASSUME NEW c \in Lookups, CountFailure(c) \/ CountSuccess(c)
       PROVE  TypeOK' /\ CarriesOk'
  <2>1. Shown(result[c]) \in {"none", "product", "missing", "fallback", "cancelled"}
    BY DEF TypeOK, Results, Answers, Failures, Shown
  <2>2. good' \in Nat /\ bad' \in Nat
    BY <1>11 DEF TypeOK, CountFailure, CountSuccess
  <2>3. circuit' \in {"Closed", "Open", "HalfOpen"} /\ blocked' \in BOOLEAN
    BY <1>11 DEF TypeOK, CountFailure, CountSuccess
  <2>4. Reply(c)
    BY <1>11 DEF CountFailure, CountSuccess
  <2> QED
    BY <2>1, <2>2, <2>3, <2>4 DEF TypeOK, CarriesOk, Reply, Passed, Results
<1>12. ASSUME BreakEnds \/ Slide \/ Turn PROVE TypeOK' /\ CarriesOk'
  <2>1. good' \in Nat /\ bad' \in Nat
    BY <1>12 DEF TypeOK, BreakEnds, Slide, Turn, breaker
  <2>2. circuit' = circuit /\ blocked' \in BOOLEAN /\ service' \in {"up", "down", "hung"}
    BY <1>12 DEF TypeOK, BreakEnds, Slide, Turn, breaker
  <2>3. UNCHANGED <<permits, call, last>>
    BY <1>12 DEF BreakEnds, Slide, Turn
  <2> QED
    BY <2>1, <2>2, <2>3 DEF TypeOK, CarriesOk, call, Passed
<1>13. ASSUME UNCHANGED vars PROVE TypeOK' /\ CarriesOk'
  BY <1>13 DEF TypeOK, CarriesOk, vars, breaker, call, Passed
<1> QED
  BY <1>1, <1>2, <1>3, <1>4, <1>5, <1>6, <1>7, <1>8, <1>9, <1>10, <1>11, <1>12, <1>13
  DEF Next, Work

(***************************************************************************)
(* Time adds up: the only step that could end a lookup as a failure        *)
(* without a refusal is Slow in the last attempt, and by then the lookup   *)
(* has no AttemptTimeout left.                                             *)
(***************************************************************************)
LEMMA OneMore == \A n \in Nat : AttemptTimeout * (n + 1) = AttemptTimeout * n + AttemptTimeout
  BY PipelineAssumption DEF PipelineAssumption

LEMMA TimeStep ==
    ASSUME TypeOK, CarriesOk, TimeAddsUp, [Next]_vars
    PROVE  TimeAddsUp'
<1> USE PipelineAssumption DEF PipelineAssumption
<1>1. ASSUME NEW c \in Lookups, Ask(c) PROVE TimeAddsUp'
  BY <1>1 DEF TypeOK, TimeAddsUp, Ask
<1>2. ASSUME NEW c \in Lookups, Admit(c) \/ Probe(c) PROVE TimeAddsUp'
  BY <1>2 DEF TypeOK, TimeAddsUp, Admit, Probe, Pass
<1>3. ASSUME NEW c \in Lookups, TurnAway(c) PROVE TimeAddsUp'
  BY <1>3 DEF TypeOK, TimeAddsUp, TurnAway
<1>4. ASSUME NEW c \in Lookups, Acquire(c) PROVE TimeAddsUp'
  <2>1. AttemptTimeout * (1 - 1) = 0
    OBVIOUS
  <2>2. spent[c] >= 0
    BY DEF TypeOK
  <2> QED
    BY <1>4, <2>1, <2>2 DEF TypeOK, TimeAddsUp, Acquire
<1>5. ASSUME NEW c \in Lookups, Reject(c) PROVE TimeAddsUp'
  BY <1>5 DEF TypeOK, TimeAddsUp, Reject, Failures
<1>6. ASSUME NEW c \in Lookups, Answer(c) \/ Cancel(c) PROVE TimeAddsUp'
  <2>1. PICK r \in Answers \cup {"cancelled"} : Finish(c, r)
    BY <1>6 DEF Answer, Cancel
  <2>2. r \notin Failures
    BY DEF Answers, Failures
  <2>3. UNCHANGED <<attempt, spent, refused>>
    BY <1>6 DEF Answer, Cancel
  <2> QED
    BY <2>1, <2>2, <2>3 DEF TypeOK, TimeAddsUp, Finish
<1>7. ASSUME NEW c \in Lookups, Fail(c) PROVE TimeAddsUp'
  BY <1>7 DEF TypeOK, TimeAddsUp, Fail, RetryOrFinish, Finish
<1>8. ASSUME NEW c \in Lookups, Slow(c) PROVE TimeAddsUp'
  <2>1. UNCHANGED <<attempt, refused>> /\ spent' = [spent EXCEPT ![c] = @ + AttemptTimeout]
    BY <1>8 DEF Slow
  <2>2. CASE c \in refused
    BY <1>8, <2>1, <2>2 DEF TypeOK, TimeAddsUp, Slow, RetryOrFinish, Finish
  <2>3. CASE c \notin refused
    <3> DEFINE n == attempt[c] - 1
    <3>1. n \in Nat /\ attempt[c] = n + 1 /\ spent[c] \in Nat
      BY <1>8 DEF TypeOK, CarriesOk, Slow
    <3>2. AttemptTimeout * n <= spent[c]
      BY <1>8, <2>3 DEF TimeAddsUp, Slow
    <3>3. AttemptTimeout * attempt[c] = AttemptTimeout * n + AttemptTimeout
      BY <3>1, OneMore
    <3>4. AttemptTimeout * attempt[c] \in Nat /\ AttemptTimeout * n \in Nat
      BY <3>1
    <3>5. AttemptTimeout * attempt[c] <= spent[c] + AttemptTimeout
      BY <3>1, <3>2, <3>3, <3>4
    <3>6. attempt[c] # MaxRetryAttempts + 1
      BY <1>8, <3>1, <3>4, <3>5, TimeoutAssumption DEF TimeoutAssumption, Slow
    <3>7. attempt[c] <= MaxRetryAttempts
      BY <1>8, <3>1, <3>6 DEF CarriesOk, Slow
    <3>8. stage' = [stage EXCEPT ![c] = "pause"] /\ UNCHANGED result
      BY <1>8, <3>7 DEF Slow, RetryOrFinish
    <3> QED
      BY <2>1, <3>1, <3>5, <3>8 DEF TypeOK, TimeAddsUp
  <2> QED
    BY <2>2, <2>3
<1>9. ASSUME NEW c \in Lookups, Resume(c) PROVE TimeAddsUp'
  <2>1. PICK d \in 0 .. MaxDelay : spent' = [spent EXCEPT ![c] = @ + d]
    BY <1>9 DEF Resume
  <2>2. /\ stage' = [stage EXCEPT ![c] = "attempt"]
        /\ attempt' = [attempt EXCEPT ![c] = @ + 1]
        /\ UNCHANGED <<result, refused>>
    BY <1>9 DEF Resume
  <2>3. attempt[c] \in Nat /\ spent[c] \in Nat /\ AttemptTimeout * attempt[c] \in Nat
    BY DEF TypeOK
  <2>4. c \notin refused => AttemptTimeout * (attempt'[c] - 1) <= spent'[c]
    <3>1. attempt'[c] - 1 = attempt[c] /\ spent'[c] = spent[c] + d
      BY <2>1, <2>2, <2>3 DEF TypeOK
    <3> QED
      BY <1>9, <2>3, <3>1 DEF TimeAddsUp, Resume
  <2> QED
    BY <2>1, <2>2, <2>4 DEF TypeOK, TimeAddsUp
<1>10. ASSUME NEW c \in Lookups, CountFailure(c) \/ CountSuccess(c) PROVE TimeAddsUp'
  <2>1. Reply(c)
    BY <1>10 DEF CountFailure, CountSuccess
  <2> QED
    BY <2>1 DEF TypeOK, TimeAddsUp, Reply
<1>11. ASSUME BreakEnds \/ Slide \/ Turn PROVE TimeAddsUp'
  <2>1. UNCHANGED call
    BY <1>11 DEF BreakEnds, Slide, Turn
  <2> QED
    BY <2>1 DEF TimeAddsUp, call
<1>12. ASSUME UNCHANGED vars PROVE TimeAddsUp'
  BY <1>12 DEF TimeAddsUp, vars, call
<1> QED
  BY <1>1, <1>2, <1>3, <1>4, <1>5, <1>6, <1>7, <1>8, <1>9, <1>10, <1>11, <1>12
  DEF Next, Work

(***************************************************************************)
(* The circuit: nothing but the probe is on its way while it is half-open. *)
(***************************************************************************)
LEMMA BreakStep ==
    ASSUME TypeOK, BreakOk, [Next]_vars
    PROVE  BreakOk'
<1>1. ASSUME NEW c \in Lookups, Ask(c) \/ TurnAway(c) PROVE BreakOk'
  <2>1. Passed' = Passed
    BY <1>1 DEF TypeOK, Ask, TurnAway, Passed
  <2> QED
    BY <1>1, <2>1 DEF BreakOk, HalfOpenIsTheProbe, Ask, TurnAway, breaker
<1>2. ASSUME NEW c \in Lookups, Admit(c) PROVE BreakOk'
  BY <1>2 DEF BreakOk, HalfOpenIsTheProbe, Admit, Pass
<1>3. ASSUME NEW c \in Lookups, Probe(c) PROVE BreakOk'
  <2>1. Passed = {}
    BY <1>3 DEF BreakOk, Probe
  <2>2. Passed' = {c}
    BY <1>3, <2>1 DEF TypeOK, Probe, Pass, Passed
  <2> QED
    BY <1>3, <2>2 DEF BreakOk, HalfOpenIsTheProbe, Probe, Pass
<1>4. ASSUME NEW c \in Lookups, Acquire(c) \/ Reject(c) \/ Answer(c) \/ Fail(c)
                                   \/ Slow(c) \/ Resume(c) \/ Cancel(c)
      PROVE  BreakOk'
  <2>1. UNCHANGED breaker
    BY <1>4 DEF Acquire, Reject, Answer, Fail, Slow, Resume, Cancel
  <2>2. stage[c] \in {"admitted", "attempt", "pause"}
    BY <1>4 DEF Acquire, Reject, Answer, Fail, Slow, Resume, Cancel
  <2>3. \E s \in {"attempt", "pause", "decide"} : stage' = [stage EXCEPT ![c] = s]
    BY <1>4 DEF Acquire, Reject, Answer, Fail, Slow, Resume, Cancel, RetryOrFinish, Finish
  <2>4. Passed' = Passed
    BY <2>2, <2>3 DEF TypeOK, Passed
  <2> QED
    BY <2>1, <2>4 DEF BreakOk, HalfOpenIsTheProbe, breaker
<1>5. ASSUME NEW c \in Lookups, CountFailure(c) \/ CountSuccess(c) PROVE BreakOk'
  <2>1. stage[c] = "decide" /\ stage' = [stage EXCEPT ![c] = "idle"]
    BY <1>5 DEF CountFailure, CountSuccess, Reply
  <2>2. c \in Passed
    BY <2>1 DEF Passed
  <2>3. Passed # {} /\ ~(circuit = "Open" /\ ~blocked)
    BY <2>2 DEF BreakOk
  <2>4. CASE CountFailure(c)
    BY <2>3, <2>4 DEF TypeOK, BreakOk, HalfOpenIsTheProbe, CountFailure
  <2>5. CASE CountSuccess(c)
    BY <2>3, <2>5 DEF TypeOK, BreakOk, HalfOpenIsTheProbe, CountSuccess
  <2> QED
    BY <1>5, <2>4, <2>5
<1>6. ASSUME BreakEnds PROVE BreakOk'
  <2>1. Passed = {} /\ Passed' = Passed
    BY <1>6, TimeoutAssumption DEF TimeoutAssumption, BreakEnds, call, Passed
  <2> QED
    BY <1>6, <2>1 DEF BreakOk, HalfOpenIsTheProbe, BreakEnds
<1>7. ASSUME Slide \/ Turn \/ UNCHANGED vars PROVE BreakOk'
  <2>1. UNCHANGED <<circuit, blocked, stage>>
    BY <1>7 DEF Slide, Turn, vars, breaker, call
  <2>2. Passed' = Passed
    BY <2>1 DEF Passed
  <2> QED
    BY <2>1, <2>2 DEF BreakOk, HalfOpenIsTheProbe
<1> QED
  BY <1>1, <1>2, <1>3, <1>4, <1>5, <1>6, <1>7 DEF Next, Work

(***************************************************************************)
(* Permits.                                                                *)
(***************************************************************************)
LEMMA HoldersFinite == IsFiniteSet(Holders) /\ Cardinality(Holders) \in Nat
<1>1. Holders \subseteq Lookups
  BY DEF Holders
<1> QED
  BY <1>1, PipelineAssumption, FS_Subset, FS_CardinalityType DEF PipelineAssumption

LEMMA PermitStep ==
    ASSUME TypeOK, PermitsAreKept, [Next]_vars
    PROVE  PermitsAreKept'
<1> USE PipelineAssumption DEF PipelineAssumption
<1>1. ASSUME UNCHANGED permits, Holders' = Holders PROVE PermitsAreKept'
  BY <1>1 DEF PermitsAreKept
<1>2. ASSUME NEW c \in Lookups, Acquire(c) PROVE PermitsAreKept'
  <2>1. Holders' = Holders \cup {c} /\ c \notin Holders
    BY <1>2 DEF TypeOK, Acquire, Holders
  <2>2. Cardinality(Holders') = Cardinality(Holders) + 1
    BY <2>1, HoldersFinite, FS_AddElement
  <2>3. permits' = permits - 1
    BY <1>2 DEF Acquire
  <2> QED
    BY <2>2, <2>3, HoldersFinite DEF TypeOK, PermitsAreKept
<1>3. ASSUME NEW c \in Lookups, NEW r, c \in Holders, Finish(c, r) PROVE PermitsAreKept'
  <2>1. Holders' = Holders \ {c}
    BY <1>3 DEF TypeOK, Finish, Holders
  <2>2. Cardinality(Holders') = Cardinality(Holders) - 1
    BY <1>3, <2>1, HoldersFinite, FS_RemoveElement
  <2>3. permits' = permits + 1
    BY <1>3 DEF Finish
  <2> QED
    BY <2>2, <2>3, HoldersFinite DEF TypeOK, PermitsAreKept
<1>4. ASSUME NEW c \in Lookups,
             Ask(c) \/ Admit(c) \/ Probe(c) \/ TurnAway(c) \/ Reject(c) \/ CountFailure(c) \/ CountSuccess(c)
      PROVE  PermitsAreKept'
  <2>1. \E s \in {"idle", "asked", "admitted", "decide"} : stage' = [stage EXCEPT ![c] = s]
    BY <1>4 DEF Ask, Admit, Probe, TurnAway, Pass, Reject, CountFailure, CountSuccess, Reply
  <2>2. c \notin Holders
    BY <1>4 DEF Holders, Ask, Admit, Probe, TurnAway, Pass, Reject, CountFailure, CountSuccess, Reply
  <2>3. Holders' = Holders
    BY <2>1, <2>2 DEF TypeOK, Holders
  <2>4. UNCHANGED permits
    BY <1>4 DEF Ask, Admit, Probe, TurnAway, Pass, Reject, CountFailure, CountSuccess, Reply
  <2> QED
    BY <1>1, <2>3, <2>4
<1>5. ASSUME NEW c \in Lookups, NEW r \in Failures, c \in Holders, RetryOrFinish(c, r)
      PROVE  PermitsAreKept'
  <2>1. CASE Finish(c, r)
    BY <1>3, <1>5, <2>1
  <2>2. CASE stage' = [stage EXCEPT ![c] = "pause"] /\ UNCHANGED permits
    <3>1. Holders' = Holders
      BY <1>5, <2>2 DEF TypeOK, Holders
    <3> QED
      BY <1>1, <2>2, <3>1
  <2> QED
    BY <1>5, <2>1, <2>2 DEF RetryOrFinish
<1>6. ASSUME NEW c \in Lookups, Answer(c) \/ Cancel(c) PROVE PermitsAreKept'
  <2>1. c \in Holders
    BY <1>6 DEF Answer, Cancel, Holders
  <2>2. \E r \in Results : Finish(c, r)
    BY <1>6 DEF Answer, Cancel, Results
  <2> QED
    BY <1>3, <2>1, <2>2
<1>7. ASSUME NEW c \in Lookups, Fail(c) \/ Slow(c) PROVE PermitsAreKept'
  <2>1. c \in Holders
    BY <1>7 DEF Fail, Slow, Holders
  <2>2. \E r \in Failures : RetryOrFinish(c, r)
    BY <1>7 DEF Fail, Slow, Failures
  <2> QED
    BY <1>5, <2>1, <2>2
<1>8. ASSUME NEW c \in Lookups, Resume(c) PROVE PermitsAreKept'
  <2>1. Holders' = Holders
    BY <1>8 DEF TypeOK, Resume, Holders
  <2> QED
    BY <1>1, <1>8, <2>1 DEF Resume
<1>9. ASSUME BreakEnds \/ Slide \/ Turn \/ UNCHANGED vars PROVE PermitsAreKept'
  <2>1. UNCHANGED <<permits, stage>>
    BY <1>9 DEF BreakEnds, Slide, Turn, vars, call
  <2> QED
    BY <1>1, <2>1 DEF Holders
<1> QED
  BY <1>2, <1>4, <1>6, <1>7, <1>8, <1>9 DEF Next, Work

LEMMA PipeStep == PipeInv /\ [Next]_vars => PipeInv'
  BY TypeStep, TimeStep, BreakStep, PermitStep DEF PipeInv

(***************************************************************************)
(* The theorems.                                                           *)
(***************************************************************************)
THEOREM PipeInvariant == Spec => []PipeInv
  BY InitPipe, PipeStep, PTL DEF Spec

(* Every variable of the pipeline keeps its type: no lookup spends more    *)
(* than HttpClient.Timeout, no attempt has a number beyond the retries.    *)
THEOREM PipeTypes == Spec => []TypeOK
<1>1. PipeInv => TypeOK
  BY DEF PipeInv
<1> QED
  BY <1>1, PipeInvariant, PTL

(* The limiter neither loses nor invents a permit, whatever ends a lookup. *)
THEOREM PermitsAlwaysKept == Spec => []PermitsAreKept
<1>1. PipeInv => PermitsAreKept
  BY DEF PipeInv
<1> QED
  BY <1>1, PipeInvariant, PTL

(* Only the probe is on its way while the circuit is half-open, as long as *)
(* BreakDuration is longer than HttpClient.Timeout.                        *)
THEOREM HalfOpenIsAlwaysTheProbe == Spec => []HalfOpenIsTheProbe
<1>1. PipeInv => HalfOpenIsTheProbe
  BY DEF PipeInv, BreakOk
<1> QED
  BY <1>1, PipeInvariant, PTL

(* With timeouts that satisfy TimeoutAssumption, and 4 s, three retries    *)
(* and 15 s do, no lookup fails by its attempts' timeouts alone.           *)
THEOREM HangsAreNeverCounted == Spec => []HangsAreNotCounted
<1>1. PipeInv => HangsAreNotCounted
  BY DEF PipeInv, TimeAddsUp, HangsAreNotCounted
<1> QED
  BY <1>1, PipeInvariant, PTL

(* Without an answered error there is nothing to count, so nothing opens.  *)
Quiet == circuit = "Closed" /\ bad = 0 /\ refused = {}

LEMMA QuietStep == PipeInv /\ Quiet /\ service # "down" /\ [Next]_vars => Quiet'
<1> SUFFICES ASSUME PipeInv, Quiet, service # "down", [Next]_vars
             PROVE  Quiet'
  OBVIOUS
<1> USE DEF Quiet
<1>1. ASSUME NEW c \in Lookups, Ask(c) \/ Admit(c) \/ Probe(c) \/ TurnAway(c) \/ Acquire(c) \/ Reject(c)
      PROVE  Quiet'
  BY <1>1 DEF Ask, Admit, Probe, Pass, TurnAway, Acquire, Reject, breaker
<1>2. ASSUME NEW c \in Lookups, Answer(c) \/ Fail(c) \/ Slow(c) \/ Resume(c) \/ Cancel(c)
      PROVE  Quiet'
  BY <1>2 DEF Answer, Fail, Slow, Resume, Cancel, breaker
<1>3. ASSUME NEW c \in Lookups, CountFailure(c)
      PROVE  FALSE
  BY <1>3 DEF CountFailure, Reply, PipeInv, TimeAddsUp
<1>4. ASSUME NEW c \in Lookups, CountSuccess(c)
      PROVE  Quiet'
  BY <1>4 DEF CountSuccess, Reply
<1>5. ASSUME BreakEnds \/ Turn \/ UNCHANGED vars
      PROVE  Quiet'
  BY <1>5 DEF BreakEnds, Turn, vars, breaker, call
<1>6. ASSUME Slide
      PROVE  Quiet'
  <2>1. 0 .. bad = {0}
    OBVIOUS
  <2> QED
    BY <1>6, <2>1 DEF Slide, call
<1> QED
  BY <1>1, <1>2, <1>3, <1>4, <1>5, <1>6 DEF Next, Work

(* A service that hangs is never given a break: it takes an answered error *)
(* or a refused connection to open the circuit.                            *)
THEOREM HangsKeepCircuitClosed == Spec => HangsNeverOpenCircuit
<1>1. Init => Quiet
  BY DEF Init, Quiet
<1>2. Quiet => circuit = "Closed"
  BY DEF Quiet
<1> QED
  BY <1>1, <1>2, QuietStep, PipeInvariant, PTL DEF Spec, HangsNeverOpenCircuit

(***************************************************************************)
(* Every lookup ends after so many steps.                                  *)
(***************************************************************************)
(* No lookup has more than 2 * MaxRetryAttempts + 4 steps before it, and   *)
(* none is left only when it has ended.                                    *)
LEMMA StepsLeftBounds ==
    ASSUME TypeOK, CarriesOk, NEW c \in Lookups
    PROVE  /\ StepsLeft(c) \in 0 .. 2 * MaxRetryAttempts + 4
           /\ StepsLeft(c) = 0 <=> stage[c] = "idle"
<1> USE PipelineAssumption DEF PipelineAssumption
<1>1. stage[c] \in {"idle", "asked", "admitted", "attempt", "pause", "decide"}
  BY DEF TypeOK
<1>2. CASE stage[c] = "attempt"
  <2>1. StepsLeft(c) = 2 * (MaxRetryAttempts - attempt[c]) + 4
    BY <1>2 DEF StepsLeft
  <2> QED
    BY <1>2, <2>1 DEF CarriesOk
<1>3. CASE stage[c] = "pause"
  <2>1. StepsLeft(c) = 2 * (MaxRetryAttempts - attempt[c]) + 3
    BY <1>3 DEF StepsLeft
  <2> QED
    BY <1>3, <2>1 DEF CarriesOk
<1>4. CASE stage[c] \in {"idle", "asked", "admitted", "decide"}
  BY <1>4 DEF StepsLeft
<1> QED
  BY <1>1, <1>2, <1>3, <1>4

Counted == \A c \in Lookups : StepsLeft(c) \in Int

(* The steps that are left are a number before a step and after it.        *)
LEMMA StepsAreNumbers ==
    /\ TypeOK /\ CarriesOk => Counted
    /\ TypeOK' /\ CarriesOk' => Counted'
<1>1. TypeOK /\ CarriesOk => Counted
  BY StepsLeftBounds DEF Counted
<1> QED
  BY <1>1, PTL

(* A step of a lookup's own brings its end nearer.                         *)
LEMMA WorkAdvances ==
    ASSUME TypeOK, CarriesOk, NEW c \in Lookups, Work(c)
    PROVE  StepsLeft(c)' < StepsLeft(c)
<1> USE PipelineAssumption DEF PipelineAssumption
<1>1. CASE Admit(c) \/ Probe(c)
  <2>1. stage[c] = "asked" /\ stage'[c] = "admitted"
    BY <1>1 DEF TypeOK, Admit, Probe, Pass
  <2> QED
    BY <2>1 DEF StepsLeft
<1>2. CASE TurnAway(c)
  <2>1. stage[c] = "asked" /\ stage'[c] = "idle"
    BY <1>2 DEF TypeOK, TurnAway
  <2> QED
    BY <2>1 DEF StepsLeft
<1>3. CASE Acquire(c)
  <2>1. stage[c] = "admitted" /\ stage'[c] = "attempt" /\ attempt'[c] = 1
    BY <1>3 DEF TypeOK, Acquire
  <2>2. StepsLeft(c) = 2 * MaxRetryAttempts + 3
    BY <2>1 DEF StepsLeft
  <2>3. StepsLeft(c)' = 2 * (MaxRetryAttempts - 1) + 4
    BY <2>1 DEF StepsLeft
  <2> QED
    BY <2>2, <2>3
<1>4. CASE Reject(c)
  <2>1. stage[c] = "admitted" /\ stage'[c] = "decide"
    BY <1>4 DEF TypeOK, Reject
  <2> QED
    BY <2>1 DEF StepsLeft
<1>5. ASSUME NEW r, c \in Holders, Finish(c, r)
      PROVE  StepsLeft(c)' < StepsLeft(c)
  <2>1. stage[c] \in {"attempt", "pause"} /\ stage'[c] = "decide"
    BY <1>5 DEF TypeOK, Finish, Holders
  <2>2. StepsLeft(c)' = 1
    BY <2>1 DEF StepsLeft
  <2>3. CASE stage[c] = "attempt"
    <3>1. StepsLeft(c) = 2 * (MaxRetryAttempts - attempt[c]) + 4
      BY <2>3 DEF StepsLeft
    <3> QED
      BY <2>2, <2>3, <3>1 DEF CarriesOk
  <2>4. CASE stage[c] = "pause"
    <3>1. StepsLeft(c) = 2 * (MaxRetryAttempts - attempt[c]) + 3
      BY <2>4 DEF StepsLeft
    <3> QED
      BY <2>2, <2>4, <3>1 DEF CarriesOk
  <2> QED
    BY <2>1, <2>3, <2>4
<1>6. CASE Answer(c) \/ Cancel(c)
  <2>1. c \in Holders /\ \E r \in Results : Finish(c, r)
    BY <1>6 DEF Answer, Cancel, Holders, Results
  <2> QED
    BY <1>5, <2>1
<1>7. CASE Fail(c) \/ Slow(c)
  <2>1. stage[c] = "attempt" /\ c \in Holders /\ UNCHANGED attempt
    BY <1>7 DEF Fail, Slow, Holders
  <2>2. PICK r \in Failures : RetryOrFinish(c, r)
    BY <1>7 DEF Fail, Slow, Failures
  <2>3. CASE Finish(c, r)
    BY <1>5, <2>1, <2>3
  <2>4. CASE stage' = [stage EXCEPT ![c] = "pause"]
    <3>1. stage'[c] = "pause"
      BY <2>4 DEF TypeOK
    <3>2. StepsLeft(c)' = 2 * (MaxRetryAttempts - attempt[c]) + 3
      BY <2>1, <3>1 DEF StepsLeft
    <3>3. StepsLeft(c) = 2 * (MaxRetryAttempts - attempt[c]) + 4
      BY <2>1 DEF StepsLeft
    <3> QED
      BY <2>1, <3>2, <3>3 DEF CarriesOk
  <2> QED
    BY <2>2, <2>3, <2>4 DEF RetryOrFinish
<1>8. CASE Resume(c)
  <2>1. stage[c] = "pause" /\ stage'[c] = "attempt" /\ attempt'[c] = attempt[c] + 1
    BY <1>8 DEF TypeOK, Resume
  <2>2. StepsLeft(c) = 2 * (MaxRetryAttempts - attempt[c]) + 3
    BY <2>1 DEF StepsLeft
  <2>3. StepsLeft(c)' = 2 * (MaxRetryAttempts - (attempt[c] + 1)) + 4
    BY <2>1 DEF StepsLeft
  <2> QED
    BY <2>1, <2>2, <2>3 DEF CarriesOk
<1>9. CASE CountFailure(c) \/ CountSuccess(c)
  <2>1. stage[c] = "decide" /\ stage'[c] = "idle"
    BY <1>9 DEF TypeOK, CountFailure, CountSuccess, Reply
  <2> QED
    BY <2>1 DEF StepsLeft
<1> QED
  BY <1>1, <1>2, <1>3, <1>4, <1>6, <1>7, <1>8, <1>9 DEF Work

(* A step of another lookup leaves this one where it is.                   *)
LEMMA OthersWait ==
    ASSUME TypeOK, NEW c \in Lookups, NEW d \in Lookups \ {c}, Ask(d) \/ Work(d)
    PROVE  stage'[c] = stage[c] /\ attempt'[c] = attempt[c]
<1>1. CASE Ask(d)
  BY <1>1 DEF TypeOK, Ask
<1>2. CASE Admit(d) \/ Probe(d) \/ TurnAway(d)
  BY <1>2 DEF TypeOK, Admit, Probe, Pass, TurnAway
<1>3. CASE Acquire(d) \/ Reject(d)
  BY <1>3 DEF TypeOK, Acquire, Reject
<1>4. CASE Answer(d) \/ Fail(d) \/ Slow(d) \/ Cancel(d)
  BY <1>4 DEF TypeOK, Answer, Fail, Slow, Cancel, RetryOrFinish, Finish
<1>5. CASE Resume(d)
  BY <1>5 DEF TypeOK, Resume
<1>6. CASE CountFailure(d) \/ CountSuccess(d)
  BY <1>6 DEF TypeOK, CountFailure, CountSuccess, Reply
<1> QED
  BY <1>1, <1>2, <1>3, <1>4, <1>5, <1>6 DEF Work

LEMMA StepAdvances ==
    ASSUME PipeInv, Next
    PROVE  Advances
<1>0. TypeOK /\ CarriesOk
  BY DEF PipeInv
<1> SUFFICES ASSUME NEW c \in Lookups
             PROVE  /\ Work(c) => StepsLeft(c)' < StepsLeft(c)
                    /\ stage[c] # "idle" => StepsLeft(c)' <= StepsLeft(c)
  BY DEF Advances
<1>1. TypeOK' /\ CarriesOk'
  BY <1>0, TypeStep
<1>2. StepsLeft(c) \in Int /\ StepsLeft(c)' \in Int
  BY <1>0, <1>1, StepsAreNumbers DEF Counted
<1>3. CASE Work(c)
  BY <1>0, <1>2, <1>3, WorkAdvances
<1>4. CASE ~ Work(c)
  <2>1. ASSUME stage[c] # "idle" PROVE stage'[c] = stage[c] /\ attempt'[c] = attempt[c]
    <3>1. ASSUME NEW d \in Lookups, Ask(d) \/ Work(d) PROVE stage'[c] = stage[c] /\ attempt'[c] = attempt[c]
      <4>1. d # c
        BY <1>4, <2>1, <3>1 DEF Ask
      <4> QED
        BY <1>0, <3>1, <4>1, OthersWait
    <3>2. CASE BreakEnds \/ Slide \/ Turn
      BY <3>2 DEF BreakEnds, Slide, Turn, call
    <3> QED
      BY <3>1, <3>2 DEF Next
  <2>2. ASSUME stage'[c] = stage[c], attempt'[c] = attempt[c] PROVE StepsLeft(c)' = StepsLeft(c)
    BY <2>2, Zenon DEF StepsLeft
  <2> QED
    BY <1>2, <1>4, <2>1, <2>2
<1> QED
  BY <1>3, <1>4

(* Every lookup that is started has taken its last step after at most      *)
(* 2 * MaxRetryAttempts + 4 of its own, and no other step adds one:        *)
(* attempts, pauses, timeouts and the circuit never send it back.          *)
THEOREM LookupsAreBounded ==
    Spec => /\ NoEndlessLookup
            /\ [](\A c \in Lookups : /\ StepsLeft(c) \in 0 .. 2 * MaxRetryAttempts + 4
                                     /\ StepsLeft(c) = 0 <=> stage[c] = "idle")
<1>1. PipeInv /\ [Next]_vars => [Advances]_vars
  BY StepAdvances
<1>2. PipeInv => \A c \in Lookups : /\ StepsLeft(c) \in 0 .. 2 * MaxRetryAttempts + 4
                                    /\ StepsLeft(c) = 0 <=> stage[c] = "idle"
  BY StepsLeftBounds DEF PipeInv
<1> QED
  BY <1>1, <1>2, PipeInvariant, PTL DEF Spec, NoEndlessLookup

(***************************************************************************)
(* The pipeline implements ProductLookup.                                  *)
(***************************************************************************)
LEMMA PhaseSteps ==
    ASSUME stage \in [Lookups -> {"idle", "asked", "admitted", "attempt", "pause", "decide"}],
           NEW c \in Lookups, NEW s, stage' = [stage EXCEPT ![c] = s],
           \A d \in Lookups \ {c} : result'[d] = result[d]
    PROVE  [d \in Lookups |-> PhaseOf(d)]'
               = [[d \in Lookups |-> PhaseOf(d)] EXCEPT ![c] = PhaseOf(c)']
<1>1. ASSUME NEW d \in Lookups \ {c} PROVE PhaseOf(d)' = PhaseOf(d)
  <2>1. stage'[d] = stage[d] /\ result'[d] = result[d]
    OBVIOUS
  <2> QED
    BY <2>1, Zenon DEF PhaseOf
<1> QED
  BY <1>1

LEMMA LookupInit == Init => Promise!Init
  BY DEF Init, Promise!Init, PhaseOf

LEMMA LookupStep ==
    ASSUME PipeInv, [Next]_vars
    PROVE  [Promise!Next]_(Promise!vars)
<1> DEFINE phase == [c \in Lookups |-> PhaseOf(c)]
<1>0. TypeOK /\ CarriesOk /\ PermitsAreKept
  BY DEF PipeInv
<1>1. ASSUME NEW c \in Lookups, Ask(c) PROVE Promise!Ask(c)
  <2>1. PhaseOf(c) = "idle" /\ PhaseOf(c)' = "asking"
    BY <1>0, <1>1 DEF TypeOK, Ask, PhaseOf
  <2>2. phase' = [phase EXCEPT ![c] = "asking"]
    BY <1>0, <1>1, <2>1, PhaseSteps DEF TypeOK, Ask
  <2> QED
    BY <1>1, <2>1, <2>2 DEF Ask, Promise!Ask
<1>2. ASSUME NEW c \in Lookups, Admit(c) \/ Probe(c) PROVE UNCHANGED Promise!vars
  <2>1. PhaseOf(c) = "asking" /\ PhaseOf(c)' = "asking"
    BY <1>0, <1>2 DEF TypeOK, Admit, Probe, Pass, PhaseOf
  <2>2. phase' = [phase EXCEPT ![c] = "asking"]
    BY <1>0, <1>2, <2>1, PhaseSteps DEF TypeOK, Admit, Probe, Pass
  <2>3. phase' = phase
    BY <2>1, <2>2
  <2> QED
    BY <1>2, <2>3 DEF Admit, Probe, Pass, Promise!vars
<1>3. ASSUME NEW c \in Lookups, TurnAway(c) PROVE Promise!Refuse(c)
  <2>1. PhaseOf(c) = "asking" /\ PhaseOf(c)' = "idle"
    BY <1>0, <1>3 DEF TypeOK, TurnAway, PhaseOf
  <2>2. phase' = [phase EXCEPT ![c] = "idle"]
    BY <1>0, <1>3, <2>1, PhaseSteps DEF TypeOK, TurnAway
  <2> QED
    BY <1>3, <2>1, <2>2 DEF TurnAway, Promise!Refuse
<1>4. ASSUME NEW c \in Lookups, Acquire(c) PROVE Promise!Enter(c)
  <2>1. PhaseOf(c) = "asking" /\ PhaseOf(c)' = "inside"
    BY <1>0, <1>4 DEF TypeOK, Acquire, PhaseOf
  <2>2. phase' = [phase EXCEPT ![c] = "inside"]
    BY <1>0, <1>4, <2>1, PhaseSteps DEF TypeOK, Acquire
  <2>3. Promise!Inside = Holders
    BY <1>0 DEF TypeOK, Promise!Inside, PhaseOf, Holders
  <2>4. Cardinality(Promise!Inside) < PermitLimit
    BY <1>0, <1>4, <2>3, HoldersFinite, PipelineAssumption
    DEF TypeOK, PermitsAreKept, Acquire, PipelineAssumption
  <2>5. Promise!Cardinality(Promise!Inside) < PermitLimit
    BY <2>4, Zenon DEF Cardinality, Promise!Cardinality
  <2> QED
    BY <1>4, <2>1, <2>2, <2>5 DEF Acquire, Promise!Enter
<1>5. ASSUME NEW c \in Lookups, Reject(c) PROVE UNCHANGED Promise!vars
  <2>1. PhaseOf(c) = "asking" /\ PhaseOf(c)' = "asking"
    BY <1>0, <1>5 DEF TypeOK, Reject, PhaseOf
  <2>2. phase' = [phase EXCEPT ![c] = "asking"]
    BY <1>0, <1>5, <2>1, PhaseSteps DEF TypeOK, Reject
  <2>3. phase' = phase
    BY <2>1, <2>2
  <2> QED
    BY <1>5, <2>3 DEF Reject, Promise!vars
<1>6. ASSUME NEW c \in Lookups, c \in Holders,
             NEW r \in Results \ {"none", "busy"}, Finish(c, r), UNCHANGED last
      PROVE  Promise!Leave(c)
  <2>1. PhaseOf(c) = "inside" /\ PhaseOf(c)' = "served"
    BY <1>0, <1>6 DEF TypeOK, Finish, PhaseOf, Holders
  <2>2. phase' = [phase EXCEPT ![c] = "served"]
    BY <1>0, <1>6, <2>1, PhaseSteps DEF TypeOK, Finish
  <2> QED
    BY <1>6, <2>1, <2>2 DEF Promise!Leave
<1>7. ASSUME NEW c \in Lookups, c \in Holders, NEW s \in {"attempt", "pause"},
             stage' = [stage EXCEPT ![c] = s], UNCHANGED <<result, last>>
      PROVE  UNCHANGED Promise!vars
  <2>1. PhaseOf(c) = "inside" /\ PhaseOf(c)' = "inside"
    BY <1>0, <1>7 DEF TypeOK, PhaseOf, Holders
  <2>2. phase' = [phase EXCEPT ![c] = "inside"]
    BY <1>0, <1>7, <2>1, PhaseSteps DEF TypeOK
  <2>3. phase' = phase
    BY <2>1, <2>2
  <2> QED
    BY <1>7, <2>3 DEF Promise!vars
<1>8. ASSUME NEW c \in Lookups, Answer(c) \/ Cancel(c) PROVE Promise!Leave(c)
  <2>1. c \in Holders /\ UNCHANGED last
    BY <1>8 DEF Answer, Cancel, Holders
  <2>2. \E r \in Results \ {"none", "busy"} : Finish(c, r)
    BY <1>8 DEF Answer, Cancel, Results, Answers, Failures
  <2> QED
    BY <1>6, <2>1, <2>2
<1>9. ASSUME NEW c \in Lookups, Fail(c) \/ Slow(c)
      PROVE  Promise!Leave(c) \/ UNCHANGED Promise!vars
  <2>1. c \in Holders /\ UNCHANGED last
    BY <1>9 DEF Fail, Slow, Holders
  <2>2. PICK r \in Failures : RetryOrFinish(c, r)
    BY <1>9 DEF Fail, Slow, Failures
  <2>3. r \in Results \ {"none", "busy"}
    BY DEF Results, Answers, Failures
  <2>4. \/ Finish(c, r)
        \/ stage' = [stage EXCEPT ![c] = "pause"] /\ UNCHANGED result
    BY <2>2 DEF RetryOrFinish
  <2> QED
    BY <1>6, <1>7, <2>1, <2>3, <2>4
<1>10. ASSUME NEW c \in Lookups, Resume(c) PROVE UNCHANGED Promise!vars
  <2>1. c \in Holders
    BY <1>10 DEF Resume, Holders
  <2> QED
    BY <1>7, <1>10, <2>1 DEF Resume
<1>11. ASSUME NEW c \in Lookups, CountFailure(c) \/ CountSuccess(c)
       PROVE  Promise!Reply(c) \/ Promise!Refuse(c)
  <2>1. Reply(c)
    BY <1>11 DEF CountFailure, CountSuccess
  <2>2. PhaseOf(c)' = "idle"
    BY <1>0, <2>1 DEF TypeOK, Reply, PhaseOf
  <2>3. phase' = [phase EXCEPT ![c] = "idle"]
    BY <1>0, <2>1, <2>2, PhaseSteps DEF TypeOK, Reply
  <2>4. CASE result[c] = "busy"
    <3>1. PhaseOf(c) = "asking" /\ Shown(result[c]) = "fallback"
      BY <1>0, <2>1, <2>4 DEF TypeOK, Reply, PhaseOf, Shown
    <3> QED
      BY <2>1, <2>3, <3>1 DEF Reply, Promise!Refuse
  <2>5. CASE result[c] # "busy"
    <3>1. PhaseOf(c) = "served"
      BY <1>0, <2>1, <2>5 DEF TypeOK, Reply, PhaseOf
    <3>2. Shown(result[c]) \in {"product", "missing", "fallback", "cancelled"}
      BY <1>0, <2>1 DEF TypeOK, CarriesOk, Reply, Results, Answers, Failures, Shown
    <3> QED
      BY <2>1, <2>3, <3>1, <3>2 DEF Reply, Promise!Reply
  <2> QED
    BY <2>4, <2>5
<1>12. ASSUME BreakEnds \/ Slide \/ Turn \/ UNCHANGED vars PROVE UNCHANGED Promise!vars
  <2>1. UNCHANGED <<stage, result, last>>
    BY <1>12 DEF BreakEnds, Slide, Turn, vars, call
  <2> QED
    BY <2>1 DEF Promise!vars, PhaseOf
<1> QED
  BY <1>1, <1>2, <1>3, <1>4, <1>5, <1>8, <1>9, <1>10, <1>11, <1>12
  DEF Next, Work, Promise!Next

(* Circuit breaker, limiter, retries and timeouts together keep what       *)
(* ProductLookup promises: no more than PermitLimit lookups at             *)
(* ProductService, and every end is one that the controller expects.       *)
THEOREM PipelineImplementsLookup == Spec => ImplementsLookup
  BY PipeInvariant, LookupInit, LookupStep, PTL DEF Spec, ImplementsLookup, Promise!Spec

===============================================================================
