--------------------------- MODULE ResiliencePipeline ---------------------------
(***************************************************************************)
(* The pipeline around every product lookup of OrderService, as            *)
(* OrderService/Program.cs builds it, from the outside in: HttpClient with *)
(* its total timeout, circuit breaker, concurrency limiter, retry, timeout *)
(* per attempt.  The strategies are Polly's (external); what is modelled   *)
(* is how they act on each other with the numbers of Program.cs.           *)
(*                                                                         *)
(* Time is what a lookup has spent since it got its permit, in seconds;    *)
(* it only grows at the end of an attempt or of a pause.                   *)
(***************************************************************************)
EXTENDS Integers, FiniteSets

CONSTANTS
    Lookups,            \* the callers of ProductHttpClient, one lookup each at a time
    PermitLimit,        \* ConcurrencyLimiterOptions.PermitLimit
    MaxRetryAttempts,   \* HttpRetryStrategyOptions.MaxRetryAttempts
    AttemptTimeout,     \* AddTimeout, per attempt
    LookupTimeout,      \* HttpClient.Timeout, per lookup
    BreakDuration,      \* HttpCircuitBreakerStrategyOptions.BreakDuration
    MinimumThroughput,  \* HttpCircuitBreakerStrategyOptions.MinimumThroughput
    MaxDelay,           \* the longest pause between two attempts
    MaxSample           \* bound: results in the window while new lookups come

ASSUME PipelineAssumption ==
    /\ IsFiniteSet(Lookups)
    /\ PermitLimit \in Nat \ {0}
    /\ MaxRetryAttempts \in Nat
    /\ AttemptTimeout \in Nat \ {0}
    /\ LookupTimeout \in Nat
    /\ BreakDuration \in Nat
    /\ MinimumThroughput \in Nat \ {0}
    /\ MaxDelay \in Nat
    /\ MaxSample \in Nat

(***************************************************************************)
(* Four attempts of 4 s are longer than the 15 s of HttpClient, and the    *)
(* 30 s of an open circuit are longer than any lookup.                     *)
(***************************************************************************)
ASSUME TimeoutAssumption ==
    /\ LookupTimeout < AttemptTimeout * (MaxRetryAttempts + 1)
    /\ LookupTimeout < BreakDuration

VARIABLES
    circuit,    \* "Closed", "Open" or "HalfOpen"
    blocked,    \* the break of an open circuit has not run out
    good,       \* results in the sampling window that were not handled as failures
    bad,        \* failures in the sampling window
    permits,    \* permits the limiter has to give
    stage,      \* stage[c]: where the lookup of c is
    result,     \* result[c]: how the lookup ended, before the circuit has counted it
    attempt,    \* attempt[c]: the number of its attempt
    spent,      \* spent[c]: the seconds it has used
    last,       \* last[c]: what the caller got for its last lookup, until it asks again
    refused,    \* history: lookups of which an attempt failed before its timeout
    service     \* ProductService: "up", "down" (errors, no connection) or "hung"

breaker == <<circuit, blocked, good, bad>>
call == <<stage, result, attempt, spent, refused>>
vars == <<breaker, permits, call, last, service>>

Answers == {"product", "missing"}          \* 200 and 404
Failures == {"fault", "slow"}              \* HttpRequestException or 5xx, TimeoutRejectedException
Results == {"none"} \cup Answers \cup Failures \cup {"busy", "cancelled"}

Passed == {c \in Lookups : stage[c] \notin {"idle", "asked"}}
Holders == {c \in Lookups : stage[c] \in {"attempt", "pause"}}

Init ==
    /\ circuit = "Closed"
    /\ blocked = FALSE
    /\ good = 0
    /\ bad = 0
    /\ permits = PermitLimit
    /\ stage = [c \in Lookups |-> "idle"]
    /\ result = [c \in Lookups |-> "none"]
    /\ attempt = [c \in Lookups |-> 0]
    /\ spent = [c \in Lookups |-> 0]
    /\ last = [c \in Lookups |-> "none"]
    /\ refused = {}
    /\ service = "up"

(***************************************************************************)
(* GetProductAsync is called.                                              *)
(***************************************************************************)
Ask(c) ==
    /\ stage[c] = "idle"
    /\ good + bad < MaxSample
    /\ stage' = [stage EXCEPT ![c] = "asked"]
    /\ last' = [last EXCEPT ![c] = "none"]
    /\ UNCHANGED <<breaker, permits, result, attempt, spent, refused, service>>

(***************************************************************************)
(* Circuit breaker, before the call.                                       *)
(***************************************************************************)
Pass(c) ==
    /\ stage[c] = "asked"
    /\ stage' = [stage EXCEPT ![c] = "admitted"]
    /\ UNCHANGED <<blocked, good, bad, permits, result, attempt, spent, last, refused, service>>

Admit(c) ==
    /\ circuit = "Closed"
    /\ Pass(c)
    /\ UNCHANGED circuit

Probe(c) ==
    /\ circuit = "Open"
    /\ ~blocked
    /\ Pass(c)
    /\ circuit' = "HalfOpen"

\* BrokenCircuitException, which ProductHttpClient turns into a fallback.
TurnAway(c) ==
    /\ stage[c] = "asked"
    /\ circuit = "HalfOpen" \/ (circuit = "Open" /\ blocked)
    /\ stage' = [stage EXCEPT ![c] = "idle"]
    /\ last' = [last EXCEPT ![c] = "fallback"]
    /\ UNCHANGED <<breaker, permits, result, attempt, spent, refused, service>>

(***************************************************************************)
(* Concurrency limiter: no queue, and the permit is kept through retries.  *)
(***************************************************************************)
Acquire(c) ==
    /\ stage[c] = "admitted"
    /\ permits > 0
    /\ permits' = permits - 1
    /\ stage' = [stage EXCEPT ![c] = "attempt"]
    /\ attempt' = [attempt EXCEPT ![c] = 1]
    /\ UNCHANGED <<breaker, result, spent, refused, last, service>>

Reject(c) ==
    /\ stage[c] = "admitted"
    /\ permits = 0
    /\ stage' = [stage EXCEPT ![c] = "decide"]
    /\ result' = [result EXCEPT ![c] = "busy"]
    /\ UNCHANGED <<breaker, permits, attempt, spent, refused, last, service>>

\* Mutant: the lease is not disposed when the call was cancelled.
FinishLeakingCancelled(c, r) ==
    /\ permits' = IF r = "cancelled" THEN permits ELSE permits + 1
    /\ stage' = [stage EXCEPT ![c] = "decide"]
    /\ result' = [result EXCEPT ![c] = r]

\* Every way out of the limiter gives the permit back.
Finish(c, r) ==
    /\ permits' = permits + 1
    /\ stage' = [stage EXCEPT ![c] = "decide"]
    /\ result' = [result EXCEPT ![c] = r]

(***************************************************************************)
(* Retry and the timeout of one attempt.                                   *)
(***************************************************************************)
\* Mutant: a pause gives the permit back, the retry does not take one again.
RetryWithoutPermit(c, r) ==
    IF attempt[c] <= MaxRetryAttempts
    THEN /\ stage' = [stage EXCEPT ![c] = "pause"]
         /\ permits' = permits + 1
         /\ UNCHANGED result
    ELSE Finish(c, r)

RetryOrFinish(c, r) ==
    IF attempt[c] <= MaxRetryAttempts
    THEN /\ stage' = [stage EXCEPT ![c] = "pause"]
         /\ UNCHANGED <<result, permits>>
    ELSE Finish(c, r)

Answer(c) ==
    /\ stage[c] = "attempt"
    /\ service = "up"
    /\ \E r \in Answers : Finish(c, r)
    /\ UNCHANGED <<breaker, attempt, spent, refused, last, service>>

Fail(c) ==
    /\ stage[c] = "attempt"
    /\ service = "down"
    /\ \E t \in 0 .. AttemptTimeout - 1 :
          /\ spent[c] + t <= LookupTimeout
          /\ spent' = [spent EXCEPT ![c] = @ + t]
    /\ RetryOrFinish(c, "fault")
    /\ refused' = refused \cup {c}
    /\ UNCHANGED <<breaker, attempt, last, service>>

\* Mutant: HttpClient.Timeout does not hold for the last attempt.
SlowBeyondTimeout(c) ==
    /\ stage[c] = "attempt"
    /\ service = "hung"
    /\ spent[c] <= LookupTimeout
    /\ spent' = [spent EXCEPT ![c] = @ + AttemptTimeout]
    /\ RetryOrFinish(c, "slow")
    /\ UNCHANGED <<breaker, attempt, refused, last, service>>

Slow(c) ==
    /\ stage[c] = "attempt"
    /\ service = "hung"
    /\ spent[c] + AttemptTimeout <= LookupTimeout
    /\ spent' = [spent EXCEPT ![c] = @ + AttemptTimeout]
    /\ RetryOrFinish(c, "slow")
    /\ UNCHANGED <<breaker, attempt, refused, last, service>>

Resume(c) ==
    /\ stage[c] = "pause"
    /\ \E d \in 0 .. MaxDelay :
          /\ spent[c] + d <= LookupTimeout
          /\ spent' = [spent EXCEPT ![c] = @ + d]
    /\ stage' = [stage EXCEPT ![c] = "attempt"]
    /\ attempt' = [attempt EXCEPT ![c] = @ + 1]
    /\ UNCHANGED <<breaker, permits, result, refused, last, service>>

(***************************************************************************)
(* HttpClient.Timeout, in the middle of an attempt or of a pause: the      *)
(* whole pipeline is cancelled.                                            *)
(***************************************************************************)
\* Mutant: HttpClient.Timeout ends a pause, but never an attempt.
CancelPauseOnly(c) ==
    /\ stage[c] = "pause"
    /\ LookupTimeout - spent[c] <= MaxDelay
    /\ Finish(c, "cancelled")
    /\ UNCHANGED <<breaker, attempt, spent, refused, last, service>>

Cancel(c) ==
    /\ \/ stage[c] = "attempt" /\ LookupTimeout - spent[c] <= AttemptTimeout
       \/ stage[c] = "pause" /\ LookupTimeout - spent[c] <= MaxDelay
    /\ Finish(c, "cancelled")
    /\ UNCHANGED <<breaker, attempt, spent, refused, last, service>>

(***************************************************************************)
(* Circuit breaker, after the call.  A result that is no handled failure   *)
(* counts as a success, whatever it is.                                    *)
(***************************************************************************)
Unhealthy(g, b) == g + b >= MinimumThroughput /\ 2 * b >= g + b

Shown(r) ==
    IF r \in Failures \cup {"busy"} THEN "fallback" ELSE r

Reply(c) ==
    /\ stage[c] = "decide"
    /\ stage' = [stage EXCEPT ![c] = "idle"]
    /\ last' = [last EXCEPT ![c] = Shown(result[c])]
    /\ result' = [result EXCEPT ![c] = "none"]
    /\ attempt' = [attempt EXCEPT ![c] = 0]
    /\ spent' = [spent EXCEPT ![c] = 0]
    /\ refused' = refused \ {c}
    /\ UNCHANGED <<permits, service>>

CountFailure(c) ==
    /\ Reply(c)
    /\ result[c] \in Failures
    /\ bad' = IF circuit = "HalfOpen" THEN bad ELSE bad + 1
    /\ good' = good
    /\ IF circuit = "HalfOpen" \/ (circuit = "Closed" /\ Unhealthy(good, bad + 1))
       THEN circuit' = "Open" /\ blocked' = TRUE
       ELSE UNCHANGED <<circuit, blocked>>

\* Mutant: a good probe leaves the circuit half-open.
CountSuccessOnly(c) ==
    /\ Reply(c)
    /\ result[c] \notin Failures
    /\ good' = good + 1
    /\ UNCHANGED <<circuit, blocked, bad>>

CountSuccess(c) ==
    /\ Reply(c)
    /\ result[c] \notin Failures
    /\ blocked' = blocked
    /\ IF circuit = "HalfOpen"
       THEN circuit' = "Closed" /\ good' = 0 /\ bad' = 0
       ELSE circuit' = circuit /\ good' = good + 1 /\ bad' = bad

\* Mutant: the break may end before the lookups that were on their way.
BreakEndsEarly ==
    /\ circuit = "Open"
    /\ blocked
    /\ blocked' = FALSE
    /\ UNCHANGED <<circuit, good, bad, permits, call, last, service>>

\* The break lasts longer than any lookup that was on its way when it began.
BreakEnds ==
    /\ circuit = "Open"
    /\ blocked
    /\ LookupTimeout < BreakDuration => Passed = {}
    /\ blocked' = FALSE
    /\ UNCHANGED <<circuit, good, bad, permits, call, last, service>>

\* Results leave the sampling window.
Slide ==
    /\ \E g \in 0 .. good, b \in 0 .. bad :
          /\ g + b < good + bad
          /\ good' = g
          /\ bad' = b
    /\ UNCHANGED <<circuit, blocked, permits, call, last, service>>

Turn ==
    /\ \E s \in {"up", "down", "hung"} \ {service} : service' = s
    /\ UNCHANGED <<breaker, permits, call, last>>

Work(c) ==
    \/ Admit(c) \/ Probe(c) \/ TurnAway(c)
    \/ Acquire(c) \/ Reject(c)
    \/ Answer(c) \/ Fail(c) \/ Slow(c) \/ Resume(c) \/ Cancel(c)
    \/ CountFailure(c) \/ CountSuccess(c)

Next ==
    \/ \E c \in Lookups : Ask(c) \/ Work(c)
    \/ BreakEnds \/ Slide \/ Turn

Spec == Init /\ [][Next]_vars

(***************************************************************************)
(* Properties.                                                             *)
(***************************************************************************)

(* Every variable keeps its type; the values a lookup needs only while it  *)
(* runs are cleared when it ends (RetryOrFinish, Finish, Reply).           *)
TypeOK ==
    /\ circuit \in {"Closed", "Open", "HalfOpen"}
    /\ blocked \in BOOLEAN
    /\ good \in Nat
    /\ bad \in Nat
    /\ permits \in Nat
    /\ stage \in [Lookups -> {"idle", "asked", "admitted", "attempt", "pause", "decide"}]
    /\ result \in [Lookups -> Results]
    /\ attempt \in [Lookups -> 0 .. MaxRetryAttempts + 1]
    /\ spent \in [Lookups -> 0 .. LookupTimeout]
    /\ last \in [Lookups -> {"none", "product", "missing", "fallback", "cancelled"}]
    /\ refused \subseteq Passed
    /\ service \in {"up", "down", "hung"}

(* No permit is lost or given back twice, whichever of the five ways a     *)
(* lookup leaves the limiter by, and retries keep the one they have.       *)
PermitsAreKept == permits + Cardinality(Holders) = PermitLimit

(* While the circuit is half-open its probe is the only lookup on its way: *)
(* lookups from before the break cannot close or reopen the circuit,       *)
(* because a break lasts longer than a lookup.                             *)
HalfOpenIsTheProbe == circuit = "HalfOpen" => \E c \in Lookups : Passed = {c}

(* What the timeouts add up to: a lookup whose attempts all ran into their *)
(* timeout never ends as a failure, HttpClient.Timeout is always faster.   *)
(* The circuit counts a failure only if an attempt was answered by an      *)
(* error or found no connection.                                           *)
HangsAreNotCounted ==
    \A c \in Lookups : stage[c] = "decide" /\ result[c] \in Failures => c \in refused

(* What follows for the circuit: a ProductService that hangs, however long *)
(* and for however many lookups, never opens it.  Only one that answers    *)
(* with errors or cannot be reached is ever given a break.                 *)
HangsNeverOpenCircuit == [](service # "down") => [](circuit = "Closed")

(* The most steps a lookup may still take: through the circuit and the     *)
(* limiter, then attempts and the pauses between them, then the circuit    *)
(* that counts it.                                                         *)
StepsLeft(c) ==
    CASE stage[c] = "idle" -> 0
      [] stage[c] = "asked" -> 2 * MaxRetryAttempts + 4
      [] stage[c] = "admitted" -> 2 * MaxRetryAttempts + 3
      [] stage[c] = "attempt" -> 2 * (MaxRetryAttempts - attempt[c]) + 4
      [] stage[c] = "pause" -> 2 * (MaxRetryAttempts - attempt[c]) + 3
      [] stage[c] = "decide" -> 1

Advances ==
    \A c \in Lookups :
        /\ Work(c) => StepsLeft(c)' < StepsLeft(c)
        /\ stage[c] # "idle" => StepsLeft(c)' <= StepsLeft(c)

(* Nothing starts a lookup over: each step of its own, whichever of retry, *)
(* timeout, limiter and circuit takes it, brings its end nearer, and no    *)
(* step of another lookup, of the circuit or of ProductService puts it off.*)
NoEndlessLookup == [][Advances]_vars

(* The lookups of this pipeline are those that ProductLookup promises.     *)
PhaseOf(c) ==
    CASE stage[c] = "idle" -> "idle"
      [] stage[c] \in {"asked", "admitted"} -> "asking"
      [] stage[c] \in {"attempt", "pause"} -> "inside"
      [] stage[c] = "decide" -> IF result[c] = "busy" THEN "asking" ELSE "served"

Promise ==
    INSTANCE ProductLookup WITH
        Limit <- PermitLimit,
        phase <- [c \in Lookups |-> PhaseOf(c)]

ImplementsLookup == Promise!Spec

(***************************************************************************)
(* Timers run out and continuations run, so every started lookup goes on,  *)
(* a break ends, and results leave the window.  Nothing is fair about the  *)
(* callers and about ProductService.                                       *)
(***************************************************************************)
FairSpec ==
    /\ Spec
    /\ \A c \in Lookups : WF_vars(Work(c))
    /\ WF_vars(BreakEnds)
    /\ WF_vars(Slide)

(* Whatever ProductService does, every lookup ends.                        *)
LookupsEnd == \A c \in Lookups : stage[c] # "idle" ~> stage[c] = "idle"

(* Once ProductService is up for good and callers keep asking, the circuit *)
(* closes and stays closed.                                                *)
CircuitRecovers ==
    <>[](service = "up") /\ []<><<\E c \in Lookups : Ask(c)>>_vars
        => <>[](circuit = "Closed")

(* gun130_circuit_breaker.md counts "Timeout - servis yanit vermiyor"      *)
(* among the failures the circuit sees: a lookup that the hung             *)
(* ProductService left without an answer does not count as a success.      *)
HangsAreCounted ==
    [][\A c \in Lookups :
          service = "hung" /\ result[c] = "cancelled" => ~CountSuccess(c)]_vars

================================================================================
