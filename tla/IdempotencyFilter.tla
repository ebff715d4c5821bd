--------------------------- MODULE IdempotencyFilter ---------------------------
(***************************************************************************)
(* The endpoint filter of the idempotency example in front of POST /odeme: *)
(* requests that carry an Idempotency-Key are looked up in the distributed *)
(* cache, and the first one pays.  Lookup, payment and store are three     *)
(* awaits.  A client repeats a request with its key whenever it likes: on  *)
(* a timeout the first one may still be under way.                         *)
(***************************************************************************)
EXTENDS Integers, FiniteSets

CONSTANTS
    Requests,   \* the requests to /odeme, repetitions included
    Keys,       \* the keys that clients put into the header
    None        \* no key, no entry, no receipt

ASSUME FilterAssumption ==
    /\ IsFiniteSet(Requests)
    /\ None \notin Keys \cup Requests

VARIABLES
    key,        \* key[r]: the header of the request
    stage,      \* stage[r]: "new", "lookup", "pay", "store" or "end"
    answer,     \* answer[r]: how it was answered, "none" until it was
    receipt,    \* receipt[r]: the request whose payment the answer tells of
    cache,      \* cache[k]: the request whose answer is stored under k
    paid,       \* requests for which OdemeServisi has made a payment
    overlaps,   \* history: overlaps[k], payments begun while one was under way
    lapses      \* history: lapses[k], entries of k that expired or were never stored

vars == <<key, stage, answer, receipt, cache, paid, overlaps, lapses>>

With(k) == {r \in Requests : key[r] = k}
UnderWay(k) == {r \in With(k) : stage[r] \in {"pay", "store"}}

Init ==
    /\ key \in [Requests -> Keys \cup {None}]
    /\ stage = [r \in Requests |-> "new"]
    /\ answer = [r \in Requests |-> "none"]
    /\ receipt = [r \in Requests |-> None]
    /\ cache = [k \in Keys |-> None]
    /\ paid = {}
    /\ overlaps = [k \in Keys |-> 0]
    /\ lapses = [k \in Keys |-> 0]

Answer(r, how, whose) ==
    /\ stage' = [stage EXCEPT ![r] = "end"]
    /\ answer' = [answer EXCEPT ![r] = how]
    /\ receipt' = [receipt EXCEPT ![r] = whose]

\* Mutant: a request without a key goes on to the lookup.
ArriveUnchecked(r) ==
    /\ stage[r] = "new"
    /\ stage' = [stage EXCEPT ![r] = "lookup"]
    /\ UNCHANGED <<key, answer, receipt, cache, paid, overlaps, lapses>>

Arrive(r) ==
    /\ stage[r] = "new"
    /\ key[r] # None
    /\ stage' = [stage EXCEPT ![r] = "lookup"]
    /\ UNCHANGED <<key, answer, receipt, cache, paid, overlaps, lapses>>

\* 422, the header is missing or blank.
RefuseKeyless(r) ==
    /\ stage[r] = "new"
    /\ key[r] = None
    /\ Answer(r, "refused", None)
    /\ UNCHANGED <<key, cache, paid, overlaps, lapses>>

\* The stored JSON is sent, not the result that the first request was sent.
Replay(r) ==
    /\ stage[r] = "lookup"
    /\ cache[key[r]] # None
    /\ Answer(r, "replayed", cache[key[r]])
    /\ UNCHANGED <<key, cache, paid, overlaps, lapses>>

Miss(r) ==
    /\ stage[r] = "lookup"
    /\ cache[key[r]] = None
    /\ stage' = [stage EXCEPT ![r] = "pay"]
    /\ overlaps' =
          IF UnderWay(key[r]) = {} THEN overlaps ELSE [overlaps EXCEPT ![key[r]] = @ + 1]
    /\ UNCHANGED <<key, answer, receipt, cache, paid, lapses>>

\* next(context): the endpoint pays.
Pay(r) ==
    /\ stage[r] = "pay"
    /\ stage' = [stage EXCEPT ![r] = "store"]
    /\ paid' = paid \cup {r}
    /\ UNCHANGED <<key, answer, receipt, cache, overlaps, lapses>>

\* Mutant: the answer is stored under a name without the key.
StoreForAll(r) ==
    /\ stage[r] = "store"
    /\ cache' = [k \in Keys |-> r]
    /\ Answer(r, "paid", r)
    /\ UNCHANGED <<key, paid, overlaps, lapses>>

\* Mutant: the answer is sent and not stored.
StoreNothing(r) ==
    /\ stage[r] = "store"
    /\ Answer(r, "paid", r)
    /\ UNCHANGED <<key, cache, paid, overlaps, lapses>>

Store(r) ==
    /\ stage[r] = "store"
    /\ cache' = [cache EXCEPT ![key[r]] = r]
    /\ Answer(r, "paid", r)
    /\ UNCHANGED <<key, paid, overlaps, lapses>>

\* The cache or the payment throws before anything was paid.
FailUnpaid(r) ==
    /\ stage[r] \in {"lookup", "pay"}
    /\ Answer(r, "error", None)
    /\ UNCHANGED <<key, cache, paid, overlaps, lapses>>

\* SetStringAsync throws, or the process stops before it: paid, and nobody knows.
FailPaid(r) ==
    /\ stage[r] = "store"
    /\ Answer(r, "error", None)
    /\ lapses' = [lapses EXCEPT ![key[r]] = @ + 1]
    /\ UNCHANGED <<key, cache, paid, overlaps>>

\* The entry is stored, and the answer is lost on its way.
StoreUnanswered(r) ==
    /\ stage[r] = "store"
    /\ cache' = [cache EXCEPT ![key[r]] = r]
    /\ Answer(r, "error", None)
    /\ UNCHANGED <<key, paid, overlaps, lapses>>

\* 24 hours after it was stored.
Expire(k) ==
    /\ cache[k] # None
    /\ cache' = [cache EXCEPT ![k] = None]
    /\ lapses' = [lapses EXCEPT ![k] = @ + 1]
    /\ UNCHANGED <<key, stage, answer, receipt, paid, overlaps>>

Next ==
    \/ \E r \in Requests :
          \/ Arrive(r) \/ RefuseKeyless(r) \/ Replay(r) \/ Miss(r) \/ Pay(r)
          \/ Store(r) \/ StoreUnanswered(r) \/ FailUnpaid(r) \/ FailPaid(r)
    \/ \E k \in Keys : Expire(k)

Spec == Init /\ [][Next]_vars

(***************************************************************************)
(* Properties.                                                             *)
(***************************************************************************)

(* Every variable keeps its type, and a request without a key never gets   *)
(* past the first check of the filter.                                     *)
TypeOK ==
    /\ key \in [Requests -> Keys \cup {None}]
    /\ stage \in [Requests -> {"new", "lookup", "pay", "store", "end"}]
    /\ answer \in [Requests -> {"none", "refused", "paid", "replayed", "error"}]
    /\ receipt \in [Requests -> Requests \cup {None}]
    /\ cache \in [Keys -> Requests \cup {None}]
    /\ paid \subseteq Requests
    /\ overlaps \in [Keys -> Nat]
    /\ lapses \in [Keys -> Nat]
    /\ \A r \in Requests : key[r] = None => stage[r] \in {"new", "end"}

(* What the filter does achieve: each payment beyond the first of a key is *)
(* due to a repetition that came while one was under way, to an entry that *)
(* expired, or to one that could not be stored, and each of them costs no  *)
(* more than one payment.                                                  *)
EveryRepetitionHasACause ==
    \A k \in Keys :
        Cardinality({r \in paid : key[r] = k}) <= 1 + overlaps[k] + lapses[k]

(* Clients of one key that were told of a payment were told of the same    *)
(* one, unless repetitions overlapped or an entry was lost.                *)
OneReceiptPerKey ==
    \A r, s \in Requests :
        /\ key[r] = key[s]
        /\ {answer[r], answer[s]} \subseteq {"paid", "replayed"}
        /\ overlaps[key[r]] = 0 /\ lapses[key[r]] = 0
        => receipt[r] = receipt[s]

(* gun100_idempotency.md says of a repetition after a timeout that the     *)
(* server will not do the work again: one payment per key, as long as no   *)
(* entry was lost.                                                         *)
PaidOncePerKey ==
    \A k \in Keys :
        lapses[k] = 0 => Cardinality({r \in paid : key[r] = k}) <= 1

================================================================================
