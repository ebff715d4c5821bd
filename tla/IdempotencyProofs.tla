--------------------------- MODULE IdempotencyProofs ---------------------------
(***************************************************************************)
(* Proofs about IdempotencyFilter, for any finite set of requests and any  *)
(* keys.                                                                   *)
(***************************************************************************)
EXTENDS IdempotencyFilter, FiniteSetTheorems, TLAPS

(***************************************************************************)
(* Payments are made by the requests that missed.  As long as one of a key *)
(* is under way, or its entry is there, the next payment needs a cause.    *)
(***************************************************************************)
Missed(k) == {r \in With(k) : r \in paid \/ stage[r] = "pay"}

Guarded(k) == IF cache[k] # None \/ UnderWay(k) # {} THEN 1 ELSE 0

MissesHaveCauses ==
    \A k \in Keys : Cardinality(Missed(k)) <= Guarded(k) + overlaps[k] + lapses[k]

StagesOk ==
    \A r \in Requests :
        /\ stage[r] = "store" => r \in paid
        /\ stage[r] \in {"new", "lookup", "pay"} => r \notin paid
        /\ r \in paid => key[r] # None

(* An entry or an answer tells of a payment that was made for its key.     *)
ReceiptsOk ==
    /\ \A k \in Keys : cache[k] # None => cache[k] \in paid /\ key[cache[k]] = k
    /\ \A r \in Requests :
          answer[r] \in {"paid", "replayed"} =>
              receipt[r] \in paid /\ key[receipt[r]] = key[r]

FilterInv ==
    /\ TypeOK
    /\ StagesOk
    /\ ReceiptsOk
    /\ MissesHaveCauses

LEMMA MissedFinite ==
    ASSUME NEW k
    PROVE  IsFiniteSet(Missed(k)) /\ Cardinality(Missed(k)) \in Nat
<1>1. Missed(k) \subseteq Requests
  BY DEF Missed, With
<1> QED
  BY <1>1, FilterAssumption, FS_Subset, FS_CardinalityType DEF FilterAssumption

LEMMA InitFilter == Init => FilterInv
<1> SUFFICES ASSUME Init PROVE FilterInv
  OBVIOUS
<1> USE FilterAssumption DEF FilterAssumption
<1>1. TypeOK
  BY DEF Init, TypeOK
<1>2. StagesOk /\ ReceiptsOk
  BY DEF Init, StagesOk, ReceiptsOk
<1>3. ASSUME NEW k \in Keys PROVE Cardinality(Missed(k)) <= Guarded(k) + overlaps[k] + lapses[k]
  <2>1. Missed(k) = {}
    BY DEF Init, Missed, With
  <2>2. Cardinality(Missed(k)) = 0
    BY <2>1, FS_EmptySet
  <2>3. Guarded(k) \in Nat /\ overlaps[k] = 0 /\ lapses[k] = 0
    BY DEF Init, Guarded
  <2> QED
    BY <2>2, <2>3
<1> QED
  BY <1>1, <1>2, <1>3 DEF FilterInv, MissesHaveCauses

(***************************************************************************)
(* What a step of a request with key k leaves alone: the other keys.       *)
(***************************************************************************)
LEMMA OtherKeys ==
    ASSUME TypeOK, NEW r \in Requests, NEW k \in Keys, k # key[r],
           NEW s, stage' = [stage EXCEPT ![r] = s], key' = key,
           paid' = paid \/ paid' = paid \cup {r},
           cache'[k] = cache[k]
    PROVE  Missed(k)' = Missed(k) /\ Guarded(k)' = Guarded(k)
<1>1. \A q \in With(k) : q # r /\ stage'[q] = stage[q] /\ (q \in paid' <=> q \in paid)
  BY DEF TypeOK, With
<1>2. With(k)' = With(k)
  BY DEF With
<1>3. Missed(k)' = Missed(k) /\ UnderWay(k)' = UnderWay(k)
  BY <1>1, <1>2 DEF Missed, UnderWay
<1> QED
  BY <1>3 DEF Guarded

LEMMA MissStep ==
    ASSUME FilterInv, NEW r \in Requests, Miss(r)
    PROVE  MissesHaveCauses'
<1> PICK q \in Keys : q = key[r]
  BY DEF FilterInv, TypeOK, Miss
<1>0. /\ TypeOK /\ q = key[r] /\ r \notin paid
      /\ overlaps[q] \in Nat /\ lapses[q] \in Nat
  BY DEF FilterInv, TypeOK, StagesOk, Miss
<1>1. /\ stage' = [stage EXCEPT ![r] = "pay"]
      /\ UNCHANGED <<key, cache, paid, lapses>>
      /\ cache[q] = None
  BY DEF Miss
<1>2. Missed(q)' = Missed(q) \cup {r} /\ r \notin Missed(q)
  BY <1>0, <1>1 DEF TypeOK, Miss, Missed, With
<1>3. Cardinality(Missed(q)') = Cardinality(Missed(q)) + 1
  BY <1>2, MissedFinite, FS_AddElement
<1>4. Guarded(q)' = 1
  <2>1. r \in UnderWay(q)'
    BY <1>0, <1>1 DEF TypeOK, UnderWay, With
  <2> QED
    BY <2>1 DEF Guarded
<1>5. \/ Guarded(q) = 0 /\ overlaps'[q] = overlaps[q]
      \/ Guarded(q) = 1 /\ overlaps'[q] = overlaps[q] + 1
  BY <1>0, <1>1 DEF TypeOK, Guarded, Miss
<1>6. Cardinality(Missed(q)') <= Guarded(q)' + overlaps'[q] + lapses'[q]
  <2> PICK m \in Nat, o \in Nat, l \in Nat :
          m = Cardinality(Missed(q)) /\ o = overlaps[q] /\ l = lapses[q]
    BY <1>0, MissedFinite
  <2>1. m <= Guarded(q) + o + l
    BY <1>0 DEF FilterInv, MissesHaveCauses
  <2>2. Cardinality(Missed(q)') = m + 1 /\ lapses'[q] = l
    BY <1>1, <1>3
  <2>3. CASE Guarded(q) = 0 /\ overlaps'[q] = o
    <3>1. m + 1 <= 1 + o + l
      BY <2>1, <2>3
    <3> QED
      BY <1>4, <2>2, <2>3, <3>1
  <2>4. CASE Guarded(q) = 1 /\ overlaps'[q] = o + 1
    <3>1. m + 1 <= 1 + (o + 1) + l
      BY <2>1, <2>4
    <3> QED
      BY <1>4, <2>2, <2>4, <3>1
  <2> QED
    BY <1>5, <2>3, <2>4
<1>7. ASSUME NEW k \in Keys, k # q
      PROVE  Cardinality(Missed(k)') <= Guarded(k)' + overlaps'[k] + lapses'[k]
  <2>1. Missed(k)' = Missed(k) /\ Guarded(k)' = Guarded(k)
    BY <1>0, <1>1, <1>7, OtherKeys
  <2>2. overlaps'[k] = overlaps[k] /\ lapses'[k] = lapses[k]
    BY <1>0, <1>1, <1>7 DEF TypeOK, Miss
  <2> QED
    BY <2>1, <2>2 DEF FilterInv, MissesHaveCauses
<1>8. ASSUME NEW k \in Keys
      PROVE  Cardinality(Missed(k)') <= Guarded(k)' + overlaps'[k] + lapses'[k]
  BY <1>6, <1>7
<1> QED
  BY <1>8 DEF MissesHaveCauses

(***************************************************************************)
(* A step after which no more requests of any key have missed, and after   *)
(* which a key is guarded as before or has lapsed once more.               *)
(***************************************************************************)
LEMMA NoMoreMisses ==
    ASSUME FilterInv, overlaps' = overlaps,
           \A k \in Keys : Missed(k)' \subseteq Missed(k),
           \A k \in Keys :
               \/ Guarded(k)' = Guarded(k) /\ lapses'[k] = lapses[k]
               \/ Guarded(k)' = 1 /\ lapses'[k] = lapses[k]
               \/ lapses'[k] = lapses[k] + 1
    PROVE  MissesHaveCauses'
<1> SUFFICES ASSUME NEW k \in Keys
             PROVE  Cardinality(Missed(k)') <= Guarded(k)' + overlaps'[k] + lapses'[k]
  BY DEF MissesHaveCauses
<1>1. Cardinality(Missed(k)') <= Cardinality(Missed(k)) /\ Cardinality(Missed(k)') \in Nat
  <2>1. IsFiniteSet(Missed(k)) /\ Missed(k)' \subseteq Missed(k)
    BY MissedFinite
  <2>2. IsFiniteSet(Missed(k)')
    BY <2>1, FS_Subset
  <2> QED
    BY <2>1, <2>2, FS_Subset, FS_CardinalityType
<1>2. /\ Guarded(k) \in {0, 1} /\ Guarded(k)' \in {0, 1}
      /\ overlaps[k] \in Nat /\ lapses[k] \in Nat
      /\ Cardinality(Missed(k)) \in Nat
  BY MissedFinite DEF FilterInv, TypeOK, Guarded
<1>3. Cardinality(Missed(k)) <= Guarded(k) + overlaps[k] + lapses[k]
  BY DEF FilterInv, MissesHaveCauses
<1> QED
  BY <1>1, <1>2, <1>3

LEMMA TypeStep == FilterInv /\ [Next]_vars => TypeOK' /\ StagesOk' /\ ReceiptsOk'
<1> SUFFICES ASSUME FilterInv, [Next]_vars PROVE TypeOK' /\ StagesOk' /\ ReceiptsOk'
  OBVIOUS
<1> USE FilterAssumption DEF FilterAssumption, FilterInv, TypeOK, StagesOk, ReceiptsOk
<1>1. ASSUME NEW r \in Requests, Arrive(r) PROVE TypeOK' /\ StagesOk' /\ ReceiptsOk'
  BY <1>1 DEF Arrive
<1>2. ASSUME NEW r \in Requests, RefuseKeyless(r) PROVE TypeOK' /\ StagesOk' /\ ReceiptsOk'
  BY <1>2 DEF RefuseKeyless, Answer
<1>3. ASSUME NEW r \in Requests, Replay(r) PROVE TypeOK' /\ StagesOk' /\ ReceiptsOk'
  <2>1. key[r] \in Keys /\ cache[key[r]] \in Requests
    BY <1>3 DEF Replay
  <2> QED
    BY <1>3, <2>1 DEF Replay, Answer
<1>4. ASSUME NEW r \in Requests, Miss(r) PROVE TypeOK' /\ StagesOk' /\ ReceiptsOk'
  <2>1. key[r] \in Keys
    BY <1>4 DEF Miss
  <2>2. overlaps' \in [Keys -> Nat]
    BY <1>4, <2>1 DEF Miss
  <2> QED
    BY <1>4, <2>2 DEF Miss
<1>5. ASSUME NEW r \in Requests, Pay(r) PROVE TypeOK' /\ StagesOk' /\ ReceiptsOk'
  BY <1>5 DEF Pay
<1>6. ASSUME NEW r \in Requests, Store(r) \/ StoreUnanswered(r)
      PROVE  TypeOK' /\ StagesOk' /\ ReceiptsOk'
  <2>1. key[r] \in Keys /\ r \in paid
    BY <1>6 DEF Store, StoreUnanswered
  <2> QED
    BY <1>6, <2>1 DEF Store, StoreUnanswered, Answer
<1>7. ASSUME NEW r \in Requests, FailUnpaid(r) PROVE TypeOK' /\ StagesOk' /\ ReceiptsOk'
  BY <1>7 DEF FailUnpaid, Answer
<1>8. ASSUME NEW r \in Requests, FailPaid(r) PROVE TypeOK' /\ StagesOk' /\ ReceiptsOk'
  <2>1. key[r] \in Keys
    BY <1>8 DEF FailPaid
  <2>2. lapses' \in [Keys -> Nat]
    BY <1>8, <2>1 DEF FailPaid
  <2> QED
    BY <1>8, <2>2 DEF FailPaid, Answer
<1>9. ASSUME NEW k \in Keys, Expire(k) PROVE TypeOK' /\ StagesOk' /\ ReceiptsOk'
  <2>1. lapses' \in [Keys -> Nat]
    BY <1>9 DEF Expire
  <2> QED
    BY <1>9, <2>1 DEF Expire
<1>10. ASSUME UNCHANGED vars PROVE TypeOK' /\ StagesOk' /\ ReceiptsOk'
  BY <1>10 DEF vars
<1> QED
  BY <1>1, <1>2, <1>3, <1>4, <1>5, <1>6, <1>7, <1>8, <1>9, <1>10 DEF Next

LEMMA CauseStep == FilterInv /\ [Next]_vars => MissesHaveCauses'
<1> SUFFICES ASSUME FilterInv, [Next]_vars PROVE MissesHaveCauses'
  OBVIOUS
<1>0. TypeOK /\ StagesOk
  BY DEF FilterInv
<1>1. ASSUME NEW r \in Requests, Miss(r) PROVE MissesHaveCauses'
  BY <1>1, MissStep
<1>2. ASSUME NEW r \in Requests, Arrive(r) \/ RefuseKeyless(r) \/ Replay(r) \/ Pay(r)
      PROVE  MissesHaveCauses'
  <2>1. UNCHANGED <<key, cache, overlaps, lapses>>
    BY <1>2 DEF Arrive, RefuseKeyless, Replay, Pay
  <2>2. \A k : Missed(k)' = Missed(k) /\ UnderWay(k)' = UnderWay(k)
    BY <1>0, <1>2
    DEF TypeOK, StagesOk, Missed, UnderWay, With, Arrive, RefuseKeyless, Replay, Pay, Answer
  <2>3. \A k : Guarded(k)' = Guarded(k)
    BY <2>1, <2>2 DEF Guarded
  <2> QED
    BY <2>1, <2>2, <2>3, NoMoreMisses
<1>3. ASSUME NEW r \in Requests, Store(r) \/ StoreUnanswered(r) PROVE MissesHaveCauses'
  <2>1. /\ UNCHANGED <<key, paid, overlaps, lapses>>
        /\ stage[r] = "store" /\ stage' = [stage EXCEPT ![r] = "end"]
        /\ key[r] \in Keys /\ cache' = [cache EXCEPT ![key[r]] = r]
    BY <1>0, <1>3 DEF TypeOK, Store, StoreUnanswered, Answer
  <2>2. \A k \in Keys : Missed(k)' \subseteq Missed(k)
    BY <1>0, <2>1 DEF TypeOK, StagesOk, Missed, With
  <2>3. Guarded(key[r])' = 1
    <3>1. cache'[key[r]] # None
      BY <1>0, <2>1, FilterAssumption DEF TypeOK, FilterAssumption
    <3> QED
      BY <2>1, <3>1 DEF Guarded
  <2>4. ASSUME NEW k \in Keys, k # key[r] PROVE Guarded(k)' = Guarded(k)
    <3>1. cache'[k] = cache[k]
      BY <1>0, <2>1, <2>4 DEF TypeOK
    <3> QED
      BY <1>0, <2>1, <2>4, <3>1, OtherKeys
  <2> QED
    BY <2>1, <2>2, <2>3, <2>4, NoMoreMisses
<1>4. ASSUME NEW r \in Requests, FailUnpaid(r) PROVE MissesHaveCauses'
  <2>1. /\ UNCHANGED <<key, cache, paid, overlaps, lapses>>
        /\ stage[r] \in {"lookup", "pay"} /\ stage' = [stage EXCEPT ![r] = "end"]
        /\ r \notin paid
    BY <1>0, <1>4 DEF StagesOk, FailUnpaid, Answer
  <2> SUFFICES ASSUME NEW k \in Keys
               PROVE  Cardinality(Missed(k)') <= Guarded(k)' + overlaps'[k] + lapses'[k]
    BY DEF MissesHaveCauses
  <2>2. Cardinality(Missed(k)) <= Guarded(k) + overlaps[k] + lapses[k]
    BY DEF FilterInv, MissesHaveCauses
  <2>3. CASE r \in Missed(k)
    <3>1. Missed(k)' = Missed(k) \ {r}
      BY <1>0, <2>1 DEF TypeOK, Missed, With
    <3>2. Cardinality(Missed(k)') = Cardinality(Missed(k)) - 1
      BY <2>3, <3>1, MissedFinite, FS_RemoveElement
    <3>3. Guarded(k) \in {0, 1} /\ Guarded(k)' \in {0, 1}
      BY DEF Guarded
    <3>4. overlaps[k] \in Nat /\ lapses[k] \in Nat /\ Cardinality(Missed(k)) \in Nat
      BY <1>0, MissedFinite DEF TypeOK
    <3> QED
      BY <2>1, <2>2, <3>2, <3>3, <3>4
  <2>4. CASE r \notin Missed(k)
    <3>1. Missed(k)' = Missed(k)
      BY <1>0, <2>1, <2>4 DEF TypeOK, Missed, With
    <3>2. r \notin UnderWay(k)
      BY <2>1, <2>4 DEF Missed, UnderWay, With
    <3>3. UnderWay(k)' = UnderWay(k)
      BY <1>0, <2>1, <3>2 DEF TypeOK, UnderWay, With
    <3>4. Guarded(k)' = Guarded(k)
      BY <2>1, <3>3 DEF Guarded
    <3> QED
      BY <2>1, <2>2, <3>1, <3>4
  <2> QED
    BY <2>3, <2>4
<1>5. ASSUME NEW r \in Requests, FailPaid(r) PROVE MissesHaveCauses'
  <2>1. /\ UNCHANGED <<key, cache, paid, overlaps>>
        /\ stage[r] = "store" /\ stage' = [stage EXCEPT ![r] = "end"]
        /\ key[r] \in Keys /\ lapses' = [lapses EXCEPT ![key[r]] = @ + 1]
    BY <1>0, <1>5 DEF TypeOK, FailPaid, Answer
  <2>2. \A k \in Keys : Missed(k)' \subseteq Missed(k)
    BY <1>0, <2>1 DEF TypeOK, StagesOk, Missed, With
  <2>3. lapses'[key[r]] = lapses[key[r]] + 1
    BY <1>0, <2>1 DEF TypeOK
  <2>4. ASSUME NEW k \in Keys, k # key[r]
        PROVE  Guarded(k)' = Guarded(k) /\ lapses'[k] = lapses[k]
    <3>1. cache'[k] = cache[k] /\ lapses'[k] = lapses[k]
      BY <1>0, <2>1, <2>4 DEF TypeOK
    <3> QED
      BY <1>0, <2>1, <2>4, <3>1, OtherKeys
  <2> QED
    BY <2>1, <2>2, <2>3, <2>4, NoMoreMisses
<1>6. ASSUME NEW q \in Keys, Expire(q) PROVE MissesHaveCauses'
  <2>1. /\ UNCHANGED <<key, stage, paid, overlaps>>
        /\ cache' = [cache EXCEPT ![q] = None]
        /\ lapses' = [lapses EXCEPT ![q] = @ + 1]
    BY <1>6 DEF Expire
  <2>2. \A k \in Keys : Missed(k)' = Missed(k) /\ UnderWay(k)' = UnderWay(k)
    BY <2>1 DEF Missed, UnderWay, With
  <2>3. lapses'[q] = lapses[q] + 1
    BY <1>0, <2>1 DEF TypeOK
  <2>4. ASSUME NEW k \in Keys, k # q PROVE Guarded(k)' = Guarded(k) /\ lapses'[k] = lapses[k]
    <3>1. cache'[k] = cache[k] /\ lapses'[k] = lapses[k]
      BY <1>0, <2>1, <2>4 DEF TypeOK
    <3> QED
      BY <2>2, <3>1 DEF Guarded
  <2> QED
    BY <2>1, <2>2, <2>3, <2>4, NoMoreMisses
<1>7. ASSUME UNCHANGED vars PROVE MissesHaveCauses'
  <2>1. \A k \in Keys : Missed(k)' = Missed(k) /\ Guarded(k)' = Guarded(k)
    BY <1>7 DEF vars, Missed, Guarded, UnderWay, With
  <2> QED
    BY <1>7, <2>1, NoMoreMisses DEF vars
<1> QED
  BY <1>1, <1>2, <1>3, <1>4, <1>5, <1>6, <1>7 DEF Next

THEOREM FilterInvariant == Spec => []FilterInv
<1>1. FilterInv /\ [Next]_vars => FilterInv'
  BY TypeStep, CauseStep DEF FilterInv
<1> QED
  BY <1>1, InitFilter, PTL DEF Spec

(* Every variable of the filter keeps its type, for any requests and keys. *)
THEOREM FilterTypes == Spec => []TypeOK
<1>1. FilterInv => TypeOK
  BY DEF FilterInv
<1> QED
  BY <1>1, FilterInvariant, PTL

LEMMA PaidMissed ==
    ASSUME FilterInv, NEW k \in Keys
    PROVE  /\ IsFiniteSet({r \in paid : key[r] = k})
           /\ Cardinality({r \in paid : key[r] = k}) <= 1 + overlaps[k] + lapses[k]
           /\ Cardinality({r \in paid : key[r] = k}) \in Nat
<1>1. {r \in paid : key[r] = k} \subseteq Missed(k)
  BY DEF FilterInv, TypeOK, Missed, With
<1>2. /\ IsFiniteSet({r \in paid : key[r] = k})
      /\ Cardinality({r \in paid : key[r] = k}) <= Cardinality(Missed(k))
      /\ Cardinality({r \in paid : key[r] = k}) \in Nat
  BY <1>1, MissedFinite, FS_Subset, FS_CardinalityType
<1>3. /\ Cardinality(Missed(k)) <= Guarded(k) + overlaps[k] + lapses[k]
      /\ Guarded(k) \in {0, 1} /\ overlaps[k] \in Nat /\ lapses[k] \in Nat
      /\ Cardinality(Missed(k)) \in Nat
  BY MissedFinite DEF FilterInv, TypeOK, MissesHaveCauses, Guarded
<1> QED
  BY <1>2, <1>3

(* The bound on repeated payments, for any number of requests and keys.    *)
THEOREM RepetitionsHaveCauses == Spec => []EveryRepetitionHasACause
<1>1. FilterInv => EveryRepetitionHasACause
  BY PaidMissed DEF EveryRepetitionHasACause
<1> QED
  BY <1>1, FilterInvariant, PTL

LEMMA AtMostOne ==
    ASSUME NEW S, IsFiniteSet(S), Cardinality(S) <= 1, NEW x \in S, NEW y \in S
    PROVE  x = y
<1> SUFFICES ASSUME x # y PROVE FALSE
  OBVIOUS
<1>1. IsFiniteSet({x}) /\ Cardinality({x}) = 1
  BY FS_Singleton
<1>2. Cardinality({x} \cup {y}) = 2
  BY <1>1, FS_AddElement
<1>3. Cardinality({x} \cup {y}) <= Cardinality(S) /\ Cardinality(S) \in Nat
  <2>1. {x} \cup {y} \subseteq S
    OBVIOUS
  <2> QED
    BY <2>1, FS_Subset, FS_CardinalityType
<1> QED
  BY <1>2, <1>3

(* Without overlap and loss all clients of a key hear of one payment.      *)
THEOREM ReceiptsAgree == Spec => []OneReceiptPerKey
<1>1. FilterInv => OneReceiptPerKey
  <2> SUFFICES ASSUME FilterInv, NEW r \in Requests, NEW s \in Requests, key[r] = key[s],
                      {answer[r], answer[s]} \subseteq {"paid", "replayed"},
                      overlaps[key[r]] = 0, lapses[key[r]] = 0
               PROVE  receipt[r] = receipt[s]
    BY DEF OneReceiptPerKey
  <2> DEFINE P == {q \in paid : key[q] = key[r]}
  <2>1. receipt[r] \in P /\ receipt[s] \in P
    BY DEF FilterInv, ReceiptsOk
  <2>2. key[r] \in Keys
    BY <2>1, FilterAssumption DEF FilterInv, TypeOK, StagesOk, FilterAssumption
  <2>3. IsFiniteSet(P) /\ Cardinality(P) <= 1
    BY <2>2, PaidMissed
  <2> QED
    BY <2>1, <2>3, AtMostOne
<1> QED
  BY <1>1, FilterInvariant, PTL

================================================================================
