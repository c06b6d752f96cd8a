--------------------------- MODULE LoginGuardProofs ---------------------------
(***************************************************************************)
(* Proofs about LoginGuard, for any number of requests and threads and any *)
(* limits, windows and delays.                                             *)
(***************************************************************************)
EXTENDS LoginGuard, FiniteSums, SequenceTheorems

USE LoginAssumption

-----------------------------------------------------------------------------
(* Deques *)

(* The elements of a deque are no more than its length.                      *)
LEMMA DequeCount ==
    ASSUME NEW dq \in Seq(Request), NEW S \in SUBSET Request, \A r \in S : In(r, dq)
    PROVE  IsFiniteSet(S) /\ Cardinality(S) \in Nat /\ Cardinality(S) <= Len(dq)
  <1> DEFINE E == {r \in Request : In(r, dq)}
             f == [i \in 1..Len(dq) |-> dq[i]]
  <1>1. Len(dq) \in Nat /\ DOMAIN dq = 1..Len(dq) /\ \A i \in 1..Len(dq) : dq[i] \in Request
    OBVIOUS
  <1>2. f \in Surjection(1..Len(dq), E)
    BY <1>1 DEF Surjection, In
  <1>3. Cardinality(E) <= Len(dq) /\ IsFiniteSet(E)
    BY <1>1, <1>2, FS_SurjCardinalityBound, FS_Subset DEF ExistsSurjection
  <1>4. S \subseteq E
    OBVIOUS
  <1>5. IsFiniteSet(S) /\ Cardinality(S) <= Cardinality(E)
    BY <1>3, <1>4, FS_Subset
  <1> QED
    BY <1>1, <1>3, <1>5, FS_CardinalityType

(* What is left of a deque: all that was dropped is older than the window,    *)
(* and the last one stays the last.                                         *)
Purged(live, dq, time, window, t) ==
    /\ live \in Seq(Request) /\ Len(live) <= Len(dq)
    /\ \A i \in DOMAIN live : In(live[i], dq)
    /\ live # <<>> => dq # <<>> /\ live[Len(live)] = dq[Len(dq)]
    /\ \A r \in Request : In(r, dq) /\ ~In(r, live) => time[r] + window < t

(* That is what _purge leaves.                                               *)
LEMMA PurgeDropsOld ==
    ASSUME NEW dq \in Seq(Request), NEW n \in Nat, NEW time \in [Request -> 0..n],
           NEW window \in Nat, NEW t \in Nat
    PROVE  Purged(purge(dq, time, window, t), dq, time, window, t)
  <1> DEFINE kept == {i \in DOMAIN dq : time[dq[i]] + window >= t}
             live == purge(dq, time, window, t)
  <1>1. /\ Len(dq) \in Nat /\ DOMAIN dq = 1..Len(dq)
        /\ \A i \in 1..Len(dq) : dq[i] \in Request /\ time[dq[i]] \in Nat
    OBVIOUS
  <1>2. CASE kept = {}
    <2>1. live = <<>>
      BY <1>2 DEF purge
    <2>2. ASSUME NEW r \in Request, In(r, dq)
          PROVE  time[r] + window < t
      <3>1. PICK i \in DOMAIN dq : dq[i] = r
        BY <2>2 DEF In
      <3>2. ~(time[dq[i]] + window >= t)
        BY <1>2
      <3> QED
        BY <1>1, <3>1, <3>2
    <2> QED
      BY <1>1, <2>1, <2>2 DEF Purged
  <1>3. CASE kept # {}
    <2>1. kept \in SUBSET Nat
      BY <1>1
    <2>2. \E i \in kept : \A j \in kept : i <= j
      BY <1>3, <2>1, Least
    <2>3. PICK m \in kept : /\ m = CHOOSE i \in kept : \A j \in kept : i <= j
                            /\ \A j \in kept : m <= j
      BY <2>2
    <2>4. live = SubSeq(dq, m, Len(dq))
      BY <1>3, <2>3 DEF purge
    <2>5. m \in 1..Len(dq)
      BY <1>1
    <2> HIDE DEF live, kept
    <2>l. m \in Nat /\ \A j \in kept : m <= j
      BY <2>3, <2>5
    <2>6. /\ live \in Seq(Request) /\ Len(live) = Len(dq) - m + 1
          /\ \A i \in 1..(Len(dq) - m + 1) : live[i] = dq[m + i - 1]
      BY <1>1, <2>4, <2>5, SubSeqProperties
    <2>7. \A i \in DOMAIN live : In(live[i], dq)
      <3>1. ASSUME NEW i \in DOMAIN live
            PROVE  In(live[i], dq)
        <4>1. i \in 1..(Len(dq) - m + 1)
          BY <2>6
        <4>2. m + i - 1 \in DOMAIN dq
          BY <1>1, <2>5, <4>1
        <4>3. live[i] = dq[m + i - 1]
          BY <2>6, <4>1
        <4> QED
          BY <4>2, <4>3 DEF In
      <3> QED
        BY <3>1
    <2>8. dq # <<>> /\ live[Len(live)] = dq[Len(dq)]
      <3> DEFINE k == Len(dq) - m + 1
      <3>1. k \in 1..k /\ m + k - 1 = Len(dq) /\ Len(dq) # 0
        BY <1>1, <2>5
      <3>2. live[k] = dq[m + k - 1]
        BY <2>6, <3>1
      <3> QED
        BY <2>6, <3>1, <3>2
    <2>9. ASSUME NEW r \in Request, In(r, dq), ~In(r, live)
          PROVE  time[r] + window < t
      <3>1. PICK i \in DOMAIN dq : dq[i] = r
        BY <2>9 DEF In
      <3>2. i < m
        <4>1. SUFFICES ASSUME i >= m PROVE FALSE
          BY <1>1, <2>5
        <4>2. i - m + 1 \in 1..(Len(dq) - m + 1) /\ m + (i - m + 1) - 1 = i
          BY <1>1, <2>5, <4>1
        <4>3. live[i - m + 1] = r /\ i - m + 1 \in DOMAIN live
          BY <2>6, <3>1, <4>2
        <4> QED
          BY <2>9, <4>3 DEF In
      <3>3. i \notin kept
        <4>1. i \in Nat
          BY <1>1, <3>1
        <4> QED
          BY <2>l, <3>2, <4>1
      <3> QED
        BY <1>1, <3>1, <3>3 DEF kept
    <2>10. Len(live) <= Len(dq)
      BY <1>1, <2>5, <2>6
    <2> HIDE DEF live
    <2>11. Purged(live, dq, time, window, t)
      BY <2>6, <2>7, <2>8, <2>9, <2>10 DEF Purged
    <2> QED
      BY <2>11 DEF live
  <1> QED
    BY <1>2, <1>3

(* Appending puts one request behind the others.                             *)
LEMMA Appended ==
    ASSUME NEW dq \in Seq(Request), NEW r \in Request
    PROVE  /\ Append(dq, r) \in Seq(Request) /\ Len(Append(dq, r)) = Len(dq) + 1
           /\ Append(dq, r)[Len(dq) + 1] = r
           /\ \A i \in DOMAIN Append(dq, r) : i = Len(dq) + 1 \/ (i \in DOMAIN dq /\ Append(dq, r)[i] = dq[i])
           /\ \A q \in Request : In(q, Append(dq, r)) <=> q = r \/ In(q, dq)
  <1> DEFINE ap == Append(dq, r)
  <1>1. /\ ap \in Seq(Request) /\ Len(ap) = Len(dq) + 1 /\ ap[Len(dq) + 1] = r
        /\ \A i \in 1..Len(dq) : ap[i] = dq[i]
        /\ DOMAIN ap = 1..(Len(dq) + 1) /\ DOMAIN dq = 1..Len(dq) /\ Len(dq) \in Nat
    OBVIOUS
  <1> HIDE DEF ap
  <1>2. \A i \in DOMAIN ap : i = Len(dq) + 1 \/ (i \in DOMAIN dq /\ ap[i] = dq[i])
    BY <1>1
  <1>3. \A q \in Request : In(q, ap) <=> q = r \/ In(q, dq)
    BY <1>1, <1>2 DEF In
  <1> QED
    BY <1>1, <1>2, <1>3 DEF ap

(* Sets of requests are finite, and a part is no larger than the whole.      *)
LEMMA RequestSets ==
    ASSUME NEW S \in SUBSET Request
    PROVE  /\ IsFiniteSet(S) /\ Cardinality(S) \in Nat
           /\ \A T \in SUBSET S : Cardinality(T) \in Nat /\ Cardinality(T) <= Cardinality(S)
           /\ \A r : Cardinality(S \cup {r}) <= Cardinality(S) + 1
  <1>1. IsFiniteSet(S) /\ Cardinality(S) \in Nat
    BY FS_Subset, FS_CardinalityType
  <1>2. ASSUME NEW T \in SUBSET S
        PROVE  Cardinality(T) \in Nat /\ Cardinality(T) <= Cardinality(S)
    BY <1>1, FS_Subset, FS_CardinalityType
  <1>3. ASSUME NEW r
        PROVE  Cardinality(S \cup {r}) <= Cardinality(S) + 1
    BY <1>1, FS_AddElement
  <1> QED
    BY <1>1, <1>2, <1>3

-----------------------------------------------------------------------------
(* Types and readings *)

Handled == {r \in Request : InHandler(r)}

(* A request moves to a place, with the time that it read or none.           *)
LEMMA MovesKeep ==
    ASSUME TypeOK, ReadingsAreRecent, NEW r \in Request, NEW from \in Place, NEW to \in Place,
           \/ ReadsClock(r, from, to)
           \/ UsesClock(r, from, to) /\ to \notin {"flood", "gate", "failing"}
           \/ Moves(r, from, to) /\ UNCHANGED stamp /\ to \notin {"flood", "gate", "failing"},
           UNCHANGED now
    PROVE  /\ at' \in [Request -> Place] /\ stamp' \in [Request -> 0..now'] /\ now' \in Nat
           /\ at[r] = from /\ at'[r] = to
           /\ \A q \in Request \ {r} : at'[q] = at[q] /\ stamp'[q] = stamp[q]
           /\ ReadingsAreRecent'
  <1>1. at \in [Request -> Place] /\ stamp \in [Request -> 0..now] /\ now \in Nat
    BY DEF TypeOK
  <1>2. /\ at[r] = from /\ at' = [at EXCEPT ![r] = to]
        /\ \/ stamp' = [stamp EXCEPT ![r] = now]
           \/ /\ stamp' = [stamp EXCEPT ![r] = 0] \/ stamp' = stamp
              /\ to \notin {"flood", "gate", "failing"}
    BY DEF ReadsClock, UsesClock, Moves
  <1>3. at' \in [Request -> Place] /\ stamp' \in [Request -> 0..now'] /\ now' \in Nat
    BY <1>1, <1>2
  <1>4. /\ at'[r] = to
        /\ \A q \in Request \ {r} : at'[q] = at[q] /\ stamp'[q] = stamp[q]
    BY <1>1, <1>2
  <1>5. to \in {"flood", "gate", "failing"} => stamp'[r] = now
    BY <1>1, <1>2
  <1>6. ASSUME NEW q \in Request, Waiting(q)'
        PROVE  now' <= stamp'[q] + MaxDelay
    <2>1. CASE q = r
      BY <1>1, <1>4, <1>5, <1>6, <2>1 DEF Waiting
    <2>2. CASE q # r
      BY <1>4, <1>6, <2>2 DEF Waiting, ReadingsAreRecent
    <2> QED
      BY <2>1, <2>2
  <1> QED
    BY <1>2, <1>3, <1>4, <1>6 DEF ReadingsAreRecent

(* The handlers stay within the threads.                                     *)
LEMMA ThreadsHold ==
    ASSUME TypeOK, \/ Handled' \subseteq Handled
                   \/ /\ \E r : Handled' = Handled \cup {r}
                      /\ Cardinality(Handled) < Threads
    PROVE  Cardinality(Handled') <= Threads
  <1> DEFINE H == Handled
             K == Handled'
  <1>1. H \in SUBSET Request /\ Cardinality(H) <= Threads
    BY DEF Handled, TypeOK
  <1>2. K \subseteq H \/ \E r : K = H \cup {r} /\ Cardinality(H) < Threads
    OBVIOUS
  <1> HIDE DEF H, K
  <1>3. Cardinality(H) \in Nat
    BY <1>1, RequestSets
  <1>4. ASSUME K \subseteq H
        PROVE  Cardinality(K) <= Threads
    <2>1. IsFiniteSet(H) /\ K \in SUBSET H
      BY <1>1, <1>4, RequestSets
    <2>2. Cardinality(K) \in Nat /\ Cardinality(K) <= Cardinality(H)
      BY <2>1, FS_Subset, FS_CardinalityType
    <2> QED
      BY <1>1, <1>3, <2>2
  <1>5. ASSUME NEW r, K = H \cup {r}, Cardinality(H) < Threads
        PROVE  Cardinality(K) <= Threads
    <2>1. IsFiniteSet(H) /\ Cardinality(H \cup {r}) <= Cardinality(H) + 1
      BY <1>1, RequestSets
    <2>2. Cardinality(H \cup {r}) \in Nat
      BY <2>1, FS_AddElement, FS_CardinalityType
    <2> QED
      BY <1>3, <1>5, <2>1, <2>2
  <1>6. Cardinality(K) <= Threads
    BY <1>2, <1>4, <1>5
  <1> QED
    BY <1>6 DEF K

-----------------------------------------------------------------------------
(* The window of the requests *)

FloodInvariant == WindowHolds /\ BucketIsComplete

(* Later steps of a request do not matter to the window, nor does the clock.  *)
LEMMA FloodFrame ==
    ASSUME TypeOK, FloodInvariant, UNCHANGED <<bucket, admitted_at>>, now' \in Nat, now <= now',
           \A r \in Request : Admitted(r)' = Admitted(r)
    PROVE  FloodInvariant'
  <1>1. \A a, b : AdmittedWithin(a, b)' = AdmittedWithin(a, b)
    BY DEF AdmittedWithin
  <1>2. WindowHolds'
    BY <1>1 DEF FloodInvariant, WindowHolds
  <1>3. BucketIsComplete'
    BY DEF FloodInvariant, BucketIsComplete, In, TypeOK
  <1> QED
    BY <1>2, <1>3 DEF FloodInvariant

(* A request that is admitted finds every request of its stretch of time in   *)
(* the bucket: what any purge dropped is too old by more than the delay.    *)
LEMMA FloodKeeps ==
    ASSUME TypeOK, FloodInvariant, ReadingsAreRecent, NEW r \in Request, check_rate_limit(r)
    PROVE  /\ FloodInvariant' /\ bucket' \in Seq(Request) /\ admitted_at' \in [Request -> 0..now']
           /\ \E to \in {"refused", "admitted"} : UsesClock(r, "flood", to)
  <1> DEFINE live == purge(bucket, admitted_at, WINDOW, stamp[r])
  <1>1. /\ at \in [Request -> Place] /\ at[r] = "flood" /\ now \in Nat /\ UNCHANGED now
        /\ stamp[r] \in Nat /\ stamp[r] <= now /\ now <= stamp[r] + MaxDelay
        /\ bucket \in Seq(Request) /\ admitted_at \in [Request -> 0..now]
    BY DEF TypeOK, ReadingsAreRecent, Waiting, check_rate_limit, UsesClock, Moves
  <1>2. /\ live \in Seq(Request) /\ \A q \in Request : In(q, live) => In(q, bucket)
        /\ \A q \in Request : In(q, bucket) /\ ~In(q, live) => admitted_at[q] + WINDOW < stamp[r]
    <2>1. Purged(live, bucket, admitted_at, WINDOW, stamp[r])
      BY <1>1, PurgeDropsOld
    <2> HIDE DEF live
    <2> QED
      BY <2>1 DEF Purged, In
  <1>3. \A q \in Request : admitted_at[q] \in Nat /\ admitted_at[q] <= now
    BY <1>1
  <1>4. ASSUME NEW q \in Request, Admitted(q), ~In(q, live)
        PROVE  admitted_at[q] + WINDOW < now
    BY <1>1, <1>2, <1>3, <1>4 DEF FloodInvariant, BucketIsComplete
  <1>5. \A q \in Request : In(q, live) => Admitted(q)
    BY <1>2 DEF FloodInvariant, BucketIsComplete
  <1>6. ~Admitted(r)
    BY <1>1 DEF Admitted
  <1> HIDE DEF live
  <1>7. CASE /\ Len(live) >= LIMIT /\ UsesClock(r, "flood", "refused")
             /\ bucket' = live /\ UNCHANGED admitted_at
    <2>1. \A q \in Request : Admitted(q)' = Admitted(q)
      BY <1>1, <1>7 DEF UsesClock, Moves, Admitted
    <2>2. WindowHolds'
      BY <1>7, <2>1 DEF FloodInvariant, WindowHolds, AdmittedWithin
    <2>3. BucketIsComplete'
      BY <1>1, <1>4, <1>5, <1>7, <2>1 DEF BucketIsComplete
    <2> QED
      BY <1>1, <1>2, <1>7, <2>2, <2>3 DEF FloodInvariant
  <1>8. CASE /\ Len(live) < LIMIT /\ UsesClock(r, "flood", "admitted")
             /\ bucket' = Append(live, r)
             /\ admitted_at' = [admitted_at EXCEPT ![r] = stamp[r]]
    <2>1. \A q \in Request : Admitted(q)' <=> q = r \/ Admitted(q)
      BY <1>1, <1>8 DEF UsesClock, Moves, Admitted
    <2>2. /\ bucket' \in Seq(Request) /\ \A q \in Request : In(q, bucket') <=> q = r \/ In(q, live)
      BY <1>2, <1>8, Appended
    <2>3. /\ admitted_at' \in [Request -> 0..now'] /\ admitted_at'[r] = stamp[r]
          /\ \A q \in Request \ {r} : admitted_at'[q] = admitted_at[q]
      BY <1>1, <1>8
    <2>4. BucketIsComplete'
      BY <1>1, <1>4, <1>5, <2>1, <2>2, <2>3 DEF BucketIsComplete
    <2>5. ASSUME NEW a \in 0..MaxNow
          PROVE  Cardinality(AdmittedWithin(a, a + WINDOW - MaxDelay)') <= LIMIT
      <3>1. PICK b \in Int : b = a + WINDOW - MaxDelay
        OBVIOUS
      <3> DEFINE A == AdmittedWithin(a, b)
                 B == AdmittedWithin(a, b)'
      <3>2. A \in SUBSET Request /\ B \in SUBSET Request /\ Cardinality(A) <= LIMIT
        BY <3>1 DEF AdmittedWithin, FloodInvariant, WindowHolds
      <3>3. CASE a <= stamp[r] /\ stamp[r] <= b
        <4>1. now <= a + WINDOW
          BY <1>1, <3>1, <3>3
        <4>2. ASSUME NEW q \in A
              PROVE  In(q, live)
          <5>1. q \in Request /\ Admitted(q) /\ a <= admitted_at[q] /\ a \in Nat
            BY DEF AdmittedWithin
          <5>2. ~(admitted_at[q] + WINDOW < now)
            BY <1>1, <1>3, <4>1, <5>1
          <5> QED
            BY <1>4, <5>1, <5>2
        <4>3. B \subseteq A \cup {r}
          BY <1>6, <2>1, <2>3 DEF AdmittedWithin
        <4> HIDE DEF A, B
        <4>4. IsFiniteSet(A) /\ Cardinality(A) \in Nat /\ Cardinality(A) <= Len(live)
          BY <1>2, <3>2, <4>2, DequeCount
        <4>5. Cardinality(A \cup {r}) <= Cardinality(A) + 1 /\ A \cup {r} \in SUBSET Request
          BY <3>2, RequestSets
        <4>6. Cardinality(B) \in Nat /\ Cardinality(B) <= Cardinality(A \cup {r}) /\ Cardinality(A \cup {r}) \in Nat
          BY <4>3, <4>5, RequestSets
        <4>7. Len(live) \in Nat
          BY <1>2
        <4>8. Cardinality(B) <= LIMIT
          BY <1>8, <4>4, <4>5, <4>6, <4>7
        <4> QED
          BY <3>1, <4>8 DEF B
      <3>4. CASE ~(a <= stamp[r] /\ stamp[r] <= b)
        <4>1. B \subseteq A
          BY <1>6, <2>1, <2>3, <3>4 DEF AdmittedWithin
        <4> HIDE DEF A, B
        <4>2. Cardinality(B) \in Nat /\ Cardinality(A) \in Nat /\ Cardinality(B) <= Cardinality(A)
          BY <3>2, <4>1, RequestSets
        <4>3. Cardinality(B) <= LIMIT
          BY <3>2, <4>2
        <4> QED
          BY <3>1, <4>3 DEF B
      <3> QED
        BY <3>3, <3>4
    <2>6. WindowHolds'
      BY <2>5 DEF WindowHolds
    <2> QED
      BY <1>8, <2>2, <2>3, <2>4, <2>6 DEF FloodInvariant
  <1> QED
    BY <1>7, <1>8 DEF check_rate_limit, live

-----------------------------------------------------------------------------
(* The lockout of the account *)

IsTier(tier, lockout) ==
    \/ tier = Tier1 /\ lockout = Lock1
    \/ tier = Tier2 /\ lockout = Lock2

LockInvariant ==
    /\ FailuresAreComplete /\ LastIsLatest
    /\ \A tier, lockout : IsTier(tier, lockout) => TierHolds(tier, lockout)

(* The two tiers are all there are.                                          *)
LEMMA Tiers ==
    /\ (\A tier, lockout : IsTier(tier, lockout) => TierHolds(tier, lockout))
         <=> TierHolds(Tier1, Lock1) /\ TierHolds(Tier2, Lock2)
    /\ \A tier, lockout : IsTier(tier, lockout) =>
         tier \in Nat \ {0} /\ lockout \in Nat /\ tier >= Tier1 /\ lockout <= LOCKOUT_WINDOW_SECONDS
  BY DEF IsTier

(* No fewer guess than did, or may, if some of either are gone.              *)
LEMMA FewerGuesses ==
    ASSUME NEW W \in SUBSET Request, NEW G \in SUBSET Request, NEW n \in Nat,
           NEW V \in SUBSET W, NEW H \in SUBSET G, Cardinality(W) + Cardinality(G) < n
    PROVE  Cardinality(V) + Cardinality(H) < n
  <1>1. /\ Cardinality(W) \in Nat /\ Cardinality(G) \in Nat
        /\ Cardinality(V) \in Nat /\ Cardinality(H) \in Nat
        /\ Cardinality(V) <= Cardinality(W) /\ Cardinality(H) <= Cardinality(G)
    BY RequestSets
  <1> QED
    BY <1>1

(* A tier holds after a step if it does in every stretch of time, given how    *)
(* many guessed in it before.                                               *)
LEMMA TierSteps ==
    ASSUME NEW tier, NEW lockout, IsTier(tier, lockout), TypeOK, TypeOK', LockInvariant,
           \A a \in Nat, b \in Int :
             /\ b = a + lockout - MaxDelay
             /\ Cardinality(WrongWithin(a, b)) + Cardinality(MayGuess(b)) < tier + Threads
             => Cardinality(WrongWithin(a, b)') + Cardinality(MayGuess(b)') < tier + Threads
    PROVE  TierHolds(tier, lockout)'
  <1>1. ASSUME NEW a \in 0..MaxNow
        PROVE  LET b == a + lockout - MaxDelay IN
               Cardinality(WrongWithin(a, b)') + Cardinality(MayGuess(b)') < tier + Threads
    <2>1. a \in Nat /\ lockout \in Nat
      BY Tiers
    <2>2. PICK b \in Int : b = a + lockout - MaxDelay
      BY <2>1
    <2>3. Cardinality(WrongWithin(a, b)) + Cardinality(MayGuess(b)) < tier + Threads
      BY <2>2 DEF LockInvariant, TierHolds
    <2>4. Cardinality(WrongWithin(a, b)') + Cardinality(MayGuess(b)') < tier + Threads
      BY <2>1, <2>2, <2>3
    <2> QED
      BY <2>2, <2>4
  <1> QED
    BY <1>1 DEF TierHolds

(* What happens before the gate, and the clock, bring no guess.              *)
LEMMA LockFrame ==
    ASSUME TypeOK, TypeOK', LockInvariant, UNCHANGED <<failures, failed_at, wrong>>, now <= now',
           \A q \in Request : at'[q] \in {"verifying", "failing"} => at'[q] = at[q] /\ stamp'[q] = stamp[q],
           \A q \in Request : at[q] = "failed" => at'[q] = "failed"
    PROVE  LockInvariant'
  <1>1. now \in Nat /\ now' \in Nat /\ failed_at \in [Request -> 0..now] /\ wrong \subseteq Request
    BY DEF TypeOK
  <1>2. FailuresAreComplete'
    <2>1. \A q \in Request : failed_at[q] \in Nat
      BY <1>1
    <2> QED
      BY <1>1, <2>1 DEF LockInvariant, FailuresAreComplete
  <1>3. LastIsLatest'
    BY DEF LockInvariant, LastIsLatest
  <1>4. ASSUME NEW tier, NEW lockout, IsTier(tier, lockout)
        PROVE  TierHolds(tier, lockout)'
    <2>1. ASSUME NEW a \in Nat, NEW b \in Int,
                 Cardinality(WrongWithin(a, b)) + Cardinality(MayGuess(b)) < tier + Threads
          PROVE  Cardinality(WrongWithin(a, b)') + Cardinality(MayGuess(b)') < tier + Threads
      <3> DEFINE W == WrongWithin(a, b)
                 G == MayGuess(b)
                 V == WrongWithin(a, b)'
                 H == MayGuess(b)'
      <3>1. W \in SUBSET Request /\ G \in SUBSET Request /\ V \in SUBSET W
        BY <1>1 DEF WrongWithin, MayGuess
      <3>2. H \in SUBSET G
        BY <1>1 DEF MayGuess
      <3>3. tier + Threads \in Nat
        BY <1>4, Tiers
      <3>4. Cardinality(W) + Cardinality(G) < tier + Threads
        BY <2>1
      <3> HIDE DEF W, G, V, H
      <3>5. Cardinality(V) + Cardinality(H) < tier + Threads
        BY <3>1, <3>2, <3>3, <3>4, FewerGuesses
      <3> QED
        BY <3>5 DEF V, H
    <2> QED
      BY <1>4, <2>1, TierSteps
  <1> QED
    BY <1>2, <1>3, <1>4 DEF LockInvariant

(* Who learns that his password was wrong could guess within a stretch before *)
(* the time is read as much as after it.                                    *)
LEMMA WrongKeeps ==
    ASSUME TypeOK, TypeOK', LockInvariant, NEW r \in Request, WrongPassword(r)
    PROVE  LockInvariant'
  <1>1. /\ now \in Nat /\ UNCHANGED <<now, failures, failed_at, wrong>>
        /\ at[r] = "verifying" /\ at'[r] = "failing" /\ stamp'[r] = now
        /\ \A q \in Request \ {r} : at'[q] = at[q] /\ stamp'[q] = stamp[q]
    BY DEF TypeOK, WrongPassword, ReadsClock, Moves
  <1>2. FailuresAreComplete' /\ LastIsLatest'
    BY <1>1 DEF LockInvariant, FailuresAreComplete, LastIsLatest
  <1>3. ASSUME NEW tier, NEW lockout, IsTier(tier, lockout)
        PROVE  TierHolds(tier, lockout)'
    <2>1. \A a, b : WrongWithin(a, b)' = WrongWithin(a, b)
      BY <1>1 DEF WrongWithin
    <2>2. \A b \in Int : MayGuess(b)' = MayGuess(b)
      BY <1>1 DEF MayGuess
    <2> QED
      BY <1>3, <2>1, <2>2, TierSteps
  <1> QED
    BY <1>2, <1>3 DEF LockInvariant

(* The account's owner starts the count anew: only the threads may guess.    *)
LEMMA RightKeeps ==
    ASSUME TypeOK, TypeOK', LockInvariant, NEW r \in Request, RightPassword(r)
    PROVE  LockInvariant'
  <1>1. failures' = <<>> /\ wrong' = {}
    BY DEF RightPassword
  <1>2. FailuresAreComplete' /\ LastIsLatest'
    BY <1>1 DEF FailuresAreComplete, LastIsLatest, In
  <1>3. ASSUME NEW tier, NEW lockout, IsTier(tier, lockout)
        PROVE  TierHolds(tier, lockout)'
    <2>1. ASSUME NEW a \in Nat, NEW b \in Int
          PROVE  Cardinality(WrongWithin(a, b)') + Cardinality(MayGuess(b)') < tier + Threads
      <3>1. WrongWithin(a, b)' = {} /\ Cardinality({}) = 0
        BY <1>1, FS_EmptySet DEF WrongWithin
      <3> DEFINE H == MayGuess(b)'
                 K == Handled'
      <3>2. H \in SUBSET K /\ K \in SUBSET Request /\ Cardinality(K) <= Threads
        BY DEF MayGuess, Handled, InHandler, TypeOK
      <3> HIDE DEF H, K
      <3>3. Cardinality(H) \in Nat /\ Cardinality(K) \in Nat /\ Cardinality(H) <= Cardinality(K)
        BY <3>2, RequestSets
      <3>4. tier \in Nat \ {0}
        BY <1>3, Tiers
      <3>5. 0 + Cardinality(H) < tier + Threads
        BY <3>2, <3>3, <3>4
      <3> QED
        BY <3>1, <3>5 DEF H
    <2> QED
      BY <1>3, <2>1, TierSteps
  <1> QED
    BY <1>2, <1>3 DEF LockInvariant

(* The deque of failures after a purge by a reading of the clock.             *)
LEMMA FailuresPurged ==
    ASSUME TypeOK, LockInvariant, NEW t \in Nat, t <= now,
           NEW live, live = purge(failures, failed_at, LOCKOUT_WINDOW_SECONDS, t)
    PROVE  /\ live \in Seq(Request) /\ \A q \in Request : In(q, live) => q \in wrong
           /\ \A q \in wrong : ~In(q, live) => failed_at[q] + LOCKOUT_WINDOW_SECONDS < now
           /\ \A i \in DOMAIN live : failed_at[live[i]] <= failed_at[live[Len(live)]] + MaxDelay
  <1>1. /\ now \in Nat /\ failures \in Seq(Request) /\ failed_at \in [Request -> 0..now]
        /\ wrong \subseteq Request
    BY DEF TypeOK
  <1>2. Purged(live, failures, failed_at, LOCKOUT_WINDOW_SECONDS, t)
    BY <1>1, PurgeDropsOld
  <1>3. live \in Seq(Request)
    BY <1>2 DEF Purged
  <1>4. ASSUME NEW q \in Request, In(q, live)
        PROVE  q \in wrong
    <2>1. In(q, failures)
      BY <1>2, <1>4 DEF Purged, In
    <2> QED
      BY <2>1 DEF LockInvariant, FailuresAreComplete
  <1>5. ASSUME NEW q \in wrong, ~In(q, live)
        PROVE  failed_at[q] + LOCKOUT_WINDOW_SECONDS < now
    <2>1. q \in Request /\ failed_at[q] \in Nat
      BY <1>1
    <2>2. CASE In(q, failures)
      <3>1. failed_at[q] + LOCKOUT_WINDOW_SECONDS < t
        BY <1>2, <1>5, <2>1, <2>2 DEF Purged
      <3> QED
        BY <1>1, <2>1, <3>1
    <2>3. CASE ~In(q, failures)
      BY <2>1, <2>3 DEF LockInvariant, FailuresAreComplete
    <2> QED
      BY <2>2, <2>3
  <1>6. ASSUME NEW i \in DOMAIN live
        PROVE  failed_at[live[i]] <= failed_at[live[Len(live)]] + MaxDelay
    <2>1. live # <<>> /\ In(live[i], failures)
      BY <1>2, <1>6 DEF Purged
    <2>2. PICK j \in DOMAIN failures : failures[j] = live[i]
      BY <2>1 DEF In
    <2>3. live[Len(live)] = failures[Len(failures)]
      BY <1>2, <2>1 DEF Purged
    <2> QED
      BY <2>2, <2>3 DEF LockInvariant, LastIsLatest
  <1> QED
    BY <1>3, <1>4, <1>5, <1>6

(* A failure that is recorded was counted before among those who may guess.   *)
LEMMA RecordKeeps ==
    ASSUME TypeOK, TypeOK', ReadingsAreRecent, LockInvariant, NEW r \in Request,
           record_login_failure(r)
    PROVE  LockInvariant'
  <1>1. /\ now \in Nat /\ now' = now /\ at[r] = "failing" /\ at'[r] = "failed"
        /\ stamp[r] \in Nat /\ stamp[r] <= now /\ now <= stamp[r] + MaxDelay
        /\ \A q \in Request \ {r} : at'[q] = at[q] /\ stamp'[q] = stamp[q]
        /\ failed_at'[r] = stamp[r] /\ \A q \in Request \ {r} : failed_at'[q] = failed_at[q]
        /\ wrong' = wrong \cup {r} /\ wrong \subseteq Request
        /\ \A q \in Request : failed_at'[q] \in Nat /\ failed_at'[q] <= now
    BY DEF TypeOK, ReadingsAreRecent, Waiting, record_login_failure, UsesClock, Moves
  <1>2. PICK live : live = purge(failures, failed_at, LOCKOUT_WINDOW_SECONDS, stamp[r])
    OBVIOUS
  <1>3. /\ live \in Seq(Request) /\ \A q \in Request : In(q, live) => q \in wrong
        /\ \A q \in wrong : ~In(q, live) => failed_at[q] + LOCKOUT_WINDOW_SECONDS < now
    BY <1>1, <1>2, FailuresPurged
  <1>4. failures' = Append(live, r)
    BY <1>2 DEF record_login_failure
  <1>5. /\ Len(failures') = Len(live) + 1 /\ failures'[Len(live) + 1] = r
        /\ \A q \in Request : In(q, failures') <=> q = r \/ In(q, live)
        /\ \A i \in DOMAIN failures' : failures'[i] \in Request
    BY <1>3, <1>4, Appended
  <1>6. r \notin wrong /\ \A q \in wrong : at[q] = "failed"
    BY <1>1 DEF LockInvariant, FailuresAreComplete
  <1>7. FailuresAreComplete'
    BY <1>1, <1>3, <1>5, <1>6 DEF FailuresAreComplete
  <1>8. LastIsLatest'
    BY <1>1, <1>5 DEF LastIsLatest
  <1>9. ASSUME NEW tier, NEW lockout, IsTier(tier, lockout)
        PROVE  TierHolds(tier, lockout)'
    <2>1. ASSUME NEW a \in Nat, NEW b \in Int,
                 Cardinality(WrongWithin(a, b)) + Cardinality(MayGuess(b)) < tier + Threads
          PROVE  Cardinality(WrongWithin(a, b)') + Cardinality(MayGuess(b)') < tier + Threads
      <3> DEFINE W == WrongWithin(a, b)
                 G == MayGuess(b)
                 V == WrongWithin(a, b)'
                 H == MayGuess(b)'
      <3>1. W \in SUBSET Request /\ G \in SUBSET Request
        BY <1>1 DEF WrongWithin, MayGuess
      <3>3. tier + Threads \in Nat
        BY <1>9, Tiers
      <3>4. Cardinality(W) + Cardinality(G) < tier + Threads
        BY <2>1
      <3>5. H \in SUBSET G /\ r \notin H /\ r \notin W
        BY <1>1, <1>6 DEF MayGuess, WrongWithin
      <3>6. V \subseteq W \cup {r} /\ (r \in V => stamp[r] < b)
        BY <1>1, <1>6 DEF WrongWithin
      <3>7. CASE stamp[r] < b
        <4>1. r \in G
          BY <1>1, <3>7 DEF MayGuess
        <4> HIDE DEF W, G, V, H
        <4>2. /\ IsFiniteSet(W) /\ IsFiniteSet(G) /\ Cardinality(W) \in Nat /\ Cardinality(G) \in Nat
              /\ Cardinality(W \cup {r}) <= Cardinality(W) + 1
          BY <3>1, RequestSets
        <4>3. Cardinality(G \ {r}) = Cardinality(G) - 1 /\ IsFiniteSet(G \ {r}) /\ H \in SUBSET (G \ {r})
          BY <3>5, <4>1, <4>2, FS_RemoveElement
        <4>4. Cardinality(H) \in Nat /\ Cardinality(H) <= Cardinality(G) - 1
          BY <4>3, FS_Subset, FS_CardinalityType
        <4>5. IsFiniteSet(W \cup {r}) /\ V \in SUBSET (W \cup {r})
          BY <3>6, <4>2, FS_AddElement
        <4>6. /\ Cardinality(V) \in Nat /\ Cardinality(V) <= Cardinality(W \cup {r})
              /\ Cardinality(W \cup {r}) \in Nat
          BY <4>5, FS_Subset, FS_CardinalityType
        <4>7. Cardinality(V) + Cardinality(H) < tier + Threads
          BY <3>3, <3>4, <4>2, <4>4, <4>6
        <4> QED
          BY <4>7 DEF V, H
      <3>8. CASE ~(stamp[r] < b)
        <4>1. V \in SUBSET W
          BY <3>6, <3>8
        <4> HIDE DEF W, G, V, H
        <4>2. Cardinality(V) + Cardinality(H) < tier + Threads
          BY <3>1, <3>3, <3>4, <3>5, <4>1, FewerGuesses
        <4> QED
          BY <4>2 DEF V, H
      <3> QED
        BY <3>7, <3>8
    <2> QED
      BY <1>9, <2>1, TierSteps
  <1> QED
    BY <1>7, <1>8, <1>9 DEF LockInvariant

(* Who passes the check while the stretch lasts finds fewer failures in the    *)
(* deque than the tier: with as many, the last of them locks him out.        *)
LEMMA GateKeeps ==
    ASSUME TypeOK, TypeOK', ReadingsAreRecent, LockInvariant, NEW r \in Request,
           check_not_locked_out(r)
    PROVE  LockInvariant'
  <1>2. PICK live : live = purge(failures, failed_at, LOCKOUT_WINDOW_SECONDS, stamp[r])
    OBVIOUS
  <1>1. /\ now \in Nat /\ now' = now /\ at[r] = "gate"
        /\ at'[r] = IF LockedOut(live, stamp[r]) THEN "locked" ELSE "verifying"
        /\ stamp[r] \in Nat /\ stamp[r] <= now
        /\ \A q \in Request \ {r} : at'[q] = at[q] /\ stamp'[q] = stamp[q]
        /\ failures' = live /\ UNCHANGED <<failed_at, wrong>>
        /\ wrong \subseteq Request /\ \A q \in Request : failed_at[q] \in Nat
    BY <1>2 DEF TypeOK, check_not_locked_out, UsesClock, Moves
  <1>3. /\ live \in Seq(Request) /\ \A q \in Request : In(q, live) => q \in wrong
        /\ \A q \in wrong : ~In(q, live) => failed_at[q] + LOCKOUT_WINDOW_SECONDS < now
        /\ \A i \in DOMAIN live : failed_at[live[i]] <= failed_at[live[Len(live)]] + MaxDelay
    BY <1>1, <1>2, FailuresPurged
  <1>6. \A q \in wrong : at[q] = "failed"
    BY <1>1 DEF LockInvariant, FailuresAreComplete
  <1>7. FailuresAreComplete'
    BY <1>1, <1>3, <1>6 DEF FailuresAreComplete
  <1>8. LastIsLatest'
    BY <1>1, <1>3 DEF LastIsLatest
  <1>9. ASSUME NEW tier, NEW lockout, IsTier(tier, lockout)
        PROVE  TierHolds(tier, lockout)'
    <2>t. /\ tier \in Nat \ {0} /\ lockout \in Nat /\ tier >= Tier1
          /\ lockout <= LOCKOUT_WINDOW_SECONDS /\ tier + Threads \in Nat
      BY <1>9, Tiers
    <2>1. ASSUME NEW a \in Nat, NEW b \in Int, b = a + lockout - MaxDelay,
                 Cardinality(WrongWithin(a, b)) + Cardinality(MayGuess(b)) < tier + Threads
          PROVE  Cardinality(WrongWithin(a, b)') + Cardinality(MayGuess(b)') < tier + Threads
      <3> DEFINE W == WrongWithin(a, b)
                 G == MayGuess(b)
                 H == MayGuess(b)'
                 K == Handled'
      <3>1. W \in SUBSET Request /\ G \in SUBSET Request /\ WrongWithin(a, b)' = W
        BY <1>1 DEF WrongWithin, MayGuess
      <3>2. H \subseteq G \/ (at'[r] = "verifying" /\ now < b)
        BY <1>1 DEF MayGuess
      <3>3. H \in SUBSET K /\ K \in SUBSET Request /\ Cardinality(K) <= Threads
        BY DEF MayGuess, Handled, InHandler, TypeOK
      <3>4. Cardinality(W) + Cardinality(G) < tier + Threads
        BY <2>1
      <3>5. CASE H \subseteq G
        <4>1. H \in SUBSET G
          BY <3>5
        <4> HIDE DEF W, G, H
        <4>2. Cardinality(W) + Cardinality(H) < tier + Threads
          BY <2>t, <3>1, <3>4, <4>1, FewerGuesses
        <4> QED
          BY <3>1, <4>2 DEF H, W
      <3>6. CASE at'[r] = "verifying" /\ now < b
        <4>1. \A q \in W : In(q, live)
          <5>1. ASSUME NEW q \in W
                PROVE  In(q, live)
            <6>1. q \in wrong /\ a <= failed_at[q] /\ failed_at[q] \in Nat
              BY <1>1 DEF WrongWithin
            <6>2. ~(failed_at[q] + LOCKOUT_WINDOW_SECONDS < now)
              BY <1>1, <2>t, <2>1, <3>6, <6>1
            <6> QED
              BY <1>3, <6>1, <6>2
          <5> QED
            BY <5>1
        <4>2. ~LockedOut(live, stamp[r])
          BY <1>1, <3>6
        <4>3. Len(live) \in Nat /\ DOMAIN live = 1..Len(live)
          BY <1>3
        <4>4. ASSUME W # {}, Len(live) >= tier
              PROVE  FALSE
          <5>1. PICK q \in W : TRUE
            BY <4>4
          <5>2. PICK i \in DOMAIN live : live[i] = q
            BY <4>1 DEF In
          <5>3. PICK f \in Request : f = live[Len(live)]
            BY <1>3, <4>3, <5>2
          <5>4. a <= failed_at[q] /\ failed_at[q] \in Nat /\ failed_at[f] \in Nat
            BY <1>1, <3>1 DEF WrongWithin
          <5>5. failed_at[q] <= failed_at[f] + MaxDelay
            BY <1>3, <5>2, <5>3
          <5>6. stamp[r] < failed_at[f] + lockout
            BY <1>1, <2>t, <2>1, <3>6, <5>4, <5>5
          <5>7. PICK l : l = IF Len(live) >= Tier2 THEN Lock2 ELSE Lock1
            OBVIOUS
          <5>8. l \in Nat /\ lockout <= l /\ Len(live) >= Tier1
            BY <1>9, <2>t, <4>3, <4>4, <5>7 DEF IsTier
          <5>9. stamp[r] < failed_at[f] + l
            BY <1>1, <2>t, <5>4, <5>6, <5>8
          <5> QED
            BY <4>2, <5>3, <5>7, <5>8, <5>9 DEF LockedOut
        <4> HIDE DEF W, H, K
        <4>5. IsFiniteSet(W) /\ Cardinality(W) \in Nat /\ Cardinality(W) <= Len(live)
          BY <1>3, <3>1, <4>1, DequeCount
        <4>6. Cardinality(H) \in Nat /\ Cardinality(K) \in Nat /\ Cardinality(H) <= Cardinality(K)
          BY <3>3, RequestSets
        <4>7. Cardinality(W) < tier
          <5>1. CASE W = {}
            BY <2>t, <5>1, FS_EmptySet
          <5>2. CASE W # {}
            BY <2>t, <4>3, <4>4, <4>5, <5>2
          <5> QED
            BY <5>1, <5>2
        <4>8. Cardinality(W) + Cardinality(H) < tier + Threads
          BY <2>t, <3>3, <4>5, <4>6, <4>7
        <4> QED
          BY <3>1, <4>8 DEF H, W
      <3> QED
        BY <3>2, <3>5, <3>6
    <2> QED
      BY <1>9, <2>1, TierSteps
  <1> QED
    BY <1>7, <1>8, <1>9 DEF LockInvariant

-----------------------------------------------------------------------------
(* Every step *)

(* The parts of the invariant that the lemmas above are about.               *)
LEMMA InvariantParts ==
    LoginInvariant <=> TypeOK /\ FloodInvariant /\ ReadingsAreRecent /\ LockInvariant
  BY Tiers DEF LoginInvariant, FloodInvariant, LockInvariant

(* A request's step or the clock keeps the types and the readings.           *)
LEMMA TypesKeep ==
    ASSUME TypeOK, FloodInvariant, ReadingsAreRecent, Next
    PROVE  TypeOK' /\ ReadingsAreRecent' /\ now <= now'
  <1>t. /\ now \in Nat /\ at \in [Request -> Place] /\ stamp \in [Request -> 0..now]
        /\ bucket \in Seq(Request) /\ admitted_at \in [Request -> 0..now]
        /\ failures \in Seq(Request) /\ failed_at \in [Request -> 0..now] /\ wrong \subseteq Request
    BY DEF TypeOK
  <1>a. ASSUME at' \in [Request -> Place], stamp' \in [Request -> 0..now'], now' \in Nat,
               bucket' \in Seq(Request), admitted_at' \in [Request -> 0..now'],
               failures' \in Seq(Request), failed_at' \in [Request -> 0..now'], wrong' \subseteq Request,
               \/ Handled' \subseteq Handled
               \/ (\E r : Handled' = Handled \cup {r}) /\ Cardinality(Handled) < Threads
        PROVE  TypeOK'
    <2>1. Cardinality(Handled') <= Threads
      BY <1>a, ThreadsHold
    <2> QED
      BY <1>a, <2>1 DEF TypeOK, Handled
  <1>m. ASSUME NEW r \in Request, NEW from \in Place, NEW to \in Place, UNCHANGED now,
               \/ ReadsClock(r, from, to)
               \/ UsesClock(r, from, to) /\ to \notin {"flood", "gate", "failing"}
               \/ Moves(r, from, to) /\ UNCHANGED stamp /\ to \notin {"flood", "gate", "failing"},
               \/ from \in {"gate", "verifying", "failing"}
               \/ to \notin {"gate", "verifying", "failing"}
               \/ Cardinality(Handled) < Threads
        PROVE  /\ at' \in [Request -> Place] /\ stamp' \in [Request -> 0..now'] /\ now' \in Nat
               /\ ReadingsAreRecent' /\ now <= now'
               /\ \/ Handled' \subseteq Handled
                  \/ (\E q : Handled' = Handled \cup {q}) /\ Cardinality(Handled) < Threads
    <2>1. /\ at' \in [Request -> Place] /\ stamp' \in [Request -> 0..now'] /\ now' \in Nat
          /\ at[r] = from /\ at'[r] = to
          /\ \A q \in Request \ {r} : at'[q] = at[q] /\ stamp'[q] = stamp[q]
          /\ ReadingsAreRecent'
      BY <1>m, MovesKeep
    <2>2. Handled' \subseteq Handled \/ Handled' = Handled \cup {r}
      BY <2>1 DEF Handled, InHandler
    <2>3. CASE from \in {"gate", "verifying", "failing"} \/ to \notin {"gate", "verifying", "failing"}
      <3>1. Handled' \subseteq Handled
        BY <2>1, <2>3 DEF Handled, InHandler
      <3> QED
        BY <1>m, <1>t, <2>1, <3>1
    <2>4. CASE Cardinality(Handled) < Threads
      <3>1. Handled' \subseteq Handled \/ \E q : Handled' = Handled \cup {q}
        BY <2>2
      <3>2. now <= now'
        BY <1>m, <1>t
      <3> HIDE DEF Handled
      <3> QED
        BY <2>1, <2>4, <3>1, <3>2
    <2> QED
      BY <1>m, <2>3, <2>4
  <1>1. ASSUME NEW r \in Request, Arrive(r) \/ EnterHandler(r) \/ WrongPassword(r)
        PROVE  TypeOK' /\ ReadingsAreRecent' /\ now <= now'
    <2>1. /\ UNCHANGED <<now, bucket, admitted_at, failures, failed_at, wrong>>
          /\ \/ ReadsClock(r, "new", "flood")
             \/ ReadsClock(r, "admitted", "gate") /\ Cardinality(Handled) < Threads
             \/ ReadsClock(r, "verifying", "failing")
      BY <1>1 DEF Arrive, EnterHandler, WrongPassword, Handled
    <2>2. {"new", "flood", "admitted", "gate", "verifying", "failing"} \subseteq Place
      BY DEF Place
    <2>3. PICK from \in Place, to \in Place :
            /\ ReadsClock(r, from, to)
            /\ from = "verifying" \/ to = "flood" \/ Cardinality(Handled) < Threads
      BY <2>1, <2>2
    <2>4. /\ at' \in [Request -> Place] /\ stamp' \in [Request -> 0..now'] /\ now' \in Nat
          /\ ReadingsAreRecent' /\ now <= now'
          /\ \/ Handled' \subseteq Handled
             \/ (\E q : Handled' = Handled \cup {q}) /\ Cardinality(Handled) < Threads
      BY <1>m, <2>1, <2>3
    <2> QED
      BY <1>t, <1>a, <2>1, <2>4
  <1>2. ASSUME NEW r \in Request, check_rate_limit(r)
        PROVE  TypeOK' /\ ReadingsAreRecent' /\ now <= now'
    <2>1. /\ bucket' \in Seq(Request) /\ admitted_at' \in [Request -> 0..now']
          /\ \E to \in {"refused", "admitted"} : UsesClock(r, "flood", to)
      BY <1>2, FloodKeeps
    <2>2. UNCHANGED <<now, failures, failed_at, wrong>>
      BY <1>2 DEF check_rate_limit
    <2>3. {"flood", "refused", "admitted"} \subseteq Place
      BY DEF Place
    <2>4. /\ at' \in [Request -> Place] /\ stamp' \in [Request -> 0..now'] /\ now' \in Nat
          /\ ReadingsAreRecent' /\ now <= now'
          /\ \/ Handled' \subseteq Handled
             \/ (\E q : Handled' = Handled \cup {q}) /\ Cardinality(Handled) < Threads
      BY <1>m, <2>1, <2>2, <2>3
    <2> QED
      BY <1>t, <1>a, <2>1, <2>2, <2>4
  <1>3. ASSUME NEW r \in Request,
               check_not_locked_out(r) \/ record_login_failure(r) \/ RightPassword(r)
        PROVE  TypeOK' /\ ReadingsAreRecent' /\ now <= now'
    <2>1. stamp[r] \in Nat /\ stamp[r] \in 0..now
      BY <1>t
    <2>2. PICK live : live = purge(failures, failed_at, LOCKOUT_WINDOW_SECONDS, stamp[r])
      OBVIOUS
    <2>3. live \in Seq(Request)
      BY <1>t, <2>1, <2>2, PurgeDropsOld DEF Purged
    <2>4. Append(live, r) \in Seq(Request) /\ <<>> \in Seq(Request)
      BY <2>3
    <2>5. /\ UNCHANGED <<now, bucket, admitted_at>>
          /\ failures' \in {live, Append(live, r), <<>>}
          /\ failed_at' = failed_at \/ failed_at' = [failed_at EXCEPT ![r] = stamp[r]]
          /\ wrong' \in {wrong, wrong \cup {r}, {}}
          /\ \/ \E to \in {"locked", "verifying"} : UsesClock(r, "gate", to)
             \/ UsesClock(r, "failing", "failed")
             \/ Moves(r, "verifying", "in") /\ UNCHANGED stamp
      BY <1>3, <2>2 DEF check_not_locked_out, record_login_failure, RightPassword
    <2>6. {"gate", "failing", "verifying", "locked", "failed", "in"} \subseteq Place
      BY DEF Place
    <2>7. PICK from \in {"gate", "failing", "verifying"}, to \in {"locked", "verifying", "failed", "in"} :
            UsesClock(r, from, to) \/ (Moves(r, from, to) /\ UNCHANGED stamp)
      BY <2>5
    <2>8. /\ at' \in [Request -> Place] /\ stamp' \in [Request -> 0..now'] /\ now' \in Nat
          /\ ReadingsAreRecent' /\ now <= now'
          /\ \/ Handled' \subseteq Handled
             \/ (\E q : Handled' = Handled \cup {q}) /\ Cardinality(Handled) < Threads
      BY <1>m, <2>5, <2>6, <2>7
    <2>9. failures' \in Seq(Request) /\ failed_at' \in [Request -> 0..now'] /\ wrong' \subseteq Request
      BY <1>t, <2>1, <2>3, <2>4, <2>5
    <2> QED
      BY <1>t, <1>a, <2>5, <2>8, <2>9
  <1>4. CASE Tick
    <2>1. /\ now' = now + 1 /\ 0..now \subseteq 0..now' /\ now' \in Nat /\ now <= now'
          /\ \A r \in Request : Waiting(r) => now < stamp[r] + MaxDelay
          /\ UNCHANGED <<at, stamp, bucket, admitted_at, failures, failed_at, wrong>>
      BY <1>4, <1>t DEF Tick
    <2>2. /\ stamp' \in [Request -> 0..now'] /\ admitted_at' \in [Request -> 0..now']
          /\ failed_at' \in [Request -> 0..now'] /\ Handled' = Handled
      BY <1>t, <2>1 DEF Handled, InHandler
    <2>3. \A r \in Request : Waiting(r)' => now' <= stamp'[r] + MaxDelay
      BY <1>t, <2>1 DEF Waiting
    <2> QED
      BY <1>t, <1>a, <2>1, <2>2, <2>3 DEF ReadingsAreRecent
  <1> QED
    BY <1>1, <1>2, <1>3, <1>4 DEF Next, login

(* Every step keeps the invariant.                                           *)
LEMMA LoginNext ==
    ASSUME LoginInvariant, [Next]_vars
    PROVE  LoginInvariant'
  <1>1. TypeOK /\ FloodInvariant /\ ReadingsAreRecent /\ LockInvariant
    BY InvariantParts
  <1>k. ASSUME TypeOK', FloodInvariant', ReadingsAreRecent', LockInvariant'
        PROVE  LoginInvariant'
    BY <1>k DEF LoginInvariant, FloodInvariant, LockInvariant, IsTier
  <1>t. now \in Nat /\ at \in [Request -> Place]
    BY <1>1 DEF TypeOK
  <1>2. ASSUME NEW r \in Request, Arrive(r) \/ check_rate_limit(r) \/ EnterHandler(r)
        PROVE  LoginInvariant'
    <2>1. TypeOK' /\ ReadingsAreRecent' /\ now <= now'
      BY <1>1, <1>2, TypesKeep DEF Next, login
    <2>2. /\ UNCHANGED <<now, failures, failed_at, wrong>>
          /\ \E from \in {"new", "flood", "admitted"}, to \in {"flood", "refused", "admitted", "gate"} :
               Moves(r, from, to)
          /\ \A q \in Request \ {r} : stamp'[q] = stamp[q]
      <3>1. stamp \in [Request -> 0..now]
        BY <1>1 DEF TypeOK
      <3> QED
        BY <1>2, <3>1 DEF Arrive, check_rate_limit, EnterHandler, ReadsClock, UsesClock, Moves
    <2>3. /\ \A q \in Request : at'[q] \in {"verifying", "failing"} => at'[q] = at[q] /\ stamp'[q] = stamp[q]
          /\ \A q \in Request : at[q] = "failed" => at'[q] = "failed"
      BY <1>t, <2>2 DEF Moves
    <2>4. LockInvariant'
      BY <1>1, <2>1, <2>2, <2>3, LockFrame
    <2>5. CASE check_rate_limit(r)
      BY <1>1, <1>k, <2>1, <2>4, <2>5, FloodKeeps
    <2>6. CASE Arrive(r) \/ EnterHandler(r)
      <3>1. /\ \A q \in Request : Admitted(q)' = Admitted(q)
            /\ UNCHANGED <<now, bucket, admitted_at>>
        BY <1>t, <2>6 DEF Arrive, EnterHandler, ReadsClock, Moves, Admitted
      <3> QED
        BY <1>1, <1>k, <1>t, <2>1, <2>4, <3>1, FloodFrame
    <2> QED
      BY <1>2, <2>5, <2>6
  <1>3. ASSUME NEW r \in Request,
               check_not_locked_out(r) \/ WrongPassword(r) \/ record_login_failure(r) \/ RightPassword(r)
        PROVE  LoginInvariant'
    <2>1. TypeOK' /\ ReadingsAreRecent' /\ now <= now'
      BY <1>1, <1>3, TypesKeep DEF Next, login
    <2>2. LockInvariant'
      BY <1>1, <1>3, <2>1, GateKeeps, WrongKeeps, RecordKeeps, RightKeeps
    <2>3. /\ UNCHANGED <<now, bucket, admitted_at>>
          /\ \E from \in {"gate", "verifying", "failing"}, to \in {"locked", "verifying", "failing", "failed", "in"} :
               Moves(r, from, to)
      BY <1>3 DEF check_not_locked_out, WrongPassword, record_login_failure, RightPassword,
                  ReadsClock, UsesClock
    <2>4. \A q \in Request : Admitted(q)' = Admitted(q)
      BY <1>t, <2>3 DEF Moves, Admitted
    <2> QED
      BY <1>1, <1>k, <1>t, <2>1, <2>2, <2>3, <2>4, FloodFrame
  <1>4. CASE Tick
    <2>1. TypeOK' /\ ReadingsAreRecent' /\ now <= now'
      BY <1>1, <1>4, TypesKeep DEF Next
    <2>2. now' \in Nat /\ UNCHANGED <<at, stamp, bucket, admitted_at, failures, failed_at, wrong>>
      BY <1>4, <1>t DEF Tick
    <2>3. FloodInvariant'
      BY <1>1, <2>1, <2>2, FloodFrame DEF Admitted
    <2>4. LockInvariant'
      BY <1>1, <2>1, <2>2, LockFrame
    <2> QED
      BY <1>k, <2>1, <2>3, <2>4
  <1>5. CASE UNCHANGED vars
    <2>1. UNCHANGED <<now, at, stamp, bucket, admitted_at, failures, failed_at, wrong>>
      BY <1>5 DEF vars
    <2>2. TypeOK' /\ ReadingsAreRecent'
      BY <1>1, <2>1 DEF TypeOK, ReadingsAreRecent, Waiting, InHandler
    <2>3. FloodInvariant' /\ LockInvariant'
      BY <1>1, <1>t, <2>1, <2>2, FloodFrame, LockFrame DEF Admitted
    <2> QED
      BY <1>k, <2>2, <2>3
  <1> QED
    BY <1>2, <1>3, <1>4, <1>5 DEF Next, login

-----------------------------------------------------------------------------
(* Theorems *)

(* Nobody has come yet.                                                      *)
LEMMA LoginInit == Init => LoginInvariant
  <1> SUFFICES ASSUME Init PROVE LoginInvariant
    OBVIOUS
  <1>1. /\ now = 0 /\ at = [r \in Request |-> "new"] /\ stamp = [r \in Request |-> 0]
        /\ bucket = <<>> /\ admitted_at = [r \in Request |-> 0]
        /\ failures = <<>> /\ failed_at = [r \in Request |-> 0] /\ wrong = {}
    BY DEF Init
  <1>2. {r \in Request : InHandler(r)} = {} /\ Cardinality({}) = 0
    BY <1>1, FS_EmptySet DEF InHandler
  <1>3. TypeOK
    <2>1. at \in [Request -> Place]
      BY <1>1 DEF Place
    <2>2. Cardinality({r \in Request : InHandler(r)}) <= Threads
      BY <1>2
    <2>3. 0 \in 0..now /\ now \in Nat /\ <<>> \in Seq(Request)
      BY <1>1
    <2> QED
      BY <1>1, <2>1, <2>2, <2>3 DEF TypeOK
  <1>4. ReadingsAreRecent /\ BucketIsComplete /\ FailuresAreComplete /\ LastIsLatest
    BY <1>1 DEF ReadingsAreRecent, BucketIsComplete, FailuresAreComplete, LastIsLatest,
                Waiting, Admitted, In
  <1>5. \A a, b : AdmittedWithin(a, b) = {} /\ WrongWithin(a, b) = {} /\ MayGuess(b) = {}
    BY <1>1 DEF AdmittedWithin, WrongWithin, MayGuess, Admitted
  <1>6. WindowHolds
    BY <1>2, <1>5 DEF WindowHolds
  <1>7. ASSUME NEW tier \in Nat \ {0}, NEW lockout
        PROVE  TierHolds(tier, lockout)
    <2>1. 0 + 0 < tier + Threads
      OBVIOUS
    <2> QED
      BY <1>2, <1>5, <2>1 DEF TierHolds
  <1>8. TierHolds(Tier1, Lock1) /\ TierHolds(Tier2, Lock2)
    <2>1. Tier1 \in Nat \ {0} /\ Tier2 \in Nat \ {0}
      OBVIOUS
    <2> QED
      BY <1>7, <2>1
  <1> QED
    BY <1>3, <1>4, <1>6, <1>8 DEF LoginInvariant

(* The inductive invariant of both guards: readings of the clock are recent,   *)
(* the deques have dropped nothing that still counts, the last failure is      *)
(* the latest but for the delay, and who may still guess is counted.        *)
THEOREM LoginInvariance == Spec => []LoginInvariant
  <1>1. Init => LoginInvariant
    BY LoginInit
  <1>2. LoginInvariant /\ [Next]_vars => LoginInvariant'
    BY LoginNext
  <1> QED
    BY <1>1, <1>2, PTL DEF Spec

(* Every request is somewhere, no time is ahead of the clock, and the login     *)
(* handlers are no more than the threads.                                   *)
THEOREM LoginTypes == Spec => []TypeOK
  <1>1. LoginInvariant => TypeOK
    BY DEF LoginInvariant
  <1> QED
    BY <1>1, LoginInvariance, PTL

(* check_rate_limit admits no more than the limit in any stretch of time as     *)
(* long as the window less the delay, whatever order the requests take the     *)
(* lock in.                                                                 *)
THEOREM WindowIsKept == Spec => []WindowHolds
  <1>1. LoginInvariant => WindowHolds
    BY DEF LoginInvariant
  <1> QED
    BY <1>1, LoginInvariance, PTL

(* While nobody logs in, the lockout leaves fewer wrong passwords in any         *)
(* stretch shorter than a lockout than its tier and the threads together:      *)
(* those who were past the check when the tier was reached.                 *)
THEOREM GuessesAreBounded == Spec => []GuessBound
  <1>1. LoginInvariant => GuessBound
    <2> SUFFICES ASSUME LoginInvariant PROVE GuessBound
      OBVIOUS
    <2>1. ASSUME NEW tier \in Nat, NEW lockout \in Nat, TierHolds(tier, lockout), NEW a \in 0..MaxNow
          PROVE  Cardinality(WrongWithin(a, a + lockout - MaxDelay)) < tier + Threads
      <3>1. PICK b \in Int : b = a + lockout - MaxDelay
        OBVIOUS
      <3>2. Cardinality(WrongWithin(a, b)) + Cardinality(MayGuess(b)) < tier + Threads
        BY <2>1, <3>1 DEF TierHolds
      <3>3. WrongWithin(a, b) \in SUBSET Request /\ MayGuess(b) \in SUBSET Request
        BY DEF LoginInvariant, TypeOK, WrongWithin, MayGuess
      <3>4. Cardinality(WrongWithin(a, b)) \in Nat /\ Cardinality(MayGuess(b)) \in Nat
        BY <3>3, RequestSets
      <3>5. Cardinality(WrongWithin(a, b)) < tier + Threads
        BY <3>2, <3>4
      <3> QED
        BY <3>1, <3>5
    <2> QED
      BY <2>1 DEF LoginInvariant, GuessBound
  <1> QED
    BY <1>1, LoginInvariance, PTL
=============================================================================
