-------------------------- MODULE ApiRequestsProofs --------------------------
(***************************************************************************)
(* Proofs about RateLimiter and ApiRequests, for every limit, window,      *)
(* number of clients and requests, pool capacity and number of rows.       *)
(*                                                                         *)
(* The bucket of a client is a suffix of everything it was ever accepted   *)
(* for, and what is missing at the front lies before the window: this      *)
(* makes the pruned queue as good as the whole history.  Requests meet in  *)
(* the limiter and in the pool; what is said of one request depends on its *)
(* own variables only, so that a step of another cannot disturb it.        *)
(***************************************************************************)
EXTENDS ApiRequests, ProofBasics, SequenceTheorems, FiniteSetTheorems, TLAPS

-----------------------------------------------------------------------------
(* The limiter: pruning *)

\* Pruning drops a longest prefix of times before the cutoff.
LEMMA ExpiredFacts ==
  ASSUME NEW b \in Seq(Int), NEW cutoff \in Int
  PROVE  LET n == Expired(b, cutoff) IN
         /\ n \in 0..Len(b)
         /\ \A i \in 1..n : b[i] < cutoff
         /\ n < Len(b) => b[n + 1] >= cutoff
<1> DEFINE T == {n \in Nat : n >= Len(b) \/ b[n + 1] >= cutoff}
<1>1. Len(b) \in Nat /\ \A i \in 1..Len(b) : b[i] \in Int
  BY LenProperties, ElementOfSeq
<1>2. PICK m \in T : \A j \in T : m <= j
  <2>1. Len(b) \in T
    BY <1>1
  <2>2. T \in SUBSET Nat /\ T # {}
    BY <2>1
  <2> HIDE DEF T
  <2> QED
    BY <2>2, LeastMember
<1>3. m \in 0..Len(b)
  BY <1>1, <1>2
<1>4. ASSUME NEW i \in 1..m PROVE b[i] < cutoff
  <2>1. i - 1 \in Nat /\ i - 1 < m
    BY <1>1, <1>3
  <2>3. i - 1 \notin T
    <3> HIDE DEF T
    <3> QED
      BY <1>1, <1>2, <1>3, <2>1
  <2>2. i \in 1..Len(b) /\ (i - 1) + 1 = i
    BY <1>1, <1>3
  <2> QED
    BY <1>1, <2>1, <2>2, <2>3
<1>5. m < Len(b) => b[m + 1] >= cutoff
  BY <1>1, <1>2
<1> QED
  BY <1>3, <1>4, <1>5 DEF Expired

\* A pruned bucket is the bucket without its first n times.
LEMMA PruneFacts ==
  ASSUME NEW S \in SUBSET Int, NEW b \in Seq(S), NEW cutoff \in Int
  PROVE  LET n == Expired(b, cutoff) IN
         /\ Prune(b, cutoff) \in Seq(S)
         /\ Len(Prune(b, cutoff)) = Len(b) - n
         /\ \A i \in 1..(Len(b) - n) : Prune(b, cutoff)[i] = b[n + i]
<1> DEFINE n == Expired(b, cutoff)
<1>1. n \in 0..Len(b) /\ Len(b) \in Nat /\ \A i \in 1..Len(b) : b[i] \in S
  BY ExpiredFacts, LenProperties, ElementOfSeq, SeqMonotonic
<1> HIDE DEF n
<1>2. /\ SubSeq(b, n + 1, Len(b)) \in Seq(S)
      /\ Len(SubSeq(b, n + 1, Len(b))) = Len(b) - n
      /\ \A i \in 1..(Len(b) - n) : SubSeq(b, n + 1, Len(b))[i] = b[n + i]
  BY <1>1, SubSeqProperties
<1> QED
  BY <1>2 DEF n, Prune

-----------------------------------------------------------------------------
(* The limiter: the invariant *)

\* What is in the bucket of k, against all it was accepted for.
Suffix(k) ==
  LET a == accepted[k]  h == hits[k]  d == Len(a) - Len(h) IN
  /\ Len(h) <= Len(a)
  /\ Len(h) <= MaxRequests
  /\ \A i \in 1..Len(h) : h[i] = a[d + i]
  /\ \A i \in 1..d : a[i] < now - Window

\* Acceptance times are in order and not in the future.
InOrder(k) ==
  LET a == accepted[k] IN
  /\ \A i \in 1..Len(a) : a[i] <= now
  /\ \A i, j \in 1..Len(a) : i <= j => a[i] <= a[j]

\* The window property for one client.
Spaced(k) ==
  LET a == accepted[k] IN
  \A i \in 1..Len(a) : i + MaxRequests <= Len(a) => a[i + MaxRequests] - a[i] > Window

Types ==
  /\ now \in Nat
  /\ now <= MaxNow
  /\ hits \in [Clients -> Seq(0..MaxNow)]
  /\ accepted \in [Clients -> Seq(0..MaxNow)]

LimiterInv ==
  /\ Types
  /\ \A k \in Clients : Suffix(k) /\ InOrder(k) /\ Spaced(k)

\* How many hits of k are pruned now.
Gone(k) == Expired(hits[k], now - Window)

\* The pruned bucket of k is a suffix of its history as well, and all that
\* is missing from it is too old.
LEMMA PrunedFacts ==
  ASSUME Types, NEW k \in Clients, Suffix(k)
  PROVE  LET a == accepted[k]  p == Pruned(k)  d == Len(a) - Len(p) IN
         /\ p \in Seq(0..MaxNow)
         /\ Len(p) \in Nat /\ Len(a) \in Nat /\ Len(p) <= Len(a)
         /\ Len(p) <= MaxRequests
         /\ \A i \in 1..Len(p) : p[i] = a[d + i]
         /\ \A i \in 1..d : a[i] < now - Window
         /\ p # <<>> => a[d + 1] >= now - Window
<1> DEFINE a == accepted[k]
           h == hits[k]
           p == Pruned(k)
           n == Gone(k)
<1>1. a \in Seq(0..MaxNow) /\ h \in Seq(0..MaxNow) /\ now - Window \in Int
  BY LimiterAssumption DEF Types
<1>2. Len(a) \in Nat /\ Len(h) \in Nat /\ MaxRequests \in Nat
  BY <1>1, LenProperties, LimiterAssumption
<1>3. h \in Seq(Int) /\ 0..MaxNow \in SUBSET Int
  <2>1. 0..MaxNow \subseteq Int
    OBVIOUS
  <2> HIDE DEF h
  <2> QED
    BY <1>1, <2>1, SeqMonotonic
<1>4. /\ n \in 0..Len(h)
      /\ \A i \in 1..n : h[i] < now - Window
      /\ n < Len(h) => h[n + 1] >= now - Window
  BY <1>1, <1>3, ExpiredFacts DEF Gone
<1>5. /\ p \in Seq(0..MaxNow)
      /\ Len(p) = Len(h) - n
      /\ \A i \in 1..Len(p) : p[i] = h[n + i]
  <2>1. p = Prune(h, now - Window) /\ n = Expired(h, now - Window)
    BY DEF Gone, Pruned
  <2> HIDE DEF h, p, n
  <2>2. /\ p \in Seq(0..MaxNow)
        /\ Len(p) = Len(h) - n
        /\ \A i \in 1..(Len(h) - n) : p[i] = h[n + i]
    BY <1>1, <1>3, <2>1, PruneFacts
  <2> QED
    BY <2>2
<1>6. /\ Len(h) <= Len(a) /\ Len(h) <= MaxRequests
      /\ \A i \in 1..Len(h) : h[i] = a[(Len(a) - Len(h)) + i]
      /\ \A i \in 1..(Len(a) - Len(h)) : a[i] < now - Window
  BY DEF Suffix
<1> HIDE DEF a, h, p, n
<1>8. Len(p) \in Nat /\ Len(p) <= Len(a) /\ Len(p) <= MaxRequests
  BY <1>2, <1>4, <1>5, <1>6
<1>9. \A i \in 1..Len(p) : p[i] = a[(Len(a) - Len(p)) + i]
  BY <1>2, <1>4, <1>5, <1>6
<1>10. ASSUME NEW i \in 1..(Len(a) - Len(p)) PROVE a[i] < now - Window
  <2>1. CASE i <= Len(a) - Len(h)
    BY <1>2, <1>6, <2>1
  <2>2. CASE i > Len(a) - Len(h)
    <3> DEFINE j == i - (Len(a) - Len(h))
    <3>1. j \in 1..n /\ j \in 1..Len(h) /\ (Len(a) - Len(h)) + j = i
      BY <1>2, <1>4, <1>5, <1>6, <2>2
    <3> QED
      BY <1>4, <1>6, <3>1
  <2> QED
    BY <1>2, <2>1, <2>2
<1>11. p # <<>> => a[(Len(a) - Len(p)) + 1] >= now - Window
  <2> SUFFICES ASSUME p # <<>> PROVE a[(Len(a) - Len(p)) + 1] >= now - Window
    OBVIOUS
  <2>1. Len(p) # 0
    BY <1>5, EmptySeq
  <2>2. n < Len(h) /\ n + 1 \in 1..Len(h)
    BY <1>2, <1>4, <1>5, <2>1
  <2>3. (Len(a) - Len(p)) + 1 = (Len(a) - Len(h)) + (n + 1)
    BY <1>2, <1>4, <1>5
  <2> QED
    BY <1>4, <1>6, <2>2, <2>3
<1> QED
  BY <1>2, <1>5, <1>8, <1>9, <1>10, <1>11 DEF a, p

-----------------------------------------------------------------------------
(* The limiter: steps *)

\* Nothing has been accepted yet.
LEMMA InitInv == LimiterInit => LimiterInv
<1> SUFFICES ASSUME LimiterInit PROVE LimiterInv
  OBVIOUS
<1>1. \A k \in Clients : hits[k] = <<>> /\ accepted[k] = <<>>
  BY DEF LimiterInit
<1>2. Types
  BY LimiterAssumption, EmptySeq DEF LimiterInit, Types
<1>3. \A k \in Clients : Len(hits[k]) = 0 /\ Len(accepted[k]) = 0
  BY <1>1, EmptySeq
<1>4. ASSUME NEW k \in Clients PROVE Suffix(k) /\ InOrder(k) /\ Spaced(k)
  <2>1. Len(hits[k]) = 0 /\ Len(accepted[k]) = 0 /\ 0 <= MaxRequests
    BY <1>3, LimiterAssumption
  <2>2. 1..0 = {} /\ 0 - 0 = 0
    OBVIOUS
  <2> QED
    BY <2>1, <2>2 DEF Suffix, InOrder, Spaced
<1> QED
  BY <1>2, <1>4 DEF LimiterInv

\* Nothing but the clock moves: what was before the window stays before it.
LEMMA LaterInv ==
  ASSUME Types, NEW k \in Clients, Suffix(k), InOrder(k), Spaced(k),
         now' \in Nat, now <= now', hits[k]' = hits[k], accepted[k]' = accepted[k]
  PROVE  Suffix(k)' /\ InOrder(k)' /\ Spaced(k)'
<1> DEFINE a == accepted[k]
           h == hits[k]
<1>1. /\ Len(a) \in Nat /\ Len(h) \in Nat
      /\ \A i \in 1..Len(a) : a[i] \in 0..MaxNow
  BY LenProperties, ElementOfSeq DEF Types
<1>2. now \in Nat /\ Window \in Nat /\ MaxNow \in Nat
  BY LimiterAssumption DEF Types
<1> HIDE DEF a, h
<1>3. ASSUME Len(h) <= Len(a), NEW i \in 1..(Len(a) - Len(h)), a[i] < now - Window
      PROVE  a[i] < now' - Window
  <2>1. a[i] \in Int
    BY <1>1, <1>3
  <2> QED
    BY <1>2, <1>3, <2>1
<1>4. ASSUME NEW i \in 1..Len(a), a[i] <= now PROVE a[i] <= now'
  <2>1. a[i] \in Int
    BY <1>1
  <2> QED
    BY <1>2, <1>4, <2>1
<1>5. Suffix(k)'
  BY <1>3 DEF Suffix, a, h
<1>6. InOrder(k)'
  BY <1>4 DEF InOrder, a
<1> QED
  BY <1>5, <1>6 DEF Spaced

\* A refused request only drops what lies before the window.
LEMMA RefuseInv ==
  ASSUME Types, NEW k \in Clients, Suffix(k), Refuse(k)
  PROVE  Suffix(k)'
<1> DEFINE p == Pruned(k)
<1>1. hits[k]' = p /\ accepted[k]' = accepted[k] /\ now' = now
  BY DEF Refuse, Types
<1> HIDE DEF p
<1> QED
  BY <1>1, PrunedFacts DEF Suffix, p

\* An accepted request is appended to what is left of the bucket; the time
\* MaxRequests places before it has left the bucket, hence the window.
LEMMA AcceptInv ==
  ASSUME Types, NEW k \in Clients, Suffix(k), InOrder(k), Spaced(k), Accept(k)
  PROVE  Suffix(k)' /\ InOrder(k)' /\ Spaced(k)'
<1> DEFINE a == accepted[k]
           p == Pruned(k)
           d == Len(a) - Len(p)
           b == Append(a, now)
           q == Append(p, now)
<1>1. /\ hits[k]' = q /\ accepted[k]' = b /\ now' = now
      /\ Len(p) < MaxRequests
  BY DEF Accept, Types
<1>2. /\ now \in 0..MaxNow /\ now \in Nat /\ Window \in Nat /\ MaxNow \in Nat
      /\ MaxRequests \in Nat \ {0}
      /\ a \in Seq(0..MaxNow)
  BY LimiterAssumption DEF Types
<1>3. /\ p \in Seq(0..MaxNow)
      /\ Len(p) \in Nat /\ Len(a) \in Nat /\ Len(p) <= Len(a)
      /\ \A i \in 1..Len(p) : p[i] = a[d + i]
      /\ \A i \in 1..d : a[i] < now - Window
  BY PrunedFacts
<1>4. /\ \A i \in 1..Len(a) : a[i] \in 0..MaxNow
      /\ \A i \in 1..Len(a) : a[i] <= now
      /\ \A i, j \in 1..Len(a) : i <= j => a[i] <= a[j]
      /\ \A i \in 1..Len(a) : i + MaxRequests <= Len(a) => a[i + MaxRequests] - a[i] > Window
  BY <1>2, ElementOfSeq DEF InOrder, Spaced
<1> HIDE DEF a, p
<1>5. /\ Len(b) = Len(a) + 1 /\ b[Len(a) + 1] = now
      /\ \A i \in 1..Len(a) : b[i] = a[i]
  BY <1>2, AppendProperties
<1>6. /\ Len(q) = Len(p) + 1 /\ q[Len(p) + 1] = now
      /\ \A i \in 1..Len(p) : q[i] = p[i]
  BY <1>2, <1>3, AppendProperties
<1>7. Len(b) - Len(q) = d /\ d \in Nat
  BY <1>3, <1>5, <1>6
<1> HIDE DEF b, q
<1>8. Suffix(k)'
  <2>1. Len(q) <= Len(b) /\ Len(q) <= MaxRequests
    BY <1>1, <1>2, <1>3, <1>5, <1>6
  <2>2. ASSUME NEW i \in 1..Len(q) PROVE q[i] = b[d + i]
    <3>1. CASE i \in 1..Len(p)
      <4>1. d + i \in 1..Len(a)
        BY <1>3, <1>7, <3>1
      <4> QED
        BY <1>3, <1>5, <1>6, <3>1, <4>1
    <3>2. CASE i = Len(p) + 1
      BY <1>3, <1>5, <1>6, <3>2
    <3> QED
      BY <1>3, <1>6, <3>1, <3>2
  <2>3. ASSUME NEW i \in 1..d PROVE b[i] < now - Window
    <3>1. i \in 1..Len(a)
      BY <1>3, <1>7
    <3> QED
      BY <1>3, <1>5, <3>1
  <2> QED
    BY <1>1, <1>7, <2>1, <2>2, <2>3 DEF Suffix
<1>9. InOrder(k)'
  <2>1. ASSUME NEW i \in 1..Len(b) PROVE b[i] <= now
    <3>1. i \in 1..Len(a) \/ i = Len(a) + 1
      BY <1>3, <1>5
    <3>2. now <= now
      BY <1>2
    <3> QED
      BY <1>4, <1>5, <3>1, <3>2
  <2>2. ASSUME NEW i \in 1..Len(b), NEW j \in 1..Len(b), i <= j PROVE b[i] <= b[j]
    <3>1. CASE j \in 1..Len(a)
      <4>1. i \in 1..Len(a)
        BY <1>3, <2>2, <3>1
      <4> QED
        BY <1>4, <1>5, <2>2, <3>1, <4>1
    <3>2. CASE j = Len(a) + 1
      BY <1>5, <2>1, <3>2
    <3> QED
      BY <1>3, <1>5, <3>1, <3>2
  <2> QED
    BY <1>1, <2>1, <2>2 DEF InOrder
<1>10. Spaced(k)'
  <2> SUFFICES ASSUME NEW i \in 1..Len(b), i + MaxRequests <= Len(b)
               PROVE  b[i + MaxRequests] - b[i] > Window
    BY <1>1 DEF Spaced
  <2>1. i \in 1..Len(a) /\ b[i] = a[i] /\ a[i] \in 0..MaxNow
    BY <1>2, <1>3, <1>4, <1>5
  <2>2. CASE i + MaxRequests <= Len(a)
    <3>1. i + MaxRequests \in 1..Len(a)
      BY <1>2, <1>3, <2>1, <2>2
    <3> QED
      BY <1>4, <1>5, <2>1, <2>2, <3>1
  <2>3. CASE i + MaxRequests = Len(a) + 1
    <3>1. i \in 1..d
      BY <1>1, <1>2, <1>3, <2>1, <2>3
    <3>2. a[i] < now - Window
      BY <1>3, <3>1
    <3>3. b[i + MaxRequests] = now
      BY <1>5, <2>3
    <3> QED
      BY <1>2, <2>1, <3>2, <3>3
  <2>4. i + MaxRequests <= Len(a) \/ i + MaxRequests = Len(a) + 1
    <3>1. i + MaxRequests <= Len(a) + 1 /\ i \in Int
      BY <1>5, <2>1
    <3>2. Len(a) \in Nat /\ MaxRequests \in Nat
      BY <1>2, <1>3
    <3> QED
      BY <3>1, <3>2
  <2> QED
    BY <2>2, <2>3, <2>4
<1> QED
  BY <1>8, <1>9, <1>10

\* check(), reset() and the clock keep the invariant.
LEMMA NextInv == LimiterInv /\ [LimiterNext]_limiterVars => LimiterInv'
<1> SUFFICES ASSUME LimiterInv, [LimiterNext]_limiterVars PROVE LimiterInv'
  OBVIOUS
<1> USE DEF LimiterInv
<1>1. now \in Nat /\ now \in 0..MaxNow /\ MaxNow \in Nat
  BY LimiterAssumption DEF Types
<1>2. CASE Tick
  <2>1. now' \in Nat /\ now <= now' /\ hits' = hits /\ accepted' = accepted
    BY <1>1, <1>2 DEF Tick
  <2>2. Types'
    BY <1>1, <1>2, <2>1 DEF Tick, Types
  <2> QED
    BY <2>1, <2>2, LaterInv
<1>3. CASE UNCHANGED limiterVars
  <2>1. now' \in Nat /\ now <= now' /\ hits' = hits /\ accepted' = accepted
    BY <1>1, <1>3 DEF limiterVars
  <2>2. Types'
    BY <1>1, <1>3, <2>1 DEF limiterVars, Types
  <2> QED
    BY <2>1, <2>2, LaterInv
<1>4. ASSUME NEW k \in Clients, Accept(k) PROVE LimiterInv'
  <2>1. Pruned(k) \in Seq(0..MaxNow) /\ accepted[k] \in Seq(0..MaxNow)
    BY PrunedFacts DEF Types
  <2>2. Append(Pruned(k), now) \in Seq(0..MaxNow) /\ Append(accepted[k], now) \in Seq(0..MaxNow)
    BY <1>1, <2>1, AppendProperties
  <2>3. Types'
    BY <1>1, <1>4, <2>2 DEF Accept, Types
  <2>4. \A j \in Clients \ {k} : hits[j]' = hits[j] /\ accepted[j]' = accepted[j]
    BY <1>4 DEF Accept, Types
  <2>5. \A j \in Clients \ {k} : Suffix(j)' /\ InOrder(j)' /\ Spaced(j)'
    <3>1. now' = now /\ now <= now'
      BY <1>1, <1>4 DEF Accept
    <3> QED
      BY <1>1, <2>4, <3>1, LaterInv
  <2>6. Suffix(k)' /\ InOrder(k)' /\ Spaced(k)'
    BY <1>4, AcceptInv
  <2> QED
    BY <2>3, <2>5, <2>6
<1>5. ASSUME NEW k \in Clients, Refuse(k) PROVE LimiterInv'
  <2>1. Types'
    BY <1>1, <1>5, PrunedFacts DEF Refuse, Types
  <2>2. now' = now /\ now <= now' /\ accepted' = accepted
    BY <1>1, <1>5 DEF Refuse
  <2>3. \A j \in Clients \ {k} : Suffix(j)' /\ InOrder(j)' /\ Spaced(j)'
    <3>1. \A j \in Clients \ {k} : hits[j]' = hits[j]
      BY <1>5 DEF Refuse, Types
    <3> QED
      BY <1>1, <2>2, <3>1, LaterInv
  <2>4. Suffix(k)' /\ InOrder(k)' /\ Spaced(k)'
    BY <1>5, <2>2, RefuseInv DEF InOrder, Spaced
  <2> QED
    BY <2>1, <2>3, <2>4
<1>6. ASSUME NEW k \in Clients, Reset(k) PROVE LimiterInv'
  <2>1. Types'
    BY <1>1, <1>6, EmptySeq DEF Reset, Types
  <2>2. now' = now /\ now <= now' /\ hits[k]' = <<>> /\ accepted[k]' = <<>>
    BY <1>1, <1>6 DEF Reset, Types
  <2>3. \A j \in Clients \ {k} : Suffix(j)' /\ InOrder(j)' /\ Spaced(j)'
    <3>1. \A j \in Clients \ {k} : hits[j]' = hits[j] /\ accepted[j]' = accepted[j]
      BY <1>6 DEF Reset, Types
    <3> QED
      BY <1>1, <2>2, <3>1, LaterInv
  <2>4. Len(hits[k])' = 0 /\ Len(accepted[k])' = 0
    BY <2>2, EmptySeq
  <2>5. Suffix(k)' /\ InOrder(k)' /\ Spaced(k)'
    BY <2>4, LimiterAssumption DEF Suffix, InOrder, Spaced
  <2> QED
    BY <2>1, <2>3, <2>5
<1> QED
  BY <1>2, <1>3, <1>4, <1>5, <1>6 DEF LimiterNext

-----------------------------------------------------------------------------
(* The limiter: theorems *)

\* The invariant of check() and reset(): each bucket is the recent end of its
\* client's history.
THEOREM LimiterInvariant == LimiterSpec => []LimiterInv
<1> QED
  BY InitInv, NextInv, PTL DEF LimiterSpec

\* Type correctness; no bucket grows beyond RATE_LIMIT_REQUESTS.
THEOREM LimiterTypeCorrect == LimiterSpec => []LimiterTypeOK
<1>1. LimiterInv => LimiterTypeOK
  <2>1. LimiterInv => \A k \in Clients : Len(hits[k]) <= MaxRequests
    BY DEF LimiterInv, Suffix
  <2> QED
    BY <2>1, LimiterAssumption DEF LimiterInv, Types, LimiterTypeOK
<1> QED
  BY <1>1, LimiterInvariant, PTL

\* The limit itself: MaxRequests + 1 accepted requests of one client never
\* fit into one window.
THEOREM AtMostMaxPerWindowAlways == LimiterSpec => []AtMostMaxPerWindow
<1>1. LimiterInv => AtMostMaxPerWindow
  <2> SUFFICES ASSUME LimiterInv, NEW k \in Clients, NEW i \in DOMAIN accepted[k],
                      i + MaxRequests \in DOMAIN accepted[k]
               PROVE  accepted[k][i + MaxRequests] - accepted[k][i] > Window
    BY DEF AtMostMaxPerWindow
  <2>1. DOMAIN accepted[k] = 1..Len(accepted[k]) /\ Len(accepted[k]) \in Nat
    BY LenProperties DEF LimiterInv, Types
  <2>2. Spaced(k)
    BY DEF LimiterInv
  <2> QED
    BY <2>1, <2>2 DEF Spaced
<1> QED
  BY <1>1, LimiterInvariant, PTL

\* The other direction as well: a client is refused only if it has used its
\* limit in the window that ends now.
THEOREM LimiterIsExactAlways == LimiterSpec => []LimiterIsExact
<1>1. LimiterInv => LimiterIsExact
  <2> SUFFICES ASSUME LimiterInv, NEW k \in Clients
               PROVE  Len(Pruned(k)) >= MaxRequests
                        <=> \E i \in Recent(k) : i = Len(accepted[k]) - MaxRequests + 1
    BY DEF LimiterIsExact
  <2> DEFINE a == accepted[k]
             p == Pruned(k)
             d == Len(a) - Len(p)
             m == Len(a) - MaxRequests + 1
  <2>1. /\ p \in Seq(0..MaxNow)
        /\ Len(p) \in Nat /\ Len(a) \in Nat /\ Len(p) <= Len(a)
        /\ \A i \in 1..d : a[i] < now - Window
        /\ p # <<>> => a[d + 1] >= now - Window
    BY PrunedFacts DEF LimiterInv
  <2>2. /\ DOMAIN a = 1..Len(a)
        /\ \A i \in 1..Len(a) : a[i] \in 0..MaxNow
        /\ \A i, j \in 1..Len(a) : i <= j => a[i] <= a[j]
    BY LenProperties, ElementOfSeq DEF LimiterInv, Types, InOrder
  <2>3. now \in Nat /\ MaxRequests \in Nat \ {0} /\ Window \in Nat /\ MaxNow \in Nat
    BY LimiterAssumption DEF LimiterInv, Types
  <2>4. Recent(k) = {i \in 1..Len(a) : a[i] >= now - Window}
    BY <2>2 DEF Recent
  <2>5. Len(<<>>) = 0
    BY EmptySeq
  <2> HIDE DEF a, p
  <2>6. ASSUME Len(p) >= MaxRequests PROVE m \in 1..Len(a) /\ a[m] >= now - Window
    <3>1. p # <<>> /\ m \in 1..Len(a) /\ d + 1 \in 1..Len(a) /\ d + 1 <= m
      BY <2>1, <2>3, <2>5, <2>6
    <3>2. a[d + 1] <= a[m] /\ a[d + 1] \in Int /\ a[m] \in Int
      BY <2>2, <3>1
    <3> QED
      BY <2>1, <2>3, <3>1, <3>2
  <2>7. ASSUME m \in 1..Len(a), a[m] >= now - Window PROVE Len(p) >= MaxRequests
    <3>1. m \notin 1..d
      <4>1. a[m] \in Int
        BY <2>2, <2>7
      <4>2. ~(a[m] < now - Window)
        BY <2>3, <2>7, <4>1
      <4> QED
        BY <2>1, <4>2
    <3> QED
      BY <2>1, <2>3, <2>7, <3>1
  <2> QED
    BY <2>4, <2>6, <2>7 DEF a, p
<1> QED
  BY <1>1, LimiterInvariant, PTL

-----------------------------------------------------------------------------
(* Requests: the invariant *)

\* The rows a request has written, against the stage it has reached.
AuditInv(r) ==
  LET n == Len(audited[r]) IN
  /\ \A i \in 1..n : audited[r][i] = i
  /\ stage[r] \in {"new", "dependencies", "handler"} => n = 0 /\ outcome[r] = "none"
  /\ stage[r] \in {"waiting", "writing"} => n < Writes[r] /\ outcome[r] = "none"
  /\ stage[r] = "returned" => n = Writes[r] /\ outcome[r] = "none"
  /\ outcome[r] \in {"ok", "broken"} => n = Writes[r]
  /\ outcome[r] = "error" => Writes[r] = 0 \/ n < Writes[r]
  /\ outcome[r] = "refused" => n = 0

\* Whose connections are checked out.
PoolInv(r) ==
  /\ <<r, "write">> \in connections => stage[r] = "writing"
  /\ <<r, "request">> \in connections => stage[r] \in {"handler", "waiting", "writing", "returned", "closing"}

ApiTypes ==
  /\ stage \in [Requests -> Stages]
  /\ outcome \in [Requests -> Outcomes]
  /\ connections \subseteq Requests \X {"request", "write"}
  /\ audited \in [Requests -> Seq(Nat)]
  /\ observed \subseteq Requests

ApiInv ==
  /\ LimiterInv
  /\ ApiTypes
  /\ \A r \in Requests : AuditInv(r) /\ PoolInv(r)

-----------------------------------------------------------------------------
(* Requests: steps *)

\* A request that does not move keeps its part of the invariant.
LEMMA OtherRequest ==
  ASSUME NEW r \in Requests, AuditInv(r), PoolInv(r),
         stage[r]' = stage[r], outcome[r]' = outcome[r], audited[r]' = audited[r],
         \A s \in {"request", "write"} : <<r, s>> \in connections' => <<r, s>> \in connections
  PROVE  AuditInv(r)' /\ PoolInv(r)'
BY DEF AuditInv, PoolInv

\* Initially no request has arrived and nothing is checked out.
LEMMA ApiInitInv == ApiInit => ApiInv
<1> SUFFICES ASSUME ApiInit PROVE ApiInv
  OBVIOUS
<1>1. LimiterInv
  BY InitInv DEF ApiInit
<1>2. ApiTypes
  BY EmptySeq DEF ApiInit, ApiTypes, Stages, Outcomes
<1>3. ASSUME NEW r \in Requests PROVE AuditInv(r) /\ PoolInv(r)
  <2>1. stage[r] = "new" /\ outcome[r] = "none" /\ Len(audited[r]) = 0 /\ connections = {}
    BY EmptySeq DEF ApiInit
  <2> QED
    BY <2>1 DEF AuditInv, PoolInv
<1> QED
  BY <1>1, <1>2, <1>3 DEF ApiInv

\* Every step of the API is a step of its limiter, or leaves it alone.
LEMMA LimiterMoves == [ApiNext]_apiVars => [LimiterNext]_limiterVars
<1> SUFFICES ASSUME [ApiNext]_apiVars PROVE [LimiterNext]_limiterVars
  OBVIOUS
<1>1. CASE Passing
  BY <1>1 DEF Passing, LimiterNext
<1>2. CASE UNCHANGED apiVars
  BY <1>2 DEF apiVars
<1>3. ASSUME NEW r \in Requests, Serve(r) PROVE [LimiterNext]_limiterVars
  <2>1. CASE Arrive(r)
    <3>1. ClientOf[r] \in Clients
      BY ApiAssumption
    <3> QED
      BY <2>1, <3>1 DEF Arrive, LimiterNext
  <2>2. CASE ~Arrive(r)
    BY <1>3, <2>2 DEF Serve, RejectToken, AdmitUser, Handle, BeginWrite, CommitWrite,
                      WriteRaises, CheckOutTimesOut, Serialize, Close
  <2> QED
    BY <2>1, <2>2
<1> QED
  BY <1>1, <1>2, <1>3 DEF ApiNext

\* What a step of r does to r, as far as the invariant is concerned.
LEMMA OwnStep ==
  ASSUME ApiTypes, NEW r \in Requests, AuditInv(r), PoolInv(r), Serve(r)
  PROVE  ApiTypes' /\ AuditInv(r)' /\ PoolInv(r)'
<1>1. /\ Writes[r] \in Nat /\ audited[r] \in Seq(Nat) /\ Len(audited[r]) \in Nat
      /\ r \in DOMAIN stage /\ r \in DOMAIN outcome /\ r \in DOMAIN audited
  BY ApiAssumption, LenProperties DEF ApiTypes
<1>2. CASE Arrive(r)
  BY <1>1, <1>2 DEF Arrive, Goto, ApiTypes, Stages, Outcomes, AuditInv, PoolInv
<1>3. CASE RejectToken(r)
  BY <1>1, <1>3 DEF RejectToken, Fail, Goto, ApiTypes, Stages, Outcomes, AuditInv, PoolInv
<1>4. CASE AdmitUser(r)
  <2>1. /\ stage[r] = "dependencies"
        /\ connections' = connections \cup {<<r, "request">>}
        /\ audited' = audited /\ observed' = observed
    BY <1>4 DEF AdmitUser, CheckOut
  <2>2. \/ stage' = [stage EXCEPT ![r] = "handler"] /\ outcome' = outcome
        \/ stage' = [stage EXCEPT ![r] = "closing"] /\ outcome' = [outcome EXCEPT ![r] = "error"]
    BY <1>4 DEF AdmitUser, Fail, Goto
  <2>3. connections' \subseteq Requests \X {"request", "write"}
    BY <2>1 DEF ApiTypes
  <2>4. ApiTypes'
    BY <2>1, <2>2, <2>3 DEF ApiTypes, Stages, Outcomes
  <2>5. stage[r]' \in {"handler", "closing"}
    BY <1>1, <2>2
  <2>6. <<r, "write">> \notin connections'
    BY <2>1 DEF PoolInv
  <2>7. PoolInv(r)'
    BY <2>5, <2>6 DEF PoolInv
  <2>8. AuditInv(r)'
    BY <1>1, <2>1, <2>2 DEF AuditInv
  <2> QED
    BY <2>4, <2>7, <2>8
<1>5. CASE Handle(r)
  <2>1. /\ stage[r] = "handler"
        /\ UNCHANGED <<connections, audited, observed>>
    BY <1>5 DEF Handle
  <2>2. \/ 0 < Writes[r] /\ stage' = [stage EXCEPT ![r] = "waiting"] /\ outcome' = outcome
        \/ ~(0 < Writes[r]) /\ stage' = [stage EXCEPT ![r] = "returned"] /\ outcome' = outcome
        \/ stage' = [stage EXCEPT ![r] = "closing"] /\ outcome' = [outcome EXCEPT ![r] = "error"]
    BY <1>5 DEF Handle, Proceed, Fail, Goto
  <2>3. ApiTypes'
    BY <2>1, <2>2 DEF ApiTypes, Stages, Outcomes
  <2>4. PoolInv(r)'
    BY <1>1, <2>1, <2>2 DEF PoolInv
  <2>5. AuditInv(r)'
    BY <1>1, <2>1, <2>2 DEF AuditInv
  <2> QED
    BY <2>3, <2>4, <2>5
<1>6. CASE BeginWrite(r)
  BY <1>1, <1>6 DEF BeginWrite, CheckOut, Goto, ApiTypes, Stages, Outcomes, AuditInv, PoolInv
<1>7. CASE CommitWrite(r)
  <2> DEFINE n == Len(audited[r])
             a == Append(audited[r], n + 1)
  <2>1. /\ a \in Seq(Nat) /\ Len(a) = n + 1 /\ a[n + 1] = n + 1
        /\ \A i \in 1..n : a[i] = audited[r][i]
    BY <1>1, AppendProperties
  <2>2. audited' = [audited EXCEPT ![r] = a] /\ audited[r]' = a
    BY <1>1, <1>7 DEF CommitWrite
  <2>3. stage[r] = "writing" /\ n < Writes[r] /\ \A i \in 1..n : audited[r][i] = i
    BY <1>7 DEF CommitWrite, AuditInv
  <2>4. connections' = connections \ {<<r, "write">>} /\ observed' = observed
    BY <1>7 DEF CommitWrite, GiveBack
  <2>5. /\ UNCHANGED outcome
        /\ \/ n + 1 < Writes[r] /\ Goto(r, "waiting")
           \/ ~(n + 1 < Writes[r]) /\ Goto(r, "returned")
    BY <1>7 DEF CommitWrite, Proceed
  <2> HIDE DEF n, a
  <2>6. n \in Nat
    BY <1>1 DEF n
  <2>7. \A i \in 1..(n + 1) : a[i] = i
    BY <2>1, <2>3, <2>6
  <2>8. ApiTypes'
    BY <2>1, <2>2, <2>4, <2>5 DEF ApiTypes, Goto, Stages, Outcomes
  <2>9. PoolInv(r)'
    BY <1>1, <2>3, <2>4, <2>5 DEF PoolInv, Goto
  <2>10. CASE n + 1 < Writes[r]
    <3>1. stage[r]' = "waiting" /\ outcome[r]' = "none"
      BY <1>1, <2>3, <2>5, <2>10 DEF Goto, AuditInv
    <3> QED
      BY <2>1, <2>2, <2>7, <2>8, <2>9, <2>10, <3>1 DEF AuditInv
  <2>11. CASE ~(n + 1 < Writes[r])
    <3>1. stage[r]' = "returned" /\ outcome[r]' = "none" /\ n + 1 = Writes[r]
      BY <1>1, <2>3, <2>5, <2>6, <2>11 DEF Goto, AuditInv
    <3> QED
      BY <2>1, <2>2, <2>7, <2>8, <2>9, <3>1 DEF AuditInv
  <2> QED
    BY <2>10, <2>11
<1>8. CASE WriteRaises(r)
  BY <1>1, <1>8 DEF WriteRaises, GiveBack, Fail, Goto, ApiTypes, Stages, Outcomes, AuditInv, PoolInv
<1>9. CASE CheckOutTimesOut(r)
  BY <1>1, <1>9 DEF CheckOutTimesOut, Fail, Goto, ApiTypes, Stages, Outcomes, AuditInv, PoolInv
<1>10. CASE Close(r)
  BY <1>1, <1>10 DEF Close, Observe, GiveBack, Goto, ApiTypes, Stages, Outcomes, AuditInv, PoolInv
<1>11. CASE Serialize(r)
  <2>1. PICK answer \in {"ok", "broken"} : outcome' = [outcome EXCEPT ![r] = answer]
    BY <1>11 DEF Serialize
  <2> QED
    BY <1>1, <1>11, <2>1 DEF Serialize, Goto, ApiTypes, Stages, Outcomes, AuditInv, PoolInv
<1> QED
  BY <1>2, <1>3, <1>4, <1>5, <1>6, <1>7, <1>8, <1>9, <1>10, <1>11 DEF Serve

\* A step moves one request; the others are left as they are.
LEMMA ApiNextInv == ApiInv /\ [ApiNext]_apiVars => ApiInv'
<1> SUFFICES ASSUME ApiInv, [ApiNext]_apiVars PROVE ApiInv'
  OBVIOUS
<1> USE DEF ApiInv
<1>1. LimiterInv'
  BY LimiterMoves, NextInv
<1>2. CASE Passing \/ UNCHANGED apiVars
  <2>1. UNCHANGED <<stage, outcome, connections, audited, observed>>
    BY <1>2 DEF Passing, apiVars
  <2>2. ApiTypes'
    BY <2>1 DEF ApiTypes
  <2>3. \A r \in Requests : AuditInv(r)' /\ PoolInv(r)'
    BY <2>1, OtherRequest
  <2> QED
    BY <1>1, <2>2, <2>3
<1>3. ASSUME NEW r \in Requests, Serve(r) PROVE ApiInv'
  <2>1. ApiTypes' /\ AuditInv(r)' /\ PoolInv(r)'
    BY <1>3, OwnStep
  <2>2. ASSUME NEW q \in Requests, q # r PROVE AuditInv(q)' /\ PoolInv(q)'
    <3>1. stage[q]' = stage[q] /\ outcome[q]' = outcome[q] /\ audited[q]' = audited[q]
      BY <1>3, <2>2 DEF ApiTypes, Serve, Arrive, RejectToken, AdmitUser, Handle, BeginWrite,
                        CommitWrite, WriteRaises, CheckOutTimesOut, Serialize, Close, Proceed, Fail, Goto
    <3>2. \/ connections' \subseteq connections
          \/ connections' = connections \cup {<<r, "request">>}
          \/ connections' = connections \cup {<<r, "write">>}
      BY <1>3 DEF Serve, Arrive, RejectToken, AdmitUser, Handle, BeginWrite,
                  CommitWrite, WriteRaises, CheckOutTimesOut, Serialize, Close, CheckOut, GiveBack
    <3>3. \A s \in {"request", "write"} : <<q, s>> \in connections' => <<q, s>> \in connections
      BY <2>2, <3>2
    <3> QED
      BY <3>1, <3>3, OtherRequest
  <2> QED
    BY <1>1, <2>1, <2>2
<1> QED
  BY <1>2, <1>3 DEF ApiNext

-----------------------------------------------------------------------------
(* Requests: theorems *)

\* The invariant of the request path: LimiterInv of its limiter, and per
\* request what it has written and which connections it holds.
THEOREM ApiInvariant == ApiSpec => []ApiInv
<1> QED
  BY ApiInitInv, ApiNextInv, PTL DEF ApiSpec

LEMMA ApiInvTypes == ApiInv => ApiTypeOK
<1>1. ApiInv => LimiterTypeOK
  BY LimiterAssumption DEF ApiInv, LimiterInv, Suffix, Types, LimiterTypeOK
<1> QED
  BY <1>1 DEF ApiInv, ApiTypes, ApiTypeOK

\* Type correctness of the request path.
THEOREM ApiTypeCorrect == ApiSpec => []ApiTypeOK
BY ApiInvTypes, ApiInvariant, PTL

\* The middleware keeps to the limiter: whatever the requests do behind it,
\* its state moves as RateLimiter says.
THEOREM ApiImplementsLimiter == ApiSpec => LimiterSpec
<1>1. ApiInit => LimiterInit
  BY DEF ApiInit
<1> QED
  BY <1>1, LimiterMoves, PTL DEF ApiSpec, LimiterSpec

\* The rows a request has committed and its answer agree: rows once and in
\* order, all of them behind a 200 and behind the 500 of a request whose
\* handler had returned, fewer behind an error of the handler.
THEOREM AuditMatchesAnswerAlways == ApiSpec => []AuditMatchesAnswer
<1>1. ApiInv => AuditMatchesAnswer
  <2> SUFFICES ASSUME ApiInv, NEW r \in Requests
               PROVE  /\ audited[r] = [i \in 1..Len(audited[r]) |-> i]
                      /\ outcome[r] \in {"ok", "broken"} => Len(audited[r]) = Writes[r]
                      /\ outcome[r] = "error" => Writes[r] = 0 \/ Len(audited[r]) < Writes[r]
                      /\ outcome[r] = "refused" => audited[r] = <<>>
    BY DEF AuditMatchesAnswer
  <2>1. audited[r] \in Seq(Nat) /\ AuditInv(r)
    BY DEF ApiInv, ApiTypes
  <2>2. audited[r] = [i \in 1..Len(audited[r]) |-> i]
    BY <2>1, LenProperties DEF AuditInv
  <2>3. outcome[r] = "refused" => audited[r] = <<>>
    BY <2>1, EmptySeq DEF AuditInv
  <2> QED
    BY <2>1, <2>2, <2>3 DEF AuditInv
<1> QED
  BY <1>1, ApiInvariant, PTL

\* A client meets an exhausted pool only under load: no path through
\* get_db() and session_scope() loses a connection.
THEOREM ExhaustionNeedsLoadAlways == ApiSpec => []ExhaustionNeedsLoad
<1>1. ApiInv => ExhaustionNeedsLoad
  <2> SUFFICES ASSUME ApiInv PROVE ExhaustionNeedsLoad
    OBVIOUS
  <2> DEFINE Sessions == {"request", "write"}
             All == Active \X Sessions
             c == Cardinality(connections)
             a == Cardinality(Active)
  <2>1. connections \in SUBSET All
    <3>1. ASSUME NEW q \in Requests, NEW s \in Sessions, <<q, s>> \in connections
          PROVE  q \in Active
      BY <3>1 DEF ApiInv, PoolInv, Active
    <3>2. connections \subseteq Requests \X Sessions
      BY DEF ApiInv, ApiTypes
    <3>3. ASSUME NEW x \in connections PROVE x \in All
      <4>1. PICK q \in Requests, s \in Sessions : x = <<q, s>>
        BY <3>2
      <4> QED
        BY <3>1, <4>1
    <3> QED
      BY <3>3
  <2>2. IsFiniteSet(Active) /\ a \in Nat
    BY ApiAssumption, FS_Subset, FS_CardinalityType DEF Active
  <2>3. IsFiniteSet(Sessions) /\ Cardinality(Sessions) = 2
    <3>1. IsFiniteSet({"request"}) /\ Cardinality({"request"}) = 1
      <4>1. {} \cup {"request"} = {"request"}
        OBVIOUS
      <4> QED
        BY <4>1, FS_EmptySet, FS_AddElement
    <3>2. {"request"} \cup {"write"} = Sessions /\ "write" \notin {"request"}
      OBVIOUS
    <3> QED
      BY <3>1, <3>2, FS_AddElement
  <2>4. IsFiniteSet(All) /\ Cardinality(All) = a * 2
    BY <2>2, <2>3, FS_Product
  <2>5. IsFiniteSet(connections) /\ c \in Nat /\ c <= a * 2
    BY <2>1, <2>4, FS_Subset, FS_CardinalityType
  <2>6. ASSUME NEW r \in Requests, stage[r] = "waiting" PROVE c < a * 2
    <3>1. <<r, "write">> \in All /\ <<r, "write">> \notin connections
      BY <2>6 DEF ApiInv, PoolInv, Active
    <3>2. c # Cardinality(All)
      BY <2>1, <2>4, <3>1, FS_Subset
    <3> QED
      BY <2>2, <2>4, <2>5, <3>2
  <2>7. ~Free => Capacity <= c
    BY <2>5, ApiAssumption DEF Free
  <2>8. \A x \in connections : x[1] \in Active
    BY <2>1
  <2>9. Capacity \in Nat
    BY ApiAssumption
  <2> HIDE DEF c, a
  <2>10. a \in Nat /\ c \in Nat /\ c <= a * 2
    BY <2>2, <2>5
  <2>11. ~Free => 2 * a >= Capacity
    BY <2>7, <2>9, <2>10
  <2>12. ASSUME ~Free, NEW r \in Requests, stage[r] = "waiting" PROVE 2 * a > Capacity
    <3>1. c < a * 2
      BY <2>6, <2>12
    <3> QED
      BY <2>7, <2>9, <2>10, <2>12, <3>1
  <2> QED
    BY <2>8, <2>11, <2>12 DEF ExhaustionNeedsLoad, a
<1> QED
  BY <1>1, ApiInvariant, PTL
=============================================================================
