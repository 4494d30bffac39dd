----------------------------- MODULE RateLimiter -----------------------------
(***************************************************************************)
(* The sliding-window limiter of the API (RateLimiter, one per process):   *)
(* per client key a queue of the times of the accepted requests, pruned    *)
(* from its front whenever that client asks again.                         *)
(*                                                                         *)
(* check() reads the clock before it takes its lock.  Its one caller, the  *)
(* rate-limit middleware, runs on the event loop and does not suspend      *)
(* inside, so that reading and deciding are one step here.                 *)
(***************************************************************************)
EXTENDS Integers, Sequences

CONSTANTS Clients,      \* client addresses, the keys of the limiter
          MaxRequests,  \* RATE_LIMIT_REQUESTS
          Window,       \* RATE_LIMIT_WINDOW_SECONDS, in ticks of the clock
          MaxNow        \* bound of the clock

ASSUME LimiterAssumption ==
  /\ MaxRequests \in Nat \ {0}
  /\ Window \in Nat
  /\ MaxNow \in Nat

VARIABLES
  now,        \* time.monotonic()
  hits,       \* times in the bucket of each client, oldest first
  accepted    \* history: times of every accepted request since the last reset

limiterVars == <<now, hits, accepted>>

LimiterInit ==
  /\ now = 0
  /\ hits = [k \in Clients |-> <<>>]
  /\ accepted = [k \in Clients |-> <<>>]

\* Number of times at the front of a bucket that are before cutoff.
Expired(bucket, cutoff) ==
  CHOOSE n \in 0..Len(bucket) :
    /\ \A i \in 1..n : bucket[i] < cutoff
    /\ n < Len(bucket) => bucket[n + 1] >= cutoff

Prune(bucket, cutoff) == SubSeq(bucket, Expired(bucket, cutoff) + 1, Len(bucket))

\* Faulty variant: expired hits are not dropped.
Pruned_Not(k) == hits[k]

Pruned(k) == Prune(hits[k], now - Window)

-----------------------------------------------------------------------------
Accept(k) ==
  /\ Len(Pruned(k)) < MaxRequests
  /\ hits'     = [hits EXCEPT ![k] = Append(Pruned(k), now)]
  /\ accepted' = [accepted EXCEPT ![k] = Append(@, now)]
  /\ UNCHANGED now

\* Faulty variant: a refused request leaves a hit.
Refuse_Recorded(k) ==
  /\ Len(Pruned(k)) >= MaxRequests
  /\ hits' = [hits EXCEPT ![k] = Append(Pruned(k), now)]
  /\ UNCHANGED <<now, accepted>>

\* RateLimitError; a refused request leaves no hit.
Refuse(k) ==
  /\ Len(Pruned(k)) >= MaxRequests
  /\ hits' = [hits EXCEPT ![k] = Pruned(k)]
  /\ UNCHANGED <<now, accepted>>

Reset(k) ==
  /\ hits'     = [hits EXCEPT ![k] = <<>>]
  /\ accepted' = [accepted EXCEPT ![k] = <<>>]
  /\ UNCHANGED now

Tick ==
  /\ now < MaxNow
  /\ now' = now + 1
  /\ UNCHANGED <<hits, accepted>>

LimiterNext ==
  \/ Tick
  \/ \E k \in Clients : Accept(k) \/ Refuse(k) \/ Reset(k)

LimiterSpec == LimiterInit /\ [][LimiterNext]_limiterVars

-----------------------------------------------------------------------------
(* Properties *)

\* Times are on the clock; a bucket never holds more than MaxRequests.
LimiterTypeOK ==
  /\ now \in 0..MaxNow
  /\ hits \in [Clients -> Seq(0..MaxNow)]
  /\ accepted \in [Clients -> Seq(0..MaxNow)]
  /\ \A k \in Clients : Len(hits[k]) <= MaxRequests

\* Requests of k accepted in the last Window ticks, both ends included.
Recent(k) == {i \in DOMAIN accepted[k] : accepted[k][i] >= now - Window}

\* check() with its lazily pruned queue decides as if it remembered every
\* request ever accepted: it refuses exactly when MaxRequests of them lie in
\* the window that ends now.
LimiterIsExact ==
  \A k \in Clients :
    Len(Pruned(k)) >= MaxRequests
      <=> \E i \in Recent(k) : i = Len(accepted[k]) - MaxRequests + 1

\* "Sliding window": whatever the order of requests and pruning, any
\* MaxRequests + 1 accepted requests in a row span more than one window.
AtMostMaxPerWindow ==
  \A k \in Clients : \A i \in DOMAIN accepted[k] :
    i + MaxRequests \in DOMAIN accepted[k]
      => accepted[k][i + MaxRequests] - accepted[k][i] > Window
=============================================================================
