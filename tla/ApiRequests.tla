----------------------------- MODULE ApiRequests -----------------------------
(***************************************************************************)
(* One request through the API process: the middleware chain, the          *)
(* dependencies of the route, the handler in a thread, and the database    *)
(* connections they take from one pool.                                    *)
(*                                                                         *)
(* get_current_user() reads the user with the session of the request,      *)
(* which keeps its connection until get_db() closes it after the handler.  *)
(* A handler that writes through PersistenceService opens a session of its *)
(* own for each write - POST /predict one per scored row, POST /train one, *)
(* GET /auth/me none - and so takes a second connection from the pool      *)
(* while it holds the first.                                               *)
(*                                                                         *)
(* When the handler has returned, FastAPI serializes its result, which     *)
(* raises for a NaN or an infinity, and get_db() commits the session of    *)
(* the request: before the answer leaves or, with newer releases of        *)
(* FastAPI, afterwards.                                                    *)
(***************************************************************************)
EXTENDS RateLimiter, FiniteSets

CONSTANTS Requests,
          Capacity,          \* DATABASE_POOL_SIZE + DATABASE_MAX_OVERFLOW
          ClientOf,          \* the client that sends a request
          Writes             \* transactions its handler opens, one after the other

ASSUME ApiAssumption ==
  /\ IsFiniteSet(Requests)
  /\ Capacity \in Nat \ {0}
  /\ ClientOf \in [Requests -> Clients]
  /\ Writes \in [Requests -> Nat]

VARIABLES
  stage,        \* how far a request has got
  outcome,      \* the answer on its way to the client
  connections,  \* connections checked out of the pool, by request and session
  audited,      \* rows each request has committed, in the order of the commits
  observed      \* requests counted in iad_http_requests_total

apiVars == <<limiterVars, stage, outcome, connections, audited, observed>>

Stages   == {"new", "dependencies", "handler", "waiting", "writing", "returned", "closing", "ended"}

\* "error" comes from a dependency or the handler, "broken" is the 500 of a
\* request whose handler has returned.
Outcomes == {"none", "ok", "error", "broken", "refused"}

ApiInit ==
  /\ LimiterInit
  /\ stage       = [r \in Requests |-> "new"]
  /\ outcome     = [r \in Requests |-> "none"]
  /\ connections = {}
  /\ audited     = [r \in Requests |-> <<>>]
  /\ observed    = {}

Goto(r, where) == stage' = [stage EXCEPT ![r] = where]

\* The exception travels up; get_db() will roll back and close.
Fail(r) ==
  /\ Goto(r, "closing")
  /\ outcome' = [outcome EXCEPT ![r] = "error"]

\* After n of its transactions: the next one, or the handler returns.
Proceed(r, n) ==
  /\ Goto(r, IF n < Writes[r] THEN "waiting" ELSE "returned")
  /\ UNCHANGED outcome

Free == Cardinality(connections) < Capacity

CheckOut(r, session) == Free /\ connections' = connections \cup {<<r, session>>}

\* Faulty variant: a session is not closed.
GiveBack_Leaks(r, session) == UNCHANGED connections

GiveBack(r, session) == connections' = connections \ {<<r, session>>}

\* The innermost middleware, when the response passes it.
Observe(r) == observed' = observed \cup {r}

-----------------------------------------------------------------------------
\* The outer middlewares, on the event loop.  CORS and CSRF let every request
\* to these routes pass; the limiter may answer 429 itself.
Arrive(r) ==
  /\ stage[r] = "new"
  /\ \/ Accept(ClientOf[r]) /\ Goto(r, "dependencies") /\ UNCHANGED outcome
     \/ /\ Refuse(ClientOf[r])
        /\ Goto(r, "ended")
        /\ outcome' = [outcome EXCEPT ![r] = "refused"]
  /\ UNCHANGED <<connections, audited, observed>>

\* decode_token() refuses before the database is asked.
RejectToken(r) ==
  /\ stage[r] = "dependencies"
  /\ Fail(r)
  /\ UNCHANGED <<limiterVars, connections, audited, observed>>

\* get_user_by_id() and require_perm(), with the session of the request.
AdmitUser(r) ==
  /\ stage[r] = "dependencies"
  /\ CheckOut(r, "request")
  /\ \/ Goto(r, "handler") /\ UNCHANGED outcome
     \/ Fail(r)
  /\ UNCHANGED <<limiterVars, audited, observed>>

\* The handler up to its first write: the bundle is resolved and loaded, the
\* rows are validated and scored.
Handle(r) ==
  /\ stage[r] = "handler"
  /\ Proceed(r, 0) \/ Fail(r)
  /\ UNCHANGED <<limiterVars, connections, audited, observed>>

\* session_scope() in log_prediction(): the user is looked up.
BeginWrite(r) ==
  /\ stage[r] = "waiting"
  /\ CheckOut(r, "write")
  /\ Goto(r, "writing")
  /\ UNCHANGED <<limiterVars, outcome, audited, observed>>

CommitWrite(r) ==
  /\ stage[r] = "writing"
  /\ audited' = [audited EXCEPT ![r] = Append(@, Len(@) + 1)]
  /\ GiveBack(r, "write")
  /\ Proceed(r, Len(audited[r]) + 1)
  /\ UNCHANGED <<limiterVars, observed>>

\* Faulty variant: a failed row is skipped and the request goes on.
WriteRaises_Skipped(r) ==
  /\ stage[r] = "writing"
  /\ GiveBack(r, "write")
  /\ Proceed(r, Len(audited[r]) + 1)
  /\ UNCHANGED <<limiterVars, audited, observed>>

\* Rolled back; the rows before it stay, the handler raises InferenceError.
WriteRaises(r) ==
  /\ stage[r] = "writing"
  /\ GiveBack(r, "write")
  /\ Fail(r)
  /\ UNCHANGED <<limiterVars, audited, observed>>

\* Faulty variant: the pool has no timeout.
CheckOutTimesOut_Never(r) == FALSE /\ UNCHANGED apiVars

\* QueuePool gives up waiting for a connection after its timeout.
CheckOutTimesOut(r) ==
  /\ stage[r] \in {"dependencies", "waiting"}
  /\ ~Free
  /\ Fail(r)
  /\ UNCHANGED <<limiterVars, connections, audited, observed>>

\* The result becomes a response, or cannot be serialized.
Serialize(r) ==
  /\ stage[r] = "returned"
  /\ Goto(r, "closing")
  /\ \E answer \in {"ok", "broken"} : outcome' = [outcome EXCEPT ![r] = answer]
  /\ UNCHANGED <<limiterVars, connections, audited, observed>>

\* get_db() ends the session of the request.  Its commit may raise, which the
\* client of a good answer learns unless the answer has left before.
Close(r) ==
  /\ stage[r] = "closing"
  /\ \/ UNCHANGED outcome
     \/ outcome[r] = "ok" /\ outcome' = [outcome EXCEPT ![r] = "broken"]
  /\ GiveBack(r, "request")
  /\ Observe(r)
  /\ Goto(r, "ended")
  /\ UNCHANGED <<limiterVars, audited>>

-----------------------------------------------------------------------------
Serve(r) ==
  \/ Arrive(r)
  \/ RejectToken(r)
  \/ AdmitUser(r)
  \/ Handle(r)
  \/ BeginWrite(r)
  \/ CommitWrite(r)
  \/ WriteRaises(r)
  \/ CheckOutTimesOut(r)
  \/ Serialize(r)
  \/ Close(r)

Passing == Tick /\ UNCHANGED <<stage, outcome, connections, audited, observed>>

ApiNext == Passing \/ \E r \in Requests : Serve(r)

\* Once a request has arrived its thread is scheduled, and statements and the
\* pool's timeout end.
ApiFairness == \A r \in Requests : WF_apiVars(stage[r] # "new" /\ Serve(r))

ApiSpec == ApiInit /\ [][ApiNext]_apiVars /\ ApiFairness

-----------------------------------------------------------------------------
(* Properties *)

\* Types of the variables.
ApiTypeOK ==
  /\ LimiterTypeOK
  /\ stage \in [Requests -> Stages]
  /\ outcome \in [Requests -> Outcomes]
  /\ connections \subseteq Requests \X {"request", "write"}
  /\ audited \in [Requests -> Seq(Nat)]
  /\ observed \subseteq Requests

Active == {r \in Requests : stage[r] \notin {"new", "ended"}}

\* get_db() and session_scope() close what they open on every path: a request
\* holds at most two connections, and none before and after.  So a client can
\* meet an exhausted pool only while more than Capacity \div 2 requests are
\* in progress, whatever has failed before.
ExhaustionNeedsLoad ==
  /\ \A c \in connections : c[1] \in Active
  /\ ~Free => 2 * Cardinality(Active) >= Capacity
  /\ ~Free => \A r \in Requests :
               stage[r] = "waiting" => 2 * Cardinality(Active) > Capacity

\* The audit of a prediction and its answer, which no common transaction ties
\* together: rows are committed once and in order, an answered request has
\* all of them and one that failed in its handler those before the failure.
\* But an error does not say that rows are missing: a result that cannot be
\* serialized or a commit that fails answers 500 after all of them.
AuditMatchesAnswer ==
  \A r \in Requests :
    /\ audited[r] = [i \in 1..Len(audited[r]) |-> i]
    /\ outcome[r] \in {"ok", "broken"} => Len(audited[r]) = Writes[r]
    /\ outcome[r] = "error" => Writes[r] = 0 \/ Len(audited[r]) < Writes[r]
    /\ outcome[r] = "refused" => audited[r] = <<>>

\* Requests that hold a connection and wait for a second one do not wait for
\* each other for ever: every request ends.
EveryRequestEnds ==
  \A r \in Requests : stage[r] # "new" ~> stage[r] = "ended"
=============================================================================
