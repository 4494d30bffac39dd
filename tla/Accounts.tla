------------------------------- MODULE Accounts -------------------------------
(***************************************************************************)
(* AuthService on the users table: registering, signing in and changing a  *)
(* password, from the API and from the sign-in form of the dashboard, and  *)
(* the owner that PersistenceService creates for data nobody signed in     *)
(* for.  Nothing but the unique index on the e-mail and the row lock of an *)
(* UPDATE orders the transactions of concurrent calls.                     *)
(*                                                                         *)
(* E-mails stand for their stripped, lower-case form; passwords for the    *)
(* hashes that verify them.  Hashing takes a quarter of a second, so that  *)
(* what a call has read may be old when it writes.                         *)
(*                                                                         *)
(* A call from the sign-in form commits in a session_scope() of its own    *)
(* before it returns.  A call from a route works in the session of the     *)
(* request: it returns its result, with tokens for the account, and        *)
(* get_db() commits afterwards (and, with newer releases of FastAPI, after *)
(* the client has got the answer).                                         *)
(***************************************************************************)
CONSTANTS Calls, Emails, Strong, Weak, NoPassword

ASSUME PasswordAssumption ==
  /\ Strong \cap Weak = {}
  /\ NoPassword \notin Strong \cup Weak

\* The id of a row that was there before, no call's own.
Seed == "seed"

ASSUME SeedAssumption == Seed \notin Calls

Passwords == Strong \cup Weak

VARIABLES
  step,       \* the statement a call is about to execute
  request,    \* the arguments of a call
  raised,     \* the exception it ended with, as AuthService raised it
  accounts,   \* committed rows of users; id is the call that created the row
  flushed,    \* calls whose INSERT or UPDATE is executed and not yet committed
  answered,   \* calls that have returned their result before the commit
  seen        \* the hash get_current_user() has read, for change_password()

accountVars == <<step, request, raised, accounts, flushed, answered, seen>>

NoCall == [kind |-> "none"]

Account == [id : Calls \cup {Seed}, email : Emails,
            password : Strong \cup {NoPassword}, active : BOOLEAN]

Register == [kind : {"register"}, email : Emails, password : Passwords]
Login    == [kind : {"login"}, email : Emails, password : Passwords]
Own      == [kind : {"own"}, email : Emails]
Identify == [kind : {"identify"}, id : Calls \cup {Seed}]
Change   == [kind : {"change"}, id : Calls \cup {Seed}, password : Passwords, new : Passwords]

Steps == {"new", "lookup", "insert", "verify", "authorize", "current", "update",
          "commit", "ended"}

AccountInit ==
  /\ step     = [c \in Calls |-> "new"]
  /\ request  = [c \in Calls |-> NoCall]
  /\ raised   = [c \in Calls |-> "none"]
  /\ \E A \in SUBSET [id : {Seed}, email : Emails,
                      password : Strong \cup {NoPassword}, active : BOOLEAN] :
       (\A a, b \in A : a = b) /\ accounts = A      \* at most one
  /\ flushed  = {}
  /\ answered = {}
  /\ seen     = [c \in Calls |-> NoPassword]

GoOn(c, where) == step' = [step EXCEPT ![c] = where]

\* The transaction is rolled back and the exception leaves AuthService.
Raise(c, exception) ==
  /\ GoOn(c, "ended")
  /\ raised' = [raised EXCEPT ![c] = exception]

Return(c) == Raise(c, "none")

With(email) == {a \in accounts : a.email = email}

\* Faulty variant: an account without a hash accepts any password.
Matches_EmptyHash(password, hash) == hash \in {NoPassword, password}

\* verify_password(): no hash, no entry.
Matches(password, hash) == hash # NoPassword /\ hash = password

\* hash_password() raises ValidationError on a weak password.
Hashable(password) == password \in Strong

-----------------------------------------------------------------------------
\* Who a token may be made out to.
Subjects == {a.id : a \in accounts} \cup {d \in answered : request[d].kind = "register"}

\* The schemas of the API refuse a new password that equals the current one.
Begin(c) ==
  /\ step[c] = "new"
  /\ \/ \E q \in Register \cup Own :
          request' = [request EXCEPT ![c] = q] /\ GoOn(c, "lookup")
     \/ \E q \in Login :
          request' = [request EXCEPT ![c] = q] /\ GoOn(c, "verify")
     \/ \E q \in Identify \cup Change :
          /\ q.id \in Subjects
          /\ q.kind = "change" => q.new # q.password
          /\ request' = [request EXCEPT ![c] = q]
          /\ GoOn(c, "authorize")
  /\ UNCHANGED <<raised, accounts, flushed, answered, seen>>

\* register() and get_or_create_default() look the e-mail up; then register()
\* hashes the password, which refuses a weak one.
LookUp(c) ==
  /\ step[c] = "lookup"
  /\ LET q == request[c] IN
     \/ With(q.email) # {} /\ q.kind = "register" /\ Raise(c, "ValidationError")
     \/ With(q.email) # {} /\ q.kind = "own" /\ Return(c)
     \/ /\ With(q.email) = {}
        /\ q.kind = "register" => Hashable(q.password)
        /\ GoOn(c, "insert")
        /\ UNCHANGED raised
     \/ /\ With(q.email) = {}
        /\ q.kind = "register" /\ ~Hashable(q.password)
        /\ Raise(c, "ValidationError")
  /\ UNCHANGED <<request, accounts, flushed, answered, seen>>

\* Another transaction has written the index entry or the row and may still
\* roll back: the database makes this one wait.
Locked(c) ==
  \E d \in flushed \ {c} :
    \/ request[d].kind = "change" /\ request[c].kind = "change" /\ request[d].id = request[c].id
    \/ request[d].kind # "change" /\ request[c].kind # "change" /\ request[d].email = request[c].email

\* Faulty variant: the e-mail has no unique index.
Insert_NoIndex(c) ==
  /\ step[c] = "insert"
  /\ flushed' = flushed \cup {c}
  /\ GoOn(c, "commit")
  /\ UNCHANGED <<raised, request, accounts, answered, seen>>

Insert(c) ==
  /\ step[c] = "insert"
  /\ ~Locked(c)
  /\ \/ /\ With(request[c].email) = {}
        /\ flushed' = flushed \cup {c}
        /\ GoOn(c, "commit")
        /\ UNCHANGED raised
     \/ /\ With(request[c].email) # {}
        /\ Raise(c, "IntegrityError")
        /\ UNCHANGED flushed
  /\ UNCHANGED <<request, accounts, answered, seen>>

\* login(): one read decides; an unknown e-mail and a wrong password are not
\* told apart.
Verify(c) ==
  /\ step[c] = "verify"
  /\ IF \E a \in With(request[c].email) : Matches(request[c].password, a.password) /\ a.active
     THEN Return(c) ELSE Raise(c, "AuthError")
  /\ UNCHANGED <<request, accounts, flushed, answered, seen>>

Known(c)   == \E a \in accounts : a.id = request[c].id
Subject(c) == CHOOSE a \in accounts : a.id = request[c].id

\* get_current_user() before a handler, and refresh().  A token whose account
\* is not committed, or was rolled back, names nobody.
Authorize(c) ==
  /\ step[c] = "authorize"
  /\ \/ ~Known(c) /\ Raise(c, "NotFoundError") /\ UNCHANGED seen
     \/ Known(c) /\ ~Subject(c).active /\ Raise(c, "AuthError") /\ UNCHANGED seen
     \/ /\ Known(c) /\ Subject(c).active /\ request[c].kind = "identify"
        /\ Return(c) /\ UNCHANGED seen
     \/ /\ Known(c) /\ Subject(c).active /\ request[c].kind = "change"
        /\ GoOn(c, "current") /\ UNCHANGED raised
        /\ seen' = [seen EXCEPT ![c] = Subject(c).password]
  /\ UNCHANGED <<request, accounts, flushed, answered>>

\* change_password() asks its session for the row again: it gets the object
\* that get_current_user() has loaded, or, as the identity map holds objects
\* weakly, the row as it is now.  The current password is verified against it
\* and the new one hashed.
VerifyCurrent(c) ==
  /\ step[c] = "current"
  /\ \E hash \in {seen[c], Subject(c).password} :
       LET q == request[c]  right == Matches(q.password, hash) IN
       \/ ~right /\ Raise(c, "AuthError")
       \/ right /\ ~Hashable(q.new) /\ Raise(c, "ValidationError")
       \/ right /\ Hashable(q.new) /\ GoOn(c, "update") /\ UNCHANGED raised
  /\ seen' = [seen EXCEPT ![c] = NoPassword]
  /\ UNCHANGED <<request, accounts, flushed, answered>>

\* UPDATE ... WHERE id: nothing compares the password with the one verified.
Update(c) ==
  /\ step[c] = "update"
  /\ ~Locked(c)
  /\ flushed' = flushed \cup {c}
  /\ GoOn(c, "commit")
  /\ UNCHANGED <<request, raised, accounts, answered, seen>>

\* In the session of a request the call returns first; the commit follows.
Answer(c) ==
  /\ step[c] = "commit"
  /\ answered' = answered \cup {c}
  /\ UNCHANGED <<step, request, raised, accounts, flushed, seen>>

\* The rows after call c.
Written(c) ==
  LET q == request[c]
      created == [id |-> c, email |-> q.email, active |-> TRUE,
                  password |-> IF q.kind = "own" THEN NoPassword ELSE q.password]
  IN IF q.kind = "change"
     THEN {IF a.id = q.id THEN [a EXCEPT !.password = q.new] ELSE a : a \in accounts}
     ELSE accounts \cup {created}

\* A password is changed by a route only.
Commit(c) ==
  /\ step[c] = "commit"
  /\ request[c].kind = "change" => c \in answered
  /\ accounts' = Written(c)
  /\ flushed' = flushed \ {c}
  /\ Return(c)
  /\ UNCHANGED <<request, answered, seen>>

\* Faulty variant: the rows stay although the commit has failed.
CommitRaises_KeepsRows(c) ==
  /\ step[c] = "commit"
  /\ accounts' = Written(c)
  /\ flushed' = flushed \ {c}
  /\ Raise(c, "OperationalError")
  /\ UNCHANGED <<request, answered, seen>>

\* The statement fails after all, or the commit.
CommitRaises(c) ==
  /\ step[c] = "commit"
  /\ flushed' = flushed \ {c}
  /\ Raise(c, "OperationalError")
  /\ UNCHANGED <<request, accounts, answered, seen>>

-----------------------------------------------------------------------------
AccountStep(c) ==
  \/ Begin(c)
  \/ LookUp(c)
  \/ Insert(c)
  \/ Verify(c)
  \/ Authorize(c)
  \/ VerifyCurrent(c)
  \/ Update(c)
  \/ Answer(c)
  \/ Commit(c)
  \/ CommitRaises(c)

AccountNext == \E c \in Calls : AccountStep(c)

AccountSpec == AccountInit /\ [][AccountNext]_accountVars

-----------------------------------------------------------------------------
(* Properties *)

\* Types of the variables; what is flushed is about to be committed.
AccountTypeOK ==
  /\ step \in [Calls -> Steps]
  /\ request \in [Calls -> {NoCall} \cup Register \cup Login \cup Own \cup Identify \cup Change]
  /\ raised \in [Calls -> {"none", "ValidationError", "AuthError", "NotFoundError",
                       "IntegrityError", "OperationalError"}]
  /\ accounts \subseteq Account
  /\ flushed = {c \in Calls : step[c] = "commit"}
  /\ answered \subseteq Calls
  /\ seen \in [Calls -> Strong \cup {NoPassword}]

Succeeded(c) == step[c] = "ended" /\ raised[c] = "none"

\* Two calls that both found the e-mail free do not both create an account.
OneAccountPerEmail == \A a, b \in accounts : a.email = b.email => a = b

\* What callers were told is what is stored: a registration is committed
\* exactly if its row is there, and the password in force was set by the row's
\* own registration or by a change that was committed.  Who got the result
\* before the commit is wrong only until then, or if the commit itself fails:
\* no check and no lost race may turn up after the answer.
AnswersMatchAccounts ==
  /\ \A c \in answered : step[c] = "commit" \/ Succeeded(c) \/ raised[c] = "OperationalError"
  /\ \A c \in Calls : request[c].kind = "register" =>
       (Succeeded(c) <=> \E a \in accounts : a.id = c)
  /\ \A a \in accounts : a.id # Seed =>
       \/ request[a.id].kind = "own" /\ a.password = NoPassword
       \/ request[a.id].kind = "register" /\ a.password = request[a.id].password
       \/ \E d \in Calls : /\ Succeeded(d)
                           /\ request[d].kind = "change" /\ request[d].id = a.id
                           /\ request[d].new = a.password

\* The owner created for nobody in particular has no password, and none can be
\* given to it: nobody signs in with its e-mail or registers it again, and no
\* call changes its password.
OwnerStaysLocked ==
  \A a \in accounts : a.id \in Calls /\ request[a.id].kind = "own" =>
    /\ a.password = NoPassword
    /\ \A c \in Calls : Succeeded(c) =>
         /\ ~(request[c].kind \in {"register", "login"} /\ request[c].email = a.email)
         /\ ~(request[c].kind = "change" /\ request[c].id = a.id)

\* Only a lost race turns a registration into an internal error: the e-mail
\* belongs to an account that a concurrent call has created.
CollisionMeansRace ==
  \A c \in Calls : raised[c] = "IntegrityError" =>
    \E a \in accounts : a.email = request[c].email /\ a.id \in Calls \ {c}

\* Only a token handed out before its account was committed can name nobody.
UnknownMeansEarly ==
  \A c \in Calls : raised[c] = "NotFoundError" => request[c].id \in answered

\* Whatever a caller is told follows from what is stored and who else was there.
AnswersAreExplained == AnswersMatchAccounts /\ CollisionMeansRace /\ UnknownMeansEarly
=============================================================================
