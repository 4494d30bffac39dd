----------------------------- MODULE VersionLog -----------------------------
(***************************************************************************)
(* What the dataset registry promises: under each name a user has a log of *)
(* versions that only grows at its end, and version v is its v-th entry.   *)
(***************************************************************************)
EXTENDS Sequences

CONSTANTS Lines,       \* (user, slug) pairs, each with versions of its own
          Requests     \* registrations, each stored at most once

VARIABLE log           \* the registrations of each line, oldest first

Init == log = [l \in Lines |-> <<>>]

Register(l, r) == log' = [log EXCEPT ![l] = Append(@, r)]

Next == \E l \in Lines, r \in Requests : Register(l, r)

Spec == Init /\ [][Next]_log
=============================================================================
