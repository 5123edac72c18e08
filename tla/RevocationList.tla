--------------------------- MODULE RevocationList ---------------------------
(***************************************************************************)
(* What the token service promises of revoked tokens, however its calls,   *)
(* its processes and its cache behave: a token revoked in a store passes   *)
(* there no sooner than its revocation ends, revoking it again never       *)
(* brings that end forward, and no other token is stopped. The promise is  *)
(* off while the list gives no answer, and a restart may lose it.          *)
(***************************************************************************)
EXTENDS Naturals

CONSTANTS Stores, Tokens, Calls,
          Expiry,       \* the moment each token expires, or Never
          NotRevoked, Never

VARIABLES clock,
          answering,    \* the list answers look-ups
          until,        \* per store and token, the end of its revocation
          asks,         \* the store and token of each call
          restarts,     \* how often a process restarted
          passed,       \* the calls let pass, and not over yet
          stopped       \* the calls told that their token is revoked

vars == <<clock, answering, until, asks, restarts, passed, stopped>>

Init ==
  /\ clock = 0 /\ answering = TRUE
  /\ until = [s \in Stores |-> [t \in Tokens |-> NotRevoked]]
  /\ asks \in [Calls -> [store : Stores, token : Tokens]]
  /\ restarts = 0 /\ passed = {} /\ stopped = {}

\* An end of a revocation is no sooner than another.
NoSooner(end, other) ==
  other # NotRevoked => end = Never \/ (other # Never /\ other <= end)

\* A revocation ends with its token at the latest, or never.
Revoke(s, t) ==
  /\ answering
  /\ until'[s][t] # NotRevoked
  /\ NoSooner(until'[s][t], until[s][t])
  /\ until'[s][t] # Never =>
       /\ clock <= until'[s][t]
       /\ Expiry[t] # Never => until'[s][t] <= Expiry[t]
  /\ until' = [until EXCEPT ![s][t] = until'[s][t]]
  /\ UNCHANGED <<clock, answering, asks, restarts, passed, stopped>>

Revoked(s, t) ==
  /\ answering
  /\ until[s][t] # NotRevoked
  /\ until[s][t] # Never => clock <= until[s][t]

Pass(c) ==
  /\ c \notin passed /\ ~Revoked(asks[c].store, asks[c].token)
  /\ passed' = passed \cup {c}
  /\ UNCHANGED <<clock, answering, until, asks, restarts, stopped>>

Stop(c) ==
  /\ c \notin passed /\ Revoked(asks[c].store, asks[c].token)
  /\ stopped' = stopped \cup {c}
  /\ UNCHANGED <<clock, answering, until, asks, restarts, passed>>

\* Calls come to their end.
Leave ==
  /\ passed' \subseteq passed
  /\ UNCHANGED <<clock, answering, until, asks, restarts, stopped>>

\* A process restarts: its calls are lost, and so may be a store.
Restart(s) ==
  /\ restarts' = restarts + 1
  /\ until' \in {until, [until EXCEPT ![s] = [t \in Tokens |-> NotRevoked]]}
  /\ passed' \subseteq passed
  /\ UNCHANGED <<clock, answering, asks, stopped>>

Turn ==
  /\ answering' = ~answering
  /\ UNCHANGED <<clock, until, asks, restarts, passed, stopped>>

Tick ==
  /\ clock' = clock + 1
  /\ UNCHANGED <<answering, until, asks, restarts, passed, stopped>>

Next ==
  \/ \E s \in Stores : Restart(s) \/ \E t \in Tokens : Revoke(s, t)
  \/ \E c \in Calls : Pass(c) \/ Stop(c)
  \/ Leave \/ Turn \/ Tick

Spec == Init /\ [][Next]_vars
=============================================================================
