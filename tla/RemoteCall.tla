----------------------------- MODULE RemoteCall ------------------------------
(***************************************************************************)
(* What a request over Kafka promises its caller, whatever is lost, late   *)
(* or delivered twice: the service may run the request, even after the     *)
(* caller was told of a failure, but only for one of the attempts allowed, *)
(* and a caller is answered only when its latest attempt was run.          *)
(***************************************************************************)
EXTENDS Naturals

CONSTANTS Calls,
          Allowed    \* the attempts each call may make

VARIABLES state,     \* idle, pending, answered or failed
          latest,    \* the latest attempt of each call
          ran        \* the attempts the service ran

vars == <<state, latest, ran>>

Init == /\ state = [c \in Calls |-> "idle"]
        /\ latest = [c \in Calls |-> 0]
        /\ ran = [c \in Calls |-> {}]

Start(c) ==
  /\ state[c] = "idle"
  /\ state' = [state EXCEPT ![c] = IF Allowed[c] = 0 THEN "failed" ELSE "pending"]
  /\ UNCHANGED <<latest, ran>>

TryAgain(c) ==
  /\ state[c] = "pending"
  /\ latest[c] + 1 < Allowed[c]
  /\ latest' = [latest EXCEPT ![c] = @ + 1]
  /\ UNCHANGED <<state, ran>>

Run(c, n) ==
  /\ state[c] # "idle"
  /\ n <= latest[c] /\ n < Allowed[c]
  /\ ran' = [ran EXCEPT ![c] = @ \cup {n}]
  /\ UNCHANGED <<state, latest>>

Succeed(c) ==
  /\ state[c] = "pending"
  /\ latest[c] \in ran[c]
  /\ state' = [state EXCEPT ![c] = "answered"]
  /\ UNCHANGED <<latest, ran>>

\* Only a call with no attempt left gives up.
Fail(c) ==
  /\ state[c] = "pending"
  /\ latest[c] + 1 = Allowed[c]
  /\ state' = [state EXCEPT ![c] = "failed"]
  /\ UNCHANGED <<latest, ran>>

Next == \E c \in Calls : \/ Start(c) \/ TryAgain(c) \/ Succeed(c) \/ Fail(c)
                         \/ \E n \in 0..Allowed[c] : Run(c, n)

Spec == Init /\ [][Next]_vars
=============================================================================
