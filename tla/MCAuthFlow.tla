----------------------------- MODULE MCAuthFlow -----------------------------
(* An instance of AuthFlow for TLC. *)
EXTENDS AuthFlow

CONSTANTS first, second, third

MCRequests == {first, second, third}

\* Two registrations with any other request, and two requests with a session.
MCMixes ==
  {[r \in MCRequests |-> IF r = third THEN kind ELSE "register"] : kind \in Routes}
    \cup {[r \in MCRequests |-> IF r = third THEN kind ELSE "login"] : kind \in {"logout", "me"}}

\* A single registration.
MCRegister == [Requests -> {"register"}]

MCBearer == [r \in Requests |-> IF r = second THEN "bad" ELSE "valid"]

\* The registrations compete for a name, with emails of their own.
MCName == [r \in Requests |-> "n"]
MCEmail == [r \in Requests |-> IF r = second THEN "b" ELSE "a"]
=============================================================================
