--------------------------- MODULE MCTokenService ---------------------------
(* Instances of TokenService for TLC. *)
EXTENDS TokenService

CONSTANTS access, refresh, timeless, garbage, d1, d2, d3, u1, u2

MCTokens == {access, refresh, timeless, garbage}
MCType == [t \in MCTokens |-> CASE t = access -> "access" [] t = refresh -> "refresh"
                                [] t = timeless -> "access" [] t = garbage -> "garbage"]
MCExp == [t \in MCTokens |-> IF t = timeless THEN NoExp ELSE IF t = refresh THEN 3 ELSE 2]

\* d1 and d2 are left from earlier sessions of u1; d3 is an id that is free.
MCDocs == {d1, d2, d3}
MCStored == {d1, d2}
MCDocToken == [d \in MCDocs |-> refresh]
MCDocUser == [d \in MCDocs |-> u1]
MCDocExpiry == [d \in MCDocs |-> IF d = d1 THEN 5 ELSE 1]

Ask(kind, t) == [kind |-> kind, token |-> t, user |-> u1]

AllRequests ==
  {Ask("access", access), Ask("access", timeless), Ask("rotate", refresh),
   Ask("revoke", access), Ask("revoke", refresh), Ask("revoke", timeless),
   Ask("revoke", garbage), Ask("revokeAll", refresh), Ask("issue", refresh),
   Ask("cleanup", refresh)}

\* Use and revocation of one token.
OneToken == {Ask("access", access), Ask("revoke", access)}
=============================================================================
