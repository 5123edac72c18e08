---------------------------- MODULE MCUserService ----------------------------
(* Small instances of UserService for TLC.                                 *)
EXTENDS UserService, TLC

CONSTANTS u0, u1, u2

MCIds == {u0, u1, u2}
MCUsernames == {"n0", "n1", "n2"}
MCRawEmails == {"a", "A", "b"}
MCEmails == {"a", "b"}
MCLower == [e \in MCRawEmails |-> IF e = "A" THEN "a" ELSE e]

\* One account to start with, under _id u0.
MCInitialUsers ==
  [id \in MCIds |->
     IF id = u0 THEN [username |-> "n0", email |-> "b", status |-> "pending",
                        isVerified |-> FALSE, updatedAt |-> 0]
     ELSE NoUser]

OneCache == [i \in Instances |-> CHOOSE c \in Caches : TRUE]

Create(name, email) == [op |-> "create", username |-> name, email |-> email]
Exist(name, email) == [op |-> "exists", username |-> name, email |-> email]
Update(id, email) == [op |-> "update", id |-> id, email |-> email]
On(op, id) == [op |-> op, id |-> id]
SetStatus(id, status) == [op |-> "status", id |-> id, status |-> status]
GetByEmail(key) == [op |-> "getByEmail", key |-> key]

\* Creates that compete for a name, an update that competes for their email and with a
\* verification for one document, and reads of it.
RaceRequests == {Create("n1", "a"), Update(u0, "A"), On("verify", u0), On("get", u0)}

\* Readers and writers of one account.
CacheRequests ==
  {On("get", u0), Update(u0, "A"), Update(u0, NoEmail), On("verify", u0),
   On("login", u0), SetStatus(u0, "banned"), On("delete", u0), Create("n1", "a")}

\* Every kind of read among writers, on accounts there and not there.
ReadRequests ==
  {On("get", u0), On("get", u1), GetByEmail("n0"), GetByEmail("A"),
   Exist("n1", "A"), On("login", u1), On("verify", u0), On("delete", u0),
   Update(u1, "a"), Create("n1", "a")}

GhostRequests == {On("get", u0), On("delete", u0)}

Symmetric == Permutations(Messages)
SymmetricRaces == Symmetric \cup Permutations(Instances) \cup Permutations({u1, u2})
=============================================================================
