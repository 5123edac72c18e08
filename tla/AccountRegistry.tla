--------------------------- MODULE AccountRegistry ---------------------------
(***************************************************************************)
(* What the user service promises about accounts, whatever happens to its *)
(* messages, its instances and its cache: an account is opened under a     *)
(* user name and an email nobody else holds, keeps its user name, changes  *)
(* its email only to a free one, and once closed is never opened again.    *)
(***************************************************************************)
CONSTANTS Ids, Usernames, Emails, NoAccount

VARIABLES accounts,  \* the open accounts
          opened     \* the ids ever given to an account

vars == <<accounts, opened>>

Account == [username: Usernames, email: Emails]

Open(id) == accounts[id] # NoAccount

TypeOK == /\ accounts \in [Ids -> Account \cup {NoAccount}]
          /\ opened \subseteq Ids

\* No two open accounts share a user name or an email (user.schema.ts:19-36).
KeysAreUnique ==
  \A a, b \in Ids :
    Open(a) /\ Open(b) /\ a # b =>
      /\ accounts[a].username # accounts[b].username
      /\ accounts[a].email # accounts[b].email

\* Every open account holds an id that was given out.
OpenedIds == \A id \in Ids : Open(id) => id \in opened

Init == TypeOK /\ KeysAreUnique /\ OpenedIds

OpenAccount(id, name, email) ==
  /\ id \notin opened
  /\ \A other \in Ids :
       Open(other) => accounts[other].username # name /\ accounts[other].email # email
  /\ accounts' = [accounts EXCEPT ![id] = [username |-> name, email |-> email]]
  /\ opened' = opened \cup {id}

ChangeEmail(id, email) ==
  /\ Open(id)
  /\ \A other \in Ids \ {id} : Open(other) => accounts[other].email # email
  /\ accounts' = [accounts EXCEPT ![id] = [username |-> accounts[id].username, email |-> email]]
  /\ UNCHANGED opened

CloseAccount(id) ==
  /\ Open(id)
  /\ accounts' = [accounts EXCEPT ![id] = NoAccount]
  /\ UNCHANGED opened

Next == \E id \in Ids :
  \/ \E name \in Usernames, email \in Emails : OpenAccount(id, name, email)
  \/ \E email \in Emails : ChangeEmail(id, email)
  \/ CloseAccount(id)

Spec == Init /\ [][Next]_vars
=============================================================================
