----------------------------- MODULE UserService -----------------------------
(***************************************************************************)
(* The user service (apps/user-service): instances of one Kafka consumer   *)
(* group that serve requests against the users collection and a cache.     *)
(* One action is what a handler does up to its next await. A message is    *)
(* delivered at least once: a crash or a rebalance before its offset is    *)
(* committed delivers it again.                                            *)
(***************************************************************************)
EXTENDS Naturals, FiniteSets

CONSTANTS
  Instances,      \* running copies of the service
  Caches,         \* cache stores
  CacheOf,        \* the store each instance uses
  LocalCache,     \* TRUE: memory stores; FALSE: Redis stores
  CacheMayFail,   \* may a call to the store fail
  DbMayFail,      \* may a call to MongoDB fail
  Messages,       \* Kafka messages the clients may produce
  Requests,       \* the requests a message may carry
  Ids, Usernames, RawEmails, Emails,
  Lower,          \* toLowerCase on email addresses
  InitialUsers,   \* the users collection when the service starts
  MaxFaults,      \* bound: crashes and rebalances in one behaviour
  NoUser, NoEntry, NoMessage, NoRequest, NoEmail

Statuses == {"pending", "active", "inactive", "banned"}

User == [username: Usernames, email: Emails, status: Statuses,
         isVerified: BOOLEAN, updatedAt: Nat]

Request ==
  [op: {"create"}, username: Usernames, email: RawEmails]
    \cup [op: {"exists"}, username: Usernames, email: RawEmails]
    \cup [op: {"get", "delete", "verify", "login"}, id: Ids]
    \cup [op: {"getByEmail"}, key: RawEmails \cup Usernames]
    \cup [op: {"update"}, id: Ids, email: RawEmails \cup {NoEmail}]
    \cup [op: {"status"}, id: Ids, status: Statuses]

Stored(col, id) == col[id] # NoUser

HaveUniqueKeys(col) ==
  \A a, b \in Ids :
    Stored(col, a) /\ Stored(col, b) /\ a # b =>
      col[a].username # col[b].username /\ col[a].email # col[b].email

ASSUME ConstantsAssumption ==
  /\ CacheOf \in [Instances -> Caches]
  /\ LocalCache \in BOOLEAN /\ CacheMayFail \in BOOLEAN /\ DbMayFail \in BOOLEAN
  /\ MaxFaults \in Nat
  /\ Requests \subseteq Request
  /\ NoUser \notin User \cup [username: Usernames, email: Emails]
  /\ NoEntry \notin [user: User, ttl: Nat]
  /\ NoMessage \notin Messages
  /\ NoRequest \notin Request
  /\ NoEmail \notin RawEmails

\* A memory store lives in the process of one instance.
ASSUME LocalCacheAssumption ==
  LocalCache => \A i, j \in Instances : CacheOf[i] = CacheOf[j] => i = j

ASSUME EmailAssumption ==
  /\ Emails \subseteq RawEmails
  /\ Lower \in [RawEmails -> Emails]
  /\ \A e \in Emails : Lower[e] = e

ASSUME InitialUsersAssumption ==
  /\ InitialUsers \in [Ids -> User \cup {NoUser}]
  /\ HaveUniqueKeys(InitialUsers)

VARIABLES
  users,        \* the users collection, by _id
  usedIds,      \* the _ids MongoDB has seen (an ObjectId is never reused)
  versions,     \* history: per _id, every document it has held
  cache,        \* per store, the entry under user:id:<id>
  body,         \* the request each message carries, once produced
  queue,        \* messages waiting to be consumed
  uncommitted,  \* per instance, messages taken whose offset is not committed
  pc, msg,      \* per instance, its next step and the message it handles
  outcome,      \* per instance, what the handler will return
  keys,         \* per instance, what client.keys found
  answers,      \* the kinds of answer sent for each message
  faults        \* crashes and rebalances so far

vars == <<users, usedIds, versions, cache, body, queue, uncommitted, pc, msg, outcome,
          keys, answers, faults>>

collection == <<users, usedIds, versions>>
log == <<body, queue, uncommitted>>
local == <<pc, msg, outcome, keys>>

CacheEntry == [user: User, ttl: Nat]
Kinds == {"ok", "null", "true", "false", "conflict", "notFound", "error"}
Outcome == [kind: Kinds, user: User \cup {NoUser}]
Steps == {"idle", "checkExists", "save", "clearAll", "delKeys", "lookup", "find",
          "fill", "findByKey", "load", "checkEmail", "write", "remove", "clear",
          "answer"}

TypeOK ==
  /\ users \in [Ids -> User \cup {NoUser}]
  /\ usedIds \subseteq Ids
  /\ versions \in [Ids -> SUBSET User]
  /\ cache \in [Caches -> [Ids -> CacheEntry \cup {NoEntry}]]
  /\ body \in [Messages -> Request \cup {NoRequest}]
  /\ queue \subseteq Messages
  /\ uncommitted \in [Instances -> SUBSET Messages]
  /\ pc \in [Instances -> Steps]
  /\ msg \in [Instances -> Messages \cup {NoMessage}]
  /\ outcome \in [Instances -> Outcome]
  /\ keys \in [Instances -> SUBSET Ids]
  /\ answers \in [Messages -> SUBSET Kinds]
  /\ faults \in 0..MaxFaults

Nothing == [kind |-> "null", user |-> NoUser]
EmptyCache == [id \in Ids |-> NoEntry]

Init ==
  /\ users = InitialUsers
  /\ usedIds = {id \in Ids : Stored(InitialUsers, id)}
  /\ versions = [id \in Ids |-> IF Stored(InitialUsers, id) THEN {InitialUsers[id]} ELSE {}]
  /\ cache = [c \in Caches |-> EmptyCache]
  /\ body = [m \in Messages |-> NoRequest]
  /\ queue = {}
  /\ uncommitted = [i \in Instances |-> {}]
  /\ pc = [i \in Instances |-> "idle"]
  /\ msg = [i \in Instances |-> NoMessage]
  /\ outcome = [i \in Instances |-> Nothing]
  /\ keys = [i \in Instances |-> {}]
  /\ answers = [m \in Messages |-> {}]
  /\ faults = 0

-----------------------------------------------------------------------------
(* Helpers.                                                                *)

RequestOf(i) == body[msg[i]]

\* The next await of instance i, with what it has to return so far.
Goto(i, step, kind, user) ==
  /\ pc' = [pc EXCEPT ![i] = step]
  /\ outcome' = [outcome EXCEPT ![i] = [kind |-> kind, user |-> user]]
  /\ UNCHANGED <<msg, keys>>

Return(i, kind, user) == Goto(i, "answer", kind, user)

At(i, step) == /\ pc[i] = step
               /\ UNCHANGED <<log, answers, faults>>

\* Mutant: only user names are indexed.
DuplicateName(id, u) ==
  \E other \in Ids \ {id} : Stored(users, other) /\ users[other].username = u.username

\* The unique indexes of the collection: would the document u clash with
\* another than id?
Duplicate(id, u) ==
  \E other \in Ids \ {id} :
    /\ Stored(users, other)
    /\ users[other].username = u.username \/ users[other].email = u.email

\* Is there an account with this email, in lower case, or with this user name?
Exists(email, username) ==
  \E id \in Ids :
    Stored(users, id) /\ (users[id].email = Lower[email] \/ users[id].username = username)

\* The accounts a user name or an email, told apart by the @, can find.
Matching(key) ==
  {id \in Ids : Stored(users, id) /\ IF key \in RawEmails THEN users[id].email = Lower[key]
                                                       ELSE users[id].username = key}

\* A call to the cache store that fails leaves it alone; CacheService only logs.
StoreCall(c, entries) ==
  \/ cache' = [cache EXCEPT ![c] = entries]
  \/ CacheMayFail /\ UNCHANGED cache

\* An update of a document. Its reply may be lost, and the handler then throws.
Replace(i, id, u) ==
  /\ users' = [users EXCEPT ![id] = u]
  /\ versions' = [versions EXCEPT ![id] = @ \cup {u}]
  /\ UNCHANGED <<usedIds, cache>>
  /\ Goto(i, "clear", "ok", u) \/ (DbMayFail /\ Return(i, "error", NoUser))

-----------------------------------------------------------------------------
(* Kafka.                                                                  *)

Produce(m) ==
  /\ body[m] = NoRequest
  /\ \E r \in Requests : body' = [body EXCEPT ![m] = r]
  /\ queue' = queue \cup {m}
  /\ UNCHANGED <<collection, cache, uncommitted, local, answers, faults>>

\* The first step of the handler the controller calls for a request.
EntryPoint(r) ==
  CASE r.op \in {"create", "exists"} -> "checkExists"
    [] r.op = "get" -> "lookup"
    [] r.op = "getByEmail" -> "findByKey"
    [] r.op = "delete" -> "remove"
    [] r.op = "update" -> IF r.email = NoEmail THEN "write" ELSE "load"
    [] OTHER -> "write"

Take(i, m) ==
  /\ pc[i] = "idle"
  /\ m \in queue
  /\ queue' = queue \ {m}
  /\ uncommitted' = [uncommitted EXCEPT ![i] = @ \cup {m}]
  /\ msg' = [msg EXCEPT ![i] = m]
  /\ pc' = [pc EXCEPT ![i] = EntryPoint(body[m])]
  /\ outcome' = [outcome EXCEPT ![i] = Nothing]
  /\ UNCHANGED <<collection, cache, body, keys, answers, faults>>

Answer(i) ==
  /\ pc[i] = "answer"
  /\ answers' = [answers EXCEPT ![msg[i]] = @ \cup {outcome[i].kind}]
  /\ pc' = [pc EXCEPT ![i] = "idle"]
  /\ msg' = [msg EXCEPT ![i] = NoMessage]
  /\ outcome' = [outcome EXCEPT ![i] = Nothing]
  /\ UNCHANGED <<collection, cache, log, keys, faults>>

\* Mutant: the offset of the message in hand is committed too.
CommitEarly(i) ==
  /\ uncommitted[i] # {}
  /\ uncommitted' = [uncommitted EXCEPT ![i] = {}]
  /\ UNCHANGED <<collection, cache, body, queue, local, answers, faults>>

\* The consumer commits the offsets of what it has handled.
Commit(i) ==
  /\ uncommitted[i] \ {msg[i]} # {}
  /\ uncommitted' = [uncommitted EXCEPT ![i] = @ \cap {msg[i]}]
  /\ UNCHANGED <<collection, cache, body, queue, local, answers, faults>>

\* The group gives the partitions of an instance away while it goes on: what it
\* has not committed is delivered again.
Rebalance(i) ==
  /\ faults < MaxFaults
  /\ uncommitted[i] # {}
  /\ queue' = queue \cup uncommitted[i]
  /\ uncommitted' = [uncommitted EXCEPT ![i] = {}]
  /\ faults' = faults + 1
  /\ UNCHANGED <<collection, cache, body, local, answers>>

\* The process dies and restarts; a memory store dies with it.
Crash(i) ==
  /\ faults < MaxFaults
  /\ queue' = queue \cup uncommitted[i]
  /\ uncommitted' = [uncommitted EXCEPT ![i] = {}]
  /\ cache' = IF LocalCache THEN [cache EXCEPT ![CacheOf[i]] = EmptyCache] ELSE cache
  /\ pc' = [pc EXCEPT ![i] = "idle"]
  /\ msg' = [msg EXCEPT ![i] = NoMessage]
  /\ outcome' = [outcome EXCEPT ![i] = Nothing]
  /\ keys' = [keys EXCEPT ![i] = {}]
  /\ faults' = faults + 1
  /\ UNCHANGED <<collection, body, answers>>

-----------------------------------------------------------------------------
(* The cache drops an entry whose time to live has passed, or for room.    *)

Expire(c, id) ==
  /\ cache[c][id] # NoEntry
  /\ cache[c][id].ttl > 0
  /\ cache' = [cache EXCEPT ![c][id] = NoEntry]
  /\ UNCHANGED <<collection, log, local, answers, faults>>

-----------------------------------------------------------------------------
(* createUser and checkUserExists.                                         *)

CheckUserExists(i) ==
  /\ At(i, "checkExists")
  /\ LET exists == Exists(RequestOf(i).email, RequestOf(i).username) IN
       \/ /\ RequestOf(i).op = "exists"
          /\ Return(i, IF exists THEN "true" ELSE "false", NoUser)
       \/ /\ RequestOf(i).op = "create"
          /\ IF exists THEN Return(i, "conflict", NoUser) ELSE Goto(i, "save", "null", NoUser)
  /\ UNCHANGED <<collection, cache>>

NewUser(r) == [username |-> r.username, email |-> Lower[r.email], status |-> "pending",
               isVerified |-> FALSE, updatedAt |-> 0]

Save(i) ==
  /\ At(i, "save")
  /\ \E id \in Ids \ usedIds :
       LET u == NewUser(RequestOf(i)) IN
         /\ ~Duplicate(id, u)
         /\ users' = [users EXCEPT ![id] = u]
         /\ usedIds' = usedIds \cup {id}
         /\ versions' = [versions EXCEPT ![id] = @ \cup {u}]
         /\ Goto(i, "clearAll", "ok", u) \/ (DbMayFail /\ Return(i, "error", NoUser))
  /\ UNCHANGED cache

\* Mutant: a refused document is taken for a saved one.
SaveSwallowed(i) ==
  /\ At(i, "save")
  /\ \E id \in Ids \ usedIds : Duplicate(id, NewUser(RequestOf(i)))
  /\ Return(i, "ok", NewUser(RequestOf(i)))
  /\ UNCHANGED <<collection, cache>>

\* The unique index refuses the document: another save came first.
SaveDuplicate(i) ==
  /\ At(i, "save")
  /\ \E id \in Ids \ usedIds : Duplicate(id, NewUser(RequestOf(i)))
  /\ Return(i, "error", NoUser)
  /\ UNCHANGED <<collection, cache>>

\* deleteByPattern("user:*"): a Redis client lists the keys and then deletes
\* them; a memory store has no client and keeps its entries.
ClearAll(i) ==
  /\ At(i, "clearAll")
  /\ \/ /\ ~LocalCache
        /\ keys' = [keys EXCEPT ![i] = {id \in Ids : cache[CacheOf[i]][id] # NoEntry}]
        /\ pc' = [pc EXCEPT ![i] = IF keys'[i] = {} THEN "answer" ELSE "delKeys"]
        /\ UNCHANGED <<msg, outcome>>
     \/ /\ LocalCache \/ CacheMayFail
        /\ Return(i, outcome[i].kind, outcome[i].user)
  /\ UNCHANGED <<collection, cache>>

DelKeys(i) ==
  /\ At(i, "delKeys")
  /\ StoreCall(CacheOf[i], [id \in Ids |-> IF id \in keys[i] THEN NoEntry ELSE cache[CacheOf[i]][id]])
  /\ keys' = [keys EXCEPT ![i] = {}]
  /\ pc' = [pc EXCEPT ![i] = "answer"]
  /\ UNCHANGED <<collection, msg, outcome>>

-----------------------------------------------------------------------------
(* findUserById and findUserByUsernameOrEmail.                             *)

Lookup(i) ==
  /\ At(i, "lookup")
  /\ LET entry == cache[CacheOf[i]][RequestOf(i).id] IN
       \/ entry # NoEntry /\ Return(i, "ok", entry.user)
       \/ (entry = NoEntry \/ CacheMayFail) /\ Goto(i, "find", "null", NoUser)
  /\ UNCHANGED <<collection, cache>>

Find(i) ==
  /\ At(i, "find")
  /\ LET found == users[RequestOf(i).id] IN
       IF found = NoUser THEN Return(i, "null", NoUser) ELSE Goto(i, "fill", "ok", found)
  /\ UNCHANGED <<collection, cache>>

CacheTtl == 3600

Fill(i) ==
  /\ At(i, "fill")
  /\ StoreCall(CacheOf[i], [cache[CacheOf[i]] EXCEPT
                 ![RequestOf(i).id] = [user |-> outcome[i].user, ttl |-> CacheTtl]])
  /\ Return(i, outcome[i].kind, outcome[i].user)
  /\ UNCHANGED collection

FindByKey(i) ==
  /\ At(i, "findByKey")
  /\ LET found == Matching(RequestOf(i).key) IN
       \/ found = {} /\ Return(i, "null", NoUser)
       \/ \E id \in found : Return(i, "ok", users[id])
  /\ UNCHANGED <<collection, cache>>

-----------------------------------------------------------------------------
(* updateUser, updateUserStatus, verifyUser, updateLastLogin, deleteUser.  *)

Load(i) ==
  /\ At(i, "load")
  /\ LET user == users[RequestOf(i).id] IN
       \/ user = NoUser /\ Return(i, "notFound", NoUser)
       \/ /\ user # NoUser
          /\ Goto(i, IF RequestOf(i).email # user.email THEN "checkEmail" ELSE "write", "null", user)
  /\ UNCHANGED <<collection, cache>>

\* Mutant: the cache is given the new user before the database is.
CheckEmailCaches(i) ==
  /\ At(i, "checkEmail")
  /\ LET user == outcome[i].user
         new == [user EXCEPT !.email = Lower[RequestOf(i).email], !.updatedAt = @ + 1]
     IN cache' = [cache EXCEPT ![CacheOf[i]][RequestOf(i).id] = [user |-> new, ttl |-> CacheTtl]]
  /\ Goto(i, "write", "null", outcome[i].user)
  /\ UNCHANGED collection

CheckEmail(i) ==
  /\ At(i, "checkEmail")
  /\ IF \E other \in Ids \ {RequestOf(i).id} :
          Stored(users, other) /\ users[other].email = Lower[RequestOf(i).email]
     THEN Return(i, "conflict", NoUser)
     ELSE Goto(i, "write", "null", outcome[i].user)
  /\ UNCHANGED <<collection, cache>>

\* What the $set of a request makes of a document.
Changed(r, u) ==
  CASE r.op = "update" /\ r.email # NoEmail -> [u EXCEPT !.email = Lower[r.email]]
    [] r.op = "status" -> [u EXCEPT !.status = r.status]
    [] r.op = "verify" -> [u EXCEPT !.isVerified = TRUE, !.status = "active"]
    [] OTHER -> u

\* Mutant: the email is stored as the client wrote it.
UpdatedRaw(r, u) ==
  [Changed(r, u) EXCEPT !.updatedAt = u.updatedAt + 1,
                        !.email = IF r.op = "update" /\ r.email # NoEmail THEN r.email ELSE @]

Updated(r, u) == [Changed(r, u) EXCEPT !.updatedAt = u.updatedAt + 1]

\* Mutant: an update saves the document it loaded, not only the fields it sets.
WriteBack(i) ==
  /\ At(i, "write")
  /\ LET id == RequestOf(i).id
         loaded == IF outcome[i].user = NoUser THEN users[id] ELSE outcome[i].user
         u == Updated(RequestOf(i), loaded)
     IN /\ Stored(users, id)
        /\ ~Duplicate(id, u)
        /\ Replace(i, id, u)

Write(i) ==
  /\ At(i, "write")
  /\ LET id == RequestOf(i).id
         u == Updated(RequestOf(i), users[id])
     IN /\ Stored(users, id)
        /\ ~Duplicate(id, u)
        /\ Replace(i, id, u)

WriteDuplicate(i) ==
  /\ At(i, "write")
  /\ LET id == RequestOf(i).id IN
       Stored(users, id) /\ Duplicate(id, Updated(RequestOf(i), users[id]))
  /\ Return(i, "error", NoUser)
  /\ UNCHANGED <<collection, cache>>

\* No such document: null, except that updateLastLogin does not look.
WriteMissing(i) ==
  /\ At(i, "write")
  /\ ~Stored(users, RequestOf(i).id)
  /\ Goto(i, IF RequestOf(i).op = "login" THEN "clear" ELSE "answer", "null", NoUser)
  /\ UNCHANGED <<collection, cache>>

Remove(i) ==
  /\ At(i, "remove")
  /\ LET id == RequestOf(i).id IN
       \/ /\ Stored(users, id)
          /\ users' = [users EXCEPT ![id] = NoUser]
          /\ \/ Goto(i, "clear", "ok", users[id])
             \/ DbMayFail /\ Return(i, "error", NoUser)
       \/ /\ ~Stored(users, id)
          /\ UNCHANGED users
          /\ Return(i, "null", NoUser)
  /\ UNCHANGED <<usedIds, versions, cache>>

\* Mutant: the key deleted is not the key that was set.
ClearOtherKey(i) ==
  /\ At(i, "clear")
  /\ Return(i, outcome[i].kind, outcome[i].user)
  /\ UNCHANGED <<collection, cache>>

Clear(i) ==
  /\ At(i, "clear")
  /\ StoreCall(CacheOf[i], [cache[CacheOf[i]] EXCEPT ![RequestOf(i).id] = NoEntry])
  /\ Return(i, outcome[i].kind, outcome[i].user)
  /\ UNCHANGED collection

-----------------------------------------------------------------------------

DbSteps == {"checkExists", "save", "find", "findByKey", "load", "checkEmail", "write", "remove"}

\* A query that fails before it has any effect; every handler rethrows.
DbError(i) ==
  /\ DbMayFail
  /\ pc[i] \in DbSteps
  /\ Return(i, "error", NoUser)
  /\ UNCHANGED <<collection, cache, log, answers, faults>>

Handle(i) ==
  \/ CheckUserExists(i) \/ Save(i) \/ SaveDuplicate(i) \/ ClearAll(i) \/ DelKeys(i)
  \/ Lookup(i) \/ Find(i) \/ Fill(i) \/ FindByKey(i)
  \/ Load(i) \/ CheckEmail(i) \/ Write(i) \/ WriteDuplicate(i) \/ WriteMissing(i)
  \/ Remove(i) \/ Clear(i)
  \/ DbError(i) \/ Answer(i)

\* Everything produced is served.
Quiet == /\ \A m \in Messages : body[m] # NoRequest
         /\ queue = {}
         /\ \A i \in Instances : pc[i] = "idle" /\ uncommitted[i] = {}

Rest == Quiet /\ UNCHANGED vars

Next ==
  \/ \E m \in Messages : Produce(m)
  \/ \E i \in Instances : \/ \E m \in Messages : Take(i, m)
                          \/ Handle(i) \/ Commit(i) \/ Rebalance(i) \/ Crash(i)
  \/ \E c \in Caches, id \in Ids : Expire(c, id)
  \/ Rest

Spec == Init /\ [][Next]_vars

-----------------------------------------------------------------------------
(* Properties.                                                             *)

\* No two accounts share a user name or an email, although each create checks
\* for them before it saves and an update before it writes (user.service.ts:41-51
\* and 284-300): only the unique indexes on lower-case emails decide.
UniqueAccounts == HaveUniqueKeys(users)

DeleteRequested == \E m \in Messages : body[m] # NoRequest /\ body[m].op = "delete"

\* A client whose create was acknowledged has its account, even when the message
\* was delivered twice or a second create raced it (createUser, 33-61): an account
\* of that user name exists until somebody asks for a deletion.
AcknowledgedAccount ==
  \A m \in Messages :
    body[m] # NoRequest /\ body[m].op = "create" /\ "ok" \in answers[m] =>
      \/ \E id \in Ids : Stored(users, id) /\ users[id].username = body[m].username
      \/ DeleteRequested

\* Of two creates that ask for one user name at most one is acknowledged, unless a
\* deletion frees the name (createUser, 33-61, run by two instances at once).
OneWinner ==
  \A m, n \in Messages :
    /\ m # n
    /\ body[m] # NoRequest /\ body[m].op = "create" /\ "ok" \in answers[m]
    /\ body[n] # NoRequest /\ body[n].op = "create" /\ "ok" \in answers[n]
    /\ body[m].username = body[n].username
    => DeleteRequested

\* What findUserById is about to answer is what the collection holds, not what a
\* cache entry held before the last change (findUserById, 66-96, against the
\* clearUserCache of every writer). Promised for a single instance with a memory
\* store whose calls do not fail.
ReadsAreCurrent ==
  \A i \in Instances :
    pc[i] = "answer" /\ RequestOf(i).op = "get" => outcome[i].user = users[RequestOf(i).id]

\* With any number of instances, stores that fail and crashes a read may be late, but
\* what it answers is a document its account has held: never the half of a change, a
\* change that was refused or not made yet, or the document of another account
\* (findUserById, 66-96, which stores what it read an await ago).
ReadsArePast ==
  \A i \in Instances :
    pc[i] = "answer" /\ RequestOf(i).op = "get" /\ outcome[i].kind = "ok"
      => outcome[i].user \in versions[RequestOf(i).id]

\* An account whose verification was acknowledged is verified for as long as it is
\* there, although updates that read it before the verification write after it
\* (updateUser, 267-315, against verifyUser, 401-430).
VerificationHolds ==
  \A m \in Messages :
    body[m] # NoRequest /\ body[m].op = "verify" /\ "ok" \in answers[m]
      /\ Stored(users, body[m].id) => users[body[m].id].isVerified

\* A request without an answer is not lost: it waits to be delivered, or is in the hands
\* of an instance whose death would deliver it again (controllers 23-123: a message is
\* committed after its handler only).
NothingIsLost ==
  \A m \in Messages :
    body[m] # NoRequest /\ answers[m] = {} =>
      m \in queue \/ \E i \in Instances : pc[i] # "idle" /\ msg[i] = m /\ m \in uncommitted[i]

\* All that was produced so far is handled.
Settled == queue = {} /\ \A i \in Instances : pc[i] = "idle"

FailedFor(id) ==
  \E m \in Messages : "error" \in answers[m] /\ "id" \in DOMAIN body[m] /\ body[m].id = id

\* Once a single instance has worked off its messages, those a crash delivered
\* again included, no account has an outdated cache entry (clearUserCache after
\* the writes of 299, 377, 405, 439), unless a client was told its change failed.
SettledCoherent ==
  Settled => \A c \in Caches, id \in Ids :
    cache[c][id] # NoEntry /\ Stored(users, id) /\ ~FailedFor(id)
      => cache[c][id].user = users[id]

\* "Xoa cache" (user.service.ts:330): an account whose deletion was acknowledged, by the
\* account or by null, is in no cache once all is handled. Already a deletion that is
\* sent again because its answer was lost breaks it: the second one finds no document
\* and returns before the clear that the first one did not reach.
DeletedNotCached ==
  Settled => \A m \in Messages, c \in Caches :
    body[m] # NoRequest /\ body[m].op = "delete" /\ answers[m] \cap {"ok", "null"} # {}
      /\ ~Stored(users, body[m].id) => cache[c][body[m].id] = NoEntry

\* The accounts as the registry sees them.
AccountOf(id) ==
  IF Stored(users, id) THEN [username |-> users[id].username, email |-> users[id].email]
                       ELSE NoUser

Accounts == [id \in Ids |-> AccountOf(id)]

Registry == INSTANCE AccountRegistry
              WITH accounts <- Accounts, opened <- usedIds, NoAccount <- NoUser

\* Seen from its accounts the service, with its races, lost replies and repeated
\* deliveries, is the registry: one step opens, closes or moves one account.
ImplementsRegistry == Registry!Spec

\* Deliveries reach an instance, and an await that ended lets its handler go on.
Fairness == \A i \in Instances : WF_vars(\E m \in Messages : Take(i, m)) /\ WF_vars(Handle(i))

FairSpec == Spec /\ Fairness

\* Every request gets an answer of some kind, through crashes and redelivery: no
\* handler waits for ever and none throws its request away (controllers 23-123).
EveryRequestAnswered ==
  \A m \in Messages : body[m] # NoRequest ~> answers[m] # {}
=============================================================================
