# hari-backend: verification project

TLA+ models of the backend's services, the TLC runs that check them on small
instances, and theorems proved by TLAPS for every value of the constants.
All paths below are relative to the repository (`apps/...`, `libs/...`).

## 1. Inventory

| Component | State it keeps | Operations | Hard behaviour | What makes it correct | Module |
|---|---|---|---|---|---|
| User service (`apps/user-service`) | `users` collection in MongoDB, cache entries `user:id:<id>` | create, exists, get, getByEmail, update, delete, verify, last login, find all | several instances of one consumer group, check-then-write, crash between write and cache clear, repeated delivery | unique accounts, truthful answers, cache coherent with the collection, every request answered | `UserService`, `AccountRegistry` |
| Cache service (`libs/cache`) | a Redis or memory store | set, get, delete, deleteByPattern | calls fail and are only logged; pattern deletion only for Redis; times to live in the store's unit | entries are current or go | in `UserService` and `TokenService` |
| Token service (`apps/auth-service`) | `refresh_tokens` collection, blacklist in the cache | issue, verify, exchange, revoke, revoke all, cleanup | two calls on one token, a cache that is down, restarts, clocks | a revocation holds, a refusal is honest, a logout is complete | `TokenService`, `RevocationList` |
| Auth service (`apps/auth-service`) | none of its own | register, login, refresh, logout, validate: sagas over Kafka and the token service | partial failure between two services, repeated delivery | a registration that opened an account gives its owner a session; errors are told apart from outages | `AuthFlow` |
| API gateway (`apps/api-gateway`) | none | forwards HTTP to Kafka, validates tokens, health check | timeouts, late replies, services that do not exist, error mapping | every request is answered | `AuthFlow`, role lists in `AccessControl` |
| Kafka client (`libs/kafka`) | `isConnected`, pending requests | connect, send with timeout and retries | late replies, retried requests, reconnect | one answer per call, bounded attempts | `KafkaClient`, `RemoteCall` |
| Access control (`libs/rbac`) | grants | can, setGrants, grant, revoke, guards | chains of roles, a revocation that throws halfway | decisions follow the grants | `AccessControl` |
| MongoDB access (`libs/database`) | the collection, sessions | withTransaction, base repository | a callback that throws, pages among writes | all or nothing, pages that fit, sessions that end | `MongoAccess` |
| Common (`libs/common`) | none | filters, interceptors, exceptions | which layer sees an error | a status that fits | in `AuthFlow` and `MongoAccess` |
| AI (`libs/ai`), product and AI services | none | HTTP client; build files only | - | - | not modelled |

The services talk through Kafka request/reply: a client produces a request on
the topic of a pattern and waits for a reply on `<topic>.reply`; the services of
one group share the partitions. MongoDB and the cache are shared between the
instances of a service. Nothing else is shared.

How the modules hang together: `AccountRegistry` is the abstract specification of
the accounts, implemented by `UserService`. `AuthFlow` composes the gateway, the auth
service and the two steps of the user service a registration needs. `RemoteCall` is the
abstract specification of one request over Kafka, implemented by `KafkaClient`;
`AuthFlow` uses a remote call as what it promises: an answer, an error or a timeout,
while the request may still be run. `TokenService` is what `AuthFlow` abstracts to a
single step; `RevocationList` is the abstract specification of its blacklist.
`MongoAccess` and `AccessControl` stand alone, as the libraries do.

`PROJECT.json` lists every hazard found in the survey at its line, with the
properties that would catch it going wrong.

## 2. What is modelled

### UserService

`UserService.tla` models the user service: `Instances` of one consumer group
serving `Messages` against the `users` collection and a cache.

*Execution.* A handler is a sequence of awaits. One action is what the handler
does from the answer of one await to the next, so that other instances, the
cache's expiry and crashes interleave exactly where the event loop lets them.
Nest's Kafka server awaits the handler of a message before it takes the next
one, so an instance handles one message at a time and concurrency comes from
having several instances.

| State | Code |
|---|---|
| `users`, `usedIds` | the collection by `_id`, and the ObjectIds given out (never reused) |
| `versions` | history: per `_id`, every document the collection has held |
| `cache[store][id]` | the entry under `cache:user:id:<id>` with its time to live |
| `body`, `queue`, `uncommitted` | requests produced, messages to be delivered, messages an instance took and whose offset is not committed |
| `pc`, `msg`, `outcome`, `keys` | what an instance awaits, the message in hand, what it will answer, what `client.keys` returned |
| `answers` | the kinds of answer clients got for each message |

| Actions | Code |
|---|---|
| `Produce`, `Take`, `Answer`, `Commit` | request produced, delivered, answered, offset committed |
| `Rebalance`, `Crash` | partitions given away while a handler is running; the process restarts. Both deliver again what is not committed (bounded by `MaxFaults`) |
| `CheckUserExists`, `Save`, `SaveDuplicate`, `ClearAll`, `DelKeys` | `createUser`, `checkUserExists`, `deleteByPattern` |
| `Lookup`, `Find`, `Fill`, `FindByKey` | `findUserById`, `findUserByUsernameOrEmail` |
| `Load`, `CheckEmail`, `Write`, `WriteDuplicate`, `WriteMissing`, `Clear` | `updateUser`, `updateUserStatus`, `verifyUser`, `updateLastLogin`, `clearUserCache` |
| `Remove`, `Clear` | `deleteUser` |
| `DbError` | a query that fails before it has an effect; a lost reply of a write is a disjunct of `Save`, `Replace` and `Remove` |
| `Expire` | the cache drops an entry |

*Abstractions.* A document is its user name, email, status, `isVerified` and
`updatedAt`; the last stands for every other field a write changes, so that two
states of one account never look alike. Emails have raw spellings and stored
ones, and `Lower` maps the former to the latter as the schema's `lowercase`
setter does on documents, updates and queries. `updateUserStatus` has no route
in the controller; it is modelled as a request of its own because the class
offers it. `queue` is a set: the requests travel on different topics, and
delivery in any order includes the orders of one partition.

*The store.* The module configures Redis (`useRedis: true`), which a cache-manager
of version 6 does not take from these options; it falls back to memory. Both are
modelled, as the Redis store is what the code asks for: `LocalCache` says which, and decides whether a crash empties the store
and whether `deleteByPattern` finds a client. `CacheMayFail` lets any call fail;
`DbMayFail` any query.

### AccountRegistry

The abstract specification: accounts are opened under a free user name and email
with a fresh id, change only their email, and only to a free one, and are closed
for good. `UserService!ImplementsRegistry` instantiates it with the accounts of the
collection (`AccountOf`) and the ids used.

### KafkaClient

`KafkaClient.tla` models `KafkaService.send`: concurrent `Calls` on one connection,
each with its loop of attempts. One action is what a call does up to its next
await.

| State | Code |
|---|---|
| `stage`, `isConnected` | the module's lifecycle and its flag; calls go on after `onModuleDestroy`, as nothing in `send` looks at it |
| `pc`, `attempt`, `lastError`, `result` | what a call awaits, the counter of its loop, the variable `lastError`, what it returned or threw |
| `sent`, `ran` | requests handed to the producer, and those the service ran, even after the caller gave up |

| Actions | Code |
|---|---|
| `ModuleInit`, `ModuleDestroy` | `onModuleInit`, `onModuleDestroy`, each of which may fail and only logs it |
| `Call`, `Wake` | the head of the loop, for the first attempt and after a pause (`Iterate`: connect first, or send) |
| `Connected`, `ConnectFails` | the end of `client.connect()` inside the loop; a failed one continues the loop past its catch (`ConnectAgain`), or throws into it on the last attempt |
| `Receive`, `Rejected`, `Timeout` | the pipe behind `client.send`: a reply, an error, no reply in time |
| `Catch`, `Throw` | the catch of the loop, which notes `lastError` and pauses; the throw after the loop, which looks at `lastError` |
| `Run` | the service behind the topic (external): it runs any request sent, any number of times, in any order, or never |

A reply is not a message of its own: a call may get one as soon as its latest
request was run, and need not ever. ClientKafka matches replies by the
correlation id of the request, so a reply to an earlier attempt finds no caller.
A reply that is no envelope makes `send` return `undefined`; a time is not
modelled, only that a timer may fire.

`RemoteCall.tla` is the abstract specification: a call may start as many attempts
as allowed, is answered only when its latest attempt was run, and gives up only
after the last.

### TokenService

`TokenService.tla` models `TokenService` of the auth service: `Calls` of its methods in
several `Instances`, over a clock in milliseconds. One action is what a call does
up to its next await.

| State | Code |
|---|---|
| `now` | `Date.now()`; a second has `Second` ticks, so a small instance sees several |
| `docs` | the documents of `refresh_tokens`: none, live or revoked |
| `blacklist[store][key]` | the last moment an entry is in the cache, `Forever` for one without expiry |
| `pc`, `on`, `req`, `found`, `answer` | per call: its await, process, request, what its query found, its answer |
| `down`, `crashes`, `outages` | the cache answers no call; faults so far |
| `revokedAt` | history: when a store took the revocation of a token |

| Actions | Code |
|---|---|
| `Begin` | the start of each method; `jwt.verify` and the type check for a verification |
| `Check` | `isTokenBlacklisted`, which says no when the cache fails |
| `FindForRotation` | `verifyAndRotateRefreshToken` up to its look-up |
| `RevokeUpdate`, `RevokeNote` | `revokeRefreshToken`, `blacklistToken` |
| `FindAll`, `UpdateAll`, `NoteAll` | `revokeAllUserTokens` |
| `Create` | `generateRefreshToken`: the fields given against the fields the schema requires |
| `Cleanup`, `ExpireDocument` | `cleanupExpiredTokens`, the index on `expiresAt` |
| `DbError`, `Crash`, `Outage`, `Recover`, `Tick` | failing queries, a restart (which empties a memory store), the cache down and up, time |

A conversion is modelled by what it does: `hashToken` gives a value with a new salt,
so it never equals a stored hash, and the look-up finds nothing; `ttlOf` gives
seconds to a store that counts milliseconds, with 0 for no expiry (cache-manager 6).
The collection may start with documents (`Stored`), so that the properties of
revocation and cleanup have something to be about although the code stores none.

`RevocationList.tla` is the abstract specification of the blacklist: in each store a token
has an end of its revocation, which a further revocation never brings forward; a call
passes only with a token that is not revoked there, and is stopped only with one that is;
a restart may forget a store; while the list gives no answer, everything passes. In
`TokenService!ImplementsRevocationList` the ends are the entries under the tokens' keys,
whatever the units make of them, and the calls let pass and turned away are those that
left `isTokenBlacklisted` one way or the other. It says nothing of how long a revocation
lasts: finding 2 is that the code makes it too short.

### AuthFlow

`AuthFlow.tla` follows HTTP requests through the gateway, the auth service and the
user service. What travels is a record of fields, so that reading a field that is
not there gives `Undefined`, as it does in the code.

| State | Code |
|---|---|
| `route`, `gate`, `status` | what an HTTP request is for, what the gateway does with it, the status it was answered with |
| `job` | where the handler of the auth service is, or what it replied |
| `creates` | the messages `USER_CREATE`: for which registration, and whether asked, between the check and the save, saved or refused |
| `accounts` | the accounts of the user service: user name and email |
| `inherits` | whether message handlers inherit the application's interceptors and filters |
| `redeliveries` | bound on repeated delivery |

| Actions | Code |
|---|---|
| `Arrive`, `Guard` | `JwtAuthGuard`, `GatewayService.validateToken`, the auth service's `validateToken`, the route's method |
| `CheckHealth` | `checkHealth`, which answers whatever it finds |
| `GateAnswer`, `GateTimeout`, `GateUnavailable` | `KafkaService.send` seen from the gateway: a reply or error reply, no reply in time, no connection; then the exception filters |
| `Handle`, `CheckExists`, `CreateAnswered`, `Issue`, `FindFails` | the handlers of `AuthController` and the steps of `register` and `login` |
| `CheckUser`, `SaveUser` | the user service runs a `USER_CREATE`: looks whether name and email are free, and after an await saves, where the unique indexes may still refuse |
| `Redeliver`, `RedeliverCreate` | the auth or the user service restarts and its message is delivered again |

`main.ts` starts the microservices without `inheritAppConfig`, which is
`inherits = FALSE`. Both values are explored and proved about, because the
envelopes `send` expects are only there with TRUE: the properties hold either way.
An error is left without any reply with TRUE, as the HTTP filters fail on a message
(`Silent`). `MayFail` says whether connections fail and replies are late or lost.
`Filter` maps an exception to its status by the two registered filters in the order
Nest asks them, and `RpcError` is what is left of an exception that crossed Kafka.

### MongoAccess

`MongoAccess.tla` models `withTransaction`, the base repository over a collection with
a unique key, and the readers of pages. A step is what MongoDB does with one document, or
one query: `createMany`, `updateMany` and `deleteMany` are rows of operations that stop at
the first that fails and may have others between them, and a query sees one state of the
collection.

| State | Code |
|---|---|
| `docs` | the collection: the key of each document, `Free` for an id without one |
| `job`, `pc`, `step`, `outcome` | per call: a transaction, single operations or a reader; its await, operations done, end |
| `session` | none, open, ending, abandoned by a dead process, ended |
| `page`, `items`, `total`, `seen` | per reader: the page it is at, what `find` and `count` brought, all documents so far |
| `wrote`, `stayed`, `writes`, `apart` | history: what a call wrote last, what a reader could have seen all the time, writes since it began, writes between the two queries of its page |

| Actions | Code |
|---|---|
| `StartSession`, `CommitTransaction`, `AbortTransaction`, `EndSession` | `withTransaction` with its `finally` |
| `Operate`, `OperationFails`, `CallbackDone` | the callback, or repository calls by themselves: single and many writes, finds and the conversion of their errors (`DatabaseException.fromMongoError`) |
| `FindPage`, `CountDocuments`, `NextPage`, `PageFails` | `findWithPagination`, whose two queries run side by side, for page after page; `UserService.findUsers` for its one page |
| `Crash` | the process dies; the server ends the sessions it left |

A reader's pages are cut out of the order of the unique key, or, with no sort or one with
ties (`findUsers` sorts by `createdAt`), are as many documents of any as the page has
(`Pages`): MongoDB may order such documents differently with each query, and a reader can
miss some although nothing is written. The callback is not given the session, so its operations take effect at once; the
transaction itself is empty, so neither end of it can fail.

### AccessControl

`AccessControl.tla` models `AccessControlService` and the guards. Nothing in it awaits.

| State | Code |
|---|---|
| `roles`, `grants`, `extends` | the object of the accesscontrol library: the roles with an entry, their permissions, `$extend` |
| `threw`, `changes` | whether the last change threw; bound on changes |

| Actions and operators | Code |
|---|---|
| `DefaultGrants`, `Init` | `onModuleInit`: the table of the options, or `initializeDefaultGrants` |
| `Lineage`, `Usable`, `Allowed`, `Valid` | what the library answers: a role has what it extends, any includes own, a broken lineage throws; a table in which a role extends a missing one or, directly or not, itself is refused |
| `Can` | `can`: the super role first, then one role after the other, each error caught for its role |
| `Grant`, `Revoke`, `SetGrants` | `grant`; `revoke`, which deletes the entry in use and then has the whole table inspected, so that it throws for an heir of any role revoked so far; `setGrants` (refused whole) |
| `RolesGuard`, `RbacPermissionsGuard`, `GatewayRoutes`, `TargetUser` | the guards and the role lists of `gateway.controller.ts` |

## 3. What the runs check

| Run | Instance | Properties | Shows |
|---|---|---|---|
| `user_race` | 2 instances, shared Redis, failing cache and database, 3 messages of 4 requests (a create, an update, a verification, a read), 1 fault; 4.2 million states | `TypeOK`, `UniqueAccounts`, `AcknowledgedAccount`, `OneWinner`, `ReadsArePast`, `VerificationHolds`, `NothingIsLost`, `ImplementsRegistry` | races of creates, updates and verifications end in a state the clients were told the truth about; a read is late at worst; no request is lost |
| `user_cache_local` | 1 instance, memory store, 3 messages of 10 requests, 1 fault; 257,000 states | `ReadsAreCurrent` | a cached read equals a read of the collection |
| `user_cache_redis` | 1 instance, Redis, failing database, 2 messages of 8 requests, 2 faults, fairness; 401,000 states | `SettledCoherent`, `EveryRequestAnswered` | redelivery repairs what a crash left; every request is answered in the end |
| `user_ghost` | 1 instance, memory store, failing database, 3 messages (gets and deletions), no crash | `DeletedNotCached` (violated) | finding 1 |
| `kafka_calls` | 3 concurrent calls: retries unset, 0 and 3; fairness; 10,000 states | `TypeOK`, `ThrownHonestly`, `ImplementsRemoteCall`, `EveryStepCounts`, `EveryCallEnds` | the loop keeps the promise of a remote call, and has ever fewer steps left until it ends |
| `tokens` | 2 calls out of 10 requests in 2 processes with a memory store each, 3 documents, 7 ticks of half a second, failing queries, 1 restart, 1 outage; 2.0 million states | `TypeOK`, `EntriesGoWithTheirToken`, `LogoutEverywhereIsComplete`, `RevocationIsKept`, `RefusalIsHonest`, `ImplementsRevocationList` | what a revocation is good for, whom a refusal may hit, what a logout everywhere leaves |
| `token_blacklist` | 2 calls on one access token, 1 process, no faults | `RevokedUntilExpiry` (violated) | finding 2 |
| `auth` | 2 registrations that compete for a name (or 2 logins) and one request of any route, with and without inheritance, 1 redelivery, fairness; 685,000 states | `TypeOK`, `RefusalsLookLikeOutages`, `EveryRequestAnswered` | what clients are told, that every request is answered |
| `auth_session` | 1 registration, no failures, no late replies, no redelivery | `RegistrationOpensSession` (violated) | finding 3 |
| `transaction` | 3 calls in five mixes of transactions, single and many writes and readers, 4 ids, 5 keys, failing commands, 1 crash, fairness; 213,000 states | `TypeOK`, `PageAgreesWithTotal`, `MissedOnlyByWrites`, `OpenOnlyInUse`, `EverySessionEnds` | how far pages and totals can be off, what a reader can miss, that no session is left open and all end |
| `transaction_atomic` | the same | `AllOrNothing` (violated) | finding 4 |
| `access` | 5 roles, 4 tables (a chain, two heirs, a missing role, a circle), 2 grants, any 3 changes; 2,000 states | `TypeOK`, `MoreRolesNoLess`, `TablesAgree`, `RevocationHolds`, `GrantOnlyAdds` | what a change of the grants does to every set of roles |

Deadlock is checked in every run: a disjunct `Rest` lets a system stop only when its
calls, messages or requests are over (`AccessControl` always takes a question).

*Bounds.*

- User service: three ids hold the initial account and the two others three messages
  can add at most in the races. There, a user name two creates compete for and an
  email in two spellings, which an update competes for too, make every clash possible;
  the update, a verification and a read compete for one document. A race needs two
  messages in two instances and a third that observes or repeats; each property's
  mutant is found within these bounds. Deletions are left to the cache runs: in the
  races they would take the run past its time, and `RegistryIsImplemented`,
  `AcknowledgedIsTrue`, `VerificationsHold` and `ReadsAreNeverInvented` cover them for
  any number of instances. One fault reaches every crash point of one handler; two
  faults reach a crash of the repeated delivery. Messages, instances and the two free
  ids are interchangeable, and declared symmetric in runs without liveness properties.
- Kafka client: nothing is bounded but the calls. No attempt, one, and three (a first, a
  middle and a last one) are the cases the loop tells apart, and calls share only
  `isConnected`.
- Tokens: two calls are every pair of a revocation and a use; a second of two ticks
  separates "in the last second" from "in the last millisecond"; the clock passes
  the expiry of the tokens and of one document. More time only expires more.
- Requests: two registrations clash, the third request sees what they leave. One
  redelivery repeats a saga, or a `USER_CREATE` before or after its save.
- Repository: each mix has writers that move the boundary of a page under a reader, a
  call that writes many and stops half-way, or a duplicate inside a transaction; limits
  0 (the default), 1 and 2 give one page, several pages and a last page that is short;
  one reader sorts by something with ties.
- Grants: three changes are a revocation, a grant after it and a further change, which
  is the longest sequence in which one undoes another.

*Fairness.* User service: `WF(Take)` and `WF(Handle)` per instance, as the event loop
continues a handler whose await has been answered and the consumer fetches what is
there; none on `Produce`, `Commit`, `Expire`, `Crash` or `Rebalance`, and none that makes a failing call succeed in the end. Kafka client:
`WF(Progress(c))` per call, as timers fire and a connect ends one way or the other;
none on `Run`, so a service that never answers is among the behaviours. Requests:
`WF(Gateway(r))`, as the gateway's timers fire and its steps go on; none on the
handlers of the other services or on `GateUnavailable`. Repository:
`WF(Continue(c))`, as MongoDB answers a command or fails it, and `WF(EndSession(c))`,
as the server ends sessions that were ended or timed out; none on `Begin` and `Crash`.

### Findings

1. `deleteUser` (user.service.ts:320-338) clears the cache only when it found a
   document. When the deletion took effect but its handler did not reach
   `clearUserCache`, a second deletion finds nothing and returns null before the clear,
   and the deleted account is answered from the cache until its entry expires.
   `user_ghost` shows it with one instance and a memory store: the reply of the
   database to the first deletion is lost, the client is told of an error and asks
   again. A process that dies at that point has the same effect with a Redis store
   only; a memory store dies with it. `SettledCoherent` states what does hold, unless a
   client was told of an error.
2. `blacklistToken` computes the seconds left (token.service.ts:354-359) and hands them
   to a store that counts milliseconds: the entry goes a thousand times too early,
   and one made in the token's last second stays for ever. `token_blacklist` shows a
   revoked token that is accepted before it expires (revoked at 0, accepted at 3,
   expired at 4, on the run's clock); `RevocationIsKept` and `EntriesGoWithTheirToken`
   state what does hold.
3. A registration opens its account and never a session, though `register` is there to
   do both (auth.service.ts:43-44, 75). A handler's reply is its bare value, and
   `KafkaService.send` returns `response?.data` (kafka.service.ts:194), `undefined` for it:
   `userResponse.id` throws (auth.service.ts:77). `auth_session` shows it with no fault of
   any kind. With inherited interceptors the saga fails one step later: the refresh token is
   created without `tokenHash` and `salt`, which the schema requires (token.service.ts:105).
   The same causes stop everybody else:
   the guard refuses every valid token, and with inheritance too, as the auth service
   looks for `payload.token` on the envelope; `login` fails in `USER_GET_BY_EMAIL`, which
   reads `payload.data.data`; an exchange looks for a freshly salted hash in a field the
   schema does not have (token.service.ts:207), and its handler reads its token off the
   envelope in the first place; `refreshToken` would then ask for a user by id, whose
   reply pattern the auth service does not subscribe to (auth.service.ts:36-40, 400).
4. `withTransaction` calls `callback()` without the session (mongo-database.service.ts:66):
   a callback that throws leaves its first writes behind. `transaction_atomic` shows it.

What the models say of the code beside these, stated by a passing property or built into
a definition:

- `KafkaService.send` makes one attempt when `options.retries` is not given; the comment on
  that line (kafka.service.ts:129) says three (`MaxRetries`). It is one constant, read off
  the line and not checked by a run.
- A refusal looks like an outage (`RefusalsLookLikeOutages`): Nest's error reply drops the
  exception, and `send` takes any error but a timeout for `ServiceUnavailable`
  (kafka.service.ts:233), so a taken name is answered with 503. With inheritance the HTTP
  filters would fail on a message and leave it without a reply.
- `findUsers` is handed the whole envelope, where it finds neither page, limit nor filter
  (`FindsUsers`): it always answers the first page of the default size.
- `revoke` says it deletes a role and creates it again (access-control.service.ts:172-173),
  but nothing creates it: the roles that extend it, whose lineage is broken then, lose their
  own permissions as well, and while one of them is left every later revocation throws, until
  a grant to the deleted role or another table mends it. `RevocationHolds` leaves open what becomes of these roles.
- A gateway cache with a time to live of 60 and a health check with one of 10 keep their
  entries for that many milliseconds. `checkHealth` answers 200 whatever it finds.

## 4. What is proved

`UserServiceProofs.tla`, for any constants that satisfy the assumptions in
`UserService.tla` (which TLC evaluates in every run):

| Theorem | Statement | Argument |
|---|---|---|
| `TypeCorrect` | `Spec => []TypeInv` | `TypeInv` adds to `TypeOK` what an instance that is not idle is handling (a produced request that fits its step) and that only produced messages are delivered. Without it the fields of the request in hand are unknown and no handler step keeps the types |
| `TypeSafe` | `Spec => []TypeOK` | a conjunct of `TypeInv` |
| `AccountsAreUnique` | `Spec => []UniqueAccounts` | each step that changes the collection writes at most one document, which the index admits (`CollectionSteps`) |
| `RegistryIsImplemented` | `Spec => ImplementsRegistry` | each of those steps is one registry step, the others stutter; needs that stored ids are used |
| `CachedReadsAreCurrent` | `SoleInstance` gives `Spec => []ReadsAreCurrent` | `CurrentInv`: every cache entry agrees with the collection except under a handler that is about to clear it, and what a read has in hand is what is stored |

`KafkaClientProofs.tla`, for any calls with any number of attempts each:

| Theorem | Statement | Argument |
|---|---|---|
| `CallsAreCounted` | `Spec => []CallInv` | `CallInv` adds to the properties that a call in its loop has attempts left and one that has not begun no `lastError`, that a waiting call has sent its latest request, and that what was sent and run belongs to attempts that were made. Every step of the loop either enters an iteration (`Enters`) or leaves one (`Leaves`); one lemma each |
| `StepsAreCounted` | `Spec => EveryStepCounts` | `Left` counts the steps a call can still take, three for each attempt left and those of the attempt it is in. Each step of the loop takes from it; that it stays a natural number needs `CallInv`. So no call runs for ever, whatever connect and the service do |
| `ClientTypeSafe` | `Spec => []TypeOK` | a conjunct of `CallInv` |
| `ThrowsAreHonest` | `Spec => []ThrownHonestly` | a conjunct of `CallInv` |
| `PromiseIsKept` | `Spec => ImplementsRemoteCall` | a call is a `Start`, a wake-up a `TryAgain`, the last catch a `Fail`, a reply a `Succeed`; pauses and connects stutter. `Fail` needs that the attempts are exactly used up, which is `CallInv` |

`UserAnswerProofs.tla`, under the same assumptions:

| Theorem | Statement | Argument |
|---|---|---|
| `AcknowledgedIsTrue` | `Spec => []AcknowledgedAccount` | `AnswerInv`: until a deletion is asked for, a create that is acknowledged *or about to be* holds its name. The property alone speaks of answers only and says nothing of a handler between its save and its answer |
| `OnlyOneWins` | `Spec => []OneWinner` | the second half of `AnswerInv`: a save takes a name no other create has won, as the index refuses a taken one; and a name that is held stays held, as only a removal frees it |
| `SettledIsCoherent` | `OneInstance` gives `Spec => []SettledCoherent` | `MendInv`: every outdated entry waits for a message that mends it, one that is queued or in hand before its clear or about to answer an error. The last writer of the account is such a message, as its email is the account's own: delivered again it can end in no conflict, which would leave before the clear (`CheckMends`). `Kept` adds that what is in hand is delivered again unless it is committed |
| `RequestsAreKept` | `Spec => []NothingIsLost` | `Safe`: a request that was produced and has no answer is queued, or in the hands of an instance that has not committed it. A handler holds its message, uncommitted, until its answer is counted (`HandlersHold`); only then is it committed; a crash or a rebalance delivers what is not |
| `ReadsAreNeverInvented` | `Spec => []ReadsArePast` | `PastInv`: what the collection or a cache holds of an account, and what an instance has in hand to answer or to store, is one of the account's `versions`. Entries come from fills only, fills from reads of the collection or of entries, and a document is never taken out of the history |
| `VerificationsHold` | `Spec => []VerificationHolds` | `VerifyInv`: once a verification is acknowledged *or about to be*, its account is verified or gone for good; an update writes its own fields over what is stored then, not over what it read, so none sets the flag back, and an id is never given out again |

`TokenServiceProofs.tla`, for any processes, stores, tokens, documents and clock:

| Theorem | Statement | Argument |
|---|---|---|
| `LookupsFindNothing` | `Spec => []NothingIsFound` | no query of a rotation has an answer, from the salts of `hashToken`; so the rest of `verifyAndRotateRefreshToken` is unreachable |
| `TypeSafe` | `Spec => []TypeOK` | one lemma for the steps of calls, one each for crashes and for the rest |
| `EntriesAlwaysFit` | `Spec => []EntriesFit` | the inductive invariant of the blacklist: an entry is there exactly when its store took a revocation, and its time is what `ttlOf` made of the moment of it. Without the revocation's moment an entry's time has no bound that a later step could use |
| `EntriesInTime` | `Spec => []EntriesGoWithTheirToken` | from `EntriesFit` and the arithmetic of whole seconds |
| `RevocationsKept`, `RefusalsHonest` | `Spec => RevocationIsKept`, `Spec => RefusalIsHonest` | only `Check` lets a token pass or refuses it as revoked (`CheckDecides`); what it reads is what `EntriesFit` says |
| `RevocationListImplemented` | `Spec => ImplementsRevocationList` | `ListInv`: `EntriesFit` with `TakenBefore`, that no recorded revocation lies in the future. A repeated revocation is a later one and ends no sooner: the seconds `ttlOf` leaves shrink no faster than the clock runs (`DividedTogether`, `LaterEndsNoSooner`). The entries of whole users have keys of their own and touch no token's |
| `LogoutComplete` | `Spec => []LogoutEverywhereIsComplete` | `Complete`: after its update a call's user has no live document, and no step of any other call makes one live again |

`AuthFlowProofs.tla`, for any requests, names and mixes of routes, and for both values of
`inherits`:

| Theorem | Statement | Argument |
|---|---|---|
| `TypeSafe` | `Spec => []TypeOK` | a conjunct of `Inv`, which adds to both properties that only routes of the auth service have a job there, and that only guarded routes wait at the guard |
| `RefusalsAreMasked` | `Spec => []RefusalsLookLikeOutages` | the value of `Filter` on each thing `send` throws |

`AccessControlProofs.tla`, for any roles, tables and numbers of changes:

| Theorem | Statement | Argument |
|---|---|---|
| `TypeSafe` | `Spec => []TypeOK` | by actions |
| `RolesAddUp` | `Spec => []MoreRolesNoLess` | each error is caught for its role, so `Can` is a disjunction over roles |
| `GrantsOnlyAdd` | `Spec => GrantOnlyAdds` | a grant changes no extension, so lineages stay; an entry that comes back mends lineages and breaks none |
| `RevocationsHold` | `Spec => RevocationHolds` | a lineage is the least closed set: a closed set without the revoked role stays closed, which gives both directions without induction over the chain |
| `TablesSayTheSame` | `Spec => []TablesAgree` | with the default table (`HasDefaults`) a lineage is the role alone, and route by route the role list and the grants are compared |

`MongoAccessProofs.tla`, for any calls, jobs, documents and crashes:

| Theorem | Statement | Argument |
|---|---|---|
| `TypeSafe` | `Spec => []TypeOK` | `Inv` adds that a call is at a step of its job and that keys are unique |
| `SessionsAreInUse` | `Spec => []OpenOnlyInUse` | `SessionInv` adds that only transactions are at the steps that start, commit or abort a session; so an open session belongs to a call that is in its callback or about to end its transaction; a crash abandons the session, and the server ends it |
| `PagesAgree` | `Spec => []PageAgreesWithTotal` | `PagesFit`: when one of `find` and `count` was answered, it is as far from what the other would answer now as was written since. Sorted by the key a page is the documents whose ranks are within its limits; ranks are a bijection onto `1..N` because keys are unique, so its size is a function of `N` alone (`PageSize`), as it is without a sort, and changes by at most one where `N` does |

`MongoReadersProofs.tla`, under the same assumptions:

| Theorem | Statement | Argument |
|---|---|---|
| `FewAreMissed` | `Spec => []MissedOnlyByWrites` | `ReadInv`, for readers that sort by the unique key: of the documents that stayed and were not fetched, those *behind the reader* (ranked within the pages it has left, or after the end it was told) are no more than were written. The property speaks of the last page only; before it, a document behind the reader is what is going to be missed. A write shifts all other ranks one way by at most one (`OneWay`), so at most one document crosses the edge or the end (`OneFallsBehind`) |

*What the proofs rest on.* Only the named `ASSUME`s of the modules, each of which TLC
evaluates in a run: `ConstantsAssumption`, `LocalCacheAssumption`, `EmailAssumption`,
`InitialUsersAssumption` (`UserService`), `RetriesAssumption` (`KafkaClient`), `TokenAssumption`,
`RequestAssumption`, `AccessAssumption` and `MongoAssumption`. Two theorems have a hypothesis of
their own, which is not an assumption of the module: `SoleInstance` (one instance with a
memory store, where neither store nor database fails) for `CachedReadsAreCurrent`, and
`OneInstance` (one instance, any store that takes every call) for `SettledIsCoherent`; the
runs that check these properties are instances of them.

*What is only model-checked.* The liveness properties: `EveryRequestAnswered` of the user
service and of the requests, `EveryCallEnds`, `EverySessionEnds`. The
prover has no rule for fairness and `ENABLED`. What they rest on is proved where it is a
matter of single states and steps: a request without an answer is kept (`RequestsAreKept`),
a call has finitely many steps left (`StepsAreCounted`), an open session is in use
(`SessionsAreInUse`). Every invariant and action property that a
passing run checks is proved.

## 5. What is not modelled

| Part | Why |
|---|---|
| Kafka serializer, `emit`, `subscribeToResponseOf` | `send` does not serialize; only `emit` does, which nothing calls; a subscription is one call at start-up |
| `HttpCacheInterceptor` | provided, and applied to no controller and no route |
| Redis service | one command per method, no state of its own, used by nothing |
| `getOrSet`, `deleteMany`, `reset` of the cache service | nothing calls them |
| `logoutAll`, `generateToken` and the blacklist check of the auth service's controller | nothing in the repository sends these messages |
| `verifyAndRotateRefreshToken` after its look-up | unreachable, as `LookupsFindNothing` proves; the two rotations of one token that race in the source cannot get there |
| Validation pipes and DTOs | rules on fields and their wording; a request that fails them ends before anything else happens |
| Kafka exception filter | both service controllers name it in `@UseFilters`, but it catches `RpcException` only, which nothing throws |
| Utilities | pure functions nothing calls |
| AI providers | one HTTP request each, without state |
| AI and product services | the repository has build files and no code for them; for the gateway they are services that never answer, which `AuthFlow` models |
| Deployment, logging, wording, layout | carry no behaviour a property is about |
