---------------------------- MODULE TokenService ----------------------------
(***************************************************************************)
(* The token service (apps/auth-service): refresh tokens as documents of   *)
(* MongoDB, revoked tokens as entries of the cache with a time to live.    *)
(* Concurrent calls run in several processes; one action is what a call    *)
(* does up to its next await. `now` is the clock in milliseconds; a second *)
(* has `Second` of them.                                                   *)
(***************************************************************************)
EXTENDS Integers

CONSTANTS
  Instances,      \* processes of the auth service
  Calls,          \* calls of its methods
  Requests,       \* what a call may ask: a kind and a token or a user
  Tokens,         \* strings presented as tokens
  Type,           \* "access" or "refresh", or "garbage" for no signed JWT
  Exp,            \* the exp claim of each token in seconds, or NoExp
  Docs, Stored,   \* ids of documents, and those in the collection at the start
  DocToken, DocUser, DocExpiry,  \* what a document was written for, expiresAt in ms
  Users,
  Second, DefaultTtl, Horizon,   \* milliseconds: of a second, 3600, the end of the clock
  LocalCache,     \* the cache is a memory store of its process
  DbMayFail, MaxCrashes, MaxOutages,
  Absent, Forever, NoExp

Kinds == {"access", "rotate", "revoke", "revokeAll", "issue", "cleanup"}

ASSUME TokenAssumption ==
  /\ Type \in [Tokens -> {"access", "refresh", "garbage"}]
  /\ Exp \in [Tokens -> Nat \cup {NoExp}]
  /\ DocToken \in [Docs -> Tokens] /\ DocUser \in [Docs -> Users] /\ DocExpiry \in [Docs -> Nat]
  /\ Stored \subseteq Docs
  /\ Requests \subseteq [kind : Kinds, token : Tokens, user : Users]
  /\ Second \in Nat \ {0} /\ DefaultTtl \in Nat \ {0} /\ Horizon \in Nat /\ {MaxCrashes, MaxOutages} \subseteq Nat
  /\ {LocalCache, DbMayFail} \subseteq BOOLEAN
  /\ {Absent, Forever, NoExp} \cap Nat = {} /\ Absent # Forever

VARIABLES
  now,
  docs,        \* per document: "none", "live" or "revoked"
  blacklist,   \* per store and key, the last moment the entry is there
  pc, on, req, found, answer,   \* per call: its await, process, request, documents, answer
  down,        \* the cache answers no call
  crashes, outages,
  revokedAt    \* history: when a store took the revocation of a token

vars == <<now, docs, blacklist, pc, on, req, found, answer, down, crashes, outages, revokedAt>>

faults == <<down, crashes, outages>>

Stores == IF LocalCache THEN Instances ELSE {"redis"}
StoreOf(i) == IF LocalCache THEN i ELSE "redis"

TokenKey(t) == <<"token", t>>
UserKey(d) == <<"user", d>>
Keys == {TokenKey(t) : t \in Tokens} \cup {UserKey(d) : d \in Docs}

Steps == {"idle", "checking", "finding", "updating", "blacklisting",
          "findingAll", "revokingAll", "notingAll", "creating", "deleting", "done", "lost"}
Answers == {"none", "accepted", "revoked", "refused", "renewed", "yes", "no", "error", "count"}

Times == Nat \cup {Absent, Forever}

TypeOK ==
  /\ now \in 0..Horizon
  /\ docs \in [Docs -> {"none", "live", "revoked"}]
  /\ blacklist \in [Stores -> [Keys -> Times]]
  /\ pc \in [Calls -> Steps] /\ on \in [Calls -> Instances]
  /\ req \in [Calls -> [kind : Kinds, token : Tokens, user : Users]]
  /\ found \in [Calls -> SUBSET Docs] /\ answer \in [Calls -> Answers]
  /\ down \in BOOLEAN /\ crashes \in 0..MaxCrashes /\ outages \in 0..MaxOutages
  /\ revokedAt \in [Stores -> [Tokens -> Nat \cup {Absent}]]

Init ==
  /\ now = 0 /\ down = FALSE /\ crashes = 0 /\ outages = 0
  /\ docs = [d \in Docs |-> IF d \in Stored THEN "live" ELSE "none"]
  /\ blacklist = [s \in Stores |-> [k \in Keys |-> Absent]]
  /\ pc = [c \in Calls |-> "idle"] /\ on \in [Calls -> Instances]
  /\ req \in [Calls -> Requests]
  /\ found = [c \in Calls |-> {}] /\ answer = [c \in Calls |-> "none"]
  /\ revokedAt = [s \in Stores |-> [t \in Tokens |-> Absent]]

-----------------------------------------------------------------------------
(* Helpers.                                                                *)

store(c) == StoreOf(on[c])
token(c) == req[c].token

Goto(c, step) == pc' = [pc EXCEPT ![c] = step] /\ UNCHANGED answer

Return(c, value) ==
  /\ pc' = [pc EXCEPT ![c] = "done"]
  /\ answer' = [answer EXCEPT ![c] = value]

\* jsonwebtoken compares the seconds passed with exp.
Expired(t) == Exp[t] # NoExp /\ now \div Second >= Exp[t]

\* bcrypt draws a new salt: what is stored for a token never equals a fresh hash of it.
hashToken(t) == <<t, "fresh">>

FindByToken(t) == {d \in Docs : docs[d] # "none" /\ hashToken(t) = <<DocToken[d], "stored">>}

LiveOf(u) == {d \in Docs : DocUser[d] = u /\ docs[d] = "live"}

\* What `get` finds: an entry is there up to its last moment.
Held(s, k) ==
  /\ blacklist[s][k] # Absent
  /\ blacklist[s][k] \in Nat => now <= blacklist[s][k]

\* Mutant: a time to live of 0 is no entry.
UntilOrGone(ttl) == IF ttl = 0 THEN Absent ELSE now + ttl

\* cache-manager takes milliseconds, and 0 for no expiry.
Until(ttl) == IF ttl = 0 THEN Forever ELSE now + ttl

\* Mutant: the difference taken the wrong way round.
SecondsSince(time) == IF time > now THEN (now - time) \div Second ELSE 0

\* The seconds from now to a moment of the future, none for one of the past.
SecondsTo(time) == IF time > now THEN (time - now) \div Second ELSE 0

\* Mutant: the time to live of any entry is the default.
ttlDefault(t) == DefaultTtl

\* blacklistToken: the seconds left, which the store takes for milliseconds.
ttlOf(t) == IF Exp[t] = NoExp THEN DefaultTtl ELSE SecondsTo(Exp[t] * Second)

-----------------------------------------------------------------------------
(* verifyAccessToken, and verifyRefreshToken under verifyAndRotate.        *)

\* jwt.verify and the type, before the first await.
Verify(c, type) ==
  IF Type[token(c)] = type /\ ~Expired(token(c))
    THEN Goto(c, "checking") ELSE Return(c, "refused")

\* Mutant: a failed look-up refuses.
BlacklistedClosed(c) == down \/ Held(store(c), TokenKey(token(c)))

\* isTokenBlacklisted says no when the cache fails.
Blacklisted(c) == ~down /\ Held(store(c), TokenKey(token(c)))

Check(c) ==
  /\ pc[c] = "checking"
  /\ \/ Blacklisted(c) /\ Return(c, "revoked")
     \/ ~Blacklisted(c) /\ req[c].kind = "rotate" /\ Goto(c, "finding")
     \/ ~Blacklisted(c) /\ req[c].kind = "access" /\ Return(c, "accepted")
  /\ UNCHANGED <<now, docs, blacklist, on, req, found, faults, revokedAt>>

\* verifyAndRotateRefreshToken finds the document or refuses. No state has one to find
\* (NothingIsFound), so what the method does with it (140-190) is never reached.
FindForRotation(c) ==
  /\ pc[c] = "finding"
  /\ Return(c, IF FindByToken(token(c)) = {} THEN "refused" ELSE "renewed")
  /\ UNCHANGED <<now, docs, blacklist, on, req, found, faults, revokedAt>>

-----------------------------------------------------------------------------
(* revokeRefreshToken.                                                     *)

RevokeUpdate(c) ==
  /\ pc[c] = "updating"
  /\ LET matched == FindByToken(token(c)) IN
       /\ docs' = [d \in Docs |-> IF d \in matched THEN "revoked" ELSE docs[d]]
       /\ found' = [found EXCEPT ![c] = matched \cap {d \in Docs : docs[d] = "live"}]
  /\ Goto(c, "blacklisting")
  /\ UNCHANGED <<now, blacklist, on, req, faults, revokedAt>>

\* The token can be decoded and has not expired, and the cache takes the entry.
Noted(c) ==
  /\ ~down
  /\ Type[token(c)] # "garbage"
  /\ Exp[token(c)] = NoExp \/ Exp[token(c)] * Second > now

\* The token is blacklisted whatever the update found; the answer tells of the update.
RevokeNote(c) ==
  /\ pc[c] = "blacklisting"
  /\ Return(c, IF found[c] # {} THEN "yes" ELSE "no")
  /\ IF Noted(c)
       THEN /\ blacklist' = [blacklist EXCEPT ![store(c)][TokenKey(token(c))] = Until(ttlOf(token(c)))]
            /\ revokedAt' = [revokedAt EXCEPT ![store(c)][token(c)] = now]
       ELSE UNCHANGED <<blacklist, revokedAt>>
  /\ UNCHANGED <<now, docs, on, req, found, faults>>

-----------------------------------------------------------------------------
(* revokeAllUserTokens.                                                    *)

FindAll(c) ==
  /\ pc[c] = "findingAll"
  /\ found' = [found EXCEPT ![c] = LiveOf(req[c].user)]
  /\ IF found'[c] = {} THEN Return(c, "yes") ELSE Goto(c, "revokingAll")
  /\ UNCHANGED <<now, docs, blacklist, on, req, faults, revokedAt>>

\* Mutant: only what was found first is revoked, and reported as all.
UpdateFirst(c) ==
  /\ pc[c] = "revokingAll"
  /\ docs' = [docs EXCEPT ![CHOOSE d \in found[c] : TRUE] = "revoked"]
  /\ Goto(c, "notingAll")
  /\ UNCHANGED <<now, blacklist, on, req, found, faults, revokedAt>>

UpdateAll(c) ==
  /\ pc[c] = "revokingAll"
  /\ docs' = [d \in Docs |-> IF d \in LiveOf(req[c].user) THEN "revoked" ELSE docs[d]]
  /\ \/ Goto(c, "notingAll")
     \/ DbMayFail /\ Return(c, "no")
  /\ UNCHANGED <<now, blacklist, on, req, found, faults, revokedAt>>

\* One entry per document found, under a key of its own, not awaited.
NoteAll(c) ==
  /\ pc[c] = "notingAll"
  /\ blacklist' = [blacklist EXCEPT ![store(c)] =
       [k \in Keys |-> IF ~down /\ \E d \in found[c] : k = UserKey(d)
                         THEN Until(SecondsTo(DocExpiry[k[2]])) ELSE @[k]]]
  /\ Return(c, "yes")
  /\ UNCHANGED <<now, docs, on, req, found, faults, revokedAt>>

-----------------------------------------------------------------------------
(* generateRefreshToken, and what removes documents.                       *)

\* The fields create is given and those the schema requires.
Required == {"tokenHash", "salt", "userId", "expiresAt"}

Given == {"token", "userId", "expiresAt", "deviceId", "userAgent", "ipAddress", "lastUsedAt"}

\* A document that lacks a required field is refused by Mongoose.
Create(c) ==
  /\ pc[c] = "creating"
  /\ IF Required \subseteq Given
       THEN \E d \in Docs :
              /\ docs[d] = "none"
              /\ docs' = [docs EXCEPT ![d] = "live"]
              /\ Return(c, "renewed")
       ELSE Return(c, "error") /\ UNCHANGED docs
  /\ UNCHANGED <<now, blacklist, on, req, found, faults, revokedAt>>

Outdated == {d \in Docs : docs[d] # "none" /\ DocExpiry[d] < now}

Cleanup(c) ==
  /\ pc[c] = "deleting"
  /\ docs' = [d \in Docs |-> IF d \in Outdated THEN "none" ELSE docs[d]]
  /\ Return(c, "count")
  /\ UNCHANGED <<now, blacklist, on, req, found, faults, revokedAt>>

\* MongoDB's index on expiresAt.
ExpireDocument(d) ==
  /\ d \in Outdated
  /\ docs' = [docs EXCEPT ![d] = "none"]
  /\ UNCHANGED <<now, blacklist, pc, on, req, found, answer, faults, revokedAt>>

-----------------------------------------------------------------------------
(* Calls, failures and time.                                               *)

Begin(c) ==
  /\ pc[c] = "idle"
  /\ CASE req[c].kind = "access" -> Verify(c, "access")
       [] req[c].kind = "rotate" -> Verify(c, "refresh")
       [] req[c].kind = "revoke" -> Goto(c, "updating")
       [] req[c].kind = "revokeAll" -> Goto(c, "findingAll")
       [] req[c].kind = "issue" -> Goto(c, "creating")
       [] req[c].kind = "cleanup" -> Goto(c, "deleting")
  /\ UNCHANGED <<now, docs, blacklist, on, req, found, faults, revokedAt>>

\* A query fails before it has an effect; every method has its answer for that.
DbError(c) ==
  /\ DbMayFail
  /\ pc[c] \in {"finding", "updating", "findingAll", "revokingAll", "creating", "deleting"}
  /\ Return(c, CASE pc[c] = "finding" -> "refused"
                 [] pc[c] \in {"updating", "findingAll", "revokingAll"} -> "no"
                 [] pc[c] = "creating" -> "error"
                 [] pc[c] = "deleting" -> "count")
  /\ UNCHANGED <<now, docs, blacklist, on, req, found, faults, revokedAt>>

\* A process restarts: its calls are lost, and so is a memory store.
Crash(i) ==
  /\ crashes < MaxCrashes
  /\ crashes' = crashes + 1
  /\ pc' = [c \in Calls |-> IF on[c] = i /\ pc[c] \notin {"idle", "done"} THEN "lost" ELSE pc[c]]
  /\ IF LocalCache
       THEN /\ blacklist' = [blacklist EXCEPT ![i] = [k \in Keys |-> Absent]]
            /\ revokedAt' = [revokedAt EXCEPT ![i] = [t \in Tokens |-> Absent]]
       ELSE UNCHANGED <<blacklist, revokedAt>>
  /\ UNCHANGED <<now, docs, on, req, found, answer, down, outages>>

Outage ==
  /\ ~down /\ outages < MaxOutages
  /\ down' = TRUE /\ outages' = outages + 1
  /\ UNCHANGED <<now, docs, blacklist, pc, on, req, found, answer, crashes, revokedAt>>

Recover ==
  /\ down
  /\ down' = FALSE
  /\ UNCHANGED <<now, docs, blacklist, pc, on, req, found, answer, crashes, outages, revokedAt>>

Tick ==
  /\ now < Horizon
  /\ now' = now + 1
  /\ UNCHANGED <<docs, blacklist, pc, on, req, found, answer, faults, revokedAt>>

Ended(c) == pc[c] \in {"done", "lost"}

Rest == now = Horizon /\ (\A c \in Calls : Ended(c)) /\ UNCHANGED vars

Continue(c) ==
  \/ Check(c) \/ FindForRotation(c) \/ RevokeUpdate(c) \/ RevokeNote(c)
  \/ FindAll(c) \/ UpdateAll(c) \/ NoteAll(c) \/ Create(c) \/ Cleanup(c) \/ DbError(c)

Next ==
  \/ \E c \in Calls : Begin(c) \/ Continue(c)
  \/ \E d \in Docs : ExpireDocument(d)
  \/ \E i \in Instances : Crash(i)
  \/ Outage \/ Recover
  \/ Tick
  \/ Rest

Spec == Init /\ [][Next]_vars

-----------------------------------------------------------------------------
(* Properties.                                                             *)

\* No stored document has the hash a look-up by token asks for (token.service.ts:207).
NothingIsFound == \A t \in Tokens : FindByToken(t) = {}

\* The least time a revocation of t taken at r is good for.
GoodFor(t, r) == IF Exp[t] = NoExp THEN DefaultTtl ELSE (Exp[t] * Second - r) \div Second

\* The look-up of the blacklist lets the token of c pass.
Passes(c) == pc[c] = "checking" /\ (answer'[c] = "accepted" \/ pc'[c] = "finding")

\* No token passes within the time its revocation in the same store is good for, be it
\* presented before or after, for access or exchange, unless the cache is down: only a
\* restart of the store forgets a revocation sooner (token.service.ts:349-391).
RevocationIsKept ==
  [][\A c \in Calls : Passes(c) /\ ~down =>
       LET r == revokedAt[store(c)][token(c)] IN
         r = Absent \/ now > r + GoodFor(token(c), r)]_vars

\* A token is refused as revoked only where its own revocation was taken, also when
\* the cache fails or entries of other users' documents are there (token.service.ts:379-391).
RefusalIsHonest ==
  [][\A c \in Calls :
       answer[c] = "none" /\ answer'[c] = "revoked" => revokedAt[store(c)][token(c)] # Absent]_vars

\* An entry of the blacklist goes before its token expires, but for the one made in the
\* token's last second, which stays for ever (token.service.ts:359).
EntriesGoWithTheirToken ==
  \A s \in Stores, t \in Tokens :
    LET entry == blacklist[s][TokenKey(t)] IN
      entry # Absent /\ Exp[t] # NoExp =>
        IF entry = Forever THEN Exp[t] * Second - revokedAt[s][t] < Second
                           ELSE entry <= Exp[t] * Second

\* revokeAllUserTokens says yes only when no document of the user is left to use, with
\* other revocations and failing queries in between (token.service.ts:241-284).
LogoutEverywhereIsComplete ==
  \A c \in Calls : pc[c] = "done" /\ req[c].kind = "revokeAll" /\ answer[c] = "yes"
                     => LiveOf(req[c].user) = {}

Expiries == [t \in Tokens |-> IF Exp[t] = NoExp THEN Forever ELSE Exp[t] * Second]
TokenEntries == [s \in Stores |-> [t \in Tokens |-> blacklist[s][TokenKey(t)]]]
Presented == [c \in Calls |-> [store |-> store(c), token |-> token(c)]]
LetPass == {c \in Calls : answer[c] = "accepted" \/ pc[c] = "finding"}
TurnedAway == {c \in Calls : answer[c] = "revoked"}

List == INSTANCE RevocationList
          WITH Expiry <- Expiries, NotRevoked <- Absent, Never <- Forever,
               clock <- now, answering <- ~down, until <- TokenEntries, asks <- Presented,
               restarts <- crashes, passed <- LetPass, stopped <- TurnedAway

\* The entries of the cache are a list of revocations: whatever else is revoked, stored and
\* forgotten, a token does not pass before the end of its revocation, and revoking it again
\* with fewer seconds left does not bring that end forward (token.service.ts:199-228, 349-391).
ImplementsRevocationList == List!Spec

\* "the time left until the token expires" (token.service.ts:354): what was revoked does
\* not pass.
RevokedUntilExpiry ==
  [][\A c \in Calls : Passes(c) => revokedAt[store(c)][token(c)] = Absent]_vars
=============================================================================
