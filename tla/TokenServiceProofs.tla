------------------------- MODULE TokenServiceProofs -------------------------
(* Theorems about TokenService, for any instances, calls, tokens, documents,
   clocks, crashes and outages. *)
EXTENDS TokenService, TLAPS

-----------------------------------------------------------------------------
(* Numbers.                                                                *)

\* What dividing by a second gives.
LEMMA Divided ==
  ASSUME NEW x \in Nat
  PROVE  /\ x \div Second \in Nat
         /\ x \div Second <= x
         /\ x \div Second = 0 => x < Second
<1>1. Second \in Nat \ {0}
    BY TokenAssumption DEF TokenAssumption
<1>2. x \div Second \in Int /\ Second * (x \div Second) <= x /\ x < Second * (x \div Second) + Second
    BY <1>1, SMTT(30)
<1>3. x \div Second >= 0
    BY <1>1, <1>2, SMTT(30)
<1>4. x \div Second <= Second * (x \div Second)
    BY <1>1, <1>2, <1>3, SMTT(30)
<1> QED BY <1>1, <1>2, <1>3, <1>4

LEMMA ExpType == ASSUME NEW t \in Tokens, Exp[t] # NoExp PROVE Exp[t] \in Nat /\ Exp[t] * Second \in Nat
<1>1. Exp[t] \in Nat /\ Second \in Nat
    BY TokenAssumption DEF TokenAssumption
<1> QED BY <1>1

\* A time to live is a number, and that of a revocation is what the revocation is good for.
LEMMA SecondsType == ASSUME NEW time \in Nat, now \in Nat PROVE SecondsTo(time) \in Nat
<1>1. CASE time > now
  <2>1. time - now \in Nat
      BY <1>1
  <2> QED BY <1>1, <2>1, Divided DEF SecondsTo
<1>2. CASE ~(time > now)
    BY <1>2 DEF SecondsTo
<1> QED BY <1>1, <1>2

LEMMA TtlType == ASSUME NEW t \in Tokens, now \in Nat PROVE ttlOf(t) \in Nat
<1>1. CASE Exp[t] = NoExp
    BY <1>1, TokenAssumption DEF ttlOf, TokenAssumption
<1>2. CASE Exp[t] # NoExp
    BY <1>2, ExpType, SecondsType DEF ttlOf
<1> QED BY <1>1, <1>2

LEMMA UntilType == ASSUME NEW ttl \in Nat, now \in Nat PROVE Until(ttl) \in Times \ {Absent}
<1>1. now + ttl \in Nat /\ Absent \notin Nat /\ Absent # Forever
    BY TokenAssumption DEF TokenAssumption
<1> QED BY <1>1 DEF Until, Times

-----------------------------------------------------------------------------
(* The type invariant.                                                     *)

\* No stored document has the hash that a look-up asks for (token.service.ts:207).
THEOREM LookupsFindNothing == Spec => []NothingIsFound
<1>1. NothingIsFound
    BY DEF NothingIsFound, FindByToken, hashToken
<1> QED BY <1>1, PTL

LEMMA Unfound == ASSUME NEW t PROVE FindByToken(t) = {}
BY DEF FindByToken, hashToken

LEMMA Bounds == Horizon \in Nat /\ MaxCrashes \in Nat /\ MaxOutages \in Nat
BY TokenAssumption DEF TokenAssumption

LEMMA InitType == Init => TypeOK
<1> SUFFICES ASSUME Init PROVE TypeOK
    OBVIOUS
<1>1. now \in 0..Horizon /\ crashes \in 0..MaxCrashes /\ outages \in 0..MaxOutages /\ down \in BOOLEAN
  <2>1. now \in 0..Horizon /\ crashes \in 0..MaxCrashes /\ outages \in 0..MaxOutages
    <3>1. now = 0 /\ crashes = 0 /\ outages = 0
        BY DEF Init
    <3> QED BY <3>1, Bounds
  <2>2. down \in BOOLEAN
      BY DEF Init
  <2> QED BY <2>1, <2>2
<1>2. /\ docs \in [Docs -> {"none", "live", "revoked"}]
      /\ blacklist \in [Stores -> [Keys -> Times]]
      /\ revokedAt \in [Stores -> [Tokens -> Nat \cup {Absent}]]
    BY DEF Init, Times
<1>3. /\ pc \in [Calls -> Steps] /\ on \in [Calls -> Instances]
      /\ req \in [Calls -> [kind : Kinds, token : Tokens, user : Users]]
      /\ found \in [Calls -> SUBSET Docs] /\ answer \in [Calls -> Answers]
    BY TokenAssumption DEF Init, TokenAssumption, Steps, Answers
<1> QED BY <1>1, <1>2, <1>3 DEF TypeOK

LEMMA ReturnType ==
  ASSUME TypeOK, NEW c \in Calls, NEW value \in Answers, Return(c, value)
  PROVE  pc' \in [Calls -> Steps] /\ answer' \in [Calls -> Answers]
BY DEF TypeOK, Return, Steps

LEMMA GotoType ==
  ASSUME TypeOK, NEW c \in Calls, NEW step \in Steps, Goto(c, step)
  PROVE  pc' \in [Calls -> Steps] /\ answer' \in [Calls -> Answers]
BY DEF TypeOK, Goto

LEMMA StoreType == ASSUME TypeOK, NEW c \in Calls PROVE store(c) \in Stores /\ token(c) \in Tokens
BY DEF TypeOK, store, token, StoreOf, Stores

\* Every step of a call ends at a step and with an answer of their types.
LEMMA CallType ==
  ASSUME TypeOK, NEW c \in Calls, Begin(c) \/ Continue(c)
  PROVE  pc' \in [Calls -> Steps] /\ answer' \in [Calls -> Answers]
<1>1. ASSUME NEW type, Verify(c, type) PROVE pc' \in [Calls -> Steps] /\ answer' \in [Calls -> Answers]
    BY <1>1, GotoType, ReturnType DEF Verify, Steps, Answers
<1>2. CASE Begin(c)
  <2>1. req[c].kind \in Kinds
      BY DEF TypeOK
  <2> QED BY <1>1, <1>2, <2>1, GotoType DEF Begin, Steps, Kinds
<1>3. CASE Check(c)
    BY <1>3, GotoType, ReturnType DEF Check, Steps, Answers
<1>4. CASE FindForRotation(c)
    BY <1>4, ReturnType DEF FindForRotation, Answers
<1>5. CASE RevokeUpdate(c)
    BY <1>5, GotoType DEF RevokeUpdate, Steps
<1>6. CASE RevokeNote(c)
    BY <1>6, ReturnType DEF RevokeNote, Answers
<1>7. CASE FindAll(c)
    BY <1>7, GotoType, ReturnType DEF FindAll, Steps, Answers
<1>8. CASE UpdateAll(c)
    BY <1>8, GotoType, ReturnType DEF UpdateAll, Steps, Answers
<1>9. CASE NoteAll(c)
    BY <1>9, ReturnType DEF NoteAll, Answers
<1>10. CASE Create(c)
    BY <1>10, ReturnType DEF Create, Answers
<1>11. CASE Cleanup(c)
    BY <1>11, ReturnType DEF Cleanup, Answers
<1>12. CASE DbError(c)
    BY <1>12, ReturnType DEF DbError, Answers
<1> QED BY <1>2, <1>3, <1>4, <1>5, <1>6, <1>7, <1>8, <1>9, <1>10, <1>11, <1>12 DEF Continue

-----------------------------------------------------------------------------
(* What a step does to the documents and to the blacklist.                 *)

\* Only RevokeNote notes the revocation of a token, and only NoteAll those of documents.
LEMMA CallFrame ==
  ASSUME NEW c \in Calls, Begin(c) \/ Continue(c)
  PROVE  /\ UNCHANGED <<now, on, req, faults>>
         /\ revokedAt' = revokedAt \/ RevokeNote(c)
         /\ blacklist' = blacklist \/ RevokeNote(c) \/ NoteAll(c)
<1>1. CASE Begin(c) \/ Check(c) \/ FindForRotation(c) \/ RevokeUpdate(c) \/ FindAll(c)
    BY <1>1 DEF Begin, Check, FindForRotation, RevokeUpdate, FindAll
<1>2. CASE RevokeNote(c) \/ NoteAll(c)
    BY <1>2 DEF RevokeNote, NoteAll
<1>3. CASE UpdateAll(c) \/ Create(c) \/ Cleanup(c) \/ DbError(c)
    BY <1>3 DEF UpdateAll, Create, Cleanup, DbError
<1> QED BY <1>1, <1>2, <1>3 DEF Continue

\* No step makes a document, and none brings a revoked one back.
LEMMA CallDocs ==
  ASSUME TypeOK, NEW c \in Calls, Begin(c) \/ Continue(c)
  PROVE  /\ docs' \in [Docs -> {"none", "live", "revoked"}]
         /\ \A d \in Docs : docs[d] = "none" => docs'[d] = "none"
         /\ \A d \in Docs : docs'[d] = "live" => docs[d] = "live"
<1> USE DEF TypeOK
<1>1. CASE UNCHANGED docs
    BY <1>1
<1>2. CASE RevokeUpdate(c)
    BY <1>2, Unfound DEF RevokeUpdate
<1>3. CASE UpdateAll(c)
    BY <1>3 DEF UpdateAll, LiveOf
<1>4. CASE Create(c)
  <2>1. ~(Required \subseteq Given)
      BY DEF Required, Given
  <2> QED BY <1>1, <1>4, <2>1 DEF Create
<1>5. CASE Cleanup(c)
    BY <1>5 DEF Cleanup, Outdated
<1>6. CASE Begin(c) \/ Check(c) \/ FindForRotation(c) \/ RevokeNote(c) \/ FindAll(c) \/ NoteAll(c) \/ DbError(c)
  <2>1. UNCHANGED docs
      BY <1>6 DEF Begin, Check, FindForRotation, RevokeNote, FindAll, NoteAll, DbError
  <2> QED BY <2>1, <1>1
<1> QED BY <1>2, <1>3, <1>4, <1>5, <1>6 DEF Continue

LEMMA CallBlacklist ==
  ASSUME TypeOK, NEW c \in Calls, Begin(c) \/ Continue(c)
  PROVE  /\ blacklist' \in [Stores -> [Keys -> Times]]
         /\ revokedAt' \in [Stores -> [Tokens -> Nat \cup {Absent}]]
<1>0. now \in Nat /\ store(c) \in Stores /\ token(c) \in Tokens
    BY StoreType DEF TypeOK
<1>1. CASE RevokeNote(c)
  <2>1. Until(ttlOf(token(c))) \in Times /\ TokenKey(token(c)) \in Keys
      BY <1>0, TtlType, UntilType DEF Keys
  <2>2. CASE Noted(c)
    <3> DEFINE entry == Until(ttlOf(token(c)))
    <3> HIDE DEF entry
    <3>1. /\ blacklist' = [blacklist EXCEPT ![store(c)][TokenKey(token(c))] = entry]
          /\ revokedAt' = [revokedAt EXCEPT ![store(c)][token(c)] = now]
        BY <1>1, <2>2 DEF RevokeNote, entry
    <3>2. entry \in Times
        BY <2>1 DEF entry
    <3>3. blacklist' \in [Stores -> [Keys -> Times]]
        BY <1>0, <2>1, <3>1, <3>2 DEF TypeOK
    <3>4. revokedAt' \in [Stores -> [Tokens -> Nat \cup {Absent}]]
        BY <1>0, <3>1 DEF TypeOK
    <3> QED BY <3>3, <3>4
  <2>3. CASE ~Noted(c)
      BY <1>1, <2>3 DEF RevokeNote, TypeOK
  <2> QED BY <2>2, <2>3
<1>2. CASE NoteAll(c)
  <2> DEFINE entry(k) == IF ~down /\ \E d \in found[c] : k = UserKey(d)
                           THEN Until(SecondsTo(DocExpiry[k[2]])) ELSE blacklist[store(c)][k]
  <2>1. ASSUME NEW k \in Keys PROVE entry(k) \in Times
    <3>1. CASE \E d \in found[c] : k = UserKey(d)
      <4>1. PICK d \in Docs : k = UserKey(d)
          BY <3>1 DEF TypeOK
      <4>2. k[2] = d /\ DocExpiry[d] \in Nat
          BY <4>1, TokenAssumption DEF UserKey, TokenAssumption
      <4>3. Until(SecondsTo(DocExpiry[k[2]])) \in Times
          BY <1>0, <4>2, SecondsType, UntilType
      <4>4. blacklist[store(c)][k] \in Times
          BY <1>0, <2>1 DEF TypeOK
      <4> QED BY <4>3, <4>4
    <3>2. CASE ~\E d \in found[c] : k = UserKey(d)
        BY <1>0, <2>1, <3>2 DEF TypeOK
    <3> QED BY <3>1, <3>2
  <2>2. blacklist' = [blacklist EXCEPT ![store(c)] = [k \in Keys |-> entry(k)]]
      BY <1>2 DEF NoteAll
  <2> HIDE DEF entry
  <2>3. [k \in Keys |-> entry(k)] \in [Keys -> Times]
      BY <2>1
  <2>4. blacklist' \in [Stores -> [Keys -> Times]]
      BY <1>0, <2>2, <2>3 DEF TypeOK
  <2> QED BY <1>2, <2>4 DEF NoteAll, TypeOK
<1>3. CASE blacklist' = blacklist /\ revokedAt' = revokedAt
    BY <1>3 DEF TypeOK
<1> QED BY <1>1, <1>2, <1>3, CallFrame DEF NoteAll

LEMMA CallFound ==
  ASSUME TypeOK, NEW c \in Calls, Begin(c) \/ Continue(c)
  PROVE  found' \in [Calls -> SUBSET Docs]
<1>1. CASE RevokeUpdate(c)
    BY <1>1 DEF RevokeUpdate, TypeOK
<1>2. CASE FindAll(c)
    BY <1>2 DEF FindAll, LiveOf, TypeOK
<1>3. CASE Begin(c) \/ Check(c) \/ FindForRotation(c) \/ RevokeNote(c) \/ UpdateAll(c) \/ NoteAll(c)
             \/ Create(c) \/ Cleanup(c) \/ DbError(c)
  <2>1. UNCHANGED found
      BY <1>3 DEF Begin, Check, FindForRotation, RevokeNote, UpdateAll, NoteAll, Create, Cleanup, DbError
  <2> QED BY <2>1 DEF TypeOK
<1> QED BY <1>1, <1>2, <1>3 DEF Continue

LEMMA CallStepType == ASSUME TypeOK, NEW c \in Calls, Begin(c) \/ Continue(c) PROVE TypeOK'
<1>1. UNCHANGED <<now, on, req, faults>>
    BY CallFrame
<1>2. /\ pc' \in [Calls -> Steps] /\ answer' \in [Calls -> Answers]
      /\ found' \in [Calls -> SUBSET Docs] /\ docs' \in [Docs -> {"none", "live", "revoked"}]
      /\ blacklist' \in [Stores -> [Keys -> Times]]
      /\ revokedAt' \in [Stores -> [Tokens -> Nat \cup {Absent}]]
    BY CallType, CallFound, CallDocs, CallBlacklist
<1> QED BY <1>1, <1>2 DEF TypeOK, faults

LEMMA CrashStepType == ASSUME TypeOK, NEW i \in Instances, Crash(i) PROVE TypeOK'
<1>1. crashes' \in 0..MaxCrashes
    BY Bounds DEF Crash, TypeOK
<1>2. pc' \in [Calls -> Steps]
    BY DEF Crash, TypeOK, Steps
<1>3. blacklist' \in [Stores -> [Keys -> Times]] /\ revokedAt' \in [Stores -> [Tokens -> Nat \cup {Absent}]]
  <2>1. CASE LocalCache
    <3>1. /\ blacklist' = [blacklist EXCEPT ![i] = [k \in Keys |-> Absent]]
          /\ revokedAt' = [revokedAt EXCEPT ![i] = [t \in Tokens |-> Absent]]
        BY <2>1 DEF Crash
    <3>2. [k \in Keys |-> Absent] \in [Keys -> Times] /\ [t \in Tokens |-> Absent] \in [Tokens -> Nat \cup {Absent}]
        BY DEF Times
    <3> QED BY <3>1, <3>2 DEF TypeOK
  <2>2. CASE ~LocalCache
      BY <2>2 DEF Crash, TypeOK
  <2> QED BY <2>1, <2>2
<1> QED BY <1>1, <1>2, <1>3 DEF Crash, TypeOK

LEMMA FaultStepType ==
  ASSUME TypeOK, (\E d \in Docs : ExpireDocument(d)) \/ Outage \/ Recover \/ Tick
  PROVE  TypeOK'
<1> USE DEF TypeOK, faults
<1>1. CASE \E d \in Docs : ExpireDocument(d)
    BY <1>1 DEF ExpireDocument
<1>2. CASE Outage
  <2>1. outages' \in 0..MaxOutages /\ down' \in BOOLEAN
      BY <1>2, Bounds DEF Outage
  <2> QED BY <1>2, <2>1 DEF Outage
<1>3. CASE Recover
    BY <1>3 DEF Recover
<1>4. CASE Tick
  <2>1. now' \in 0..Horizon
      BY <1>4, Bounds DEF Tick
  <2> QED BY <1>4, <2>1 DEF Tick
<1> QED BY <1>1, <1>2, <1>3, <1>4

LEMMA StepType == TypeOK /\ [Next]_vars => TypeOK'
<1> SUFFICES ASSUME TypeOK, [Next]_vars PROVE TypeOK'
    OBVIOUS
<1>1. CASE UNCHANGED vars
    BY <1>1 DEF TypeOK, vars
<1> QED BY <1>1, CallStepType, CrashStepType, FaultStepType DEF Next, Rest

\* Documents, entries of the blacklist and answers keep their types; in particular a time
\* to live is never negative (token.service.ts:349-374).
THEOREM TypeSafe == Spec => []TypeOK
BY InitType, StepType, PTL DEF Spec

-----------------------------------------------------------------------------
(* What an entry of the blacklist says of the revocation it was made for.  *)

\* An entry is there exactly for a revocation the store took before the token expired, and
\* until the revocation is no longer good for anything.
EntryFits(s, t) ==
  LET r == revokedAt[s][t]
      entry == blacklist[s][TokenKey(t)]
  IN IF r = Absent THEN entry = Absent
     ELSE /\ entry = IF GoodFor(t, r) = 0 THEN Forever ELSE r + GoodFor(t, r)
          /\ Exp[t] # NoExp => Exp[t] * Second > r

EntriesFit == \A s \in Stores, t \in Tokens : EntryFits(s, t)

\* The time to live that a revocation gives its entry is what the revocation is good for.
LEMMA TtlIsGood ==
  ASSUME NEW t \in Tokens, now \in Nat, Exp[t] = NoExp \/ Exp[t] * Second > now
  PROVE  ttlOf(t) = GoodFor(t, now)
BY DEF ttlOf, GoodFor, SecondsTo

LEMMA GoodForType ==
  ASSUME NEW t \in Tokens, NEW r \in Nat, Exp[t] # NoExp => Exp[t] * Second > r
  PROVE  /\ GoodFor(t, r) \in Nat
         /\ Exp[t] # NoExp /\ GoodFor(t, r) = 0 => Exp[t] * Second - r < Second
         /\ Exp[t] # NoExp => r + GoodFor(t, r) <= Exp[t] * Second
<1>1. CASE Exp[t] = NoExp
    BY <1>1, TokenAssumption DEF GoodFor, TokenAssumption
<1>2. CASE Exp[t] # NoExp
  <2> DEFINE left == Exp[t] * Second - r
  <2>1. left \in Nat /\ Exp[t] * Second = r + left /\ Exp[t] * Second \in Nat
      BY <1>2, ExpType
  <2>2. GoodFor(t, r) = left \div Second
      BY <1>2 DEF GoodFor
  <2> HIDE DEF left
  <2>3. /\ left \div Second \in Nat /\ left \div Second <= left
        /\ left \div Second = 0 => left < Second
      BY <2>1, Divided
  <2> QED BY <2>1, <2>2, <2>3
<1> QED BY <1>1, <1>2

\* A step that leaves the store's entry and revocation of a token alone keeps them fitting.
LEMMA EntryKept ==
  ASSUME NEW s \in Stores, NEW t \in Tokens, EntryFits(s, t),
         revokedAt'[s][t] = revokedAt[s][t], blacklist'[s][TokenKey(t)] = blacklist[s][TokenKey(t)]
  PROVE  EntryFits(s, t)'
BY DEF EntryFits, GoodFor

LEMMA NoteFits ==
  ASSUME TypeOK, EntriesFit, NEW c \in Calls, RevokeNote(c)
  PROVE  EntriesFit'
<1>0. now \in Nat /\ store(c) \in Stores /\ token(c) \in Tokens /\ now # Absent
  <2>1. now \in Nat
      BY Bounds DEF TypeOK
  <2>2. Absent \notin Nat
      BY TokenAssumption DEF TokenAssumption
  <2> QED BY <2>1, <2>2, StoreType
<1>1. SUFFICES ASSUME NEW s \in Stores, NEW t \in Tokens PROVE EntryFits(s, t)'
    BY DEF EntriesFit, Stores
<1>2. EntryFits(s, t)
    BY DEF EntriesFit
<1>3. CASE ~Noted(c)
    BY <1>2, <1>3, EntryKept DEF RevokeNote
<1>4. CASE Noted(c)
  <2> DEFINE until == Until(ttlOf(token(c)))
  <2>1. /\ blacklist' = [blacklist EXCEPT ![store(c)][TokenKey(token(c))] = until]
        /\ revokedAt' = [revokedAt EXCEPT ![store(c)][token(c)] = now]
      BY <1>4 DEF RevokeNote
  <2> HIDE DEF until
  <2>2. CASE s = store(c) /\ t = token(c)
    <3>0. TokenKey(token(c)) \in Keys
        BY <1>0 DEF Keys
    <3>1. revokedAt'[s][t] = now /\ blacklist'[s][TokenKey(t)] = until
        BY <1>0, <2>1, <2>2, <3>0 DEF TypeOK
    <3>2. Exp[t] = NoExp \/ Exp[t] * Second > now
        BY <1>4, <2>2 DEF Noted
    <3>3. until = IF GoodFor(t, now) = 0 THEN Forever ELSE now + GoodFor(t, now)
        BY <1>0, <2>2, <3>2, TtlIsGood DEF until, Until
    <3> QED BY <1>0, <3>1, <3>2, <3>3 DEF EntryFits, GoodFor
  <2>3. CASE ~(s = store(c) /\ t = token(c))
    <3>1. TokenKey(t) = TokenKey(token(c)) => t = token(c)
        BY DEF TokenKey
    <3>2. revokedAt'[s][t] = revokedAt[s][t] /\ blacklist'[s][TokenKey(t)] = blacklist[s][TokenKey(t)]
        BY <1>0, <2>1, <2>3, <3>1 DEF TypeOK, Keys
    <3> QED BY <1>2, <3>2, EntryKept
  <2> QED BY <2>2, <2>3
<1> QED BY <1>3, <1>4

\* The entries of documents are under keys of their own.
LEMMA NoteAllFits ==
  ASSUME TypeOK, EntriesFit, NEW c \in Calls, NoteAll(c)
  PROVE  EntriesFit'
<1>0. store(c) \in Stores
    BY StoreType
<1>1. SUFFICES ASSUME NEW s \in Stores, NEW t \in Tokens PROVE EntryFits(s, t)'
    BY DEF EntriesFit, Stores
<1>2. EntryFits(s, t) /\ TokenKey(t) \in Keys
    BY DEF EntriesFit, Keys
<1>3. \A d \in found[c] : TokenKey(t) # UserKey(d)
    BY DEF TokenKey, UserKey
<1>4. revokedAt' = revokedAt
    BY DEF NoteAll
<1>5. blacklist'[s][TokenKey(t)] = blacklist[s][TokenKey(t)]
    BY <1>0, <1>2, <1>3 DEF NoteAll, TypeOK
<1> QED BY <1>2, <1>4, <1>5, EntryKept

LEMMA CrashFits ==
  ASSUME TypeOK, EntriesFit, NEW i \in Instances, Crash(i)
  PROVE  EntriesFit'
<1>1. SUFFICES ASSUME NEW s \in Stores, NEW t \in Tokens PROVE EntryFits(s, t)'
    BY DEF EntriesFit, Stores
<1>2. EntryFits(s, t) /\ TokenKey(t) \in Keys
    BY DEF EntriesFit, Keys
<1>3. CASE LocalCache /\ s = i
  <2>1. revokedAt'[s][t] = Absent /\ blacklist'[s][TokenKey(t)] = Absent
      BY <1>2, <1>3 DEF Crash, TypeOK
  <2> QED BY <2>1 DEF EntryFits
<1>4. CASE ~(LocalCache /\ s = i)
  <2>1. revokedAt'[s][t] = revokedAt[s][t] /\ blacklist'[s][TokenKey(t)] = blacklist[s][TokenKey(t)]
      BY <1>4 DEF Crash, TypeOK
  <2> QED BY <1>2, <2>1, EntryKept
<1> QED BY <1>3, <1>4

LEMMA StepFits == TypeOK /\ EntriesFit /\ [Next]_vars => EntriesFit'
<1> SUFFICES ASSUME TypeOK, EntriesFit, [Next]_vars PROVE EntriesFit'
    OBVIOUS
<1>1. CASE UNCHANGED <<blacklist, revokedAt>>
    BY <1>1, EntryKept DEF EntriesFit, Stores
<1>2. ASSUME NEW c \in Calls, Begin(c) \/ Continue(c) PROVE EntriesFit'
    BY <1>1, <1>2, NoteFits, NoteAllFits, CallFrame
<1>3. CASE (\E d \in Docs : ExpireDocument(d)) \/ Outage \/ Recover \/ Tick \/ Rest \/ UNCHANGED vars
  <2>1. UNCHANGED <<blacklist, revokedAt>>
      BY <1>3 DEF ExpireDocument, Outage, Recover, Tick, Rest, vars
  <2> QED BY <1>1, <2>1
<1> QED BY <1>2, <1>3, CrashFits DEF Next

\* Every entry fits its revocation, with crashes, outages and concurrent calls
\* (token.service.ts:349-374).
THEOREM EntriesAlwaysFit == Spec => []EntriesFit
<1>1. ASSUME Init PROVE EntriesFit
  <2>1. \A t \in Tokens : TokenKey(t) \in Keys
      BY DEF Keys
  <2> QED BY <1>1, <2>1 DEF Init, EntriesFit, EntryFits
<1> QED BY <1>1, StepFits, TypeSafe, PTL DEF Spec

LEMMA FitIsInTime == TypeOK /\ EntriesFit => EntriesGoWithTheirToken
<1> SUFFICES ASSUME TypeOK, EntriesFit, NEW s \in Stores, NEW t \in Tokens,
                    blacklist[s][TokenKey(t)] # Absent, Exp[t] # NoExp
             PROVE  IF blacklist[s][TokenKey(t)] = Forever THEN Exp[t] * Second - revokedAt[s][t] < Second
                                                           ELSE blacklist[s][TokenKey(t)] <= Exp[t] * Second
    BY DEF EntriesGoWithTheirToken
<1> DEFINE r == revokedAt[s][t]
<1>1. EntryFits(s, t)
    BY DEF EntriesFit
<1>2. r \in Nat /\ Exp[t] * Second > r /\ r # Absent
    BY <1>1 DEF EntryFits, TypeOK
<1>3. blacklist[s][TokenKey(t)] = IF GoodFor(t, r) = 0 THEN Forever ELSE r + GoodFor(t, r)
    BY <1>1, <1>2 DEF EntryFits
<1> HIDE DEF r
<1>4. /\ GoodFor(t, r) \in Nat
      /\ GoodFor(t, r) = 0 => Exp[t] * Second - r < Second
      /\ r + GoodFor(t, r) <= Exp[t] * Second
    BY <1>2, GoodForType
<1>5. Forever \notin Nat
    BY TokenAssumption DEF TokenAssumption
<1> QED BY <1>2, <1>3, <1>4, <1>5 DEF r

\* An entry goes before its token expires, but for one made in the token's last second
\* (token.service.ts:359).
THEOREM EntriesInTime == Spec => []EntriesGoWithTheirToken
BY FitIsInTime, TypeSafe, EntriesAlwaysFit, PTL

-----------------------------------------------------------------------------
(* The answers of the calls.                                               *)

\* A call has an answer only when it is done, and no call renews a session.
AnswersFit == \A c \in Calls : (answer[c] # "none" => pc[c] = "done") /\ answer[c] # "renewed"

\* What a step of a call may do to the calls.
LEMMA CallLocal ==
  ASSUME TypeOK, NEW c \in Calls, Begin(c) \/ Continue(c)
  PROVE  /\ pc[c] \notin {"done", "lost"}
         /\ \/ answer' = answer /\ \E step \in Steps : pc' = [pc EXCEPT ![c] = step]
            \/ \E value \in Answers : value # "renewed" /\ Return(c, value)
<1> DEFINE Local == \/ answer' = answer /\ \E step \in Steps : pc' = [pc EXCEPT ![c] = step]
                    \/ \E value \in Answers : value # "renewed" /\ Return(c, value)
<1>a. ASSUME NEW step \in Steps, Goto(c, step) PROVE Local
    BY <1>a DEF Goto
<1>b. ASSUME NEW value \in Answers \ {"renewed"}, Return(c, value) PROVE Local
    BY <1>b
<1>c. ASSUME NEW type, Verify(c, type) PROVE Local
    BY <1>a, <1>b, <1>c DEF Verify, Steps, Answers
<1> HIDE DEF Local
<1>1. CASE Begin(c)
  <2>1. req[c].kind \in Kinds
      BY DEF TypeOK
  <2>2. Local
      BY <1>1, <1>a, <1>c, <2>1 DEF Begin, Steps, Kinds
  <2> QED BY <1>1, <2>2 DEF Begin, Local
<1>2. CASE Check(c)
  <2>1. Local
      BY <1>2, <1>a, <1>b DEF Check, Steps, Answers
  <2> QED BY <1>2, <2>1 DEF Check, Local
<1>3. CASE FindForRotation(c)
  <2>1. Return(c, "refused")
      BY <1>3, Unfound DEF FindForRotation
  <2>2. Local
      BY <1>b, <2>1 DEF Answers
  <2> QED BY <1>3, <2>2 DEF FindForRotation, Local
<1>4. CASE RevokeUpdate(c) \/ RevokeNote(c)
  <2>1. Local
      BY <1>4, <1>a, <1>b DEF RevokeUpdate, RevokeNote, Steps, Answers
  <2> QED BY <1>4, <2>1 DEF RevokeUpdate, RevokeNote, Local
<1>5. CASE FindAll(c) \/ UpdateAll(c) \/ NoteAll(c)
  <2>1. Local
      BY <1>5, <1>a, <1>b DEF FindAll, UpdateAll, NoteAll, Steps, Answers
  <2> QED BY <1>5, <2>1 DEF FindAll, UpdateAll, NoteAll, Local
<1>6. CASE Create(c)
  <2>1. ~(Required \subseteq Given)
      BY DEF Required, Given
  <2>2. Return(c, "error")
      BY <1>6, <2>1 DEF Create
  <2>3. Local
      BY <1>b, <2>2 DEF Answers
  <2> QED BY <1>6, <2>3 DEF Create, Local
<1>7. CASE Cleanup(c) \/ DbError(c)
  <2>1. Local
      BY <1>7, <1>b DEF Cleanup, DbError, Answers
  <2> QED BY <1>7, <2>1 DEF Cleanup, DbError, Local
<1> QED BY <1>1, <1>2, <1>3, <1>4, <1>5, <1>6, <1>7 DEF Continue

LEMMA CallAnswers ==
  ASSUME TypeOK, AnswersFit, NEW c \in Calls, Begin(c) \/ Continue(c)
  PROVE  AnswersFit'
<1>1. CASE answer' = answer /\ \E step \in Steps : pc' = [pc EXCEPT ![c] = step]
    BY <1>1, CallLocal DEF AnswersFit, TypeOK
<1>2. CASE \E value \in Answers : value # "renewed" /\ Return(c, value)
    BY <1>2 DEF AnswersFit, TypeOK, Return
<1> QED BY <1>1, <1>2, CallLocal

\* A step of the environment ends calls, but never one that is done, and answers none.
LEMMA FaultLocal ==
  ASSUME \/ \E d \in Docs : ExpireDocument(d)
         \/ \E i \in Instances : Crash(i)
         \/ Outage \/ Recover \/ Tick \/ Rest \/ UNCHANGED vars
  PROVE  /\ answer' = answer /\ req' = req
         /\ \A c \in Calls : pc'[c] = pc[c] \/ (pc[c] # "done" /\ pc'[c] = "lost")
<1>1. CASE \E i \in Instances : Crash(i)
    BY <1>1 DEF Crash
<1>2. CASE (\E d \in Docs : ExpireDocument(d)) \/ Outage \/ Recover \/ Tick \/ Rest \/ UNCHANGED vars
    BY <1>2 DEF ExpireDocument, Outage, Recover, Tick, Rest, vars
<1> QED BY <1>1, <1>2

LEMMA StepAnswers == TypeOK /\ AnswersFit /\ [Next]_vars => AnswersFit'
<1> SUFFICES ASSUME TypeOK, AnswersFit, [Next]_vars PROVE AnswersFit'
    OBVIOUS
<1>1. CASE \/ \E d \in Docs : ExpireDocument(d)
           \/ \E i \in Instances : Crash(i)
           \/ Outage \/ Recover \/ Tick \/ Rest \/ UNCHANGED vars
    BY <1>1, FaultLocal DEF AnswersFit, TypeOK
<1> QED BY <1>1, CallAnswers DEF Next

LEMMA AnswersAlwaysFit == Spec => []AnswersFit
<1>1. Init => AnswersFit
    BY DEF Init, AnswersFit
<1> QED BY <1>1, StepAnswers, TypeSafe, PTL DEF Spec

\* Only the look-up of the blacklist lets a token pass or refuses it as revoked.
LEMMA CheckDecides ==
  ASSUME TypeOK, AnswersFit, [Next]_vars, NEW c \in Calls,
         Passes(c) \/ (answer[c] = "none" /\ answer'[c] = "revoked")
  PROVE  Check(c)
<1>1. ASSUME NEW o \in Calls, Begin(o) \/ Continue(o) PROVE Check(c)
  <2>1. CASE o # c
    <3>1. pc'[c] = pc[c] /\ answer'[c] = answer[c]
        BY <1>1, <2>1, CallLocal DEF TypeOK, Return
    <3> QED BY <3>1 DEF Passes, AnswersFit
  <2>2. CASE o = c /\ Begin(c)
    <3>1. req[c].kind \in Kinds
        BY DEF TypeOK
    <3>2. answer'[c] # "revoked" \/ answer' = answer
        BY <2>2, <3>1 DEF Begin, Verify, Goto, Return, TypeOK, Kinds
    <3> QED BY <2>2, <3>2 DEF Passes, Begin
  <2>3. CASE o = c /\ Continue(c)
    <3>1. CASE FindForRotation(c) \/ RevokeUpdate(c) \/ RevokeNote(c) \/ FindAll(c)
        BY <3>1 DEF Passes, FindForRotation, RevokeUpdate, RevokeNote, FindAll, Goto, Return, TypeOK
    <3>2. CASE UpdateAll(c) \/ NoteAll(c) \/ Create(c) \/ Cleanup(c)
        BY <3>2 DEF Passes, UpdateAll, NoteAll, Create, Cleanup, Goto, Return, TypeOK
    <3>3. CASE DbError(c)
        BY <3>3 DEF Passes, DbError, Return, TypeOK
    <3> QED BY <2>3, <3>1, <3>2, <3>3 DEF Continue
  <2> QED BY <1>1, <2>1, <2>2, <2>3
<1>2. CASE \/ \E d \in Docs : ExpireDocument(d)
           \/ \E i \in Instances : Crash(i)
           \/ Outage \/ Recover \/ Tick \/ Rest \/ UNCHANGED vars
  <2>1. answer'[c] = answer[c] /\ (pc'[c] = pc[c] \/ pc'[c] = "lost")
      BY <1>2, FaultLocal
  <2> QED BY <2>1 DEF Passes, AnswersFit
<1> QED BY <1>1, <1>2 DEF Next

\* No token passes within the time its revocation is good for while the cache answers
\* (token.service.ts:349-391).
THEOREM RevocationsKept == Spec => RevocationIsKept
<1> DEFINE Kept(c) == LET r == revokedAt[store(c)][token(c)] IN r = Absent \/ now > r + GoodFor(token(c), r)
<1>1. ASSUME TypeOK, AnswersFit, EntriesFit, [Next]_vars PROVE [\A c \in Calls : Passes(c) /\ ~down => Kept(c)]_vars
  <2> SUFFICES ASSUME NEW c \in Calls, Passes(c), ~down PROVE Kept(c)
      OBVIOUS
  <2> DEFINE s == store(c)
             t == token(c)
             r == revokedAt[s][t]
  <2>1. s \in Stores /\ t \in Tokens /\ now \in Nat /\ r \in Nat \cup {Absent}
      BY <1>1, StoreType DEF TypeOK
  <2>2. ~Held(s, TokenKey(t))
    <3>1. Check(c)
        BY <1>1, CheckDecides
    <3>2. ~Blacklisted(c)
        BY <1>1, <3>1 DEF Check, Passes, Return, Goto, TypeOK
    <3> QED BY <3>2 DEF Blacklisted
  <2>3. EntryFits(s, t)
      BY <1>1, <2>1 DEF EntriesFit
  <2>4. ASSUME r # Absent PROVE now > r + GoodFor(t, r)
    <3>1. /\ blacklist[s][TokenKey(t)] = IF GoodFor(t, r) = 0 THEN Forever ELSE r + GoodFor(t, r)
          /\ Exp[t] # NoExp => Exp[t] * Second > r
        BY <2>3, <2>4 DEF EntryFits
    <3>2. r \in Nat /\ GoodFor(t, r) \in Nat
        BY <2>1, <2>4, <3>1, GoodForType
    <3>3. Absent \notin Nat /\ Forever \notin Nat /\ Absent # Forever
        BY TokenAssumption DEF TokenAssumption
    <3> HIDE DEF r
    <3>4. r + GoodFor(t, r) \in Nat
        BY <3>2
    <3> QED BY <2>1, <2>2, <3>1, <3>2, <3>3, <3>4 DEF Held
  <2> QED BY <2>4
<1> QED BY <1>1, TypeSafe, AnswersAlwaysFit, EntriesAlwaysFit, PTL DEF Spec, RevocationIsKept

\* A token is refused as revoked only where its own revocation was taken
\* (token.service.ts:379-391).
THEOREM RefusalsHonest == Spec => RefusalIsHonest
<1>1. ASSUME TypeOK, AnswersFit, EntriesFit, [Next]_vars
      PROVE  [\A c \in Calls : answer[c] = "none" /\ answer'[c] = "revoked"
                => revokedAt[store(c)][token(c)] # Absent]_vars
  <2> SUFFICES ASSUME NEW c \in Calls, answer[c] = "none", answer'[c] = "revoked"
               PROVE  revokedAt[store(c)][token(c)] # Absent
      OBVIOUS
  <2>1. store(c) \in Stores /\ token(c) \in Tokens
      BY <1>1, StoreType
  <2>2. Check(c)
      BY <1>1, CheckDecides
  <2>3. Blacklisted(c)
      BY <1>1, <2>2 DEF Check, Return, Goto, TypeOK
  <2>4. blacklist[store(c)][TokenKey(token(c))] # Absent
      BY <2>3 DEF Blacklisted, Held
  <2>5. EntryFits(store(c), token(c))
      BY <1>1, <2>1 DEF EntriesFit
  <2> QED BY <2>4, <2>5 DEF EntryFits
<1> QED BY <1>1, TypeSafe, AnswersAlwaysFit, EntriesAlwaysFit, PTL DEF Spec, RefusalIsHonest

-----------------------------------------------------------------------------
(* The list of revocations.                                                *)

\* Of two moments d apart, with x left at the later one, the seconds left differ by no more.
LEMMA DividedTogether ==
  ASSUME NEW x \in Nat, NEW d \in Nat
  PROVE  x \div Second <= (x + d) \div Second /\ (x + d) \div Second <= x \div Second + d
<1> DEFINE q == x \div Second
           p == (x + d) \div Second
<1>1. Second \in Nat \ {0}
    BY TokenAssumption DEF TokenAssumption
<1>2. q \in Int /\ Second * q <= x /\ x < Second * q + Second
    BY <1>1, SMTT(30)
<1>3. p \in Int /\ Second * p <= x + d /\ x + d < Second * p + Second
    BY <1>1, SMTT(30)
<1> HIDE DEF q, p
<1>4. ASSUME NEW m \in Int, NEW n \in Int, m <= n PROVE Second * m <= Second * n
    BY <1>1, <1>4, SMTT(30)
<1>5. q <= p
  <2> SUFFICES ASSUME p + 1 <= q PROVE FALSE
      BY <1>2, <1>3
  <2>1. Second * (p + 1) <= Second * q /\ Second * (p + 1) = Second * p + Second
      BY <1>1, <1>2, <1>3, <1>4
  <2> QED BY <1>1, <1>2, <1>3, <2>1
<1>6. p <= q + d
  <2> SUFFICES ASSUME q + d + 1 <= p PROVE FALSE
      BY <1>2, <1>3
  <2>1. Second * (q + d + 1) <= Second * p
      BY <1>2, <1>3, <1>4
  <2>2. Second * (q + d + 1) = Second * q + Second * d + Second
      BY <1>1, <1>2, SMTT(30)
  <2>3. d <= Second * d
      BY <1>1, SMTT(30)
  <2> QED BY <1>1, <1>2, <1>3, <2>1, <2>2, <2>3
<1> QED BY <1>5, <1>6 DEF q, p

\* A revocation at a later moment ends no sooner.
LEMMA LaterEndsNoSooner ==
  ASSUME NEW t \in Tokens, NEW r \in Nat, NEW n \in Nat, r <= n, Exp[t] # NoExp => Exp[t] * Second > n
  PROVE  /\ GoodFor(t, r) = 0 => GoodFor(t, n) = 0
         /\ r + GoodFor(t, r) <= n + GoodFor(t, n)
<1>1. CASE Exp[t] = NoExp
    BY <1>1, TokenAssumption DEF GoodFor, TokenAssumption
<1>2. CASE Exp[t] # NoExp
  <2> DEFINE left == Exp[t] * Second - n
             gone == n - r
  <2>1. left \in Nat /\ gone \in Nat /\ n = r + gone /\ Exp[t] * Second - r = left + gone
      BY <1>2, ExpType
  <2>2. GoodFor(t, n) = left \div Second /\ GoodFor(t, r) = (left + gone) \div Second
      BY <1>2, <2>1 DEF GoodFor
  <2> HIDE DEF left, gone
  <2>3. left \div Second \in Nat /\ (left + gone) \div Second \in Nat
      BY <2>1, Divided
  <2>4. left \div Second <= (left + gone) \div Second /\ (left + gone) \div Second <= left \div Second + gone
      BY <2>1, DividedTogether
  <2> DEFINE a == left \div Second
             b == (left + gone) \div Second
  <2> HIDE DEF a, b
  <2>5. a \in Nat /\ b \in Nat /\ a <= b /\ b <= a + gone /\ GoodFor(t, n) = a /\ GoodFor(t, r) = b
      BY <2>2, <2>3, <2>4 DEF a, b
  <2> QED BY <2>1, <2>5
<1> QED BY <1>1, <1>2

\* Revocations were taken in the past.
TakenBefore == \A s \in Stores, t \in Tokens : revokedAt[s][t] # Absent => revokedAt[s][t] <= now

LEMMA StepTakenBefore == TypeOK /\ TakenBefore /\ [Next]_vars => TakenBefore'
<1> SUFFICES ASSUME TypeOK, TakenBefore, [Next]_vars, NEW s \in Stores, NEW t \in Tokens, revokedAt'[s][t] # Absent
             PROVE  revokedAt'[s][t] <= now'
    BY DEF TakenBefore, Stores
<1>0. now \in Nat /\ revokedAt[s][t] \in Nat \cup {Absent} /\ (revokedAt[s][t] # Absent => revokedAt[s][t] <= now)
    BY Bounds DEF TypeOK, TakenBefore
<1>1. ASSUME NEW c \in Calls, Begin(c) \/ Continue(c) PROVE revokedAt'[s][t] <= now'
  <2>1. now' = now /\ (revokedAt' = revokedAt \/ RevokeNote(c))
      BY <1>1, CallFrame
  <2>2. revokedAt' = revokedAt \/ revokedAt' = [revokedAt EXCEPT ![store(c)][token(c)] = now]
      BY <2>1 DEF RevokeNote
  <2>3. revokedAt'[s][t] \in {revokedAt[s][t], now}
      BY <2>2, StoreType DEF TypeOK
  <2> QED BY <1>0, <2>1, <2>3
<1>2. ASSUME NEW i \in Instances, Crash(i) PROVE revokedAt'[s][t] <= now'
  <2>1. now' = now /\ revokedAt'[s][t] \in {revokedAt[s][t], Absent}
      BY <1>2 DEF Crash, TypeOK
  <2> QED BY <1>0, <2>1
<1>3. CASE (\E d \in Docs : ExpireDocument(d)) \/ Outage \/ Recover \/ Tick \/ Rest \/ UNCHANGED vars
  <2>1. revokedAt' = revokedAt /\ now' \in {now, now + 1}
      BY <1>3 DEF ExpireDocument, Outage, Recover, Tick, Rest, vars
  <2> QED BY <1>0, <2>1
<1> QED BY <1>1, <1>2, <1>3 DEF Next

LEMMA AlwaysTakenBefore == Spec => []TakenBefore
<1>1. Init => TakenBefore
    BY DEF Init, TakenBefore
<1> QED BY <1>1, StepTakenBefore, TypeSafe, PTL DEF Spec

ListInv == TypeOK /\ AnswersFit /\ EntriesFit /\ TakenBefore

\* What the list shows of one entry.
LEMMA Shown ==
  ASSUME TypeOK, NEW s \in Stores, NEW t \in Tokens
  PROVE  /\ TokenEntries[s][t] = blacklist[s][TokenKey(t)]
         /\ blacklist[s][TokenKey(t)] \in Times
         /\ List!Revoked(s, t) <=> ~down /\ Held(s, TokenKey(t))
<1>1. TokenEntries[s][t] = blacklist[s][TokenKey(t)]
    BY DEF TokenEntries
<1>2. blacklist[s][TokenKey(t)] \in Times
  <2>1. TokenKey(t) \in Keys
      BY DEF Keys
  <2> QED BY <2>1 DEF TypeOK
<1>3. Absent \notin Nat /\ Forever \notin Nat
    BY TokenAssumption DEF TokenAssumption
<1> QED BY <1>1, <1>2, <1>3 DEF List!Revoked, Held, Times

LEMMA EntriesUnseen == blacklist' = blacklist => TokenEntries' = TokenEntries
BY DEF TokenEntries

\* A step of a call shows, if it does, in its own answer.
LEMMA CallShows ==
  ASSUME ListInv, NEW c \in Calls, Begin(c) \/ Continue(c)
  PROVE  /\ UNCHANGED <<now, down, crashes, Presented>>
         /\ \A o \in Calls \ {c} : (o \in LetPass' <=> o \in LetPass) /\ (o \in TurnedAway' <=> o \in TurnedAway)
         /\ c \in LetPass => pc[c] = "finding"
         /\ c \notin TurnedAway
<1>1. UNCHANGED <<now, on, req, faults>>
    BY CallFrame
<1>2. UNCHANGED <<now, down, crashes, Presented>>
    BY <1>1 DEF faults, Presented, store, token
<1>3. \A o \in Calls \ {c} : pc'[o] = pc[o] /\ answer'[o] = answer[o]
    BY CallLocal DEF ListInv, TypeOK, Return
<1>4. answer[c] = "none"
    BY CallLocal DEF ListInv, AnswersFit
<1> QED BY <1>2, <1>3, <1>4 DEF LetPass, TurnedAway

\* A step of a call that the list does not see, or sees as the end of the call.
LEMMA CallLeaves ==
  ASSUME ListInv, NEW c \in Calls, Begin(c) \/ Continue(c), TokenEntries' = TokenEntries,
         pc'[c] # "finding", answer'[c] \notin {"accepted", "revoked"}
  PROVE  List!Leave
<1>1. c \notin LetPass' /\ c \notin TurnedAway'
    BY DEF LetPass, TurnedAway
<1>2. LetPass' \subseteq LetPass
    BY <1>1, CallShows DEF LetPass
<1>3. TurnedAway' = TurnedAway
    BY <1>1, CallShows DEF TurnedAway
<1> QED BY <1>2, <1>3, CallShows DEF List!Leave

LEMMA CheckShows ==
  ASSUME ListInv, NEW c \in Calls, Check(c)
  PROVE  List!Pass(c) \/ List!Stop(c)
<1>1. store(c) \in Stores /\ token(c) \in Tokens
    BY StoreType DEF ListInv
<1>2. Presented[c].store = store(c) /\ Presented[c].token = token(c)
    BY DEF Presented
<1>3. List!Revoked(store(c), token(c)) <=> Blacklisted(c)
    BY <1>1, Shown DEF ListInv, Blacklisted
<1>4. TokenEntries' = TokenEntries
    BY EntriesUnseen DEF Check
<1>5. c \notin LetPass /\ c \notin TurnedAway /\ Continue(c)
    BY CallShows DEF Continue, Check
<1>6. CASE Blacklisted(c)
  <2>1. pc'[c] = "done" /\ answer'[c] = "revoked"
      BY <1>6 DEF Check, Return, ListInv, TypeOK
  <2>2. TurnedAway' = TurnedAway \cup {c} /\ LetPass' = LetPass
    <3>1. c \in TurnedAway' /\ c \notin LetPass'
        BY <2>1 DEF TurnedAway, LetPass
    <3> QED BY <1>5, <3>1, CallShows DEF TurnedAway, LetPass
  <2> QED BY <1>2, <1>3, <1>4, <1>5, <1>6, <2>2, CallShows DEF List!Stop
<1>7. CASE ~Blacklisted(c)
  <2>1. answer'[c] # "revoked" /\ (pc'[c] = "finding" \/ answer'[c] = "accepted")
      BY <1>5, <1>7 DEF Check, Return, Goto, ListInv, TypeOK, TurnedAway
  <2>2. LetPass' = LetPass \cup {c} /\ TurnedAway' = TurnedAway
    <3>1. c \notin TurnedAway' /\ c \in LetPass'
        BY <2>1 DEF TurnedAway, LetPass
    <3> QED BY <1>5, <3>1, CallShows DEF TurnedAway, LetPass
  <2> QED BY <1>2, <1>3, <1>4, <1>5, <1>7, <2>2, CallShows DEF List!Pass
<1> QED BY <1>6, <1>7

\* A revocation taken again ends no sooner than before, and with its token at the latest.
LEMMA EndMoves ==
  ASSUME ListInv, NEW s \in Stores, NEW t \in Tokens, Exp[t] # NoExp => Exp[t] * Second > now,
         NEW end, end = Until(ttlOf(t))
  PROVE  /\ end # Absent
         /\ List!NoSooner(end, blacklist[s][TokenKey(t)])
         /\ end # Forever => now <= end /\ (Expiries[t] # Forever => end <= Expiries[t])
<1> DEFINE r == revokedAt[s][t]
           entry == blacklist[s][TokenKey(t)]
<1>0. now \in Nat /\ Absent \notin Nat /\ Forever \notin Nat /\ Absent # Forever
    BY Bounds, TokenAssumption DEF ListInv, TypeOK, TokenAssumption
<1>1. end = IF GoodFor(t, now) = 0 THEN Forever ELSE now + GoodFor(t, now)
    BY <1>0, TtlIsGood DEF Until
<1>2. GoodFor(t, now) \in Nat /\ (Exp[t] # NoExp => now + GoodFor(t, now) <= Exp[t] * Second)
    BY <1>0, GoodForType
<1>3. end # Absent
    BY <1>0, <1>1, <1>2
<1>4. List!NoSooner(end, entry)
  <2>1. EntryFits(s, t) /\ r \in Nat \cup {Absent} /\ (r # Absent => r <= now)
      BY DEF ListInv, EntriesFit, TakenBefore, TypeOK
  <2>2. CASE r = Absent
      BY <2>1, <2>2 DEF EntryFits, List!NoSooner
  <2>3. CASE r # Absent
    <3>1. entry = IF GoodFor(t, r) = 0 THEN Forever ELSE r + GoodFor(t, r)
        BY <2>1, <2>3 DEF EntryFits
    <3>2. r \in Nat /\ r <= now /\ (Exp[t] # NoExp => Exp[t] * Second > r)
        BY <2>1, <2>3 DEF EntryFits
    <3> HIDE DEF r, entry
    <3>3. GoodFor(t, r) \in Nat
        BY <3>2, GoodForType
    <3>4. /\ GoodFor(t, r) = 0 => GoodFor(t, now) = 0
          /\ r + GoodFor(t, r) <= now + GoodFor(t, now)
        BY <1>0, <3>2, LaterEndsNoSooner
    <3>5. entry # Forever => entry = r + GoodFor(t, r) /\ GoodFor(t, r) # 0
        BY <3>1
    <3> QED BY <1>0, <1>1, <1>2, <3>1, <3>2, <3>3, <3>4, <3>5 DEF List!NoSooner
  <2> QED BY <2>2, <2>3
<1>5. ASSUME end # Forever PROVE now <= end /\ (Expiries[t] # Forever => end <= Expiries[t])
  <2>1. end = now + GoodFor(t, now)
      BY <1>1, <1>5
  <2>2. Expiries[t] # Forever => Exp[t] # NoExp /\ Expiries[t] = Exp[t] * Second
      BY DEF Expiries
  <2> QED BY <1>0, <1>2, <2>1, <2>2
<1> QED BY <1>3, <1>4, <1>5

LEMMA RevokeNoteShows ==
  ASSUME ListInv, NEW c \in Calls, RevokeNote(c)
  PROVE  List!Leave \/ List!Revoke(store(c), token(c))
<1>0. store(c) \in Stores /\ token(c) \in Tokens /\ Continue(c)
    BY StoreType DEF ListInv, Continue
<1>1. /\ pc[c] = "blacklisting" /\ pc'[c] = "done" /\ answer'[c] \in {"yes", "no"}
    BY DEF RevokeNote, Return, ListInv, TypeOK
<1>2. CASE ~Noted(c)
    BY <1>0, <1>1, <1>2, EntriesUnseen, CallLeaves DEF RevokeNote
<1>3. CASE Noted(c)
  <2> DEFINE s == store(c)
             t == token(c)
             end == Until(ttlOf(token(c)))
  <2>1. ~down /\ (Exp[t] # NoExp => Exp[t] * Second > now)
      BY <1>3 DEF Noted
  <2>2. blacklist' = [blacklist EXCEPT ![s][TokenKey(t)] = end]
      BY <1>3 DEF RevokeNote
  <2> HIDE DEF end
  <2>3. PICK s0 \in Stores, t0 \in Tokens : s0 = s /\ t0 = t
      BY <1>0
  <2> HIDE DEF s, t
  <2>4. TokenEntries' = [TokenEntries EXCEPT ![s0][t0] = end]
    <3>1. ASSUME NEW x \in Stores, NEW y \in Tokens
          PROVE  blacklist'[x][TokenKey(y)] = IF x = s0 /\ y = t0 THEN end ELSE blacklist[x][TokenKey(y)]
      <4>1. TokenKey(y) \in Keys /\ TokenKey(t0) \in Keys /\ (TokenKey(y) = TokenKey(t0) <=> y = t0)
          BY DEF Keys, TokenKey
      <4> QED BY <2>2, <2>3, <4>1 DEF ListInv, TypeOK
    <3>2. TokenEntries' = [x \in Stores |-> [y \in Tokens |-> blacklist'[x][TokenKey(y)]]]
        BY DEF TokenEntries, Stores
    <3> QED BY <3>1, <3>2 DEF TokenEntries
  <2>5. TokenEntries'[s0][t0] = end /\ TokenEntries[s0][t0] = blacklist[s0][TokenKey(t0)]
      BY <2>4 DEF TokenEntries
  <2>6. /\ end # Absent
        /\ List!NoSooner(end, blacklist[s0][TokenKey(t0)])
        /\ end # Forever => now <= end /\ (Expiries[t0] # Forever => end <= Expiries[t0])
      BY <2>1, <2>3, EndMoves DEF end, s, t
  <2>7. LetPass' = LetPass /\ TurnedAway' = TurnedAway
    <3>1. c \notin LetPass' /\ c \notin TurnedAway' /\ c \notin LetPass /\ c \notin TurnedAway
        BY <1>0, <1>1, CallShows DEF LetPass, TurnedAway
    <3> QED BY <1>0, <3>1, CallShows DEF LetPass, TurnedAway
  <2>8. List!NoSooner(TokenEntries'[s0][t0], TokenEntries[s0][t0])
      BY <2>5, <2>6 DEF List!NoSooner
  <2>9. UNCHANGED <<now, down, crashes, Presented>>
      BY <1>0, CallShows
  <2>10. List!Revoke(s0, t0)
      BY <2>1, <2>4, <2>5, <2>6, <2>7, <2>8, <2>9 DEF List!Revoke, List!NoSooner
  <2> QED BY <2>3, <2>10 DEF s, t
<1> QED BY <1>2, <1>3

LEMMA CallKeepsList ==
  ASSUME ListInv, NEW c \in Calls, Begin(c) \/ Continue(c)
  PROVE  List!Next
<1>1. CASE Check(c)
    BY <1>1, CheckShows DEF List!Next
<1>2. CASE RevokeNote(c)
    BY <1>2, RevokeNoteShows, StoreType DEF List!Next, ListInv
<1>3. ASSUME TokenEntries' = TokenEntries, pc'[c] # "finding", answer'[c] \notin {"accepted", "revoked"}
      PROVE  List!Next
    BY <1>3, CallLeaves DEF List!Next
<1>4. answer[c] = "none"
    BY CallLocal DEF ListInv, AnswersFit
<1>5. CASE Begin(c)
  <2>1. req[c].kind \in Kinds
      BY DEF ListInv, TypeOK
  <2>2. pc'[c] # "finding" /\ answer'[c] \notin {"accepted", "revoked"}
      BY <1>4, <1>5, <2>1 DEF Begin, Verify, Goto, Return, ListInv, TypeOK, Kinds
  <2> QED BY <1>3, <1>5, <2>2, EntriesUnseen DEF Begin
<1>6. CASE NoteAll(c)
  <2>1. ASSUME NEW s \in Stores, NEW t \in Tokens PROVE blacklist'[s][TokenKey(t)] = blacklist[s][TokenKey(t)]
    <3>1. TokenKey(t) \in Keys /\ \A d \in found[c] : TokenKey(t) # UserKey(d)
        BY DEF Keys, TokenKey, UserKey
    <3> QED BY <1>6, <3>1, StoreType DEF NoteAll, ListInv, TypeOK
  <2>2. TokenEntries' = TokenEntries
      BY <2>1 DEF TokenEntries, Stores
  <2> QED BY <1>3, <1>6, <2>2 DEF NoteAll, Return, ListInv, TypeOK
<1>7. CASE FindForRotation(c) \/ RevokeUpdate(c) \/ FindAll(c) \/ UpdateAll(c)
  <2>1. blacklist' = blacklist /\ pc'[c] # "finding" /\ answer'[c] \notin {"accepted", "revoked"}
      BY <1>4, <1>7 DEF FindForRotation, RevokeUpdate, FindAll, UpdateAll, Goto, Return, ListInv, TypeOK
  <2> QED BY <1>3, <2>1, EntriesUnseen
<1>8. CASE Create(c) \/ Cleanup(c) \/ DbError(c)
  <2>1. blacklist' = blacklist /\ pc'[c] # "finding" /\ answer'[c] \notin {"accepted", "revoked"}
      BY <1>4, <1>8 DEF Create, Cleanup, DbError, Return, ListInv, TypeOK
  <2> QED BY <1>3, <2>1, EntriesUnseen
<1> QED BY <1>1, <1>2, <1>5, <1>6, <1>7, <1>8 DEF Continue

LEMMA CrashKeepsList ==
  ASSUME ListInv, NEW i \in Instances, Crash(i)
  PROVE  List!Next
<1>1. UNCHANGED <<now, down, Presented>> /\ TurnedAway' = TurnedAway /\ crashes' = crashes + 1
    BY DEF Crash, Presented, store, token, TurnedAway
<1>2. LetPass' \subseteq LetPass
    BY DEF Crash, LetPass, ListInv, TypeOK
<1>3. CASE LocalCache
  <2>1. i \in Stores
      BY <1>3 DEF Stores
  <2>2. blacklist' = [blacklist EXCEPT ![i] = [k \in Keys |-> Absent]]
      BY <1>3 DEF Crash
  <2>3. ASSUME NEW s \in Stores, NEW t \in Tokens
        PROVE  blacklist'[s][TokenKey(t)] = IF s = i THEN Absent ELSE blacklist[s][TokenKey(t)]
    <3>1. TokenKey(t) \in Keys
        BY DEF Keys
    <3> QED BY <2>2, <3>1 DEF ListInv, TypeOK
  <2>4. TokenEntries' = [s \in Stores |-> [t \in Tokens |-> blacklist'[s][TokenKey(t)]]]
      BY DEF TokenEntries, Stores
  <2>5. TokenEntries' = [TokenEntries EXCEPT ![i] = [t \in Tokens |-> Absent]]
      BY <2>3, <2>4 DEF TokenEntries
  <2>6. List!Restart(i)
      BY <1>1, <1>2, <2>5 DEF List!Restart
  <2> QED BY <2>1, <2>6 DEF List!Next
<1>4. CASE ~LocalCache
  <2>1. TokenEntries' = TokenEntries
      BY <1>4, EntriesUnseen DEF Crash
  <2>2. List!Restart("redis") /\ "redis" \in Stores
      BY <1>1, <1>2, <1>4, <2>1 DEF List!Restart, Stores
  <2> QED BY <2>2 DEF List!Next
<1> QED BY <1>3, <1>4

LEMMA ListStep == ListInv /\ [Next]_vars => [List!Next]_(List!vars)
<1> SUFFICES ASSUME ListInv, [Next]_vars PROVE List!Next \/ UNCHANGED List!vars
    OBVIOUS
<1> USE DEF List!vars
<1>1. ASSUME UNCHANGED <<on, req, blacklist, pc, answer>>
      PROVE  UNCHANGED <<TokenEntries, Presented, LetPass, TurnedAway>>
    BY <1>1, EntriesUnseen DEF Presented, store, token, LetPass, TurnedAway
<1>2. CASE (\E d \in Docs : ExpireDocument(d)) \/ Rest \/ UNCHANGED vars
    BY <1>1, <1>2 DEF ExpireDocument, Rest, vars, faults
<1>3. CASE Outage \/ Recover
  <2>1. List!Turn
      BY <1>1, <1>3 DEF Outage, Recover, List!Turn, ListInv, TypeOK
  <2> QED BY <2>1 DEF List!Next
<1>4. CASE Tick
  <2>1. List!Tick
      BY <1>1, <1>4 DEF Tick, faults, List!Tick
  <2> QED BY <2>1 DEF List!Next
<1> QED BY <1>2, <1>3, <1>4, CallKeepsList, CrashKeepsList DEF Next

\* The entries of the cache are a list of revocations: a token does not pass before its
\* revocation ends, and revoking it again does not bring the end forward, whatever calls,
\* crashes and outages come between (token.service.ts:199-228, 349-391).
THEOREM RevocationListImplemented == Spec => ImplementsRevocationList
<1>1. ASSUME Init PROVE List!Init
  <2>1. \A t \in Tokens : TokenKey(t) \in Keys
      BY DEF Keys
  <2>2. TokenEntries = [s \in Stores |-> [t \in Tokens |-> Absent]]
      BY <1>1, <2>1 DEF Init, TokenEntries
  <2>3. Presented \in [Calls -> [store : Stores, token : Tokens]]
      BY <1>1, InitType, StoreType DEF Presented
  <2>4. LetPass = {} /\ TurnedAway = {}
      BY <1>1 DEF Init, LetPass, TurnedAway
  <2> QED BY <1>1, <2>2, <2>3, <2>4 DEF Init, List!Init
<1>2. Spec => []ListInv
    BY TypeSafe, AnswersAlwaysFit, EntriesAlwaysFit, AlwaysTakenBefore, PTL DEF ListInv
<1> QED BY <1>1, <1>2, ListStep, PTL DEF Spec, ImplementsRevocationList, List!Spec

-----------------------------------------------------------------------------
(* Revoking all tokens of a user.                                          *)

\* After the update no document of the user is live, also while its keys are noted.
CompleteBy(c) ==
  /\ pc[c] \in {"updating", "blacklisting"} => req[c].kind = "revoke"
  /\ pc[c] = "notingAll" => LiveOf(req[c].user) = {}
  /\ pc[c] = "done" /\ req[c].kind = "revokeAll" /\ answer[c] = "yes" => LiveOf(req[c].user) = {}

Complete == \A c \in Calls : CompleteBy(c)

\* What ends stays ended: no document becomes live.
LEMMA EndedStays ==
  ASSUME TypeOK, NEW c \in Calls, CompleteBy(c), req' = req,
         \A d \in Docs : docs'[d] = "live" => docs[d] = "live",
         (pc'[c] = pc[c] /\ answer'[c] = answer[c]) \/ pc'[c] = "lost"
  PROVE  CompleteBy(c)'
BY DEF CompleteBy, LiveOf

LEMMA CallComplete ==
  ASSUME TypeOK, Complete, NEW c \in Calls, Begin(c) \/ Continue(c)
  PROVE  Complete'
<1>0. /\ req' = req
      /\ \A d \in Docs : docs'[d] = "live" => docs[d] = "live"
    BY CallFrame, CallDocs
<1>1. ASSUME NEW o \in Calls, o # c PROVE CompleteBy(o)'
  <2>1. pc'[o] = pc[o] /\ answer'[o] = answer[o]
      BY <1>1, CallLocal DEF TypeOK, Return
  <2> QED BY <1>0, <2>1, EndedStays DEF Complete
<1>2. CompleteBy(c)'
  <2>1. CASE Begin(c)
    <3>1. req[c].kind \in Kinds
        BY DEF TypeOK
    <3>2. /\ pc'[c] \notin {"blacklisting", "notingAll"}
          /\ pc'[c] = "updating" => req[c].kind = "revoke"
          /\ pc'[c] = "done" => req[c].kind # "revokeAll"
        BY <2>1, <3>1 DEF Begin, Verify, Goto, Return, TypeOK, Kinds
    <3> QED BY <1>0, <3>2 DEF CompleteBy
  <2>2. CASE Check(c) \/ FindForRotation(c) \/ Create(c) \/ Cleanup(c) \/ DbError(c)
    <3>1. pc'[c] \in {"finding", "done"}
        BY <2>2 DEF Check, FindForRotation, Create, Cleanup, DbError, Goto, Return, TypeOK
    <3>2. pc'[c] = "done" => answer'[c] # "yes"
        BY <2>2 DEF Check, FindForRotation, Create, Cleanup, DbError, Goto, Return, TypeOK
    <3> QED BY <3>1, <3>2 DEF CompleteBy
  <2>3. CASE RevokeUpdate(c)
    <3>1. pc[c] = "updating" /\ pc'[c] = "blacklisting"
        BY <2>3 DEF RevokeUpdate, Goto, TypeOK
    <3> QED BY <1>0, <3>1 DEF Complete, CompleteBy
  <2>4. CASE RevokeNote(c)
    <3>1. pc[c] = "blacklisting" /\ pc'[c] = "done"
        BY <2>4 DEF RevokeNote, Return, TypeOK
    <3> QED BY <1>0, <3>1 DEF Complete, CompleteBy
  <2>5. CASE FindAll(c)
    <3>1. docs' = docs /\ pc'[c] \in {"done", "revokingAll"}
        BY <2>5 DEF FindAll, Return, Goto, TypeOK
    <3>2. pc'[c] = "done" => LiveOf(req[c].user) = {}
        BY <2>5 DEF FindAll, Return, Goto, TypeOK
    <3> QED BY <1>0, <3>1, <3>2 DEF CompleteBy, LiveOf
  <2>6. CASE UpdateAll(c)
    <3>1. \A d \in Docs : DocUser[d] = req[c].user => docs'[d] # "live"
        BY <2>6 DEF UpdateAll, LiveOf, TypeOK
    <3>2. pc'[c] \in {"notingAll", "done"}
        BY <2>6 DEF UpdateAll, Goto, Return, TypeOK
    <3> QED BY <1>0, <3>1, <3>2 DEF CompleteBy, LiveOf
  <2>7. CASE NoteAll(c)
    <3>1. pc[c] = "notingAll" /\ pc'[c] = "done" /\ docs' = docs
        BY <2>7 DEF NoteAll, Return, TypeOK
    <3> QED BY <1>0, <3>1 DEF Complete, CompleteBy, LiveOf
  <2> QED BY <2>1, <2>2, <2>3, <2>4, <2>5, <2>6, <2>7 DEF Continue
<1> QED BY <1>1, <1>2 DEF Complete

LEMMA StepComplete == TypeOK /\ Complete /\ [Next]_vars => Complete'
<1> SUFFICES ASSUME TypeOK, Complete, [Next]_vars PROVE Complete'
    OBVIOUS
<1>1. CASE \/ \E d \in Docs : ExpireDocument(d)
           \/ \E i \in Instances : Crash(i)
           \/ Outage \/ Recover \/ Tick \/ Rest \/ UNCHANGED vars
  <2>1. \A d \in Docs : docs'[d] = "live" => docs[d] = "live"
      BY <1>1 DEF ExpireDocument, Crash, Outage, Recover, Tick, Rest, vars, TypeOK
  <2>2. req' = req /\ \A c \in Calls : (pc'[c] = pc[c] /\ answer'[c] = answer[c]) \/ pc'[c] = "lost"
      BY <1>1, FaultLocal
  <2> QED BY <2>1, <2>2, EndedStays DEF Complete
<1> QED BY <1>1, CallComplete DEF Next

\* revokeAllUserTokens says yes only when no document of the user is left to use
\* (token.service.ts:241-284).
THEOREM LogoutComplete == Spec => []LogoutEverywhereIsComplete
<1>1. Init => Complete
    BY DEF Init, Complete, CompleteBy
<1>2. Complete => LogoutEverywhereIsComplete
    BY DEF Complete, CompleteBy, LogoutEverywhereIsComplete
<1> QED BY <1>1, <1>2, StepComplete, TypeSafe, PTL DEF Spec
=============================================================================
