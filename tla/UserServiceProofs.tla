-------------------------- MODULE UserServiceProofs --------------------------
(***************************************************************************)
(* Theorems about UserService, for every set of instances, caches,         *)
(* messages, requests and accounts.                                        *)
(***************************************************************************)
EXTENDS UserService, TLAPS

IdOps == {"get", "delete", "verify", "login", "update", "status"}

\* The operations whose handler can be at a step.
OpsAt(step) ==
  CASE step = "checkExists" -> {"create", "exists"}
    [] step \in {"save", "clearAll", "delKeys"} -> {"create"}
    [] step \in {"lookup", "find", "fill"} -> {"get"}
    [] step = "findByKey" -> {"getByEmail"}
    [] step \in {"load", "checkEmail"} -> {"update"}
    [] step = "write" -> {"update", "status", "verify", "login"}
    [] step = "remove" -> {"delete"}
    [] step = "clear" -> {"update", "status", "verify", "login", "delete"}
    [] OTHER -> {"create", "exists", "getByEmail"} \cup IdOps

\* An instance that is not idle handles a produced message, at a step of the
\* operation it asks for.
Handling ==
  \A i \in Instances :
    pc[i] # "idle" =>
      /\ msg[i] \in Messages
      /\ RequestOf(i) \in Request
      /\ RequestOf(i).op \in OpsAt(pc[i])
      /\ pc[i] \in {"load", "checkEmail"} => RequestOf(i).email # NoEmail
      /\ pc[i] = "fill" => outcome[i].user # NoUser

\* What waits in the queue or for a commit was produced.
Deliverable == \A m \in queue \cup UNION {uncommitted[i] : i \in Instances} : body[m] \in Request

TypeInv == TypeOK /\ Handling /\ Deliverable

-----------------------------------------------------------------------------

LEMMA RequestFields ==
  ASSUME NEW r \in Request
  PROVE  /\ r.op \in {"create", "exists", "getByEmail"} \cup IdOps
         /\ r.op \in IdOps => r.id \in Ids
         /\ r.op \in {"create", "exists"} => r.username \in Usernames /\ r.email \in RawEmails
         /\ r.op = "update" => r.email \in RawEmails \cup {NoEmail}
         /\ r.op = "status" => r.status \in Statuses
  BY DEF Request, IdOps

LEMMA EntryPointStep ==
  ASSUME NEW r \in Request
  PROVE  /\ EntryPoint(r) \in Steps \ {"idle"}
         /\ r.op \in OpsAt(EntryPoint(r))
         /\ EntryPoint(r) # "checkEmail"
         /\ EntryPoint(r) = "load" => r.email # NoEmail
  BY RequestFields DEF EntryPoint, OpsAt, Steps, IdOps

LEMMA NewUserType ==
  ASSUME NEW r \in Request, r.op = "create"
  PROVE  NewUser(r) \in User
  BY RequestFields, EmailAssumption DEF NewUser, User, Statuses

LEMMA UpdatedType ==
  ASSUME NEW r \in Request, NEW u \in User
  PROVE  Updated(r, u) \in User
  <1>1. r.op = "update" /\ r.email # NoEmail => Lower[r.email] \in Emails
    BY RequestFields, EmailAssumption
  <1>2. r.op = "status" => r.status \in Statuses
    BY RequestFields
  <1>3. Changed(r, u) \in User
    BY <1>1, <1>2 DEF Changed, User, Statuses
  <1>4. QED
    BY <1>3 DEF Updated, User

-----------------------------------------------------------------------------
(* Type correctness. StoreOK and ServiceOK are the halves of TypeOK a      *)
(* handler step can disturb: what is stored, and what the service holds.   *)

StoreOK == /\ users \in [Ids -> User \cup {NoUser}]
           /\ usedIds \subseteq Ids
           /\ versions \in [Ids -> SUBSET User]
           /\ cache \in [Caches -> [Ids -> CacheEntry \cup {NoEntry}]]

ServiceOK ==
  /\ body \in [Messages -> Request \cup {NoRequest}]
  /\ queue \subseteq Messages
  /\ uncommitted \in [Instances -> SUBSET Messages]
  /\ pc \in [Instances -> Steps]
  /\ msg \in [Instances -> Messages \cup {NoMessage}]
  /\ outcome \in [Instances -> Outcome]
  /\ keys \in [Instances -> SUBSET Ids]
  /\ answers \in [Messages -> SUBSET Kinds]
  /\ faults \in 0..MaxFaults

LEMMA TypeOKParts == TypeOK <=> StoreOK /\ ServiceOK
  BY DEF TypeOK, StoreOK, ServiceOK

\* A step of a handler that goes on to another step of its operation.
LEMMA GotoKeepsService ==
  ASSUME TypeInv, NEW i \in Instances,
         NEW step \in Steps, NEW kind \in Kinds, NEW user \in User \cup {NoUser},
         pc[i] # "idle", Goto(i, step, kind, user),
         UNCHANGED <<log, answers, faults>>,
         RequestOf(i).op \in OpsAt(step),
         step \in {"load", "checkEmail"} => RequestOf(i).email # NoEmail,
         step = "fill" => user # NoUser
  PROVE  ServiceOK' /\ Handling' /\ Deliverable'
  <1>1. [kind |-> kind, user |-> user] \in Outcome
    BY DEF Outcome
  <1>2. ServiceOK'
    BY <1>1, TypeOKParts DEF TypeInv, ServiceOK, Goto, log
  <1>3. Handling'
    <2> SUFFICES ASSUME NEW j \in Instances, pc'[j] # "idle"
                 PROVE  /\ msg'[j] \in Messages
                        /\ RequestOf(j)' \in Request
                        /\ RequestOf(j)'.op \in OpsAt(pc'[j])
                        /\ pc'[j] \in {"load", "checkEmail"} => RequestOf(j)'.email # NoEmail
                        /\ pc'[j] = "fill" => outcome'[j].user # NoUser
      BY DEF Handling
    <2>1. RequestOf(j)' = RequestOf(j) /\ msg'[j] = msg[j]
      BY DEF RequestOf, Goto, log
    <2>2. CASE j = i
      <3>1. pc'[i] = step /\ outcome'[i].user = user
        BY TypeOKParts DEF Goto, TypeInv, ServiceOK
      <3>2. QED
        BY <2>1, <2>2, <3>1 DEF TypeInv, Handling
    <2>3. CASE j # i
      <3>1. pc'[j] = pc[j] /\ outcome'[j] = outcome[j]
        BY <2>3, TypeOKParts DEF Goto, TypeInv, ServiceOK
      <3>2. QED
        BY <2>1, <3>1 DEF TypeInv, Handling
    <2>4. QED
      BY <2>2, <2>3
  <1>4. Deliverable'
    BY DEF TypeInv, Deliverable, log
  <1>5. QED
    BY <1>2, <1>3, <1>4

LEMMA ReturnKeepsService ==
  ASSUME TypeInv, NEW i \in Instances, NEW kind \in Kinds, NEW user \in User \cup {NoUser},
         pc[i] # "idle", Return(i, kind, user), UNCHANGED <<log, answers, faults>>
  PROVE  ServiceOK' /\ Handling' /\ Deliverable'
  <1>1. RequestOf(i) \in Request
    BY DEF TypeInv, Handling
  <1>2. RequestOf(i).op \in OpsAt("answer")
    BY <1>1, RequestFields DEF OpsAt
  <1>3. "answer" \in Steps
    BY DEF Steps
  <1>4. Goto(i, "answer", kind, user)
    BY DEF Return
  <1>5. QED
    BY <1>2, <1>3, <1>4, GotoKeepsService

\* A call to the store that puts well-typed entries in keeps the store well typed.
LEMMA StoreCallType ==
  ASSUME StoreOK, NEW c \in Caches, NEW entries \in [Ids -> CacheEntry \cup {NoEntry}],
         StoreCall(c, entries), UNCHANGED collection
  PROVE  StoreOK'
  BY DEF StoreOK, StoreCall, collection

\* The replacement of a document by a well-typed one keeps TypeInv.
LEMMA ReplaceType ==
  ASSUME TypeInv, NEW i \in Instances, pc[i] = "write",
         NEW id \in Ids, NEW u \in User, Replace(i, id, u),
         UNCHANGED <<log, answers, faults>>
  PROVE  TypeInv'
  <1>1. StoreOK'
    BY TypeOKParts DEF TypeInv, StoreOK, Replace
  <1>2. RequestOf(i).op \in OpsAt("clear")
    BY DEF TypeInv, Handling, OpsAt
  <1>3. CASE Goto(i, "clear", "ok", u)
    <2>1. ServiceOK' /\ Handling' /\ Deliverable'
      BY <1>2, <1>3, GotoKeepsService DEF Steps, Kinds
    <2>2. QED
      BY <1>1, <2>1 DEF TypeInv, TypeOK, StoreOK, ServiceOK
  <1>4. CASE Return(i, "error", NoUser)
    <2>1. ServiceOK' /\ Handling' /\ Deliverable'
      BY <1>4, ReturnKeepsService DEF Kinds
    <2>2. QED
      BY <1>1, <2>1 DEF TypeInv, TypeOK, StoreOK, ServiceOK
  <1>5. QED
    BY <1>3, <1>4 DEF Replace

LEMMA CreateSteps ==
  ASSUME TypeInv, NEW i \in Instances,
         CheckUserExists(i) \/ Save(i) \/ SaveDuplicate(i) \/ ClearAll(i) \/ DelKeys(i)
  PROVE  TypeInv'
  <1> DEFINE r == RequestOf(i)
  <1>1. pc[i] # "idle" /\ UNCHANGED <<log, answers, faults>>
    BY DEF CheckUserExists, Save, SaveDuplicate, ClearAll, DelKeys, At
  <1>2. r \in Request /\ r.op \in OpsAt(pc[i]) /\ CacheOf[i] \in Caches
    BY <1>1, ConstantsAssumption DEF TypeInv, Handling
  <1>3. StoreOK /\ ServiceOK /\ outcome[i] \in Outcome
    BY TypeOKParts DEF TypeInv, ServiceOK
  <1>4. ASSUME ServiceOK' /\ Handling' /\ Deliverable', StoreOK'
        PROVE  TypeInv'
    BY <1>4 DEF TypeInv, TypeOK, StoreOK, ServiceOK
  <1>5. UNCHANGED <<collection, cache>> => StoreOK'
    BY <1>3 DEF StoreOK, collection
  <1>6. CASE CheckUserExists(i)
    <2>1. CASE \E kind \in Kinds : Return(i, kind, NoUser)
      BY <1>1, <1>4, <1>5, <1>6, <2>1, ReturnKeepsService DEF CheckUserExists
    <2>2. CASE r.op = "create" /\ Goto(i, "save", "null", NoUser)
      <3>1. r.op \in OpsAt("save") /\ "save" \in Steps /\ "null" \in Kinds
        BY <2>2 DEF OpsAt, Steps, Kinds
      <3>2. ServiceOK' /\ Handling' /\ Deliverable'
        BY <1>1, <2>2, <3>1, GotoKeepsService
      <3>3. QED
        BY <1>4, <1>5, <1>6, <3>2 DEF CheckUserExists
    <2>3. QED
      BY <1>6, <2>1, <2>2 DEF CheckUserExists, Kinds
  <1>7. CASE Save(i)
    <2>1. PICK id \in Ids \ usedIds :
            /\ users' = [users EXCEPT ![id] = NewUser(r)]
            /\ usedIds' = usedIds \cup {id}
            /\ versions' = [versions EXCEPT ![id] = @ \cup {NewUser(r)}]
            /\ Goto(i, "clearAll", "ok", NewUser(r)) \/ Return(i, "error", NoUser)
      BY <1>7 DEF Save
    <2>2. pc[i] = "save" /\ r.op = "create"
      BY <1>2, <1>7 DEF Save, At, OpsAt
    <2>3. NewUser(r) \in User
      BY <1>2, <2>2, NewUserType
    <2>4. StoreOK'
      BY <1>3, <1>7, <2>1, <2>3 DEF StoreOK, Save
    <2>5. CASE Goto(i, "clearAll", "ok", NewUser(r))
      <3>1. r.op \in OpsAt("clearAll") /\ "clearAll" \in Steps /\ "ok" \in Kinds
        BY <2>2 DEF OpsAt, Steps, Kinds
      <3>2. ServiceOK' /\ Handling' /\ Deliverable'
        BY <1>1, <2>3, <2>5, <3>1, GotoKeepsService
      <3>3. QED
        BY <1>4, <2>4, <3>2
    <2>6. CASE Return(i, "error", NoUser)
      BY <1>1, <1>4, <2>4, <2>6, ReturnKeepsService DEF Kinds
    <2>7. QED
      BY <2>1, <2>5, <2>6
  <1>8. CASE SaveDuplicate(i)
    BY <1>1, <1>4, <1>5, <1>8, ReturnKeepsService DEF SaveDuplicate, Kinds
  <1>9. CASE ClearAll(i)
    <2>1. CASE Return(i, outcome[i].kind, outcome[i].user)
      BY <1>1, <1>3, <1>4, <1>5, <1>9, <2>1, ReturnKeepsService DEF ClearAll, Outcome
    <2>2. CASE ~Return(i, outcome[i].kind, outcome[i].user)
      <3>1. PICK ks \in SUBSET Ids, step \in {"answer", "delKeys"} :
              /\ keys' = [keys EXCEPT ![i] = ks]
              /\ pc' = [pc EXCEPT ![i] = step]
              /\ UNCHANGED <<msg, outcome>>
        BY <1>3, <1>9, <2>2 DEF ClearAll, ServiceOK
      <3>2. pc[i] = "clearAll" /\ r.op = "create"
        BY <1>2, <1>9 DEF ClearAll, At, OpsAt
      <3>3. ServiceOK'
        BY <1>1, <1>3, <3>1 DEF ServiceOK, log, Steps
      <3>4. Handling'
        BY <1>1, <1>3, <3>1, <3>2 DEF TypeInv, Handling, RequestOf, log, OpsAt, ServiceOK
      <3>5. Deliverable'
        BY <1>1 DEF TypeInv, Deliverable, log
      <3>6. QED
        BY <1>4, <1>5, <1>9, <3>3, <3>4, <3>5 DEF ClearAll
    <2>3. QED
      BY <2>1, <2>2
  <1>10. CASE DelKeys(i)
    <2>1. [id \in Ids |-> IF id \in keys[i] THEN NoEntry ELSE cache[CacheOf[i]][id]]
            \in [Ids -> CacheEntry \cup {NoEntry}]
      BY <1>2, <1>3 DEF StoreOK
    <2>2. StoreOK'
      BY <1>2, <1>3, <1>10, <2>1, StoreCallType DEF DelKeys
    <2>3. pc[i] = "delKeys" /\ r.op = "create"
      BY <1>2, <1>10 DEF DelKeys, At, OpsAt
    <2>4. ServiceOK'
      BY <1>1, <1>3, <1>10 DEF DelKeys, ServiceOK, log, Steps
    <2>5. Handling'
      BY <1>1, <1>3, <1>10, <2>3 DEF DelKeys, TypeInv, Handling, RequestOf, log, OpsAt, ServiceOK
    <2>6. Deliverable'
      BY <1>1 DEF TypeInv, Deliverable, log
    <2>7. QED
      BY <1>4, <2>2, <2>4, <2>5, <2>6
  <1>11. QED
    BY <1>6, <1>7, <1>8, <1>9, <1>10

LEMMA ReadSteps ==
  ASSUME TypeInv, NEW i \in Instances,
         Lookup(i) \/ Find(i) \/ Fill(i) \/ FindByKey(i)
  PROVE  TypeInv'
  <1> DEFINE r == RequestOf(i)
  <1>1. pc[i] # "idle" /\ UNCHANGED <<log, answers, faults>>
    BY DEF Lookup, Find, Fill, FindByKey, At
  <1>2. r \in Request /\ r.op \in OpsAt(pc[i]) /\ CacheOf[i] \in Caches
    BY <1>1, ConstantsAssumption DEF TypeInv, Handling
  <1>3. StoreOK /\ ServiceOK /\ outcome[i] \in Outcome
    BY TypeOKParts DEF TypeInv, ServiceOK
  <1>4. ASSUME ServiceOK' /\ Handling' /\ Deliverable', StoreOK'
        PROVE  TypeInv'
    BY <1>4 DEF TypeInv, TypeOK, StoreOK, ServiceOK
  <1>5. UNCHANGED <<collection, cache>> => StoreOK'
    BY <1>3 DEF StoreOK, collection
  <1>6. ASSUME NEW kind \in Kinds, NEW user \in User \cup {NoUser}, Return(i, kind, user), StoreOK'
        PROVE  TypeInv'
    BY <1>1, <1>4, <1>6, ReturnKeepsService
  <1>7. CASE Lookup(i)
    <2> DEFINE entry == cache[CacheOf[i]][r.id]
    <2>1. pc[i] = "lookup" /\ r.op = "get"
      BY <1>2, <1>7 DEF Lookup, At, OpsAt
    <2>2. r.id \in Ids
      BY <1>2, <2>1, RequestFields DEF IdOps
    <2>3. CASE entry # NoEntry /\ Return(i, "ok", entry.user)
      <3>1. entry \in CacheEntry
        BY <1>2, <1>3, <2>2, <2>3 DEF StoreOK
      <3>2. entry.user \in User /\ "ok" \in Kinds
        BY <3>1 DEF CacheEntry, Kinds
      <3>3. QED
        BY <1>5, <1>6, <1>7, <2>3, <3>2 DEF Lookup
    <2>4. CASE Goto(i, "find", "null", NoUser)
      <3>1. r.op \in OpsAt("find") /\ "find" \in Steps /\ "null" \in Kinds
        BY <2>1 DEF OpsAt, Steps, Kinds
      <3>2. ServiceOK' /\ Handling' /\ Deliverable'
        BY <1>1, <2>4, <3>1, GotoKeepsService
      <3>3. QED
        BY <1>4, <1>5, <1>7, <3>2 DEF Lookup
    <2>5. QED
      BY <1>7, <2>3, <2>4 DEF Lookup
  <1>8. CASE Find(i)
    <2>1. pc[i] = "find" /\ r.op = "get"
      BY <1>2, <1>8 DEF Find, At, OpsAt
    <2>2. users[r.id] \in User \cup {NoUser}
      BY <1>2, <1>3, <2>1, RequestFields DEF IdOps, StoreOK
    <2>3. CASE Return(i, "null", NoUser)
      BY <1>5, <1>6, <1>8, <2>3 DEF Find, Kinds
    <2>4. CASE users[r.id] # NoUser /\ Goto(i, "fill", "ok", users[r.id])
      <3>1. r.op \in OpsAt("fill") /\ "fill" \in Steps /\ "ok" \in Kinds
        BY <2>1 DEF OpsAt, Steps, Kinds
      <3>2. ServiceOK' /\ Handling' /\ Deliverable'
        BY <1>1, <2>2, <2>4, <3>1, GotoKeepsService
      <3>3. QED
        BY <1>4, <1>5, <1>8, <3>2 DEF Find
    <2>5. QED
      BY <1>8, <2>3, <2>4 DEF Find
  <1>9. CASE Fill(i)
    <2>1. Return(i, outcome[i].kind, outcome[i].user)
      BY <1>9 DEF Fill
    <2>2. outcome[i].kind \in Kinds /\ outcome[i].user \in User \cup {NoUser}
      BY <1>3 DEF Outcome
    <2>3. StoreOK'
      <3> DEFINE entry == [user |-> outcome[i].user, ttl |-> CacheTtl]
                 entries == [cache[CacheOf[i]] EXCEPT ![r.id] = entry]
      <3>1. outcome[i].user # NoUser
        BY <1>1, <1>9 DEF TypeInv, Handling, Fill, At
      <3>2. entry \in CacheEntry
        BY <2>2, <3>1 DEF CacheEntry, CacheTtl
      <3>3. entries \in [Ids -> CacheEntry \cup {NoEntry}]
        BY <1>2, <1>3, <3>2 DEF StoreOK
      <3>4. QED
        BY <1>2, <1>3, <1>9, <3>3, StoreCallType DEF Fill
    <2>4. QED
      BY <1>6, <2>1, <2>2, <2>3
  <1>10. CASE FindByKey(i)
    <2>1. CASE Return(i, "null", NoUser)
      BY <1>5, <1>6, <1>10, <2>1 DEF FindByKey, Kinds
    <2>2. CASE \E id \in Matching(r.key) : Return(i, "ok", users[id])
      <3>1. PICK id \in Ids : Return(i, "ok", users[id])
        BY <2>2 DEF Matching
      <3>2. users[id] \in User \cup {NoUser}
        BY <1>3 DEF StoreOK
      <3>3. QED
        BY <1>5, <1>6, <1>10, <3>1, <3>2 DEF FindByKey, Kinds
    <2>3. QED
      BY <1>10, <2>1, <2>2 DEF FindByKey
  <1>11. QED
    BY <1>7, <1>8, <1>9, <1>10

LEMMA ChangeSteps ==
  ASSUME TypeInv, NEW i \in Instances,
         \/ Load(i) \/ CheckEmail(i) \/ Write(i) \/ WriteDuplicate(i) \/ WriteMissing(i)
         \/ Remove(i) \/ Clear(i)
  PROVE  TypeInv'
  <1> DEFINE r == RequestOf(i)
  <1>1. pc[i] # "idle" /\ UNCHANGED <<log, answers, faults>>
    BY DEF Load, CheckEmail, Write, WriteDuplicate, WriteMissing, Remove, Clear, At
  <1>2. r \in Request /\ r.op \in OpsAt(pc[i]) /\ CacheOf[i] \in Caches
    BY <1>1, ConstantsAssumption DEF TypeInv, Handling
  <1>3. StoreOK /\ ServiceOK /\ outcome[i] \in Outcome
    BY TypeOKParts DEF TypeInv, ServiceOK
  <1>4. ASSUME ServiceOK' /\ Handling' /\ Deliverable', StoreOK'
        PROVE  TypeInv'
    BY <1>4 DEF TypeInv, TypeOK, StoreOK, ServiceOK
  <1>5. UNCHANGED <<collection, cache>> => StoreOK'
    BY <1>3 DEF StoreOK, collection
  <1>6. ASSUME NEW kind \in Kinds, NEW user \in User \cup {NoUser}, Return(i, kind, user), StoreOK'
        PROVE  TypeInv'
    BY <1>1, <1>4, <1>6, ReturnKeepsService
  <1>7. ASSUME NEW step \in {"checkEmail", "write", "clear"}, NEW user \in User \cup {NoUser},
               Goto(i, step, "null", user),
               r.op \in OpsAt(step), step = "checkEmail" => r.email # NoEmail, StoreOK'
        PROVE  TypeInv'
    <2>1. step \in Steps /\ "null" \in Kinds
      BY DEF Steps, Kinds
    <2>2. ServiceOK' /\ Handling' /\ Deliverable'
      BY <1>1, <1>7, <2>1, GotoKeepsService
    <2>3. QED
      BY <1>4, <1>7, <2>2
  <1>8. CASE Load(i)
    <2>1. pc[i] = "load" /\ r.op = "update" /\ r.email # NoEmail
      BY <1>1, <1>2, <1>8 DEF Load, At, OpsAt, TypeInv, Handling
    <2>2. CASE Return(i, "notFound", NoUser)
      BY <1>5, <1>6, <1>8, <2>2 DEF Load, Kinds
    <2>3. ASSUME NEW step \in {"checkEmail", "write"}, Goto(i, step, "null", users[r.id]) PROVE TypeInv'
      <3>1. users[r.id] \in User \cup {NoUser}
        BY <1>2, <1>3, <2>1, RequestFields DEF IdOps, StoreOK
      <3>2. r.op \in OpsAt(step)
        BY <2>1 DEF OpsAt
      <3>3. StoreOK'
        BY <1>5, <1>8 DEF Load
      <3>4. QED
        BY <1>7, <2>1, <2>3, <3>1, <3>2, <3>3
    <2>4. QED
      BY <1>8, <2>2, <2>3 DEF Load
  <1>9. CASE CheckEmail(i)
    <2>1. pc[i] = "checkEmail" /\ r.op = "update"
      BY <1>2, <1>9 DEF CheckEmail, At, OpsAt
    <2>2. CASE Return(i, "conflict", NoUser)
      BY <1>5, <1>6, <1>9, <2>2 DEF CheckEmail, Kinds
    <2>3. CASE Goto(i, "write", "null", outcome[i].user)
      <3>1. outcome[i].user \in User \cup {NoUser} /\ r.op \in OpsAt("write")
        BY <1>3, <2>1 DEF Outcome, OpsAt
      <3>2. StoreOK'
        BY <1>5, <1>9 DEF CheckEmail
      <3>3. QED
        BY <1>7, <2>3, <3>1, <3>2
    <2>4. QED
      BY <1>9, <2>2, <2>3 DEF CheckEmail
  <1>10. CASE Write(i)
    <2>1. pc[i] = "write" /\ r.id \in Ids
      BY <1>2, <1>10, RequestFields DEF Write, At, OpsAt, IdOps
    <2>2. users[r.id] \in User /\ Replace(i, r.id, Updated(r, users[r.id]))
      BY <1>3, <1>10, <2>1 DEF Write, StoreOK, Stored
    <2>3. Updated(r, users[r.id]) \in User
      BY <1>2, <2>2, UpdatedType
    <2>4. QED
      BY <1>1, <2>1, <2>2, <2>3, ReplaceType
  <1>11. CASE WriteDuplicate(i)
    BY <1>5, <1>6, <1>11 DEF WriteDuplicate, Kinds
  <1>12. CASE WriteMissing(i)
    <2>1. pc[i] = "write" /\ r.op \in {"update", "status", "verify", "login"}
      BY <1>2, <1>12 DEF WriteMissing, At, OpsAt
    <2>2. CASE Goto(i, "clear", "null", NoUser)
      BY <1>5, <1>7, <1>12, <2>1, <2>2 DEF WriteMissing, OpsAt
    <2>3. CASE Return(i, "null", NoUser)
      BY <1>5, <1>6, <1>12, <2>3 DEF WriteMissing, Kinds
    <2>4. QED
      BY <1>12, <2>2, <2>3 DEF WriteMissing, Return
  <1>13. CASE Remove(i)
    <2>1. pc[i] = "remove" /\ r.op = "delete" /\ r.id \in Ids
      BY <1>2, <1>13, RequestFields DEF Remove, At, OpsAt, IdOps
    <2>2. StoreOK'
      BY <1>3, <1>13, <2>1 DEF Remove, StoreOK
    <2>3. users[r.id] \in User \cup {NoUser}
      BY <1>3, <2>1 DEF StoreOK
    <2>4. CASE Goto(i, "clear", "ok", users[r.id])
      <3>1. r.op \in OpsAt("clear") /\ "clear" \in Steps /\ "ok" \in Kinds
        BY <2>1 DEF OpsAt, Steps, Kinds
      <3>2. ServiceOK' /\ Handling' /\ Deliverable'
        BY <1>1, <2>3, <2>4, <3>1, GotoKeepsService
      <3>3. QED
        BY <1>4, <2>2, <3>2
    <2>5. CASE Return(i, "error", NoUser) \/ Return(i, "null", NoUser)
      BY <1>6, <2>2, <2>5 DEF Kinds
    <2>6. QED
      BY <1>13, <2>4, <2>5 DEF Remove
  <1>14. CASE Clear(i)
    <2>1. [cache[CacheOf[i]] EXCEPT ![r.id] = NoEntry] \in [Ids -> CacheEntry \cup {NoEntry}]
      BY <1>2, <1>3 DEF StoreOK
    <2>2. StoreOK'
      BY <1>2, <1>3, <1>14, <2>1, StoreCallType DEF Clear
    <2>3. outcome[i].kind \in Kinds /\ outcome[i].user \in User \cup {NoUser}
      BY <1>3 DEF Outcome
    <2>4. QED
      BY <1>6, <1>14, <2>2, <2>3 DEF Clear
  <1>15. QED
    BY <1>8, <1>9, <1>10, <1>11, <1>12, <1>13, <1>14

\* What happens around the handlers.
LEMMA KafkaSteps ==
  ASSUME TypeInv,
         \/ \E m \in Messages : Produce(m)
         \/ \E i \in Instances : \/ \E m \in Messages : Take(i, m)
                                 \/ Answer(i) \/ Commit(i) \/ Rebalance(i) \/ Crash(i)
         \/ \E c \in Caches, id \in Ids : Expire(c, id)
  PROVE  TypeInv'
  <1> USE DEF log, local, collection
  <1>1. StoreOK /\ ServiceOK /\ Handling /\ Deliverable
    BY TypeOKParts DEF TypeInv
  <1>2. ASSUME ServiceOK' /\ Handling' /\ Deliverable', StoreOK'
        PROVE  TypeInv'
    BY <1>2 DEF TypeInv, TypeOK, StoreOK, ServiceOK
  <1>3. ASSUME NEW m \in Messages, Produce(m) PROVE TypeInv'
    <2>1. PICK r \in Request : body' = [body EXCEPT ![m] = r]
      BY <1>3, ConstantsAssumption DEF Produce
    <2>2. \A n \in Messages : body[n] \in Request => body'[n] \in Request /\ body'[n] = body[n]
      BY <1>1, <1>3, <2>1, ConstantsAssumption DEF Produce, ServiceOK
    <2>3. StoreOK' /\ ServiceOK'
      BY <1>1, <1>3, <2>1 DEF Produce, StoreOK, ServiceOK
    <2>4. Handling'
      BY <1>1, <1>3, <2>2 DEF Produce, Handling, RequestOf
    <2>5. Deliverable'
      <3>1. body'[m] \in Request
        BY <1>1, <2>1 DEF ServiceOK
      <3>2. \A n \in Messages : n # m => body'[n] = body[n]
        BY <1>1, <2>1 DEF ServiceOK
      <3>3. QED
        BY <1>1, <1>3, <3>1, <3>2 DEF Produce, Deliverable, ServiceOK
    <2>6. QED
      BY <1>2, <2>3, <2>4, <2>5
  <1>4. ASSUME NEW i \in Instances, NEW m \in Messages, Take(i, m) PROVE TypeInv'
    <2>1. m \in queue /\ body[m] \in Request
      BY <1>1, <1>4 DEF Take, Deliverable
    <2>2. /\ EntryPoint(body[m]) \in Steps
          /\ body[m].op \in OpsAt(EntryPoint(body[m]))
          /\ EntryPoint(body[m]) # "checkEmail"
          /\ EntryPoint(body[m]) # "fill"
          /\ EntryPoint(body[m]) = "load" => body[m].email # NoEmail
      BY <2>1, EntryPointStep DEF EntryPoint
    <2>3. StoreOK'
      BY <1>1, <1>4 DEF Take, StoreOK
    <2>4. Nothing \in Outcome
      BY DEF Nothing, Outcome, Kinds
    <2>5. ServiceOK'
      BY <1>1, <1>4, <2>2, <2>4 DEF Take, ServiceOK
    <2>6. Handling'
      BY <1>1, <1>4, <2>1, <2>2 DEF Take, Handling, RequestOf, ServiceOK
    <2>7. Deliverable'
      BY <1>1, <1>4, <2>1 DEF Take, Deliverable, ServiceOK
    <2>8. QED
      BY <1>2, <2>3, <2>5, <2>6, <2>7
  <1>5. ASSUME NEW i \in Instances, Answer(i) PROVE TypeInv'
    <2>1. Nothing \in Outcome /\ "idle" \in Steps
      BY DEF Nothing, Outcome, Kinds, Steps
    <2>2. outcome[i].kind \in Kinds
      BY <1>1 DEF ServiceOK, Outcome
    <2>3. StoreOK' /\ ServiceOK'
      BY <1>1, <1>5, <2>1, <2>2 DEF Answer, StoreOK, ServiceOK
    <2>4. Handling' /\ Deliverable'
      BY <1>1, <1>5 DEF Answer, Handling, Deliverable, RequestOf, ServiceOK
    <2>5. QED
      BY <1>2, <2>3, <2>4
  <1>6. ASSUME NEW i \in Instances, Commit(i) PROVE TypeInv'
    <2>1. StoreOK' /\ ServiceOK'
      BY <1>1, <1>6 DEF Commit, StoreOK, ServiceOK
    <2>2. Handling' /\ Deliverable'
      BY <1>1, <1>6 DEF Commit, Handling, Deliverable, RequestOf, ServiceOK
    <2>3. QED
      BY <1>2, <2>1, <2>2
  <1>7. ASSUME NEW i \in Instances, Rebalance(i) PROVE TypeInv'
    <2>1. StoreOK' /\ ServiceOK'
      BY <1>1, <1>7, ConstantsAssumption DEF Rebalance, StoreOK, ServiceOK
    <2>2. Handling' /\ Deliverable'
      BY <1>1, <1>7 DEF Rebalance, Handling, Deliverable, RequestOf, ServiceOK
    <2>3. QED
      BY <1>2, <2>1, <2>2
  <1>8. ASSUME NEW i \in Instances, Crash(i) PROVE TypeInv'
    <2>1. Nothing \in Outcome /\ "idle" \in Steps /\ EmptyCache \in [Ids -> CacheEntry \cup {NoEntry}]
      BY DEF Nothing, Outcome, Kinds, Steps, EmptyCache
    <2>2. StoreOK'
      BY <1>1, <1>8, <2>1 DEF Crash, StoreOK
    <2>3. ServiceOK'
      BY <1>1, <1>8, <2>1, ConstantsAssumption DEF Crash, ServiceOK
    <2>4. Handling' /\ Deliverable'
      BY <1>1, <1>8 DEF Crash, Handling, Deliverable, RequestOf, ServiceOK
    <2>5. QED
      BY <1>2, <2>2, <2>3, <2>4
  <1>9. ASSUME NEW c \in Caches, NEW id \in Ids, Expire(c, id) PROVE TypeInv'
    <2>1. StoreOK' /\ ServiceOK'
      BY <1>1, <1>9 DEF Expire, StoreOK, ServiceOK
    <2>2. Handling' /\ Deliverable'
      BY <1>1, <1>9 DEF Expire, Handling, Deliverable, RequestOf
    <2>3. QED
      BY <1>2, <2>1, <2>2
  <1>10. QED
    BY <1>3, <1>4, <1>5, <1>6, <1>7, <1>8, <1>9

LEMMA TypeInvStep == TypeInv /\ [Next]_vars => TypeInv'
  <1> SUFFICES ASSUME TypeInv, [Next]_vars PROVE TypeInv'
    OBVIOUS
  <1>1. ASSUME NEW i \in Instances, DbError(i) PROVE TypeInv'
    <2>1. pc[i] # "idle" /\ Return(i, "error", NoUser) /\ UNCHANGED <<log, answers, faults>>
      BY <1>1 DEF DbError, DbSteps
    <2>2. ServiceOK' /\ Handling' /\ Deliverable'
      BY <2>1, ReturnKeepsService DEF Kinds
    <2>3. QED
      BY <1>1, <2>2 DEF DbError, TypeInv, TypeOK, StoreOK, ServiceOK, collection
  <1>2. ASSUME NEW i \in Instances, Handle(i) PROVE TypeInv'
    BY <1>1, <1>2, CreateSteps, ReadSteps, ChangeSteps, KafkaSteps DEF Handle
  <1>3. CASE UNCHANGED vars
    BY <1>3 DEF vars, TypeInv, TypeOK, Handling, Deliverable, RequestOf
  <1>4. CASE Next
    BY <1>2, <1>3, <1>4, KafkaSteps DEF Next, Rest
  <1>5. QED
    BY <1>3, <1>4

LEMMA TypeInvInit == Init => TypeInv
  <1> SUFFICES ASSUME Init PROVE TypeInv
    OBVIOUS
  <1>1. Nothing \in Outcome /\ "idle" \in Steps /\ EmptyCache \in [Ids -> CacheEntry \cup {NoEntry}]
    BY DEF Nothing, Outcome, Kinds, Steps, EmptyCache
  <1>2. versions \in [Ids -> SUBSET User]
    BY InitialUsersAssumption DEF Init, Stored
  <1>3. TypeOK
    BY <1>1, <1>2, ConstantsAssumption, InitialUsersAssumption DEF Init, TypeOK
  <1>4. Handling /\ Deliverable
    BY DEF Init, Handling, Deliverable
  <1>5. QED
    BY <1>3, <1>4 DEF TypeInv

\* The variables of the service keep their types, and a busy instance always
\* handles a request of the operation its step belongs to.
THEOREM TypeCorrect == Spec => []TypeInv
  BY TypeInvInit, TypeInvStep, PTL DEF Spec

\* The type invariant the runs check.
THEOREM TypeSafe == Spec => []TypeOK
  <1>1. TypeInv => TypeOK
    BY DEF TypeInv
  <1>2. QED
    BY <1>1, TypeCorrect, PTL

-----------------------------------------------------------------------------
(* Accounts. A step leaves the collection alone, or inserts, replaces or   *)
(* removes one document, and never one whose keys another holds.           *)

Inserts ==
  \E id \in Ids \ usedIds, u \in User :
    /\ ~Duplicate(id, u)
    /\ users' = [users EXCEPT ![id] = u]
    /\ usedIds' = usedIds \cup {id}

Replaces ==
  \E id \in Ids, u \in User :
    /\ Stored(users, id)
    /\ u.username = users[id].username /\ u.updatedAt = users[id].updatedAt + 1
    /\ users[id].isVerified => u.isVerified
    /\ ~Duplicate(id, u)
    /\ users' = [users EXCEPT ![id] = u]
    /\ UNCHANGED usedIds

Removes ==
  /\ DeleteRequested
  /\ \E id \in Ids :
       /\ Stored(users, id)
       /\ users' = [users EXCEPT ![id] = NoUser]
       /\ UNCHANGED usedIds

LEMMA CollectionSteps ==
  ASSUME TypeInv, [Next]_vars
  PROVE  UNCHANGED <<users, usedIds>> \/ Inserts \/ Replaces \/ Removes
  <1>1. TypeOK /\ Handling
    BY DEF TypeInv
  <1>2. ASSUME NEW i \in Instances, Save(i)
        PROVE  Inserts
    <2>1. RequestOf(i) \in Request /\ RequestOf(i).op = "create"
      BY <1>1, <1>2 DEF Handling, Save, At, OpsAt
    <2>2. NewUser(RequestOf(i)) \in User
      BY <2>1, NewUserType
    <2>3. QED
      BY <1>2, <2>2 DEF Save, Inserts
  <1>3. ASSUME NEW i \in Instances, Write(i)
        PROVE  Replaces
    <2> DEFINE r == RequestOf(i)
    <2>1. r \in Request /\ r.id \in Ids
      BY <1>1, <1>3, RequestFields DEF Handling, Write, At, OpsAt, IdOps
    <2>2. users[r.id] \in User
      BY <1>1, <1>3, <2>1 DEF TypeOK, Write, Stored
    <2>3. Updated(r, users[r.id]) \in User
      BY <2>1, <2>2, UpdatedType
    <2>4. /\ Changed(r, users[r.id]).username = users[r.id].username
          /\ users[r.id].isVerified => Changed(r, users[r.id]).isVerified
          /\ Changed(r, users[r.id]) \in [username: Usernames, email: {Lower[r.email]} \cup Emails,
                                          status: {r.status} \cup Statuses, isVerified: BOOLEAN, updatedAt: Nat]
      BY <2>2 DEF Changed, User, Statuses
    <2>5. /\ Updated(r, users[r.id]).username = users[r.id].username
          /\ Updated(r, users[r.id]).updatedAt = users[r.id].updatedAt + 1
          /\ users[r.id].isVerified => Updated(r, users[r.id]).isVerified
      BY <2>4 DEF Updated
    <2>6. QED
      BY <1>3, <2>1, <2>3, <2>5 DEF Write, Replace, Replaces
  <1>4. ASSUME NEW i \in Instances, Remove(i)
        PROVE  UNCHANGED <<users, usedIds>> \/ Removes
    <2>1. RequestOf(i) \in Request /\ RequestOf(i).op = "delete" /\ msg[i] \in Messages
      BY <1>1, <1>4 DEF Handling, Remove, At, OpsAt
    <2>2. RequestOf(i).id \in Ids
      BY <2>1, RequestFields DEF IdOps
    <2>3. DeleteRequested
      BY <2>1, ConstantsAssumption DEF DeleteRequested, RequestOf
    <2>4. QED
      BY <1>4, <2>2, <2>3 DEF Remove, Removes
  <1>5. ASSUME NEW i \in Instances, Handle(i), ~Save(i), ~Write(i), ~Remove(i)
        PROVE  UNCHANGED <<users, usedIds>>
    BY <1>5 DEF Handle, CheckUserExists, SaveDuplicate, ClearAll, DelKeys, Lookup, Find, Fill,
       FindByKey, Load, CheckEmail, WriteDuplicate, WriteMissing, Clear, DbError, Answer, collection
  <1>6. CASE Next
    BY <1>2, <1>3, <1>4, <1>5, <1>6
       DEF Next, Produce, Take, Commit, Rebalance, Crash, Expire, Rest, vars, collection
  <1>7. CASE UNCHANGED vars
    BY <1>7 DEF vars
  <1>8. QED
    BY <1>6, <1>7

LEMMA UniqueStep == TypeInv /\ UniqueAccounts /\ [Next]_vars => UniqueAccounts'
  <1> SUFFICES ASSUME TypeInv, UniqueAccounts, [Next]_vars PROVE UniqueAccounts'
    OBVIOUS
  <1>1. users \in [Ids -> User \cup {NoUser}]
    BY DEF TypeInv, TypeOK
  <1>2. ASSUME NEW id \in Ids, NEW u \in User, ~Duplicate(id, u),
               users' = [users EXCEPT ![id] = u]
        PROVE  UniqueAccounts'
    BY <1>1, <1>2 DEF UniqueAccounts, HaveUniqueKeys, Duplicate, Stored
  <1>3. CASE Removes
    BY <1>1, <1>3 DEF Removes, UniqueAccounts, HaveUniqueKeys, Stored
  <1>4. CASE UNCHANGED <<users, usedIds>>
    BY <1>4 DEF UniqueAccounts, HaveUniqueKeys, Stored
  <1>5. QED
    BY <1>2, <1>3, <1>4, CollectionSteps DEF Inserts, Replaces

\* However many instances serve them, and however often a message is delivered, no
\* two accounts share a user name or an email.
THEOREM AccountsAreUnique == Spec => []UniqueAccounts
  <1>1. Init => UniqueAccounts
    BY InitialUsersAssumption DEF Init, UniqueAccounts
  <1>2. QED
    BY <1>1, UniqueStep, TypeCorrect, PTL DEF Spec

-----------------------------------------------------------------------------
(* The service implements the registry.                                    *)

LEMMA MappedTypes ==
  ASSUME TypeOK
  PROVE  /\ Accounts \in [Ids -> [username: Usernames, email: Emails] \cup {NoUser}]
         /\ \A id \in Ids : (Accounts[id] # NoUser) <=> Stored(users, id)
  <1>1. ASSUME NEW id \in Ids, Stored(users, id)
        PROVE  AccountOf(id) \in [username: Usernames, email: Emails] /\ AccountOf(id) # NoUser
    <2>1. users[id] \in User
      BY <1>1 DEF TypeOK, Stored
    <2>2. AccountOf(id) \in [username: Usernames, email: Emails]
      BY <1>1, <2>1 DEF AccountOf, User
    <2>3. QED
      BY <2>2, ConstantsAssumption
  <1>2. QED
    BY <1>1 DEF Accounts, AccountOf

LEMMA RegistryInit == Init => Registry!Init
  <1> SUFFICES ASSUME Init PROVE Registry!Init
    OBVIOUS
  <1>1. TypeOK
    BY TypeInvInit DEF TypeInv
  <1>2. Registry!TypeOK
    <2>1. Registry!Account = [username: Usernames, email: Emails]
      BY DEF Registry!Account
    <2>2. usedIds \subseteq Ids
      BY <1>1 DEF TypeOK
    <2>3. QED
      BY <1>1, <2>1, <2>2, MappedTypes DEF Registry!TypeOK
  <1>3. \A id \in Ids : (Accounts[id] # NoUser) <=> Stored(users, id)
    BY <1>1, MappedTypes
  <1>4. Registry!KeysAreUnique
    <2>1. \A id \in Ids : Stored(users, id) => /\ Accounts[id].username = users[id].username
                                               /\ Accounts[id].email = users[id].email
      BY DEF Accounts, AccountOf
    <2>2. HaveUniqueKeys(users)
      BY InitialUsersAssumption DEF Init
    <2>3. QED
      BY <1>3, <2>1, <2>2 DEF HaveUniqueKeys, Registry!KeysAreUnique, Registry!Open
  <1>5. Registry!OpenedIds
    BY <1>3 DEF Init, Stored, Registry!OpenedIds, Registry!Open
  <1>6. QED
    BY <1>2, <1>4, <1>5 DEF Registry!Init

\* An account holds an _id MongoDB has given out.
IdsAreUsed == \A id \in Ids : Stored(users, id) => id \in usedIds

LEMMA IdsAreUsedStep == TypeInv /\ IdsAreUsed /\ [Next]_vars => IdsAreUsed'
  <1> SUFFICES ASSUME TypeInv, IdsAreUsed, [Next]_vars PROVE IdsAreUsed'
    OBVIOUS
  <1>1. users \in [Ids -> User \cup {NoUser}]
    BY DEF TypeInv, TypeOK
  <1>2. CASE UNCHANGED <<users, usedIds>>
    BY <1>2 DEF IdsAreUsed, Stored
  <1>3. CASE Inserts
    BY <1>1, <1>3 DEF Inserts, IdsAreUsed, Stored
  <1>4. CASE Replaces
    BY <1>1, <1>4 DEF Replaces, IdsAreUsed, Stored
  <1>5. CASE Removes
    BY <1>1, <1>5 DEF Removes, IdsAreUsed, Stored
  <1>6. QED
    BY <1>2, <1>3, <1>4, <1>5, CollectionSteps

LEMMA RegistryStep == TypeInv /\ IdsAreUsed /\ [Next]_vars => [Registry!Next]_Registry!vars
  <1> SUFFICES ASSUME TypeInv, IdsAreUsed, [Next]_vars PROVE [Registry!Next]_Registry!vars
    OBVIOUS
  <1>1. TypeOK /\ TypeOK'
    BY TypeInvStep DEF TypeInv
  <1>2. \A id \in Ids : (Accounts[id] # NoUser) <=> Stored(users, id)
    BY <1>1, MappedTypes
  <1>3. ASSUME NEW id \in Ids, NEW u \in User, users' = [users EXCEPT ![id] = u]
        PROVE  Accounts' = [Accounts EXCEPT ![id] = [username |-> u.username, email |-> u.email]]
    <2>1. \A x \in Ids : users'[x] = IF x = id THEN u ELSE users[x]
      BY <1>1, <1>3 DEF TypeOK
    <2>2. u # NoUser
      BY ConstantsAssumption
    <2>3. QED
      BY <2>1, <2>2 DEF Accounts, AccountOf, Stored
  <1>4. CASE UNCHANGED <<users, usedIds>>
    BY <1>4 DEF Registry!vars, Accounts, AccountOf, Stored
  <1>5. CASE Inserts
    <2>1. PICK id \in Ids \ usedIds, u \in User :
            /\ ~Duplicate(id, u)
            /\ users' = [users EXCEPT ![id] = u]
            /\ usedIds' = usedIds \cup {id}
      BY <1>5 DEF Inserts
    <2>2. Accounts' = [Accounts EXCEPT ![id] = [username |-> u.username, email |-> u.email]]
      BY <1>3, <2>1
    <2>3. u.username \in Usernames /\ u.email \in Emails
      BY DEF User
    <2>4. \A other \in Ids : Accounts[other] # NoUser =>
             Accounts[other].username # u.username /\ Accounts[other].email # u.email
      <3> SUFFICES ASSUME NEW other \in Ids, Stored(users, other)
                   PROVE  Accounts[other].username # u.username /\ Accounts[other].email # u.email
        BY <1>2
      <3>1. Accounts[other].username = users[other].username /\ Accounts[other].email = users[other].email
        BY DEF Accounts, AccountOf
      <3>2. other # id
        BY <2>1 DEF IdsAreUsed
      <3>3. QED
        BY <2>1, <3>1, <3>2 DEF Duplicate
    <2>5. Registry!OpenAccount(id, u.username, u.email)
      BY <2>1, <2>2, <2>4 DEF Registry!OpenAccount, Registry!Open
    <2>6. QED
      BY <2>3, <2>5 DEF Registry!Next
  <1>6. CASE Replaces
    <2>1. PICK id \in Ids, u \in User :
            /\ Stored(users, id)
            /\ u.username = users[id].username
            /\ ~Duplicate(id, u)
            /\ users' = [users EXCEPT ![id] = u]
            /\ UNCHANGED usedIds
      BY <1>6 DEF Replaces
    <2>2. Accounts' = [Accounts EXCEPT ![id] = [username |-> Accounts[id].username, email |-> u.email]]
      <3>1. Accounts[id].username = u.username
        BY <2>1 DEF Accounts, AccountOf
      <3>2. QED
        BY <1>3, <2>1, <3>1
    <2>3. \A other \in Ids \ {id} : Accounts[other] # NoUser => Accounts[other].email # u.email
      <3> SUFFICES ASSUME NEW other \in Ids \ {id}, Stored(users, other)
                   PROVE  Accounts[other].email # u.email
        BY <1>2
      <3>1. Accounts[other].email = users[other].email
        BY DEF Accounts, AccountOf
      <3>2. QED
        BY <2>1, <3>1 DEF Duplicate
    <2>4. Registry!ChangeEmail(id, u.email)
      BY <1>2, <2>1, <2>2, <2>3 DEF Registry!ChangeEmail, Registry!Open
    <2>5. QED
      BY <2>4 DEF Registry!Next, User
  <1>7. CASE Removes
    <2>1. PICK id \in Ids : /\ Stored(users, id)
                            /\ users' = [users EXCEPT ![id] = NoUser]
                            /\ UNCHANGED usedIds
      BY <1>7 DEF Removes
    <2>2. \A x \in Ids : users'[x] = IF x = id THEN NoUser ELSE users[x]
      BY <1>1, <2>1 DEF TypeOK
    <2>3. Accounts' = [Accounts EXCEPT ![id] = NoUser]
      BY <2>2 DEF Accounts, AccountOf, Stored
    <2>4. Registry!CloseAccount(id)
      BY <1>2, <2>1, <2>3 DEF Registry!CloseAccount, Registry!Open
    <2>5. QED
      BY <2>4 DEF Registry!Next
  <1>8. QED
    BY <1>4, <1>5, <1>6, <1>7, CollectionSteps

\* The service, with any number of instances, messages, crashes and failed calls,
\* is an implementation of the account registry.
THEOREM RegistryIsImplemented == Spec => ImplementsRegistry
  <1>1. Init => IdsAreUsed
    BY DEF Init, IdsAreUsed
  <1>2. QED
    BY <1>1, RegistryInit, IdsAreUsedStep, RegistryStep, TypeCorrect, PTL
       DEF Spec, ImplementsRegistry, Registry!Spec

-----------------------------------------------------------------------------
(* Cached reads. The deployment the promise is made for: one instance,     *)
(* whose memory store and database answer every call.                      *)

SoleInstance ==
  /\ \A i, j \in Instances : i = j
  /\ LocalCache /\ ~CacheMayFail /\ ~DbMayFail

\* Every entry is current, save the one the instance is about to delete; and so is
\* a document on its way into the cache or to the client.
Coherent(i) ==
  \A id \in Ids :
    cache[CacheOf[i]][id] # NoEntry =>
      \/ cache[CacheOf[i]][id].user = users[id]
      \/ pc[i] = "clear" /\ RequestOf(i).id = id

Current(i) ==
  /\ Coherent(i)
  /\ pc[i] = "fill" \/ (pc[i] = "answer" /\ RequestOf(i).op = "get")
       => outcome[i].user = users[RequestOf(i).id]

CurrentInv == \A i \in Instances : Current(i)

\* Steps of the instance that change neither the collection nor the cache, and do
\* not touch a document on its way to a client.
LEMMA QuietStep ==
  ASSUME TypeInv, NEW i \in Instances, Current(i), pc[i] # "clear",
         RequestOf(i)' = RequestOf(i), UNCHANGED <<users, cache>>,
         pc'[i] # "fill", pc'[i] = "answer" => RequestOf(i).op # "get"
  PROVE  Current(i)'
  BY DEF Current, Coherent

LEMMA AtStep ==
  ASSUME TypeInv, NEW i \in Instances, NEW step, NEW kind, NEW user,
         Goto(i, step, kind, user), UNCHANGED log
  PROVE  /\ pc'[i] = step
         /\ outcome'[i].user = user
         /\ RequestOf(i)' = RequestOf(i)
  BY DEF TypeInv, TypeOK, Goto, RequestOf, log

LEMMA CurrentHandle ==
  ASSUME SoleInstance, TypeInv, IdsAreUsed, NEW i \in Instances, Current(i), Handle(i)
  PROVE  Current(i)'
  <1> DEFINE r == RequestOf(i)
             c == CacheOf[i]
  <1>1. /\ users \in [Ids -> User \cup {NoUser}]
        /\ c \in Caches
        /\ cache \in [Caches -> [Ids -> CacheEntry \cup {NoEntry}]]
        /\ \A id \in Ids : cache[c][id] # NoEntry => cache[c][id].user # NoUser
    BY ConstantsAssumption DEF TypeInv, TypeOK, CacheEntry
  <1>2. pc[i] # "idle" => r \in Request /\ r.op \in OpsAt(pc[i])
    BY DEF TypeInv, Handling
  <1>3. CASE CheckUserExists(i) \/ SaveDuplicate(i) \/ FindByKey(i) \/ Load(i) \/ CheckEmail(i)
              \/ WriteDuplicate(i)
    <2>1. pc[i] # "clear" /\ r.op # "get" /\ UNCHANGED <<users, cache, log>>
      BY <1>2, <1>3 DEF CheckUserExists, SaveDuplicate, FindByKey, Load, CheckEmail, WriteDuplicate,
                        At, OpsAt, collection
    <2>2. PICK step \in {"save", "checkEmail", "write", "answer"} :
            \E kind, user : Goto(i, step, kind, user)
      BY <1>3 DEF CheckUserExists, SaveDuplicate, FindByKey, Load, CheckEmail, WriteDuplicate, Return
    <2>3. QED
      BY <2>1, <2>2, AtStep, QuietStep
  <1>4. CASE Save(i)
    <2>1. PICK id \in Ids \ usedIds :
            /\ users' = [users EXCEPT ![id] = NewUser(r)]
            /\ Goto(i, "clearAll", "ok", NewUser(r))
      BY <1>4 DEF Save, SoleInstance
    <2>2. pc[i] = "save" /\ UNCHANGED <<cache, log>>
      BY <1>4 DEF Save, At
    <2>3. pc'[i] = "clearAll"
      BY <2>1, <2>2, AtStep
    <2>4. cache[c][id] = NoEntry
      BY <1>1, <2>1, <2>2 DEF Current, Coherent, IdsAreUsed, Stored
    <2>5. QED
      BY <1>1, <2>1, <2>2, <2>3, <2>4 DEF Current, Coherent
  <1>5. CASE ClearAll(i)
    <2>1. pc[i] = "clearAll" /\ r.op # "get" /\ UNCHANGED <<users, cache, log>>
      BY <1>2, <1>5 DEF ClearAll, At, OpsAt, collection
    <2>2. Goto(i, "answer", outcome[i].kind, outcome[i].user)
      BY <1>5 DEF ClearAll, SoleInstance, Return
    <2>3. QED
      BY <2>1, <2>2, AtStep, QuietStep
  <1>6. CASE DelKeys(i)
    <2>1. pc[i] = "delKeys" /\ r.op # "get" /\ UNCHANGED <<users, log, msg>>
      BY <1>2, <1>6 DEF DelKeys, At, OpsAt, collection
    <2>2. pc'[i] = "answer" /\ RequestOf(i)' = r
      BY <1>6, <2>1 DEF DelKeys, TypeInv, TypeOK, RequestOf, log
    <2>3. \A id \in Ids : cache'[c][id] # NoEntry => cache'[c][id] = cache[c][id]
      BY <1>1, <1>6 DEF DelKeys, StoreCall, SoleInstance
    <2>4. QED
      BY <2>1, <2>2, <2>3 DEF Current, Coherent
  <1>7. CASE Lookup(i)
    <2>1. pc[i] = "lookup" /\ r.op = "get" /\ UNCHANGED <<users, cache, log>>
      BY <1>2, <1>7 DEF Lookup, At, OpsAt, collection
    <2>2. r.id \in Ids
      BY <1>2, <2>1, RequestFields DEF IdOps
    <2>3. CASE cache[c][r.id] # NoEntry /\ Goto(i, "answer", "ok", cache[c][r.id].user)
      <3>1. cache[c][r.id].user = users[r.id]
        BY <2>1, <2>2, <2>3 DEF Current, Coherent
      <3>2. QED
        BY <2>1, <2>3, <3>1, AtStep DEF Current, Coherent
    <2>4. CASE Goto(i, "find", "null", NoUser)
      BY <2>1, <2>4, AtStep, QuietStep
    <2>5. QED
      BY <1>7, <2>3, <2>4 DEF Lookup, Return
  <1>8. CASE Find(i)
    <2>1. pc[i] = "find" /\ UNCHANGED <<users, cache, log>>
      BY <1>8 DEF Find, At, collection
    <2>2. PICK step, kind : Goto(i, step, kind, users[r.id])
      BY <1>8 DEF Find, Return
    <2>3. QED
      BY <2>1, <2>2, AtStep DEF Current, Coherent
  <1>9. CASE Fill(i)
    <2>1. pc[i] = "fill" /\ UNCHANGED <<users, log>> /\ outcome[i].user = users[r.id]
      BY <1>9 DEF Fill, At, collection, Current
    <2>2. cache' = [cache EXCEPT ![c] = [cache[c] EXCEPT
                      ![r.id] = [user |-> outcome[i].user, ttl |-> CacheTtl]]]
      BY <1>9 DEF Fill, StoreCall, SoleInstance
    <2>3. \A id \in Ids : cache'[c][id] # NoEntry => cache'[c][id].user = users[id]
      BY <1>1, <2>1, <2>2 DEF Current, Coherent
    <2>4. Goto(i, "answer", outcome[i].kind, outcome[i].user)
      BY <1>9 DEF Fill, Return
    <2>5. QED
      BY <2>1, <2>3, <2>4, AtStep DEF Current, Coherent
  <1>10. CASE Write(i)
    <2>1. pc[i] = "write" /\ UNCHANGED <<cache, log>>
      BY <1>10 DEF Write, Replace, At
    <2>2. PICK u : users' = [users EXCEPT ![r.id] = u] /\ Goto(i, "clear", "ok", u)
      BY <1>10 DEF Write, Replace, SoleInstance
    <2>3. QED
      BY <1>1, <2>1, <2>2, AtStep DEF Current, Coherent
  <1>11. CASE WriteMissing(i)
    <2>1. pc[i] = "write" /\ r.op # "get" /\ UNCHANGED <<users, cache, log>>
      BY <1>2, <1>11 DEF WriteMissing, At, OpsAt, collection
    <2>2. PICK step \in {"clear", "answer"} : Goto(i, step, "null", NoUser)
      BY <1>11 DEF WriteMissing
    <2>3. QED
      BY <2>1, <2>2, AtStep, QuietStep
  <1>12. CASE Remove(i)
    <2>1. pc[i] = "remove" /\ r.op # "get" /\ UNCHANGED <<cache, log>>
      BY <1>2, <1>12 DEF Remove, At, OpsAt
    <2>2. CASE users' = [users EXCEPT ![r.id] = NoUser] /\ Goto(i, "clear", "ok", users[r.id])
      BY <1>1, <2>1, <2>2, AtStep DEF Current, Coherent
    <2>3. CASE UNCHANGED users /\ Goto(i, "answer", "null", NoUser)
      BY <2>1, <2>3, AtStep, QuietStep
    <2>4. QED
      BY <1>12, <2>2, <2>3 DEF Remove, Return, SoleInstance
  <1>13. CASE Clear(i)
    <2>1. pc[i] = "clear" /\ r.op # "get" /\ UNCHANGED <<users, log>>
      BY <1>2, <1>13 DEF Clear, At, OpsAt, collection
    <2>2. cache' = [cache EXCEPT ![c] = [cache[c] EXCEPT ![r.id] = NoEntry]]
      BY <1>13 DEF Clear, StoreCall, SoleInstance
    <2>3. \A id \in Ids : cache'[c][id] # NoEntry => cache'[c][id].user = users[id]
      BY <1>1, <2>1, <2>2 DEF Current, Coherent
    <2>4. Goto(i, "answer", outcome[i].kind, outcome[i].user)
      BY <1>13 DEF Clear, Return
    <2>5. QED
      BY <2>1, <2>3, <2>4, AtStep DEF Current, Coherent
  <1>14. CASE Answer(i)
    BY <1>14 DEF Answer, TypeInv, TypeOK, Current, Coherent, collection
  <1>15. QED
    BY <1>3, <1>4, <1>5, <1>6, <1>7, <1>8, <1>9, <1>10, <1>11, <1>12, <1>13, <1>14
       DEF Handle, DbError, SoleInstance

LEMMA CurrentStep ==
  ASSUME SoleInstance, TypeInv, IdsAreUsed, CurrentInv, [Next]_vars
  PROVE  CurrentInv'
  <1> SUFFICES ASSUME NEW i \in Instances PROVE Current(i)'
    BY DEF CurrentInv
  <1> USE DEF collection, log, local
  <1>1. Current(i) /\ \A j \in Instances : j = i
    BY DEF CurrentInv, SoleInstance
  <1>2. CASE Handle(i)
    BY <1>1, <1>2, CurrentHandle
  <1>3. ASSUME NEW m \in Messages, Produce(m) PROVE Current(i)'
    <2>1. pc[i] # "idle" => RequestOf(i)' = RequestOf(i)
      BY <1>3, ConstantsAssumption DEF Produce, TypeInv, TypeOK, Handling, RequestOf
    <2>2. QED
      BY <1>1, <1>3, <2>1 DEF Produce, Current, Coherent
  <1>4. ASSUME NEW m \in Messages, Take(i, m) PROVE Current(i)'
    <2>1. EntryPoint(body[m]) \notin {"fill", "answer"}
      BY DEF EntryPoint
    <2>2. pc[i] = "idle" /\ pc'[i] = EntryPoint(body[m])
      BY <1>4 DEF Take, TypeInv, TypeOK
    <2>3. UNCHANGED <<users, cache>>
      BY <1>4 DEF Take
    <2>4. QED
      BY <1>1, <2>1, <2>2, <2>3 DEF Current, Coherent
  <1>5. CASE Commit(i)
    BY <1>1, <1>5 DEF Commit, Current, Coherent, RequestOf
  <1>6. CASE Rebalance(i)
    BY <1>1, <1>6 DEF Rebalance, Current, Coherent, RequestOf
  <1>7. CASE Crash(i)
    <2>1. cache'[CacheOf[i]] = EmptyCache /\ pc'[i] = "idle"
      BY <1>7, ConstantsAssumption DEF Crash, SoleInstance, TypeInv, TypeOK
    <2>2. QED
      BY <2>1 DEF Current, Coherent, EmptyCache
  <1>8. ASSUME NEW c \in Caches, NEW id \in Ids, Expire(c, id) PROVE Current(i)'
    <2>1. \A x \in Ids : cache'[CacheOf[i]][x] # NoEntry
             => cache'[CacheOf[i]][x] = cache[CacheOf[i]][x]
      BY <1>8, ConstantsAssumption DEF Expire, TypeInv, TypeOK
    <2>2. UNCHANGED <<users, pc, outcome>> /\ RequestOf(i)' = RequestOf(i)
      BY <1>8 DEF Expire, RequestOf
    <2>3. QED
      BY <1>1, <2>1, <2>2 DEF Current, Coherent
  <1>9. CASE UNCHANGED vars
    BY <1>1, <1>9 DEF vars, Current, Coherent, RequestOf
  <1>10. CASE Next
    BY <1>1, <1>2, <1>3, <1>4, <1>5, <1>6, <1>7, <1>8, <1>9, <1>10 DEF Next, Rest
  <1>11. QED
    BY <1>9, <1>10

\* Where a single instance serves the users from a memory store and no call fails,
\* no cached read is outdated, whatever is crashed and delivered again.
THEOREM CachedReadsAreCurrent ==
  ASSUME SoleInstance
  PROVE  Spec => []ReadsAreCurrent
  <1>1. Init => IdsAreUsed
    BY DEF Init, IdsAreUsed
  <1>2. Init => CurrentInv
    BY ConstantsAssumption DEF Init, CurrentInv, Current, Coherent, EmptyCache
  <1>3. CurrentInv => ReadsAreCurrent
    BY DEF CurrentInv, Current, ReadsAreCurrent
  <1>4. TypeInv /\ IdsAreUsed /\ CurrentInv /\ [Next]_vars => CurrentInv'
    BY CurrentStep
  <1>5. QED
    BY <1>1, <1>2, <1>3, <1>4, IdsAreUsedStep, TypeCorrect, PTL DEF Spec
=============================================================================
