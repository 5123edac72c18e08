-------------------------- MODULE MongoAccessProofs --------------------------
(* Theorems about MongoAccess, for any calls, collection and number of crashes. *)
EXTENDS MongoAccess, FiniteSetTheorems, TLAPS

\* A call is at the steps of what it is for.
AtItsSteps ==
  \A c \in Calls :
    /\ pc[c] \in {"starting", "running", "committing", "aborting"} => job[c].kind \in {"transaction", "plain"}
    /\ pc[c] = "listing" => job[c].kind \in {"listing", "users"}

\* The unique index.
UniqueKeys == \A a, b \in Ids : docs[a] = docs[b] /\ docs[a] # Free => a = b

Inv == TypeOK /\ AtItsSteps /\ UniqueKeys

-----------------------------------------------------------------------------
(* Jobs, keys and counts.                                                  *)

LEMMA JobFields ==
  ASSUME NEW j \in Job
  PROVE  /\ j.kind \in {"transaction", "plain", "listing", "users"}
         /\ j.kind \in {"transaction", "plain"} => j.program \in Seq(Operations)
         /\ j.kind = "listing" => j.limit \in Nat /\ j.sort \in {"key", "other"}
BY DEF Job

LEMMA JobType == ASSUME TypeOK, NEW c \in Calls PROVE job[c] \in Job
BY MongoAssumption DEF TypeOK

\* The operation a running call is at.
LEMMA OperationType ==
  ASSUME TypeOK, AtItsSteps, NEW c \in Calls, pc[c] = "running", step[c] < Len(program(c))
  PROVE  program(c)[step[c] + 1] \in Operations
<1>1. program(c) \in Seq(Operations)
    BY JobType, JobFields DEF AtItsSteps, program
<1>2. step[c] \in Nat
    BY DEF TypeOK
<1> QED BY <1>1, <1>2

LEMMA OperationFields ==
  ASSUME NEW o \in Operations
  PROVE  /\ o.op \in {"create", "createMany", "find", "delete", "deleteMany", "update", "updateMany"}
         /\ o.op \in {"create", "createMany", "update", "updateMany"} => o.key \in Keys
         /\ o.op \in {"find", "delete", "deleteMany", "update", "updateMany"} => o.id \in Ids
BY DEF Operations

LEMMA LimitType == ASSUME TypeOK, NEW c \in Calls, pc[c] = "listing", AtItsSteps PROVE limit(c) \in Nat \ {0}
BY JobType, JobFields, MongoAssumption DEF limit, FindsUsers, AtItsSteps

\* Sets of ids are counted.
LEMMA Counted == ASSUME NEW S \in SUBSET Ids PROVE IsFiniteSet(S) /\ Cardinality(S) \in Nat
BY MongoAssumption, FS_Subset, FS_CardinalityType

-----------------------------------------------------------------------------
(* The invariant.                                                          *)

LEMMA InitInv == Init => Inv
<1> SUFFICES ASSUME Init PROVE Inv
    OBVIOUS
<1>1. docs \in [Ids -> Keys \cup {Free}] /\ UniqueKeys /\ job \in Jobs /\ crashes \in 0..MaxCrashes
    BY MongoAssumption DEF Init, UniqueKeys
<1>2. pc \in [Calls -> Steps] /\ AtItsSteps
    BY DEF Init, Steps, AtItsSteps
<1>3. /\ items \in [Calls -> (SUBSET Ids) \cup {NotYet}] /\ total \in [Calls -> Nat \cup {NotYet}]
      /\ page \in [Calls -> Nat] /\ writes \in [Calls -> Nat] /\ apart \in [Calls -> Nat] /\ step \in [Calls -> Nat]
    BY DEF Init
<1>4. /\ seen \in [Calls -> SUBSET Ids] /\ stayed \in [Calls -> SUBSET Ids] /\ wrote \in [Calls -> SUBSET Ids]
    BY DEF Init
<1>5. /\ outcome \in [Calls -> {"none", "result", "duplicate", "database"}]
      /\ session \in [Calls -> {"none", "open", "ending", "abandoned", "ended"}]
    BY DEF Init
<1> QED BY <1>1, <1>2, <1>3, <1>4, <1>5 DEF Inv, TypeOK

\* An operation that is not rejected keeps the collection's type and its keys unique.
LEMMA OperationKeeps ==
  ASSUME TypeOK, UniqueKeys, NEW o \in Operations, ~Rejected(o), docs' \in After(o)
  PROVE  docs' \in [Ids -> Keys \cup {Free}] /\ UniqueKeys'
<1> USE OperationFields, MongoAssumption
<1>0. docs \in [Ids -> Keys \cup {Free}]
    BY DEF TypeOK
<1>1. CASE o.op \in {"create", "createMany"}
  <2>1. PICK id \in Ids : docs[id] = Free /\ docs' = [docs EXCEPT ![id] = o.key]
      BY <1>0, <1>1 DEF After, Present
  <2>2. \A other \in Ids : docs[other] # o.key
      BY <1>1 DEF Rejected
  <2> QED BY <1>0, <1>1, <2>1, <2>2 DEF UniqueKeys
<1>2. CASE o.op \in {"update", "updateMany"}
  <2>1. CASE o.id \in Present
    <3>1. docs' = [docs EXCEPT ![o.id] = o.key]
        BY <1>2, <2>1 DEF After
    <3>2. \A other \in Ids \ {o.id} : docs[other] # o.key
        BY <1>2, <2>1 DEF Rejected, Present
    <3> QED BY <1>0, <1>2, <3>1, <3>2 DEF UniqueKeys
  <2>2. CASE o.id \notin Present
      BY <1>0, <1>2, <2>2 DEF After, UniqueKeys
  <2> QED BY <2>1, <2>2
<1>3. CASE o.op \in {"delete", "deleteMany"}
  <2>1. docs' = [docs EXCEPT ![o.id] = Free]
      BY <1>3 DEF After
  <2> QED BY <1>0, <1>3, <2>1 DEF UniqueKeys
<1>4. CASE o.op = "find"
    BY <1>0, <1>4 DEF After, UniqueKeys
<1> QED BY <1>1, <1>2, <1>3, <1>4

LEMMA OperateKeeps == ASSUME Inv, NEW c \in Calls, Operate(c) PROVE Inv'
<1> DEFINE o == program(c)[step[c] + 1]
           changed == {id \in Ids : docs'[id] # docs[id]}
<1>1. o \in Operations
    BY OperationType DEF Inv, Operate
<1>2. docs' \in [Ids -> Keys \cup {Free}] /\ UniqueKeys'
    BY <1>1, OperationKeeps DEF Inv, Operate
<1>3. changed \subseteq Ids /\ Cardinality(changed) \in Nat
    BY Counted
<1>4. /\ wrote' = [d \in Calls |-> IF d = c THEN wrote[c] \cup changed ELSE wrote[d] \ changed]
      /\ stayed' = [d \in Calls |-> stayed[d] \ changed]
      /\ writes' = [d \in Calls |-> IF pc[d] = "listing" THEN writes[d] + Cardinality(changed) ELSE writes[d]]
      /\ apart' = [d \in Calls |-> IF HalfRead(d) THEN apart[d] + Cardinality(changed) ELSE apart[d]]
      /\ step' = [step EXCEPT ![c] = @ + 1]
      /\ UNCHANGED <<job, pc, outcome, session, reading, crashes>>
    BY DEF Operate
<1> HIDE DEF changed
<1>5. TypeOK'
    BY <1>2, <1>3, <1>4 DEF Inv, TypeOK, reading
<1>6. AtItsSteps'
    BY <1>4 DEF Inv, AtItsSteps
<1> QED BY <1>2, <1>5, <1>6 DEF Inv

\* A call of a session, a transaction or a plain call.
LEMMA CallKeeps ==
  ASSUME Inv, NEW c \in Calls,
         \/ Begin(c) \/ StartSession(c) \/ OperationFails(c) \/ CallbackDone(c)
         \/ CommitTransaction(c) \/ AbortTransaction(c) \/ EndSession(c) \/ PageFails(c)
  PROVE  Inv'
<1> USE DEF Goto, Return
<1>0. TypeOK /\ AtItsSteps /\ UniqueKeys /\ job[c] \in Job /\ job[c].kind \in {"transaction", "plain", "listing", "users"}
    BY JobType, JobFields DEF Inv
<1>1. CASE Begin(c)
  <2>1. Present \subseteq Ids
      BY DEF Present
  <2>2. TypeOK'
      BY <1>0, <1>1, <2>1 DEF Begin, TypeOK, Steps, reading
  <2>3. AtItsSteps' /\ UniqueKeys'
      BY <1>0, <1>1 DEF Begin, AtItsSteps, UniqueKeys, TypeOK
  <2> QED BY <2>2, <2>3 DEF Inv
<1>2. CASE StartSession(c)
  <2>1. TypeOK'
      BY <1>0, <1>2 DEF StartSession, TypeOK, Steps, reading
  <2>2. AtItsSteps' /\ UniqueKeys'
      BY <1>0, <1>2 DEF StartSession, AtItsSteps, UniqueKeys, TypeOK
  <2> QED BY <2>1, <2>2 DEF Inv
<1>3. CASE OperationFails(c)
  <2>1. PICK error \in {"duplicate", "database"} : Throw(c, error)
      BY <1>3 DEF OperationFails, FromDuplicate
  <2>2. TypeOK'
      BY <1>0, <2>1 DEF Throw, TypeOK, Steps, reading
  <2>3. AtItsSteps' /\ UniqueKeys'
      BY <1>0, <1>3, <2>1 DEF OperationFails, Throw, InTransaction, AtItsSteps, UniqueKeys, TypeOK
  <2> QED BY <2>2, <2>3 DEF Inv
<1>4. CASE CallbackDone(c)
  <2>1. TypeOK'
      BY <1>0, <1>4 DEF CallbackDone, TypeOK, Steps, reading
  <2>2. AtItsSteps' /\ UniqueKeys'
      BY <1>0, <1>4 DEF CallbackDone, InTransaction, AtItsSteps, UniqueKeys, TypeOK
  <2> QED BY <2>1, <2>2 DEF Inv
<1>5. CASE CommitTransaction(c) \/ AbortTransaction(c)
  <2>1. TypeOK'
      BY <1>0, <1>5 DEF CommitTransaction, AbortTransaction, TypeOK, Steps, reading
  <2>2. AtItsSteps' /\ UniqueKeys'
      BY <1>0, <1>5 DEF CommitTransaction, AbortTransaction, AtItsSteps, UniqueKeys, TypeOK
  <2> QED BY <2>1, <2>2 DEF Inv
<1>6. CASE EndSession(c)
    BY <1>0, <1>6 DEF EndSession, Inv, TypeOK, AtItsSteps, UniqueKeys, reading
<1>7. CASE PageFails(c)
  <2>1. TypeOK'
      BY <1>0, <1>7 DEF PageFails, TypeOK, Steps, reading
  <2>2. AtItsSteps' /\ UniqueKeys'
      BY <1>0, <1>7 DEF PageFails, AtItsSteps, UniqueKeys, TypeOK
  <2> QED BY <2>1, <2>2 DEF Inv
<1> QED BY <1>1, <1>2, <1>3, <1>4, <1>5, <1>6, <1>7

LEMMA ReaderKeeps ==
  ASSUME Inv, NEW c \in Calls, FindPage(c) \/ CountDocuments(c) \/ NextPage(c)
  PROVE  Inv'
<1>0. TypeOK /\ AtItsSteps /\ UniqueKeys
    BY DEF Inv
<1>1. CASE FindPage(c)
  <2>1. \A id \in Present : id \in Ids
      BY DEF Present
  <2>2. items' \in [Calls -> (SUBSET Ids) \cup {NotYet}]
      BY <1>0, <1>1, <2>1 DEF FindPage, Pages, TypeOK
  <2> QED BY <1>0, <1>1, <2>2 DEF FindPage, Inv, TypeOK, AtItsSteps, UniqueKeys
<1>2. CASE CountDocuments(c)
  <2>1. Cardinality(Present) \in Nat
      BY Counted DEF Present
  <2> QED BY <1>0, <1>2, <2>1 DEF CountDocuments, Inv, TypeOK, AtItsSteps, UniqueKeys
<1>3. CASE NextPage(c)
  <2>1. items[c] \subseteq Ids
    <3>1. items[c] \in (SUBSET Ids) \cup {NotYet} /\ items[c] # NotYet
        BY <1>0, <1>3 DEF NextPage, TypeOK
    <3>2. items[c] \in SUBSET Ids
        BY <3>1
    <3> QED BY <3>2
  <2>2. TypeOK'
    <3>1. seen' \in [Calls -> SUBSET Ids]
        BY <1>0, <1>3, <2>1 DEF NextPage, TypeOK
    <3>2. page' \in [Calls -> Nat] /\ pc' \in [Calls -> Steps]
        BY <1>0, <1>3 DEF NextPage, Return, Goto, TypeOK, Steps
    <3>3. outcome' \in [Calls -> {"none", "result", "duplicate", "database"}]
        BY <1>0, <1>3 DEF NextPage, Return, TypeOK
    <3>4. items' \in [Calls -> (SUBSET Ids) \cup {NotYet}]
        BY <1>0, <1>3 DEF NextPage, TypeOK
    <3>5. total' \in [Calls -> Nat \cup {NotYet}]
        BY <1>0, <1>3 DEF NextPage, TypeOK
    <3>6. apart' \in [Calls -> Nat]
        BY <1>0, <1>3 DEF NextPage, TypeOK
    <3> QED BY <1>0, <1>3, <3>1, <3>2, <3>3, <3>4, <3>5, <3>6 DEF NextPage, TypeOK
  <2>3. AtItsSteps' /\ UniqueKeys'
      BY <1>0, <1>3 DEF NextPage, Return, Goto, AtItsSteps, UniqueKeys, TypeOK
  <2> QED BY <2>2, <2>3 DEF Inv
<1> QED BY <1>1, <1>2, <1>3

LEMMA CrashKeeps == ASSUME Inv, Crash PROVE Inv'
<1>1. crashes' \in 0..MaxCrashes
    BY MongoAssumption DEF Crash, Inv, TypeOK
<1>2. pc' \in [Calls -> Steps] /\ session' \in [Calls -> {"none", "open", "ending", "abandoned", "ended"}]
    BY DEF Crash, Inv, TypeOK, Steps
<1> QED BY <1>1, <1>2 DEF Crash, Inv, TypeOK, AtItsSteps, UniqueKeys, reading

LEMMA StepInv == Inv /\ [Next]_vars => Inv'
<1> SUFFICES ASSUME Inv, [Next]_vars PROVE Inv'
    OBVIOUS
<1>1. CASE UNCHANGED vars
    BY <1>1 DEF vars, Inv, TypeOK, AtItsSteps, UniqueKeys, reading
<1>2. CASE Next
    BY <1>1, <1>2, OperateKeeps, CallKeeps, ReaderKeeps, CrashKeeps DEF Next, Continue, Rest
<1> QED BY <1>1, <1>2

LEMMA InvHolds == Spec => []Inv
BY InitInv, StepInv, PTL DEF Spec

\* The collection, the calls, their sessions and what readers got keep their types
\* (base.repository.ts, mongo-database.service.ts:57-74).
THEOREM TypeSafe == Spec => []TypeOK
<1>1. Inv => TypeOK
    BY DEF Inv
<1> QED BY <1>1, InvHolds, PTL

-----------------------------------------------------------------------------
(* Sessions.                                                               *)

\* Only a transaction starts a session, commits or aborts.
StepsOfTransactions ==
  \A c \in Calls : pc[c] \in {"starting", "committing", "aborting"} => InTransaction(c)

SessionInv == StepsOfTransactions /\ OpenOnlyInUse

\* A step keeps the sessions right when it does so for the one call it is a step of.
LEMMA OneSession ==
  ASSUME SessionInv, NEW c \in Calls, UNCHANGED job,
         \A d \in Calls \ {c} : pc'[d] = pc[d] /\ session'[d] = session[d],
         pc'[c] \in {"starting", "committing", "aborting"} => InTransaction(c),
         session'[c] = "open" <=> InTransaction(c) /\ pc'[c] \in {"running", "committing", "aborting"}
  PROVE  SessionInv'
BY DEF SessionInv, StepsOfTransactions, OpenOnlyInUse, InTransaction

\* A step that no session sees.
LEMMA NoSession == ASSUME SessionInv, UNCHANGED <<job, pc, session>> PROVE SessionInv'
BY DEF SessionInv, StepsOfTransactions, OpenOnlyInUse, InTransaction

LEMMA CallKeepsSessions ==
  ASSUME Inv, SessionInv, NEW c \in Calls,
         \/ Begin(c) \/ StartSession(c) \/ OperationFails(c) \/ CallbackDone(c) \/ NextPage(c)
         \/ CommitTransaction(c) \/ AbortTransaction(c) \/ EndSession(c) \/ PageFails(c)
  PROVE  SessionInv'
<1>0. /\ pc \in [Calls -> Steps] /\ session \in [Calls -> {"none", "open", "ending", "abandoned", "ended"}]
      /\ job[c].kind \in {"transaction", "plain", "listing", "users"}
    BY JobType, JobFields DEF Inv, TypeOK
<1>1. /\ pc[c] \in {"starting", "committing", "aborting"} => InTransaction(c)
      /\ session[c] = "open" <=> InTransaction(c) /\ pc[c] \in {"running", "committing", "aborting"}
    BY DEF SessionInv, StepsOfTransactions, OpenOnlyInUse
<1>2. CASE Begin(c)
  <2>1. UNCHANGED <<job, session>> /\ pc[c] = "idle" /\ \A d \in Calls \ {c} : pc'[d] = pc[d]
      BY <1>0, <1>2 DEF Begin, Goto
  <2>2. pc'[c] = IF InTransaction(c) THEN "starting" ELSE IF job[c].kind = "plain" THEN "running" ELSE "listing"
      BY <1>0, <1>2 DEF Begin, Goto, InTransaction
  <2> QED BY <1>1, <2>1, <2>2, OneSession
<1>3. CASE StartSession(c)
  <2>1. UNCHANGED job /\ pc[c] = "starting" /\ \A d \in Calls \ {c} : pc'[d] = pc[d] /\ session'[d] = session[d]
      BY <1>0, <1>3 DEF StartSession, Goto, Return
  <2>2. \/ pc'[c] = "running" /\ session'[c] = "open"
        \/ pc'[c] = "done" /\ session'[c] = session[c]
      BY <1>0, <1>3 DEF StartSession, Goto, Return
  <2> QED BY <1>1, <2>1, <2>2, OneSession
<1>4. CASE OperationFails(c) \/ CallbackDone(c)
  <2>1. UNCHANGED <<job, session>> /\ pc[c] = "running" /\ \A d \in Calls \ {c} : pc'[d] = pc[d]
      BY <1>0, <1>4 DEF OperationFails, CallbackDone, Throw, Goto, Return
  <2>2. pc'[c] \in IF InTransaction(c) THEN {"committing", "aborting"} ELSE {"done"}
      BY <1>0, <1>4 DEF OperationFails, CallbackDone, Throw, Goto, Return
  <2> QED BY <1>1, <2>1, <2>2, OneSession
<1>5. CASE CommitTransaction(c) \/ AbortTransaction(c)
  <2>1. /\ UNCHANGED job /\ pc'[c] = "done" /\ session'[c] = "ending"
        /\ \A d \in Calls \ {c} : pc'[d] = pc[d] /\ session'[d] = session[d]
      BY <1>0, <1>5 DEF CommitTransaction, AbortTransaction, Goto, Return
  <2> QED BY <2>1, OneSession
<1>6. CASE EndSession(c)
  <2>1. /\ UNCHANGED <<job, pc>> /\ session[c] # "open" /\ session'[c] = "ended"
        /\ \A d \in Calls \ {c} : session'[d] = session[d]
      BY <1>0, <1>6 DEF EndSession
  <2> QED BY <1>1, <2>1, OneSession
<1>7. CASE NextPage(c) \/ PageFails(c)
  <2>1. /\ UNCHANGED <<job, session>> /\ pc[c] = "listing" /\ pc'[c] \in {"listing", "done"}
        /\ \A d \in Calls \ {c} : pc'[d] = pc[d]
      BY <1>0, <1>7 DEF NextPage, PageFails, Goto, Return
  <2> QED BY <1>1, <2>1, OneSession
<1> QED BY <1>2, <1>3, <1>4, <1>5, <1>6, <1>7

LEMMA SessionStep == Inv /\ SessionInv /\ [Next]_vars => SessionInv'
<1> SUFFICES ASSUME Inv, SessionInv, [Next]_vars PROVE SessionInv'
    OBVIOUS
<1>1. ASSUME NEW c \in Calls, Operate(c) \/ FindPage(c) \/ CountDocuments(c) PROVE SessionInv'
    BY <1>1, NoSession DEF Operate, FindPage, CountDocuments
<1>2. CASE Crash
  <2>1. UNCHANGED job /\ \A c \in Calls : pc'[c] \in {"idle", "done", "lost"} /\ session'[c] # "open"
      BY <1>2 DEF Crash, Inv, TypeOK
  <2> QED BY <2>1 DEF SessionInv, StepsOfTransactions, OpenOnlyInUse
<1>3. CASE UNCHANGED vars
    BY <1>3, NoSession DEF vars
<1> QED BY <1>1, <1>2, <1>3, CallKeepsSessions DEF Next, Continue, Rest

\* Whichever way withTransaction is left, by its callback's end, by a throw or by the death
\* of the process, no session stays open, and none is ended under a callback that still runs
\* (mongo-database.service.ts:57-74).
THEOREM SessionsAreInUse == Spec => []OpenOnlyInUse
<1>1. Init => SessionInv
    BY DEF Init, SessionInv, StepsOfTransactions, OpenOnlyInUse
<1>2. SessionInv => OpenOnlyInUse
    BY DEF SessionInv
<1> QED BY <1>1, <1>2, SessionStep, InvHolds, PTL DEF Spec

-----------------------------------------------------------------------------
(* Pages and totals.                                                       *)

\* Pages are counted from 1.
PagesFromOne == \A c \in Calls : page[c] >= 1

Near(x, y, n) == x <= y + n /\ y <= x + n

\* What a page of c should hold of the collection as it is.
PageNow(c) == PageSize(Cardinality(Present), c)

\* The first of find and count to be answered is as far from the collection as was written
\* since, and from then on the two are as far apart as was written between them.
Fits(c) ==
  /\ items[c] # NotYet /\ total[c] = NotYet => Near(Cardinality(items[c]), PageNow(c), apart[c])
  /\ items[c] = NotYet /\ total[c] # NotYet => Near(PageSize(total[c], c), PageNow(c), apart[c])
  /\ items[c] # NotYet /\ total[c] # NotYet =>
       Near(Cardinality(items[c]), PageSize(total[c], c), apart[c])

PagesFit ==
  \A c \in Calls :
    /\ pc[c] = "idle" => items[c] = NotYet /\ total[c] = NotYet
    /\ pc[c] = "listing" => Fits(c)

PageInv == Inv /\ PagesFromOne /\ PagesFit

LEMMA SkipType ==
  ASSUME Inv, PagesFromOne, NEW c \in Calls, pc[c] = "listing"
  PROVE  skip(c) \in Nat /\ limit(c) \in Nat \ {0}
<1>1. limit(c) \in Nat \ {0}
    BY LimitType DEF Inv
<1>2. page[c] - 1 \in Nat
    BY DEF Inv, TypeOK, PagesFromOne
<1> QED BY <1>1, <1>2 DEF skip

\* The ranks of the documents are 1 to their number, each once.
LEMMA RanksAreDistinct ==
  ASSUME Inv, NEW a \in Present, NEW b \in Present, rank(a) = rank(b)
  PROVE  a = b
<1>1. \A id \in Present : id \in Ids /\ docs[id] \in Nat
    BY MongoAssumption DEF Present, Inv, TypeOK
<1> DEFINE Upto(id) == {other \in Present : docs[other] <= docs[id]}
<1>2. ASSUME NEW x \in Present, NEW y \in Present, docs[x] < docs[y] PROVE rank(x) # rank(y)
  <2>1. Upto(x) \subseteq Upto(y) /\ y \in Upto(y) /\ y \notin Upto(x)
      BY <1>1, <1>2
  <2>2. IsFiniteSet(Upto(y)) /\ Upto(y) \in SUBSET Ids
      BY <1>1, Counted
  <2>3. Cardinality(Upto(x)) # Cardinality(Upto(y))
      BY <2>1, <2>2, FS_Subset
  <2> QED BY <2>3 DEF rank
<1>3. docs[a] = docs[b]
    BY <1>1, <1>2
<1> QED BY <1>1, <1>3 DEF Inv, UniqueKeys, Present

LEMMA RanksCover ==
  ASSUME Inv
  PROVE  /\ \A id \in Present : rank(id) \in 1..Cardinality(Present)
         /\ \A n \in 1..Cardinality(Present) : \E id \in Present : rank(id) = n
<1> DEFINE N == Cardinality(Present)
           r == [id \in Present |-> rank(id)]
<1>1. IsFiniteSet(Present) /\ N \in Nat /\ \A id \in Present : id \in Ids /\ docs[id] \in Nat
    BY Counted, MongoAssumption DEF Present, Inv, TypeOK
<1>2. ASSUME NEW id \in Present PROVE rank(id) \in 1..N
  <2> DEFINE upto == {other \in Present : docs[other] <= docs[id]}
  <2>1. upto \in SUBSET Present /\ id \in upto
      BY <1>1
  <2>2. IsFiniteSet(upto) /\ Cardinality(upto) <= N
      BY <1>1, <2>1, FS_Subset
  <2>3. Cardinality(upto) \in Nat /\ Cardinality(upto) # 0
      BY <2>1, <2>2, FS_CardinalityType, FS_EmptySet
  <2> QED BY <1>1, <2>2, <2>3 DEF rank
<1>3. r \in Injection(Present, 1..N)
    BY <1>2, RanksAreDistinct DEF Injection, IsInjective
<1>4. IsFiniteSet(1..N) /\ Cardinality(1..N) = N
    BY <1>1, FS_Interval
<1>5. r \in Surjection(Present, 1..N)
    BY <1>3, <1>4, FS_Injection
<1> QED BY <1>2, <1>5 DEF Surjection

\* What find brings of a sort by the unique key is a page of the collection as it is.
LEMMA RankedCount ==
  ASSUME Inv, PagesFromOne, NEW c \in Calls, pc[c] = "listing"
  PROVE  Cardinality({id \in Present : rank(id) \in (skip(c) + 1)..(skip(c) + limit(c))}) = PageNow(c)
<1> DEFINE N == Cardinality(Present)
           last == IF N < skip(c) + limit(c) THEN N ELSE skip(c) + limit(c)
           S == {id \in Present : rank(id) \in (skip(c) + 1)..(skip(c) + limit(c))}
           T == (skip(c) + 1)..last
           r == [id \in S |-> rank(id)]
<1>1. N \in Nat /\ skip(c) \in Nat /\ limit(c) \in Nat \ {0}
    BY Counted, SkipType DEF Present
<1>2. \A id \in S : id \in Present /\ rank(id) \in T
    BY <1>1, RanksCover
<1>3. \A n \in T : \E id \in S : rank(id) = n
  <2> SUFFICES ASSUME NEW n \in T PROVE \E id \in S : rank(id) = n
      OBVIOUS
  <2>1. n \in 1..N /\ n \in (skip(c) + 1)..(skip(c) + limit(c))
      BY <1>1
  <2> QED BY <2>1, RanksCover
<1>4. IsFiniteSet(T) /\ Cardinality(T) = IF skip(c) + 1 > last THEN 0 ELSE last - (skip(c) + 1) + 1
  <2>1. skip(c) + 1 \in Int /\ last \in Int
      BY <1>1
  <2> HIDE DEF last
  <2> QED BY <2>1, FS_Interval
<1> HIDE DEF T, S
<1>5. r \in Injection(S, T)
    BY <1>2, RanksAreDistinct DEF Injection, IsInjective
<1>6. r \in Surjection(S, T)
    BY <1>2, <1>3 DEF Surjection
<1>7. Cardinality(S) = Cardinality(T)
    BY <1>4, <1>5, <1>6, FS_Injection
<1>8. PageNow(c) = IF N <= skip(c) THEN 0 ELSE IF N - skip(c) < limit(c) THEN N - skip(c) ELSE limit(c)
    BY DEF PageNow, PageSize
<1>9. Cardinality(S) = PageNow(c)
    BY <1>1, <1>4, <1>7, <1>8
<1> QED BY <1>9 DEF S

\* So it is of any sort.
LEMMA PageCount ==
  ASSUME Inv, PagesFromOne, NEW c \in Calls, pc[c] = "listing", NEW some \in Pages(c)
  PROVE  Cardinality(some) = PageNow(c)
BY RankedCount DEF Pages, PageNow

\* Sizes of pages differ by no more than the collections.
LEMMA PageSizeNear ==
  ASSUME Inv, PagesFromOne, NEW c \in Calls, pc[c] = "listing", NEW x \in Nat, NEW y \in Nat, NEW n \in Nat, Near(x, y, n)
  PROVE  PageSize(x, c) \in Nat /\ Near(PageSize(x, c), PageSize(y, c), n)
BY SkipType DEF PageSize, Near

\* A write changes the number of documents by no more than it writes.
LEMMA CollectionNear ==
  ASSUME NEW changed, changed = {id \in Ids : docs'[id] # docs[id]}
  PROVE  /\ {Cardinality(Present), Cardinality(Present)', Cardinality(changed)} \subseteq Nat
         /\ Near(Cardinality(Present)', Cardinality(Present), Cardinality(changed))
<1> DEFINE now == {id \in Ids : docs'[id] # Free}
<1>1. now = Present'
    BY DEF Present
<1>2. {now, Present, changed} \subseteq SUBSET Ids /\ now \subseteq Present \cup changed /\ Present \subseteq now \cup changed
    BY DEF Present
<1>3. /\ IsFiniteSet(now) /\ IsFiniteSet(Present) /\ IsFiniteSet(changed)
      /\ Cardinality(now) \in Nat /\ Cardinality(Present) \in Nat /\ Cardinality(changed) \in Nat
    BY <1>2, Counted
<1> HIDE DEF now
<1>4. ASSUME NEW A, NEW B, IsFiniteSet(A), IsFiniteSet(B), Cardinality(A) \in Nat, Cardinality(B) \in Nat
      PROVE  IsFiniteSet(A \cup B) /\ Cardinality(A \cup B) <= Cardinality(A) + Cardinality(B)
  <2>1. IsFiniteSet(A \cap B)
      BY <1>4, FS_Intersection
  <2>2. Cardinality(A \cap B) \in Nat
      BY <2>1, FS_CardinalityType
  <2>3. IsFiniteSet(A \cup B) /\ Cardinality(A \cup B) = Cardinality(A) + Cardinality(B) - Cardinality(A \cap B)
      BY <1>4, FS_Union
  <2> QED BY <1>4, <2>2, <2>3
<1>5. Cardinality(now) <= Cardinality(Present \cup changed) /\ Cardinality(Present) <= Cardinality(now \cup changed)
    BY <1>2, <1>3, <1>4, FS_Subset
<1>6. Cardinality(Present \cup changed) \in Nat /\ Cardinality(now \cup changed) \in Nat
    BY <1>3, <1>4, FS_CardinalityType
<1>7. Near(Cardinality(now), Cardinality(Present), Cardinality(changed))
    BY <1>3, <1>4, <1>5, <1>6 DEF Near
<1> QED BY <1>1, <1>3, <1>7

\* What a reader has is of its type.
LEMMA ReaderTypes ==
  ASSUME Inv, NEW c \in Calls
  PROVE  /\ items[c] # NotYet => Cardinality(items[c]) \in Nat
         /\ total[c] # NotYet => total[c] \in Nat
         /\ apart[c] \in Nat /\ Cardinality(Present) \in Nat
<1>1. items[c] \in (SUBSET Ids) \cup {NotYet} /\ total[c] \in Nat \cup {NotYet} /\ apart[c] \in Nat
    BY DEF Inv, TypeOK
<1>2. ASSUME items[c] # NotYet PROVE Cardinality(items[c]) \in Nat
    BY <1>1, <1>2, Counted
<1>3. Cardinality(Present) \in Nat
    BY Counted DEF Present
<1> QED BY <1>1, <1>2, <1>3

\* The page of a call, and its size, hang on its page and job alone.
LEMMA PageSizeKept ==
  ASSUME NEW c \in Calls, page'[c] = page[c], UNCHANGED job
  PROVE  \A n : PageSize(n, c)' = PageSize(n, c)
BY DEF PageSize, skip, limit, FindsUsers

LEMMA FitsKept ==
  ASSUME NEW c \in Calls, UNCHANGED <<docs, job>>, Fits(c), apart'[c] = apart[c],
         page'[c] = page[c], items'[c] = items[c], total'[c] = total[c]
  PROVE  Fits(c)'
<1>1. Present' = Present
    BY DEF Present
<1> QED BY <1>1 DEF Fits, PageNow, PageSize, skip, limit, FindsUsers

LEMMA OperateFits == ASSUME PageInv, NEW d \in Calls, Operate(d), NEW c \in Calls, pc[c] = "listing" PROVE Fits(c)'
<1> DEFINE changed == {id \in Ids : docs'[id] # docs[id]}
           k == Cardinality(changed)
<1>1. /\ apart'[c] = IF HalfRead(c) THEN apart[c] + k ELSE apart[c]
      /\ items'[c] = items[c] /\ total'[c] = total[c] /\ page'[c] = page[c] /\ job' = job
    BY DEF Operate, reading, PageInv, Inv, TypeOK
<1>2. k \in Nat /\ Cardinality(Present)' \in Nat /\ Near(Cardinality(Present)', Cardinality(Present), k)
    BY CollectionNear
<1>3. apart[c] \in Nat /\ Cardinality(Present) \in Nat
    BY ReaderTypes DEF PageInv
<1> DEFINE then == PageSize(Cardinality(Present)', c)
<1>4. then \in Nat /\ PageNow(c) \in Nat /\ Near(then, PageNow(c), k)
  <2>1. Near(Cardinality(Present), Cardinality(Present), 0)
      BY <1>3 DEF Near
  <2> QED BY <1>2, <1>3, <2>1, PageSizeNear DEF PageInv, PageNow
<1>5. PageNow(c)' = then
    BY <1>1 DEF PageNow, PageSize, skip, limit, FindsUsers
<1>6. Fits(c)
    BY DEF PageInv, PagesFit
<1> HIDE DEF k, then
<1>7. ASSUME NEW x \in Nat, Near(x, PageNow(c), apart[c]) PROVE Near(x, then, apart[c] + k)
    BY <1>2, <1>3, <1>4, <1>7 DEF Near
<1>8. total[c] # NotYet => PageSize(total[c], c)' = PageSize(total[c], c)
    BY <1>1 DEF PageSize, skip, limit, FindsUsers
<1>9. CASE items[c] # NotYet /\ total[c] = NotYet
  <2>1. Near(Cardinality(items[c]), then, apart[c] + k)
      BY <1>6, <1>7, <1>9, ReaderTypes DEF Fits, PageInv
  <2>2. apart'[c] = apart[c] + k
      BY <1>1, <1>9 DEF HalfRead
  <2> QED BY <1>1, <1>5, <1>9, <2>1, <2>2 DEF Fits
<1>10. CASE items[c] = NotYet /\ total[c] # NotYet
  <2>1. total[c] \in Nat /\ Near(total[c], total[c], 0)
      BY <1>10, ReaderTypes DEF PageInv, Near
  <2>2. PageSize(total[c], c) \in Nat
      BY <2>1, PageSizeNear DEF PageInv
  <2>3. Near(PageSize(total[c], c), then, apart[c] + k)
      BY <1>6, <1>7, <1>10, <2>2 DEF Fits
  <2>4. apart'[c] = apart[c] + k
      BY <1>1, <1>10 DEF HalfRead
  <2> QED BY <1>1, <1>5, <1>8, <1>10, <2>3, <2>4 DEF Fits
<1>11. CASE items[c] # NotYet /\ total[c] # NotYet
  <2>1. apart'[c] = apart[c]
      BY <1>1, <1>11 DEF HalfRead
  <2> QED BY <1>1, <1>6, <1>8, <1>11, <2>1 DEF Fits
<1>12. CASE items[c] = NotYet /\ total[c] = NotYet
    BY <1>1, <1>12 DEF Fits
<1> QED BY <1>9, <1>10, <1>11, <1>12

\* What arrives is of the collection as it is.
LEMMA ArrivalFits ==
  ASSUME PageInv, NEW c \in Calls, FindPage(c) \/ CountDocuments(c)
  PROVE  Fits(c)'
<1>1. /\ pc[c] = "listing" /\ Fits(c) /\ Inv /\ PagesFromOne
      /\ UNCHANGED <<docs, job, page, apart>>
    BY DEF FindPage, CountDocuments, PageInv, PagesFit
<1>2. PageNow(c)' = PageNow(c) /\ \A n : PageSize(n, c)' = PageSize(n, c)
    BY <1>1 DEF PageNow, PageSize, skip, limit, FindsUsers, Present
<1>3. Cardinality(Present) \in Nat /\ apart[c] \in Nat
    BY <1>1, ReaderTypes
<1>4. PageNow(c) \in Nat
  <2>1. Near(Cardinality(Present), Cardinality(Present), 0)
      BY <1>3 DEF Near
  <2> QED BY <1>1, <1>3, <2>1, PageSizeNear DEF PageNow
<1>5. CASE FindPage(c)
  <2>1. Cardinality(items'[c]) = PageNow(c) /\ items[c] = NotYet /\ total' = total
      BY <1>1, <1>5, PageCount DEF FindPage, Inv, TypeOK
  <2>2. ASSUME total[c] # NotYet PROVE PageSize(total[c], c) \in Nat
    <3>1. total[c] \in Nat /\ Near(total[c], total[c], 0)
        BY <1>1, <2>2, ReaderTypes DEF Near
    <3> QED BY <1>1, <3>1, PageSizeNear
  <2>3. Near(PageNow(c), PageNow(c), apart[c])
      BY <1>3, <1>4 DEF Near
  <2>4. total[c] # NotYet => Near(PageNow(c), PageSize(total[c], c), apart[c])
      BY <1>1, <1>3, <1>4, <2>1, <2>2 DEF Fits, Near
  <2>5. total[c] # NotYet => PageSize(total[c], c)' = PageSize(total[c], c)
      BY <1>1, <2>1 DEF PageSize, skip, limit, FindsUsers
  <2>6. total[c] # NotYet => Near(PageSize(total[c], c), PageNow(c), apart[c])
      BY <1>1, <2>1 DEF Fits
  <2> QED BY <1>1, <1>2, <2>1, <2>3, <2>4, <2>5, <2>6 DEF Fits
<1>6. CASE CountDocuments(c)
  <2>1. total'[c] = Cardinality(Present) /\ total[c] = NotYet /\ items' = items
      BY <1>1, <1>6 DEF CountDocuments, Inv, TypeOK
  <2>2. PageSize(total[c], c)' = PageNow(c)
      BY <1>1, <2>1 DEF PageNow, PageSize, skip, limit, FindsUsers
  <2>3. Near(PageNow(c), PageNow(c), apart[c])
      BY <1>3, <1>4 DEF Near
  <2> QED BY <1>1, <1>2, <2>1, <2>2, <2>3 DEF Fits
<1> QED BY <1>5, <1>6

LEMMA PageStep == PageInv /\ [Next]_vars => PagesFit' /\ PagesFromOne'
<1> SUFFICES ASSUME PageInv, [Next]_vars PROVE PagesFit' /\ PagesFromOne'
    OBVIOUS
<1>0. /\ pc \in [Calls -> Steps] /\ page \in [Calls -> Nat] /\ PagesFit /\ PagesFromOne
      /\ items \in [Calls -> (SUBSET Ids) \cup {NotYet}] /\ total \in [Calls -> Nat \cup {NotYet}]
    BY DEF PageInv, Inv, TypeOK
<1>1. ASSUME NEW c \in Calls, Operate(c) PROVE PagesFit' /\ PagesFromOne'
  <2>1. UNCHANGED <<pc, page, items, total>>
      BY <1>1 DEF Operate, reading
  <2> QED BY <1>0, <1>1, <2>1, OperateFits DEF PagesFit, PagesFromOne
<1>2. ASSUME NEW c \in Calls, FindPage(c) \/ CountDocuments(c) PROVE PagesFit' /\ PagesFromOne'
  <2>1. /\ UNCHANGED <<docs, job, pc, page, apart>> /\ pc[c] = "listing"
        /\ \A d \in Calls \ {c} : items'[d] = items[d] /\ total'[d] = total[d]
      BY <1>0, <1>2 DEF FindPage, CountDocuments
  <2> QED BY <1>0, <1>2, <2>1, ArrivalFits, FitsKept DEF PagesFit, PagesFromOne
<1>3. ASSUME NEW c \in Calls, NextPage(c) PROVE PagesFit' /\ PagesFromOne'
  <2>1. /\ UNCHANGED <<docs, job>> /\ pc'[c] # "idle"
        /\ pc'[c] = "listing" => items'[c] = NotYet /\ total'[c] = NotYet
        /\ \A d \in Calls \ {c} : pc'[d] = pc[d] /\ items'[d] = items[d] /\ total'[d] = total[d] /\ page'[d] = page[d] /\ apart'[d] = apart[d]
        /\ page'[c] \in {page[c], page[c] + 1}
      BY <1>0, <1>3 DEF NextPage, Return, Goto
  <2>2. pc'[c] = "listing" => Fits(c)'
      BY <2>1 DEF Fits
  <2>3. PagesFromOne'
      BY <1>0, <2>1 DEF PagesFromOne
  <2> QED BY <1>0, <2>1, <2>2, <2>3, FitsKept DEF PagesFit
<1>4. ASSUME NEW c \in Calls, Begin(c) PROVE PagesFit' /\ PagesFromOne'
  <2>1. /\ UNCHANGED <<docs, job, apart, page, items, total>> /\ pc[c] = "idle" /\ pc'[c] # "idle"
        /\ \A d \in Calls \ {c} : pc'[d] = pc[d]
      BY <1>0, <1>4, JobType, JobFields DEF Begin, Goto, reading, PageInv, Inv
  <2>2. Fits(c)'
      BY <1>0, <2>1 DEF Fits, PagesFit
  <2> QED BY <1>0, <2>1, <2>2, FitsKept DEF PagesFit, PagesFromOne
<1>5. ASSUME UNCHANGED <<docs, job, apart, page, items, total>>,
             \A d \in Calls : pc'[d] \in {"idle", "listing"} => pc[d] = pc'[d]
      PROVE  PagesFit' /\ PagesFromOne'
    BY <1>0, <1>5, FitsKept DEF PagesFit, PagesFromOne
<1>6. ASSUME NEW c \in Calls, StartSession(c) \/ OperationFails(c) \/ CallbackDone(c) \/ CommitTransaction(c)
                                \/ AbortTransaction(c) \/ EndSession(c) \/ PageFails(c)
      PROVE  PagesFit' /\ PagesFromOne'
  <2>1. UNCHANGED <<docs, job, apart, page, items, total>>
      BY <1>6 DEF StartSession, OperationFails, Throw, CallbackDone, CommitTransaction, AbortTransaction,
         EndSession, PageFails, reading
  <2>2. \E to \in Steps \ {"idle", "listing"} : Goto(c, to) \/ pc' = pc
      BY <1>6 DEF StartSession, OperationFails, Throw, CallbackDone, CommitTransaction, AbortTransaction,
         EndSession, PageFails, Return, Goto, Steps
  <2>3. \A d \in Calls : pc'[d] \in {"idle", "listing"} => pc[d] = pc'[d]
      BY <1>0, <2>2 DEF Goto
  <2> QED BY <1>5, <2>1, <2>3
<1>7. CASE Crash
  <2>1. UNCHANGED <<docs, job, apart, page, items, total>>
      BY <1>7 DEF Crash, reading
  <2>2. \A d \in Calls : pc'[d] \in {"idle", "listing"} => pc[d] = pc'[d]
      BY <1>7 DEF Crash
  <2> QED BY <1>5, <2>1, <2>2
<1>8. CASE UNCHANGED vars
    BY <1>5, <1>8 DEF vars, reading
<1> QED BY <1>1, <1>2, <1>3, <1>4, <1>6, <1>7, <1>8 DEF Next, Continue, Rest

LEMMA PagesAlwaysFit == Spec => []PageInv
<1>1. Init => PagesFit /\ PagesFromOne
    BY DEF Init, PagesFit, PagesFromOne
<1>2. PageInv /\ [Next]_vars => PageInv'
    BY PageStep, StepInv DEF PageInv
<1>3. Init => PageInv
    BY <1>1, InitInv DEF PageInv
<1> QED BY <1>2, <1>3, PTL DEF Spec

\* A page and its total differ by no more than was written between find and count, in
\* whatever order they are answered and whatever was written before and after the two
\* (base.repository.ts:138-147, user.service.ts:244).
THEOREM PagesAgree == Spec => []PageAgreesWithTotal
<1>1. PageInv => PageAgreesWithTotal
  <2> SUFFICES ASSUME PageInv, NEW c \in Calls, pc[c] = "listing", items[c] # NotYet, total[c] # NotYet
               PROVE  Near(Cardinality(items[c]), PageSize(total[c], c), apart[c])
      BY DEF PageAgreesWithTotal, Near
  <2> QED BY DEF PageInv, PagesFit, Fits
<1> QED BY <1>1, PagesAlwaysFit, PTL
=============================================================================
