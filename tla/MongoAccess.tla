---------------------------- MODULE MongoAccess ----------------------------
(***************************************************************************)
(* libs/database: the repository over one collection with a unique key,    *)
(* withTransaction of MongoDatabaseService, a reader that fetches page     *)
(* after page with findWithPagination, and UserService.findUsers. Calls of *)
(* one process run side by side; a step is what MongoDB does with one      *)
(* command.                                                                *)
(***************************************************************************)
EXTENDS Naturals, Sequences, FiniteSets

CONSTANTS
  Calls,
  Jobs,           \* what the calls may be for: functions from Calls
  Ids, Keys, Free,  \* documents by id hold a key; a free id has no document
  Seeds,          \* the collection at the start
  DefaultLimit,
  NotYet,         \* no page or total has arrived
  MayFail, MaxCrashes

\* What is done to one document. A createMany, updateMany or deleteMany is a row of these, one
\* for each document in the order MongoDB takes them, and stops at the first that fails.
Operations ==
  [op : {"create", "createMany"}, key : Keys] \cup [op : {"find", "delete", "deleteMany"}, id : Ids]
    \cup [op : {"update", "updateMany"}, id : Ids, key : Keys]

\* A reader of pages sorts by the unique key, or by nothing or a field with ties.
Job == [kind : {"transaction", "plain"}, program : Seq(Operations)]
         \cup [kind : {"listing"}, limit : Nat, sort : {"key", "other"}] \cup [kind : {"users"}]

ASSUME MongoAssumption ==
  /\ Jobs \subseteq [Calls -> Job]
  /\ IsFiniteSet(Ids) /\ Keys \subseteq Nat /\ Free \notin Keys
  /\ Seeds \in [Ids -> Keys \cup {Free}]
  /\ \A a, b \in Ids : Seeds[a] = Seeds[b] /\ Seeds[a] # Free => a = b
  /\ NotYet \notin Nat
  /\ DefaultLimit \in Nat \ {0} /\ MaxCrashes \in Nat /\ MayFail \in BOOLEAN

VARIABLES
  docs,
  job, pc, step, outcome,   \* per call: its job, await, operations done, end
  session,        \* per call, its session
  wrote,          \* per call, the ids that hold what it wrote last
  page, items, total, seen,   \* per reader: the page, its documents and total, all so far
  stayed, writes, \* per reader, history: documents left alone, and writes, since it began
  apart,          \* per reader, history: writes between the two queries of its page
  crashes

vars == <<docs, job, pc, step, outcome, session, wrote, page, items, total, seen, stayed, writes, apart, crashes>>

reading == <<page, items, total, seen>>

Steps == {"idle", "starting", "running", "committing", "aborting", "listing", "done", "lost"}

TypeOK ==
  /\ docs \in [Ids -> Keys \cup {Free}]
  /\ job \in Jobs /\ pc \in [Calls -> Steps] /\ step \in [Calls -> Nat]
  /\ outcome \in [Calls -> {"none", "result", "duplicate", "database"}]
  /\ session \in [Calls -> {"none", "open", "ending", "abandoned", "ended"}]
  /\ wrote \in [Calls -> SUBSET Ids]
  /\ page \in [Calls -> Nat] /\ seen \in [Calls -> SUBSET Ids]
  /\ items \in [Calls -> (SUBSET Ids) \cup {NotYet}] /\ total \in [Calls -> Nat \cup {NotYet}]
  /\ stayed \in [Calls -> SUBSET Ids] /\ writes \in [Calls -> Nat]
  /\ apart \in [Calls -> Nat]
  /\ crashes \in 0..MaxCrashes

Init ==
  /\ docs = Seeds
  /\ job \in Jobs /\ pc = [c \in Calls |-> "idle"] /\ step = [c \in Calls |-> 0]
  /\ outcome = [c \in Calls |-> "none"] /\ session = [c \in Calls |-> "none"]
  /\ wrote = [c \in Calls |-> {}] /\ page = [c \in Calls |-> 1]
  /\ items = [c \in Calls |-> NotYet] /\ total = [c \in Calls |-> NotYet]
  /\ seen = [c \in Calls |-> {}] /\ stayed = [c \in Calls |-> {}]
  /\ writes = [c \in Calls |-> 0] /\ apart = [c \in Calls |-> 0] /\ crashes = 0

-----------------------------------------------------------------------------
(* The collection.                                                         *)

Present == {id \in Ids : docs[id] # Free}

\* The operation would give two documents one key.
Rejected(o) ==
  \/ o.op \in {"create", "createMany"} /\ \E id \in Ids : docs[id] = o.key
  \/ o.op \in {"update", "updateMany"} /\ docs[o.id] # Free /\ \E id \in Ids \ {o.id} : docs[id] = o.key

\* The collection after an operation, at the ids MongoDB may choose.
After(o) ==
  CASE o.op \in {"create", "createMany"} -> {[docs EXCEPT ![id] = o.key] : id \in Ids \ Present}
    [] o.op \in {"update", "updateMany"} -> {IF o.id \in Present THEN [docs EXCEPT ![o.id] = o.key] ELSE docs}
    [] o.op \in {"delete", "deleteMany"} -> {[docs EXCEPT ![o.id] = Free]}
    [] o.op = "find" -> {docs}

\* Mutant: the error of the driver.
FromDuplicateRaw(o) == {"E11000"}

\* DatabaseException.fromMongoError: a duplicate is told by its code and what the error says
\* of the key, which that of a batch need not.
FromDuplicate(o) == IF o.op = "createMany" THEN {"duplicate", "database"} ELSE {"duplicate"}

-----------------------------------------------------------------------------
(* Calls of the repository, alone or in the callback of withTransaction.   *)

program(c) == job[c].program
InTransaction(c) == job[c].kind = "transaction"
Goto(c, to) == pc' = [pc EXCEPT ![c] = to]
Return(c, value) == Goto(c, "done") /\ outcome' = [outcome EXCEPT ![c] = value]

Begin(c) ==
  /\ pc[c] = "idle"
  /\ Goto(c, CASE job[c].kind = "transaction" -> "starting" [] job[c].kind = "plain" -> "running"
               [] job[c].kind \in {"listing", "users"} -> "listing")
  /\ stayed' = [stayed EXCEPT ![c] = IF job[c].kind = "listing" THEN Present ELSE {}]
  /\ UNCHANGED <<docs, job, step, outcome, session, wrote, reading, writes, apart, crashes>>

StartSession(c) ==
  /\ pc[c] = "starting"
  /\ \/ /\ Goto(c, "running")
        /\ session' = [session EXCEPT ![c] = "open"]
        /\ UNCHANGED outcome
     \/ MayFail /\ Return(c, "database") /\ UNCHANGED session
  /\ UNCHANGED <<docs, job, step, wrote, reading, stayed, writes, apart, crashes>>

\* One of the two queries of the page has been answered.
HalfRead(c) == pc[c] = "listing" /\ ((items[c] = NotYet) # (total[c] = NotYet))

\* The callback has no session: each of its operations takes effect at once.
Operate(c) ==
  /\ pc[c] = "running" /\ step[c] < Len(program(c))
  /\ LET o == program(c)[step[c] + 1] IN
       /\ ~Rejected(o)
       /\ docs' \in After(o)
  /\ LET changed == {id \in Ids : docs'[id] # docs[id]} IN
       /\ wrote' = [d \in Calls |-> IF d = c THEN wrote[c] \cup changed ELSE wrote[d] \ changed]
       /\ stayed' = [d \in Calls |-> stayed[d] \ changed]
       /\ writes' = [d \in Calls |-> IF pc[d] = "listing" THEN writes[d] + Cardinality(changed) ELSE writes[d]]
       /\ apart' = [d \in Calls |-> IF HalfRead(d) THEN apart[d] + Cardinality(changed) ELSE apart[d]]
  /\ step' = [step EXCEPT ![c] = @ + 1]
  /\ UNCHANGED <<job, pc, outcome, session, reading, crashes>>

\* An operation throws; withTransaction goes on to abort, any other call is over.
Throw(c, error) ==
  /\ Goto(c, IF InTransaction(c) THEN "aborting" ELSE "done")
  /\ outcome' = [outcome EXCEPT ![c] = error]
  /\ UNCHANGED <<docs, job, step, session, wrote, reading, stayed, writes, apart, crashes>>

OperationFails(c) ==
  /\ pc[c] = "running" /\ step[c] < Len(program(c))
  /\ LET o == program(c)[step[c] + 1] IN
       \/ Rejected(o) /\ \E error \in FromDuplicate(o) : Throw(c, error)
       \/ MayFail /\ Throw(c, "database")

CallbackDone(c) ==
  /\ pc[c] = "running" /\ step[c] = Len(program(c))
  /\ IF InTransaction(c) THEN Goto(c, "committing") /\ UNCHANGED outcome ELSE Return(c, "result")
  /\ UNCHANGED <<docs, job, step, session, wrote, reading, stayed, writes, apart, crashes>>

\* Mutant: the session is ended after a commit, not in a finally.
AbortTransactionOnly(c) ==
  /\ pc[c] = "aborting" /\ Goto(c, "done")
  /\ UNCHANGED <<docs, job, step, outcome, session, wrote, reading, stayed, writes, apart, crashes>>

\* The transaction is empty: the driver sends nothing, and neither end of it can fail.
\* The end of the session is not awaited.
CommitTransaction(c) ==
  /\ pc[c] = "committing" /\ Return(c, "result")
  /\ session' = [session EXCEPT ![c] = "ending"]
  /\ UNCHANGED <<docs, job, step, wrote, reading, stayed, writes, apart, crashes>>

AbortTransaction(c) ==
  /\ pc[c] = "aborting" /\ Goto(c, "done")
  /\ session' = [session EXCEPT ![c] = "ending"]
  /\ UNCHANGED <<docs, job, step, outcome, wrote, reading, stayed, writes, apart, crashes>>

\* MongoDB ends a session that is ended by its client or was abandoned.
EndSession(c) ==
  /\ session[c] \in {"ending", "abandoned"}
  /\ session' = [session EXCEPT ![c] = "ended"]
  /\ UNCHANGED <<docs, job, pc, step, outcome, wrote, reading, stayed, writes, apart, crashes>>

-----------------------------------------------------------------------------
(* findWithPagination, called for page after page, and findUsers.          *)

\* findUsers is handed the whole envelope of its request, where it finds neither page nor
\* limit nor filter: it answers the first page of the default size.
FindsUsers(c) == job[c].kind = "users"

limit(c) == IF FindsUsers(c) THEN DefaultLimit ELSE IF job[c].limit = 0 THEN DefaultLimit ELSE job[c].limit

\* Mutant: pages counted from 0.
skipFromZero(c) == page[c] * limit(c)

skip(c) == (page[c] - 1) * limit(c)

PageSize(n, c) ==
  IF n <= skip(c) THEN 0 ELSE IF n - skip(c) < limit(c) THEN n - skip(c) ELSE limit(c)

\* Only a caller of findWithPagination can ask for a sort by the unique key; findUsers sorts
\* by the time of creation.
ByKey(c) == job[c].kind = "listing" /\ job[c].sort = "key"

rank(id) == Cardinality({other \in Present : docs[other] <= docs[id]})

\* Mutant: the limit is not passed on to find.
FindRest(c) ==
  /\ pc[c] = "listing" /\ items[c] = NotYet
  /\ items' = [items EXCEPT ![c] = {id \in Present : rank(id) > skip(c)}]
  /\ UNCHANGED <<docs, job, pc, step, outcome, session, wrote, page, total, seen, stayed, writes, apart, crashes>>

\* What a page may hold: the documents of its ranks when they are sorted by the unique key,
\* and otherwise as many of any, for MongoDB puts ties in another order with each query.
Pages(c) ==
  IF ByKey(c) THEN {{id \in Present : rank(id) \in (skip(c) + 1)..(skip(c) + limit(c))}}
              ELSE {some \in SUBSET Present : Cardinality(some) = PageSize(Cardinality(Present), c)}

FindPage(c) ==
  /\ pc[c] = "listing" /\ items[c] = NotYet
  /\ \E some \in Pages(c) : items' = [items EXCEPT ![c] = some]
  /\ UNCHANGED <<docs, job, pc, step, outcome, session, wrote, page, total, seen, stayed, writes, apart, crashes>>

CountDocuments(c) ==
  /\ pc[c] = "listing" /\ total[c] = NotYet
  /\ total' = [total EXCEPT ![c] = Cardinality(Present)]
  /\ UNCHANGED <<docs, job, pc, step, outcome, session, wrote, page, items, seen, stayed, writes, apart, crashes>>

\* Both are there; a reader of pages asks for the next while there is one of totalPages.
NextPage(c) ==
  /\ pc[c] = "listing" /\ items[c] # NotYet /\ total[c] # NotYet
  /\ seen' = [seen EXCEPT ![c] = @ \cup items[c]]
  /\ apart' = [apart EXCEPT ![c] = 0]
  /\ IF FindsUsers(c) \/ page[c] * limit(c) >= total[c]
       THEN Return(c, "result") /\ UNCHANGED <<page, items, total>>
       ELSE /\ page' = [page EXCEPT ![c] = @ + 1]
            /\ items' = [items EXCEPT ![c] = NotYet] /\ total' = [total EXCEPT ![c] = NotYet]
            /\ UNCHANGED <<pc, outcome>>
  /\ UNCHANGED <<docs, job, step, session, wrote, stayed, writes, crashes>>

PageFails(c) ==
  /\ MayFail /\ pc[c] = "listing" /\ NotYet \in {items[c], total[c]}
  /\ Return(c, "database")
  /\ UNCHANGED <<docs, job, step, session, wrote, reading, stayed, writes, apart, crashes>>

-----------------------------------------------------------------------------

Over(c) == pc[c] \in {"done", "lost"}

\* The process dies; its open sessions time out at the server.
Crash ==
  /\ crashes < MaxCrashes /\ crashes' = crashes + 1
  /\ pc' = [c \in Calls |-> IF pc[c] \in {"idle", "done"} THEN pc[c] ELSE "lost"]
  /\ session' = [c \in Calls |-> IF session[c] \in {"open", "ending"} THEN "abandoned" ELSE session[c]]
  /\ UNCHANGED <<docs, job, step, outcome, wrote, reading, stayed, writes, apart>>

Continue(c) ==
  \/ StartSession(c) \/ Operate(c) \/ OperationFails(c) \/ CallbackDone(c)
  \/ CommitTransaction(c) \/ AbortTransaction(c)
  \/ FindPage(c) \/ CountDocuments(c) \/ NextPage(c) \/ PageFails(c)

Rest == (\A c \in Calls : Over(c)) /\ UNCHANGED vars

Next ==
  \/ \E c \in Calls : Begin(c) \/ Continue(c) \/ EndSession(c)
  \/ Crash
  \/ Rest

Spec == Init /\ [][Next]_vars

\* MongoDB answers, and a callback comes to its end.
Fairness == \A c \in Calls : WF_vars(Continue(c)) /\ WF_vars(EndSession(c))

FairSpec == Spec /\ Fairness

-----------------------------------------------------------------------------
(* Properties.                                                             *)

\* Every session ends, whether its callback returns or throws or the process dies
\* (mongo-database.service.ts:57-74).
EverySessionEnds == \A c \in Calls : session[c] = "open" ~> session[c] = "ended"

\* A session is open exactly while its callback runs or its transaction is brought to an
\* end: whichever way withTransaction is left, none is left open, and no callback runs
\* on a session that was ended (mongo-database.service.ts:57-74).
OpenOnlyInUse ==
  \A c \in Calls :
    session[c] = "open" <=> InTransaction(c) /\ pc[c] \in {"running", "committing", "aborting"}

\* The number of documents of a page differs from what its total says by no more than
\* the documents written between the two queries, which run side by side, whatever was
\* written before and after them (base.repository.ts:138-147, user.service.ts:244).
PageAgreesWithTotal ==
  \A c \in Calls : pc[c] = "listing" /\ items[c] # NotYet /\ total[c] # NotYet =>
    LET n == Cardinality(items[c]) m == PageSize(total[c], c)
    IN n <= m + apart[c] /\ m <= n + apart[c]

\* A reader who sorts by the unique key and fetched every page missed no more of the documents
\* that were there all the time than were written meanwhile: each write can move one document
\* across the boundary of two pages. Without such a sort nothing like it holds
\* (base.repository.ts:84, 123-160).
MissedOnlyByWrites ==
  \A c \in Calls : ByKey(c) /\ outcome[c] = "result"
    => Cardinality(stayed[c] \ seen[c]) <= writes[c]

\* "Run a transaction" (mongo-database.service.ts:59): of a transaction that failed
\* nothing is left in the collection.
AllOrNothing ==
  \A c \in Calls : job[c].kind = "transaction" /\ pc[c] = "done"
                     /\ outcome[c] \in {"duplicate", "database"} => wrote[c] = {}
=============================================================================
