-------------------------- MODULE UserAnswerProofs --------------------------
(***************************************************************************)
(* What the answers say of the accounts and of their cache entries, for    *)
(* every set of instances, messages, requests and faults.                  *)
(***************************************************************************)
EXTENDS UserServiceProofs

\* A create is won when it is acknowledged, or its handler is about to acknowledge it.
Won(m) ==
  /\ body[m] \in Request /\ body[m].op = "create"
  /\ \/ "ok" \in answers[m]
     \/ \E i \in Instances : pc[i] # "idle" /\ msg[i] = m /\ outcome[i].kind = "ok"

\* Only what was produced is answered.
AnsweredProduced == \A m \in Messages : answers[m] # {} => body[m] \in Request

NameHeld(col, name) == \E id \in Ids : Stored(col, id) /\ col[id].username = name

\* Until a deletion is asked for, a won create holds its name, and no other create has won it.
WinInv ==
  ~DeleteRequested =>
    /\ \A m \in Messages : Won(m) => NameHeld(users, body[m].username)
    /\ \A m, n \in Messages : m # n /\ Won(m) /\ Won(n) => body[m].username # body[n].username

AnswerInv == AnsweredProduced /\ WinInv

-----------------------------------------------------------------------------
(* Which steps win.                                                        *)

\* A step of a handler wins nothing when it does not newly turn to "ok" for a create.
LEMMA GotoWins ==
  ASSUME TypeInv, NEW i \in Instances, NEW step, NEW kind, NEW user, pc[i] # "idle",
         Goto(i, step, kind, user), UNCHANGED <<log, answers, faults>>,
         kind # "ok" \/ kind = outcome[i].kind \/ RequestOf(i).op # "create",
         NEW m \in Messages, Won(m)'
  PROVE  Won(m)
  <1>1. pc \in [Instances -> Steps] /\ outcome \in [Instances -> Outcome]
    BY DEF TypeInv, TypeOK
  <1>2. body' = body /\ answers' = answers /\ msg' = msg
    BY DEF Goto, log
  <1>3. CASE "ok" \in answers[m]
    BY <1>2, <1>3 DEF Won
  <1>4. CASE "ok" \notin answers[m]
    <2>1. PICK j \in Instances : pc'[j] # "idle" /\ msg[j] = m /\ outcome'[j].kind = "ok"
      BY <1>2, <1>4 DEF Won
    <2>2. CASE j = i
      <3>1. outcome'[i].kind = kind
        BY <1>1 DEF Goto
      <3>2. kind = outcome[i].kind
        BY <1>2, <2>1, <2>2, <3>1 DEF Won, RequestOf
      <3>3. QED
        BY <1>2, <2>1, <2>2, <3>1, <3>2 DEF Won
    <2>3. CASE j # i
      <3>1. pc'[j] = pc[j] /\ outcome'[j] = outcome[j]
        BY <1>1, <2>3 DEF Goto
      <3>2. QED
        BY <1>2, <2>1, <3>1 DEF Won
    <2>4. QED
      BY <2>2, <2>3
  <1>5. QED
    BY <1>3, <1>4

\* An instance at a step of a handler that no create has.
LEMMA NotCreating ==
  ASSUME TypeInv, NEW i \in Instances,
         pc[i] \in {"lookup", "find", "fill", "findByKey", "load", "checkEmail", "write", "remove", "clear"}
  PROVE  pc[i] # "idle" /\ RequestOf(i).op # "create"
  BY DEF TypeInv, Handling, OpsAt

\* The handlers' steps other than Save win nothing.
LEMMA HandlerWins ==
  ASSUME TypeInv, NEW i \in Instances, Handle(i), ~Save(i), NEW m \in Messages, Won(m)'
  PROVE  Won(m)
  <1>1. CASE CheckUserExists(i) \/ SaveDuplicate(i)
    BY <1>1, GotoWins DEF CheckUserExists, SaveDuplicate, At, Return
  <1>2. CASE DbError(i)
    BY <1>2, GotoWins DEF DbError, DbSteps, Return
  <1>3. CASE ClearAll(i) \/ DelKeys(i)
    <2>1. pc[i] # "idle" /\ UNCHANGED <<log, answers, faults, msg>>
      BY <1>3 DEF ClearAll, DelKeys, At, Return, Goto
    <2>2. pc \in [Instances -> Steps] /\ outcome \in [Instances -> Outcome]
      BY DEF TypeInv, TypeOK
    <2>3. \A j \in Instances : outcome'[j].kind = outcome[j].kind /\ (j # i => pc'[j] = pc[j])
      BY <1>3, <2>2 DEF ClearAll, DelKeys, Return, Goto
    <2>4. QED
      BY <2>1, <2>3 DEF Won, log
  <1>4. CASE Lookup(i) \/ Find(i) \/ FindByKey(i) \/ Load(i) \/ CheckEmail(i) \/ WriteDuplicate(i) \/ WriteMissing(i)
    BY <1>4, NotCreating, GotoWins
       DEF Lookup, Find, FindByKey, Load, CheckEmail, WriteDuplicate, WriteMissing, At, Return
  <1>5. CASE Fill(i) \/ Clear(i)
    BY <1>5, NotCreating, GotoWins DEF Fill, Clear, At, Return
  <1>6. CASE Write(i)
    BY <1>6, NotCreating, GotoWins DEF Write, Replace, At, Return
  <1>7. CASE Remove(i)
    BY <1>7, NotCreating, GotoWins DEF Remove, At, Return
  <1>8. CASE Answer(i)
    <2>1. pc \in [Instances -> Steps] /\ msg \in [Instances -> Messages \cup {NoMessage}]
          /\ answers \in [Messages -> SUBSET Kinds]
      BY DEF TypeInv, TypeOK
    <2>2. body' = body /\ pc[i] # "idle" /\ pc'[i] = "idle"
          /\ \A j \in Instances \ {i} : pc'[j] = pc[j] /\ msg'[j] = msg[j] /\ outcome'[j] = outcome[j]
      BY <1>8, <2>1 DEF Answer, log, TypeInv, TypeOK
    <2>3. "ok" \in answers'[m] => "ok" \in answers[m] \/ (msg[i] = m /\ outcome[i].kind = "ok")
      BY <1>8, <2>1 DEF Answer
    <2>4. QED
      BY <2>2, <2>3 DEF Won
  <1>9. QED
    BY <1>1, <1>2, <1>3, <1>4, <1>5, <1>6, <1>7, <1>8 DEF Handle

\* A create is won only by the save of the instance that handles it.
LEMMA WonBySave ==
  ASSUME TypeInv, AnsweredProduced, [Next]_vars, NEW m \in Messages, Won(m)'
  PROVE  /\ body'[m] = body[m]
         /\ Won(m) \/ \E i \in Instances : Save(i) /\ msg[i] = m
  <1> DEFINE Goal == body'[m] = body[m] /\ (Won(m) \/ \E i \in Instances : Save(i) /\ msg[i] = m)
  <1>0. /\ body \in [Messages -> Request \cup {NoRequest}] /\ queue \subseteq Messages
        /\ pc \in [Instances -> Steps] /\ msg \in [Instances -> Messages \cup {NoMessage}]
        /\ outcome \in [Instances -> Outcome]
    BY DEF TypeInv, TypeOK
  <1>1. ASSUME NEW n \in Messages, Produce(n) PROVE Goal
    <2>1. body[n] \notin Request /\ UNCHANGED <<pc, msg, outcome, answers>>
      BY <1>1, ConstantsAssumption DEF Produce, local
    <2>2. answers[n] = {} /\ \A i \in Instances : pc[i] # "idle" => msg[i] # n
      BY <2>1 DEF AnsweredProduced, TypeInv, Handling, RequestOf
    <2>3. m # n
      BY <2>1, <2>2 DEF Won
    <2>4. body'[m] = body[m]
      BY <1>0, <1>1, <2>3 DEF Produce
    <2>5. QED
      BY <2>1, <2>4 DEF Won
  <1>2. ASSUME NEW i \in Instances, NEW n \in Messages, Take(i, n) PROVE Goal
    <2>1. body' = body /\ answers' = answers /\ outcome'[i].kind = "null"
          /\ \A j \in Instances \ {i} : pc'[j] = pc[j] /\ msg'[j] = msg[j] /\ outcome'[j] = outcome[j]
      BY <1>0, <1>2 DEF Take, Nothing
    <2>2. QED
      BY <2>1 DEF Won
  <1>3. ASSUME NEW i \in Instances, Handle(i) PROVE Goal
    <2>1. body' = body
      BY <1>3 DEF Handle, CheckUserExists, Save, SaveDuplicate, ClearAll, DelKeys, Lookup, Find, Fill,
         FindByKey, Load, CheckEmail, Write, WriteDuplicate, WriteMissing, Remove, Clear, DbError,
         Answer, At, log
    <2>2. CASE ~Save(i)
      BY <1>3, <2>1, <2>2, HandlerWins
    <2>3. CASE Save(i) /\ msg[i] = m
      BY <2>1, <2>3
    <2>4. CASE Save(i) /\ msg[i] # m
      <3>1. answers' = answers /\ msg' = msg
            /\ \A j \in Instances \ {i} : pc'[j] = pc[j] /\ outcome'[j] = outcome[j]
        BY <1>0, <2>4 DEF Save, At, Return, Goto
      <3>2. QED
        BY <2>1, <2>4, <3>1 DEF Won
    <2>5. QED
      BY <2>2, <2>3, <2>4
  <1>4. ASSUME NEW i \in Instances, Commit(i) \/ Rebalance(i) PROVE Goal
    BY <1>4 DEF Commit, Rebalance, local, Won
  <1>5. ASSUME NEW i \in Instances, Crash(i) PROVE Goal
    <2>1. body' = body /\ answers' = answers /\ pc'[i] = "idle"
          /\ \A j \in Instances \ {i} : pc'[j] = pc[j] /\ msg'[j] = msg[j] /\ outcome'[j] = outcome[j]
      BY <1>0, <1>5 DEF Crash
    <2>2. QED
      BY <2>1 DEF Won
  <1>6. ASSUME NEW c \in Caches, NEW id \in Ids, Expire(c, id) PROVE Goal
    BY <1>6 DEF Expire, local, log, Won
  <1>7. CASE UNCHANGED vars
    BY <1>7 DEF vars, Won
  <1>8. QED
    BY <1>1, <1>2, <1>3, <1>4, <1>5, <1>6, <1>7 DEF Next, Rest

-----------------------------------------------------------------------------
(* The invariant.                                                          *)

LEMMA AnsweredStep == TypeInv /\ AnsweredProduced /\ [Next]_vars => AnsweredProduced'
  <1> SUFFICES ASSUME TypeInv, AnsweredProduced, [Next]_vars, NEW m \in Messages, answers'[m] # {}
               PROVE  body'[m] \in Request
    BY DEF AnsweredProduced
  <1>0. body \in [Messages -> Request \cup {NoRequest}] /\ answers \in [Messages -> SUBSET Kinds]
    BY DEF TypeInv, TypeOK
  <1>1. body[m] \in Request => body'[m] \in Request
    BY <1>0, ConstantsAssumption
       DEF Next, Produce, Take, Handle, CheckUserExists, Save, SaveDuplicate, ClearAll, DelKeys, Lookup,
         Find, Fill, FindByKey, Load, CheckEmail, Write, WriteDuplicate, WriteMissing, Remove, Clear,
         DbError, Answer, Commit, Rebalance, Crash, Expire, Rest, At, log, vars
  <1>2. CASE answers' = answers
    BY <1>1, <1>2 DEF AnsweredProduced
  <1>3. ASSUME NEW i \in Instances, Answer(i) PROVE body[m] \in Request
    <2>1. msg[i] \in Messages /\ body[msg[i]] \in Request
      BY <1>3 DEF Answer, TypeInv, Handling, RequestOf
    <2>2. m # msg[i] => answers'[m] = answers[m]
      BY <1>0, <1>3 DEF Answer
    <2>3. QED
      BY <2>1, <2>2 DEF AnsweredProduced
  <1>4. answers' = answers \/ \E i \in Instances : Answer(i)
    BY DEF Next, Produce, Take, Handle, CheckUserExists, Save, SaveDuplicate, ClearAll, DelKeys, Lookup,
         Find, Fill, FindByKey, Load, CheckEmail, Write, WriteDuplicate, WriteMissing, Remove, Clear,
         DbError, Commit, Rebalance, Crash, Expire, Rest, At, vars
  <1>5. QED
    BY <1>1, <1>2, <1>3, <1>4

\* Nobody takes a produced deletion back.
LEMMA DeletionStays == TypeInv /\ [Next]_vars /\ DeleteRequested => DeleteRequested'
  <1> SUFFICES ASSUME TypeInv, [Next]_vars, DeleteRequested PROVE DeleteRequested'
    OBVIOUS
  <1>0. body \in [Messages -> Request \cup {NoRequest}]
    BY DEF TypeInv, TypeOK
  <1>1. \A m \in Messages : body[m] # NoRequest => body'[m] = body[m]
    BY <1>0 DEF Next, Produce, Take, Handle, CheckUserExists, Save, SaveDuplicate, ClearAll, DelKeys, Lookup,
         Find, Fill, FindByKey, Load, CheckEmail, Write, WriteDuplicate, WriteMissing, Remove, Clear,
         DbError, Answer, Commit, Rebalance, Crash, Expire, Rest, At, log, vars
  <1>2. QED
    BY <1>1 DEF DeleteRequested

\* Without a deletion no account goes and none changes its name.
LEMMA NamesStay ==
  ASSUME TypeInv, IdsAreUsed, [Next]_vars, ~DeleteRequested, NEW name, NameHeld(users, name)
  PROVE  NameHeld(users', name)
  <1>0. users \in [Ids -> User \cup {NoUser}]
    BY DEF TypeInv, TypeOK
  <1>1. PICK id \in Ids : Stored(users, id) /\ users[id].username = name
    BY DEF NameHeld
  <1>2. ASSUME Inserts PROVE users'[id] = users[id]
    BY <1>0, <1>1, <1>2 DEF Inserts, IdsAreUsed
  <1>3. ASSUME Replaces PROVE Stored(users', id) /\ users'[id].username = name
    BY <1>0, <1>1, <1>3, ConstantsAssumption DEF Replaces, Stored
  <1>4. Stored(users', id) /\ users'[id].username = name
    BY <1>1, <1>2, <1>3, CollectionSteps DEF Removes, Stored
  <1>5. QED
    BY <1>4 DEF NameHeld

\* A save stores the name its message asks for, which nobody held.
LEMMA SaveTakes ==
  ASSUME TypeInv, IdsAreUsed, NEW i \in Instances, Save(i), NEW name, name = RequestOf(i).username
  PROVE  ~NameHeld(users, name) /\ NameHeld(users', name)
  <1>0. users \in [Ids -> User \cup {NoUser}]
    BY DEF TypeInv, TypeOK
  <1>1. RequestOf(i) \in Request /\ RequestOf(i).op = "create"
    BY DEF TypeInv, Handling, Save, At, OpsAt
  <1> DEFINE u == NewUser(RequestOf(i))
  <1>2. u \in User /\ u.username = RequestOf(i).username
    BY <1>1, NewUserType DEF NewUser
  <1>3. PICK id \in Ids \ usedIds : ~Duplicate(id, u) /\ users' = [users EXCEPT ![id] = u]
    BY DEF Save
  <1>4. ~Stored(users, id)
    BY <1>3 DEF IdsAreUsed
  <1>5. ~NameHeld(users, name)
    BY <1>2, <1>3, <1>4 DEF NameHeld, Duplicate
  <1>6. Stored(users', id) /\ users'[id].username = name
    BY <1>0, <1>2, <1>3, ConstantsAssumption DEF Stored
  <1>7. QED
    BY <1>5, <1>6 DEF NameHeld

LEMMA WinStep == TypeInv /\ IdsAreUsed /\ AnswerInv /\ [Next]_vars => WinInv'
  <1> SUFFICES ASSUME TypeInv, IdsAreUsed, AnsweredProduced, WinInv, [Next]_vars, ~DeleteRequested'
               PROVE  /\ \A m \in Messages : Won(m)' => NameHeld(users', body'[m].username)
                      /\ \A m, n \in Messages : m # n /\ Won(m)' /\ Won(n)'
                           => body'[m].username # body'[n].username
    BY DEF AnswerInv, WinInv
  <1>1. ~DeleteRequested
    BY DeletionStays
  <1>2. ASSUME NEW m \in Messages, Won(m)' PROVE NameHeld(users', body'[m].username)
    <2>1. body'[m] = body[m] /\ (Won(m) \/ \E i \in Instances : Save(i) /\ msg[i] = m)
      BY <1>2, WonBySave
    <2>2. CASE Won(m)
      BY <1>1, <2>1, <2>2, NamesStay DEF WinInv
    <2>3. ASSUME NEW i \in Instances, Save(i), msg[i] = m PROVE NameHeld(users', body'[m].username)
      BY <2>1, <2>3, SaveTakes DEF RequestOf
    <2>4. QED
      BY <2>1, <2>2, <2>3
  <1>3. ASSUME NEW m \in Messages, NEW n \in Messages, m # n, Won(m)', ~Won(m), Won(n)'
        PROVE  Won(n) /\ body'[m].username # body'[n].username
    <2>1. PICK i \in Instances : Save(i) /\ msg[i] = m
      BY <1>3, WonBySave
    <2>2. Won(n)
      <3>1. ASSUME NEW j \in Instances, j # i, Save(j) PROVE FALSE
        <4>1. pc \in [Instances -> Steps]
          BY DEF TypeInv, TypeOK
        <4>2. pc'[i] = pc[i]
          BY <3>1, <4>1 DEF Save, Return, Goto
        <4>3. pc'[i] # pc[i]
          BY <2>1, <4>1 DEF Save, At, Return, Goto
        <4>4. QED
          BY <4>2, <4>3
      <3>2. QED
        BY <1>3, <2>1, <3>1, WonBySave
    <2>3. NameHeld(users, body[n].username) /\ ~NameHeld(users, body[m].username)
      BY <1>1, <2>1, <2>2, SaveTakes DEF WinInv, RequestOf
    <2>4. QED
      BY <1>3, <2>2, <2>3, WonBySave
  <1>4. ASSUME NEW m \in Messages, NEW n \in Messages, m # n, Won(m)', Won(n)'
        PROVE  body'[m].username # body'[n].username
    <2>1. CASE Won(m) /\ Won(n)
      BY <1>1, <1>4, <2>1, WonBySave DEF WinInv
    <2>2. CASE ~Won(m)
      BY <1>3, <1>4, <2>2
    <2>3. CASE ~Won(n)
      BY <1>3, <1>4, <2>3
    <2>4. QED
      BY <2>1, <2>2, <2>3
  <1>5. QED
    BY <1>2, <1>4

LEMMA IdsAlwaysUsed == Spec => []IdsAreUsed
  <1>1. Init => IdsAreUsed
    BY DEF Init, IdsAreUsed
  <1>2. QED
    BY <1>1, IdsAreUsedStep, TypeCorrect, PTL DEF Spec

LEMMA AnswersAlwaysTrue == Spec => []AnswerInv
  <1>1. Init => AnswerInv
    BY DEF Init, AnswerInv, AnsweredProduced, WinInv, Won
  <1>2. TypeInv /\ IdsAreUsed /\ AnswerInv /\ [Next]_vars => AnswerInv'
    BY AnsweredStep, WinStep DEF AnswerInv
  <1>3. QED
    BY <1>1, <1>2, IdsAlwaysUsed, TypeCorrect, PTL DEF Spec

-----------------------------------------------------------------------------
(* The theorems.                                                           *)

LEMMA AcknowledgedIsWon ==
  ASSUME TypeInv, NEW m \in Messages, body[m] # NoRequest, body[m].op = "create", "ok" \in answers[m]
  PROVE  Won(m)
  BY DEF Won, TypeInv, TypeOK

\* A client whose create was acknowledged has its account until somebody asks for a
\* deletion, whoever else creates and however often messages are delivered
\* (user.service.ts:33-61).
THEOREM AcknowledgedIsTrue == Spec => []AcknowledgedAccount
  <1>1. TypeInv /\ AnswerInv => AcknowledgedAccount
    BY AcknowledgedIsWon DEF AnswerInv, WinInv, NameHeld, AcknowledgedAccount
  <1>2. QED
    BY <1>1, AnswersAlwaysTrue, TypeCorrect, PTL

\* Of the creates of one user name at most one is acknowledged, however many instances
\* race and however often messages are delivered (user.service.ts:33-61).
THEOREM OnlyOneWins == Spec => []OneWinner
  <1>1. TypeInv /\ AnswerInv => OneWinner
    BY AcknowledgedIsWon DEF AnswerInv, WinInv, OneWinner
  <1>2. QED
    BY <1>1, AnswersAlwaysTrue, TypeCorrect, PTL

-----------------------------------------------------------------------------
(* Requests are not lost.                                                  *)

\* Delivered again if nobody answers it.
Safe(m) == m \in queue \/ \E i \in Instances : pc[i] # "idle" /\ msg[i] = m /\ m \in uncommitted[i]

\* Before its answer a handler keeps its message.
LEMMA HandlersHold ==
  ASSUME TypeInv, NEW i \in Instances, Handle(i), ~Answer(i)
  PROVE  /\ UNCHANGED <<body, queue, uncommitted, msg, answers>>
         /\ \A j \in Instances : pc[j] # "idle" => pc'[j] # "idle"
  <1>1. UNCHANGED <<body, queue, uncommitted, msg, answers>>
    BY DEF Handle, CheckUserExists, Save, SaveDuplicate, ClearAll, DelKeys, Lookup, Find, Fill,
       FindByKey, Load, CheckEmail, Write, Replace, WriteDuplicate, WriteMissing, Remove, Clear, DbError,
       At, Return, Goto, log
  <1>2. pc \in [Instances -> Steps]
    BY DEF TypeInv, TypeOK
  <1>3. PICK step \in Steps \ {"idle"} : pc' = [pc EXCEPT ![i] = step]
    BY DEF Handle, CheckUserExists, Save, SaveDuplicate, ClearAll, DelKeys, Lookup, Find, Fill,
       FindByKey, Load, CheckEmail, Write, Replace, WriteDuplicate, WriteMissing, Remove, Clear, DbError,
       Return, Goto, Steps
  <1>4. QED
    BY <1>1, <1>2, <1>3

LEMMA LossStep == TypeInv /\ NothingIsLost /\ [Next]_vars => NothingIsLost'
  <1> SUFFICES ASSUME TypeInv, NothingIsLost, [Next]_vars,
                      NEW m \in Messages, body'[m] # NoRequest, answers'[m] = {}
               PROVE  Safe(m)'
    BY DEF NothingIsLost, Safe
  <1>0. /\ body \in [Messages -> Request \cup {NoRequest}] /\ answers \in [Messages -> SUBSET Kinds]
        /\ pc \in [Instances -> Steps] /\ msg \in [Instances -> Messages \cup {NoMessage}]
        /\ uncommitted \in [Instances -> SUBSET Messages]
    BY DEF TypeInv, TypeOK
  <1>1. body[m] # NoRequest /\ answers[m] = {} => Safe(m)
    BY DEF NothingIsLost, Safe
  <1>2. ASSUME NEW n \in Messages, Produce(n) PROVE Safe(m)'
    <2>1. m = n \/ body'[m] = body[m]
      BY <1>0, <1>2 DEF Produce
    <2>2. QED
      BY <1>1, <1>2, <2>1 DEF Produce, local, Safe
  <1>3. ASSUME NEW i \in Instances, NEW n \in Messages, Take(i, n) PROVE Safe(m)'
    <2>1. /\ EntryPoint(body[n]) # "idle"
          /\ pc'[i] = EntryPoint(body[n]) /\ msg'[i] = n /\ n \in uncommitted'[i]
      <3>1. body[n] \in Request
        BY <1>3 DEF Take, TypeInv, Deliverable
      <3>2. QED
        BY <1>0, <1>3, <3>1, EntryPointStep DEF Take
    <2>2. \A j \in Instances \ {i} : pc'[j] = pc[j] /\ msg'[j] = msg[j] /\ uncommitted'[j] = uncommitted[j]
      BY <1>0, <1>3 DEF Take
    <2>3. Safe(m) /\ pc[i] = "idle" /\ queue' = queue \ {n}
      BY <1>1, <1>3 DEF Take
    <2>4. QED
      BY <2>1, <2>2, <2>3 DEF Safe
  <1>4. ASSUME NEW i \in Instances, Handle(i), ~Answer(i) PROVE Safe(m)'
    <2>1. Safe(m)
      BY <1>1, <1>4, HandlersHold
    <2>2. QED
      BY <1>4, <2>1, HandlersHold DEF Safe
  <1>5. ASSUME NEW i \in Instances, Answer(i) PROVE Safe(m)'
    <2>1. msg[i] \in Messages /\ msg[i] # m /\ answers'[m] = answers[m]
      BY <1>0, <1>5 DEF Answer, TypeInv, Handling
    <2>2. Safe(m) /\ UNCHANGED <<queue, uncommitted>>
      BY <1>1, <1>5, <2>1 DEF Answer, log
    <2>3. \A j \in Instances \ {i} : pc'[j] = pc[j] /\ msg'[j] = msg[j]
      BY <1>0, <1>5 DEF Answer
    <2>4. QED
      BY <2>1, <2>2, <2>3 DEF Safe
  <1>6. ASSUME NEW i \in Instances, Commit(i) PROVE Safe(m)'
    <2>1. Safe(m) /\ UNCHANGED <<queue, pc, msg>>
      BY <1>1, <1>6 DEF Commit, local
    <2>2. \A j \in Instances : msg[j] = m /\ m \in uncommitted[j] => m \in uncommitted'[j]
      BY <1>0, <1>6 DEF Commit
    <2>3. QED
      BY <2>1, <2>2 DEF Safe
  <1>7. ASSUME NEW i \in Instances, Rebalance(i) \/ Crash(i) PROVE Safe(m)'
    <2>1. Safe(m) /\ queue' = queue \cup uncommitted[i]
      BY <1>1, <1>7 DEF Rebalance, Crash
    <2>2. \A j \in Instances \ {i} : pc'[j] = pc[j] /\ msg'[j] = msg[j] /\ uncommitted'[j] = uncommitted[j]
      BY <1>0, <1>7 DEF Rebalance, Crash, local
    <2>3. QED
      BY <2>1, <2>2 DEF Safe
  <1>8. CASE (\E c \in Caches, id \in Ids : Expire(c, id)) \/ UNCHANGED vars
    BY <1>1, <1>8 DEF Expire, log, local, vars, Safe
  <1>9. QED
    BY <1>2, <1>3, <1>4, <1>5, <1>6, <1>7, <1>8 DEF Next, Rest

\* No request disappears without an answer, whichever instances die or lose their
\* partitions while they handle it (user.controller.ts:23-123).
THEOREM RequestsAreKept == Spec => []NothingIsLost
  <1>1. Init => NothingIsLost
    BY DEF Init, NothingIsLost
  <1>2. QED
    BY <1>1, LossStep, TypeCorrect, PTL DEF Spec

-----------------------------------------------------------------------------
(* Reads of any number of instances, from stores that may fail.            *)

\* The document instance i read, on its way into the store or to the client.
HasRead(i) ==
  \/ pc[i] = "fill"
  \/ pc[i] = "answer" /\ RequestOf(i).op = "get" /\ outcome[i].kind = "ok"

ReadPast(i) == HasRead(i) => outcome[i].user \in versions[RequestOf(i).id]

\* What the collection holds of an account, a store, or an instance that is about to fill
\* one, is a document the account has held: an answer alone says nothing of the reads it
\* was taken from.
PastInv ==
  /\ \A id \in Ids : Stored(users, id) => users[id] \in versions[id]
  /\ \A c \in Caches, id \in Ids : cache[c][id] # NoEntry => cache[c][id].user \in versions[id]
  /\ \A i \in Instances : ReadPast(i)

\* A document is never taken back from the history, and what is written goes into it.
LEMMA HistoryGrows ==
  ASSUME TypeInv, PastInv, [Next]_vars, NEW id \in Ids
  PROVE  /\ versions[id] \subseteq versions'[id]
         /\ Stored(users, id)' => users'[id] \in versions'[id]
  <1>0. versions \in [Ids -> SUBSET User] /\ users \in [Ids -> User \cup {NoUser}]
    BY DEF TypeInv, TypeOK
  <1>1. Stored(users, id) => users[id] \in versions[id]
    BY DEF PastInv
  <1>2. ASSUME NEW x \in Ids, NEW u, users' = [users EXCEPT ![x] = u], versions' = [versions EXCEPT ![x] = @ \cup {u}]
        PROVE  /\ versions[id] \subseteq versions'[id]
               /\ Stored(users, id)' => users'[id] \in versions'[id]
    BY <1>0, <1>1, <1>2 DEF Stored
  <1>3. ASSUME NEW i \in Instances, Save(i)
        PROVE  \E x \in Ids : \E u : users' = [users EXCEPT ![x] = u] /\ versions' = [versions EXCEPT ![x] = @ \cup {u}]
    BY <1>3 DEF Save
  <1>4. ASSUME NEW i \in Instances, Write(i)
        PROVE  \E x \in Ids : \E u : users' = [users EXCEPT ![x] = u] /\ versions' = [versions EXCEPT ![x] = @ \cup {u}]
    <2>1. pc[i] = "write" /\ Replace(i, RequestOf(i).id, Updated(RequestOf(i), users[RequestOf(i).id]))
      BY <1>4 DEF Write, At
    <2>2. RequestOf(i).id \in Ids
      BY <2>1, RequestFields DEF TypeInv, Handling, OpsAt, IdOps
    <2>3. QED
      BY <2>1, <2>2 DEF Replace
  <1>5. ASSUME NEW i \in Instances, Remove(i)
        PROVE  versions' = versions /\ (users'[id] = users[id] \/ users'[id] = NoUser)
    BY <1>0, <1>5 DEF Remove
  <1>6. ASSUME ~\E i \in Instances : Save(i) \/ Write(i) \/ Remove(i)
        PROVE  UNCHANGED <<users, versions>>
    BY <1>6 DEF Next, Produce, Take, Handle, CheckUserExists, SaveDuplicate, ClearAll, DelKeys, Lookup, Find, Fill,
       FindByKey, Load, CheckEmail, WriteDuplicate, WriteMissing, Clear, DbError, Answer, Commit, Rebalance, Crash,
       Expire, Rest, collection, vars
  <1>7. QED
    BY <1>1, <1>2, <1>3, <1>4, <1>5, <1>6 DEF Stored

\* What comes into a store was in the hands of an instance.
LEMMA EntriesComeFromFills ==
  ASSUME TypeInv, [Next]_vars, NEW c \in Caches, NEW id \in Ids, cache'[c][id] # NoEntry
  PROVE  \/ cache'[c][id] = cache[c][id]
         \/ \E i \in Instances : /\ Fill(i) /\ RequestOf(i).id = id
                                 /\ cache'[c][id].user = outcome[i].user
  <1>0. cache \in [Caches -> [Ids -> CacheEntry \cup {NoEntry}]] /\ \A i \in Instances : CacheOf[i] \in Caches
    BY ConstantsAssumption DEF TypeInv, TypeOK
  <1>1. ASSUME NEW i \in Instances, ClearAll(i) \/ DelKeys(i) \/ Clear(i) PROVE cache'[c][id] \in {cache[c][id], NoEntry}
    BY <1>0, <1>1 DEF ClearAll, DelKeys, Clear, StoreCall
  <1>2. ASSUME NEW i \in Instances, Crash(i) PROVE cache'[c][id] \in {cache[c][id], NoEntry}
    BY <1>0, <1>2 DEF Crash, EmptyCache
  <1>3. ASSUME NEW o \in Caches, NEW x \in Ids, Expire(o, x) PROVE cache'[c][id] \in {cache[c][id], NoEntry}
    BY <1>0, <1>3 DEF Expire
  <1>4. ASSUME NEW i \in Instances, Handle(i), ~Fill(i), ~ClearAll(i), ~DelKeys(i), ~Clear(i) PROVE cache' = cache
    BY <1>4 DEF Handle, CheckUserExists, Save, SaveDuplicate, Lookup, Find, FindByKey, Load, CheckEmail,
       Write, Replace, WriteDuplicate, WriteMissing, Remove, DbError, Answer
  <1>5. ASSUME (\E m \in Messages : Produce(m)) \/ UNCHANGED vars
               \/ \E i \in Instances : Commit(i) \/ Rebalance(i) \/ \E m \in Messages : Take(i, m)
        PROVE  cache' = cache
    BY <1>5 DEF Produce, Take, Commit, Rebalance, vars
  <1>6. ASSUME NEW i \in Instances, Fill(i), cache'[c][id] # cache[c][id]
        PROVE  RequestOf(i).id = id /\ cache'[c][id].user = outcome[i].user
    BY <1>0, <1>6 DEF Fill, StoreCall
  <1>7. QED
    BY <1>1, <1>2, <1>3, <1>4, <1>5, <1>6 DEF Next, Rest

\* An instance has its document already, or takes it from the collection or a store.
ReadsOn(i) ==
  /\ RequestOf(i)' = RequestOf(i) /\ RequestOf(i).id \in Ids
  /\ \/ HasRead(i) /\ outcome'[i].user = outcome[i].user
     \/ /\ Stored(users, RequestOf(i).id)
        /\ outcome'[i].user = users[RequestOf(i).id]
     \/ /\ cache[CacheOf[i]][RequestOf(i).id] # NoEntry
        /\ outcome'[i].user = cache[CacheOf[i]][RequestOf(i).id].user

LEMMA ReadsComeFromStores ==
  ASSUME TypeInv, [Next]_vars, NEW i \in Instances, HasRead(i)'
  PROVE  ReadsOn(i)
  <1>0. /\ body \in [Messages -> Request \cup {NoRequest}] /\ pc \in [Instances -> Steps]
        /\ outcome \in [Instances -> Outcome] /\ msg \in [Instances -> Messages \cup {NoMessage}]
    BY DEF TypeInv, TypeOK
  <1>1. pc[i] # "idle" => RequestOf(i) \in Request /\ RequestOf(i).op \in OpsAt(pc[i]) /\ msg[i] \in Messages
    BY DEF TypeInv, Handling
  <1>2. pc[i] # "idle" /\ RequestOf(i).op = "get" => RequestOf(i).id \in Ids
    BY <1>1, RequestFields DEF IdOps
  <1>3. pc'[i] # "idle"
    BY DEF HasRead
  <1>4. ASSUME pc'[i] = pc[i], outcome'[i] = outcome[i], RequestOf(i)' = RequestOf(i) PROVE ReadsOn(i)
    <2>1. HasRead(i)
      BY <1>4 DEF HasRead
    <2>2. RequestOf(i).op = "get"
      BY <1>1, <2>1 DEF HasRead, OpsAt
    <2>3. QED
      BY <1>2, <1>3, <1>4, <2>1, <2>2 DEF ReadsOn
  <1>5. CASE Handle(i)
    <2>1. pc[i] # "idle" /\ RequestOf(i)' = RequestOf(i)
      BY <1>3, <1>5, <1>0, HandlersHold DEF RequestOf, Handle, CheckUserExists, Save, SaveDuplicate, ClearAll, DelKeys, Lookup, Find, Fill,
         FindByKey, Load, CheckEmail, Write, WriteDuplicate, WriteMissing, Remove, Clear, DbError, DbSteps, Answer, At
    <2>2. RequestOf(i).op = "get"
      <3>1. CASE pc'[i] = "answer"
        BY <2>1, <3>1 DEF HasRead
      <3>2. CASE pc'[i] = "fill"
        <4>1. pc[i] = "find"
          BY <1>0, <1>5, <3>2 DEF Handle, CheckUserExists, Save, SaveDuplicate, ClearAll, DelKeys, Lookup, Find, Fill,
             FindByKey, Load, CheckEmail, Write, Replace, WriteDuplicate, WriteMissing, Remove, Clear, DbError, Answer,
             At, Return, Goto
        <4>2. QED
          BY <1>1, <4>1 DEF OpsAt
      <3>3. QED
        BY <3>1, <3>2 DEF HasRead
    <2>3. pc[i] \in {"lookup", "find", "fill", "answer"}
      BY <1>1, <1>0, <2>1, <2>2 DEF OpsAt, Steps
    <2>4. CASE Lookup(i)
      <3>1. cache[CacheOf[i]][RequestOf(i).id] # NoEntry /\ outcome'[i].user = cache[CacheOf[i]][RequestOf(i).id].user
        BY <1>0, <2>4 DEF Lookup, Return, Goto, HasRead
      <3>2. QED
        BY <1>2, <2>1, <2>2, <3>1 DEF ReadsOn
    <2>5. CASE Find(i)
      <3>1. Stored(users, RequestOf(i).id) /\ outcome'[i].user = users[RequestOf(i).id]
        BY <1>0, <2>5 DEF Find, Return, Goto, HasRead, Stored
      <3>2. QED
        BY <1>2, <2>1, <2>2, <3>1 DEF ReadsOn
    <2>6. CASE Fill(i)
      <3>1. HasRead(i) /\ outcome'[i].user = outcome[i].user
        BY <1>0, <2>6 DEF Fill, At, Return, Goto, HasRead
      <3>2. QED
        BY <1>2, <2>1, <2>2, <3>1 DEF ReadsOn
    <2>7. CASE DbError(i)
      BY <1>0, <2>7 DEF DbError, Return, Goto, HasRead
    <2>8. QED
      BY <1>0, <1>3, <1>5, <2>3, <2>4, <2>5, <2>6, <2>7 DEF Handle, CheckUserExists, Save, SaveDuplicate, ClearAll, DelKeys,
         FindByKey, Load, CheckEmail, Write, WriteDuplicate, WriteMissing, Remove, Clear, Answer, At
  <1>6. ASSUME NEW j \in Instances, j # i, Handle(j) \/ (\E m \in Messages : Take(j, m)) \/ Crash(j) PROVE ReadsOn(i)
    <2>1. pc'[i] = pc[i] /\ outcome'[i] = outcome[i] /\ msg'[i] = msg[i] /\ body' = body
      BY <1>0, <1>6 DEF Handle, CheckUserExists, Save, SaveDuplicate, ClearAll, DelKeys, Lookup, Find, Fill,
         FindByKey, Load, CheckEmail, Write, Replace, WriteDuplicate, WriteMissing, Remove, Clear, DbError, Answer,
         Take, Crash, At, Return, Goto, log
    <2>2. QED
      BY <1>4, <2>1 DEF RequestOf
  <1>7. CASE (\E m \in Messages : Take(i, m)) \/ Crash(i)
    BY <1>0, <1>7 DEF Take, Crash, EntryPoint, Nothing, HasRead
  <1>8. ASSUME NEW j \in Instances, Commit(j) \/ Rebalance(j) PROVE ReadsOn(i)
    BY <1>4, <1>8 DEF Commit, Rebalance, local, RequestOf
  <1>9. ASSUME NEW m \in Messages, Produce(m) PROVE ReadsOn(i)
    <2>1. pc[i] # "idle" /\ UNCHANGED local
      BY <1>3, <1>9 DEF Produce, local
    <2>2. msg[i] # m
      BY <1>1, <1>9, <2>1, ConstantsAssumption DEF Produce, RequestOf
    <2>3. RequestOf(i)' = RequestOf(i)
      BY <1>0, <1>1, <1>9, <2>1, <2>2 DEF Produce, RequestOf, local
    <2>4. QED
      BY <1>4, <2>1, <2>3 DEF local
  <1>10. CASE (\E c \in Caches, id \in Ids : Expire(c, id)) \/ UNCHANGED vars
    BY <1>4, <1>10 DEF Expire, vars, local, log, RequestOf
  <1>11. QED
    BY <1>5, <1>6, <1>7, <1>8, <1>9, <1>10 DEF Next, Rest

LEMMA PastStep == TypeInv /\ PastInv /\ [Next]_vars => PastInv'
  <1> SUFFICES ASSUME TypeInv, PastInv, [Next]_vars PROVE PastInv'
    OBVIOUS
  <1>0. \A i \in Instances : CacheOf[i] \in Caches
    BY ConstantsAssumption
  <1>1. \A id \in Ids : versions[id] \subseteq versions'[id] /\ (Stored(users, id)' => users'[id] \in versions'[id])
    BY HistoryGrows
  <1>2. ASSUME NEW c \in Caches, NEW id \in Ids, cache'[c][id] # NoEntry
        PROVE  cache'[c][id].user \in versions[id]
    <2>1. CASE cache'[c][id] = cache[c][id]
      BY <1>2, <2>1 DEF PastInv
    <2>2. ASSUME NEW i \in Instances, Fill(i), RequestOf(i).id = id, cache'[c][id].user = outcome[i].user
          PROVE  cache'[c][id].user \in versions[id]
      BY <2>2 DEF PastInv, ReadPast, HasRead, Fill, At
    <2>3. QED
      BY <1>2, <2>1, <2>2, EntriesComeFromFills
  <1>3. ASSUME NEW i \in Instances, HasRead(i)'
        PROVE  outcome'[i].user \in versions[RequestOf(i).id] /\ RequestOf(i)' = RequestOf(i) /\ RequestOf(i).id \in Ids
    <2>1. ReadsOn(i)
      BY <1>3, ReadsComeFromStores
    <2>2. CASE HasRead(i) /\ outcome'[i].user = outcome[i].user
      BY <2>1, <2>2 DEF PastInv, ReadPast, ReadsOn
    <2>3. CASE Stored(users, RequestOf(i).id) /\ outcome'[i].user = users[RequestOf(i).id]
      BY <2>1, <2>3 DEF PastInv, ReadsOn
    <2>4. CASE /\ cache[CacheOf[i]][RequestOf(i).id] # NoEntry
               /\ outcome'[i].user = cache[CacheOf[i]][RequestOf(i).id].user
      BY <1>0, <2>1, <2>4 DEF PastInv, ReadsOn
    <2>5. QED
      BY <2>1, <2>2, <2>3, <2>4 DEF ReadsOn
  <1>4. QED
    BY <1>1, <1>2, <1>3 DEF PastInv, ReadPast

\* However many instances read and write, and whatever crashes or fails, a read answers a
\* document its account has held, whole (user.service.ts:66-96).
THEOREM ReadsAreNeverInvented == Spec => []ReadsArePast
  <1>1. Init => PastInv
    BY ConstantsAssumption DEF Init, PastInv, EmptyCache, ReadPast, HasRead, Stored
  <1>2. PastInv => ReadsArePast
    BY DEF PastInv, ReadPast, HasRead, ReadsArePast
  <1>3. QED
    BY <1>1, <1>2, PastStep, TypeCorrect, PTL DEF Spec

-----------------------------------------------------------------------------
(* Verifications.                                                          *)

\* m is acknowledged, or its handler is about to acknowledge it.
Acknowledged(m) ==
  \/ "ok" \in answers[m]
  \/ \E i \in Instances : pc[i] # "idle" /\ msg[i] = m /\ outcome[i].kind = "ok"

Verification(m) == body[m] \in Request /\ body[m].op = "verify"

Verified(col, id) == id \in usedIds /\ (Stored(col, id) => col[id].isVerified)

\* From the write on, not only from the answer.
VerifyInv ==
  \A m \in Messages : Verification(m) /\ Acknowledged(m) => Verified(users, body[m].id)

\* A verification is acknowledged for its write only.
LEMMA AcknowledgedByWrite ==
  ASSUME TypeInv, AnsweredProduced, [Next]_vars,
         NEW m \in Messages, Verification(m)', Acknowledged(m)'
  PROVE  /\ body'[m] = body[m]
         /\ Acknowledged(m) \/ \E i \in Instances : Write(i) /\ msg[i] = m
  <1> DEFINE Goal == body'[m] = body[m] /\ (Acknowledged(m) \/ \E i \in Instances : Write(i) /\ msg[i] = m)
  <1>0. /\ body \in [Messages -> Request \cup {NoRequest}] /\ answers \in [Messages -> SUBSET Kinds]
        /\ pc \in [Instances -> Steps] /\ msg \in [Instances -> Messages \cup {NoMessage}]
        /\ outcome \in [Instances -> Outcome]
    BY DEF TypeInv, TypeOK
  <1>1. ASSUME NEW n \in Messages, Produce(n) PROVE Goal
    <2>1. body[n] \notin Request /\ UNCHANGED <<pc, msg, outcome, answers>>
      BY <1>1, ConstantsAssumption DEF Produce, local
    <2>2. answers[n] = {} /\ \A i \in Instances : pc[i] # "idle" => msg[i] # n
      BY <2>1 DEF AnsweredProduced, TypeInv, Handling, RequestOf
    <2>3. m # n
      BY <2>1, <2>2 DEF Acknowledged
    <2>4. body'[m] = body[m]
      BY <1>0, <1>1, <2>3 DEF Produce
    <2>5. QED
      BY <2>1, <2>4 DEF Acknowledged
  <1>2. ASSUME NEW i \in Instances, NEW n \in Messages, Take(i, n) PROVE Goal
    <2>1. body' = body /\ answers' = answers /\ outcome'[i].kind = "null"
          /\ \A j \in Instances \ {i} : pc'[j] = pc[j] /\ msg'[j] = msg[j] /\ outcome'[j] = outcome[j]
      BY <1>0, <1>2 DEF Take, Nothing
    <2>2. QED
      BY <2>1 DEF Acknowledged
  <1>3. ASSUME NEW i \in Instances, Handle(i), ~Answer(i) PROVE Goal
    <2>1. UNCHANGED <<body, msg, answers>> /\ pc[i] # "idle"
      BY <1>3, HandlersHold DEF Handle, CheckUserExists, Save, SaveDuplicate, ClearAll, DelKeys, Lookup, Find, Fill,
         FindByKey, Load, CheckEmail, Write, WriteDuplicate, WriteMissing, Remove, Clear, DbError, DbSteps, At
    <2>2. \A j \in Instances \ {i} : pc'[j] = pc[j] /\ outcome'[j] = outcome[j]
      BY <1>0, <1>3 DEF Handle, CheckUserExists, Save, SaveDuplicate, ClearAll, DelKeys, Lookup, Find, Fill,
         FindByKey, Load, CheckEmail, Write, Replace, WriteDuplicate, WriteMissing, Remove, Clear, DbError, Return, Goto
    <2>3. CASE msg[i] # m
      BY <2>1, <2>2, <2>3 DEF Acknowledged
    <2>4. CASE msg[i] = m
      <3>1. RequestOf(i).op = "verify" /\ pc[i] \in {"write", "clear"}
        BY <1>0, <1>3, <2>1, <2>4 DEF Verification, RequestOf, TypeInv, Handling, OpsAt, Steps, Handle, CheckUserExists, Save,
           SaveDuplicate, ClearAll, DelKeys, Lookup, Find, Fill, FindByKey, Load, CheckEmail, Write, WriteDuplicate,
           WriteMissing, Remove, Clear, DbError, DbSteps, At
      <3>2. CASE Write(i)
        BY <2>1, <2>4, <3>2
      <3>3. CASE Clear(i)
        <4>1. outcome'[i].kind = outcome[i].kind
          BY <1>0, <3>3 DEF Clear, Return, Goto
        <4>2. QED
          BY <2>1, <2>2, <2>4, <4>1 DEF Acknowledged
      <3>4. CASE WriteDuplicate(i) \/ WriteMissing(i) \/ DbError(i)
        <4>1. outcome'[i].kind # "ok"
          BY <1>0, <3>4 DEF WriteDuplicate, WriteMissing, DbError, Return, Goto
        <4>2. QED
          BY <2>1, <2>2, <4>1 DEF Acknowledged
      <3>5. QED
        BY <1>3, <3>1, <3>2, <3>3, <3>4 DEF Handle, CheckUserExists, Save, SaveDuplicate, ClearAll, DelKeys, Lookup, Find,
           Fill, FindByKey, Load, CheckEmail, Remove, At
    <2>5. QED
      BY <2>3, <2>4
  <1>4. ASSUME NEW i \in Instances, Answer(i) PROVE Goal
    <2>1. body' = body /\ pc[i] # "idle" /\ pc'[i] = "idle"
          /\ \A j \in Instances \ {i} : pc'[j] = pc[j] /\ msg'[j] = msg[j] /\ outcome'[j] = outcome[j]
      BY <1>0, <1>4 DEF Answer, log
    <2>2. "ok" \in answers'[m] => "ok" \in answers[m] \/ (msg[i] = m /\ outcome[i].kind = "ok")
      BY <1>0, <1>4 DEF Answer
    <2>3. QED
      BY <2>1, <2>2 DEF Acknowledged
  <1>5. ASSUME NEW i \in Instances, Commit(i) \/ Rebalance(i) PROVE Goal
    BY <1>5 DEF Commit, Rebalance, local, Acknowledged
  <1>6. ASSUME NEW i \in Instances, Crash(i) PROVE Goal
    <2>1. body' = body /\ answers' = answers /\ pc'[i] = "idle"
          /\ \A j \in Instances \ {i} : pc'[j] = pc[j] /\ msg'[j] = msg[j] /\ outcome'[j] = outcome[j]
      BY <1>0, <1>6 DEF Crash
    <2>2. QED
      BY <2>1 DEF Acknowledged
  <1>7. CASE (\E c \in Caches, id \in Ids : Expire(c, id)) \/ UNCHANGED vars
    BY <1>7 DEF Expire, local, log, vars, Acknowledged
  <1>8. QED
    BY <1>1, <1>2, <1>3, <1>4, <1>5, <1>6, <1>7 DEF Next, Rest

LEMMA VerifyStep == TypeInv /\ IdsAreUsed /\ AnsweredProduced /\ VerifyInv /\ [Next]_vars => VerifyInv'
  <1> SUFFICES ASSUME TypeInv, IdsAreUsed, AnsweredProduced, VerifyInv, [Next]_vars,
                      NEW m \in Messages, Verification(m)', Acknowledged(m)'
               PROVE  Verified(users, body[m].id)'
    BY DEF VerifyInv
  <1>0. users \in [Ids -> User \cup {NoUser}]
    BY DEF TypeInv, TypeOK
  <1>1. body'[m] = body[m] /\ Verification(m)
    BY AcknowledgedByWrite DEF Verification
  <1>2. PICK id \in Ids : id = body[m].id
    BY <1>1, RequestFields DEF Verification, IdOps
  <1>3. CASE Acknowledged(m)
    <2>1. Verified(users, id)
      BY <1>1, <1>2, <1>3 DEF VerifyInv
    <2>2. CASE UNCHANGED <<users, usedIds>>
      BY <1>1, <1>2, <2>1, <2>2 DEF Verified, Stored
    <2>3. CASE Inserts
      BY <1>0, <1>1, <1>2, <2>1, <2>3 DEF Inserts, Verified, Stored
    <2>4. CASE Replaces
      BY <1>0, <1>1, <1>2, <2>1, <2>4 DEF Replaces, Verified, Stored
    <2>5. CASE Removes
      BY <1>0, <1>1, <1>2, <2>1, <2>5 DEF Removes, Verified, Stored
    <2>6. QED
      BY <2>2, <2>3, <2>4, <2>5, CollectionSteps
  <1>4. ASSUME NEW i \in Instances, Write(i), msg[i] = m PROVE Verified(users, body[m].id)'
    <2>1. RequestOf(i) = body[m] /\ Stored(users, id) /\ UNCHANGED usedIds
          /\ users' = [users EXCEPT ![id] = Updated(body[m], users[id])]
      BY <1>2, <1>4 DEF Write, Replace, RequestOf
    <2>2. users[id] \in User
      BY <1>0, <2>1 DEF Stored
    <2>3. Updated(body[m], users[id]).isVerified
      BY <1>1, <2>2 DEF Updated, Changed, Verification, User
    <2>4. QED
      BY <1>0, <1>1, <1>2, <2>1, <2>3 DEF Verified, IdsAreUsed
  <1>5. QED
    BY <1>3, <1>4, AcknowledgedByWrite

\* An acknowledged verification holds for as long as its account is there, whatever writes
\* of other instances it races (user.service.ts:267-315, 401-430).
THEOREM VerificationsHold == Spec => []VerificationHolds
  <1>1. Init => VerifyInv
    BY DEF Init, VerifyInv, Acknowledged
  <1>2. TypeInv /\ VerifyInv => VerificationHolds
    BY DEF VerifyInv, Verification, Acknowledged, Verified, VerificationHolds, TypeInv, TypeOK
  <1>3. TypeInv /\ IdsAreUsed /\ AnswerInv /\ VerifyInv /\ [Next]_vars => VerifyInv'
    BY VerifyStep DEF AnswerInv
  <1>4. QED
    BY <1>1, <1>2, <1>3, IdsAlwaysUsed, AnswersAlwaysTrue, TypeCorrect, PTL DEF Spec

-----------------------------------------------------------------------------
(* Entries after a crash.                                                  *)

Writers == {"update", "status", "verify", "login"}

\* Worked off from its start, m leaves no outdated entry for id, or its client is told of
\* an error: it will not be refused for the email of another.
Mends(m, id) ==
  /\ body[m] \in Request /\ body[m].op \in Writers /\ body[m].id = id
  /\ body[m].op = "update" /\ body[m].email # NoEmail => users[id].email = Lower[body[m].email]

\* m is handled and has not cleared the cache yet, or is about to be answered an error.
InHand(m) ==
  \E i \in Instances :
    /\ msg[i] = m
    /\ \/ pc[i] \in {"load", "checkEmail", "write", "clear"}
       \/ pc[i] = "answer" /\ outcome[i].kind = "error"

Pending(m) == m \in queue \/ InHand(m)

Mended(id) == FailedFor(id) \/ \E m \in Messages : Mends(m, id) /\ Pending(m)

Stale(c, id) ==
  cache[c][id] # NoEntry /\ Stored(users, id) /\ cache[c][id].user # users[id]

\* Every outdated entry waits for a message that mends it.
MendInv == \A c \in Caches, id \in Ids : Stale(c, id) => Mended(id)

\* Entries are of accounts that were there, in stores in use; what is handled is delivered
\* again if it is not committed; and what is put into a store is current.
Kept ==
  /\ \A c \in Caches, id \in Ids :
       cache[c][id] # NoEntry => id \in usedIds /\ \E i \in Instances : CacheOf[i] = c
  /\ \A i \in Instances : pc[i] # "idle" => msg[i] \in queue \cup uncommitted[i]
  /\ \A i \in Instances : pc[i] = "fill" => outcome[i].user = users[RequestOf(i).id]

\* One instance whose store takes every call, of either kind; the database may fail.
OneInstance == (\A i, j \in Instances : i = j) /\ ~CacheMayFail

Facts == TypeInv /\ IdsAreUsed /\ UniqueAccounts /\ AnsweredProduced /\ Kept

LEMMA WritersHaveIds ==
  ASSUME NEW r \in Request, r.op \in Writers
  PROVE  "id" \in DOMAIN r
  BY DEF Request, Writers

\* A step that takes nothing from the log and writes another account leaves id mended.
LEMMA MendedStays ==
  ASSUME Facts, NEW id \in Ids, users'[id] = users[id],
         \A m \in Messages : body[m] \in Request => body'[m] = body[m],
         \A m \in Messages : answers[m] \subseteq answers'[m],
         \A m \in Messages : Mends(m, id) /\ Pending(m) => Pending(m)' \/ FailedFor(id)',
         Mended(id)
  PROVE  Mended(id)'
  <1>1. FailedFor(id) => FailedFor(id)'
    BY DEF FailedFor, Facts, AnsweredProduced
  <1>2. \A m \in Messages : Mends(m, id) => Mends(m, id)'
    BY DEF Mends
  <1>3. QED
    BY <1>1, <1>2 DEF Mended

\* What an instance has in hand is at a step of it.
LEMMA InHandSteps ==
  ASSUME OneInstance, Facts, NEW i \in Instances
  PROVE  /\ \A m : InHand(m) <=> /\ msg[i] = m
                                 /\ \/ pc[i] \in {"load", "checkEmail", "write", "clear"}
                                    \/ pc[i] = "answer" /\ outcome[i].kind = "error"
         /\ pc[i] # "idle" => /\ msg[i] \in Messages /\ RequestOf(i) \in Request
                              /\ RequestOf(i).op \in OpsAt(pc[i])
         /\ CacheOf[i] \in Caches
         /\ cache \in [Caches -> [Ids -> CacheEntry \cup {NoEntry}]]
         /\ users \in [Ids -> User \cup {NoUser}]
         /\ pc \in [Instances -> Steps] /\ outcome \in [Instances -> Outcome]
  BY ConstantsAssumption DEF InHand, OneInstance, Facts, TypeInv, TypeOK, Handling

\* Handlers that write nothing to the collection and at most drop entries.
LEMMA ReaderMends ==
  ASSUME OneInstance, Facts, MendInv, NEW i \in Instances,
         \/ CheckUserExists(i) \/ SaveDuplicate(i) \/ ClearAll(i) \/ DelKeys(i)
         \/ Lookup(i) \/ Find(i) \/ FindByKey(i)
  PROVE  MendInv'
  <1>1. UNCHANGED <<users, body, queue, answers>>
    BY DEF CheckUserExists, SaveDuplicate, ClearAll, DelKeys, Lookup, Find, FindByKey, At, collection, log
  <1>2. \A c \in Caches, id \in Ids : cache'[c][id] \in {cache[c][id], NoEntry}
    BY InHandSteps DEF CheckUserExists, SaveDuplicate, ClearAll, DelKeys, StoreCall, Lookup, Find, FindByKey, At
  <1>3. pc[i] \in {"checkExists", "save", "clearAll", "delKeys", "lookup", "find", "findByKey"}
    BY DEF CheckUserExists, SaveDuplicate, ClearAll, DelKeys, Lookup, Find, FindByKey, At
  <1>4. \A m : ~InHand(m)
    BY <1>3, InHandSteps
  <1>5. ASSUME NEW c \in Caches, NEW id \in Ids, Stale(c, id)' PROVE Mended(id)'
    <2>1. Stale(c, id)
      BY <1>1, <1>2, <1>5 DEF Stale, Stored
    <2>2. QED
      BY <1>1, <1>4, <2>1, MendedStays DEF MendInv, Pending
  <1>6. QED
    BY <1>5 DEF MendInv

\* What is put into the store is current, and an account is opened under a new id.
LEMMA FillMends == ASSUME OneInstance, Facts, MendInv, NEW i \in Instances, Fill(i) PROVE MendInv'
  <1> DEFINE r == RequestOf(i)
  <1>1. pc[i] = "fill" /\ UNCHANGED <<users, body, queue, answers>>
    BY DEF Fill, At, collection, log
  <1>2. outcome[i].user = users[r.id]
    BY <1>1 DEF Facts, Kept
  <1>3. \A m : ~InHand(m)
    BY <1>1, InHandSteps
  <1>4. cache' = [cache EXCEPT ![CacheOf[i]] = [cache[CacheOf[i]] EXCEPT ![r.id] = [user |-> users[r.id], ttl |-> CacheTtl]]]
    BY <1>2 DEF Fill, StoreCall, OneInstance
  <1>5. ASSUME NEW c \in Caches, NEW id \in Ids, Stale(c, id)' PROVE Mended(id)'
    <2>1. cache'[c][id] = cache[c][id] \/ cache'[c][id].user = users[id]
      BY <1>4, InHandSteps
    <2>2. Stale(c, id)
      BY <1>1, <1>5, <2>1 DEF Stale, Stored
    <2>3. QED
      BY <1>1, <1>3, <2>2, MendedStays DEF MendInv, Pending
  <1>6. QED
    BY <1>5 DEF MendInv

LEMMA SaveMends == ASSUME OneInstance, Facts, MendInv, NEW i \in Instances, Save(i) PROVE MendInv'
  <1>1. pc[i] = "save" /\ UNCHANGED <<cache, body, queue, answers>>
    BY DEF Save, At, log
  <1>2. PICK new \in Ids \ usedIds : users' = [users EXCEPT ![new] = NewUser(RequestOf(i))]
    BY DEF Save
  <1>3. \A m : ~InHand(m)
    BY <1>1, InHandSteps
  <1>4. ASSUME NEW c \in Caches, NEW id \in Ids, Stale(c, id)' PROVE Mended(id)'
    <2>1. cache[c][id] # NoEntry
      BY <1>1, <1>4 DEF Stale
    <2>2. id # new
      BY <1>2, <2>1 DEF Facts, Kept
    <2>3. users'[id] = users[id]
      BY <1>2, <2>2, InHandSteps
    <2>4. Stale(c, id)
      BY <1>1, <1>4, <2>3 DEF Stale, Stored
    <2>5. QED
      BY <1>1, <1>3, <2>3, <2>4, MendedStays DEF MendInv, Pending
  <1>5. QED
    BY <1>4 DEF MendInv

LEMMA RemoveMends == ASSUME OneInstance, Facts, MendInv, NEW i \in Instances, Remove(i) PROVE MendInv'
  <1>1. pc[i] = "remove" /\ UNCHANGED <<cache, body, queue, answers>>
    BY DEF Remove, At, log
  <1>2. users' = users \/ users' = [users EXCEPT ![RequestOf(i).id] = NoUser]
    BY DEF Remove
  <1>3. \A m : ~InHand(m)
    BY <1>1, InHandSteps
  <1>4. ASSUME NEW c \in Caches, NEW id \in Ids, Stale(c, id)' PROVE Mended(id)'
    <2>1. users'[id] = users[id]
      BY <1>2, <1>4, InHandSteps DEF Stale, Stored
    <2>2. Stale(c, id)
      BY <1>1, <1>4, <2>1 DEF Stale, Stored
    <2>3. QED
      BY <1>1, <1>3, <2>1, <2>2, MendedStays DEF MendInv, Pending
  <1>5. QED
    BY <1>4 DEF MendInv

\* Handlers of writers that write nothing: the message in hand stays pending as long as it
\* may have an entry to clear.
LEMMA CheckMends ==
  ASSUME OneInstance, Facts, MendInv, NEW i \in Instances,
         Load(i) \/ CheckEmail(i) \/ WriteDuplicate(i) \/ WriteMissing(i) \/ DbError(i)
  PROVE  MendInv'
  <1> DEFINE r == RequestOf(i)
  <1>1. UNCHANGED <<users, cache, body, queue, answers, msg>>
    BY DEF Load, CheckEmail, WriteDuplicate, WriteMissing, DbError, At, Return, Goto, collection, log
  <1>2. pc[i] # "idle"
    BY DEF Load, CheckEmail, WriteDuplicate, WriteMissing, DbError, DbSteps, At
  <1>3. PICK step, kind, user : Goto(i, step, kind, user)
    BY DEF Load, CheckEmail, WriteDuplicate, WriteMissing, DbError, Return
  <1>4. pc'[i] = step /\ outcome'[i].kind = kind
    BY <1>3, InHandSteps DEF Goto
  <1>5. ASSUME NEW c \in Caches, NEW id \in Ids, Stale(c, id)' PROVE Mended(id)'
    <2>1. Stale(c, id) /\ Stored(users, id)
      BY <1>1, <1>5 DEF Stale, Stored
    <2>2. ASSUME NEW m \in Messages, Mends(m, id), InHand(m) PROVE InHand(m)'
      <3>1. msg[i] = m /\ r.op \in Writers /\ r.id = id /\ users[r.id] # NoUser
        BY <2>1, <2>2, InHandSteps DEF Mends, RequestOf, Stored
      <3>2. CASE Load(i)
        <4>1. pc'[i] \in {"checkEmail", "write"}
          BY <3>1, <3>2, InHandSteps DEF Load, Goto
        <4>2. QED
          BY <1>1, <3>1, <4>1 DEF InHand
      <3>3. CASE CheckEmail(i)
        <4>1. r.op = "update" /\ r.email # NoEmail
          BY <3>3 DEF CheckEmail, At, OpsAt, Facts, TypeInv, Handling
        <4>2. users[id].email = Lower[r.email]
          BY <2>2, <3>1, <4>1 DEF Mends, RequestOf
        <4>3. \A other \in Ids \ {id} : Stored(users, other) => users[other].email # users[id].email
          BY <2>1 DEF Facts, UniqueAccounts, HaveUniqueKeys
        <4>4. pc'[i] = "write"
          BY <3>1, <3>3, <4>2, <4>3, InHandSteps DEF CheckEmail, Goto
        <4>5. QED
          BY <1>1, <3>1, <4>4 DEF InHand
      <3>4. CASE WriteDuplicate(i) \/ DbError(i)
        <4>1. pc'[i] = "answer" /\ outcome'[i].kind = "error"
          BY <3>4, InHandSteps DEF WriteDuplicate, DbError, Return, Goto
        <4>2. QED
          BY <1>1, <3>1, <4>1 DEF InHand
      <3>5. CASE WriteMissing(i)
        BY <3>1, <3>5 DEF WriteMissing, Stored
      <3>6. QED
        BY <3>2, <3>3, <3>4, <3>5
    <2>3. QED
      BY <1>1, <2>1, <2>2, MendedStays DEF MendInv, Pending
  <1>6. QED
    BY <1>5 DEF MendInv

\* Whoever writes mends what it leaves outdated.
LEMMA WriteMends == ASSUME OneInstance, Facts, MendInv, NEW i \in Instances, Write(i) PROVE MendInv'
  <1> DEFINE r == RequestOf(i)
             u == Updated(r, users[r.id])
  <1>1. /\ pc[i] = "write" /\ UNCHANGED <<cache, body, queue, answers, msg>>
        /\ Stored(users, r.id) /\ users' = [users EXCEPT ![r.id] = u]
    BY DEF Write, Replace, At, Return, Goto, log
  <1>2. msg[i] \in Messages /\ r \in Request /\ r.op \in Writers
    BY <1>1, InHandSteps DEF OpsAt, Writers
  <1>3. \/ pc'[i] = "clear"
        \/ pc'[i] = "answer" /\ outcome'[i].kind = "error"
    BY InHandSteps DEF Write, Replace, Return, Goto
  <1>4. r.id \in Ids /\ users[r.id] \in User
    BY <1>1, <1>2, RequestFields, InHandSteps DEF Writers, IdOps, Stored
  <1>5. r.op = "update" /\ r.email # NoEmail => u.email = Lower[r.email]
    BY <1>4 DEF Updated, Changed, User
  <1>6. ASSUME NEW id \in Ids, NEW m \in Messages, id = r.id, m = msg[i] PROVE Mended(id)'
    <2>1. users'[id] = u
      BY <1>1, <1>4, <1>6, InHandSteps
    <2>2. Mends(m, id)'
      BY <1>1, <1>2, <1>5, <1>6, <2>1 DEF Mends, RequestOf
    <2>3. InHand(m)'
      BY <1>1, <1>3, <1>6 DEF InHand
    <2>4. QED
      BY <2>2, <2>3 DEF Mended, Pending
  <1>7. ASSUME NEW c \in Caches, NEW id \in Ids, Stale(c, id)', id # r.id PROVE Mended(id)'
    <2>1. users'[id] = users[id]
      BY <1>1, <1>7, InHandSteps
    <2>2. Stale(c, id)
      BY <1>1, <1>7, <2>1 DEF Stale, Stored
    <2>3. \A m \in Messages : Mends(m, id) => ~InHand(m)
      BY <1>7, InHandSteps DEF Mends, RequestOf
    <2>4. QED
      BY <1>1, <2>1, <2>2, <2>3, MendedStays DEF MendInv, Pending
  <1>8. QED
    BY <1>2, <1>6, <1>7 DEF MendInv

LEMMA ClearMends == ASSUME OneInstance, Facts, MendInv, NEW i \in Instances, Clear(i) PROVE MendInv'
  <1> DEFINE r == RequestOf(i)
  <1>1. pc[i] = "clear" /\ UNCHANGED <<users, body, queue, answers>>
    BY DEF Clear, At, collection, log
  <1>2. cache' = [cache EXCEPT ![CacheOf[i]] = [cache[CacheOf[i]] EXCEPT ![r.id] = NoEntry]]
    BY DEF Clear, StoreCall, OneInstance
  <1>3. ASSUME NEW c \in Caches, NEW id \in Ids, Stale(c, id)' PROVE Mended(id)'
    <2>1. cache[c][id] # NoEntry /\ c = CacheOf[i]
      <3>1. cache[c][id] # NoEntry
        BY <1>2, <1>3, InHandSteps DEF Stale
      <3>2. QED
        BY <3>1 DEF Facts, Kept, OneInstance
    <2>2. id # r.id /\ cache'[c][id] = cache[c][id]
      BY <1>2, <1>3, <2>1, InHandSteps DEF Stale
    <2>3. Stale(c, id)
      BY <1>1, <1>3, <2>2 DEF Stale, Stored
    <2>4. \A m \in Messages : Mends(m, id) => ~InHand(m)
      BY <2>2, InHandSteps DEF Mends, RequestOf
    <2>5. QED
      BY <1>1, <2>3, <2>4, MendedStays DEF MendInv, Pending
  <1>4. QED
    BY <1>3 DEF MendInv

\* An error that is answered is known.
LEMMA AnswerMends == ASSUME OneInstance, Facts, MendInv, NEW i \in Instances, Answer(i) PROVE MendInv'
  <1>1. /\ pc[i] = "answer" /\ UNCHANGED <<users, cache, body, queue>>
        /\ answers' = [answers EXCEPT ![msg[i]] = @ \cup {outcome[i].kind}]
        /\ answers \in [Messages -> SUBSET Kinds]
    BY DEF Answer, collection, log, Facts, TypeInv, TypeOK
  <1>2. ASSUME NEW id \in Ids, NEW m \in Messages, Mends(m, id), InHand(m) PROVE FailedFor(id)'
    <2>1. msg[i] = m /\ outcome[i].kind = "error"
      BY <1>1, <1>2, InHandSteps
    <2>2. "error" \in answers'[m]
      BY <1>1, <2>1
    <2>3. "id" \in DOMAIN body[m] /\ body[m].id = id
      BY <1>2, WritersHaveIds DEF Mends
    <2>4. QED
      BY <1>1, <2>2, <2>3 DEF FailedFor
  <1>3. ASSUME NEW c \in Caches, NEW id \in Ids, Stale(c, id)' PROVE Mended(id)'
    <2>1. Stale(c, id)
      BY <1>1, <1>3 DEF Stale, Stored
    <2>2. \A m \in Messages : answers[m] \subseteq answers'[m]
      BY <1>1
    <2>3. QED
      BY <1>1, <1>2, <2>1, <2>2, MendedStays DEF MendInv, Pending
  <1>4. QED
    BY <1>3 DEF MendInv

\* Kafka and time: a message in hand is delivered again after a crash.
LEMMA LogMends ==
  ASSUME OneInstance, Facts, MendInv, NEW i \in Instances,
         (\E m \in Messages : Take(i, m)) \/ Commit(i) \/ Rebalance(i) \/ Crash(i)
  PROVE  MendInv'
  <1>1. UNCHANGED <<users, body, answers>>
    BY DEF Take, Commit, Rebalance, Crash, collection
  <1>2. \A c \in Caches, id \in Ids : cache'[c][id] \in {cache[c][id], NoEntry}
    BY InHandSteps DEF Take, Commit, Rebalance, Crash, EmptyCache
  <1>3. ASSUME NEW id \in Ids, NEW m \in Messages, Mends(m, id), Pending(m) PROVE Pending(m)'
    <2>1. CASE \E n \in Messages : Take(i, n)
      <3>1. PICK n \in Messages : Take(i, n)
        BY <2>1
      <3>2. m \in queue
        BY <1>3, <3>1, InHandSteps DEF Pending, Take
      <3>3. CASE m = n
        <4>1. msg'[i] = m /\ pc'[i] = EntryPoint(body[m])
          BY <3>1, <3>3, InHandSteps DEF Take, Facts, TypeInv, TypeOK
        <4>2. EntryPoint(body[m]) \in {"load", "write"}
          BY <1>3 DEF Mends, Writers, EntryPoint
        <4>3. QED
          BY <4>1, <4>2 DEF Pending, InHand
      <3>4. CASE m # n
        BY <3>1, <3>2, <3>4 DEF Take, Pending
      <3>5. QED
        BY <3>3, <3>4
    <2>2. CASE Commit(i) \/ Rebalance(i)
      BY <1>3, <2>2 DEF Commit, Rebalance, Pending, InHand, local
    <2>3. CASE Crash(i)
      <3>1. InHand(m) => msg[i] = m /\ pc[i] # "idle"
        BY InHandSteps
      <3>2. InHand(m) => m \in queue \cup uncommitted[i]
        BY <3>1 DEF Facts, Kept
      <3>3. QED
        BY <1>3, <2>3, <3>2 DEF Crash, Pending
    <2>4. QED
      BY <2>1, <2>2, <2>3
  <1>4. ASSUME NEW c \in Caches, NEW id \in Ids, Stale(c, id)' PROVE Mended(id)'
    <2>1. Stale(c, id)
      BY <1>1, <1>2, <1>4 DEF Stale, Stored
    <2>2. QED
      BY <1>1, <1>3, <2>1, MendedStays DEF MendInv
  <1>5. QED
    BY <1>4 DEF MendInv

LEMMA OtherMends ==
  ASSUME Facts, MendInv,
         \/ \E m \in Messages : Produce(m)
         \/ \E c \in Caches, id \in Ids : Expire(c, id)
         \/ UNCHANGED vars
  PROVE  MendInv'
  <1>1. UNCHANGED <<users, answers, local>> /\ queue \subseteq queue'
    BY DEF Produce, Expire, vars, collection, log, local
  <1>2. \A m \in Messages : body[m] \in Request => body'[m] = body[m]
    BY ConstantsAssumption DEF Produce, Expire, vars, log, Facts, TypeInv, TypeOK
  <1>3. \A c \in Caches, id \in Ids : cache'[c][id] \in {cache[c][id], NoEntry}
    BY DEF Produce, Expire, vars, Facts, TypeInv, TypeOK
  <1>4. \A m : Pending(m) => Pending(m)'
    BY <1>1 DEF Pending, InHand, local
  <1>5. ASSUME NEW c \in Caches, NEW id \in Ids, Stale(c, id)' PROVE Mended(id)'
    <2>1. Stale(c, id)
      BY <1>1, <1>3, <1>5 DEF Stale, Stored
    <2>2. QED
      BY <1>1, <1>2, <1>4, <2>1, MendedStays DEF MendInv
  <1>6. QED
    BY <1>5 DEF MendInv

LEMMA MendStep ==
  ASSUME OneInstance, Facts, MendInv, [Next]_vars
  PROVE  MendInv'
  <1>1. ASSUME NEW i \in Instances, Handle(i) PROVE MendInv'
    BY <1>1, ReaderMends, FillMends, SaveMends, RemoveMends, CheckMends, WriteMends, ClearMends, AnswerMends DEF Handle
  <1>2. QED
    BY <1>1, LogMends, OtherMends DEF Next, Rest

LEMMA KeptStep ==
  ASSUME OneInstance, Facts, [Next]_vars
  PROVE  Kept'
  <1>1. usedIds \subseteq usedIds'
    <2>1. UNCHANGED usedIds \/ Inserts \/ Replaces \/ Removes
      BY CollectionSteps DEF Facts
    <2>2. QED
      BY <2>1 DEF Inserts, Replaces, Removes
  <1>2. ASSUME NEW c \in Caches, NEW id \in Ids, cache'[c][id] # NoEntry
        PROVE  id \in usedIds /\ \E i \in Instances : CacheOf[i] = c
    <2>1. CASE cache[c][id] # NoEntry
      BY <2>1 DEF Facts, Kept
    <2>2. CASE cache[c][id] = NoEntry
      <3>1. PICK i \in Instances : Fill(i)
        <4>1. ASSUME NEW i \in Instances, ClearAll(i) \/ DelKeys(i) \/ Clear(i) PROVE cache'[c][id] = NoEntry
          BY <2>2, <4>1, InHandSteps DEF ClearAll, DelKeys, Clear, StoreCall, At
        <4>2. ASSUME NEW i \in Instances, Crash(i) PROVE cache'[c][id] = NoEntry
          BY <2>2, <4>2, InHandSteps DEF Crash, EmptyCache
        <4>3. ASSUME NEW o \in Caches, NEW x \in Ids, Expire(o, x) PROVE cache'[c][id] = NoEntry
          BY <2>2, <4>3 DEF Expire, Facts, TypeInv, TypeOK
        <4>4. ASSUME NEW i \in Instances, Handle(i), ~Fill(i), ~ClearAll(i), ~DelKeys(i), ~Clear(i) PROVE cache' = cache
          BY <4>4 DEF Handle, CheckUserExists, Save, SaveDuplicate, Lookup, Find, FindByKey, Load, CheckEmail,
             Write, Replace, WriteDuplicate, WriteMissing, Remove, DbError, Answer
        <4>5. ASSUME (\E m \in Messages : Produce(m)) \/ UNCHANGED vars
                     \/ \E i \in Instances : Commit(i) \/ Rebalance(i) \/ \E m \in Messages : Take(i, m)
              PROVE  cache' = cache
          BY <4>5 DEF Produce, Take, Commit, Rebalance, vars
        <4>6. QED
          BY <1>2, <2>2, <4>1, <4>2, <4>3, <4>4, <4>5 DEF Next, Rest
      <3>2. pc[i] = "fill" /\ outcome[i].user # NoUser /\ outcome[i].user = users[RequestOf(i).id]
        BY <3>1 DEF Fill, At, Facts, TypeInv, Handling, Kept
      <3>3. CacheOf[i] = c /\ RequestOf(i).id = id
        BY <1>2, <2>2, <3>1, InHandSteps DEF Fill, StoreCall
      <3>4. QED
        BY <3>2, <3>3 DEF Facts, IdsAreUsed, Stored
    <2>3. QED
      BY <2>1, <2>2
  <1>3. ASSUME NEW i \in Instances, pc'[i] # "idle" PROVE msg'[i] \in queue' \cup uncommitted'[i]
    <2>1. CASE Handle(i)
      <3>1. msg'[i] = msg[i] /\ pc[i] # "idle" /\ UNCHANGED log
        BY <1>3, <2>1, InHandSteps DEF Handle, CheckUserExists, Save, SaveDuplicate, ClearAll, DelKeys, Lookup, Find, Fill,
           FindByKey, Load, CheckEmail, Write, Replace, WriteDuplicate, WriteMissing, Remove, Clear, DbError, DbSteps,
           Answer, At, Return, Goto
      <3>2. QED
        BY <3>1 DEF log, Facts, Kept
    <2>2. CASE (\E m \in Messages : Take(i, m)) \/ Commit(i) \/ Rebalance(i) \/ Crash(i)
      BY <1>3, <2>2 DEF Take, Commit, Rebalance, Crash, local, Facts, Kept, TypeInv, TypeOK
    <2>3. CASE (\E m \in Messages : Produce(m)) \/ (\E c \in Caches, id \in Ids : Expire(c, id)) \/ UNCHANGED vars
      BY <1>3, <2>3 DEF Produce, Expire, vars, local, log, Facts, Kept
    <2>4. QED
      BY <2>1, <2>2, <2>3 DEF Next, Rest, OneInstance
  <1>4. ASSUME NEW i \in Instances, pc'[i] = "fill" PROVE outcome'[i].user = users'[RequestOf(i)'.id]
    <2>1. CASE Handle(i)
      <3>1. Find(i) /\ UNCHANGED <<users, body, msg>>
        BY <1>4, <2>1, InHandSteps DEF Handle, CheckUserExists, Save, SaveDuplicate, ClearAll, DelKeys, Lookup, Find, Fill,
           FindByKey, Load, CheckEmail, Write, Replace, WriteDuplicate, WriteMissing, Remove, Clear, DbError,
           Answer, At, Return, Goto, collection, log
      <3>2. outcome'[i].user = users[RequestOf(i).id]
        BY <1>4, <3>1, InHandSteps DEF Find, Return, Goto
      <3>3. QED
        BY <3>1, <3>2 DEF RequestOf
    <2>2. CASE \E m \in Messages : Take(i, m)
      BY <1>4, <2>2, InHandSteps DEF Take, EntryPoint
    <2>3. CASE Crash(i)
      BY <1>4, <2>3, InHandSteps DEF Crash
    <2>4. CASE Commit(i) \/ Rebalance(i) \/ (\E c \in Caches, id \in Ids : Expire(c, id)) \/ UNCHANGED vars
      BY <1>4, <2>4 DEF Commit, Rebalance, Expire, vars, collection, local, log, RequestOf, Facts, Kept
    <2>5. CASE \E m \in Messages : Produce(m)
      <3>1. pc[i] # "idle" /\ UNCHANGED <<users, local>>
        BY <1>4, <2>5 DEF Produce, collection, local
      <3>2. RequestOf(i)' = RequestOf(i)
        BY <2>5, <3>1, InHandSteps, ConstantsAssumption DEF Produce, RequestOf, local, Facts, TypeInv, TypeOK
      <3>3. QED
        BY <1>4, <3>1, <3>2 DEF local, Facts, Kept
    <2>6. QED
      BY <2>1, <2>2, <2>3, <2>4, <2>5 DEF Next, Rest, OneInstance
  <1>5. QED
    BY <1>1, <1>2, <1>3, <1>4 DEF Kept

\* Where a single instance serves the users, no entry is outdated once all is worked off,
\* whatever crashed, unless a client was told of an error (user.service.ts:299, 377, 405, 439).
THEOREM SettledIsCoherent ==
  ASSUME OneInstance
  PROVE  Spec => []SettledCoherent
  <1>1. Init => Kept /\ MendInv
    BY ConstantsAssumption DEF Init, Kept, MendInv, Stale, EmptyCache
  <1>2. MendInv => SettledCoherent
    BY DEF MendInv, Mended, Pending, InHand, Stale, SettledCoherent, Settled
  <1>3. /\ TypeInv /\ IdsAreUsed /\ UniqueAccounts /\ AnswerInv /\ Kept /\ MendInv /\ [Next]_vars
           => Kept' /\ MendInv'
    BY KeptStep, MendStep DEF Facts, AnswerInv
  <1>4. QED
    BY <1>1, <1>2, <1>3, AccountsAreUnique, IdsAlwaysUsed, AnswersAlwaysTrue, TypeCorrect, PTL DEF Spec
=============================================================================
