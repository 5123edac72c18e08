--------------------------- MODULE AuthFlowProofs ---------------------------
(* Theorems about AuthFlow, for any requests, mixes of routes and accounts. *)
EXTENDS AuthFlow, TLAPS

\* What a refused or failed request is answered with.
LEMMA Statuses ==
  /\ Filter(HttpException(401)) = 401
  /\ Filter(SendThrows(ServiceTimeout)) = 504
  /\ Filter(SendThrows(RpcError)) = 503
  /\ Filter(ServiceUnavailable) = 503
<1>1. RpcError # ServiceTimeout
  <2>1. "statusCode" \notin DOMAIN RpcError /\ "statusCode" \in DOMAIN ServiceTimeout
      BY DEF RpcError, ServiceTimeout
  <2> QED BY <2>1
<1>2. Filter(HttpException(401)) = 401
    BY DEF Filter, HttpExceptionFilter, AllExceptionsFilter, HttpException
<1>3. Filter(ServiceTimeout) = 504
    BY DEF Filter, HttpExceptionFilter, AllExceptionsFilter, ServiceTimeout
<1>4. Filter(ServiceUnavailable) = 503
    BY DEF Filter, HttpExceptionFilter, AllExceptionsFilter, ServiceUnavailable
<1> QED BY <1>1, <1>2, <1>3, <1>4 DEF SendThrows

-----------------------------------------------------------------------------
(* The inductive invariant: only routes of the auth service have a job,    *)
(* and only a guarded route is refused by a guard.                         *)

Inv ==
  /\ TypeOK
  /\ RefusalsLookLikeOutages
  /\ \A r \in Requests : job[r] # "none" => ServiceOf(route[r]) = "auth"
  /\ \A r \in Requests : gate[r] = "guarding" => route[r] \notin Public

LEMMA InitInv == Init => Inv
<1> SUFFICES ASSUME Init PROVE Inv
    OBVIOUS
<1>1. TypeOK
    BY RequestAssumption DEF RequestAssumption, Init, TypeOK, GateSteps, JobSteps
<1>2. RefusalsLookLikeOutages
    BY DEF Init, RefusalsLookLikeOutages
<1> QED BY <1>1, <1>2 DEF Inv, Init

\* The gateway leaves alone what the services keep.
LEMMA GatewayFrame ==
  ASSUME NEW r \in Requests, Arrive(r) \/ Gateway(r) \/ GateUnavailable(r)
  PROVE  UNCHANGED <<route, inherits, creates, accounts, redeliveries>>
BY DEF Arrive, Gateway, Guard, CheckHealth, GateTimeout, GateAnswer, GateUnavailable

\* An answer to one request, with a status that its route may have.
LEMMA AnswerStep ==
  ASSUME Inv, NEW r \in Requests, NEW code \in Nat, Answer(r, code),
         UNCHANGED <<job, route, inherits, creates, accounts, redeliveries>>,
         code # 200 => code \in IF route[r] \in Public THEN {503, 504} ELSE {401, 503, 504}
  PROVE  Inv'
<1>1. TypeOK'
    BY DEF Inv, TypeOK, Answer, GateSteps
<1>2. RefusalsLookLikeOutages'
    BY DEF Inv, TypeOK, Answer, RefusalsLookLikeOutages
<1> QED BY <1>1, <1>2 DEF Inv, TypeOK, Answer

\* A request is forwarded to the service of its route.
LEMMA ForwardStep ==
  ASSUME Inv, NEW r \in Requests, Forward(r),
         UNCHANGED <<route, inherits, creates, accounts, redeliveries>>
  PROVE  Inv'
<1>1. PICK to \in {"probing", "forwarded", "answered"} : gate' = [gate EXCEPT ![r] = to]
    BY DEF Forward, GateTo, Answer
<1>2. status' = status \/ status' = [status EXCEPT ![r] = 200]
    BY DEF Forward, GateTo, Answer
<1>3. job' = [job EXCEPT ![r] = IF ServiceOf(route[r]) = "auth" THEN "received" ELSE "none"]
    BY DEF Forward
<1>4. TypeOK'
    BY <1>1, <1>2, <1>3 DEF Inv, TypeOK, GateSteps, JobSteps
<1>5. RefusalsLookLikeOutages'
    BY <1>2 DEF Inv, TypeOK, RefusalsLookLikeOutages
<1> QED BY <1>1, <1>3, <1>4, <1>5 DEF Inv, TypeOK

\* The gateway: a refused request gets the status of its guard, of an outage or a timeout.
LEMMA GatewayStep ==
  ASSUME Inv, NEW r \in Requests, Arrive(r) \/ Gateway(r) \/ GateUnavailable(r)
  PROVE  Inv'
<1>1. CASE Arrive(r)
  <2>1. CASE Forward(r)
      BY <2>1, GatewayFrame, ForwardStep
  <2>2. CASE route[r] \notin Public /\ GateTo(r, "guarding") /\ UNCHANGED job
      BY <2>2, GatewayFrame DEF GateTo, Inv, TypeOK, GateSteps, RefusalsLookLikeOutages
  <2>3. CASE route[r] \notin Public /\ Refuse(r, HttpException(401)) /\ UNCHANGED job
      BY <2>3, GatewayFrame, AnswerStep, Statuses DEF Refuse
  <2> QED BY <1>1, <2>1, <2>2, <2>3 DEF Arrive
<1>2. CASE Guard(r)
  <2>1. route[r] \notin Public
      BY <1>2 DEF Guard, Inv
  <2>2. CASE Forward(r)
      BY <2>2, GatewayFrame, ForwardStep
  <2>3. CASE Refuse(r, HttpException(401)) /\ UNCHANGED job
      BY <2>1, <2>3, GatewayFrame, AnswerStep, Statuses DEF Refuse
  <2> QED BY <1>2, <2>2, <2>3 DEF Guard
<1>3. CASE CheckHealth(r)
  <2>1. Answer(r, 200) /\ UNCHANGED job
      BY <1>3 DEF CheckHealth
  <2> QED BY <2>1, GatewayFrame, AnswerStep
<1>4. CASE GateTimeout(r)
  <2>1. Answer(r, 504) /\ UNCHANGED job
      BY <1>4, Statuses DEF GateTimeout, Refuse
  <2> QED BY <2>1, GatewayFrame, AnswerStep
<1>5. CASE GateAnswer(r)
  <2>1. UNCHANGED job /\ (Answer(r, 200) \/ Answer(r, 503))
      BY <1>5, Statuses DEF GateAnswer, Refuse
  <2>2. ASSUME NEW code \in {200, 503}, Answer(r, code) PROVE Inv'
      BY <2>1, <2>2, GatewayFrame, AnswerStep
  <2> QED BY <2>1, <2>2
<1>6. CASE GateUnavailable(r)
  <2>1. Answer(r, 503) /\ UNCHANGED job
      BY <1>6, Statuses DEF GateUnavailable, Refuse
  <2> QED BY <2>1, GatewayFrame, AnswerStep
<1> QED BY <1>1, <1>2, <1>3, <1>4, <1>5, <1>6 DEF Gateway

\* The handlers of the auth service end in an error or go on.
LEMMA HandlerStep ==
  ASSUME Inv, NEW r \in Requests, Handler(r) \/ Redeliver(r)
  PROVE  Inv'
<1>1. UNCHANGED <<route, inherits, gate, status, accounts>>
    BY DEF Handler, Handle, CheckExists, CreateAnswered, Issue, FindFails, Redeliver
<1>2. creates' \in {creates, creates \cup {<<r, "asked">>}}
    BY DEF Handler, Handle, CheckExists, CreateAnswered, Issue, FindFails, Redeliver
<1>3. redeliveries' \in 0..MaxRedeliveries
    BY RequestAssumption
    DEF RequestAssumption, Inv, TypeOK, Handler, Handle, CheckExists, CreateAnswered, Issue, FindFails, Redeliver
<1>4. job[r] # "none"
    BY DEF Handler, Handle, CheckExists, CreateAnswered, Issue, FindFails, Redeliver
<1>5. PICK step \in JobSteps : job' = [job EXCEPT ![r] = step]
  <2>1. CASE Handle(r)
    <3>1. route[r] \in {"register", "login", "refresh", "logout"}
        BY <1>4 DEF Inv, TypeOK, ServiceOf, Routes
    <3> QED BY <2>1, <3>1 DEF Handle, JobTo, JobSteps
  <2>2. CASE CheckExists(r) \/ CreateAnswered(r) \/ Issue(r) \/ FindFails(r) \/ Redeliver(r)
      BY <2>2 DEF CheckExists, CreateAnswered, Issue, FindFails, Redeliver, JobTo, JobSteps
  <2> QED BY <2>1, <2>2 DEF Handler
<1>6. TypeOK'
    BY <1>1, <1>2, <1>3, <1>5 DEF Inv, TypeOK, CreateSteps
<1>7. RefusalsLookLikeOutages'
    BY <1>1 DEF Inv, RefusalsLookLikeOutages
<1> QED BY <1>1, <1>4, <1>5, <1>6, <1>7 DEF Inv, TypeOK

\* The user service works on the messages and the accounts alone.
LEMMA UserStep == ASSUME Inv, NEW r \in Requests, UserService(r) PROVE Inv'
<1>1. UNCHANGED <<route, inherits, gate, status, job>>
    BY DEF UserService, CheckUser, SaveUser, RedeliverCreate
<1>2. creates' \subseteq Requests \X CreateSteps
    BY DEF Inv, TypeOK, UserService, CheckUser, SaveUser, RedeliverCreate, CreateTo, CreateSteps
<1>3. accounts' \in {accounts, accounts \cup {Account(r)}}
    BY DEF UserService, CheckUser, SaveUser, RedeliverCreate
<1>4. Account(r) \in [username : Usernames, email : Emails]
    BY RequestAssumption DEF RequestAssumption, Account
<1>5. redeliveries' \in 0..MaxRedeliveries
    BY RequestAssumption DEF RequestAssumption, Inv, TypeOK, UserService, CheckUser, SaveUser, RedeliverCreate
<1>6. TypeOK'
    BY <1>1, <1>2, <1>3, <1>4, <1>5 DEF Inv, TypeOK
<1> QED BY <1>1, <1>6 DEF Inv, RefusalsLookLikeOutages

LEMMA StepInv == Inv /\ [Next]_vars => Inv'
<1> SUFFICES ASSUME Inv, [Next]_vars PROVE Inv'
    OBVIOUS
<1>1. CASE UNCHANGED vars
    BY <1>1 DEF Inv, TypeOK, RefusalsLookLikeOutages, vars
<1> QED BY <1>1, GatewayStep, HandlerStep, UserStep DEF Next, Rest

\* What the gateway, the handlers and the accounts hold has its type.
THEOREM TypeSafe == Spec => []TypeOK
<1>1. Inv => TypeOK
    BY DEF Inv
<1> QED BY <1>1, InitInv, StepInv, PTL DEF Spec

\* Of all that a service can throw, a client is told of an outage or a timeout, and only a
\* guard refuses with a status of its own (kafka.service.ts:228-235).
THEOREM RefusalsAreMasked == Spec => []RefusalsLookLikeOutages
<1>1. Inv => RefusalsLookLikeOutages
    BY DEF Inv
<1> QED BY <1>1, InitInv, StepInv, PTL DEF Spec
=============================================================================
