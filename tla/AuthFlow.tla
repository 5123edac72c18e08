------------------------------ MODULE AuthFlow ------------------------------
(***************************************************************************)
(* A request through the system: the HTTP gateway (apps/api-gateway), the  *)
(* auth service's handlers and sagas (apps/auth-service) and the accounts  *)
(* of the user service, tied together by Kafka. Messages may be late, lost *)
(* for their caller, or delivered again. What TokenService answers is a    *)
(* single step here: TokenService!Create always fails.                     *)
(***************************************************************************)
EXTENDS Naturals

CONSTANTS
  Requests,     \* HTTP requests
  Mixes,        \* what they may be for: functions to Routes
  Bearer,       \* of each: its Authorization header, "none", "bad" or "valid"
  Name, Email,  \* of each: what a registration asks for
  Usernames, Emails,
  MayFail,      \* connections may fail, replies be late or lost, and timers fire
  MaxRedeliveries

\* The service behind each kind of route, and the routes without a guard.
Routes == {"register", "login", "refresh", "logout", "me", "user", "product", "catalog", "info", "health"}
Public == {"register", "login", "refresh", "catalog", "info", "health"}

ServiceOf(kind) == CASE kind \in {"register", "login", "refresh", "logout"} -> "auth"
                      [] kind \in {"me", "info", "health"} -> "gateway"
                      [] kind = "user" -> "user"
                      [] kind \in {"product", "catalog"} -> "absent"

ASSUME RequestAssumption ==
  /\ Mixes \subseteq [Requests -> Routes] /\ Bearer \in [Requests -> {"none", "bad", "valid"}]
  /\ Name \in [Requests -> Usernames] /\ Email \in [Requests -> Emails]
  /\ MayFail \in BOOLEAN /\ MaxRedeliveries \in Nat

VARIABLES
  route,        \* per request, what it is for
  inherits,     \* the message handlers inherit the application's interceptors
  gate,         \* per request, what the gateway does
  status,       \* per request, the HTTP status it was answered with (200: any success), or 0
  job,          \* per request, what the auth service does or replied
  creates,      \* the messages USER_CREATE: for which registration, and how far they got
  accounts,     \* of the user service
  redeliveries

vars == <<route, inherits, gate, status, job, creates, accounts, redeliveries>>

GateSteps == {"idle", "guarding", "probing", "forwarded", "answered"}
JobSteps == {"none", "received", "checking", "creating", "issuing", "finding", "replied", "failed"}
CreateSteps == {"asked", "saving", "saved", "refused"}

TypeOK ==
  /\ route \in [Requests -> Routes] /\ inherits \in BOOLEAN
  /\ gate \in [Requests -> GateSteps] /\ status \in [Requests -> Nat]
  /\ job \in [Requests -> JobSteps]
  /\ creates \subseteq Requests \X CreateSteps
  /\ accounts \subseteq [username : Usernames, email : Emails]
  /\ redeliveries \in 0..MaxRedeliveries

\* main.ts does not ask for inheritance; both are considered.
Init ==
  /\ route \in Mixes /\ inherits \in BOOLEAN
  /\ gate = [r \in Requests |-> "idle"] /\ status = [r \in Requests |-> 0]
  /\ job = [r \in Requests |-> "none"]
  /\ creates = {} /\ accounts = {} /\ redeliveries = 0

-----------------------------------------------------------------------------
(* Values on the wire: a record has fields, undefined has none.            *)

Undefined == [field \in {} |-> ""]
No == [text |-> "false"]
Yes == [text |-> "true"]

Field(value, f) == IF f \in DOMAIN value THEN value[f] ELSE Undefined

\* Of what comes back, undefined and false count as no.
Truthy(value) == value # Undefined /\ value # No

\* KafkaService.send wraps the request, TransformResponseInterceptor a reply.
Envelope(data) == [metadata |-> "request", data |-> data]
Reply(value) == IF inherits THEN [status |-> "success", data |-> value] ELSE value

\* send answers the data of a reply, or undefined for a reply without an envelope.
SendResult(reply) == Field(reply, "data")

\* AuthService.validateToken: only a token that is there can be verified.
ValidateToken(payload) == IF Field(payload, "token") = Undefined THEN No ELSE Yes

-----------------------------------------------------------------------------
(* Exceptions, as the fields that decide on the HTTP status.               *)

HttpException(code) == [getStatus |-> code]
ServiceUnavailable == [statusCode |-> 503]
ServiceTimeout == [statusCode |-> 504]

\* Nest's answer to a message whose handler threw: of the exception nothing is left.
RpcError == [message |-> "Internal server error"]

\* Mutant: send throws the last error as it came.
SendThrowsLast(error) == error

\* After its last attempt send throws a timeout as it is, and takes anything else, the
\* error that a service replied too, for an outage of Kafka.
SendThrows(error) == IF error = ServiceTimeout THEN error ELSE ServiceUnavailable

HttpExceptionFilter(e) == e.getStatus
AllExceptionsFilter(e) == IF "statusCode" \in DOMAIN e THEN e.statusCode ELSE 500

\* CommonModule registers both; the one for Nest's own exceptions is asked first.
Filter(e) == IF "getStatus" \in DOMAIN e THEN HttpExceptionFilter(e) ELSE AllExceptionsFilter(e)

-----------------------------------------------------------------------------
(* The gateway.                                                            *)

GateTo(r, to) == gate' = [gate EXCEPT ![r] = to] /\ UNCHANGED status

Answer(r, code) == gate' = [gate EXCEPT ![r] = "answered"] /\ status' = [status EXCEPT ![r] = code]

Refuse(r, exception) == Answer(r, Filter(exception))

\* GatewayService sends the request on, or has the answer itself.
Forward(r) ==
  /\ CASE route[r] = "health" -> GateTo(r, "probing")
       [] route[r] \in {"info", "me"} -> Answer(r, 200)
       [] OTHER -> GateTo(r, "forwarded")
  /\ job' = [job EXCEPT ![r] = IF ServiceOf(route[r]) = "auth" THEN "received" ELSE "none"]

\* JwtAuthGuard extracts the token and GatewayService.validateToken verifies it.
Arrive(r) ==
  /\ gate[r] = "idle"
  /\ \/ route[r] \in Public /\ Forward(r)
     \/ /\ route[r] \notin Public
        /\ IF Bearer[r] = "valid" THEN GateTo(r, "guarding") ELSE Refuse(r, HttpException(401))
        /\ UNCHANGED job
  /\ UNCHANGED <<route, inherits, creates, accounts, redeliveries>>

\* The auth service is asked about the token too, and any error is a refusal.
Guard(r) ==
  /\ gate[r] = "guarding"
  /\ \/ IF Truthy(SendResult(Reply(ValidateToken(Envelope([token |-> r])))))
          THEN Forward(r) ELSE Refuse(r, HttpException(401)) /\ UNCHANGED job
     \/ MayFail /\ Refuse(r, HttpException(401)) /\ UNCHANGED job
  /\ UNCHANGED <<route, inherits, creates, accounts, redeliveries>>

\* checkHealth answers whatever it finds: a database that is down, or a cache entry gone
\* before it is read back, are told in the body.
CheckHealth(r) ==
  /\ gate[r] = "probing"
  /\ Answer(r, 200)
  /\ UNCHANGED <<route, inherits, job, creates, accounts, redeliveries>>

\* No reply will come: there is no such service, or the inherited filters answer an error
\* as if it were one of HTTP, fail, and leave the message without any reply.
Silent(r) == job[r] = "none" \/ (job[r] = "failed" /\ inherits)

\* Mutant: only what was received gets a timeout.
GateTimeoutReceived(r) ==
  /\ gate[r] = "forwarded" /\ job[r] # "none"
  /\ Refuse(r, SendThrows(ServiceTimeout))
  /\ UNCHANGED <<route, inherits, job, creates, accounts, redeliveries>>

GateTimeout(r) ==
  /\ gate[r] = "forwarded"
  /\ MayFail \/ Silent(r)
  /\ Refuse(r, SendThrows(ServiceTimeout))
  /\ UNCHANGED <<route, inherits, job, creates, accounts, redeliveries>>

\* Kafka could not be reached, though the request may be with its service all the same.
GateUnavailable(r) ==
  /\ MayFail
  /\ gate[r] = "forwarded"
  /\ Refuse(r, ServiceUnavailable)
  /\ UNCHANGED <<route, inherits, job, creates, accounts, redeliveries>>

\* send returns what was replied, or throws for an error reply.
GateAnswer(r) ==
  /\ gate[r] = "forwarded" /\ ~Silent(r)
  /\ \/ job[r] = "replied" /\ Answer(r, 200)
     \/ job[r] = "failed" /\ Refuse(r, SendThrows(RpcError))
  /\ UNCHANGED <<route, inherits, job, creates, accounts, redeliveries>>

-----------------------------------------------------------------------------
(* The handlers of the auth service. A failed or late reply of the user    *)
(* service ends a saga with an error.                                      *)

JobTo(r, step) == job' = [job EXCEPT ![r] = step]

\* register and login take their data out of the envelope; refreshToken and logout read
\* their token off the envelope, where it is not: one is refused at once, and the other
\* revokes nothing and says so.
Handle(r) ==
  /\ job[r] = "received"
  /\ JobTo(r, CASE route[r] = "register" -> "checking"
                [] route[r] = "login" -> "finding"
                [] route[r] = "refresh" -> "failed"
                [] route[r] = "logout" -> "replied")
  /\ UNCHANGED <<route, inherits, gate, status, creates, accounts, redeliveries>>

Account(r) == [username |-> Name[r], email |-> Email[r]]

Taken(r) == \E account \in accounts : account.username = Name[r] \/ account.email = Email[r]

\* The reply to USER_EXISTS, then the password is hashed and USER_CREATE produced.
CheckExists(r) ==
  /\ job[r] = "checking"
  /\ LET exists == Truthy(SendResult(Reply(IF Taken(r) THEN Yes ELSE No))) IN
       \/ ~exists /\ JobTo(r, "creating") /\ creates' = creates \cup {<<r, "asked">>}
       \/ (exists \/ MayFail) /\ JobTo(r, "failed") /\ UNCHANGED creates
  /\ UNCHANGED <<route, inherits, gate, status, accounts, redeliveries>>

CreateTo(r, from, to) == creates' = (creates \ {<<r, from>>}) \cup {<<r, to>>}

\* The user service takes a USER_CREATE and looks whether the name or the email is taken.
CheckUser(r) ==
  /\ <<r, "asked">> \in creates
  /\ CreateTo(r, "asked", IF Taken(r) THEN "refused" ELSE "saving")
  /\ UNCHANGED <<route, inherits, gate, status, job, accounts, redeliveries>>

\* Mutant: the account is made of the whole envelope.
SaveEnvelope(r) ==
  /\ <<r, "saving">> \in creates
  /\ CreateTo(r, "saving", IF Taken(r) THEN "refused" ELSE "saved")
  /\ accounts' = IF Taken(r) THEN accounts ELSE accounts \cup {Envelope(Account(r))}
  /\ UNCHANGED <<route, inherits, gate, status, job, redeliveries>>

\* It saves the account; the unique indexes refuse one that another call saved meanwhile.
SaveUser(r) ==
  /\ <<r, "saving">> \in creates
  /\ CreateTo(r, "saving", IF Taken(r) THEN "refused" ELSE "saved")
  /\ accounts' = IF Taken(r) THEN accounts ELSE accounts \cup {Account(r)}
  /\ UNCHANGED <<route, inherits, gate, status, job, redeliveries>>

\* The reply to USER_CREATE: of the user its id is read, which undefined has not.
CreateAnswered(r) ==
  /\ job[r] = "creating"
  /\ \/ /\ <<r, "saved">> \in creates
        /\ JobTo(r, IF SendResult(Reply(Account(r))) = Undefined THEN "failed" ELSE "issuing")
     \/ /\ MayFail \/ <<r, "refused">> \in creates
        /\ JobTo(r, "failed")
  /\ UNCHANGED <<route, inherits, gate, status, creates, accounts, redeliveries>>

\* generateAuthTokens: the refresh token is refused by its schema.
Issue(r) ==
  /\ job[r] = "issuing"
  /\ JobTo(r, "failed")
  /\ UNCHANGED <<route, inherits, gate, status, creates, accounts, redeliveries>>

\* USER_GET_BY_EMAIL fails in its handler, which looks for data inside the data.
FindFails(r) ==
  /\ job[r] = "finding"
  /\ JobTo(r, "failed")
  /\ UNCHANGED <<route, inherits, gate, status, creates, accounts, redeliveries>>

\* The auth service restarts; its message is delivered again.
Redeliver(r) ==
  /\ redeliveries < MaxRedeliveries
  /\ job[r] \notin {"none", "received"}
  /\ redeliveries' = redeliveries + 1
  /\ JobTo(r, "received")
  /\ UNCHANGED <<route, inherits, gate, status, creates, accounts>>

\* So does the user service, before or after it saved the account.
RedeliverCreate(r) ==
  /\ redeliveries < MaxRedeliveries
  /\ \E step \in CreateSteps : <<r, step>> \in creates
  /\ redeliveries' = redeliveries + 1
  /\ creates' = creates \cup {<<r, "asked">>}
  /\ UNCHANGED <<route, inherits, gate, status, job, accounts>>

Answered(r) == gate[r] = "answered"

Rest == (\A r \in Requests : Answered(r)) /\ UNCHANGED vars

Gateway(r) == Guard(r) \/ CheckHealth(r) \/ GateTimeout(r) \/ GateAnswer(r)

Handler(r) == Handle(r) \/ CheckExists(r) \/ CreateAnswered(r) \/ Issue(r) \/ FindFails(r)

UserService(r) == CheckUser(r) \/ SaveUser(r) \/ RedeliverCreate(r)

Next ==
  \/ \E r \in Requests : \/ Arrive(r) \/ Gateway(r) \/ GateUnavailable(r)
                         \/ Handler(r) \/ Redeliver(r) \/ UserService(r)
  \/ Rest

Spec == Init /\ [][Next]_vars

-----------------------------------------------------------------------------
(* Properties.                                                             *)

\* Whatever a service throws, a taken name or a wrong token, its client is told of an
\* outage or a timeout; besides, a guarded route may be refused by its guard
\* (kafka.service.ts:228-235, all-exceptions.filter.ts:64-83).
RefusalsLookLikeOutages ==
  \A r \in Requests : status[r] \notin {0, 200} =>
    status[r] \in IF route[r] \in Public THEN {503, 504} ELSE {401, 503, 504}

\* "Đăng ký người dùng mới" and "Tạo token cho user mới": a registration that opened its
\* account is answered with the tokens of the new user (auth.service.ts:43-46, 73-92).
RegistrationOpensSession ==
  \A r \in Requests : Answered(r) /\ <<r, "saved">> \in creates => status[r] = 200

\* Timers fire and the gateway's own steps go on.
Fairness == \A r \in Requests : WF_vars(Gateway(r))

FairSpec == Spec /\ Fairness

\* Every HTTP request that arrived is answered, even if no service answers the
\* gateway and the one it is meant for does not exist (gateway.service.ts:163-410).
EveryRequestAnswered == \A r \in Requests : gate[r] # "idle" ~> Answered(r)
=============================================================================
