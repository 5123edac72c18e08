----------------------------- MODULE KafkaClient -----------------------------
(***************************************************************************)
(* The Kafka client of the services (libs/kafka): concurrent calls of      *)
(* KafkaService.send on one connection, each with its loop of attempts,    *)
(* pauses and timeouts, against a service that runs what reaches it.       *)
(* A request or a reply may be lost, late, or delivered more than once;    *)
(* one action is what a call does up to its next await.                    *)
(***************************************************************************)
EXTENDS Naturals

CONSTANTS
  Calls,       \* calls of send
  Unset,       \* options.retries is undefined
  Retries      \* options.retries of each call

ASSUME RetriesAssumption == Unset \notin Nat /\ Retries \in [Calls -> Nat \cup {Unset}]

VARIABLES
  stage,        \* the module: created, up or closed
  isConnected,
  pc,           \* per call, what it awaits
  attempt,      \* per call, the loop's counter
  lastError,    \* per call, the error its loop caught last
  result,       \* per call, what it returned or threw
  sent,         \* the requests handed to the producer
  ran           \* the requests the service ran

vars == <<stage, isConnected, pc, attempt, lastError, result, sent, ran>>

connection == <<stage, isConnected>>

MaxRetries(c) == IF Retries[c] = Unset THEN 1 ELSE Retries[c]

Steps == {"idle", "connecting", "waiting", "pause", "returned", "thrown"}
Errors == {"none", "timeout", "unavailable"}
Results == {"none", "data", "undefined", "timeout", "unavailable"}

Request == {r \in [call: Calls, attempt: Nat] : r.attempt < MaxRetries(r.call)}

TypeOK ==
  /\ stage \in {"created", "up", "closed"}
  /\ isConnected \in BOOLEAN
  /\ pc \in [Calls -> Steps]
  /\ attempt \in [Calls -> Nat]
  /\ lastError \in [Calls -> Errors]
  /\ result \in [Calls -> Results]
  /\ sent \subseteq Request
  /\ ran \subseteq Request

Init ==
  /\ stage = "created"
  /\ isConnected = FALSE
  /\ pc = [c \in Calls |-> "idle"]
  /\ attempt = [c \in Calls |-> 0]
  /\ lastError = [c \in Calls |-> "none"]
  /\ result = [c \in Calls |-> "none"]
  /\ sent = {}
  /\ ran = {}

-----------------------------------------------------------------------------
(* The connection of the module.                                           *)

\* onModuleInit: a failed connect is only logged.
ModuleInit ==
  /\ stage = "created"
  /\ stage' = "up"
  /\ isConnected' \in BOOLEAN
  /\ UNCHANGED <<pc, attempt, lastError, result, sent, ran>>

\* onModuleDestroy: a failed close leaves isConnected as it was.
ModuleDestroy ==
  /\ stage = "up"
  /\ stage' = "closed"
  /\ isConnected' \in {FALSE, isConnected}
  /\ UNCHANGED <<pc, attempt, lastError, result, sent, ran>>

-----------------------------------------------------------------------------
(* The loop of attempts.                                                   *)

Goto(c, step) == pc' = [pc EXCEPT ![c] = step]

Latest(c) == [call |-> c, attempt |-> attempt[c]]

\* The request of attempt n goes to the producer and the timeout starts.
SendRequest(c, n) ==
  /\ sent' = sent \cup {[call |-> c, attempt |-> n]}
  /\ Goto(c, "waiting")

\* What iteration n of the loop does up to its first await.
Iterate(c, n) ==
  \/ isConnected /\ SendRequest(c, n)
  \/ ~isConnected /\ Goto(c, "connecting") /\ UNCHANGED sent

\* The throw after the loop: whatever is not a timeout is a ServiceUnavailable.
Throw(c, error) ==
  /\ Goto(c, "thrown")
  /\ result' = [result EXCEPT ![c] = IF error = "timeout" THEN "timeout" ELSE "unavailable"]

Return(c, value) ==
  /\ Goto(c, "returned")
  /\ result' = [result EXCEPT ![c] = value]

Pause(c) == Goto(c, "pause") /\ UNCHANGED result

IsLast(c) == attempt[c] + 1 >= MaxRetries(c)

\* Mutant: one attempt too many.
CatchLate(c, error) ==
  /\ lastError' = [lastError EXCEPT ![c] = error]
  /\ \/ attempt[c] < MaxRetries(c) /\ Pause(c)
     \/ attempt[c] >= MaxRetries(c) /\ Throw(c, lastError'[c])
  /\ UNCHANGED <<attempt, sent, ran, connection>>

\* The catch of the loop: pause before another attempt, or leave the loop after the
\* last and throw what was caught last.
Catch(c, error) ==
  /\ lastError' = [lastError EXCEPT ![c] = error]
  /\ \/ ~IsLast(c) /\ Pause(c)
     \/ IsLast(c) /\ Throw(c, lastError'[c])
  /\ UNCHANGED <<attempt, sent, ran, connection>>

Call(c) ==
  /\ stage # "created"
  /\ pc[c] = "idle"
  /\ IF MaxRetries(c) = 0 THEN Throw(c, lastError[c]) /\ UNCHANGED sent
                          ELSE Iterate(c, 0) /\ UNCHANGED result
  /\ UNCHANGED <<attempt, lastError, ran, connection>>

\* Mutant: the counter is not moved on.
WakeAgain(c) ==
  /\ pc[c] = "pause"
  /\ Iterate(c, attempt[c])
  /\ UNCHANGED <<attempt, lastError, result, ran, connection>>

\* The pause is over.
Wake(c) ==
  /\ pc[c] = "pause"
  /\ attempt' = [attempt EXCEPT ![c] = @ + 1]
  /\ Iterate(c, attempt[c] + 1)
  /\ UNCHANGED <<lastError, result, ran, connection>>

Connected(c) ==
  /\ pc[c] = "connecting"
  /\ isConnected' = TRUE
  /\ SendRequest(c, attempt[c])
  /\ UNCHANGED <<stage, attempt, lastError, result, ran>>

\* The inner catch of a failed connect with attempts left: pause and continue, past
\* the catch of the loop.
ConnectAgain(c) ==
  /\ ~IsLast(c)
  /\ Pause(c)
  /\ UNCHANGED <<attempt, lastError, sent, ran, connection>>

\* Mutant: on the last attempt the loop is left as it is continued before.
ConnectBreaks(c) ==
  /\ pc[c] = "connecting"
  /\ \/ ConnectAgain(c)
     \/ /\ IsLast(c) /\ Throw(c, lastError[c])
        /\ UNCHANGED <<attempt, lastError, sent, ran, connection>>

\* A failed connect continues the loop, or throws inside it on the last attempt.
ConnectFails(c) ==
  /\ pc[c] = "connecting"
  /\ \/ ConnectAgain(c)
     \/ IsLast(c) /\ Catch(c, "unavailable")

Timeout(c) ==
  /\ pc[c] = "waiting"
  /\ Catch(c, "timeout")

\* The client cannot send, or the reply carries an error.
Rejected(c) ==
  /\ pc[c] = "waiting"
  /\ Catch(c, "unavailable")

\* Mutant: a late reply to an earlier attempt is taken.
ReceiveAny(c) ==
  /\ pc[c] = "waiting"
  /\ \E r \in ran : r.call = c
  /\ \E value \in {"data", "undefined"} : Return(c, value)
  /\ UNCHANGED <<attempt, lastError, sent, ran, connection>>

\* A reply to the latest attempt: its data, or undefined when it is no envelope.
Receive(c) ==
  /\ pc[c] = "waiting"
  /\ Latest(c) \in ran
  /\ \E value \in {"data", "undefined"} : Return(c, value)
  /\ UNCHANGED <<attempt, lastError, sent, ran, connection>>

\* The service runs a request, for the first time or again.
Run(r) ==
  /\ ran' = ran \cup {r}
  /\ UNCHANGED <<pc, attempt, lastError, result, sent, connection>>

Ended(c) == pc[c] \in {"returned", "thrown"}

Rest == (\A c \in Calls : Ended(c)) /\ UNCHANGED vars

Progress(c) ==
  Wake(c) \/ Connected(c) \/ ConnectFails(c) \/ Timeout(c) \/ Rejected(c) \/ Receive(c)

Next ==
  \/ ModuleInit \/ ModuleDestroy
  \/ \E c \in Calls : Call(c) \/ Progress(c)
  \/ \E r \in sent : Run(r)
  \/ Rest

Spec == Init /\ [][Next]_vars

-----------------------------------------------------------------------------
(* Properties.                                                             *)

\* A call throws only when its attempts are used up, and throws ServiceTimeout only when
\* its last attempt sent a request: the lastError an earlier attempt left behind does not
\* outlive the connects that fail after it, which pass the outer catch by
\* (kafka.service.ts:131-235).
ThrownHonestly ==
  \A c \in Calls :
    pc[c] = "thrown" =>
      /\ attempt[c] + 1 >= MaxRetries(c)
      /\ result[c] = "timeout" => Latest(c) \in sent

\* The steps a call has left at most: those of its attempt, and three for each attempt
\* that may follow, which connects, waits and pauses.
Left(c) ==
  IF Ended(c) THEN 0
  ELSE 3 * (MaxRetries(c) - attempt[c])
         + (CASE pc[c] = "idle" -> 3 [] pc[c] = "connecting" -> 2 [] pc[c] = "waiting" -> 1 [] pc[c] = "pause" -> 0)

\* Whatever a call does next uses up one of the steps it has left, so it never goes round
\* for ever, whichever connects and requests fail and in which order: two places pause
\* and go on, one of them inside an inner catch (kafka.service.ts:133-235).
EveryStepCounts ==
  [][\A c \in Calls : pc'[c] # pc[c] \/ attempt'[c] # attempt[c] => Left(c)' \in 0..(Left(c) - 1)]_vars

\* The attempts of each call and what the service ran of them, as a caller that
\* looks only at its answer would put it.
Shown(step) == CASE step = "idle" -> "idle"
                 [] step = "returned" -> "answered"
                 [] step = "thrown" -> "failed"
                 [] OTHER -> "pending"

CallStates == [c \in Calls |-> Shown(pc[c])]
AttemptsRun == [c \in Calls |-> {r.attempt : r \in {q \in ran : q.call = c}}]
AttemptsAllowed == [c \in Calls |-> MaxRetries(c)]

Promise == INSTANCE RemoteCall
             WITH Allowed <- AttemptsAllowed, state <- CallStates,
                  latest <- attempt, ran <- AttemptsRun

\* send keeps the promise of a remote call: it never makes more attempts than
\* options.retries allows, never takes the late reply to an earlier attempt for an
\* answer, and gives up only after the last attempt (kafka.service.ts:118-236).
ImplementsRemoteCall == Promise!Spec

\* Every timer fires and every connect ends, one way or the other.
Fairness == \A c \in Calls : WF_vars(Progress(c))

FairSpec == Spec /\ Fairness

\* A call that was made ends, by an answer or an error, even if nothing is ever
\* delivered and no connect succeeds (kafka.service.ts:133-235).
EveryCallEnds == \A c \in Calls : pc[c] # "idle" ~> Ended(c)
=============================================================================
