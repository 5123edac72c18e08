-------------------------- MODULE KafkaClientProofs --------------------------
(***************************************************************************)
(* Theorems about KafkaClient, for any number of calls with any number of  *)
(* attempts each.                                                          *)
(***************************************************************************)
EXTENDS KafkaClient, TLAPS

\* Where a call is in its loop.
InLoop(c) ==
  /\ pc[c] = "idle" => attempt[c] = 0 /\ lastError[c] = "none"
  /\ pc[c] \in {"connecting", "waiting", "pause"} => attempt[c] < MaxRetries(c)
  /\ pc[c] = "pause" => attempt[c] + 1 < MaxRetries(c)
  /\ pc[c] = "waiting" => Latest(c) \in sent

\* A request was sent by an attempt its call has made.
MadeBy(r) == pc[r.call] # "idle" /\ r.attempt <= attempt[r.call]

CallInv ==
  /\ TypeOK
  /\ \A c \in Calls : InLoop(c)
  /\ \A r \in sent : MadeBy(r)
  /\ ran \subseteq sent
  /\ ThrownHonestly

\* What the steps that enter iteration n of the loop have in common.
Enters(c, n) ==
  /\ n < MaxRetries(c)
  /\ n >= attempt[c]
  /\ attempt' = [attempt EXCEPT ![c] = n]
  /\ SendRequest(c, n) \/ (Goto(c, "connecting") /\ UNCHANGED sent)
  /\ isConnected' \in BOOLEAN
  /\ UNCHANGED <<stage, lastError, result, ran>>

\* What the steps that leave an iteration have in common.
Leaves(c, step, value) ==
  /\ Goto(c, step)
  /\ \E error \in Errors : lastError' = [lastError EXCEPT ![c] = error]
  /\ result' = [result EXCEPT ![c] = value]
  /\ step = "pause" => attempt[c] + 1 < MaxRetries(c)
  /\ step = "thrown" => /\ attempt[c] + 1 >= MaxRetries(c)
                        /\ value = "timeout" => Latest(c) \in sent
  /\ UNCHANGED <<attempt, sent, ran, connection>>

LEMMA MaxRetriesType == ASSUME NEW c \in Calls PROVE MaxRetries(c) \in Nat
  BY RetriesAssumption DEF MaxRetries

\* What a step of call c does not do to the others.
LEMMA OtherCalls ==
  ASSUME CallInv, NEW c \in Calls, NEW step \in Steps,
         Goto(c, step), sent \subseteq sent',
         \A d \in Calls \ {c} : attempt'[d] = attempt[d] /\ lastError'[d] = lastError[d] /\ result'[d] = result[d]
  PROVE  \A d \in Calls \ {c} :
           /\ InLoop(d)'
           /\ pc'[d] = pc[d]
           /\ (pc[d] = "thrown" =>
                /\ attempt[d] + 1 >= MaxRetries(d)
                /\ result[d] = "timeout" => Latest(d) \in sent)'
  <1> TAKE d \in Calls \ {c}
  <1>1. pc'[d] = pc[d]
    BY DEF CallInv, TypeOK, Goto
  <1>2. Latest(d)' = Latest(d) /\ MaxRetries(d)' = MaxRetries(d)
    BY DEF Latest, MaxRetries
  <1>3. QED
    BY <1>1, <1>2 DEF CallInv, InLoop, ThrownHonestly

\* An iteration of the loop from an attempt that the call may make.
LEMMA IterateStep ==
  ASSUME CallInv, NEW c \in Calls, NEW n \in Nat, Enters(c, n)
  PROVE  CallInv'
  <1> DEFINE r0 == [call |-> c, attempt |-> n]
  <1>1. PICK step \in {"waiting", "connecting"} :
          /\ Goto(c, step)
          /\ sent \subseteq sent' /\ sent' \subseteq sent \cup {r0}
          /\ step = "waiting" => r0 \in sent'
    <2>1. CASE SendRequest(c, n)
      BY <2>1 DEF SendRequest
    <2>2. CASE Goto(c, "connecting") /\ UNCHANGED sent
      BY <2>2
    <2>3. QED
      BY <2>1, <2>2 DEF Enters
  <1>2. pc'[c] = step /\ attempt'[c] = n
    BY <1>1 DEF CallInv, TypeOK, Goto, Enters
  <1>3. n < MaxRetries(c) /\ n >= attempt[c] /\ UNCHANGED <<stage, lastError, result, ran>>
    BY DEF Enters
  <1>4. r0 \in Request
    BY <1>3 DEF Request
  <1>5. TypeOK'
    <2>1. sent' \subseteq Request
      BY <1>1, <1>4 DEF CallInv, TypeOK
    <2>2. pc' \in [Calls -> Steps]
      BY <1>1 DEF CallInv, TypeOK, Goto, Steps
    <2>3. QED
      BY <2>1, <2>2 DEF CallInv, TypeOK, Enters
  <1>6. \A d \in Calls \ {c} : attempt'[d] = attempt[d] /\ lastError'[d] = lastError[d] /\ result'[d] = result[d]
    BY DEF CallInv, TypeOK, Enters
  <1>7. step \in Steps
    BY DEF Steps
  <1>8. \A d \in Calls \ {c} :
          /\ InLoop(d)'
          /\ pc'[d] = pc[d]
          /\ (pc[d] = "thrown" =>
                /\ attempt[d] + 1 >= MaxRetries(d)
                /\ result[d] = "timeout" => Latest(d) \in sent)'
    BY <1>1, <1>6, <1>7, OtherCalls
  <1>9. InLoop(c)'
    <2>1. Latest(c)' = r0
      BY <1>2 DEF Latest
    <2>2. QED
      BY <1>1, <1>2, <1>3, <2>1 DEF InLoop, MaxRetries
  <1>10. \A r \in sent' : MadeBy(r)'
    <2> TAKE r \in sent'
    <2>1. CASE r = r0
      BY <1>2, <2>1 DEF MadeBy
    <2>2. CASE r \in sent
      <3>1. r.call \in Calls /\ r.attempt \in Nat /\ MadeBy(r)
        BY <2>2 DEF CallInv, TypeOK, Request
      <3>2. attempt[r.call] \in Nat /\ attempt[r.call] <= attempt'[r.call]
        BY <1>2, <1>3, <1>6, <3>1 DEF CallInv, TypeOK
      <3>3. pc'[r.call] # "idle"
        BY <1>2, <1>8, <3>1 DEF MadeBy
      <3>4. attempt'[r.call] \in Nat
        BY <1>5, <3>1 DEF TypeOK
      <3>5. QED
        BY <3>1, <3>2, <3>3, <3>4 DEF MadeBy
    <2>3. QED
      BY <1>1, <2>1, <2>2
  <1>11. ThrownHonestly'
    BY <1>2, <1>8 DEF ThrownHonestly
  <1>12. QED
    BY <1>1, <1>3, <1>5, <1>8, <1>9, <1>10, <1>11 DEF CallInv

\* A call ends, or pauses.
LEMMA EndStep ==
  ASSUME CallInv, NEW c \in Calls, NEW step \in {"pause", "returned", "thrown"},
         NEW value \in Results, Leaves(c, step, value)
  PROVE  CallInv'
  <1>1. pc'[c] = step /\ result'[c] = value
    BY DEF CallInv, TypeOK, Goto, Leaves
  <1>2. TypeOK'
    BY DEF CallInv, TypeOK, Goto, Steps, connection, Leaves
  <1>3. \A d \in Calls \ {c} : attempt'[d] = attempt[d] /\ lastError'[d] = lastError[d] /\ result'[d] = result[d]
    BY DEF CallInv, TypeOK, Leaves
  <1>4. step \in Steps
    BY DEF Steps
  <1>5. \A d \in Calls \ {c} :
          /\ InLoop(d)'
          /\ pc'[d] = pc[d]
          /\ (pc[d] = "thrown" =>
                /\ attempt[d] + 1 >= MaxRetries(d)
                /\ result[d] = "timeout" => Latest(d) \in sent)'
    BY <1>3, <1>4, OtherCalls DEF Leaves
  <1>6. InLoop(c)'
    <2>1. attempt[c] \in Nat /\ MaxRetries(c) \in Nat
      BY MaxRetriesType DEF CallInv, TypeOK
    <2>2. QED
      BY <1>1, <2>1 DEF CallInv, InLoop, MaxRetries, Latest, Leaves
  <1>7. \A r \in sent' : MadeBy(r)'
    <2> TAKE r \in sent'
    <2>1. r.call \in Calls /\ MadeBy(r)
      BY DEF CallInv, TypeOK, Request, Leaves
    <2>2. QED
      BY <1>1, <1>5, <2>1 DEF MadeBy, Leaves
  <1>8. ThrownHonestly'
    <2>1. Latest(c)' = Latest(c)
      BY DEF Latest, Leaves
    <2>2. QED
      BY <1>1, <1>5, <2>1 DEF ThrownHonestly, MaxRetries, Leaves
  <1>9. QED
    BY <1>2, <1>5, <1>6, <1>7, <1>8 DEF CallInv, Leaves

\* The throw of the last attempt.
LEMMA ThrowStep ==
  ASSUME CallInv, NEW c \in Calls, NEW error \in Errors,
         attempt[c] + 1 >= MaxRetries(c), error = "timeout" => Latest(c) \in sent, Throw(c, error),
         \E e \in Errors : lastError' = [lastError EXCEPT ![c] = e],
         UNCHANGED <<attempt, sent, ran, connection>>
  PROVE  CallInv'
  <1>1. PICK value \in {"timeout", "unavailable"} :
          /\ result' = [result EXCEPT ![c] = value]
          /\ value = "timeout" => error = "timeout"
    BY DEF Throw
  <1>2. value \in Results
    BY DEF Results
  <1>3. Leaves(c, "thrown", value)
    BY <1>1 DEF Throw, Leaves
  <1>4. QED
    BY <1>2, <1>3, EndStep

\* The pause of an attempt that is not the last.
LEMMA PauseStep ==
  ASSUME CallInv, NEW c \in Calls, ~IsLast(c), Pause(c),
         \E e \in Errors : lastError' = [lastError EXCEPT ![c] = e],
         UNCHANGED <<attempt, sent, ran, connection>>
  PROVE  CallInv'
  <1>1. result' = [result EXCEPT ![c] = result[c]] /\ result[c] \in Results
    BY DEF CallInv, TypeOK, Pause
  <1>2. attempt[c] + 1 < MaxRetries(c)
    BY MaxRetriesType DEF CallInv, TypeOK, IsLast
  <1>3. Leaves(c, "pause", result[c])
    BY <1>1, <1>2 DEF Pause, Leaves
  <1>4. QED
    BY <1>1, <1>3, EndStep

LEMMA CatchStep ==
  ASSUME CallInv, NEW c \in Calls, NEW error \in {"timeout", "unavailable"},
         pc[c] \in {"connecting", "waiting"},
         error = "timeout" => pc[c] = "waiting",
         Catch(c, error)
  PROVE  CallInv'
  <1>1. error \in Errors /\ lastError' = [lastError EXCEPT ![c] = error] /\ lastError'[c] = error
    BY DEF Catch, Errors, CallInv, TypeOK
  <1>2. CASE ~IsLast(c) /\ Pause(c)
    BY <1>1, <1>2, PauseStep DEF Catch
  <1>3. CASE IsLast(c) /\ Throw(c, error)
    <2>1. error = "timeout" => Latest(c) \in sent
      BY DEF CallInv, InLoop
    <2>2. QED
      BY <1>1, <1>3, <2>1, ThrowStep DEF Catch, IsLast
  <1>4. QED
    BY <1>1, <1>2, <1>3 DEF Catch

LEMMA CallStep ==
  ASSUME CallInv, NEW c \in Calls, Call(c)
  PROVE  CallInv'
  <1>1. attempt[c] = 0 /\ attempt \in [Calls -> Nat] /\ MaxRetries(c) \in Nat
    BY MaxRetriesType DEF CallInv, TypeOK, InLoop, Call
  <1>2. CASE MaxRetries(c) = 0
    <2>1. Throw(c, "none") /\ UNCHANGED <<attempt, lastError, sent, ran, connection>>
      BY <1>2 DEF Call, CallInv, InLoop
    <2>2. "none" \in Errors /\ lastError' = [lastError EXCEPT ![c] = lastError[c]] /\ lastError[c] \in Errors
      BY <2>1 DEF Errors, CallInv, TypeOK
    <2>3. attempt[c] + 1 >= MaxRetries(c)
      BY <1>1, <1>2
    <2>4. QED
      BY <2>1, <2>2, <2>3, ThrowStep
  <1>3. CASE MaxRetries(c) # 0
    <2>1. Iterate(c, 0) /\ UNCHANGED <<lastError, result, attempt, ran, connection>>
      BY <1>3 DEF Call
    <2>2. attempt' = [attempt EXCEPT ![c] = 0]
      BY <1>1, <2>1
    <2>3. isConnected' \in BOOLEAN /\ UNCHANGED stage
      BY <2>1 DEF CallInv, TypeOK, connection
    <2>4. SendRequest(c, 0) \/ (Goto(c, "connecting") /\ UNCHANGED sent)
      BY <2>1 DEF Iterate
    <2>5. UNCHANGED <<stage, lastError, result, ran>>
      BY <2>1, <2>3
    <2>6. 0 < MaxRetries(c) /\ 0 >= attempt[c]
      BY <1>1, <1>3
    <2>7. Enters(c, 0)
      BY <2>2, <2>3, <2>4, <2>5, <2>6 DEF Enters
    <2>8. QED
      BY <2>7, IterateStep
  <1>4. QED
    BY <1>2, <1>3

LEMMA ProgressStep ==
  ASSUME CallInv, NEW c \in Calls, Progress(c)
  PROVE  CallInv'
  <1>1. attempt[c] \in Nat /\ attempt \in [Calls -> Nat] /\ MaxRetries(c) \in Nat
    BY MaxRetriesType DEF CallInv, TypeOK
  <1>2. CASE Wake(c)
    <2>1. attempt[c] + 1 < MaxRetries(c)
      BY <1>2 DEF CallInv, InLoop, Wake
    <2>2. isConnected' \in BOOLEAN /\ UNCHANGED stage
      BY <1>2 DEF CallInv, TypeOK, connection, Wake
    <2>3. \/ SendRequest(c, attempt[c] + 1)
          \/ Goto(c, "connecting") /\ UNCHANGED sent
      BY <1>2 DEF Wake, Iterate
    <2>4. attempt' = [attempt EXCEPT ![c] = attempt[c] + 1]
      BY <1>2 DEF Wake
    <2>5. attempt[c] + 1 \in Nat /\ attempt[c] + 1 >= attempt[c]
      BY <1>1
    <2>6. UNCHANGED <<stage, lastError, result, ran>>
      BY <1>2, <2>2 DEF Wake
    <2>7. Enters(c, attempt[c] + 1)
      BY <2>1, <2>2, <2>3, <2>4, <2>5, <2>6 DEF Enters
    <2>8. QED
      BY <2>5, <2>7, IterateStep
  <1>3. CASE Connected(c)
    <2>1. attempt[c] < MaxRetries(c)
      BY <1>3 DEF CallInv, InLoop, Connected
    <2>2. attempt' = [attempt EXCEPT ![c] = attempt[c]]
      BY <1>1, <1>3 DEF Connected
    <2>3. SendRequest(c, attempt[c]) /\ UNCHANGED <<stage, lastError, result, ran>>
      BY <1>3 DEF Connected
    <2>4. attempt[c] >= attempt[c] /\ isConnected' \in BOOLEAN
      BY <1>1, <1>3 DEF Connected
    <2>5. Enters(c, attempt[c])
      BY <2>1, <2>2, <2>3, <2>4 DEF Enters
    <2>6. QED
      BY <1>1, <2>5, IterateStep
  <1>4. CASE ConnectFails(c)
    <2>1. CASE ConnectAgain(c)
      <3>1. lastError' = [lastError EXCEPT ![c] = lastError[c]] /\ lastError[c] \in Errors
        BY <2>1 DEF ConnectAgain, CallInv, TypeOK
      <3>2. QED
        BY <2>1, <3>1, PauseStep DEF ConnectAgain
    <2>2. CASE Catch(c, "unavailable")
      BY <1>4, <2>2, CatchStep DEF ConnectFails
    <2>3. QED
      BY <1>4, <2>1, <2>2 DEF ConnectFails
  <1>5. CASE Timeout(c)
    BY <1>5, CatchStep DEF Timeout
  <1>6. CASE Rejected(c)
    BY <1>6, CatchStep DEF Rejected
  <1>7. CASE Receive(c)
    <2>1. PICK value \in {"data", "undefined"} : Return(c, value)
      BY <1>7 DEF Receive
    <2>2. value \in Results
      BY DEF Results
    <2>3. Leaves(c, "returned", value)
      <3>1. lastError' = [lastError EXCEPT ![c] = lastError[c]] /\ lastError[c] \in Errors
        BY <1>7 DEF Receive, CallInv, TypeOK
      <3>2. QED
        BY <1>7, <2>1, <3>1 DEF Receive, Return, Leaves
    <2>4. QED
      BY <2>2, <2>3, EndStep
  <1>8. QED
    BY <1>2, <1>3, <1>4, <1>5, <1>6, <1>7 DEF Progress

LEMMA CallInvStep == CallInv /\ [Next]_vars => CallInv'
  <1> SUFFICES ASSUME CallInv, [Next]_vars PROVE CallInv'
    OBVIOUS
  <1>1. CASE UNCHANGED <<pc, attempt, lastError, result, sent>> /\ (stage' \in {"created", "up", "closed"})
               /\ isConnected' \in BOOLEAN /\ ran' \subseteq sent
    BY <1>1 DEF CallInv, TypeOK, InLoop, MadeBy, ThrownHonestly, Latest, MaxRetries
  <1>2. CASE ModuleInit \/ ModuleDestroy \/ Rest \/ UNCHANGED vars
    <2>1. CASE ModuleInit
      BY <1>1, <2>1 DEF CallInv, TypeOK, ModuleInit
    <2>2. CASE ModuleDestroy
      BY <1>1, <2>2 DEF CallInv, TypeOK, ModuleDestroy
    <2>3. CASE Rest \/ UNCHANGED vars
      BY <1>1, <2>3 DEF CallInv, TypeOK, Rest, vars
    <2>4. QED
      BY <1>2, <2>1, <2>2, <2>3
  <1>3. ASSUME NEW r \in sent, Run(r) PROVE CallInv'
    BY <1>1, <1>3 DEF CallInv, TypeOK, Run, connection
  <1>4. ASSUME NEW c \in Calls, Call(c) \/ Progress(c) PROVE CallInv'
    BY <1>4, CallStep, ProgressStep
  <1>5. QED
    BY <1>2, <1>3, <1>4 DEF Next

LEMMA CallInvInit == Init => CallInv
  <1> SUFFICES ASSUME Init PROVE CallInv
    OBVIOUS
  <1>1. TypeOK
    BY DEF Init, TypeOK, Steps, Errors, Results
  <1>2. \A c \in Calls : pc[c] = "idle" /\ attempt[c] = 0 /\ lastError[c] = "none"
    BY DEF Init
  <1>3. (\A c \in Calls : InLoop(c)) /\ ThrownHonestly
    BY <1>2 DEF InLoop, ThrownHonestly
  <1>4. QED
    BY <1>1, <1>3 DEF Init, CallInv

\* The invariant of the calls: where each is in its loop, and that what was sent
\* and run belongs to an attempt that was made.
THEOREM CallsAreCounted == Spec => []CallInv
  BY CallInvInit, CallInvStep, PTL DEF Spec

\* Every variable of the client keeps its type: in particular no request goes out
\* for an attempt beyond options.retries.
THEOREM ClientTypeSafe == Spec => []TypeOK
  <1>1. CallInv => TypeOK
    BY DEF CallInv
  <1>2. QED
    BY <1>1, CallsAreCounted, PTL

\* However connects, timeouts and replies interleave, a call throws only after its
\* last attempt, and a timeout only when that attempt sent a request.
THEOREM ThrowsAreHonest == Spec => []ThrownHonestly
  <1>1. CallInv => ThrownHonestly
    BY DEF CallInv
  <1>2. QED
    BY <1>1, CallsAreCounted, PTL

-----------------------------------------------------------------------------
(* The steps a call has left.                                              *)

\* What is left of a call that has not ended.
LEMMA LeftOf ==
  ASSUME CallInv, NEW c \in Calls, pc[c] \in {"idle", "connecting", "waiting", "pause"}
  PROVE  /\ pc[c] = "idle" => Left(c) = 3 * (MaxRetries(c) - attempt[c]) + 3
         /\ pc[c] = "connecting" => Left(c) = 3 * (MaxRetries(c) - attempt[c]) + 2
         /\ pc[c] = "waiting" => Left(c) = 3 * (MaxRetries(c) - attempt[c]) + 1
         /\ pc[c] = "pause" => Left(c) = 3 * (MaxRetries(c) - attempt[c])
         /\ MaxRetries(c) \in Nat /\ attempt[c] \in Nat
         /\ attempt[c] <= MaxRetries(c)
         /\ pc[c] # "idle" => attempt[c] < MaxRetries(c)
  <1>1. MaxRetries(c) \in Nat /\ attempt[c] \in Nat
    BY MaxRetriesType DEF CallInv, TypeOK
  <1>2. attempt[c] <= MaxRetries(c) /\ (pc[c] # "idle" => attempt[c] < MaxRetries(c))
    BY <1>1 DEF CallInv, InLoop
  <1>3. /\ pc[c] = "idle" => Left(c) = 3 * (MaxRetries(c) - attempt[c]) + 3
        /\ pc[c] = "connecting" => Left(c) = 3 * (MaxRetries(c) - attempt[c]) + 2
        /\ pc[c] = "waiting" => Left(c) = 3 * (MaxRetries(c) - attempt[c]) + 1
        /\ pc[c] = "pause" => Left(c) = 3 * (MaxRetries(c) - attempt[c])
    BY <1>1 DEF Left, Ended
  <1>4. QED
    BY <1>1, <1>2, <1>3

\* A call that begins, wakes or connects has fewer steps left than before.
LEMMA IterationCounts ==
  ASSUME CallInv, NEW c \in Calls, NEW n \in Nat, NEW step \in {"connecting", "waiting"},
         Goto(c, step), attempt' = [attempt EXCEPT ![c] = n],
         \/ pc[c] = "idle" /\ n = attempt[c]
         \/ pc[c] = "pause" /\ n = attempt[c] + 1
         \/ pc[c] = "connecting" /\ n = attempt[c] /\ step = "waiting"
  PROVE  Left(c)' \in 0..(Left(c) - 1)
  <1>1. pc'[c] = step /\ attempt'[c] = n /\ MaxRetries(c)' = MaxRetries(c)
    BY DEF CallInv, TypeOK, Goto, MaxRetries
  <1>2. Left(c)' = 3 * (MaxRetries(c) - n) + (IF step = "connecting" THEN 2 ELSE 1)
    BY <1>1, MaxRetriesType DEF Left, Ended
  <1>3. MaxRetries(c) \in Nat /\ attempt[c] \in Nat
    BY MaxRetriesType DEF CallInv, TypeOK
  <1>4. QED
    BY <1>2, <1>3, LeftOf

\* A call that pauses or ends has fewer steps left than before.
LEMMA EndCounts ==
  ASSUME CallInv, NEW c \in Calls, UNCHANGED attempt,
         \/ pc[c] \in {"idle", "connecting", "waiting"} /\ (Goto(c, "returned") \/ Goto(c, "thrown"))
         \/ pc[c] \in {"connecting", "waiting"} /\ Goto(c, "pause")
  PROVE  Left(c)' \in 0..(Left(c) - 1)
  <1>1. pc \in [Calls -> Steps] /\ MaxRetries(c)' = MaxRetries(c)
    BY DEF CallInv, TypeOK, MaxRetries
  <1>2. CASE Goto(c, "returned") \/ Goto(c, "thrown")
    <2>1. Left(c)' = 0
      BY <1>1, <1>2 DEF Left, Ended, Goto
    <2>2. pc[c] \in {"idle", "connecting", "waiting"}
      BY <1>1, <1>2 DEF Goto
    <2>3. QED
      BY <2>1, <2>2, LeftOf
  <1>3. CASE pc[c] \in {"connecting", "waiting"} /\ Goto(c, "pause")
    <2>1. Left(c)' = 3 * (MaxRetries(c) - attempt[c])
      BY <1>1, <1>3, MaxRetriesType DEF CallInv, TypeOK, Left, Ended, Goto
    <2>2. QED
      BY <1>3, <2>1, LeftOf
  <1>4. QED
    BY <1>2, <1>3

LEMMA ActionCounts ==
  ASSUME CallInv, NEW c \in Calls, Call(c) \/ Progress(c)
  PROVE  /\ Left(c)' \in 0..(Left(c) - 1)
         /\ \A d \in Calls \ {c} : pc'[d] = pc[d] /\ attempt'[d] = attempt[d]
  <1>1. /\ pc \in [Calls -> Steps] /\ attempt \in [Calls -> Nat] /\ attempt[c] \in Nat
        /\ MaxRetries(c) \in Nat
    BY MaxRetriesType DEF CallInv, TypeOK
  <1> DEFINE Others == \A d \in Calls \ {c} : pc'[d] = pc[d] /\ attempt'[d] = attempt[d]
  <1>2. ASSUME NEW n \in Nat, Iterate(c, n) PROVE \E step \in {"connecting", "waiting"} : Goto(c, step)
    BY <1>2 DEF Iterate, SendRequest
  <1>3. CASE Call(c)
    <2>1. attempt' = attempt /\ pc[c] = "idle"
      BY <1>3 DEF Call
    <2>2. CASE Goto(c, "thrown")
      BY <1>1, <2>1, <2>2, EndCounts DEF Goto
    <2>3. ASSUME NEW step \in {"connecting", "waiting"}, Goto(c, step) PROVE Left(c)' \in 0..(Left(c) - 1) /\ Others
      <3>1. attempt' = [attempt EXCEPT ![c] = attempt[c]]
        BY <1>1, <2>1
      <3>2. QED
        BY <1>1, <2>1, <2>3, <3>1, IterationCounts DEF Goto
    <2>4. QED
      BY <1>2, <1>3, <2>2, <2>3 DEF Call, Throw
  <1>4. CASE Wake(c)
    <2>1. PICK step \in {"connecting", "waiting"} : Goto(c, step)
      BY <1>1, <1>2, <1>4 DEF Wake
    <2>2. pc[c] = "pause" /\ attempt' = [attempt EXCEPT ![c] = attempt[c] + 1] /\ attempt[c] + 1 \in Nat
      BY <1>1, <1>4 DEF Wake
    <2>3. QED
      BY <1>1, <2>1, <2>2, IterationCounts DEF Goto
  <1>5. CASE Connected(c)
    <2>1. Goto(c, "waiting") /\ attempt' = [attempt EXCEPT ![c] = attempt[c]] /\ pc[c] = "connecting"
      BY <1>1, <1>5 DEF Connected, SendRequest
    <2>2. QED
      BY <1>1, <2>1, IterationCounts DEF Goto
  <1>6. ASSUME NEW error, pc[c] \in {"connecting", "waiting"}, Catch(c, error) \/ ConnectAgain(c)
        PROVE  Left(c)' \in 0..(Left(c) - 1) /\ Others
    BY <1>1, <1>6, EndCounts DEF Catch, ConnectAgain, Pause, Throw, Goto
  <1>7. CASE Receive(c)
    BY <1>1, <1>7, EndCounts DEF Receive, Return, Goto
  <1>8. QED
    BY <1>3, <1>4, <1>5, <1>6, <1>7 DEF Progress, ConnectFails, Timeout, Rejected

\* However connects, timeouts and replies interleave, each step of a call uses up one of
\* the steps it has left: no call goes round for ever.
THEOREM StepsAreCounted == Spec => EveryStepCounts
  <1>1. ASSUME CallInv, [Next]_vars, NEW c \in Calls,
               pc'[c] # pc[c] \/ attempt'[c] # attempt[c]
        PROVE  Left(c)' \in 0..(Left(c) - 1)
    <2>1. ~UNCHANGED <<pc, attempt>>
      BY <1>1
    <2>2. PICK d \in Calls : Call(d) \/ Progress(d)
      BY <1>1, <2>1 DEF Next, ModuleInit, ModuleDestroy, Run, Rest, vars
    <2>3. QED
      BY <1>1, <2>2, ActionCounts
  <1>2. CallInv /\ [Next]_vars =>
          [\A c \in Calls : pc'[c] # pc[c] \/ attempt'[c] # attempt[c] => Left(c)' \in 0..(Left(c) - 1)]_vars
    BY <1>1
  <1>3. QED
    BY <1>2, CallsAreCounted, PTL DEF Spec, EveryStepCounts

-----------------------------------------------------------------------------
(* The promise of a remote call.                                           *)

LEMMA AllowedIsMaxRetries == ASSUME NEW c \in Calls
                             PROVE  AttemptsAllowed[c] = MaxRetries(c)
  BY DEF AttemptsAllowed

\* A step of one call shows only in the state of that call.
LEMMA OneCallShows ==
  ASSUME CallInv, NEW c \in Calls, NEW step \in Steps, Goto(c, step)
  PROVE  /\ CallStates[c] = Shown(pc[c])
         /\ CallStates' = [CallStates EXCEPT ![c] = Shown(step)]
  <1>1. pc' = [pc EXCEPT ![c] = step] /\ pc \in [Calls -> Steps]
    BY DEF CallInv, TypeOK, Goto
  <1>2. \A d \in Calls : Shown(pc'[d]) = IF d = c THEN Shown(step) ELSE Shown(pc[d])
    BY <1>1
  <1>3. QED
    BY <1>2 DEF CallStates

\* A step from one pending state to another does not show.
LEMMA PendingStaysPending ==
  ASSUME CallInv, NEW c \in Calls,
         NEW step \in {"connecting", "waiting", "pause"}, Goto(c, step),
         pc[c] \in {"connecting", "waiting", "pause"}
  PROVE  CallStates[c] = "pending" /\ CallStates' = CallStates
  <1>1. Shown(pc[c]) = "pending" /\ Shown(step) = "pending"
    BY DEF Shown
  <1>2. step \in Steps
    BY DEF Steps
  <1>3. /\ CallStates[c] = Shown(pc[c])
        /\ CallStates' = [CallStates EXCEPT ![c] = Shown(step)]
    BY <1>2, OneCallShows
  <1>4. CallStates = [d \in Calls |-> CallStates[d]]
    BY DEF CallStates
  <1>5. QED
    BY <1>1, <1>3, <1>4

LEMMA AttemptsRunKept == ran' = ran => AttemptsRun' = AttemptsRun
  BY DEF AttemptsRun

LEMMA CallKeepsPromise ==
  ASSUME CallInv, NEW c \in Calls, Call(c)
  PROVE  Promise!Start(c)
  <1>1. PICK step \in {"thrown", "waiting", "connecting"} :
          /\ Goto(c, step)
          /\ step = "thrown" <=> MaxRetries(c) = 0
    <2>1. CASE MaxRetries(c) = 0
      BY <2>1 DEF Call, Throw
    <2>2. CASE MaxRetries(c) # 0
      BY <2>2 DEF Call, Iterate, SendRequest
    <2>3. QED
      BY <2>1, <2>2
  <1>2. step \in Steps
    BY DEF Steps
  <1>3. Shown(pc[c]) = "idle" /\ Shown(step) = IF step = "thrown" THEN "failed" ELSE "pending"
    BY DEF Call, Shown
  <1>4. /\ CallStates[c] = Shown(pc[c])
        /\ CallStates' = [CallStates EXCEPT ![c] = Shown(step)]
    BY <1>1, <1>2, OneCallShows
  <1>5. attempt' = attempt /\ AttemptsRun' = AttemptsRun
    BY AttemptsRunKept DEF Call
  <1>6. QED
    BY <1>1, <1>3, <1>4, <1>5, AllowedIsMaxRetries DEF Promise!Start

LEMMA CatchKeepsPromise ==
  ASSUME CallInv, NEW c \in Calls, NEW error \in {"timeout", "unavailable"},
         pc[c] \in {"connecting", "waiting"}, Catch(c, error) \/ ConnectAgain(c)
  PROVE  Promise!Fail(c) \/ UNCHANGED <<CallStates, attempt, AttemptsRun>>
  <1>1. attempt' = attempt /\ AttemptsRun' = AttemptsRun
    BY AttemptsRunKept DEF Catch, ConnectAgain
  <1>2. CASE Goto(c, "pause")
    BY <1>1, <1>2, PendingStaysPending
  <1>3. CASE attempt[c] + 1 >= MaxRetries(c) /\ \E e : Throw(c, e)
    <2>1. Goto(c, "thrown") /\ "thrown" \in Steps
      BY <1>3 DEF Throw, Steps
    <2>2. Shown(pc[c]) = "pending" /\ Shown("thrown") = "failed"
      BY DEF Shown
    <2>3. /\ CallStates[c] = Shown(pc[c])
          /\ CallStates' = [CallStates EXCEPT ![c] = Shown("thrown")]
      BY <2>1, OneCallShows
    <2>4. attempt[c] < MaxRetries(c) /\ attempt[c] \in Nat /\ MaxRetries(c) \in Nat
      BY MaxRetriesType DEF CallInv, TypeOK, InLoop
    <2>5. attempt[c] + 1 = AttemptsAllowed[c]
      BY <1>3, <2>4, AllowedIsMaxRetries
    <2>6. QED
      BY <1>1, <2>2, <2>3, <2>5 DEF Promise!Fail
  <1>4. QED
    BY <1>2, <1>3 DEF Catch, ConnectAgain, Pause, IsLast

LEMMA ProgressKeepsPromise ==
  ASSUME CallInv, NEW c \in Calls, Progress(c)
  PROVE  \/ Promise!TryAgain(c) \/ Promise!Succeed(c) \/ Promise!Fail(c)
         \/ UNCHANGED <<CallStates, attempt, AttemptsRun>>
  <1>1. CASE Wake(c)
    <2>1. PICK step \in {"connecting", "waiting", "pause"} : Goto(c, step)
      BY <1>1 DEF Wake, Iterate, SendRequest
    <2>2. CallStates[c] = "pending" /\ CallStates' = CallStates
      BY <1>1, <2>1, PendingStaysPending DEF Wake
    <2>3. attempt[c] + 1 < AttemptsAllowed[c]
      BY <1>1, AllowedIsMaxRetries DEF CallInv, InLoop, Wake
    <2>4. attempt' = [attempt EXCEPT ![c] = attempt[c] + 1] /\ AttemptsRun' = AttemptsRun
      BY <1>1, AttemptsRunKept DEF Wake
    <2>5. QED
      BY <2>2, <2>3, <2>4 DEF Promise!TryAgain
  <1>2. CASE Connected(c)
    <2>1. Goto(c, "waiting") /\ attempt' = attempt /\ AttemptsRun' = AttemptsRun
      BY <1>2, AttemptsRunKept DEF Connected, SendRequest
    <2>2. QED
      BY <1>2, <2>1, PendingStaysPending DEF Connected
  <1>3. CASE ConnectFails(c)
    BY <1>3, CatchKeepsPromise DEF ConnectFails
  <1>4. CASE Timeout(c)
    BY <1>4, CatchKeepsPromise DEF Timeout
  <1>5. CASE Rejected(c)
    BY <1>5, CatchKeepsPromise DEF Rejected
  <1>6. CASE Receive(c)
    <2>1. Goto(c, "returned") /\ "returned" \in Steps
      BY <1>6 DEF Receive, Return, Steps
    <2>2. Shown(pc[c]) = "pending" /\ Shown("returned") = "answered"
      BY <1>6 DEF Receive, Shown
    <2>3. /\ CallStates[c] = Shown(pc[c])
          /\ CallStates' = [CallStates EXCEPT ![c] = Shown("returned")]
      BY <2>1, OneCallShows
    <2>4. attempt[c] \in AttemptsRun[c]
      BY <1>6 DEF Receive, Latest, AttemptsRun
    <2>5. attempt' = attempt /\ AttemptsRun' = AttemptsRun
      BY <1>6, AttemptsRunKept DEF Receive
    <2>6. QED
      BY <2>2, <2>3, <2>4, <2>5 DEF Promise!Succeed
  <1>7. QED
    BY <1>1, <1>2, <1>3, <1>4, <1>5, <1>6 DEF Progress

LEMMA RunKeepsPromise ==
  ASSUME CallInv, NEW r \in sent, Run(r)
  PROVE  r.call \in Calls /\ \E n \in 0..AttemptsAllowed[r.call] : Promise!Run(r.call, n)
  <1>1. /\ r \in Request /\ r.call \in Calls
        /\ r.attempt \in Nat /\ r.attempt < MaxRetries(r.call)
    BY DEF CallInv, TypeOK, Request
  <1>2. MaxRetries(r.call) \in Nat /\ AttemptsAllowed[r.call] = MaxRetries(r.call)
    BY <1>1, MaxRetriesType, AllowedIsMaxRetries
  <1>3. MadeBy(r)
    BY DEF CallInv
  <1>4. CallStates[r.call] # "idle" /\ r.attempt <= attempt[r.call]
    BY <1>1, <1>3 DEF MadeBy, CallStates, Shown
  <1>5. UNCHANGED <<CallStates, attempt>>
    BY DEF Run, CallStates
  <1>6. AttemptsRun' = [AttemptsRun EXCEPT ![r.call] = @ \cup {r.attempt}]
    <2>1. ran' = ran \cup {r}
      BY DEF Run
    <2>2. ASSUME NEW d \in Calls
          PROVE  {q.attempt : q \in {p \in ran' : p.call = d}}
                   = IF d = r.call THEN AttemptsRun[d] \cup {r.attempt} ELSE AttemptsRun[d]
      BY <1>1, <2>1 DEF AttemptsRun
    <2>3. QED
      BY <1>1, <2>2 DEF AttemptsRun
  <1>7. Promise!Run(r.call, r.attempt)
    BY <1>1, <1>2, <1>4, <1>5, <1>6 DEF Promise!Run
  <1>8. QED
    BY <1>1, <1>2, <1>7

LEMMA PromiseStep ==
  CallInv /\ [Next]_vars => [Promise!Next]_<<CallStates, attempt, AttemptsRun>>
  <1> SUFFICES ASSUME CallInv, [Next]_vars
               PROVE  Promise!Next \/ UNCHANGED <<CallStates, attempt, AttemptsRun>>
    OBVIOUS
  <1>1. CASE UNCHANGED <<pc, attempt, ran>>
    BY <1>1 DEF CallStates, AttemptsRun
  <1>2. CASE ModuleInit \/ ModuleDestroy \/ Rest \/ UNCHANGED vars
    BY <1>1, <1>2 DEF ModuleInit, ModuleDestroy, Rest, vars
  <1>3. ASSUME NEW r \in sent, Run(r) PROVE Promise!Next
    BY <1>3, RunKeepsPromise DEF Promise!Next
  <1>4. ASSUME NEW c \in Calls, Call(c) PROVE Promise!Next
    BY <1>4, CallKeepsPromise DEF Promise!Next
  <1>5. ASSUME NEW c \in Calls, Progress(c)
        PROVE  Promise!Next \/ UNCHANGED <<CallStates, attempt, AttemptsRun>>
    BY <1>5, ProgressKeepsPromise DEF Promise!Next
  <1>6. QED
    BY <1>2, <1>3, <1>4, <1>5 DEF Next

\* Whatever is lost, late or delivered twice, send keeps the promise of a remote
\* call: no attempt beyond those allowed, no answer from an earlier attempt, and no
\* failure before the last.
THEOREM PromiseIsKept == Spec => ImplementsRemoteCall
  <1>1. Init => Promise!Init
    BY DEF Init, Promise!Init, CallStates, AttemptsRun, Shown
  <1>2. QED
    BY <1>1, PromiseStep, CallsAreCounted, PTL
       DEF Spec, ImplementsRemoteCall, Promise!Spec, Promise!vars
=============================================================================
