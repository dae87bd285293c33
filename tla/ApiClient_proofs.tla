-------------------------- MODULE ApiClient_proofs --------------------------
(***************************************************************************)
(* Proofs about ApiClient, for any number of calls and of retries on both  *)
(* sides: its types, that retries never add up to more work than one side  *)
(* alone would do, and that what a call returns is what the server said of *)
(* its last attempt.                                                       *)
(***************************************************************************)
EXTENDS ApiClient, FiniteSets, FiniteSetTheorems, TLAPS

\* The attempts whose requests are on their way.
Pending(c) == {a \in 1 .. MaxRetries + 1 : <<c, a>> \in requests}

\* The client waits for a new attempt only if there is one left, and reads or
\* returns nothing but what came back.
ClientInv(c) ==
  /\ pc[c] = "idle" <=> attempt[c] = 0
  /\ pc[c] = "backoff" => attempt[c] < MaxAttempts(op[c])
  /\ attempt[c] <= MaxAttempts(op[c])
  /\ pc[c] = "body" => <<c, attempt[c], status[c]>> \in responses
  /\ pc[c] = "returned" /\ result[c] \in Statuses => <<c, attempt[c], result[c]>> \in responses

\* A request is sent once per attempt, and is handled at most once.
MessageInv(c) ==
  /\ \A a \in 1 .. MaxRetries + 1 : <<c, a>> \in requests => a <= attempt[c]
  /\ \A a \in 1 .. MaxRetries + 1, s \in Statuses : <<c, a, s>> \in responses => a <= attempt[c]
  /\ handled[c] + Cardinality(Pending(c)) <= attempt[c]

NothingDone == {"unauthorized", "quota", "notFound"}

\* The only request of a write is gone when there is a response, and was not
\* handled when the response says so.
WriteInv(c) ==
  op[c].method # "GET" =>
    \A a \in 1 .. MaxRetries + 1, s \in Statuses :
      <<c, a, s>> \in responses => /\ <<c, 1>> \notin requests
                                   /\ s \in NothingDone => handled[c] = 0

\* A task is run once; its checks start from no attempts, and while a provider
\* infers, its attempts are those its backend was asked in.
TaskInv(c) ==
  /\ phase[c] # "none" => op[c].op = "tasks.run" /\ handled[c] # 0
  /\ phase[c] = "none" /\ op[c].op = "tasks.run" => handled[c] = 0
  /\ phase[c] # "health" => checks[c] = {}
  /\ phase[c] \in {"none", "health"} =>
       /\ asked[c] = 0
       /\ \A p \in ProviderNames \ checks[c] : tries[c][p] = 0
  /\ phase[c] = "infer" =>
       provider[c] \in ProviderNames /\ asked[c] = tries[c][provider[c]]

CallInv(c) == ClientInv(c) /\ MessageInv(c) /\ WriteInv(c) /\ TaskInv(c)

IInv == TypeOK /\ \A c \in Call : CallInv(c)

-----------------------------------------------------------------------------
(* Operators.                                                              *)

\* Tasks are run by a write.
LEMMA TasksAreWrites ==
  ASSUME NEW o \in Used PROVE /\ o.op = "tasks.run" => o.method # "GET"
                              /\ MaxAttempts(o) \in 1 .. MaxRetries + 1
                              /\ o.method # "GET" => MaxAttempts(o) = 1
<1>1. o \in Operations
  BY UsedAssumption
<1>2. o.op = "tasks.run" => o.method = "POST"
  BY <1>1 DEF Operations, SawyerClient, TasksNamespace, ProvidersNamespace, AgentsNamespace,
              SharesNamespace, ApiKeysNamespace, Op
<1> QED
  BY <1>2, ClientAssumption DEF MaxAttempts

LEMMA PendingIsFinite ==
  ASSUME NEW c \in Call PROVE /\ IsFiniteSet(Pending(c)) /\ Cardinality(Pending(c)) \in Nat
                              /\ IsFiniteSet(Pending(c)') /\ Cardinality(Pending(c)') \in Nat
<1>1. IsFiniteSet(1 .. MaxRetries + 1)
  BY FS_Interval, ClientAssumption
<1>2. Pending(c) \in SUBSET (1 .. MaxRetries + 1) /\ Pending(c)' \in SUBSET (1 .. MaxRetries + 1)
  BY DEF Pending
<1> QED
  BY <1>1, <1>2, FS_Subset, FS_CardinalityType

\* A write has sent no more than one request, and has it handled no more than once.
LEMMA WriteIsHandledOnce ==
  ASSUME TypeOK, NEW c \in Call, CallInv(c), op[c].method # "GET"
  PROVE  /\ handled[c] <= 1
         /\ \A a \in 1 .. MaxRetries + 1 : <<c, a>> \in requests => a = 1 /\ attempt[c] = 1 /\ handled[c] = 0
<1>1. op[c] \in Used /\ attempt[c] \in 0 .. MaxRetries + 1 /\ handled[c] \in Nat /\ MaxRetries \in Nat
  BY ClientAssumption DEF TypeOK
<1>2. attempt[c] <= 1
  BY <1>1, TasksAreWrites DEF CallInv, ClientInv
<1>3. handled[c] + Cardinality(Pending(c)) <= attempt[c] /\ Cardinality(Pending(c)) \in Nat
  BY PendingIsFinite DEF CallInv, MessageInv
<1>4. ASSUME NEW a \in 1 .. MaxRetries + 1, <<c, a>> \in requests
      PROVE  a = 1 /\ attempt[c] = 1 /\ handled[c] = 0
  <2>1. a <= attempt[c]
    BY <1>4 DEF CallInv, MessageInv
  <2>2. Pending(c) # {}
    BY <1>4 DEF Pending
  <2>3. Cardinality(Pending(c)) # 0
    BY <2>2, PendingIsFinite, FS_EmptySet
  <2> QED
    BY <1>1, <1>2, <1>3, <2>1, <2>3
<1> QED
  BY <1>1, <1>2, <1>3, <1>4

-----------------------------------------------------------------------------
(* A step of one call leaves the others alone.                             *)

Same(c) ==
  /\ pc'[c] = pc[c] /\ attempt'[c] = attempt[c] /\ status'[c] = status[c] /\ result'[c] = result[c]
  /\ phase'[c] = phase[c] /\ checks'[c] = checks[c] /\ provider'[c] = provider[c]
  /\ tries'[c] = tries[c] /\ handled'[c] = handled[c] /\ asked'[c] = asked[c]
  /\ \A a \in 1 .. MaxRetries + 1 : <<c, a>> \in requests' <=> <<c, a>> \in requests
  /\ \A a \in 1 .. MaxRetries + 1, s \in Statuses : <<c, a, s>> \in responses' <=> <<c, a, s>> \in responses

LEMMA SameKeepsCallInv ==
  ASSUME TypeOK, NEW c \in Call, CallInv(c), Same(c), op' = op PROVE CallInv(c)'
<1>1. Pending(c)' = Pending(c)
  BY DEF Same, Pending
<1>2. attempt[c] \in 0 .. MaxRetries + 1 /\ MaxRetries \in Nat /\ status[c] \in Statuses
  BY ClientAssumption DEF TypeOK
<1>3. attempt[c] # 0 => attempt[c] \in 1 .. MaxRetries + 1
  BY <1>2
<1>4. ClientInv(c)'
  <2>1. pc[c] \in {"body", "returned"} => attempt[c] \in 1 .. MaxRetries + 1
    BY <1>3 DEF CallInv, ClientInv
  <2> QED
    BY <1>2, <2>1 DEF CallInv, ClientInv, Same, MaxAttempts
<1>5. MessageInv(c)'
  BY <1>1 DEF CallInv, MessageInv, Same
<1>6. WriteInv(c)'
  BY <1>2 DEF CallInv, WriteInv, Same
<1>7. TaskInv(c)'
  BY DEF CallInv, TaskInv, Same
<1> QED
  BY <1>4, <1>5, <1>6, <1>7 DEF CallInv

LEMMA OthersStay ==
  ASSUME TypeOK, NEW d \in Call, ClientStep(d) \/ ServerStep(d), NEW c \in Call, c # d
  PROVE  Same(c) /\ op' = op
<1>1. CASE ClientStep(d)
  BY <1>1 DEF ClientStep, Send, Timeout, Headers, ReadBody, AttemptFails, server, TypeOK, Same
<1>2. ASSUME NEW a \in 1 .. MaxRetries + 1, NEW s \in Statuses,
             StartTask(d, a) \/ Refuse(d, a, s) \/ Reject(d, a, s) \/ Handle(d, a, s)
      PROVE  Same(c) /\ op' = op
  BY <1>2 DEF StartTask, Refuse, Reject, Handle, Answer, client, server, TypeOK, Same
<1>3. CASE TaskStep(d)
  BY <1>3 DEF TaskStep, CheckFails, CheckAnswered, Choose, Deny, InferFails, Infer, AnswerTask,
              client, TypeOK, Same
<1>4. Statuses # {}
  BY DEF Statuses
<1> QED
  BY <1>1, <1>2, <1>3, <1>4 DEF ServerStep

-----------------------------------------------------------------------------
(* The requests on the way.                                                *)

LEMMA PendingGrows ==
  ASSUME NEW c \in Call, NEW a \in 1 .. MaxRetries + 1, <<c, a>> \notin requests,
         requests' = requests \cup {<<c, a>>}
  PROVE  Cardinality(Pending(c)') = Cardinality(Pending(c)) + 1
<1>1. Pending(c)' = Pending(c) \cup {a} /\ a \notin Pending(c)
  BY DEF Pending
<1> QED
  BY <1>1, PendingIsFinite, FS_AddElement

LEMMA PendingShrinks ==
  ASSUME NEW c \in Call, NEW a \in 1 .. MaxRetries + 1, <<c, a>> \in requests,
         requests' = requests \ {<<c, a>>}
  PROVE  Cardinality(Pending(c)') + 1 = Cardinality(Pending(c))
<1>1. Pending(c)' = Pending(c) \ {a} /\ a \in Pending(c)
  BY DEF Pending
<1>2. Cardinality(Pending(c)') = Cardinality(Pending(c)) - 1
  BY <1>1, PendingIsFinite, FS_RemoveElement
<1> QED
  BY <1>2, PendingIsFinite

\* The ranges of what a call keeps, in one place.
LEMMA Ranges ==
  ASSUME TypeOK, NEW c \in Call
  PROVE  /\ MaxRetries \in Nat /\ ProviderRetries \in Nat
         /\ op[c] \in Used /\ attempt[c] \in 0 .. MaxRetries + 1 /\ handled[c] \in 0 .. MaxRetries + 1
         /\ asked[c] \in 0 .. ProviderRetries + 1
         /\ status[c] \in Statuses /\ MaxAttempts(op[c]) \in 1 .. MaxRetries + 1
         /\ \A p \in ProviderNames : tries[c][p] \in 0 .. ProviderRetries
BY ClientAssumption, TasksAreWrites DEF TypeOK

-----------------------------------------------------------------------------
(* The steps of the client.                                                *)

LEMMA SendKeeps ==
  ASSUME TypeOK, NEW d \in Call, CallInv(d), Send(d) PROVE TypeOK' /\ CallInv(d)'
<1>1. /\ attempt[d] \in 0 .. MaxRetries /\ attempt[d] < MaxAttempts(op[d])
      /\ attempt'[d] = attempt[d] + 1 /\ attempt[d] + 1 \in 1 .. MaxRetries + 1
  BY Ranges DEF Send, TypeOK, CallInv, ClientInv
<1>2. TypeOK'
  BY <1>1 DEF TypeOK, Send, server
<1>3. <<d, attempt[d] + 1>> \notin requests
  BY <1>1 DEF CallInv, MessageInv
<1>4. Cardinality(Pending(d)') = Cardinality(Pending(d)) + 1
  BY <1>1, <1>3, PendingGrows DEF Send
<1>5. ClientInv(d)'
  BY <1>1 DEF Send, CallInv, ClientInv, TypeOK, MaxAttempts, server
<1>6. MessageInv(d)'
  <2>1. handled'[d] + Cardinality(Pending(d)') <= attempt'[d]
    BY <1>1, <1>4, Ranges, PendingIsFinite DEF Send, server, CallInv, MessageInv
  <2> QED
    BY <1>1, <2>1 DEF Send, CallInv, MessageInv
<1>7. WriteInv(d)'
  <2>1. op[d].method # "GET" => attempt[d] = 0
    BY <1>1, Ranges, TasksAreWrites
  <2> QED
    BY <1>1, <2>1 DEF Send, CallInv, MessageInv, WriteInv
<1>8. TaskInv(d)'
  BY DEF Send, server, CallInv, TaskInv
<1> QED
  BY <1>2, <1>5, <1>6, <1>7, <1>8 DEF CallInv

\* The rest of the client touches neither messages nor the server.
Waits(d) ==
  /\ UNCHANGED <<config, op, attempt, requests, responses, server>>
  /\ pc'[d] # "idle" /\ pc[d] # "idle"
  /\ pc'[d] = "backoff" => attempt[d] < MaxAttempts(op[d])
  /\ pc'[d] = "body" => <<d, attempt[d], status'[d]>> \in responses
  /\ pc'[d] = "returned" /\ result'[d] \in Statuses => <<d, attempt[d], result'[d]>> \in responses

LEMMA WaitingKeeps ==
  ASSUME TypeOK, NEW d \in Call, CallInv(d), Waits(d) PROVE CallInv(d)'
<1>1. Pending(d)' = Pending(d)
  BY DEF Waits, Pending
<1>2. ClientInv(d)'
  BY DEF Waits, CallInv, ClientInv, MaxAttempts
<1>3. MessageInv(d)'
  BY <1>1 DEF Waits, server, CallInv, MessageInv
<1>4. WriteInv(d)' /\ TaskInv(d)'
  BY DEF Waits, server, CallInv, WriteInv, TaskInv
<1> QED
  BY <1>2, <1>3, <1>4 DEF CallInv

LEMMA ClientKeeps ==
  ASSUME TypeOK, NEW d \in Call, CallInv(d), ClientStep(d) PROVE TypeOK' /\ CallInv(d)'
<1>r. /\ attempt[d] \in Nat /\ MaxAttempts(op[d]) \in Nat /\ status[d] \in Statuses
      /\ "failed" \notin Statuses
  BY Ranges DEF Statuses, ClientErrors, ServerErrors
<1>1. CASE Send(d)
  BY <1>1, SendKeeps
<1>2. CASE Timeout(d)
  <2>1. TypeOK'
    BY <1>2 DEF TypeOK, Timeout, AttemptFails, server
  <2>2. Waits(d)
    BY <1>2, <1>r DEF TypeOK, Timeout, AttemptFails, Waits
  <2> QED
    BY <2>1, <2>2, WaitingKeeps
<1>3. ASSUME NEW s \in Statuses, Headers(d, s) PROVE TypeOK' /\ CallInv(d)'
  <2>1. TypeOK'
    BY <1>3 DEF TypeOK, Headers, server
  <2>2. Waits(d)
    BY <1>3 DEF TypeOK, Headers, Waits
  <2> QED
    BY <2>1, <2>2, WaitingKeeps
<1>4. ASSUME NEW json \in BOOLEAN, ReadBody(d, json) PROVE TypeOK' /\ CallInv(d)'
  <2>1. CASE status[d] = "ok" /\ json
    <3>1. TypeOK'
      BY <1>4, <2>1 DEF TypeOK, ReadBody, server, Statuses
    <3>2. Waits(d)
      BY <1>4, <2>1 DEF TypeOK, ReadBody, Waits, CallInv, ClientInv
    <3> QED
      BY <3>1, <3>2, WaitingKeeps
  <2>2. CASE ~(status[d] = "ok" /\ json)
    <3>1. TypeOK'
      BY <1>4, <2>2, <1>r DEF TypeOK, ReadBody, AttemptFails, server
    <3>2. PICK e \in Statuses \cup {"failed"} : AttemptFails(d, e) /\ (e \in Statuses => e = status[d])
      <4>1. CASE json
        BY <1>4, <2>2, <1>r, <4>1 DEF ReadBody
      <4>2. CASE ~json
        BY <1>4, <2>2, <1>r, <4>2 DEF ReadBody
      <4> QED
        BY <4>1, <4>2
    <3>3. Waits(d)
      <4>1. /\ pc[d] = "body" /\ <<d, attempt[d], status[d]>> \in responses
            /\ UNCHANGED <<config, op, attempt, requests, responses, server>> /\ status' = status
        BY <1>4 DEF ReadBody, CallInv, ClientInv
      <4>2. /\ result'[d] = e /\ pc'[d] \in {"returned", "backoff"}
            /\ pc'[d] = "backoff" => ~(attempt[d] >= MaxAttempts(op[d]))
        BY <3>2 DEF TypeOK, AttemptFails
      <4>3. pc'[d] = "backoff" => attempt[d] < MaxAttempts(op[d])
        BY <4>2, <1>r
      <4> QED
        BY <3>2, <4>1, <4>2, <4>3 DEF Waits
    <3> QED
      BY <3>1, <3>3, WaitingKeeps
  <2> QED
    BY <2>1, <2>2
<1> QED
  BY <1>1, <1>2, <1>3, <1>4 DEF ClientStep

-----------------------------------------------------------------------------
(* The steps of the server.                                                *)

\* A request that is taken is one of those on their way; of a write, the only one,
\* and nothing was said of it.
LEMMA TakenIsPending ==
  ASSUME TypeOK, NEW d \in Call, CallInv(d), NEW a \in 1 .. MaxRetries + 1, <<d, a>> \in requests
  PROVE  /\ handled[d] + 1 <= attempt[d] /\ a <= attempt[d] /\ handled[d] + 1 \in 1 .. MaxRetries + 1
         /\ requests' = requests \ {<<d, a>>} =>
              handled[d] + Cardinality(Pending(d)') + 1 <= attempt[d]
         /\ op[d].method # "GET" =>
              /\ a = 1
              /\ \A b \in 1 .. MaxRetries + 1, s \in Statuses : <<d, b, s>> \notin responses
<1>1. Pending(d) # {}
  BY DEF Pending
<1>2. Cardinality(Pending(d)) \in Nat /\ Cardinality(Pending(d)) # 0 /\ Cardinality(Pending(d)') \in Nat
  BY <1>1, PendingIsFinite, FS_EmptySet
<1>3. handled[d] + Cardinality(Pending(d)) <= attempt[d] /\ a <= attempt[d]
  BY DEF CallInv, MessageInv
<1>4. handled[d] + 1 <= attempt[d] /\ handled[d] + 1 \in 1 .. MaxRetries + 1
  BY <1>2, <1>3, Ranges
<1>5. requests' = requests \ {<<d, a>>} => handled[d] + Cardinality(Pending(d)') + 1 <= attempt[d]
  BY <1>2, <1>3, Ranges, PendingShrinks
<1>6. ASSUME op[d].method # "GET"
      PROVE  a = 1 /\ \A b \in 1 .. MaxRetries + 1, s \in Statuses : <<d, b, s>> \notin responses
  BY <1>6, WriteIsHandledOnce DEF CallInv, WriteInv
<1> QED
  BY <1>3, <1>4, <1>5, <1>6

\* An answer that comes with the taking of the request: h is what it adds to
\* handled.
AnswersAtOnce(d, a, s, h) ==
  /\ Answer(d, a, s)
  /\ UNCHANGED <<config, client, phase, checks, healthy, provider, tries, asked>>
  /\ handled' = [handled EXCEPT ![d] = @ + h]
  /\ s \in NothingDone => h = 0
  /\ op[d].op = "tasks.run" => h = 0

LEMMA AnswerKeeps ==
  ASSUME TypeOK, NEW d \in Call, CallInv(d), NEW a \in 1 .. MaxRetries + 1, NEW s \in Statuses,
         NEW h \in {0, 1}, AnswersAtOnce(d, a, s, h)
  PROVE  TypeOK' /\ CallInv(d)'
<1>1. /\ <<d, a>> \in requests /\ requests' = requests \ {<<d, a>>}
      /\ responses' = responses \cup {<<d, a, s>>}
  BY DEF AnswersAtOnce, Answer
<1>2. handled'[d] = handled[d] + h /\ handled[d] \in 0 .. MaxRetries + 1
  BY Ranges DEF AnswersAtOnce, TypeOK
<1>3. handled[d] + h \in 0 .. MaxRetries + 1
  BY <1>1, <1>2, TakenIsPending, Ranges
<1>4. TypeOK'
  BY <1>1, <1>3 DEF TypeOK, AnswersAtOnce, client
<1>5. ClientInv(d)'
  BY <1>1 DEF AnswersAtOnce, client, CallInv, ClientInv, MaxAttempts
<1>6. MessageInv(d)'
  <2>1. handled[d] + Cardinality(Pending(d)') + 1 <= attempt[d] /\ a <= attempt[d]
    BY <1>1, TakenIsPending
  <2>2. handled'[d] + Cardinality(Pending(d)') <= attempt'[d]
    BY <1>2, <2>1, Ranges, PendingIsFinite DEF AnswersAtOnce, client
  <2> QED
    BY <1>1, <2>1, <2>2 DEF AnswersAtOnce, client, CallInv, MessageInv
<1>7. WriteInv(d)'
  <2>1. SUFFICES ASSUME op[d].method # "GET" PROVE WriteInv(d)'
    BY DEF WriteInv, AnswersAtOnce, client
  <2>2. a = 1 /\ \A b \in 1 .. MaxRetries + 1, t \in Statuses : <<d, b, t>> \notin responses
    BY <1>1, <2>1, TakenIsPending
  <2>3. handled[d] = 0
    BY <1>1, <2>1, WriteIsHandledOnce
  <2> QED
    BY <1>1, <1>2, <2>2, <2>3 DEF WriteInv, AnswersAtOnce
<1>8. TaskInv(d)'
  BY <1>2 DEF AnswersAtOnce, client, CallInv, TaskInv
<1> QED
  BY <1>4, <1>5, <1>6, <1>7, <1>8 DEF CallInv

LEMMA RoutesKeep ==
  ASSUME TypeOK, NEW d \in Call, CallInv(d), NEW a \in 1 .. MaxRetries + 1, NEW s \in Statuses,
         Refuse(d, a, s) \/ Reject(d, a, s) \/ Handle(d, a, s)
  PROVE  TypeOK' /\ CallInv(d)'
<1>r. handled[d] \in Nat /\ handled = [handled EXCEPT ![d] = @ + 0]
  BY Ranges DEF TypeOK
<1>1. CASE Refuse(d, a, s) \/ Reject(d, a, s)
  <2>1. AnswersAtOnce(d, a, s, 0)
    BY <1>1, <1>r DEF Refuse, Reject, AnswersAtOnce, server
  <2> QED
    BY <2>1, AnswerKeeps
<1>2. CASE Handle(d, a, s)
  <2>1. s \notin NothingDone
    BY <1>2 DEF Handle, Completions, NothingDone
  <2>2. AnswersAtOnce(d, a, s, 1)
    BY <1>2, <2>1 DEF Handle, AnswersAtOnce
  <2> QED
    BY <2>2, AnswerKeeps
<1> QED
  BY <1>1, <1>2

LEMMA StartKeeps ==
  ASSUME TypeOK, NEW d \in Call, CallInv(d), NEW a \in 1 .. MaxRetries + 1, StartTask(d, a)
  PROVE  TypeOK' /\ CallInv(d)'
<1>1. /\ <<d, a>> \in requests /\ requests' = requests \ {<<d, a>>} /\ op[d].method # "GET"
      /\ handled'[d] = handled[d] + 1 /\ handled[d] = 0 /\ phase'[d] = "health"
      /\ checks'[d] = ProvidersOf(config)
  BY Ranges, TasksAreWrites, WriteIsHandledOnce DEF StartTask, TypeOK
<1>2. ProvidersOf(config) \subseteq ProviderNames
  BY ConfigAssumption DEF TypeOK, ProvidersOf
<1>3. handled[d] + 1 \in 0 .. MaxRetries + 1 /\ handled[d] + Cardinality(Pending(d)') + 1 <= attempt[d]
  BY <1>1, TakenIsPending, Ranges
<1>4. TypeOK'
  BY <1>1, <1>2, <1>3 DEF TypeOK, StartTask, client
<1>5. ClientInv(d)'
  BY DEF StartTask, client, CallInv, ClientInv, MaxAttempts
<1>6. MessageInv(d)'
  <2>1. handled'[d] + Cardinality(Pending(d)') <= attempt'[d]
    BY <1>1, <1>3, PendingIsFinite DEF StartTask, client
  <2> QED
    BY <1>1, <2>1 DEF StartTask, client, CallInv, MessageInv
<1>7. WriteInv(d)'
  BY <1>1, TakenIsPending DEF StartTask, WriteInv
<1>8. TaskInv(d)'
  <2>1. phase[d] = "none"
    BY <1>1 DEF CallInv, TaskInv
  <2> QED
    BY <1>1, <2>1 DEF StartTask, client, CallInv, TaskInv
<1> QED
  BY <1>4, <1>5, <1>6, <1>7, <1>8 DEF CallInv

-----------------------------------------------------------------------------
(* The steps of a task.                                                    *)

\* A task at work: it may answer, once it has something to say.
Works(d) ==
  /\ UNCHANGED <<config, client, requests, handled>>
  /\ phase[d] # "none"
  /\ responses' = responses \/ \E s \in {"ok", "badRequest"} : responses' = responses \cup {<<d, attempt[d], s>>}

LEMMA WorkingKeeps ==
  ASSUME TypeOK, NEW d \in Call, CallInv(d), Works(d)
  PROVE  /\ ClientInv(d)' /\ MessageInv(d)' /\ WriteInv(d)'
         /\ responses' \subseteq Call \X (1 .. MaxRetries + 1) \X Statuses
<1>1. /\ op[d].op = "tasks.run" /\ handled[d] # 0 /\ op[d].method # "GET"
  BY Ranges, TasksAreWrites DEF Works, CallInv, TaskInv
<1>2. attempt[d] \in 1 .. MaxRetries + 1
  BY <1>1, Ranges, PendingIsFinite DEF CallInv, MessageInv
<1>3. <<d, 1>> \notin requests
  <2>1. 1 \in 1 .. MaxRetries + 1
    BY ClientAssumption
  <2> QED
    BY <1>1, <2>1, WriteIsHandledOnce
<1>4. Pending(d)' = Pending(d)
  BY DEF Works, Pending
<1>5. \A s \in {"ok", "badRequest"} : s \in Statuses /\ s \notin NothingDone
  BY DEF Statuses, ClientErrors, NothingDone
<1>6. responses \subseteq responses'
  BY DEF Works
<1>7. \A a \in 1 .. MaxRetries + 1, s \in Statuses :
        <<d, a, s>> \in responses' /\ <<d, a, s>> \notin responses => a = attempt[d] /\ s \notin NothingDone
  BY <1>5 DEF Works
<1>8. ClientInv(d)'
  BY <1>6 DEF Works, client, CallInv, ClientInv, MaxAttempts
<1>9. MessageInv(d)'
  BY <1>2, <1>4, <1>7 DEF Works, client, CallInv, MessageInv
<1>10. WriteInv(d)'
  BY <1>3, <1>7 DEF Works, client, CallInv, WriteInv
<1>11. responses' \subseteq Call \X (1 .. MaxRetries + 1) \X Statuses
  <2>1. responses \subseteq Call \X (1 .. MaxRetries + 1) \X Statuses
    BY DEF TypeOK
  <2>2. ASSUME NEW s \in {"ok", "badRequest"}
        PROVE  {<<d, attempt[d], s>>} \subseteq Call \X (1 .. MaxRetries + 1) \X Statuses
    BY <1>2, <1>5
  <2>3. CASE responses' = responses
    BY <2>1, <2>3
  <2>4. ASSUME NEW s \in {"ok", "badRequest"}, responses' = responses \cup {<<d, attempt[d], s>>}
        PROVE  responses' \subseteq Call \X (1 .. MaxRetries + 1) \X Statuses
    <3> DEFINE new == {<<d, attempt[d], s>>}
               All == Call \X (1 .. MaxRetries + 1) \X Statuses
    <3>1. responses \subseteq All /\ new \subseteq All /\ responses' = responses \cup new
      BY <2>1, <2>2, <2>4
    <3> HIDE DEF new, All
    <3>2. responses' \subseteq All
      BY <3>1
    <3> QED
      BY <3>2 DEF All
  <2> QED
    BY <2>3, <2>4 DEF Works
<1> QED
  BY <1>8, <1>9, <1>10, <1>11

LEMMA CheckFailsKeeps ==
  ASSUME TypeOK, NEW d \in Call, CallInv(d), NEW p \in ProviderNames, CheckFails(d, p)
  PROVE  TypeOK' /\ CallInv(d)'
<1>1. p \in checks[d] /\ phase[d] = "health"
  BY DEF CheckFails, CallInv, TaskInv
<1>2. Works(d)
  BY <1>1 DEF CheckFails, Works
<1>3. tries[d] \in [ProviderNames -> 0 .. ProviderRetries] /\ ProviderRetries \in Nat
  BY ClientAssumption DEF TypeOK
<1>4. tries'[d] \in [ProviderNames -> 0 .. ProviderRetries]
  <2>1. CASE Retries(d, p)
    <3>1. tries'[d] = [tries[d] EXCEPT ![p] = @ + 1]
      BY <2>1 DEF CheckFails, TypeOK
    <3>2. tries[d][p] + 1 \in 0 .. ProviderRetries
      BY <1>3, <2>1 DEF Retries
    <3> QED
      BY <1>3, <3>1, <3>2
  <2>2. CASE ~Retries(d, p)
    <3>1. tries'[d] = [tries[d] EXCEPT ![p] = 0]
      BY <2>2 DEF CheckFails, TypeOK
    <3> QED
      BY <1>3, <3>1
  <2> QED
    BY <2>1, <2>2
<1>5. TypeOK'
  <2>1. tries' = [tries EXCEPT ![d] = tries'[d]]
    BY DEF CheckFails, TypeOK
  <2>2. tries' \in [Call -> [ProviderNames -> 0 .. ProviderRetries]]
    BY <1>4, <2>1 DEF TypeOK
  <2>3. checks' \in [Call -> SUBSET ProviderNames]
    BY DEF CheckFails, TypeOK
  <2> QED
    BY <2>2, <2>3 DEF TypeOK, CheckFails, client
<1>6. \A q \in ProviderNames \ checks'[d] : tries'[d][q] = 0
  <2>1. CASE Retries(d, p)
    BY <1>1, <1>3, <2>1 DEF CheckFails, TypeOK, CallInv, TaskInv
  <2>2. CASE ~Retries(d, p)
    BY <1>1, <1>3, <2>2 DEF CheckFails, TypeOK, CallInv, TaskInv
  <2> QED
    BY <2>1, <2>2
<1>7. TaskInv(d)'
  BY <1>1, <1>6 DEF CheckFails, client, CallInv, TaskInv
<1> QED
  BY <1>2, <1>5, <1>7, WorkingKeeps DEF CallInv

LEMMA CheckAnsweredKeeps ==
  ASSUME TypeOK, NEW d \in Call, CallInv(d), NEW p \in ProviderNames, NEW ok \in BOOLEAN,
         CheckAnswered(d, p, ok)
  PROVE  TypeOK' /\ CallInv(d)'
<1>1. p \in checks[d] /\ phase[d] = "health"
  BY DEF CheckAnswered, CallInv, TaskInv
<1>2. Works(d)
  BY <1>1 DEF CheckAnswered, Works
<1>3. tries[d] \in [ProviderNames -> 0 .. ProviderRetries] /\ ProviderRetries \in Nat
  BY ClientAssumption DEF TypeOK
<1>4. tries'[d] = [tries[d] EXCEPT ![p] = 0] /\ checks'[d] = checks[d] \ {p}
  BY DEF CheckAnswered, TypeOK
<1>5. TypeOK'
  <2>1. tries' \in [Call -> [ProviderNames -> 0 .. ProviderRetries]]
    BY <1>3, <1>4 DEF CheckAnswered, TypeOK
  <2>2. checks' \in [Call -> SUBSET ProviderNames] /\ healthy' \in [Call -> SUBSET ProviderNames]
    BY DEF CheckAnswered, TypeOK
  <2> QED
    BY <2>1, <2>2 DEF TypeOK, CheckAnswered, client
<1>6. \A q \in ProviderNames \ checks'[d] : tries'[d][q] = 0
  BY <1>1, <1>3, <1>4 DEF CallInv, TaskInv
<1>7. TaskInv(d)'
  BY <1>1, <1>6 DEF CheckAnswered, client, CallInv, TaskInv
<1> QED
  BY <1>2, <1>5, <1>7, WorkingKeeps DEF CallInv

LEMMA ChooseKeeps ==
  ASSUME TypeOK, NEW d \in Call, CallInv(d), NEW p \in ProviderNames, Choose(d, p)
  PROVE  TypeOK' /\ CallInv(d)'
<1>1. Works(d)
  BY DEF Choose, Works
<1>2. TypeOK'
  BY DEF TypeOK, Choose, client
<1>3. phase'[d] = "infer" /\ provider'[d] = p /\ tries[d][p] = 0 /\ asked[d] = 0
  BY DEF Choose, TypeOK, CallInv, TaskInv
<1>4. TaskInv(d)'
  BY <1>3 DEF Choose, client, CallInv, TaskInv
<1> QED
  BY <1>1, <1>2, <1>4, WorkingKeeps DEF CallInv

LEMMA DenyKeeps ==
  ASSUME TypeOK, NEW d \in Call, CallInv(d), NEW s \in Statuses, Deny(d, s)
  PROVE  TypeOK' /\ CallInv(d)'
<1>1. Works(d)
  BY DEF Deny, AnswerTask, Works
<1>2. TypeOK'
  BY <1>1, WorkingKeeps DEF TypeOK, Deny, AnswerTask, client
<1>3. phase'[d] = "done" /\ checks'[d] = {} /\ phase[d] = "health"
  BY DEF Deny, AnswerTask, TypeOK
<1>4. TaskInv(d)'
  BY <1>3 DEF Deny, client, CallInv, TaskInv
<1> QED
  BY <1>1, <1>2, <1>4, WorkingKeeps DEF CallInv

\* While a provider infers, it has asked its backend no more often than it may.
LEMMA InferringAsks ==
  ASSUME TypeOK, NEW d \in Call, CallInv(d), phase[d] = "infer"
  PROVE  /\ provider[d] \in ProviderNames /\ asked[d] = tries[d][provider[d]]
         /\ asked[d] \in 0 .. ProviderRetries /\ asked[d] + 1 \in 0 .. ProviderRetries + 1
BY ClientAssumption DEF TypeOK, CallInv, TaskInv

LEMMA InferKeeps ==
  ASSUME TypeOK, NEW d \in Call, CallInv(d), NEW s \in Statuses, Infer(d, s)
  PROVE  TypeOK' /\ CallInv(d)'
<1>1. Works(d)
  BY DEF Infer, AnswerTask, Works
<1>2. TypeOK'
  BY <1>1, WorkingKeeps, InferringAsks DEF TypeOK, Infer, AnswerTask, client
<1>3. phase'[d] = "done" /\ checks'[d] = {} /\ phase[d] = "infer"
  BY DEF Infer, AnswerTask, TypeOK, CallInv, TaskInv
<1>4. TaskInv(d)'
  BY <1>3 DEF Infer, client, CallInv, TaskInv
<1> QED
  BY <1>1, <1>2, <1>4, WorkingKeeps DEF CallInv

LEMMA InferFailsKeeps ==
  ASSUME TypeOK, NEW d \in Call, CallInv(d), NEW empty \in BOOLEAN, NEW s \in Statuses, InferFails(d, empty, s)
  PROVE  TypeOK' /\ CallInv(d)'
<1>1. Works(d)
  BY DEF InferFails, AnswerTask, Works
<1>2. asked'[d] = asked[d] + 1 /\ asked' \in [Call -> 0 .. ProviderRetries + 1] /\ phase[d] = "infer"
  BY InferringAsks DEF InferFails, TypeOK
<1>3. CASE AnswerTask(d, s) /\ tries' = tries
  <2>1. TypeOK'
    BY <1>1, <1>2, <1>3, WorkingKeeps DEF TypeOK, InferFails, AnswerTask, client
  <2>2. phase'[d] = "done" /\ checks'[d] = {}
    BY <1>2, <1>3 DEF InferFails, AnswerTask, TypeOK, CallInv, TaskInv
  <2>3. TaskInv(d)'
    BY <1>2, <2>2 DEF InferFails, client, CallInv, TaskInv
  <2> QED
    BY <1>1, <2>1, <2>3, WorkingKeeps DEF CallInv
<1>4. CASE /\ Retries(d, provider[d])
           /\ tries' = [tries EXCEPT ![d][provider[d]] = @ + 1] /\ UNCHANGED <<phase, responses>>
  <2>1. /\ tries[d] \in [ProviderNames -> 0 .. ProviderRetries] /\ ProviderRetries \in Nat
        /\ provider[d] \in ProviderNames /\ tries[d][provider[d]] < ProviderRetries
    BY <1>2, <1>4, InferringAsks, ClientAssumption DEF Retries, TypeOK
  <2>2. tries'[d] = [tries[d] EXCEPT ![provider[d]] = @ + 1]
    BY <1>4 DEF TypeOK
  <2>3. tries[d][provider[d]] + 1 \in 0 .. ProviderRetries
    BY <2>1
  <2>4. tries'[d] \in [ProviderNames -> 0 .. ProviderRetries]
    BY <2>1, <2>2, <2>3
  <2>5. tries' \in [Call -> [ProviderNames -> 0 .. ProviderRetries]]
    BY <1>4, <2>4 DEF TypeOK
  <2>6. TypeOK'
    BY <1>2, <1>4, <2>5 DEF TypeOK, InferFails, client
  <2>7. asked'[d] = tries'[d][provider'[d]]
    BY <1>2, <2>1, <2>2, InferringAsks DEF InferFails
  <2>8. TaskInv(d)'
    BY <1>2, <1>4, <2>1, <2>7 DEF InferFails, client, CallInv, TaskInv
  <2> QED
    BY <1>1, <2>6, <2>8, WorkingKeeps DEF CallInv
<1> QED
  BY <1>3, <1>4 DEF InferFails

-----------------------------------------------------------------------------
(* The invariant.                                                          *)

LEMMA TaskKeeps ==
  ASSUME TypeOK, NEW d \in Call, CallInv(d), TaskStep(d) PROVE TypeOK' /\ CallInv(d)'
BY CheckFailsKeeps, CheckAnsweredKeeps, ChooseKeeps, DenyKeeps, InferKeeps, InferFailsKeeps DEF TaskStep

LEMMA ServerKeeps ==
  ASSUME TypeOK, NEW d \in Call, CallInv(d), ServerStep(d) PROVE TypeOK' /\ CallInv(d)'
<1>1. CASE TaskStep(d)
  BY <1>1, TaskKeeps
<1>2. ASSUME NEW a \in 1 .. MaxRetries + 1, StartTask(d, a) PROVE TypeOK' /\ CallInv(d)'
  BY <1>2, StartKeeps
<1>3. ASSUME NEW a \in 1 .. MaxRetries + 1, NEW s \in Statuses,
             Refuse(d, a, s) \/ Reject(d, a, s) \/ Handle(d, a, s)
      PROVE  TypeOK' /\ CallInv(d)'
  BY <1>3, RoutesKeep
<1> QED
  BY <1>1, <1>2, <1>3 DEF ServerStep

LEMMA InitIsGood == Init => IInv
<1>1. SUFFICES ASSUME Init PROVE IInv
  OBVIOUS
<1>2. TypeOK
  BY <1>1, ClientAssumption DEF Init, TypeOK, Statuses
<1>3. ASSUME NEW c \in Call PROVE CallInv(c)
  <2>1. Pending(c) = {}
    BY <1>1 DEF Init, Pending
  <2>2. Cardinality(Pending(c)) = 0
    BY <2>1, FS_EmptySet
  <2>3. ClientInv(c)
    <3>1. pc[c] = "idle" /\ attempt[c] = 0 /\ MaxAttempts(op[c]) \in 1 .. MaxRetries + 1 /\ MaxRetries \in Nat
      BY <1>1, <1>2, Ranges DEF Init
    <3> QED
      BY <3>1 DEF ClientInv
  <2>4. MessageInv(c) /\ WriteInv(c)
    BY <1>1, <2>2 DEF Init, MessageInv, WriteInv
  <2>5. TaskInv(c)
    BY <1>1 DEF Init, TaskInv
  <2> QED
    BY <2>3, <2>4, <2>5 DEF CallInv
<1> QED
  BY <1>2, <1>3 DEF IInv

LEMMA StepIsGood == IInv /\ [Next]_vars => IInv'
<1>1. SUFFICES ASSUME IInv, [Next]_vars PROVE IInv'
  OBVIOUS
<1>2. CASE UNCHANGED vars
  <2>1. TypeOK'
    BY <1>1, <1>2 DEF IInv, TypeOK, vars, client, server
  <2>2. ASSUME NEW c \in Call PROVE CallInv(c)'
    <3>1. Same(c) /\ op' = op
      BY <1>2 DEF vars, client, server, Same
    <3> QED
      BY <1>1, <3>1, SameKeepsCallInv DEF IInv
  <2> QED
    BY <2>1, <2>2 DEF IInv
<1>3. ASSUME NEW d \in Call, ClientStep(d) \/ ServerStep(d) PROVE IInv'
  <2>1. TypeOK' /\ CallInv(d)'
    BY <1>1, <1>3, ClientKeeps, ServerKeeps DEF IInv
  <2>2. ASSUME NEW c \in Call, c # d PROVE CallInv(c)'
    BY <1>1, <1>3, <2>2, OthersStay, SameKeepsCallInv DEF IInv
  <2> QED
    BY <2>1, <2>2 DEF IInv
<1> QED
  BY <1>1, <1>2, <1>3 DEF Next

LEMMA Invariant == Spec => []IInv
BY InitIsGood, StepIsGood, PTL DEF Spec

\* The state of every call has its type, whatever the retries and configurations.
THEOREM TypeCorrect == Spec => []TypeOK
<1>1. IInv => TypeOK
  BY DEF IInv
<1> QED
  BY <1>1, Invariant, PTL

\* The retries of request() and those of the providers do not add up: a write is
\* carried out at most once, and a backend is asked at most as often as its
\* provider alone would ask it.
THEOREM RetriesDoNotMultiply == Spec => []WorkIsBounded
<1>1. IInv => WorkIsBounded
  <2>1. SUFFICES ASSUME IInv, NEW c \in Call
                 PROVE  (op[c].method # "GET" => handled[c] <= 1) /\ asked[c] <= ProviderRetries + 1
    BY DEF WorkIsBounded
  <2>2. asked[c] \in 0 .. ProviderRetries + 1 /\ ProviderRetries \in Nat
    BY <2>1, Ranges DEF IInv
  <2>3. op[c].method # "GET" => handled[c] <= 1
    BY <2>1, WriteIsHandledOnce DEF IInv
  <2> QED
    BY <2>2, <2>3
<1> QED
  BY <1>1, Invariant, PTL

\* What request() returns or throws as an answer is the server's answer to its
\* last attempt; a write that is said not to be allowed or found was not done.
THEOREM AnswersAreTrue == Spec => []ResultIsTruthful
<1>1. IInv => ResultIsTruthful
  <2>1. SUFFICES ASSUME IInv, NEW c \in Call, pc[c] = "returned", result[c] \in Statuses
                 PROVE  /\ <<c, attempt[c], result[c]>> \in responses
                        /\ result[c] \in NothingDone /\ op[c].method # "GET" => handled[c] = 0
    BY DEF ResultIsTruthful, NothingDone
  <2>2. <<c, attempt[c], result[c]>> \in responses
    BY <2>1 DEF IInv, CallInv, ClientInv
  <2>3. attempt[c] \in 1 .. MaxRetries + 1
    BY <2>1, <2>2 DEF IInv, TypeOK
  <2> QED
    BY <2>1, <2>2, <2>3 DEF IInv, CallInv, WriteInv
<1> QED
  BY <1>1, Invariant, PTL
=============================================================================
