----------------------------- MODULE ApiClient ------------------------------
(***************************************************************************)
(* A call of the SDK (sdk/client.ts) from end to end: the client's         *)
(* attempts, the server's handling of each request that reaches it, and,   *)
(* for a task, the provider's own attempts to get it done by its backend   *)
(* (providers.ts).  The client retries reads only; the providers retry     *)
(* whatever they send.                                                     *)
(*                                                                         *)
(* A request or a response that is never taken is lost; one that is taken  *)
(* after the client's timer has fired is late.  The server goes on with a  *)
(* request whose client has given up.                                      *)
(***************************************************************************)
EXTENDS Naturals

CONSTANTS Call,
          Used,             \* the operations that are called
          MaxRetries,       \* of the client
          ProviderRetries,  \* of the providers
          Configs           \* the configurations the server may start with

ASSUME ClientAssumption == MaxRetries \in Nat /\ ProviderRetries \in Nat

Op(name, method, auth) == [op |-> name, method |-> method, auth |-> auth]

SawyerClient == {Op("health", "GET", FALSE), Op("status", "GET", TRUE), Op("me", "GET", TRUE)}
TasksNamespace == {Op("tasks.run", "POST", TRUE)}
ProvidersNamespace == {Op("providers.list", "GET", TRUE)}
AgentsNamespace ==
  {Op("agents.create", "POST", TRUE), Op("agents.list", "GET", TRUE), Op("agents.get", "GET", TRUE),
   Op("agents.update", "PATCH", TRUE), Op("agents.delete", "DELETE", TRUE)}
SharesNamespace ==
  {Op("shares.create", "POST", TRUE), Op("shares.get", "GET", FALSE), Op("shares.listMine", "GET", TRUE)}
ApiKeysNamespace ==
  {Op("apiKeys.create", "POST", TRUE), Op("apiKeys.list", "GET", TRUE), Op("apiKeys.revoke", "DELETE", TRUE)}

Operations == SawyerClient \cup TasksNamespace \cup ProvidersNamespace \cup AgentsNamespace
              \cup SharesNamespace \cup ApiKeysNamespace

ASSUME UsedAssumption == Used \subseteq Operations

\* Error statuses, as the client tells them apart.
ClientErrors == {"unauthorized", "notFound", "quota", "badRequest"}
ServerErrors == {"serverError", "unavailable"}
Statuses     == {"ok"} \cup ClientErrors \cup ServerErrors

ProviderNames == {"mobileNpu", "vllm", "litellm", "llamaCpp", "cloud"}
OpenAiCompatible == {"vllm", "litellm"}
Servers == OpenAiCompatible \cup {"llamaCpp"}  \* those that a request goes out to

ASSUME ConfigAssumption == \A cfg \in Configs : cfg.enabled \subseteq ProviderNames

\* createProvidersFromConfig: the toggles, endpoints and the private mode that
\* let an enabled provider in.
ProvidersOf(cfg) ==
  {p \in cfg.enabled : /\ p # "llamaCpp" => p \in cfg.toggles
                       /\ p \in Servers => p \in cfg.endpoints
                       /\ p = "cloud" => ~cfg.private}

VARIABLES config,
          pc, op, attempt,
          status,     \* of the response whose body the client reads
          result,     \* what the call returns or throws; "failed": neither of Statuses
          requests,   \* <<call, attempt>> on the way to the server
          responses,  \* <<call, attempt, status>> on the way back
          phase,      \* of the run of a task on the server
          checks,     \* the providers whose health check is under way
          healthy,    \* those that have passed it
          provider,   \* the one chosen to infer
          tries,      \* attempts, of each provider, at what it is doing
          handled,    \* how often the server has carried out the operation
          asked       \* how often the provider has asked its backend to infer

client == <<pc, op, attempt, status, result>>
server == <<phase, checks, healthy, provider, tries, handled, asked>>
vars   == <<config, client, requests, responses, server>>

\* Mutant of MaxAttempts: every method is retried.
MaxAttemptsOfAny(o) == MaxRetries + 1

MaxAttempts(o) == IF o.method = "GET" THEN MaxRetries + 1 ELSE 1

Init ==
  /\ config \in Configs
  /\ pc = [c \in Call |-> "idle"]
  /\ op \in [Call -> Used]
  /\ attempt = [c \in Call |-> 0]
  /\ status = [c \in Call |-> "ok"]
  /\ result = [c \in Call |-> "none"]
  /\ requests = {} /\ responses = {}
  /\ phase = [c \in Call |-> "none"]
  /\ checks = [c \in Call |-> {}] /\ healthy = [c \in Call |-> {}]
  /\ provider = [c \in Call |-> "none"]
  /\ tries = [c \in Call |-> [p \in ProviderNames |-> 0]]
  /\ handled = [c \in Call |-> 0]
  /\ asked = [c \in Call |-> 0]

-----------------------------------------------------------------------------
(* The client: SawyerClient.request().                                     *)

Send(c) ==
  /\ pc[c] \in {"idle", "backoff"}
  /\ attempt' = [attempt EXCEPT ![c] = @ + 1]
  /\ pc' = [pc EXCEPT ![c] = "sent"]
  /\ requests' = requests \cup {<<c, attempt[c] + 1>>}
  /\ UNCHANGED <<config, op, status, result, responses, server>>

\* The end of an attempt that failed with the error e.
AttemptFails(c, e) ==
  /\ result' = [result EXCEPT ![c] = e]
  /\ pc' = [pc EXCEPT ![c] =
              IF e \in ClientErrors \/ attempt[c] >= MaxAttempts(op[c]) THEN "returned" ELSE "backoff"]

\* Mutant of Timeout: the timer is set before the loop, for the first attempt.
TimeoutOfFirst(c) ==
  /\ pc[c] = "sent" /\ attempt[c] = 1
  /\ AttemptFails(c, "failed")
  /\ UNCHANGED <<config, op, attempt, status, requests, responses, server>>

\* The timer fires, or the connection breaks, before there is a status.
Timeout(c) ==
  /\ pc[c] = "sent"
  /\ AttemptFails(c, "failed")
  /\ UNCHANGED <<config, op, attempt, status, requests, responses, server>>

\* Mutant of Headers: the answer to an earlier attempt is taken for this one's.
HeadersOfAnyAttempt(c, s) ==
  /\ pc[c] = "sent"
  /\ \E a \in 1 .. attempt[c] : <<c, a, s>> \in responses
  /\ pc' = [pc EXCEPT ![c] = "body"]
  /\ status' = [status EXCEPT ![c] = s]
  /\ UNCHANGED <<config, op, attempt, result, requests, responses, server>>

\* The status is there.  The timer is cleared: the body has no limit of time.
\* A response to an attempt that was aborted is not looked at.
Headers(c, s) ==
  /\ pc[c] = "sent"
  /\ <<c, attempt[c], s>> \in responses
  /\ pc' = [pc EXCEPT ![c] = "body"]
  /\ status' = [status EXCEPT ![c] = s]
  /\ UNCHANGED <<config, op, attempt, result, requests, responses, server>>

\* The body ends, as JSON or not.  When the body of an error is not JSON, the
\* attempt to read it again as text throws, so that its status is lost.
ReadBody(c, json) ==
  /\ pc[c] = "body"
  /\ IF status[c] = "ok" /\ json
     THEN /\ result' = [result EXCEPT ![c] = "ok"]
          /\ pc' = [pc EXCEPT ![c] = "returned"]
     ELSE AttemptFails(c, IF json THEN status[c] ELSE "failed")
  /\ UNCHANGED <<config, op, attempt, status, requests, responses, server>>

-----------------------------------------------------------------------------
(* The server: the routes of createApiRouter().                            *)

\* The request is taken, and answered with s at once.
Answer(c, a, s) ==
  /\ <<c, a>> \in requests
  /\ requests' = requests \ {<<c, a>>}
  /\ responses' = responses \cup {<<c, a, s>>}

\* tenantGuard turns the request away, before anything is done.
Refuse(c, a, s) ==
  /\ op[c].auth /\ s \in {"unauthorized", "quota", "serverError"}
  /\ Answer(c, a, s)
  /\ UNCHANGED <<config, client, server>>

\* What a route answers without having done anything: the item is not there, or
\* the body is not what the route wants.
Rejections(o) ==
  (IF o.op \in {"me", "agents.get", "agents.update", "agents.delete", "shares.get"} THEN {"notFound"} ELSE {})
  \cup (IF o.op \in {"tasks.run", "apiKeys.create"} THEN {"badRequest"} ELSE {})

Reject(c, a, s) ==
  /\ s \in Rejections(op[c])
  /\ Answer(c, a, s)
  /\ UNCHANGED <<config, client, server>>

\* What a route answers when it has done its work: a share that wants another
\* password has counted the view all the same.
Completions(o) == {"ok"} \cup (IF o.op = "shares.get" THEN {"badRequest"} ELSE {})

Handle(c, a, s) ==
  /\ op[c].op # "tasks.run" /\ s \in Completions(op[c])
  /\ Answer(c, a, s)
  /\ handled' = [handled EXCEPT ![c] = @ + 1]
  /\ UNCHANGED <<config, client, phase, checks, healthy, provider, tries, asked>>

\* POST /tasks: all providers are asked for their health.
StartTask(c, a) ==
  /\ op[c].op = "tasks.run" /\ <<c, a>> \in requests
  /\ requests' = requests \ {<<c, a>>}
  /\ phase' = [phase EXCEPT ![c] = "health"]
  /\ checks' = [checks EXCEPT ![c] = ProvidersOf(config)]
  /\ handled' = [handled EXCEPT ![c] = @ + 1]
  /\ UNCHANGED <<config, client, responses, healthy, provider, tries, asked>>

\* Whether provider p, whose attempt has failed, makes another.
Retries(c, p) ==
  /\ tries[c][p] < ProviderRetries
  /\ \/ p \in OpenAiCompatible
     \/ p = "llamaCpp" /\ phase[c] = "infer"

\* An attempt of a health check fails; the check ends with the last one.
CheckFails(c, p) ==
  /\ p \in checks[c] \cap Servers
  /\ IF Retries(c, p)
     THEN /\ tries' = [tries EXCEPT ![c][p] = @ + 1]
          /\ checks' = checks
     ELSE /\ checks' = [checks EXCEPT ![c] = @ \ {p}]
          /\ tries' = [tries EXCEPT ![c][p] = 0]
  /\ UNCHANGED <<config, client, requests, responses, phase, healthy, provider, handled, asked>>

\* healthCheck() answers: a server with no models is not healthy, nor is the
\* cloud without a key; the mobile NPU always is.
CheckAnswered(c, p, ok) ==
  /\ p \in checks[c]
  /\ p = "mobileNpu" => ok
  /\ p = "cloud" => ok = config.apiKey
  /\ checks' = [checks EXCEPT ![c] = @ \ {p}]
  /\ healthy' = [healthy EXCEPT ![c] = IF ok THEN @ \cup {p} ELSE @]
  /\ tries' = [tries EXCEPT ![c][p] = 0]
  /\ UNCHANGED <<config, client, requests, responses, phase, provider, handled, asked>>

\* All checks are in: the policy and the scores choose p among the healthy.
Choose(c, p) ==
  /\ phase[c] = "health" /\ checks[c] = {}
  /\ p \in healthy[c]
  /\ provider' = [provider EXCEPT ![c] = p]
  /\ phase' = [phase EXCEPT ![c] = "infer"]
  /\ UNCHANGED <<config, client, requests, responses, checks, healthy, tries, handled, asked>>

\* POST /tasks is answered: with 200 though the run was denied or has failed, and
\* with 400 though it is done, when the graph throws after it (a limit of usage).
AnswerTask(c, s) ==
  /\ s \in {"ok", "badRequest"}
  /\ phase' = [phase EXCEPT ![c] = "done"]
  /\ responses' = responses \cup {<<c, attempt[c], s>>}

\* No provider may be chosen: the run is denied.
Deny(c, s) ==
  /\ phase[c] = "health" /\ checks[c] = {}
  /\ AnswerTask(c, s)
  /\ UNCHANGED <<config, client, requests, checks, healthy, provider, tries, handled, asked>>

\* An attempt of runInference() comes to nothing.  An empty answer is an error
\* that llama.cpp tries again, and the others do not.
InferFails(c, empty, s) ==
  /\ phase[c] = "infer" /\ provider[c] \in Servers
  /\ asked' = [asked EXCEPT ![c] = @ + 1]
  /\ IF Retries(c, provider[c]) /\ ~(empty /\ provider[c] \in OpenAiCompatible)
     THEN /\ tries' = [tries EXCEPT ![c][provider[c]] = @ + 1]
          /\ UNCHANGED <<phase, responses>>
     ELSE AnswerTask(c, s) /\ tries' = tries
  /\ UNCHANGED <<config, client, requests, checks, healthy, provider, handled>>

Infer(c, s) ==
  /\ phase[c] = "infer"
  /\ asked' = [asked EXCEPT ![c] = @ + 1]
  /\ AnswerTask(c, s)
  /\ UNCHANGED <<config, client, requests, checks, healthy, provider, tries, handled>>

-----------------------------------------------------------------------------
ClientStep(c) ==
  \/ Send(c) \/ Timeout(c)
  \/ \E s \in Statuses : Headers(c, s)
  \/ \E json \in BOOLEAN : ReadBody(c, json)

TaskStep(c) ==
  \/ \E p \in ProviderNames : CheckFails(c, p) \/ Choose(c, p)
  \/ \E p \in ProviderNames, ok \in BOOLEAN : CheckAnswered(c, p, ok)
  \/ \E s \in Statuses : Deny(c, s) \/ Infer(c, s)
  \/ \E empty \in BOOLEAN, s \in Statuses : InferFails(c, empty, s)

ServerStep(c) ==
  \/ \E a \in 1 .. MaxRetries + 1 :
       \/ StartTask(c, a)
       \/ \E s \in Statuses : Refuse(c, a, s) \/ Reject(c, a, s) \/ Handle(c, a, s)
  \/ TaskStep(c)

Next == \E c \in Call : ClientStep(c) \/ ServerStep(c)

Spec == Init /\ [][Next]_vars

\* The timers of the client and of the providers fire; a request need not reach
\* the server.  That the body of a response ends is an assumption of its own: no
\* timer runs while the client reads it.
TimersFire ==
  \A c \in Call : /\ WF_vars(Send(c))
                  /\ WF_vars(Timeout(c) \/ \E s \in Statuses : Headers(c, s))
                  /\ WF_vars(TaskStep(c))
BodiesEnd == \A c \in Call : WF_vars(\E json \in BOOLEAN : ReadBody(c, json))

TimerSpec == Spec /\ TimersFire
FairSpec  == TimerSpec /\ BodiesEnd

-----------------------------------------------------------------------------
TypeOK ==
  /\ config \in Configs
  /\ pc \in [Call -> {"idle", "sent", "body", "backoff", "returned"}]
  /\ op \in [Call -> Used]
  /\ attempt \in [Call -> 0 .. MaxRetries + 1]
  /\ status \in [Call -> Statuses]
  /\ result \in [Call -> Statuses \cup {"none", "failed"}]
  /\ requests \subseteq Call \X (1 .. MaxRetries + 1)
  /\ responses \subseteq Call \X (1 .. MaxRetries + 1) \X Statuses
  /\ phase \in [Call -> {"none", "health", "infer", "done"}]
  /\ checks \in [Call -> SUBSET ProviderNames] /\ healthy \in [Call -> SUBSET ProviderNames]
  /\ provider \in [Call -> ProviderNames \cup {"none"}]
  /\ tries \in [Call -> [ProviderNames -> 0 .. ProviderRetries]]
  /\ handled \in [Call -> 0 .. MaxRetries + 1] /\ asked \in [Call -> 0 .. ProviderRetries + 1]

\* However the client's retries meet those of the provider, and whether or not
\* the client waits: a write is carried out at most once, and a task is put to a
\* backend at most as often as the provider alone would.
WorkIsBounded ==
  \A c \in Call :
    /\ op[c].method # "GET" => handled[c] <= 1
    /\ asked[c] <= ProviderRetries + 1

\* What a call returns, the server has said, and of the last attempt; and when it
\* says of a write that it may not or cannot be done, then nothing was done.
ResultIsTruthful ==
  \A c \in Call :
    pc[c] = "returned" /\ result[c] \in Statuses =>
      /\ <<c, attempt[c], result[c]>> \in responses
      /\ result[c] \in {"unauthorized", "quota", "notFound"} /\ op[c].method # "GET" => handled[c] = 0

\* Every call returns or throws, with lost requests and silent backends too, and
\* the server comes to an end with every task.
EveryCallReturns ==
  \A c \in Call : /\ <>(pc[c] = "returned")
                  /\ phase[c] = "health" ~> phase[c] = "done"
=============================================================================
