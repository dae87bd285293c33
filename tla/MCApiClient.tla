---------------------------- MODULE MCApiClient -----------------------------
(* One call of each of a few operations, on servers of three configurations. *)
EXTENDS ApiClient

CONSTANT c1

MCUsed == TasksNamespace \cup {o \in SharesNamespace \cup AgentsNamespace :
                                 o.op \in {"shares.get", "agents.get", "agents.update", "agents.create"}}

AllProviders == [enabled |-> {"mobileNpu", "vllm", "llamaCpp", "cloud"},
                 toggles |-> {"mobileNpu", "vllm", "cloud"},
                 endpoints |-> {"vllm", "llamaCpp"}, private |-> FALSE, apiKey |-> TRUE]

MCConfigs == {AllProviders,
              [AllProviders EXCEPT !.enabled = {"litellm", "cloud"}, !.toggles = {"litellm", "cloud"},
                                   !.endpoints = {"litellm"}, !.apiKey = FALSE],
              [AllProviders EXCEPT !.private = TRUE, !.endpoints = {}]}
=============================================================================
