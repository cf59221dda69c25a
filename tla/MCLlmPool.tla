----------------------------- MODULE MCLlmPool -----------------------------
(* Small instances of LlmPool for TLC.  The model "flash" has local         *)
(* backends and a mapping, "emb" a local backend only, "big" a mapping only; *)
(* "up/flash" and "up/big" are their names at OpenRouter.                    *)
EXTENDS LlmPool

CONSTANTS b1, b2, r1, r2

MCOpenRouterMap ==
    [m \in {"flash", "big", "claude"} |->
       CASE m = "flash" -> "up/flash" [] m = "big" -> "up/big" [] m = "claude" -> "claude"]
MCAdvertised ==
    [b \in {b1, b2, OpenRouter} |->
       CASE b = b1 -> {"flash", "emb"} [] b = b2 -> {"flash"}
         [] OTHER -> {"up/flash", "up/big", "claude"}]

NoKeys == [k \in {} |-> 0]
Url(b, keys) ==
    [url |-> b, keys |-> [k \in Keys |-> IF k \in DOMAIN keys THEN keys[k] ELSE Bad]]
Waiting == [fam |-> "waiting", val |-> 2]
Capacity == [fam |-> "capacity", val |-> 1]
Tokens(n) == [fam |-> "vllm_tokens", val |-> n]

MCBase ==
    [roster |-> <<[model |-> "flash", urls |-> <<Url(b1, NoKeys)>>]>>,
     primary |-> << >>, federate |-> "off", openrouter |-> TRUE,
     asks |-> [r \in Requests |-> {}],
     metrics |-> {<<Waiting, Capacity>>}]

(* One backend and two requests that race on its circuit breaker. *)
MCRace ==
    [MCBase EXCEPT
       !.asks = [r \in Requests |-> {<<"embeddings", FALSE>>}]]

(* One backend without /metrics and one stream, hedged where its model may. *)
MCAlone ==
    [MCBase EXCEPT
       !.roster = <<[model |-> "flash", urls |-> <<Url(b1, NoKeys)>>],
                    [model |-> "emb", urls |-> <<Url(b1, NoKeys)>>]>>,
       !.metrics = {},
       !.asks = [r \in Requests |-> IF r = r1 THEN {<<"chat", TRUE>>} ELSE {}]]

(* Two backends, one with a short-prompt preference, whose engines have no *)
(* /metrics, and one request.                                              *)
MCTwoBackends ==
    [MCBase EXCEPT
       !.roster = <<[model |-> "flash",
                     urls |-> <<Url(b1, [tier |-> 10]),
                                Url(b2, [tier |-> 10, short_tier |-> 1, short_roof |-> 1])>>],
                    [model |-> "emb", urls |-> <<Url(b1, NoKeys)>>]>>,
       !.metrics = {},
       !.asks = [r \in Requests |-> IF r = r1 THEN {<<"chat", FALSE>>, <<"speech", FALSE>>}
                                    ELSE {}]]

(* Two tiers without /metrics, the fallback URL one of the roster's, and the *)
(* model list.                                                            *)
MCTiers ==
    [MCBase EXCEPT
       !.roster = <<[model |-> "flash", urls |-> <<Url(b2, [tier |-> 1]), Url(b1, NoKeys)>>]>>,
       !.primary = <<Url(b2, NoKeys)>>,
       !.metrics = {},
       !.asks = [r \in Requests |-> IF r = r1 THEN {<<"completions", FALSE>>, <<"models", FALSE>>,
                                                    <<"transcriptions", FALSE>>}
                                    ELSE {}]]

(* No OpenRouter and one URL: the model list has one base. *)
MCOneBase ==
    [MCBase EXCEPT
       !.roster = << >>, !.primary = <<Url(b1, [tier |-> Bad, max_concurrency |-> 2])>>,
       !.openrouter = FALSE,
       !.asks = [r \in Requests |-> IF r = r1 THEN {<<"messages", FALSE>>, <<"models", FALSE>>}
                                    ELSE {}]]

(* /v1 forwarded to a peer, or to one that is not configured. *)
MCFederated(f) ==
    [MCBase EXCEPT
       !.federate = f,
       !.asks = [r \in Requests |-> IF r = r2 THEN {} ELSE
                                    {<<"chat", TRUE>>, <<"chat", FALSE>>, <<"speech", FALSE>>,
                                     <<"models", FALSE>>}]]

(* A backend whose engine counts tokens, and restarts its count. *)
MCSampled ==
    [MCBase EXCEPT
       !.metrics = {<<Tokens(5), [fam |-> "success", val |-> 1]>>, <<Tokens(1)>>}]

MCConfigs ==
    [name \in {"race", "alone", "two", "tiers", "base", "peer", "lost", "sampled"} |->
       CASE name = "race" -> MCRace [] name = "alone" -> MCAlone
         [] name = "two" -> MCTwoBackends
         [] name = "tiers" -> MCTiers [] name = "base" -> MCOneBase
         [] name = "peer" -> MCFederated("peer") [] name = "lost" -> MCFederated("unknown")
         [] name = "sampled" -> MCSampled]
=============================================================================
