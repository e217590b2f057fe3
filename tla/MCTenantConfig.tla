--------------------------- MODULE MCTenantConfig ---------------------------
(* Instances of TenantConfig for TLC.                                      *)
EXTENDS TenantConfig, TLC

Step(p, m, on) == [provider |-> p, model |-> m, enabled |-> on]

(* One provider and then the other, and two steps that share a name.       *)
MCChains == {<<Step("openai", "x", TRUE)>>,
             <<Step("minimax", "x", TRUE), Step("openai", "x", TRUE)>>}
MCPosts == {[key |-> "k1", model |-> NULL, enabled |-> TRUE],
            [key |-> "k2", model |-> "m", enabled |-> TRUE]}
MCPatches == {"model" :> NULL, "enabled" :> FALSE}
MCEnv == <<Step("minimax", "y", TRUE)>>
=============================================================================
