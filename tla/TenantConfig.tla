---------------------------- MODULE TenantConfig ----------------------------
(***************************************************************************)
(* The LLM configuration of one tenant: the provider rows and the fallback *)
(* chain the admin API writes, the audit log kept with them, and the two   *)
(* caches of the API process through which a request gets its resolver.    *)
(*                                                                         *)
(* An admin request is a transaction: what it reads first and what it      *)
(* writes last are separate steps, and from the writing statement to the   *)
(* commit it holds the row's lock.  A builder is a request that needs a    *)
(* resolver; it awaits the database up to twice between the lookup in the  *)
(* cache and the store into it.                                            *)
(*                                                                         *)
(* base_url is written, cleared and diffed exactly as model is, and model  *)
(* stands for both.  Expiry may come at any time and stands for the time   *)
(* to live and for the eviction of the least recently used tenant.         *)
(***************************************************************************)
EXTENDS Integers, Sequences, FiniteSets

CONSTANTS
    Admins,        \* requests to the admin API that may overlap
    Builders,      \* requests that need a resolver
    Providers,     \* provider names a row may carry
    Keys,          \* api keys, told apart by their sha256
    Models,        \* model names a row may pin
    Posts,         \* the rows a POST sends
    Patches,       \* the fields a PATCH sends; a sent NULL clears the model
    ChainPayloads, \* the step lists an administrator sends
    EnvChain,      \* LLM_FALLBACK_CHAIN, parsed
    Registered,    \* providers of the deployment's own registry
    Required,      \* LLM_TENANT_FALLBACK_CHAIN_REQUIRED
    MaxOps,        \* how many admin requests are sent (a bound)
    MaxFaults,     \* how many chain reads may fail (a bound)
    NULL

(* A tenant_llm_configs row, without its tenant and provider.              *)
TenantLLMConfig == [key : Keys, model : Models \cup {NULL}, enabled : BOOLEAN]

ASSUME ConfigAssumption ==
    /\ MaxOps \in Nat /\ MaxFaults \in Nat
    /\ Required \in BOOLEAN
    /\ NULL \notin Models \cup Keys \cup TenantLLMConfig
    /\ Posts \subseteq TenantLLMConfig
    /\ \A r \in Patches :
          /\ DOMAIN r \in SUBSET {"model", "enabled"}
          /\ "model" \in DOMAIN r => r.model \in Models \cup {NULL}
          /\ "enabled" \in DOMAIN r => r.enabled \in BOOLEAN

VARIABLES
    rows,        \* tenant_llm_configs: a row or NULL for each provider
    audit,       \* tenant_llm_config_audit_log
    chainRow,    \* the tenant_fallback_chains row, or NULL
    runtime,     \* RuntimeChain._steps
    cache,       \* TenantLLMConfigCache: the tenant's resolver, or NULL
    chainCache,  \* TenantFallbackChainCache: the tenant's chain, or NULL
    admin,       \* the local state of each admin request
    builder,     \* the local state of each builder
    clock,       \* transaction time: the requests begun so far
    faults,      \* chain reads that failed
    raced        \* ghost: providers two requests have worked on at once

configVars == <<rows, audit, chainRow, runtime, cache, chainCache, admin,
                builder, clock, faults, raced>>
tables == <<rows, audit, chainRow>>
caches == <<runtime, cache, chainCache>>

Fields == {"key", "model", "enabled"}
IdleAdmin == [pc |-> "idle", op |-> NULL, provider |-> NULL, payload |-> NULL,
              old |-> NULL, oldKey |-> NULL, at |-> 0]
IdleBuilder == [pc |-> "idle", rows |-> NULL, chain |-> NULL]

ConfigInit ==
    /\ rows = [p \in Providers |-> NULL]
    /\ audit = {}
    /\ chainRow = NULL
    /\ runtime = <<>> /\ cache = NULL /\ chainCache = NULL
    /\ admin = [a \in Admins |-> IdleAdmin]
    /\ builder = [b \in Builders |-> IdleBuilder]
    /\ clock = 0 /\ faults = 0 /\ raced = {}

-----------------------------------------------------------------------------
(* The audit log.  changed_at is the default now(), which is the time the  *)
(* transaction began, not the time it wrote.                               *)

EntriesOf(p, f) == {e \in audit : e.provider = p /\ e.field = f}

(* latest_field_value: the newest entry's new_value.                       *)
LatestValue(p, f) ==
    IF EntriesOf(p, f) = {} THEN NULL
    ELSE (CHOOSE e \in EntriesOf(p, f) :
              \A d \in EntriesOf(p, f) : d.at <= e.at).new

(* Mutant: fields whose value is not new are left out of an insert too.    *)
diff_upsert_SkipsEmpty(is_insert, fields, old, oldKey, new, keySent) ==
    {<<f, old[f], new[f]>> : f \in {g \in fields : new[g] # NULL /\ g # "key"
                                         /\ (is_insert \/ old[g] # new[g])}}
    \cup (IF keySent /\ (is_insert \/ oldKey # new.key)
          THEN {<<"key", oldKey, new.key>>} ELSE {})

(* _diff_upsert: the fields that were sent and differ, or all of them for  *)
(* an insert; the key is compared with the newest key in the log.          *)
diff_upsert(is_insert, fields, old, oldKey, new, keySent) ==
    {<<f, old[f], new[f]>> : f \in {g \in fields \ {"key"} :
                                         is_insert \/ old[g] # new[g]}}
    \cup (IF keySent /\ (is_insert \/ oldKey # new.key)
          THEN {<<"key", oldKey, new.key>>} ELSE {})

(* insert_many, in the transaction of the write.                           *)
insert_many(p, diffs, at) ==
    audit' = audit \cup
        {[provider |-> p, field |-> d[1], old |-> d[2], new |-> d[3],
          at |-> at] : d \in diffs}

-----------------------------------------------------------------------------
(* The provider rows.                                                      *)

NoRow == [f \in Fields |-> NULL]

(* What the log stores of a row: enabled goes through str().               *)
str(b) == IF b THEN "True" ELSE "False"
Shown(r) == IF r = NULL THEN NoRow ELSE [r EXCEPT !.enabled = str(r.enabled)]

(* get_by_tenant_provider_for_provider: the first statement of an admin    *)
(* transaction; the values are copied before the write.                    *)
BeginOn(a, op, p, payload) ==
    /\ admin[a].pc = "idle" /\ clock < MaxOps
    /\ admin' = [admin EXCEPT ![a] =
           [pc |-> IF op = "post" THEN "key" ELSE "write", op |-> op,
            provider |-> p, payload |-> payload,
            old |-> rows[p], oldKey |-> NULL, at |-> clock]]
    /\ clock' = clock + 1
    /\ raced' = IF \E o \in Admins \ {a} : admin[o].provider = p
                THEN raced \cup {p} ELSE raced
    /\ UNCHANGED <<tables, caches, builder, faults>>

(* create_or_update_tenant_llm_config.                                     *)
PostConfig(a) ==
    \E p \in Providers, r \in Posts : BeginOn(a, "post", p, r)

(* The upsert looks up the newest key of the log in a second statement.    *)
ReadLatestKey(a) ==
    /\ admin[a].pc = "key"
    /\ admin' = [admin EXCEPT ![a].pc = "write",
                     ![a].oldKey = LatestValue(admin[a].provider, "key")]
    /\ UNCHANGED <<tables, caches, builder, clock, faults, raced>>

(* INSERT ... ON CONFLICT DO UPDATE.                                       *)
upsert(p, r) == rows' = [rows EXCEPT ![p] = r]

(* The upsert of the admin repository: the row and its audit entries in    *)
(* one transaction.                                                        *)
CommitPost(a) ==
    LET s == admin[a] IN
    /\ s.pc = "write" /\ s.op = "post"
    /\ upsert(s.provider, s.payload)
    /\ insert_many(s.provider,
           diff_upsert(s.old = NULL, Fields, Shown(s.old), s.oldKey,
                       Shown(s.payload), TRUE), s.at)
    /\ admin' = [admin EXCEPT ![a] = IdleAdmin]
    /\ UNCHANGED <<chainRow, caches, builder, clock, faults, raced>>

(* patch_tenant_llm_config: a row that is missing is answered 404.         *)
PatchConfig(a) ==
    \E p \in Providers, r \in Patches :
        rows[p] # NULL /\ BeginOn(a, "patch", p, r)

(* UPDATE ... RETURNING: the fields that were sent, on the row as it is    *)
(* now; no row, nothing written.                                           *)
update(p, r) ==
    rows' = [rows EXCEPT ![p] =
                 [f \in Fields |-> IF f \in DOMAIN r THEN r[f] ELSE rows[p][f]]]

(* The update of the admin repository.  A row deleted since is a rollback. *)
CommitPatch(a) ==
    LET s == admin[a] IN
    /\ s.pc = "write" /\ s.op = "patch"
    /\ IF rows[s.provider] = NULL THEN UNCHANGED tables
       ELSE /\ update(s.provider, s.payload)
            /\ insert_many(s.provider,
                   diff_upsert(FALSE, DOMAIN s.payload, Shown(s.old), NULL,
                               Shown(rows'[s.provider]), FALSE), s.at)
            /\ UNCHANGED chainRow
    /\ admin' = [admin EXCEPT ![a] = IdleAdmin]
    /\ UNCHANGED <<caches, builder, clock, faults, raced>>

(* delete_tenant_llm_config: a missing row is a success that does nothing. *)
DeleteConfig(a) ==
    \E p \in Providers : rows[p] # NULL /\ BeginOn(a, "delete", p, NULL)

(* delete_by_tenant_provider.                                              *)
remove(p) == rows' = [rows EXCEPT ![p] = NULL]

(* Mutant: the row is deleted without an audit entry.                      *)
CommitDelete_Unlogged(a) ==
    /\ admin[a].pc = "write" /\ admin[a].op = "delete"
    /\ remove(admin[a].provider)
    /\ admin' = [admin EXCEPT ![a] = IdleAdmin]
    /\ UNCHANGED <<audit, chainRow, caches, builder, clock, faults, raced>>

CommitDelete(a) ==
    LET s == admin[a] IN
    /\ s.pc = "write" /\ s.op = "delete"
    /\ IF rows[s.provider] = NULL THEN UNCHANGED tables
       ELSE /\ remove(s.provider)
            /\ insert_many(s.provider, {<<"deleted", s.provider, NULL>>}, s.at)
            /\ UNCHANGED chainRow
    /\ admin' = [admin EXCEPT ![a] = IdleAdmin]
    /\ UNCHANGED <<caches, builder, clock, faults, raced>>

-----------------------------------------------------------------------------
(* The chains.                                                             *)

EnabledSteps(steps) == SelectSeq(steps, LAMBDA s : s.enabled)

(* _validate_steps: known providers, and one step that is enabled.         *)
ValidSteps(steps) ==
    /\ EnabledSteps(steps) # <<>>
    /\ \A i \in DOMAIN steps : steps[i].provider \in Providers

(* TenantFallbackChainRepository.upsert: INSERT ... ON CONFLICT, one row   *)
(* for the tenant.                                                         *)
upsert_chain(steps, on) == chainRow' = [steps |-> steps, enabled |-> on]

(* upsert_tenant_fallback_chain: the row is committed ...                  *)
UpsertChain(a) ==
    /\ admin[a].pc = "idle" /\ clock < MaxOps
    /\ \E steps \in ChainPayloads, on \in BOOLEAN :
           /\ ValidSteps(steps)
           /\ upsert_chain(steps, on)
    /\ admin' = [admin EXCEPT ![a].pc = "invalidate"]
    /\ clock' = clock + 1
    /\ UNCHANGED <<rows, audit, caches, builder, faults, raced>>

(* delete_tenant_fallback_chain.                                           *)
DeleteChain(a) ==
    /\ admin[a].pc = "idle" /\ clock < MaxOps /\ chainRow # NULL
    /\ chainRow' = NULL
    /\ admin' = [admin EXCEPT ![a].pc = "invalidate"]
    /\ clock' = clock + 1
    /\ UNCHANGED <<rows, audit, caches, builder, faults, raced>>

(* ... and when the handler runs again it drops the cached chain; nothing  *)
(* drops the cached resolver.                                              *)
InvalidateChain(a) ==
    /\ admin[a].pc = "invalidate"
    /\ chainCache' = NULL
    /\ admin' = [admin EXCEPT ![a] = IdleAdmin]
    /\ UNCHANGED <<tables, runtime, cache, builder, clock, faults, raced>>

(* The name of a provider object: a minimax row is an OpenAIProvider.      *)
WireName(p) == IF p = "minimax" THEN "openai" ELSE p

(* put_llm_chain: the registry's provider objects, by their own names.     *)
KnownProviders == {WireName(p) : p \in Registered}

(* replace_steps validates and swaps without an await.                     *)
PutLlmChain(a) ==
    /\ admin[a].pc = "idle" /\ clock < MaxOps
    /\ \E steps \in ChainPayloads :
           /\ \A i \in DOMAIN steps : steps[i].provider \in KnownProviders
           /\ EnabledSteps(steps) # <<>>
           /\ runtime' = steps
    /\ clock' = clock + 1
    /\ UNCHANGED <<tables, cache, chainCache, admin, builder, faults, raced>>

-----------------------------------------------------------------------------
(* Building a resolver.                                                    *)

(* initial_steps: the environment's chain, while there is no other.        *)
Seeded(chain) == IF chain = <<>> THEN EnvChain ELSE chain

(* _resolve_chain_steps: the tenant's chain if it is on and has a step,    *)
(* and the chain of the process otherwise.                                 *)
ChainSteps(chain, runtimeSteps) ==
    IF chain # NULL /\ chain.enabled /\ EnabledSteps(chain.steps) # <<>>
    THEN EnabledSteps(chain.steps) ELSE EnabledSteps(runtimeSteps)

(* list_by_tenant(enabled_only): the rows a resolver is built from.        *)
EnabledRows == [p \in {q \in Providers : rows[q] # NULL /\ rows[q].enabled} |-> rows[p]]

(* LLMGateway skips the steps of providers the tenant has no row for ...   *)
WiredSteps(steps, built) == SelectSeq(steps, LAMBDA s : s.provider \in DOMAIN built)

(* ... and FallbackResolver refuses no step and two steps that share the   *)
(* provider object's name and the model.                                   *)
ChainRefused(steps) ==
    \/ steps = <<>>
    \/ \E i, j \in DOMAIN steps :
          i < j /\ WireName(steps[i].provider) = WireName(steps[j].provider)
                /\ steps[i].model = steps[j].model

(* _raise_or_return: the resolver, or NULL where an exception leaves it.   *)
Resolver(built, steps) ==
    IF \/ Required /\ steps = <<>>                    \* TenantFallbackChainNotConfigured
       \/ DOMAIN built = {}                           \* TenantLlmNotConfigured
       \/ steps # <<>> /\ ChainRefused(WiredSteps(steps, built))
    THEN NULL
    ELSE [rows |-> built, steps |-> WiredSteps(steps, built)]

(* build_tenant_resolver: a hit needs nothing else.                        *)
Lookup(b) ==
    /\ builder[b].pc = "idle" /\ cache = NULL
    /\ builder' = [builder EXCEPT ![b].pc = "rows"]
    /\ UNCHANGED <<tables, caches, admin, clock, faults, raced>>

ReadRows(b) ==
    /\ builder[b].pc = "rows"
    /\ builder' = [builder EXCEPT ![b].pc = "lookup", ![b].rows = EnabledRows]
    /\ UNCHANGED <<tables, caches, admin, clock, faults, raced>>

(* What follows the last await: the chain is chosen, the process's chain   *)
(* seeded, and the resolver stored.                                        *)
Finish(b, chain) ==
    /\ runtime' = IF ChainSteps(chain, <<>>) = <<>> \/ DOMAIN builder[b].rows # {}
                  THEN Seeded(runtime) ELSE runtime
    /\ LET r == Resolver(builder[b].rows, ChainSteps(chain, Seeded(runtime)))
       IN cache' = IF r = NULL THEN cache ELSE r
    /\ builder' = [builder EXCEPT ![b] = IdleBuilder]

(* The cached chain, if there is one; a cached absence is read again.      *)
LookupChain(b) ==
    /\ builder[b].pc = "lookup"
    /\ IF chainCache # NULL
       THEN Finish(b, chainCache)
       ELSE /\ builder' = [builder EXCEPT ![b].pc = "chain"]
            /\ UNCHANGED <<runtime, cache>>
    /\ UNCHANGED <<tables, chainCache, admin, clock, faults, raced>>

(* The chain's row, or nothing when the read raises.                       *)
ReadChain(b) ==
    /\ builder[b].pc = "chain"
    /\ \/ /\ builder' = [builder EXCEPT ![b].pc = "store", ![b].chain = chainRow]
          /\ UNCHANGED faults
       \/ /\ faults < MaxFaults /\ faults' = faults + 1
          /\ builder' = [builder EXCEPT ![b].pc = "store", ![b].chain = NULL]
    /\ UNCHANGED <<tables, caches, admin, clock, raced>>

StoreChain(b) ==
    /\ builder[b].pc = "store"
    /\ chainCache' = builder[b].chain
    /\ Finish(b, builder[b].chain)
    /\ UNCHANGED <<tables, admin, clock, faults, raced>>

(* Mutant: the entry is renewed whenever it is read, and never expires.    *)
Expire_Never == FALSE /\ UNCHANGED configVars

(* get finds the resolver older than its time to live.                     *)
Expire ==
    /\ cache # NULL
    /\ cache' = NULL
    /\ UNCHANGED <<tables, runtime, chainCache, admin, builder, clock, faults, raced>>

ExpireChain ==
    /\ chainCache # NULL
    /\ chainCache' = NULL
    /\ UNCHANGED <<tables, runtime, cache, admin, builder, clock, faults, raced>>

-----------------------------------------------------------------------------
AdminStep(a) ==
    \/ PostConfig(a) \/ PatchConfig(a) \/ DeleteConfig(a)
    \/ UpsertChain(a) \/ DeleteChain(a) \/ PutLlmChain(a)
AdminGoesOn(a) ==
    ReadLatestKey(a) \/ CommitPost(a) \/ CommitPatch(a) \/ CommitDelete(a) \/ InvalidateChain(a)
BuilderGoesOn(b) == ReadRows(b) \/ LookupChain(b) \/ ReadChain(b) \/ StoreChain(b)

ConfigNext ==
    \/ \E a \in Admins : AdminStep(a) \/ AdminGoesOn(a)
    \/ \E b \in Builders : Lookup(b) \/ BuilderGoesOn(b)
    \/ Expire \/ ExpireChain

(* A request that has begun goes on, and entries expire.                   *)
Fairness ==
    /\ \A a \in Admins : WF_configVars(AdminGoesOn(a))
    /\ \A b \in Builders : WF_configVars(BuilderGoesOn(b))
    /\ WF_configVars(Expire) /\ WF_configVars(ExpireChain)

ConfigSpec == ConfigInit /\ [][ConfigNext]_configVars
FairSpec == ConfigSpec /\ Fairness

-----------------------------------------------------------------------------
(* Properties.                                                             *)

(* Whatever the interleaving of the requests, every value a row holds is   *)
(* the new value of some audit entry of that provider and field: no        *)
(* configuration is in force that the log cannot account for.              *)
AuditCovers ==
    \A p \in Providers : rows[p] # NULL =>
        \A f \in Fields : \E e \in EntriesOf(p, f) : e.new = Shown(rows[p])[f]

(* As long as no two requests have worked on a provider at once, the       *)
(* newest entry of each field is the row's value, and a provider without   *)
(* a row has no entry or was last deleted.                                 *)
AuditExactUnlessRaced ==
    \A p \in Providers \ raced :
        IF rows[p] # NULL THEN \A f \in Fields : LatestValue(p, f) = Shown(rows[p])[f]
        ELSE \A e \in audit : e.provider = p =>
                 \E d \in EntriesOf(p, "deleted") : d.at >= e.at

(* When the administrators have finished, the cached resolver is in the    *)
(* end the one the stored rows and chain describe, whatever a builder read *)
(* before a change and stored after it, or after a failed read.            *)
EventuallyCurrent ==
    <>[](cache = NULL \/ cache = Resolver(EnabledRows,
                                          ChainSteps(chainRow, Seeded(runtime))))

(* admin/api.py says of upsert_tenant_fallback_chain that "the next        *)
(* resolver call for this tenant hits the DB": once the handler is done    *)
(* and no request is building, a cached resolver walks the stored chain.   *)
ChainTakesEffect ==
    (/\ \A a \in Admins : admin[a].pc = "idle"
     /\ \A b \in Builders : builder[b].pc = "idle"
     /\ faults = 0 /\ cache # NULL
     /\ chainRow # NULL /\ chainRow.enabled)
    => cache.steps = WiredSteps(EnabledSteps(chainRow.steps), cache.rows)
=============================================================================
