------------------------------ MODULE Config ------------------------------
(***************************************************************************)
(* The configuration: what the files hold, how they resolve into the       *)
(* configuration the gateway runs, the rules that configuration must pass, *)
(* and the conditions under which an application can be built from it.     *)
(*                                                                         *)
(* The rules (config_validate) and the construction (build_app_from_config)*)
(* are separate pieces of code that look at the same fields, one to        *)
(* collect every error, the other to stop at the first; they are separate  *)
(* definitions here, so that their agreement is a property and not an      *)
(* assumption.                                                             *)
(*                                                                         *)
(* Names are strings of a small universe.  A number stands for itself      *)
(* where zero matters; a URL is its scheme and the class of its host, a    *)
(* path override is present, absent or not starting with a slash, and a    *)
(* secret is the module it names.                                          *)
(***************************************************************************)
EXTENDS Plugins

Terminals == {"weighted", "nothing", "reject", "first"}
Strategies == {"cheapest", "fastest", "least_busy", "usage"}
KnownProtocols == {"anthropic", "openai", "gemini", "bedrock", "responses", "cohere"}
Scopes == {"read-only", "hooks-register", "mint", "full"}
StatusClasses == {"rate_limit", "overloaded", "server_error", "timeout", "network",
                  "auth", "billing", "client_error", "context_length"}
ReservedHookNames == Terminals \cup Strategies \cup {"tokens", "admin-tokens"}
BodyFloor == 1
BodyCeil == 2
Unbounded == -1   \* a model without max_concurrent, and the default of max_requests

\* The lists of known names, in the order the code sorts them.
NameOrder == <<"a", "admin", "b", "c", "m1", "up">>
\* A second hook of the same module gets a suffixed name.
Suffixed == [hk1 |-> "hk1#2", hk2 |-> "hk2#2", tp |-> "tp#2", cheapest |-> "cheapest#2"]
-----------------------------------------------------------------------------
(***************************************************************************)
(* Resolution: config.yaml and providers.yaml into one configuration.      *)
(***************************************************************************)

\* HookCfg: an entry of the hook registry, as far as the rules read it.
HookCfg(kind, plugin, on_error, prompt, default, secret) ==
    [kind |-> kind, plugin |-> plugin, on_error |-> on_error, prompt |-> prompt,
     default |-> default, secret |-> secret]

\* hook_cfg_from_ref: the registry entry of one inline module reference, which
\* is never the default.
hook_cfg_from_ref(r) == HookCfg(r.kind, r.module, r.on_error, r.prompt, FALSE, r.secret)

\* register: an entry under the module's name, suffixed when it is taken.
RegisteredName(registry, r) ==
    IF r.module \in DOMAIN registry THEN Suffixed[r.module] ELSE r.module
RegisterRef(acc, r) ==
    LET n == RegisteredName(acc.hooks, r)
    IN  [hooks |-> [x \in DOMAIN acc.hooks \cup {n} |->
                        IF x = n THEN hook_cfg_from_ref(r) ELSE acc.hooks[x]],
         names |-> Append(acc.names, n)]
RegisterAll(hooks, refs) ==
    LET registered[n \in 0 .. Len(refs)] ==
            IF n = 0 THEN [hooks |-> hooks, names |-> <<>>]
            ELSE RegisterRef(registered[n - 1], refs[n])
    IN  registered[Len(refs)]

\* The pools in name order, each registering its references.
RegisterPool(pools, acc, p) ==
    LET r == RegisterAll(acc.hooks, pools[p].hooks)
    IN  IF p \in DOMAIN pools
        THEN [hooks |-> r.hooks,
              gates |-> [x \in DOMAIN acc.gates \cup {p} |-> IF x = p THEN r.names ELSE acc.gates[x]]]
        ELSE acc
RegisterPools(pools) ==
    LET registered[n \in 0 .. Len(NameOrder)] ==
            IF n = 0 THEN [hooks |-> [x \in {} |-> None], gates |-> [x \in {} |-> None]]
            ELSE RegisterPool(pools, registered[n - 1], NameOrder[n])
    IN  registered[Len(NameOrder)]

\* A network-exposed admin listener must require client certificates, unless
\* the operator waives it.
AdminPlaneGuarded(d) == d.admin.exposed => d.admin.mtls \/ d.admin.insecure

\* The types of the file, as far as they matter: what does not have them does
\* not parse.  A table is finite, a count is not negative, and the first-party
\* floor, which is the running process's alone, is never read from a file.
RootFields ==
    {"providers", "models", "pools", "hooks", "global_hooks", "auth", "admin", "groups",
     "rate_card", "per_request_fee", "store", "plugins", "limits", "budgets", "security"}
PoolFields ==
    {"members", "hooks", "gates", "base_named", "breaker", "failover", "on_exhausted",
     "affinity_header"}
PluginFields ==
    {"enabled", "publishers", "allow_unsigned", "allow_third_party", "min_versions",
     "first_party_floor", "dir"}
HookKinds == {"gate", "tap"}
IsHookList(refs) == refs \in Seq(Range(refs)) /\ \A r \in Range(refs) : r.kind \in HookKinds
Parses(d) ==
    /\ DOMAIN d = RootFields /\ DOMAIN d.plugins = PluginFields
    /\ d.plugins.first_party_floor = NoFloor
    /\ IsFiniteSet(DOMAIN d.pools)
    /\ \A p \in DOMAIN d.pools :
          /\ DOMAIN d.pools[p] = PoolFields
          /\ \A x \in Range(d.pools[p].members) : x.weight \in Nat
          /\ IsHookList(d.pools[p].hooks)
    /\ IsHookList(d.global_hooks)
    /\ \A m \in DOMAIN d.models :
          d.models[m].max_concurrent \in Nat \cup {Unbounded} /\ d.models[m].max_requests \in Int

\* The errors of resolve itself: a deployed provider that providers.yaml does
\* not define, a hook reference without a plugin, a bare name in global_hooks.
Resolvable(d, catalog) ==
    /\ Parses(d)
    /\ DOMAIN d.providers \subseteq catalog
    /\ \A p \in DOMAIN d.pools : \A r \in Range(d.pools[p].hooks) : r.module # ""
    /\ \A r \in Range(d.global_hooks) : r.module # "" /\ ~r.bare
    /\ AdminPlaneGuarded(d)

resolve(d) ==
    LET ps == RegisterPools(d.pools)
        gl == RegisterAll(ps.hooks, d.global_hooks)
    IN  [d EXCEPT !.hooks = gl.hooks,
                  !.global_hooks = Range(gl.names),
                  !.pools = [p \in DOMAIN d.pools |->
                                [d.pools[p] EXCEPT !.gates = Range(ps.gates[p]), !.hooks = <<>>]]]
-----------------------------------------------------------------------------
(***************************************************************************)
(* The rules of config_validate, in its order.                             *)
(***************************************************************************)

\* reject_cidr_metadata_entries.
NoCidr(c) ==
    /\ "cidr" \notin c.security.blocked \cup c.security.allow
    /\ \A p \in DOMAIN c.providers : "cidr" \notin c.providers[p].allow

ReasoningTableOk(c) ==
    /\ \A i \in 1 .. 4 : c.budgets[i] > 0
    /\ \A i \in 1 .. 3 : c.budgets[i] <= c.budgets[i + 1]

reserved_admin_name(n) == n = "admin"

ModelOk(c, m) ==
    LET mc == c.models[m]
    IN  /\ mc.provider \in DOMAIN c.providers
        /\ mc.default_max_tokens # 0
        /\ mc.max_concurrent # 0
        /\ mc.max_requests # 0
        /\ mc.attempt_timeout_ms # 0
        /\ mc.upstream_model # ""
        /\ ~reserved_admin_name(m)

NamesOk(c) ==
    /\ DOMAIN c.pools \cap (DOMAIN c.providers \cup DOMAIN c.models) = {}
    /\ \A n \in DOMAIN c.pools \cup DOMAIN c.providers : ~reserved_admin_name(n)

ProviderSettingsOk(c, p) ==
    LET pc == c.providers[p]
    IN  /\ pc.protocol \in KnownProtocols
        /\ pc.probe_secs # 0
        /\ pc.error_class \in StatusClasses

\* host_is_private_or_loopback, on the class of the host.  The metadata
\* addresses of the hardcoded list are link-local.
host_is_private_or_loopback(host) == host \in {"private", "metadata"}

\* ssrf_blocked_host: blocked iff the guard is on, the host is on the
\* denylist, hardcoded or configured, and no allow-override names it.
ssrf_blocked_host(c, p, host) ==
    /\ ~c.security.allow_all
    /\ host \notin c.providers[p].allow \cup c.security.allow
    /\ host = "metadata" \/ host \in c.security.blocked

UrlOk(c, p, url) ==
    /\ \/ url.scheme = "https"
       \/ url.scheme = "http" /\ host_is_private_or_loopback(url.host)
    /\ ~ssrf_blocked_host(c, p, url.host)

\* A path override is appended to base_url: it starts with a slash, and the
\* host of the composed URL is base_url's.
PathsOk(c, p) == "fused" \notin {c.providers[p].path, c.providers[p].path_base}

\* validate_credential of the two OAuth mechanisms: a credential that does
\* not resolve here is left to the construction.
OauthOk(c, p, cred) ==
    c.providers[p].auth = "oauth-client-credentials" =>
        /\ c.providers[p].token_url # None
        /\ UrlOk(c, p, [scheme |-> "https", host |-> c.providers[p].token_url])
        /\ c.providers[p].scope # None
        /\ cred # "malformed"

JwtOk(c, p, cred) ==
    c.providers[p].auth = "jwt-bearer" => cred # "malformed"

ProviderOk(c, p, cred) ==
    /\ ProviderSettingsOk(c, p)
    /\ UrlOk(c, p, c.providers[p].base_url)
    /\ PathsOk(c, p)
    /\ OauthOk(c, p, cred)
    /\ JwtOk(c, p, cred)

\* Members: there is one, each weighs something, has time for an attempt and
\* names a model whose provider resolves.
MembersOk(c, p) ==
    LET ms == Range(c.pools[p].members)
    IN  /\ ms # {}
        /\ \A x \in ms :
              /\ x.weight # 0
              /\ x.attempt_timeout_ms # 0
              /\ x.model \in DOMAIN c.models
              /\ c.models[x.model].provider \in DOMAIN c.providers

BreakerOk(c, p) ==
    LET b == c.pools[p].breaker
    IN  b.set =>
          /\ b.base_cooldown_secs # 0
          /\ b.max_cooldown_secs # 0
          /\ b.max_cooldown_secs >= b.base_cooldown_secs
          /\ b.min_requests # 0
          /\ b.window_secs # 0
          /\ b.trip_at # 0

FailoverOk(c, p) ==
    LET f == c.pools[p].failover
    IN  f.set =>
          /\ f.timeout_secs # 0
          /\ f.exclusions \subseteq {x.model : x \in Range(c.pools[p].members)}

\* resolve_fallback_target: the pool that the exhaustion of p goes to.
resolve_fallback_target(pools, p) ==
    IF pools[p].on_exhausted \in {None, "least_bad", "reject"} THEN {} ELSE {pools[p].on_exhausted}

FallbackOk(c, p) == resolve_fallback_target(c.pools, p) \subseteq DOMAIN c.pools \ {p}

AffinityOk(c, p) == c.pools[p].affinity_header \notin {"", "non-ascii", "too-long"}

\* The pools a chain of fallbacks from p goes through, p itself only when the
\* chain comes back to it: those of one hop, and so on.
NextPools(pools, S) == (UNION {resolve_fallback_target(pools, q) : q \in S}) \cap DOMAIN pools
FallbackHops(pools, p) ==
    LET hop[n \in 0 .. Cardinality(DOMAIN pools)] ==
            IF n = 0 THEN NextPools(pools, {p}) ELSE hop[n - 1] \cup NextPools(pools, hop[n - 1])
    IN  hop
FallbackReach(pools, p) == FallbackHops(pools, p)[Cardinality(DOMAIN pools)]

\* The check of a cycle of two or more pools; one of a single pool is
\* FallbackOk's.
NoFallbackCycle(c) == \A p \in DOMAIN c.pools : p \notin FallbackReach(c.pools, p)

HookOk(h) ==
    /\ h.plugin # ""
    /\ ~(h.prompt = "rw" /\ h.kind = "tap")
    /\ ~(h.default /\ h.kind = "tap")

ReservedNamesOk(c) == DOMAIN c.hooks \cap ReservedHookNames = {}

AtMostOneDefault(c) == Cardinality({h \in DOMAIN c.hooks : c.hooks[h].default}) <= 1

GatesOk(c) ==
    \A p \in DOMAIN c.pools : \A g \in c.pools[p].gates :
        g \in DOMAIN c.hooks /\ c.hooks[g].kind = "gate"

\* The names an on_error chain goes through.  It comes to rest on a terminal or
\* a ranking strategy, on a name that is no gate, or nowhere, in which case it
\* is still on a gate after one hop per hook.
IsGate(hooks, x) == x \in DOMAIN hooks \ (Terminals \cup Strategies) /\ hooks[x].kind = "gate"
OnErrorStep(hooks, x) == IF IsGate(hooks, x) THEN hooks[x].on_error ELSE x
OnErrorWalk(hooks, name) ==
    LET at[n \in 0 .. Cardinality(DOMAIN hooks) + 1] ==
            IF n = 0 THEN name ELSE OnErrorStep(hooks, at[n - 1])
    IN  at
OnErrorEnd(hooks, name) == OnErrorWalk(hooks, name)[Cardinality(DOMAIN hooks) + 1]

\* Every chain bottoms out on something that cannot fail.
OnErrorOk(c) ==
    \A h \in DOMAIN c.hooks : OnErrorEnd(c.hooks, c.hooks[h].on_error) \in Terminals \cup Strategies

GlobalHooksOk(c) == c.global_hooks \subseteq DOMAIN c.hooks

AdminAuthOk(c) == \A e \in c.auth.admin_auth : e.module = "admin-tokens"

RoleBindingsOk(c) ==
    \A b \in c.auth.role_bindings :
        /\ b.module \in {e.module : e \in c.auth.chain \cup c.auth.admin_auth}
        /\ ~reserved_admin_name(b.role)
        /\ b.admin_scope \in Scopes \cup {None}
        /\ b.group \in DOMAIN c.groups \cup {None}

ChainEntriesOk(c) ==
    \A e \in c.auth.chain \cup c.auth.admin_auth :
        /\ e.max_admin_scope \in Scopes \cup {None}
        /\ e.token # None => e.module = "admin-tokens"

\* The data-plane chain: the built-in keys module is the only name accepted.
AuthChainOk(c) == \A e \in c.auth.chain : e.module = "keys"

\* validate_limits: one timeout stands for every value that must be at least
\* one; max_inbound_concurrent may be anything.
validate_limits(c) ==
    /\ c.limits.upstream_request_timeout_secs >= 1
    /\ c.limits.request_body_max_bytes \in BodyFloor .. BodyCeil
    /\ c.limits.default_max_tokens >= 1
    /\ c.limits.rate_sweep_interval >= 1

\* The values members declare for the context window of a model.
ContextMaxima(c, m) ==
    {x.context_max : x \in {y \in UNION {Range(c.pools[p].members) : p \in DOMAIN c.pools} :
                                y.model = m /\ y.context_max # 0}}

ContextMaxOk_PerPool(c) ==
    \A p \in DOMAIN c.pools : \A m \in DOMAIN c.models :
        Cardinality({x.context_max : x \in {y \in Range(c.pools[p].members) :
                                y.model = m /\ y.context_max # 0}}) <= 1
ContextMaxOk(c) == \A m \in DOMAIN c.models : Cardinality(ContextMaxima(c, m)) <= 1

RateCardOk(c) ==
    /\ c.rate_card.set => /\ DOMAIN c.rate_card.rates = DOMAIN c.models
                          /\ \A m \in DOMAIN c.rate_card.rates : c.rate_card.rates[m] >= 0
    /\ c.per_request_fee >= 0

GroupAncestors(groups, g) ==
    LET up[n \in 0 .. Cardinality(DOMAIN groups)] ==
            IF n = 0 THEN {groups[g].parent}
            ELSE up[n - 1] \cup {groups[x].parent : x \in up[n - 1] \cap DOMAIN groups}
    IN  up[Cardinality(DOMAIN groups)]

GroupsOk(c) ==
    \A g \in DOMAIN c.groups :
        /\ c.groups[g].parent \in DOMAIN c.groups \cup {None}
        /\ g \notin GroupAncestors(c.groups, g)
        /\ c.groups[g].pool \in DOMAIN c.pools \cup {None}
        /\ c.groups[g].amount # 0

StoreOk(c) == c.store # ""

\* Every secret names a built-in module; what it resolves to is not looked at.
SecretsOk(c) ==
    /\ \A p \in DOMAIN c.providers : c.providers[p].api_key \in {"env", "file"}
    /\ c.auth.signing_key \in {None, "env", "file"}
    /\ \A e \in c.auth.admin_auth : e.token \in {None, "env", "file"}

validate_pools(c) ==
    \A p \in DOMAIN c.pools :
        MembersOk(c, p) /\ BreakerOk(c, p) /\ FailoverOk(c, p) /\ FallbackOk(c, p) /\ AffinityOk(c, p)

validate_hooks(c) ==
    /\ \A h \in DOMAIN c.hooks : HookOk(c.hooks[h])
    /\ ReservedNamesOk(c) /\ AtMostOneDefault(c) /\ GatesOk(c) /\ OnErrorOk(c) /\ GlobalHooksOk(c)

validate_auth(c) == AdminAuthOk(c) /\ RoleBindingsOk(c) /\ ChainEntriesOk(c) /\ AuthChainOk(c)

validate_cost_model(c) == RateCardOk(c) /\ GroupsOk(c) /\ StoreOk(c) /\ SecretsOk(c)

validate(c, cred) ==
    /\ NoCidr(c) /\ ReasoningTableOk(c)
    /\ \A m \in DOMAIN c.models : ModelOk(c, m)
    /\ NamesOk(c)
    /\ \A p \in DOMAIN c.providers : ProviderOk(c, p, cred)
    /\ validate_pools(c)
    /\ NoFallbackCycle(c)
    /\ validate_hooks(c)
    /\ validate_auth(c)
    /\ validate_limits(c)
    /\ ContextMaxOk(c)
    /\ validate_cost_model(c)
-----------------------------------------------------------------------------
(***************************************************************************)
(* plugins_preflight: the manifests in the plugins directory, by name and  *)
(* kind; nothing is loaded.                                                *)
(***************************************************************************)

PluginRefs(c) ==
    {<<"hook", c.hooks[h].plugin>> : h \in DOMAIN c.hooks}
        \cup {<<"auth", e.module>> : e \in {x \in c.auth.chain : x.module # "keys"}}
        \cup (IF c.store = "memory" THEN {} ELSE {<<"store", c.store>>})

plugins_preflight(c) ==
    /\ PluginRefs(c) # {} => c.plugins.enabled
    /\ PolicyOk(c.plugins)
    /\ c.plugins.enabled => scan_and_validate(c.plugins.dir, to_policy(c.plugins))
    /\ \A r \in PluginRefs(c) : ResolvesTo(c.plugins, r[1], r[2])
-----------------------------------------------------------------------------
(***************************************************************************)
(* build_app_from_config after its validation: each step that can refuse.  *)
(* cred is what the credential of the OAuth providers resolves to.         *)
(***************************************************************************)

LanesBuilt(c) ==
    \A m \in DOMAIN c.models :
        /\ c.models[m].provider \in DOMAIN c.providers
        /\ c.providers[c.models[m].provider].protocol \in KnownProtocols

\* A lane that was built admits a request: its semaphore has a permit, and its
\* budget, if it has one, a unit.
LaneAdmits(c, m) ==
    /\ c.models[m].max_concurrent = Unbounded \/ c.models[m].max_concurrent > 0
    /\ c.models[m].max_requests >= 0 => c.models[m].max_requests > 0

resolve_model_context_max(c) == \A m \in DOMAIN c.models : Cardinality(ContextMaxima(c, m)) <= 1

\* The credential of a lane: the OAuth mechanisms parse theirs, and vet the
\* endpoint they post it to; the others take whatever there is.
CredentialBuilt(c, p, cred) ==
    /\ c.providers[p].auth = "jwt-bearer" => cred = "good"
    /\ c.providers[p].auth = "oauth-client-credentials" =>
          /\ c.providers[p].token_url # None /\ c.providers[p].scope # None
          /\ cred = "good"
          /\ UrlOk(c, p, [scheme |-> "https", host |-> c.providers[p].token_url])

CredentialsBuilt(c, cred) ==
    \A m \in DOMAIN c.models : CredentialBuilt(c, c.models[m].provider, cred)

PoolsBuilt(c) ==
    \A p \in DOMAIN c.pools : \A x \in Range(c.pools[p].members) : x.model \in DOMAIN c.models

\* AuthMiddleware::new: a module that is not built in is opened as a plugin.
AuthBuilt(c) == \A e \in c.auth.chain : e.module = "keys" \/ Opens(c.plugins, "auth", e.module)

StoreOpens(c) == c.store = "memory" \/ Opens(c.plugins, "store", c.store)

\* A configured operator token and signing key must resolve.
GovernanceSecrets(c, cred) ==
    (\E e \in c.auth.admin_auth : e.token # None) \/ c.auth.signing_key # None => cred # "unset"

\* Boot only: the groups that stored keys name.
KeyGroupsExist(c, keyGroups) == keyGroups \subseteq DOMAIN c.groups

Buildable(c, cred) ==
    /\ plugins_preflight(c)
    /\ LanesBuilt(c)
    /\ resolve_model_context_max(c)
    /\ CredentialsBuilt(c, cred)
    /\ PoolsBuilt(c)
    /\ AuthBuilt(c)

GovernanceBuilt(c, cred, keyGroups) ==
    StoreOpens(c) /\ GovernanceSecrets(c, cred) /\ KeyGroupsExist(c, keyGroups)
-----------------------------------------------------------------------------
(***************************************************************************)
(* The hooks of a built application.                                       *)
(***************************************************************************)

\* gate_transport_named: a hook whose secret setting does not resolve, or
\* whose plugin does not load, is absent.  A setting is no secret, or names a
\* variable that is set or unset.
gate_transport_named(c, hooks, h) ==
    /\ hooks[h].secret # "unset"
    /\ Opens(c.plugins, "hook", hooks[h].plugin)

\* resolve_on_error_chain: the gates that stand in for a failing hook, one
\* after the other, and the terminal after the last.  A ranking strategy ends
\* the walk on the weighted choice; a name that is no gate, or one already
\* visited, ends it there too, but not because anybody declared it.
ChainStart(hooks, h) ==
    [at |-> hooks[h].on_error, visited |-> {}, links |-> <<>>, end |-> None, degraded |-> FALSE]
ChainStep(c, hooks, w) ==
    CASE w.end # None -> w
      [] w.end = None /\ w.at \in Terminals ->
            [w EXCEPT !.end = IF w.at = "nothing" THEN "weighted" ELSE w.at]
      [] w.end = None /\ w.at \in Strategies -> [w EXCEPT !.end = "weighted"]
      [] w.end = None /\ IsGate(hooks, w.at) /\ w.at \notin w.visited ->
            [w EXCEPT !.at = hooks[w.at].on_error, !.visited = w.visited \cup {w.at},
                      !.links = IF gate_transport_named(c, hooks, w.at) THEN Append(@, w.at) ELSE @]
      [] OTHER -> [w EXCEPT !.end = "weighted", !.degraded = TRUE]
resolve_on_error_chain(c, hooks, h) ==
    LET walk[n \in 0 .. Cardinality(DOMAIN hooks) + 1] ==
            IF n = 0 THEN ChainStart(hooks, h) ELSE ChainStep(c, hooks, walk[n - 1])
    IN  walk[Cardinality(DOMAIN hooks) + 1]

\* resolve_gate_transport: the hook as it fires, with what follows its failure.
resolve_gate_transport(c, hooks, h) ==
    LET last == resolve_on_error_chain(c, hooks, h)
    IN  [hook |-> h, plugin |-> hooks[h].plugin, prompt |-> hooks[h].prompt,
         chain |-> last.links, on_error |-> last.end, degraded |-> last.degraded]

\* The pool's gates that are there: those that may rewrite the prompt are asked
\* to before the request is routed and decide nothing.
resolve_pool_gates(c, p) ==
    {resolve_gate_transport(c, c.hooks, g) :
        g \in {x \in c.pools[p].gates \cap DOMAIN c.hooks :
                 /\ c.hooks[x].kind = "gate" /\ c.hooks[x].prompt # "rw"
                 /\ gate_transport_named(c, c.hooks, x)}}

\* default_hook_name and resolve_pool_ordering: a pool that names no ordering
\* inherits the default hook, one of them when there are several.
resolve_pool_ordering(c, p) ==
    LET ds == {h \in DOMAIN c.hooks : c.hooks[h].default}
    IN  IF c.pools[p].base_named \/ ds = {} THEN {}
        ELSE LET d == CHOOSE x \in ds : TRUE
             IN  IF gate_transport_named(c, c.hooks, d)
                 THEN {resolve_gate_transport(c, c.hooks, d)} ELSE {}

\* resolve_rewrite_hooks, resolve_gate_hooks and resolve_tap_hooks.
resolve_global_hooks(c, hooks, globals) ==
    {resolve_gate_transport(c, hooks, h) :
        h \in {x \in globals \cap DOMAIN hooks : gate_transport_named(c, hooks, x)}}
=============================================================================
