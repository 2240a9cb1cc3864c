--------------------------- MODULE MCConfigLife ---------------------------
(***************************************************************************)
(* A deployment for TLC: three pools in a row of fallbacks, two models on  *)
(* two providers, one of them with OAuth credentials, two gates of which   *)
(* one stands in for the other, and a global tap.  Every edit changes one  *)
(* setting to another value an operator may write, right or wrong.         *)
(***************************************************************************)
EXTENDS ConfigLife

GateRef(m, onError) ==
    [module |-> m, kind |-> "gate", on_error |-> onError, prompt |-> "no", secret |-> None, bare |-> FALSE]
TapRef(m) == [GateRef(m, "nothing") EXCEPT !.kind = "tap"]

Plain ==
    [protocol |-> "openai", base_url |-> [scheme |-> "https", host |-> "public"], api_key |-> "env",
     probe_secs |-> 1, error_class |-> "overloaded", path |-> None, path_base |-> None,
     auth |-> None, token_url |-> None, scope |-> None, allow |-> {}]
Oauth == [Plain EXCEPT !.auth = "oauth-client-credentials", !.token_url = "public", !.scope = "s"]

Model(p) ==
    [provider |-> p, default_max_tokens |-> 1, max_concurrent |-> 1, max_requests |-> 1,
     attempt_timeout_ms |-> 1, upstream_model |-> "u"]
Member(m) == [model |-> m, weight |-> 1, attempt_timeout_ms |-> 1, context_max |-> 0]

Pool(members, refs, exhausted) ==
    [members |-> members, hooks |-> refs, gates |-> {}, base_named |-> FALSE,
     breaker |-> [set |-> TRUE, base_cooldown_secs |-> 1, max_cooldown_secs |-> 1, min_requests |-> 1,
                  window_secs |-> 1, trip_at |-> 1],
     failover |-> [set |-> TRUE, timeout_secs |-> 1, exclusions |-> {}],
     on_exhausted |-> exhausted, affinity_header |-> "x-session"]

Tarball(name, kind, ver, publisher, key) ==
    [members |-> <<"manifest", "lib">>, wellformed |-> TRUE, name |-> name, alias |-> name, kind |-> kind,
     ver |-> ver, publisher |-> publisher, key |-> key, intact |-> TRUE,
     abi |-> IF kind = "store" THEN 4 ELSE 1, exports |-> kind]
\* Two releases of the first hook side by side, the older one too old to load.
OneDirectory ==
    [hk1 |-> Tarball("hk1", "hook", 3, "busbar", "release"),
     hk1old |-> Tarball("hk1", "hook", 2, "busbar", "release"),
     hk2 |-> Tarball("hk2", "hook", 2, "acme", "acmekey"),
     tp |-> Tarball("tp", "hook", 3, "busbar", "release"),
     store |-> [Tarball("busbar-sqlite", "store", 3, "busbar", "release") EXCEPT !.alias = "sqlite"]]
SomeArtifacts ==
    {Tarball("hk1", "hook", 4, "busbar", "release"), Tarball("hk1", "hook", 1, "busbar", "release"),
     Tarball("hk2", "hook", 1, "acme", "acmekey"), Tarball("hk2", "hook", 3, "acme", None),
     Tarball("tp", "hook", 2, "busbar", "release"),
     [Tarball("new", "hook", 9, "mallory", "other") EXCEPT !.alias = "hk2"],
     [Tarball("new", "hook", 3, "busbar", "release") EXCEPT !.alias = "hk1"],
     [Tarball("hk1", "hook", 5, "busbar", "broken") EXCEPT !.exports = "store"],
     [Tarball("hk1", "hook", 5, "busbar", "release") EXCEPT !.exports = "store"],
     [Tarball("new", "hook", 3, "busbar", "release") EXCEPT !.intact = FALSE],
     [Tarball("new", "store", 3, "busbar", "release") EXCEPT !.abi = 3],
     [Tarball("new", "hook", 3, "busbar", "release") EXCEPT !.members = <<"manifest">>]}

OneConfig ==
    [providers |-> [up |-> Plain, up2 |-> Oauth],
     models |-> [m1 |-> Model("up"), m2 |-> Model("up2")],
     pools |-> [a |-> Pool(<<[Member("m1") EXCEPT !.context_max = 1], Member("m2")>>,
                           <<GateRef("hk1", "hk2")>>, "b"),
                b |-> Pool(<<Member("m1")>>, <<GateRef("hk2", "reject")>>, "c"),
                c |-> Pool(<<Member("m2")>>, <<>>, "least_bad")],
     hooks |-> [x \in {} |-> None],
     global_hooks |-> <<TapRef("tp")>>,
     auth |-> [chain |-> {[module |-> "keys", max_admin_scope |-> None, token |-> None]},
               admin_auth |-> {[module |-> "admin-tokens", max_admin_scope |-> "full", token |-> "env"]},
               role_bindings |-> {}, signing_key |-> "file"],
     admin |-> [exposed |-> FALSE, mtls |-> FALSE, insecure |-> FALSE],
     groups |-> [t |-> [parent |-> None, pool |-> "a", amount |-> 1],
                 u |-> [parent |-> "t", pool |-> None, amount |-> 1]],
     rate_card |-> [set |-> FALSE, rates |-> [x \in {} |-> 0]],
     per_request_fee |-> 0,
     store |-> "sqlite",
     plugins |-> [enabled |-> TRUE, publishers |-> [acme |-> "acmekey"], allow_unsigned |-> FALSE,
                  allow_third_party |-> FALSE, min_versions |-> [hk2 |-> 2],
                  first_party_floor |-> NoFloor, dir |-> OneDirectory],
     limits |-> [upstream_request_timeout_secs |-> 1, request_body_max_bytes |-> 1,
                 default_max_tokens |-> 1, rate_sweep_interval |-> 1],
     budgets |-> <<1, 1, 1, 1>>,
     security |-> [blocked |-> {}, allow |-> {}, allow_all |-> FALSE]]

Set(f, k, v) == [x \in DOMAIN f |-> IF x = k THEN v ELSE f[x]]
Without(f, k) == [x \in DOMAIN f \ {k} |-> f[x]]

ProviderEdits(c) ==
    LET up(x) == [c EXCEPT !.providers["up"] = x]
        up2(x) == [c EXCEPT !.providers["up2"] = x]
        u == c.providers["up"]
        w == c.providers["up2"]
    IN  {up([u EXCEPT !.protocol = "grok"]), up([u EXCEPT !.probe_secs = 0]),
         up([u EXCEPT !.error_class = "odd"]), up([u EXCEPT !.api_key = "vault"]),
         up([u EXCEPT !.path = "fused"]), up([u EXCEPT !.base_url = [scheme |-> "http", host |-> "private"]]),
         up([u EXCEPT !.base_url = [scheme |-> "http", host |-> "public"]]),
         up([u EXCEPT !.base_url.host = "metadata"]),
         up([u EXCEPT !.base_url.host = "metadata", !.allow = {"metadata"}]),
         up2([w EXCEPT !.auth = "jwt-bearer"]), up2([w EXCEPT !.token_url = "metadata"]),
         up2([w EXCEPT !.token_url = None]), up2([w EXCEPT !.scope = None]),
         [c EXCEPT !.providers = Without(@, "up2")]}

ModelEdits(c) ==
    LET m2(x) == [c EXCEPT !.models["m2"] = x]
        m == c.models["m2"]
    IN  {m2([m EXCEPT !.provider = "gone"]), m2([m EXCEPT !.max_concurrent = 0]),
         m2([m EXCEPT !.max_requests = 0]), m2([m EXCEPT !.default_max_tokens = 0]),
         m2([m EXCEPT !.upstream_model = ""]),
         m2([m EXCEPT !.max_requests = Unbounded, !.max_concurrent = Unbounded])}

PoolEdits(c) ==
    LET a(x) == [c EXCEPT !.pools["a"] = x]
        b(x) == [c EXCEPT !.pools["b"] = x]
        cc(x) == [c EXCEPT !.pools["c"] = x]
    IN  {a([c.pools["a"] EXCEPT !.members = <<>>]), cc([c.pools["c"] EXCEPT !.on_exhausted = "a"]),
         b([c.pools["b"] EXCEPT !.on_exhausted = "a"]), b([c.pools["b"] EXCEPT !.on_exhausted = "b"]),
         b([c.pools["b"] EXCEPT !.on_exhausted = "gone"]), a([c.pools["a"] EXCEPT !.on_exhausted = "c"]),
         b([c.pools["b"] EXCEPT !.members[1].context_max = 2]),
         b([c.pools["b"] EXCEPT !.members[1].context_max = 1]),
         cc([c.pools["c"] EXCEPT !.members[1].weight = 0]), cc([c.pools["c"] EXCEPT !.members[1].model = "gone"]),
         a([c.pools["a"] EXCEPT !.breaker.max_cooldown_secs = 0]),
         a([c.pools["a"] EXCEPT !.failover.exclusions = {"m2"}]),
         b([c.pools["b"] EXCEPT !.failover.exclusions = {"m2"}]),
         a([c.pools["a"] EXCEPT !.failover.timeout_secs = 0]), a([c.pools["a"] EXCEPT !.affinity_header = ""])}

HookEdits(c) ==
    LET a(refs) == [c EXCEPT !.pools["a"].hooks = refs]
        b(refs) == [c EXCEPT !.pools["b"].hooks = refs]
        g(refs) == [c EXCEPT !.global_hooks = refs]
    IN  {a(<<GateRef("hk1", "hk1")>>), a(<<GateRef("hk1", "tp")>>), a(<<GateRef("hk1", "gone")>>),
         a(<<GateRef("hk1", "api")>>), a(<<GateRef("hk1", "cheapest")>>), a(<<TapRef("hk1")>>),
         a(<<[GateRef("hk1", "reject") EXCEPT !.secret = "unset"]>>), a(<<GateRef("missing", "reject")>>),
         a(<<GateRef("hk1", "reject"), GateRef("hk1", "hk1#2")>>), a(<<GateRef("cheapest", "reject")>>),
         b(<<GateRef("hk2", "hk1")>>), b(<<GateRef("hk2", "first")>>), b(<<>>),
         g(<<[TapRef("tp") EXCEPT !.bare = TRUE]>>), g(<<[TapRef("tp") EXCEPT !.prompt = "rw"]>>),
         g(<<GateRef("tp", "hk2")>>)}

RootEdits(c) ==
    {[c EXCEPT !.limits.request_body_max_bytes = 2], [c EXCEPT !.limits.request_body_max_bytes = 3],
     [c EXCEPT !.limits.upstream_request_timeout_secs = 0], [c EXCEPT !.budgets = <<1, 1, 2, 1>>],
     [c EXCEPT !.security.blocked = {"public"}], [c EXCEPT !.security.blocked = {"cidr"}],
     [c EXCEPT !.plugins.enabled = FALSE], [c EXCEPT !.plugins.publishers = [acme |-> "malformed"]],
     [c EXCEPT !.plugins.publishers = [busbar |-> "acmekey"]],
     [c EXCEPT !.plugins.allow_unsigned = TRUE], [c EXCEPT !.plugins.allow_third_party = TRUE],
     [c EXCEPT !.plugins.min_versions = [hk1 |-> 4]],
     [c EXCEPT !.store = "memory"], [c EXCEPT !.store = "redis"],
     [c EXCEPT !.groups = Without(@, "u")], [c EXCEPT !.groups["t"].parent = "u"],
     [c EXCEPT !.groups["t"].pool = "gone"],
     [c EXCEPT !.rate_card = [set |-> TRUE, rates |-> [m1 |-> 1]]],
     [c EXCEPT !.rate_card = [set |-> TRUE, rates |-> [m1 |-> 1, m2 |-> 0]]],
     [c EXCEPT !.auth.chain = {[module |-> "sso", max_admin_scope |-> None, token |-> None]}],
     [c EXCEPT !.auth.role_bindings = {[module |-> "keys", role |-> "r", admin_scope |-> "root", group |-> "t"]}],
     [c EXCEPT !.auth.role_bindings = {[module |-> "keys", role |-> "r", admin_scope |-> "mint", group |-> "u"]}],
     [c EXCEPT !.admin.exposed = TRUE], [c EXCEPT !.admin = [exposed |-> TRUE, mtls |-> TRUE, insecure |-> FALSE]]}

AllEdits(c) ==
    (IF "up2" \in DOMAIN c.providers THEN ProviderEdits(c) ELSE {})
        \cup ModelEdits(c) \cup PoolEdits(c) \cup HookEdits(c) \cup RootEdits(c)

ApiHook(default, onError, plugin) ==
    [name |-> "api", global |-> FALSE,
     cfg |-> [kind |-> "gate", plugin |-> plugin, on_error |-> onError, prompt |-> "no",
              default |-> default, secret |-> None]]
SomeApiHooks ==
    {ApiHook(TRUE, "reject", "hk1"), ApiHook(FALSE, "hk2", "hk1"), ApiHook(FALSE, "gone", "hk1"),
     [ApiHook(TRUE, "first", "hk2") EXCEPT !.name = "api2"], ApiHook(FALSE, "reject", "missing"),
     [ApiHook(FALSE, "reject", "hk2") EXCEPT !.name = "hk2", !.global = TRUE]}
=============================================================================
