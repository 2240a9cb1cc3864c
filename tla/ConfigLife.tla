---------------------------- MODULE ConfigLife ----------------------------
(***************************************************************************)
(* The life of a configuration: the operator edits the files and the       *)
(* environment, asks `busbar --validate` about them, boots, reloads or     *)
(* applies another configuration, registers and deletes hooks at run time, *)
(* and stops the process.                                                  *)
(*                                                                         *)
(* Four entry points vet a configuration: the command (rules and plugin    *)
(* pre-flight only), boot (everything, the stored keys included), reload   *)
(* (the same construction, over the running process's ledger) and apply    *)
(* (the body of a request, without the overlay).  A hook registered at run *)
(* time passes a fifth, shorter list of checks and is written to the       *)
(* overlay, from where the next boot reads it.                             *)
(*                                                                         *)
(* Plugins come and go in their directory: the operator drops a tarball    *)
(* there, the API installs, removes and rolls back.  An install reads the  *)
(* directory and publishes later, without a lock; a rollback writes its    *)
(* pin, rebuilds, and writes the old pins again when the build is refused, *)
(* all under the lock of the configuration.  The process may die between   *)
(* any two of these steps, and a write of the overlay may fail unnoticed.  *)
(***************************************************************************)
EXTENDS HookGates, TLC

CONSTANTS
    BaseConfig,    \* the config.yaml the operator starts from
    Catalog,       \* the providers of providers.yaml
    Edits(_),      \* the configurations one edit away from a configuration
    ApiHooks,      \* the hooks that requests register: [name, cfg, global]
    Artifacts,     \* the tarballs that turn up
    Files,         \* the file names they turn up under
    KeyGroups,     \* the groups that keys are minted into
    MaxChanges     \* bound on the edits, the changes of the environment and the API's writes

ASSUME BoundIsNatural == MaxChanges \in Nat
\* The kind of a hook is read as one of the two (HookKind).
ASSUME HooksAreTyped == \A r \in ApiHooks : r.cfg.kind \in HookKinds

VARIABLES
    disk,          \* config.yaml, in the operator's spelling
    overlay,       \* the hooks section of the overlay file
    plugdir,       \* the plugins directory: file name to tarball
    pins,          \* the plugin_versions section of the overlay: plugin name to version
    rolling,       \* the rollback in progress, if there is one: name, version, pins before it
    rolledBack,    \* the rollbacks that were not taken back: name, version, how they ended
    uploads,       \* the uploads that were checked and are not published yet
    cred,          \* what the environment's secrets are: "good", "malformed", "unset"
    app,           \* the application the process serves, NoApp when it is down
    installed,     \* the limits of the process-wide cells (limits::install)
    keyGroups,     \* the groups that keys in the durable store name
    vetted,        \* the modes in which --validate passed what is on disk now
    changes        \* changes made so far

plugVars == <<plugdir, pins, rolling, rolledBack, uploads>>
vars == <<disk, overlay, plugdir, pins, rolling, rolledBack, uploads, cred, app, installed, keyGroups, vetted, changes>>

NoApp == [up |-> FALSE]
EmptyOverlay == [hooks |-> [x \in {} |-> None], globals |-> {}, deleted |-> {}]
Modes == {"normal", "safe"}

Init ==
    /\ disk = BaseConfig
    /\ overlay = EmptyOverlay
    /\ plugdir = BaseConfig.plugins.dir
    /\ pins = [n \in {} |-> NoFloor]
    /\ rolling = {}
    /\ rolledBack = {}
    /\ uploads = {}
    /\ cred = "good"
    /\ app = NoApp
    /\ installed = BaseConfig.limits
    /\ keyGroups = {}
    /\ vetted = {}
    /\ changes = 0
-----------------------------------------------------------------------------
(***************************************************************************)
(* Loading and building                                                    *)
(***************************************************************************)

\* load_config_from_disk and merge_into: the resolved file under the overlay,
\* its tombstones last; --safe-mode leaves the overlay out.
MergeInto(c, doc) ==
    [c EXCEPT !.hooks = [x \in (DOMAIN c.hooks \cup DOMAIN doc.hooks) \ doc.deleted |->
                            IF x \in DOMAIN doc.hooks THEN doc.hooks[x] ELSE c.hooks[x]],
              !.global_hooks = (c.global_hooks \cup doc.globals) \ doc.deleted]

\* The pins go in before resolve; the directory is read when it is scanned.
LoadConfigWith(mode, dir, ps) ==
    LET d == [disk EXCEPT !.plugins = apply_plugin_versions_to_deploy([@ EXCEPT !.dir = dir], ps)]
    IN  MergeInto(resolve(d), IF mode = "safe" THEN EmptyOverlay ELSE overlay)
LoadConfig(mode) == LoadConfigWith(mode, plugdir, IF mode = "safe" THEN [n \in {} |-> NoFloor] ELSE pins)

\* The pool runtimes and the fired hooks of an application built from c.
\* The store is the one that governance opened at boot.
BuiltApp(c, baseNames, store) ==
    [up |-> TRUE, cfg |-> c, base |-> baseNames, store |-> store,
     hooks |-> c.hooks, globals |-> c.global_hooks,
     gates |-> [p \in DOMAIN c.pools |-> resolve_pool_gates(c, p)],
     ordering |-> [p \in DOMAIN c.pools |-> resolve_pool_ordering(c, p)],
     fired |-> resolve_global_hooks(c, c.hooks, c.global_hooks)]

\* build_app_from_config over a running process (prior is Some): the ledger,
\* its store and its secrets are the prior's.
BuildOver(c) == validate(c, cred) /\ Buildable(c, cred)

\* The same at boot, where governance is opened and the stored keys are read;
\* the memory store has none.
StoredKeyGroups(c) == IF c.store = "memory" THEN {} ELSE keyGroups
BuildFresh(c) == BuildOver(c) /\ GovernanceBuilt(c, cred, StoredKeyGroups(c))
-----------------------------------------------------------------------------
(***************************************************************************)
(* Steps of the operator                                                   *)
(***************************************************************************)

Edit ==
    /\ changes < MaxChanges
    /\ disk' \in Edits(disk) \ {disk}
    /\ changes' = changes + 1
    /\ vetted' = {}
    /\ UNCHANGED <<plugVars, overlay, cred, app, installed, keyGroups>>

SetEnv ==
    /\ changes < MaxChanges
    /\ cred' \in {"good", "malformed", "unset"} \ {cred}
    /\ changes' = changes + 1
    /\ UNCHANGED <<plugVars, disk, overlay, app, installed, keyGroups, vetted>>

\* validate_config_command: a separate process that reads the same files.
validate_config_command ==
    \E mode \in Modes \ vetted :
        /\ Resolvable(disk, Catalog)
        /\ \E c \in {LoadConfig(mode)} : validate(c, cred) /\ plugins_preflight(c)
        /\ vetted' = vetted \cup {mode}
        /\ UNCHANGED <<plugVars, disk, overlay, cred, app, installed, keyGroups, changes>>

\* run: a refusal ends the process, which leaves nothing behind.
Boot ==
    \E mode \in Modes :
        /\ ~app.up
        /\ Resolvable(disk, Catalog)
        /\ \E c \in {LoadConfig(mode)} :
              /\ BuildFresh(c)
              /\ app' = BuiltApp(c, DOMAIN resolve(disk).hooks, c.store)
              /\ installed' = c.limits
        /\ UNCHANGED <<plugVars, disk, overlay, cred, keyGroups, vetted, changes>>

\* How a rollback ended: "applied", "cut off" by the end of the process, or
\* "unreverted", refused by the rebuild and not taken back on disk.
Ended(how) == {[name |-> r.name, ver |-> r.ver, end |-> how] : r \in rolling}

\* The process ends, whatever it is in the middle of.
Stop ==
    /\ app.up
    /\ app' = NoApp
    /\ rolling' = {} /\ rolledBack' = rolledBack \cup Ended("cut off")
    /\ uploads' = {}
    /\ UNCHANGED <<plugdir, pins, disk, overlay, cred, installed, keyGroups, vetted, changes>>
-----------------------------------------------------------------------------
(***************************************************************************)
(* The admin API of the running process.  What changes the configuration   *)
(* holds one lock (CONFIG_MUTATION_LOCK), and so does a whole rollback.    *)
(***************************************************************************)

Unlocked == app.up /\ rolling = {}

\* What reload and apply do with a resolved configuration: the limits are
\* installed before it is validated.
BuildAndSwap(c, baseNames) ==
    /\ installed' = c.limits
    /\ app' = IF BuildOver(c) THEN BuiltApp(c, baseNames, app.store) ELSE app
    /\ UNCHANGED <<plugVars, disk, overlay, cred, keyGroups, vetted>>

\* reload_config and reload_plugins: rebuild_app_from_disk.
reload_config ==
    /\ Unlocked
    /\ Resolvable(disk, Catalog)
    /\ \E c \in {LoadConfig("normal")} : BuildAndSwap(c, DOMAIN resolve(disk).hooks)
    /\ UNCHANGED changes

\* apply_config: a configuration in the body, without the overlay.
apply_config ==
    /\ Unlocked /\ changes < MaxChanges
    /\ \E d \in Edits(disk) :
          /\ Resolvable(d, Catalog)
          /\ \E c \in {resolve([d EXCEPT !.plugins.dir = plugdir])} : BuildAndSwap(c, DOMAIN c.hooks)
    /\ changes' = changes + 1

\* build_with_hook's checks on a definition: the grants of a name that exists
\* do not change, and the rest of the rules is left to the next build.
HookAccepted(r) ==
    /\ r.name # "" /\ r.name \notin ReservedHookNames
    /\ r.cfg.plugin # ""
    /\ ~(r.cfg.kind = "tap" /\ r.cfg.prompt = "rw")
    /\ r.name \in DOMAIN app.hooks =>
          app.hooks[r.name].kind = r.cfg.kind /\ app.hooks[r.name].prompt = r.cfg.prompt

\* The registry and what fires globally; the pools keep the gates they have.
Rewire(hooks, globals) ==
    app' = [app EXCEPT !.hooks = hooks, !.globals = globals,
                       !.fired = resolve_global_hooks(app.cfg, hooks, globals)]

\* register_hook, put_hook: a name that the file defines is refused.
register_hook ==
    \E r \in ApiHooks :
        /\ Unlocked /\ changes < MaxChanges
        /\ HookAccepted(r)
        /\ r.name \notin app.base
        /\ LET hs == [x \in DOMAIN app.hooks \cup {r.name} |-> IF x = r.name THEN r.cfg ELSE app.hooks[x]]
               gs == IF r.global THEN app.globals \cup {r.name} ELSE app.globals \ {r.name}
           IN  /\ Rewire(hs, gs)
               /\ overlay' = [hooks |-> hs, globals |-> gs, deleted |-> overlay.deleted \ DOMAIN hs]
        /\ vetted' = {}
        /\ changes' = changes + 1
        /\ UNCHANGED <<plugVars, disk, cred, installed, keyGroups>>

delete_hook ==
    \E n \in DOMAIN (IF app.up THEN app.hooks ELSE <<>>) :
        /\ Unlocked /\ changes < MaxChanges
        /\ n \notin app.base
        /\ LET hs == [x \in DOMAIN app.hooks \ {n} |-> app.hooks[x]]
               gs == app.globals \ {n}
           IN  /\ Rewire(hs, gs)
               /\ overlay' = [hooks |-> hs, globals |-> gs,
                              deleted |-> (overlay.deleted \cup {n}) \ DOMAIN hs]
        /\ vetted' = {}
        /\ changes' = changes + 1
        /\ UNCHANGED <<plugVars, disk, cred, installed, keyGroups>>

\* mint_key: the group is one of the running application's.  Keys of a memory
\* store do not outlive the process.
mint_key ==
    \E g \in KeyGroups \ keyGroups :
        /\ app.up /\ changes < MaxChanges
        /\ g \in DOMAIN app.cfg.groups
        /\ app.store # "memory"
        /\ keyGroups' = keyGroups \cup {g}
        /\ changes' = changes + 1
        /\ UNCHANGED <<plugVars, disk, overlay, cred, app, installed, vetted>>

\* A directory with tarball t under the name f.
Published(dir, f, t) == [x \in DOMAIN dir \cup {f} |-> IF x = f THEN t ELSE dir[x]]

\* A tarball is copied into the directory by hand.
DropPlugin ==
    /\ changes < MaxChanges
    /\ \E f \in Files, t \in Artifacts : plugdir' = Published(plugdir, f, t)
    /\ changes' = changes + 1
    /\ vetted' = {}
    /\ UNCHANGED <<disk, overlay, pins, rolling, rolledBack, uploads, cred, app, installed, keyGroups>>

\* install_plugin: the upload is checked against the directory as it is now,
\* under the posture of the application that is served now.
install_plugin ==
    /\ app.up /\ changes < MaxChanges
    /\ \E f \in Files, t \in Artifacts :
          /\ install_store_plugin(app.cfg.plugins, plugdir, f, t)
          /\ uploads' = uploads \cup {[file |-> f, tarball |-> t, seen |-> plugdir,
                                        policy |-> to_policy(app.cfg.plugins)]}
    /\ changes' = changes + 1
    /\ UNCHANGED <<disk, overlay, plugdir, pins, rolling, rolledBack, cred, app, installed, keyGroups, vetted>>

\* Its rename, which may fail, whatever the directory has become; what it
\* publishes is served after the next build.
publish_plugin(u) ==
    /\ plugdir' \in {plugdir, Published(plugdir, u.file, u.tarball)}
    /\ uploads' = uploads \ {u}
    /\ vetted' = IF plugdir' = plugdir THEN vetted ELSE {}
    /\ UNCHANGED <<disk, overlay, pins, rolling, rolledBack, cred, app, installed, keyGroups, changes>>

remove_plugin ==
    \E f \in DOMAIN plugdir :
        /\ app.up /\ changes < MaxChanges
        /\ plugdir' = [x \in DOMAIN plugdir \ {f} |-> plugdir[x]]
        /\ changes' = changes + 1
        /\ vetted' = {}
        /\ UNCHANGED <<disk, overlay, pins, rolling, rolledBack, uploads, cred, app, installed, keyGroups>>

\* rollback_plugin, up to the write of its pin, whose failure is only logged
\* (persist_plugin_versions).
rollback_plugin ==
    \E f \in DOMAIN plugdir :
      LET t == plugdir[f]
          ps == [n \in DOMAIN pins \cup {t.name} |-> IF n = t.name THEN t.ver ELSE pins[n]]
      IN  /\ Unlocked /\ changes < MaxChanges
          /\ resolve_plugin_rollback(app.cfg.plugins, t)
          /\ pins' \in {pins, ps}
          /\ rolling' = {[name |-> t.name, ver |-> t.ver, prior |-> pins]}
          /\ changes' = changes + 1
          /\ vetted' = {}
          /\ UNCHANGED <<disk, overlay, plugdir, rolledBack, uploads, cred, app, installed, keyGroups>>

\* The rebuild, which reads the pins from the overlay: it serves what it built, ...
rebuild_pinned ==
    /\ rolling # {}
    /\ Resolvable(disk, Catalog)
    /\ \E c \in {LoadConfig("normal")} :
          /\ BuildOver(c)
          /\ app' = BuiltApp(c, DOMAIN resolve(disk).hooks, app.store)
          /\ installed' = c.limits
    /\ rolling' = {} /\ rolledBack' = rolledBack \cup Ended("applied")
    /\ UNCHANGED <<disk, overlay, plugdir, pins, uploads, cred, keyGroups, vetted, changes>>

\* What a refused rollback writes to the overlay.
PinsAfterRefusal_Kept(r) == pins
PinsAfterRefusal(r) == r.prior

\* ... or it is refused, and the pins that were there before are written again,
\* if they can be.
rebuild_refused ==
    \E r \in rolling :
        /\ ~(Resolvable(disk, Catalog) /\ BuildOver(LoadConfig("normal")))
        /\ installed' = IF Resolvable(disk, Catalog) THEN LoadConfig("normal").limits ELSE installed
        /\ \/ pins' = PinsAfterRefusal(r) /\ rolledBack' = rolledBack
           \/ pins' = pins /\ rolledBack' = rolledBack \cup Ended("unreverted")
        /\ rolling' = {}
        /\ vetted' = {}
        /\ UNCHANGED <<disk, overlay, plugdir, uploads, cred, app, keyGroups, changes>>

Next ==
    \/ DropPlugin \/ install_plugin \/ remove_plugin
    \/ rollback_plugin \/ rebuild_pinned \/ rebuild_refused
    \/ Edit \/ SetEnv \/ validate_config_command \/ Boot \/ Stop
    \/ reload_config \/ apply_config \/ register_hook \/ delete_hook \/ mint_key
    \/ \E u \in uploads : publish_plugin(u)

Spec == Init /\ [][Next]_vars
-----------------------------------------------------------------------------
(***************************************************************************)
(* Properties                                                              *)
(***************************************************************************)

\* "A clean --validate means boot succeeds" (the command's help text): what
\* the command passed is not refused by the construction, whose own checks are
\* written separately, once the secrets it does not look at resolve and the
\* keys in the store, which it does not open, name groups that exist, and the
\* libraries, which it does not map, export the kind of their manifests.
CleanValidateBoots ==
    cred = "good" /\ (\A f \in DOMAIN plugdir : plugdir[f].exports = plugdir[f].kind) =>
        \A c \in {LoadConfig(mode) : mode \in vetted} :
            KeyGroupsExist(c, StoredKeyGroups(c)) => Resolvable(disk, Catalog) /\ BuildFresh(c)

\* The pools that an exhausted request goes through from p, with the guard of
\* the walk (visited_pools) that answers 503 when it comes back to one.
FallbackStep(pools, w) ==
    LET t == resolve_fallback_target(pools, w.at)
        q == CHOOSE x \in t : TRUE
    IN  IF w.looped \/ t = {} THEN w
        ELSE IF q \in w.seen THEN [w EXCEPT !.looped = TRUE]
        ELSE [at |-> q, seen |-> w.seen \cup {q}, looped |-> FALSE]
FallbackWalk(pools, p) ==
    LET walk[n \in 0 .. Cardinality(DOMAIN pools)] ==
            IF n = 0 THEN [at |-> p, seen |-> {p}, looped |-> FALSE]
            ELSE FallbackStep(pools, walk[n - 1])
    IN  walk

\* Whatever was edited, reloaded or applied, in the application being served
\* an exhausted pool degrades along its declared fallbacks and stops at a pool
\* that exists and has a lane to try: the guard against a ring never cuts the
\* walk short, and no pool of it is empty of lanes that may be chosen.
DegradesAsDeclared ==
    app.up =>
        \A p \in DOMAIN app.cfg.pools :
            LET w == FallbackWalk(app.cfg.pools, p)[Cardinality(DOMAIN app.cfg.pools)]
            IN  /\ ~w.looped
                /\ \A q \in w.seen :
                      /\ q \in DOMAIN app.cfg.pools
                      /\ \E x \in Range(app.cfg.pools[q].members) :
                            /\ x.weight > 0 /\ x.model \in DOMAIN app.cfg.models
                            /\ LaneAdmits(app.cfg, x.model)

\* A configuration that passed the check starts, and what is served has a lane
\* to try at the end of every fallback (config_validate, build_app).
ValidatedConfigServes == CleanValidateBoots /\ DegradesAsDeclared

\* Who decides for hook h when it is asked: h, or along the on_error names the
\* operator wrote, the first gate that is there and answers, or the name where
\* they come to rest.
Answers(replies, x) == x \in DOMAIN replies /\ replies[x].sent # "down"
DeclaredDecider(hooks, h, replies) ==
    LET at[n \in 0 .. Cardinality(DOMAIN hooks) + 1] ==
            IF n = 0 THEN h
            ELSE IF Answers(replies, at[n - 1]) THEN at[n - 1] ELSE OnErrorStep(hooks, at[n - 1])
    IN  at[Cardinality(DOMAIN hooks) + 1]

SomeReplies ==
    {DownReply, EmptyReply, [DownReply EXCEPT !.sent = "garbage"],
     [EmptyReply EXCEPT !.reject = TRUE, !.status = 200, !.order = <<"m1">>],
     [EmptyReply EXCEPT !.order = <<"m2", "gone", "m1", "m2">>]}

\* Whatever was edited, reloaded, registered or deleted, and whatever each of
\* its hooks sends back, a gate of a pool being served decides as the operator
\* declared: a hook that is asked and refuses is obeyed with a client error,
\* whatever else its reply holds; nobody is refused because a hook failed
\* unless its chain ends in "reject", and then everybody is; an order names
\* lanes of the pool, a hook's each once, a terminal's as the pool lists them.
\* Whether a reply that is not understood lets the request through is left
\* open: the code lets it, the documentation sends it down the chain.
GatesFailAsDeclared ==
    app.up =>
        \A p \in DOMAIN app.cfg.pools : \A g \in app.gates[p] \cup app.ordering[p] :
            \E cands \in {[i \in DOMAIN app.cfg.pools[p].members |-> app.cfg.pools[p].members[i].model]} :
            \A replies \in [{h \in DOMAIN app.cfg.hooks \cap Range(OnErrorWalk(app.cfg.hooks, g.hook)) :
                               gate_transport_named(app.cfg, app.cfg.hooks, h)} -> SomeReplies] :
            \E o \in {decide_policy_order(g, cands, replies)},
               d \in {DeclaredDecider(app.cfg.hooks, g.hook, replies)} :
                /\ IF d \in DOMAIN replies
                   THEN /\ replies[d].sent # "garbage" =>
                              IF replies[d].reject
                              THEN o.kind = "reject_request" /\ o.status \in 400 .. 499
                              ELSE o.kind \notin {"reject", "reject_request"}
                        /\ IsInjective(o.order)
                   ELSE /\ d \in Terminals \cup Strategies
                        /\ o.kind = "reject" <=> d = "reject"
                        /\ d \in Terminals => o.order \in {<<>>, cands}
                /\ Range(o.order) \subseteq Range(cands)

\* "Never publish a state boot will refuse" (install_store_plugin): a process
\* that could be restarted before an upload is published can be restarted after
\* it, as long as the file on disk has the posture of the application that
\* checked the upload, and the upload does not take the place of another
\* plugin.  The check is made earlier, and no lock is held since: where another
\* upload was published under another name meanwhile, nothing is claimed, and
\* two installs at once can indeed leave what boot refuses.
BootableWith(dir) ==
    Resolvable(disk, Catalog) /\ \E c \in {LoadConfigWith("normal", dir, pins)} : BuildFresh(c)
Undisturbed(u) ==
    \A f \in DOMAIN plugdir \ {u.file} : f \in DOMAIN u.seen /\ plugdir[f] = u.seen[f]
Supersedes(u) ==
    u.file \in DOMAIN plugdir =>
        LET t == plugdir[u.file]
        IN  /\ u.tarball.name = t.name /\ u.tarball.alias = t.alias
            /\ u.tarball.kind = t.kind /\ u.tarball.exports = t.exports
PublishLeavesBootable ==
    \A u \in uploads :
        /\ publish_plugin(u) /\ plugdir' # plugdir
        /\ u.policy = to_policy(apply_plugin_versions_to_deploy(disk.plugins, pins))
        /\ Undisturbed(u) /\ Supersedes(u)
        => \A dir \in {plugdir'} : BootableWith(plugdir) => BootableWith(dir)
InstallKeepsBootable == [][PublishLeavesBootable]_vars

\* Only an explicit rollback lets an old release load: no plugin of the
\* application being served is a first-party release older than the binary and
\* than every version an operator rolled back to.  The rollback was answered
\* with success, or it pinned and the process died before an answer, or it was
\* refused when the overlay could not be written; one that was refused and
\* taken back leaves no trace that a later boot would honour, and an old
\* artifact in the directory stays inert across every reload.
DowngradeOnlyByRollback ==
    app.up =>
        \A f \in LoadableFiles(app.cfg.plugins.dir, to_policy(app.cfg.plugins)) :
            LET t == app.cfg.plugins.dir[f]
            IN  TrustOf(t, to_policy(app.cfg.plugins)) = "first_party" /\ t.ver < BinaryVersion =>
                    \E r \in rolledBack : r.ver <= t.ver
=============================================================================
