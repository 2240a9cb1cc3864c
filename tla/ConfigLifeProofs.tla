-------------------------- MODULE ConfigLifeProofs --------------------------
(***************************************************************************)
(* Proofs about ConfigLife, for any configuration, catalog, edits, hooks,  *)
(* tarballs and number of changes: what the command passed boots, what is  *)
(* served degrades as declared, an old release loads only after a          *)
(* rollback, an install leaves a directory the next boot accepts, and the  *)
(* gates of a pool decide as declared whatever their hooks send back.      *)
(***************************************************************************)
EXTENDS ConfigLife, FiniteSetTheorems, WellFoundedInduction, TLAPS

(***************************************************************************)
(* The shape of a configuration                                            *)
(***************************************************************************)

\* The counts of a configuration that is served are those of a file.
WellTyped(c) ==
  /\ IsFiniteSet(DOMAIN c.pools)
  /\ \A p \in DOMAIN c.pools : \A x \in Range(c.pools[p].members) : x.weight \in Nat
  /\ \A m \in DOMAIN c.models :
       c.models[m].max_concurrent \in Nat \cup {Unbounded} /\ c.models[m].max_requests \in Int

\* A file that parses, but for the floor that a pin gives it.
Shaped(d) ==
  /\ DOMAIN d = RootFields /\ DOMAIN d.plugins = PluginFields
  /\ \A p \in DOMAIN d.pools : DOMAIN d.pools[p] = PoolFields
  /\ WellTyped(d)

\* What parses has the shape, and no floor.
LEMMA ParsedShape ==
  ASSUME NEW d, Parses(d)
  PROVE  Shaped(d) /\ d.plugins.first_party_floor = NoFloor
BY DEF Parses, Shaped, WellTyped

\* resolve leaves all alone but the hooks, their wiring and the pools' gates.
LEMMA ResolvedParts ==
  ASSUME NEW d, Shaped(d)
  PROVE  /\ DOMAIN resolve(d) = RootFields
         /\ \A f \in RootFields \ {"hooks", "global_hooks", "pools"} : resolve(d)[f] = d[f]
         /\ DOMAIN resolve(d).pools = DOMAIN d.pools
         /\ \A p \in DOMAIN d.pools : resolve(d).pools[p].members = d.pools[p].members
<1> DEFINE ps == RegisterPools(d.pools)
           gl == RegisterAll(ps.hooks, d.global_hooks)
           pp == [p \in DOMAIN d.pools |-> [d.pools[p] EXCEPT !.gates = Range(ps.gates[p]), !.hooks = <<>>]]
<1>1. resolve(d) = [d EXCEPT !.hooks = gl.hooks, !.global_hooks = Range(gl.names), !.pools = pp]
  BY DEF resolve
<1> HIDE DEF ps, gl
<1>2. DOMAIN d = RootFields /\ "pools" \in RootFields
  BY DEF Shaped, RootFields
<1>3. DOMAIN resolve(d) = RootFields /\ resolve(d).pools = pp
  BY <1>1, <1>2
<1>4. \A f \in RootFields \ {"hooks", "global_hooks", "pools"} : resolve(d)[f] = d[f]
  BY <1>1, <1>2
<1>5. \A p \in DOMAIN d.pools : pp[p].members = d.pools[p].members
  BY DEF Shaped, PoolFields
<1> QED
  BY <1>3, <1>4, <1>5

\* The first-party floor that pins stand for.
FloorOf(ps) ==
  IF ps = <<>> \/ DOMAIN ps = {} THEN NoFloor
  ELSE CHOOSE v \in Range(ps) : \A w \in Range(ps) : v <= w

\* apply_plugin_versions_to_deploy replaces the floors and nothing else.
LEMMA PinnedParts ==
  ASSUME NEW pc, DOMAIN pc = PluginFields, NEW ps
  PROVE  LET q == apply_plugin_versions_to_deploy(pc, ps)
         IN  /\ DOMAIN q = PluginFields
             /\ q.first_party_floor = FloorOf(ps)
             /\ \A f \in PluginFields \ {"min_versions", "first_party_floor"} : q[f] = pc[f]
<1> DEFINE mv == [n \in DOMAIN pc.min_versions \cup DOMAIN ps |->
                    IF n \in DOMAIN ps THEN ps[n] ELSE pc.min_versions[n]]
<1>1. apply_plugin_versions_to_deploy(pc, ps)
        = [pc EXCEPT !.min_versions = mv, !.first_party_floor = FloorOf(ps)]
  BY DEF apply_plugin_versions_to_deploy, FloorOf
<1> HIDE DEF mv
<1> QED
  BY <1>1 DEF PluginFields

\* The directory of a plugins block is replaced by what is in it now.
LEMMA DirParts ==
  ASSUME NEW pc, DOMAIN pc = PluginFields, NEW dir
  PROVE  /\ DOMAIN [pc EXCEPT !.dir = dir] = PluginFields
         /\ [pc EXCEPT !.dir = dir].dir = dir
         /\ \A f \in PluginFields \ {"dir"} : [pc EXCEPT !.dir = dir][f] = pc[f]
BY DEF PluginFields

\* A file whose plugins block was replaced has the shape still.
LEMMA OtherPlugins ==
  ASSUME NEW d, Shaped(d), NEW q, DOMAIN q = PluginFields
  PROVE  /\ Shaped([d EXCEPT !.plugins = q])
         /\ [d EXCEPT !.plugins = q].plugins = q
         /\ \A f \in RootFields \ {"plugins"} : [d EXCEPT !.plugins = q][f] = d[f]
<1> DEFINE e == [d EXCEPT !.plugins = q]
<1>1. DOMAIN e = RootFields /\ e.plugins = q /\ e.pools = d.pools /\ e.models = d.models
  BY DEF Shaped, RootFields
<1>2. \A f \in RootFields \ {"plugins"} : e[f] = d[f]
  BY DEF Shaped, RootFields
<1> HIDE DEF e
<1>3. Shaped(e)
  BY <1>1 DEF Shaped, WellTyped
<1> QED
  BY <1>1, <1>2, <1>3 DEF e

\* merge_into replaces the hooks and their wiring.
LEMMA MergedParts ==
  ASSUME NEW c, NEW doc, DOMAIN c = RootFields
  PROVE  /\ DOMAIN MergeInto(c, doc) = RootFields
         /\ \A f \in RootFields \ {"hooks", "global_hooks"} : MergeInto(c, doc)[f] = c[f]
BY DEF MergeInto, RootFields

\* A configuration c with the counts of a file, the plugins block of the one on
\* disk, the directory as it is and the floor of the pins.
LoadedFrom(c, dir, ps) ==
  /\ WellTyped(c)
  /\ c.plugins = apply_plugin_versions_to_deploy([disk.plugins EXCEPT !.dir = dir], ps)
  /\ c.plugins.dir = dir
  /\ c.plugins.first_party_floor = FloorOf(ps)

\* That is what load_config_from_disk makes of a file that parses.
LEMMA LoadedParts ==
  ASSUME NEW mode, NEW dir, NEW ps, Parses(disk)
  PROVE  LoadedFrom(LoadConfigWith(mode, dir, ps), dir, ps)
<1> DEFINE q == apply_plugin_versions_to_deploy([disk.plugins EXCEPT !.dir = dir], ps)
           d == [disk EXCEPT !.plugins = q]
           doc == IF mode = "safe" THEN EmptyOverlay ELSE overlay
           c == MergeInto(resolve(d), doc)
<1>1. LoadConfigWith(mode, dir, ps) = c
  BY DEF LoadConfigWith
<1>2. Shaped(disk)
  BY ParsedShape
<1>3. DOMAIN q = PluginFields /\ q.first_party_floor = FloorOf(ps) /\ q.dir = dir
  BY <1>2, DirParts, PinnedParts DEF Shaped, PluginFields
<1> HIDE DEF q
<1>4. Shaped(d) /\ d.plugins = q
  BY <1>2, <1>3, OtherPlugins
<1> HIDE DEF d, doc
<1>5. /\ DOMAIN c = RootFields /\ c.plugins = q /\ c.models = d.models /\ c.pools = resolve(d).pools
  BY <1>4, ResolvedParts, MergedParts DEF RootFields
<1>6. WellTyped(c)
  BY <1>4, <1>5, ResolvedParts DEF Shaped, WellTyped
<1> QED
  BY <1>1, <1>3, <1>5, <1>6 DEF q, LoadedFrom

\* What apply_config makes of a body that parses.
LEMMA AppliedParts ==
  ASSUME NEW d, NEW dir, Parses(d)
  PROVE  LET c == resolve([d EXCEPT !.plugins.dir = dir])
         IN  WellTyped(c) /\ c.plugins.first_party_floor = NoFloor
<1> DEFINE q == [d.plugins EXCEPT !.dir = dir]
           e == [d EXCEPT !.plugins = q]
<1>1. [d EXCEPT !.plugins.dir = dir] = e
  OBVIOUS
<1>2. Shaped(d) /\ d.plugins.first_party_floor = NoFloor
  BY ParsedShape
<1>3. DOMAIN q = PluginFields /\ q.first_party_floor = NoFloor
  BY <1>2, DirParts DEF Shaped, PluginFields
<1> HIDE DEF q
<1>4. Shaped(e) /\ e.plugins = q
  BY <1>2, <1>3, OtherPlugins
<1> HIDE DEF e
<1>5. /\ resolve(e).plugins = q /\ resolve(e).models = e.models
      /\ DOMAIN resolve(e).pools = DOMAIN e.pools
      /\ \A p \in DOMAIN e.pools : resolve(e).pools[p].members = e.pools[p].members
  BY <1>4, ResolvedParts DEF RootFields
<1>6. WellTyped(resolve(e))
  BY <1>4, <1>5 DEF Shaped, WellTyped
<1> QED
  BY <1>1, <1>3, <1>5, <1>6

(***************************************************************************)
(* What a step does to the application                                     *)
(***************************************************************************)

\* A process that is down serves nothing.
LEMMA DownIsDown == ~NoApp.up
BY Zenon DEF NoApp

\* The application built from c is up, and its configuration is c.
LEMMA BuiltParts ==
  ASSUME NEW c, NEW baseNames, NEW store
  PROVE  LET a == BuiltApp(c, baseNames, store)
         IN  a.up /\ a.cfg = c /\ {"up", "cfg"} \subseteq DOMAIN a
<1>1. /\ BuiltApp(c, baseNames, store).cfg = c
      /\ {"up", "cfg"} \subseteq DOMAIN BuiltApp(c, baseNames, store)
  BY DEF BuiltApp
<1>2. BuiltApp(c, baseNames, store).up
  BY Zenon DEF BuiltApp
<1> QED
  BY <1>1, <1>2

\* The application serves the configuration it served, or none.
SameServed ==
  app'.up => app.up /\ app'.cfg = app.cfg /\ {"up", "cfg"} \subseteq DOMAIN app'

\* The application is one that was just built from c: validated, with the
\* counts of a file, and with no floor or that of the pins there are now.
FreshlyServed(c) ==
  /\ app'.up /\ app'.cfg = c /\ {"up", "cfg"} \subseteq DOMAIN app'
  /\ validate(c, cred) /\ WellTyped(c)
  /\ c.plugins.first_party_floor \in {NoFloor, FloorOf(pins')}

\* An application that is up has a configuration.
AppShaped == app.up => {"up", "cfg"} \subseteq DOMAIN app

\* Registering and deleting hooks leaves the configuration alone.
LEMMA RewireKeeps ==
  ASSUME NEW hooks, NEW globals, app.up, AppShaped, Rewire(hooks, globals)
  PROVE  SameServed
<1> DEFINE fired == resolve_global_hooks(app.cfg, hooks, globals)
<1>1. app' = [app EXCEPT !.hooks = hooks, !.globals = globals, !.fired = fired]
  BY DEF Rewire
<1> HIDE DEF fired
<1>2. {"up", "cfg"} \subseteq DOMAIN app
  BY DEF AppShaped
<1>3. DOMAIN app' = DOMAIN app /\ app'.cfg = app.cfg
  BY <1>1, <1>2
<1> QED
  BY <1>2, <1>3 DEF SameServed

\* A build over the running process serves what it validated or what it did.
LEMMA SwapServes ==
  ASSUME AppShaped, app.up, NEW c, NEW baseNames, BuildAndSwap(c, baseNames),
         WellTyped(c), c.plugins.first_party_floor \in {NoFloor, FloorOf(pins)}
  PROVE  SameServed \/ FreshlyServed(c)
<1>1. pins' = pins /\ app' = IF BuildOver(c) THEN BuiltApp(c, baseNames, app.store) ELSE app
  BY DEF BuildAndSwap, plugVars
<1>2. CASE ~BuildOver(c)
  BY <1>1, <1>2 DEF SameServed, AppShaped
<1>3. CASE BuildOver(c)
  <2>1. app' = BuiltApp(c, baseNames, app.store) /\ validate(c, cred)
    BY <1>1, <1>3 DEF BuildOver
  <2>2. FloorOf(pins') = FloorOf(pins)
    BY <1>1
  <2> QED
    BY <2>1, <2>2, BuiltParts DEF FreshlyServed
<1> QED
  BY <1>2, <1>3

\* No pins, no floor.
LEMMA NoPins == FloorOf([n \in {} |-> NoFloor]) = NoFloor
BY DEF FloorOf

\* A step leaves the configuration that is served, or replaces it by one that
\* was validated when it was built.
LEMMA ServedStep ==
  ASSUME AppShaped, [Next]_vars
  PROVE  SameServed \/ \E c : FreshlyServed(c)
<1>1. CASE app' = app
  BY <1>1 DEF SameServed, AppShaped
<1>2. CASE Boot
  <2>1. PICK mode \in Modes : /\ Resolvable(disk, Catalog) /\ BuildFresh(LoadConfig(mode))
                              /\ app' = BuiltApp(LoadConfig(mode), DOMAIN resolve(disk).hooks, LoadConfig(mode).store)
    BY <1>2 DEF Boot
  <2> DEFINE ps == IF mode = "safe" THEN [n \in {} |-> NoFloor] ELSE pins
             c == LoadConfigWith(mode, plugdir, ps)
  <2>2. LoadConfig(mode) = c /\ pins' = pins
    BY <1>2 DEF LoadConfig, Boot, plugVars
  <2> HIDE DEF ps
  <2>3. WellTyped(c) /\ c.plugins.first_party_floor = FloorOf(ps)
    <3>1. Parses(disk)
      BY <2>1 DEF Resolvable
    <3>2. LoadedFrom(c, plugdir, ps)
      BY <3>1, LoadedParts
    <3> HIDE DEF c
    <3> QED
      BY <3>2 DEF LoadedFrom
  <2> USE DEF ps
  <2>4. FloorOf(ps) \in {NoFloor, FloorOf(pins')}
    BY <2>2, NoPins
  <2>5. validate(c, cred)
    BY <2>1, <2>2 DEF BuildFresh, BuildOver
  <2> HIDE DEF c, ps
  <2>6. FreshlyServed(c)
    BY <2>1, <2>2, <2>3, <2>4, <2>5, BuiltParts DEF FreshlyServed
  <2> QED
    BY <2>6
<1>3. CASE Stop
  BY <1>3, DownIsDown DEF Stop, SameServed
<1>4. CASE reload_config
  <2>1. app.up /\ Resolvable(disk, Catalog) /\ BuildAndSwap(LoadConfig("normal"), DOMAIN resolve(disk).hooks)
    BY <1>4 DEF reload_config, Unlocked
  <2>2. LoadConfig("normal") = LoadConfigWith("normal", plugdir, pins)
    BY DEF LoadConfig
  <2>3. WellTyped(LoadConfig("normal")) /\ LoadConfig("normal").plugins.first_party_floor = FloorOf(pins)
    <3>1. Parses(disk)
      BY <2>1 DEF Resolvable
    <3>2. LoadedFrom(LoadConfig("normal"), plugdir, pins)
      BY <2>2, <3>1, LoadedParts
    <3> QED
      BY <3>2 DEF LoadedFrom
  <2> QED
    BY <2>1, <2>3, SwapServes
<1>5. CASE apply_config
  <2>1. PICK d \in Edits(disk) : /\ app.up /\ Resolvable(d, Catalog)
                                 /\ LET c == resolve([d EXCEPT !.plugins.dir = plugdir])
                                    IN  BuildAndSwap(c, DOMAIN c.hooks)
    BY <1>5 DEF apply_config, Unlocked
  <2> DEFINE c == resolve([d EXCEPT !.plugins.dir = plugdir])
  <2>2. WellTyped(c) /\ c.plugins.first_party_floor = NoFloor
    BY <2>1, AppliedParts DEF Resolvable
  <2>3. BuildAndSwap(c, DOMAIN c.hooks)
    BY <2>1
  <2> HIDE DEF c
  <2> QED
    BY <2>1, <2>2, <2>3, SwapServes
<1>6. CASE register_hook
  <2>1. app.up /\ \E hs, gs : Rewire(hs, gs)
    BY <1>6, Zenon DEF register_hook, Unlocked
  <2> QED
    BY <2>1, RewireKeeps
<1>7. CASE delete_hook
  <2>1. app.up /\ \E hs, gs : Rewire(hs, gs)
    BY <1>7, Zenon DEF delete_hook, Unlocked
  <2> QED
    BY <2>1, RewireKeeps
<1>8. CASE rebuild_pinned
  <2> DEFINE c == LoadConfigWith("normal", plugdir, pins)
  <2>1. /\ Resolvable(disk, Catalog) /\ BuildOver(LoadConfig("normal")) /\ pins' = pins
        /\ app' = BuiltApp(LoadConfig("normal"), DOMAIN resolve(disk).hooks, app.store)
    BY <1>8 DEF rebuild_pinned
  <2>2. LoadConfig("normal") = c
    BY DEF LoadConfig
  <2>3. WellTyped(c) /\ c.plugins.first_party_floor = FloorOf(pins)
    <3>1. Parses(disk)
      BY <2>1 DEF Resolvable
    <3>2. LoadedFrom(c, plugdir, pins)
      BY <3>1, LoadedParts
    <3> HIDE DEF c
    <3> QED
      BY <3>2 DEF LoadedFrom
  <2> HIDE DEF c
  <2>4. validate(c, cred) /\ FloorOf(pins') = FloorOf(pins)
    BY <2>1, <2>2 DEF BuildOver
  <2>5. FreshlyServed(c)
    BY <2>1, <2>2, <2>3, <2>4, BuiltParts DEF FreshlyServed
  <2> QED
    BY <2>5
<1>9. CASE \/ DropPlugin \/ install_plugin \/ remove_plugin \/ rollback_plugin \/ rebuild_refused
           \/ Edit \/ SetEnv \/ validate_config_command \/ mint_key \/ \E u \in uploads : publish_plugin(u)
  <2>1. app' = app
    BY <1>9 DEF DropPlugin, install_plugin, remove_plugin, rollback_plugin, rebuild_refused, Edit, SetEnv,
                validate_config_command, mint_key, publish_plugin
  <2> QED
    BY <2>1, <1>1
<1>10. CASE UNCHANGED vars
  BY <1>10, <1>1 DEF vars
<1> QED
  BY <1>2, <1>3, <1>4, <1>5, <1>6, <1>7, <1>8, <1>9, <1>10 DEF Next

(***************************************************************************)
(* An old release loads only after a rollback                              *)
(***************************************************************************)

\* A set of naturals that is not empty has a least member.
LEMMA LeastNatural ==
  ASSUME NEW S, S \subseteq Nat, S # {}
  PROVE  \E v \in S : \A w \in S : v <= w
<1>1. \E x \in S : \A y \in S : ~(<<y, x>> \in OpToRel(<, Nat))
  BY NatLessThanWellFounded, WFMin
<1>2. PICK x \in S : \A y \in S : ~(<<y, x>> \in OpToRel(<, Nat))
  BY <1>1
<1>3. \A y \in S : ~(y < x)
  BY <1>2 DEF OpToRel
<1> QED
  BY <1>3

\* The versions that ps pins are those of the rollbacks rb.
PinnedBy(ps, rb) == \A n \in DOMAIN ps : ps[n] \in Nat /\ \E r \in rb : r.ver = ps[n]

\* Every pin is that of a rollback that was not taken back or is in progress,
\* and the one in progress takes its own back.
PinsAreRollbacks ==
  /\ PinnedBy(pins, rolledBack \cup rolling)
  /\ \A r \in rolling : PinnedBy(r.prior, rolledBack)

\* v is no floor, or a version of the rollbacks rb.
RolledBackTo(v, rb) == v = NoFloor \/ \E r \in rb : r.ver = v /\ v \in Nat

\* The floor of the pins is the version of one of them.
LEMMA FloorIsRollback ==
  ASSUME NEW ps, NEW rb, PinnedBy(ps, rb)
  PROVE  RolledBackTo(FloorOf(ps), rb)
<1>1. CASE DOMAIN ps = {}
  BY <1>1 DEF FloorOf, RolledBackTo
<1>2. CASE DOMAIN ps # {} /\ ps = <<>>
  BY <1>2 DEF FloorOf, RolledBackTo
<1>3. CASE DOMAIN ps # {} /\ ps # <<>>
  <2>1. Range(ps) \subseteq Nat /\ Range(ps) # {}
    BY <1>3 DEF Range, PinnedBy
  <2>2. \E v \in Range(ps) : \A w \in Range(ps) : v <= w
    BY <2>1, LeastNatural
  <2>3. FloorOf(ps) \in Range(ps)
    BY <2>2, <1>3 DEF FloorOf
  <2>4. PICK n \in DOMAIN ps : FloorOf(ps) = ps[n]
    BY <2>3 DEF Range
  <2> QED
    BY <2>4 DEF RolledBackTo, PinnedBy
<1> QED
  BY <1>1, <1>2, <1>3

\* The floor of the application being served is a rollback's.
FloorIsServed == app.up => RolledBackTo(app.cfg.plugins.first_party_floor, rolledBack)

\* A rollback is in progress in a process that is up.
RollingServes == rolling # {} => app.up

RollbackInv == AppShaped /\ RollingServes /\ PinsAreRollbacks /\ FloorIsServed

\* A rollback that ended has the version it had.
LEMMA EndedVersions ==
  ASSUME NEW how
  PROVE  \A r \in rolling : \E e \in Ended(how) : e.ver = r.ver
<1> SUFFICES ASSUME NEW r \in rolling
             PROVE  \E e \in Ended(how) : e.ver = r.ver
  OBVIOUS
<1>1. [name |-> r.name, ver |-> r.ver, end |-> how] \in Ended(how)
  BY DEF Ended
<1> QED
  BY <1>1

\* What was pinned by rollbacks, one of which has ended, is pinned still.
LEMMA PinnedByEnded ==
  ASSUME NEW ps, NEW how, PinnedBy(ps, rolledBack \cup rolling)
  PROVE  PinnedBy(ps, rolledBack \cup Ended(how))
BY EndedVersions DEF PinnedBy

\* A step that serves another application is under the lock, or boots.
LEMMA RollingStep ==
  ASSUME RollingServes, [Next]_vars
  PROVE  RollingServes' /\ (app' # app => rolling' = {})
<1>1. CASE Boot
  <2>1. rolling = {} /\ rolling' = rolling
    BY <1>1 DEF Boot, RollingServes, plugVars
  <2> QED
    BY <2>1 DEF RollingServes
<1>2. CASE Stop \/ rebuild_pinned \/ rebuild_refused
  <2>1. rolling' = {}
    BY <1>2 DEF Stop, rebuild_pinned, rebuild_refused
  <2> QED
    BY <2>1 DEF RollingServes
<1>3. CASE reload_config \/ apply_config \/ register_hook \/ delete_hook
  <2>1. rolling = {} /\ rolling' = rolling
    BY <1>3 DEF reload_config, apply_config, register_hook, delete_hook, BuildAndSwap, Unlocked, plugVars
  <2> QED
    BY <2>1 DEF RollingServes
<1>4. CASE rollback_plugin
  <2>1. app.up /\ app' = app
    BY <1>4 DEF rollback_plugin, Unlocked
  <2> QED
    BY <2>1 DEF RollingServes
<1>5. CASE \/ DropPlugin \/ install_plugin \/ remove_plugin \/ Edit \/ SetEnv \/ validate_config_command
           \/ mint_key \/ (\E u \in uploads : publish_plugin(u)) \/ UNCHANGED vars
  <2>1. rolling' = rolling /\ app' = app
    BY <1>5 DEF DropPlugin, install_plugin, remove_plugin, Edit, SetEnv, validate_config_command, mint_key,
                publish_plugin, plugVars, vars
  <2> QED
    BY <2>1 DEF RollingServes
<1> QED
  BY <1>1, <1>2, <1>3, <1>4, <1>5 DEF Next

\* Only a rollback pins, and it is remembered unless it is taken back.
LEMMA PinsStep ==
  ASSUME PinsAreRollbacks, [Next]_vars
  PROVE  PinsAreRollbacks' /\ rolledBack \subseteq rolledBack'
<1>1. CASE pins' = pins /\ rolledBack' = rolledBack /\ rolling' = rolling
  BY <1>1 DEF PinsAreRollbacks, PinnedBy
<1>2. CASE rollback_plugin
  <2>1. PICK f \in DOMAIN plugdir :
          LET t == plugdir[f]
              ps == [n \in DOMAIN pins \cup {t.name} |-> IF n = t.name THEN t.ver ELSE pins[n]]
          IN  /\ resolve_plugin_rollback(app.cfg.plugins, t)
              /\ pins' \in {pins, ps} /\ rolledBack' = rolledBack /\ rolling = {}
              /\ rolling' = {[name |-> t.name, ver |-> t.ver, prior |-> pins]}
    BY <1>2 DEF rollback_plugin, Unlocked
  <2> DEFINE t == plugdir[f]
             ps == [n \in DOMAIN pins \cup {t.name} |-> IF n = t.name THEN t.ver ELSE pins[n]]
             q == [name |-> t.name, ver |-> t.ver, prior |-> pins]
  <2>2. t.ver \in Nat
    BY <2>1 DEF resolve_plugin_rollback, validate_structure
  <2>3. PinnedBy(pins, rolledBack)
    BY <2>1 DEF PinsAreRollbacks
  <2>4. rolling' = {q} /\ q.ver = t.ver /\ q.prior = pins
    BY <2>1
  <2>5. PinnedBy(ps, rolledBack \cup {q})
    <3> SUFFICES ASSUME NEW n \in DOMAIN ps
                 PROVE  ps[n] \in Nat /\ \E r \in rolledBack \cup {q} : r.ver = ps[n]
      BY DEF PinnedBy
    <3>1. CASE n = t.name
      BY <2>2, <2>4, <3>1
    <3>2. CASE n # t.name
      BY <2>3, <3>2 DEF PinnedBy
    <3> QED
      BY <3>1, <3>2
  <2>6. PinnedBy(pins, rolledBack \cup {q})
    BY <2>3 DEF PinnedBy
  <2>7. pins' \in {pins, ps} /\ rolledBack' = rolledBack
    BY <2>1
  <2> HIDE DEF ps, q
  <2> QED
    BY <2>3, <2>4, <2>5, <2>6, <2>7 DEF PinsAreRollbacks
<1>3. CASE rebuild_pinned \/ Stop
  <2>1. PICK how : pins' = pins /\ rolling' = {} /\ rolledBack' = rolledBack \cup Ended(how)
    BY <1>3 DEF rebuild_pinned, Stop
  <2>2. PinnedBy(pins, rolledBack \cup Ended(how))
    BY PinnedByEnded DEF PinsAreRollbacks
  <2> QED
    BY <2>1, <2>2 DEF PinsAreRollbacks
<1>4. CASE rebuild_refused
  <2>1. PICK r \in rolling :
          /\ rolling' = {}
          /\ \/ pins' = r.prior /\ rolledBack' = rolledBack
             \/ pins' = pins /\ rolledBack' = rolledBack \cup Ended("unreverted")
    BY <1>4 DEF rebuild_refused, PinsAfterRefusal
  <2>2. CASE pins' = r.prior /\ rolledBack' = rolledBack
    BY <2>1, <2>2 DEF PinsAreRollbacks
  <2>3. CASE pins' = pins /\ rolledBack' = rolledBack \cup Ended("unreverted")
    <3>1. PinnedBy(pins, rolledBack \cup Ended("unreverted"))
      BY PinnedByEnded DEF PinsAreRollbacks
    <3> QED
      BY <2>1, <2>3, <3>1 DEF PinsAreRollbacks
  <2> QED
    BY <2>1, <2>2, <2>3
<1>5. CASE UNCHANGED <<pins, rolledBack, rolling>>
  BY <1>5, <1>1
<1>6. ~(rollback_plugin \/ rebuild_pinned \/ rebuild_refused \/ Stop) => UNCHANGED <<pins, rolledBack, rolling>>
  BY DEF Next, vars, plugVars, DropPlugin, install_plugin, publish_plugin, remove_plugin, Edit, SetEnv,
         validate_config_command, Boot, reload_config, apply_config, BuildAndSwap,
         register_hook, delete_hook, mint_key
<1> QED
  BY <1>2, <1>3, <1>4, <1>5, <1>6

\* The invariant of the rollbacks holds at the start.
LEMMA RollbackInit ==
  ASSUME Init
  PROVE  RollbackInv
BY DownIsDown DEF Init, RollbackInv, AppShaped, RollingServes, PinsAreRollbacks, PinnedBy, FloorIsServed

\* And every step keeps it.
LEMMA RollbackStep ==
  ASSUME RollbackInv, [Next]_vars
  PROVE  RollbackInv'
<1>1. PinsAreRollbacks' /\ rolledBack \subseteq rolledBack'
  BY PinsStep DEF RollbackInv
<1>r. RollingServes' /\ (app' # app => rolling' = {})
  BY RollingStep DEF RollbackInv
<1>2. CASE SameServed \/ app' = app
  BY <1>1, <1>r, <1>2 DEF RollbackInv, AppShaped, FloorIsServed, SameServed, RolledBackTo
<1>3. CASE app' # app /\ \E c : FreshlyServed(c)
  <2>1. PICK c : FreshlyServed(c)
    BY <1>3
  <2>p. PinnedBy(pins', rolledBack')
    BY <1>1, <1>r, <1>3 DEF PinsAreRollbacks
  <2>2. RolledBackTo(FloorOf(pins'), rolledBack')
    BY <2>p, FloorIsRollback
  <2>3. RolledBackTo(NoFloor, rolledBack')
    BY DEF RolledBackTo
  <2> QED
    BY <1>1, <1>r, <2>1, <2>2, <2>3 DEF RollbackInv, AppShaped, FloorIsServed, FreshlyServed
<1> QED
  BY <1>2, <1>3, ServedStep DEF RollbackInv

\* A first-party release below the floor of the binary is loadable only when a
\* rollback lowered the floor to it.
LEMMA OldReleaseNeedsRollback ==
  ASSUME RollbackInv
  PROVE  DowngradeOnlyByRollback
<1> SUFFICES ASSUME app.up,
                    NEW f \in LoadableFiles(app.cfg.plugins.dir, to_policy(app.cfg.plugins)),
                    TrustOf(app.cfg.plugins.dir[f], to_policy(app.cfg.plugins)) = "first_party",
                    app.cfg.plugins.dir[f].ver < BinaryVersion
             PROVE  \E r \in rolledBack : r.ver <= app.cfg.plugins.dir[f].ver
  BY DEF DowngradeOnlyByRollback
<1> DEFINE pc == app.cfg.plugins
           t == pc.dir[f]
           v == pc.first_party_floor
<1>1. examine(t, to_policy(pc)) = "loadable"
  BY DEF LoadableFiles
<1>2. validate_structure(t) /\ evaluate(t, to_policy(pc))
  BY <1>1 DEF examine
<1>3. t.ver \in Nat /\ version_at_least(t.ver, to_policy(pc).binary_version)
  BY <1>2 DEF validate_structure, evaluate
<1>4. to_policy(pc).binary_version = IF v = NoFloor THEN BinaryVersion ELSE v
  BY DEF to_policy, to_policy_with_floor
<1>5. RolledBackTo(v, rolledBack)
  BY DEF RollbackInv, FloorIsServed
<1> HIDE DEF t, v, pc
<1>6. v # NoFloor /\ v <= t.ver
  BY <1>3, <1>4 DEF version_at_least, BinaryVersion, t, pc
<1>7. PICK r \in rolledBack : r.ver = v
  BY <1>5, <1>6 DEF RolledBackTo
<1> QED
  BY <1>6, <1>7 DEF t, pc

\* Whatever is edited, dropped, installed, removed, reloaded or applied, and
\* wherever the process dies, no plugin of the application being served is a
\* first-party release older than the binary and than every version of a
\* rollback that was not taken back (rollback_plugin, to_policy_with_floor).
THEOREM OldReleasesStayOut == Spec => []DowngradeOnlyByRollback
<1>1. Init => RollbackInv
  BY RollbackInit
<1>2. RollbackInv /\ [Next]_vars => RollbackInv'
  BY RollbackStep
<1>3. RollbackInv => DowngradeOnlyByRollback
  BY OldReleaseNeedsRollback
<1> QED
  BY <1>1, <1>2, <1>3, PTL DEF Spec

(***************************************************************************)
(* Iteration                                                               *)
(***************************************************************************)

\* Induction up to N over a set.
LEMMA UpTo ==
  ASSUME NEW N \in Nat, NEW S, 0 \in S, \A n \in 1 .. N : n - 1 \in S => n \in S
  PROVE  0 .. N \subseteq S
<1> DEFINE T == {n \in 0 .. N : n \notin S}
<1> SUFFICES ASSUME T # {} PROVE FALSE
  OBVIOUS
<1>1. PICK v \in T : \A w \in T : v <= w
  <2>1. T \subseteq Nat
    OBVIOUS
  <2> HIDE DEF T
  <2> QED
    BY <2>1, LeastNatural
<1>2. v \in 1 .. N /\ v - 1 \in 0 .. N
  OBVIOUS
<1>3. v - 1 \in S
  BY <1>1, <1>2
<1> QED
  BY <1>2, <1>3

\* f lists the first N iterations of F from a.
Iterates(f, N, a, F) == f[0] = a /\ \A n \in 1 .. N : f[n] = F[f[n - 1]]

\* A function on X can be iterated N times from a member of X.
LEMMA IterationExists ==
  ASSUME NEW X, NEW a \in X, NEW F \in [X -> X], NEW N \in Nat
  PROVE  \E f \in [0 .. N -> X] : Iterates(f, N, a, F)
<1> DEFINE S == {k \in 0 .. N : \E f \in [0 .. k -> X] : Iterates(f, k, a, F)}
<1>1. 0 \in S
  <2> DEFINE g == [n \in 0 .. 0 |-> a]
  <2>1. g \in [0 .. 0 -> X] /\ Iterates(g, 0, a, F)
    BY DEF Iterates
  <2> HIDE DEF g
  <2> QED
    BY <2>1
<1>2. ASSUME NEW k \in 1 .. N, k - 1 \in S
      PROVE  k \in S
  <2>1. PICK f \in [0 .. k - 1 -> X] : Iterates(f, k - 1, a, F)
    BY <1>2
  <2> DEFINE g == [n \in 0 .. k |-> IF n = k THEN F[f[k - 1]] ELSE f[n]]
  <2>2. k - 1 \in 0 .. k - 1 /\ k \in 0 .. N
    OBVIOUS
  <2>3. g \in [0 .. k -> X]
    BY <2>2
  <2>4. g[0] = a
    BY <2>1, <2>2 DEF Iterates
  <2>5. ASSUME NEW n \in 1 .. k
        PROVE  g[n] = F[g[n - 1]]
    <3>1. CASE n = k
      BY <3>1, <2>2
    <3>2. CASE n # k
      <4>1. n \in 1 .. k - 1 /\ n \in 0 .. k /\ n - 1 \in 0 .. k /\ n - 1 # k
        BY <3>2
      <4>2. f[n] = F[f[n - 1]]
        BY <2>1, <4>1 DEF Iterates
      <4> QED
        BY <3>2, <4>1, <4>2
    <3> QED
      BY <3>1, <3>2
  <2> HIDE DEF g
  <2>6. Iterates(g, k, a, F)
    BY <2>4, <2>5 DEF Iterates
  <2> QED
    BY <2>2, <2>3, <2>6
<1> HIDE DEF S
<1>3. 0 .. N \subseteq S
  BY <1>1, <1>2, UpTo
<1>4. N \in S
  BY <1>3
<1> QED
  BY <1>4 DEF S

(***************************************************************************)
(* The chain of fallbacks                                                  *)
(***************************************************************************)

\* What FallbackHops computes: the pools of one hop, and then those of one more.
HopsLaw(pools, p, hop) ==
  /\ hop[0] = NextPools(pools, {p})
  /\ \A n \in 1 .. Cardinality(DOMAIN pools) : hop[n] = hop[n - 1] \cup NextPools(pools, hop[n - 1])

\* It does compute that.
LEMMA HopsAre ==
  ASSUME NEW pools, IsFiniteSet(DOMAIN pools), NEW p
  PROVE  HopsLaw(pools, p, FallbackHops(pools, p))
<1> DEFINE N == Cardinality(DOMAIN pools)
           X == SUBSET DOMAIN pools
           F == [S \in X |-> S \cup NextPools(pools, S)]
           a == NextPools(pools, {p})
           Rhs(hop) == [n \in 0 .. N |-> IF n = 0 THEN a ELSE hop[n - 1] \cup NextPools(pools, hop[n - 1])]
<1>1. N \in Nat
  BY FS_CardinalityType
<1>2. a \in X /\ F \in [X -> X]
  <2>1. \A S : NextPools(pools, S) \subseteq DOMAIN pools
    BY DEF NextPools
  <2>2. \A S \in X : S \cup NextPools(pools, S) \in X
    BY <2>1
  <2>3. a \in X
    BY <2>1
  <2> QED
    BY <2>2, <2>3
<1>3. PICK f \in [0 .. N -> X] : Iterates(f, N, a, F)
  <2> HIDE DEF N, X, F, a
  <2> QED
    BY <1>1, <1>2, IterationExists
<1> HIDE DEF N, a
<1>4. \A n \in 1 .. N : n - 1 \in 0 .. N
  BY <1>1
<1>5. \A n \in 1 .. N : f[n] = f[n - 1] \cup NextPools(pools, f[n - 1])
  BY <1>3, <1>4 DEF Iterates
<1>6. f = Rhs(f)
  <2> HIDE DEF X
  <2>1. \A n \in 0 .. N : f[n] = Rhs(f)[n]
    <3> SUFFICES ASSUME NEW n \in 0 .. N PROVE f[n] = Rhs(f)[n]
      OBVIOUS
    <3>1. n = 0 \/ n \in 1 .. N
      BY <1>1
    <3> QED
      BY <3>1, <1>3, <1>5 DEF Iterates
  <2> QED
    BY <2>1
<1>7. FallbackHops(pools, p) = CHOOSE hop : hop = Rhs(hop)
  BY DEF FallbackHops, N, a
<1> DEFINE H == FallbackHops(pools, p)
<1>8. H = Rhs(H)
  BY <1>6, <1>7
<1> HIDE DEF H
<1>9. H[0] = a /\ \A n \in 1 .. N : H[n] = H[n - 1] \cup NextPools(pools, H[n - 1])
  <2>1. 0 \in 0 .. N /\ \A n \in 1 .. N : n \in 0 .. N /\ n # 0
    BY <1>1
  <2>2. \A n \in 0 .. N : H[n] = IF n = 0 THEN a ELSE H[n - 1] \cup NextPools(pools, H[n - 1])
    BY <1>8
  <2> QED
    BY <2>1, <2>2
<1> QED
  BY <1>9 DEF HopsLaw, H, N, a

\* The pools of fewer hops are among those of more.
LEMMA HopsGrow ==
  ASSUME NEW pools, IsFiniteSet(DOMAIN pools), NEW p,
         NEW i \in 0 .. Cardinality(DOMAIN pools), NEW j \in i .. Cardinality(DOMAIN pools)
  PROVE  FallbackHops(pools, p)[i] \subseteq FallbackHops(pools, p)[j]
<1> DEFINE N == Cardinality(DOMAIN pools)
           H == FallbackHops(pools, p)
           S == {k \in 0 .. N : i <= k => H[i] \subseteq H[k]}
<1>1. N \in Nat
  BY FS_CardinalityType
<1>2. HopsLaw(pools, p, H)
  BY HopsAre
<1> HIDE DEF H, N
<1>3. 0 \in S
  BY <1>1 DEF N
<1>4. ASSUME NEW n \in 1 .. N, n - 1 \in S PROVE n \in S
  <2>1. H[n - 1] \subseteq H[n]
    BY <1>2 DEF HopsLaw, N
  <2>2. n \in 0 .. N /\ (i <= n => i = n \/ i <= n - 1)
    BY <1>1 DEF N
  <2> QED
    BY <1>4, <2>1, <2>2
<1> HIDE DEF S
<1>5. 0 .. N \subseteq S
  BY <1>1, <1>3, <1>4, UpTo
<1>6. j \in 0 .. N /\ i <= j
  BY <1>1 DEF N
<1> QED
  BY <1>5, <1>6 DEF S, H

\* What FallbackWalk computes: it starts at p, and takes one step after another.
Start(p) == [at |-> p, seen |-> {p}, looped |-> FALSE]
WalkLaw(pools, p, walk, N) ==
  walk[0] = Start(p) /\ \A n \in 1 .. N : walk[n] = FallbackStep(pools, walk[n - 1])

\* It does compute that.
LEMMA WalkIs ==
  ASSUME NEW pools, IsFiniteSet(DOMAIN pools), NEW p
  PROVE  WalkLaw(pools, p, FallbackWalk(pools, p), Cardinality(DOMAIN pools))
<1> DEFINE N == Cardinality(DOMAIN pools)
           Rhs(f) == [n \in 0 .. N |-> IF n = 0 THEN Start(p) ELSE FallbackStep(pools, f[n - 1])]
           S == {k \in 0 .. N : \E f : WalkLaw(pools, p, f, k)}
<1>1. N \in Nat
  BY FS_CardinalityType
<1> HIDE DEF N
<1>2. 0 \in S
  <2> DEFINE g == [n \in 0 .. 0 |-> Start(p)]
  <2>1. g[0] = Start(p)
    OBVIOUS
  <2> HIDE DEF g
  <2>2. WalkLaw(pools, p, g, 0)
    BY <2>1 DEF WalkLaw
  <2> QED
    BY <1>1, <2>2
<1>3. ASSUME NEW k \in 1 .. N, k - 1 \in S
      PROVE  k \in S
  <2>1. PICK f : WalkLaw(pools, p, f, k - 1)
    BY <1>3
  <2> DEFINE g == [n \in 0 .. k |-> IF n = k THEN FallbackStep(pools, f[k - 1]) ELSE f[n]]
  <2>2. k - 1 \in 0 .. k /\ k - 1 # k /\ k \in 0 .. N
    BY <1>1
  <2>3. g[0] = Start(p)
    BY <1>1, <2>1, <2>2 DEF WalkLaw
  <2>4. ASSUME NEW n \in 1 .. k
        PROVE  g[n] = FallbackStep(pools, g[n - 1])
    <3>1. CASE n = k
      BY <3>1, <2>2
    <3>2. CASE n # k
      <4>1. n \in 1 .. k - 1 /\ n \in 0 .. k /\ n - 1 \in 0 .. k /\ n - 1 # k
        BY <1>1, <3>2
      <4>2. f[n] = FallbackStep(pools, f[n - 1])
        BY <2>1, <4>1 DEF WalkLaw
      <4> QED
        BY <3>2, <4>1, <4>2
    <3> QED
      BY <3>1, <3>2
  <2> HIDE DEF g
  <2>5. WalkLaw(pools, p, g, k)
    BY <2>3, <2>4 DEF WalkLaw
  <2> QED
    BY <2>2, <2>5
<1> HIDE DEF S
<1>4. N \in S
  <2>1. 0 .. N \subseteq S
    BY <1>1, <1>2, <1>3, UpTo
  <2> QED
    BY <1>1, <2>1
<1>5. PICK f : WalkLaw(pools, p, f, N)
  BY <1>4 DEF S
<1> DEFINE h == [n \in 0 .. N |-> f[n]]
<1>6. h = Rhs(h)
  <2>1. \A n \in 0 .. N : f[n] = IF n = 0 THEN Start(p) ELSE FallbackStep(pools, f[n - 1])
    <3> SUFFICES ASSUME NEW n \in 0 .. N
                 PROVE  f[n] = IF n = 0 THEN Start(p) ELSE FallbackStep(pools, f[n - 1])
      OBVIOUS
    <3>1. n = 0 \/ n \in 1 .. N
      BY <1>1
    <3> QED
      BY <3>1, <1>5 DEF WalkLaw
  <2>2. \A n \in 0 .. N : n # 0 => h[n - 1] = f[n - 1]
    BY <1>1
  <2>3. \A n \in 0 .. N : f[n] = IF n = 0 THEN Start(p) ELSE FallbackStep(pools, h[n - 1])
    BY <2>1, <2>2
  <2> QED
    BY <2>3
<1>7. FallbackWalk(pools, p) = CHOOSE w : w = Rhs(w)
  BY DEF FallbackWalk, N, Start
<1> DEFINE W == FallbackWalk(pools, p)
<1>8. W = Rhs(W)
  <2> HIDE DEF h
  <2> QED
    BY <1>6, <1>7
<1> HIDE DEF W
<1>9. \A n \in 0 .. N : W[n] = IF n = 0 THEN Start(p) ELSE FallbackStep(pools, W[n - 1])
  BY <1>8
<1>10. 0 \in 0 .. N /\ \A n \in 1 .. N : n \in 0 .. N /\ n # 0
  BY <1>1
<1>11. WalkLaw(pools, p, W, N)
  BY <1>9, <1>10 DEF WalkLaw
<1> QED
  BY <1>11 DEF W, N

\* A walk that has not come back to a pool stays where it is when there is no
\* fallback, and goes on to the fallback when it has not been there.
LEMMA StepIs ==
  ASSUME NEW pools, NEW w, ~w.looped
  PROVE  /\ resolve_fallback_target(pools, w.at) = {} => FallbackStep(pools, w) = w
         /\ \A q : resolve_fallback_target(pools, w.at) = {q} /\ q \notin w.seen
                     => LET v == FallbackStep(pools, w)
                        IN  v.at = q /\ v.seen = w.seen \cup {q} /\ ~v.looped
<1> DEFINE t == resolve_fallback_target(pools, w.at)
<1>1. CASE t = {}
  BY <1>1 DEF FallbackStep
<1>2. ASSUME NEW q, t = {q}, q \notin w.seen
      PROVE  LET v == FallbackStep(pools, w)
             IN  v.at = q /\ v.seen = w.seen \cup {q} /\ ~v.looped
  <2>1. (CHOOSE x \in t : TRUE) = q
    <3> HIDE DEF t
    <3> QED
      BY <1>2
  <2>2. FallbackStep(pools, w) = [at |-> q, seen |-> w.seen \cup {q}, looped |-> FALSE]
    <3>1. FallbackStep(pools, w) =
            IF w.looped \/ t = {} THEN w
            ELSE IF (CHOOSE x \in t : TRUE) \in w.seen THEN [w EXCEPT !.looped = TRUE]
            ELSE [at |-> (CHOOSE x \in t : TRUE), seen |-> w.seen \cup {CHOOSE x \in t : TRUE}, looped |-> FALSE]
      BY DEF FallbackStep
    <3>2. t # {}
      BY <1>2
    <3> HIDE DEF t
    <3> QED
      BY <1>2, <2>1, <3>1, <3>2, Zenon
  <2>3. ~[at |-> q, seen |-> w.seen \cup {q}, looped |-> FALSE].looped
    BY Zenon
  <2>4. /\ [at |-> q, seen |-> w.seen \cup {q}, looped |-> FALSE].at = q
        /\ [at |-> q, seen |-> w.seen \cup {q}, looped |-> FALSE].seen = w.seen \cup {q}
    OBVIOUS
  <2> QED
    BY <2>2, <2>3, <2>4, Zenon
<1> QED
  BY <1>1, <1>2, Zenon

\* A fallback is one pool, or none.
LEMMA OneFallback ==
  ASSUME NEW pools, NEW p
  PROVE  resolve_fallback_target(pools, p) = {} \/ \E q : resolve_fallback_target(pools, p) = {q}
BY DEF resolve_fallback_target

\* After n steps the walk has been at pools that exist, from each of which it
\* went on by its fallbacks to where it is now.
Onward(pools, w, n) ==
  /\ ~w.looped /\ w.at \in w.seen /\ w.seen \subseteq DOMAIN pools
  /\ \A q \in w.seen : q = w.at \/ \E i \in 0 .. n - 1 : w.at \in FallbackHops(pools, q)[i]

\* Where every fallback is another pool, and no chain of them comes back, one
\* more step of the walk is onward too.
LEMMA OnwardStep ==
  ASSUME NEW pools, IsFiniteSet(DOMAIN pools),
         \A p \in DOMAIN pools : resolve_fallback_target(pools, p) \subseteq DOMAIN pools,
         \A p \in DOMAIN pools : p \notin FallbackReach(pools, p),
         NEW w, NEW n \in 1 .. Cardinality(DOMAIN pools), Onward(pools, w, n - 1)
  PROVE  Onward(pools, FallbackStep(pools, w), n)
<1> DEFINE N == Cardinality(DOMAIN pools)
           H(q) == FallbackHops(pools, q)
<1>1. N \in Nat
  BY FS_CardinalityType
<1> HIDE DEF N
<1>2. n \in 1 .. N
  BY DEF N
<1>3. CASE resolve_fallback_target(pools, w.at) = {}
  <2>1. FallbackStep(pools, w) = w
    BY <1>3, StepIs DEF Onward
  <2>2. \A i \in 0 .. (n - 1) - 1 : i \in 0 .. n - 1
    BY <1>1, <1>2
  <2> QED
    BY <2>1, <2>2 DEF Onward
<1>4. ASSUME NEW x, resolve_fallback_target(pools, w.at) = {x}
      PROVE  Onward(pools, FallbackStep(pools, w), n)
  <2>1. w.at \in DOMAIN pools /\ x \in DOMAIN pools
    BY <1>4 DEF Onward
  <2>2. \A S : w.at \in S => x \in NextPools(pools, S)
    BY <1>4, <2>1 DEF NextPools
  <2>3. ASSUME NEW q \in w.seen
        PROVE  \E i \in 0 .. n - 1 : x \in H(q)[i]
    <3>1. HopsLaw(pools, q, H(q))
      BY HopsAre
    <3>2. CASE q = w.at
      <4>1. x \in H(q)[0]
        BY <2>2, <3>1, <3>2 DEF HopsLaw
      <4> QED
        BY <1>1, <1>2, <4>1
    <3>3. CASE q # w.at
      <4>1. PICK i \in 0 .. (n - 1) - 1 : w.at \in H(q)[i]
        BY <3>3 DEF Onward
      <4>2. i + 1 \in 1 .. N /\ i + 1 \in 0 .. n - 1 /\ (i + 1) - 1 = i
        BY <1>1, <1>2
      <4>3. H(q)[i + 1] = H(q)[i] \cup NextPools(pools, H(q)[i])
        BY <3>1, <4>2 DEF HopsLaw, N
      <4>4. x \in H(q)[i + 1]
        BY <2>2, <4>1, <4>3
      <4> QED
        BY <4>2, <4>4
    <3> QED
      BY <3>2, <3>3
  <2>4. x \notin w.seen
    <3> SUFFICES ASSUME x \in w.seen PROVE FALSE
      OBVIOUS
    <3>1. PICK i \in 0 .. n - 1 : x \in H(x)[i]
      BY <2>3
    <3>2. i \in 0 .. N /\ N \in i .. N
      BY <1>1, <1>2
    <3>3. H(x)[i] \subseteq H(x)[N]
      BY <3>2, HopsGrow DEF N
    <3>4. x \in FallbackReach(pools, x)
      BY <3>1, <3>3 DEF FallbackReach, N
    <3> QED
      BY <2>1, <3>4
  <2> DEFINE v == FallbackStep(pools, w)
  <2>5. v.at = x /\ v.seen = w.seen \cup {x} /\ ~v.looped
    BY <1>4, <2>4, StepIs DEF Onward
  <2> HIDE DEF v
  <2>6. v.seen \subseteq DOMAIN pools
    BY <2>1, <2>5 DEF Onward
  <2>7. \A q \in v.seen : q = v.at \/ \E i \in 0 .. n - 1 : v.at \in H(q)[i]
    BY <2>3, <2>5
  <2>8. Onward(pools, v, n)
    BY <2>5, <2>6, <2>7 DEF Onward
  <2> QED
    BY <2>8 DEF v
<1> QED
  BY <1>3, <1>4, OneFallback

\* The walk from a pool that exists is onward to its end.
LEMMA WalkIsOnward ==
  ASSUME NEW pools, IsFiniteSet(DOMAIN pools),
         \A p \in DOMAIN pools : resolve_fallback_target(pools, p) \subseteq DOMAIN pools,
         \A p \in DOMAIN pools : p \notin FallbackReach(pools, p),
         NEW p \in DOMAIN pools
  PROVE  LET N == Cardinality(DOMAIN pools) IN Onward(pools, FallbackWalk(pools, p)[N], N)
<1> DEFINE N == Cardinality(DOMAIN pools)
           W == FallbackWalk(pools, p)
           S == {n \in 0 .. N : Onward(pools, W[n], n)}
<1>1. N \in Nat
  BY FS_CardinalityType
<1>2. WalkLaw(pools, p, W, N)
  BY WalkIs
<1> HIDE DEF N, W
<1>3. 0 \in S
  <2>1. W[0] = Start(p)
    BY <1>2 DEF WalkLaw
  <2>2. Start(p).at = p /\ Start(p).seen = {p}
    BY DEF Start
  <2>3. ~Start(p).looped
    BY Zenon DEF Start
  <2>4. Onward(pools, W[0], 0)
    BY <2>1, <2>2, <2>3 DEF Onward
  <2> QED
    BY <1>1, <2>4
<1>4. ASSUME NEW n \in 1 .. N, n - 1 \in S
      PROVE  n \in S
  <2>1. W[n] = FallbackStep(pools, W[n - 1])
    BY <1>2 DEF WalkLaw
  <2>2. Onward(pools, W[n], n)
    BY <1>4, <2>1, OnwardStep DEF N
  <2> QED
    BY <1>1, <2>2
<1> HIDE DEF S
<1>5. 0 .. N \subseteq S
  BY <1>1, <1>3, <1>4, UpTo
<1>6. N \in S
  BY <1>1, <1>5
<1> QED
  BY <1>6 DEF S, N, W

(***************************************************************************)
(* What is served degrades as declared                                     *)
(***************************************************************************)

\* A configuration that a build has validated.
Validated(c) == WellTyped(c) /\ \E x : validate(c, x)

\* Every pool of it has a lane to try.
LEMMA PoolHasLane ==
  ASSUME NEW c, Validated(c), NEW q \in DOMAIN c.pools
  PROVE  \E x \in Range(c.pools[q].members) :
            /\ x.weight > 0 /\ x.model \in DOMAIN c.models
            /\ LaneAdmits(c, x.model)
<1>1. MembersOk(c, q) /\ \A m \in DOMAIN c.models : ModelOk(c, m)
  BY DEF Validated, validate, validate_pools
<1>2. PICK x \in Range(c.pools[q].members) : x.weight # 0 /\ x.model \in DOMAIN c.models
  BY <1>1 DEF MembersOk
<1>3. x.weight \in Nat
  BY DEF Validated, WellTyped
<1> DEFINE mc == c.models[x.model]
<1>4. mc.max_concurrent # 0 /\ mc.max_requests # 0
  BY <1>1, <1>2 DEF ModelOk
<1>5. mc.max_concurrent \in Nat \cup {Unbounded} /\ mc.max_requests \in Int
  BY <1>2 DEF Validated, WellTyped
<1>6. LaneAdmits(c, x.model)
  BY <1>4, <1>5 DEF LaneAdmits
<1> QED
  BY <1>2, <1>3, <1>6

\* And every walk of fallbacks ends without coming back to a pool.
LEMMA WalkOfValidated ==
  ASSUME NEW c, Validated(c), NEW p \in DOMAIN c.pools
  PROVE  LET N == Cardinality(DOMAIN c.pools)
         IN  Onward(c.pools, FallbackWalk(c.pools, p)[N], N)
<1>1. IsFiniteSet(DOMAIN c.pools)
  BY DEF Validated, WellTyped
<1>2. \A q \in DOMAIN c.pools : resolve_fallback_target(c.pools, q) \subseteq DOMAIN c.pools
  BY DEF Validated, validate, validate_pools, FallbackOk
<1>3. \A q \in DOMAIN c.pools : q \notin FallbackReach(c.pools, q)
  BY DEF Validated, validate, NoFallbackCycle
<1> DEFINE pools == c.pools
<1> HIDE DEF pools
<1>4. LET N == Cardinality(DOMAIN pools)
      IN  Onward(pools, FallbackWalk(pools, p)[N], N)
  BY <1>1, <1>2, <1>3, WalkIsOnward DEF pools
<1> QED
  BY <1>4 DEF pools

\* What is served was validated.
ServedInv == AppShaped /\ (app.up => Validated(app.cfg))

\* So it is at the start, when nothing is served, and after every step.
LEMMA ServedHolds == Spec => []ServedInv
<1>1. Init => ServedInv
  BY DownIsDown DEF Init, ServedInv, AppShaped
<1>2. ASSUME ServedInv, [Next]_vars PROVE ServedInv'
  <2>1. CASE SameServed
    BY <1>2, <2>1 DEF ServedInv, AppShaped, SameServed
  <2>2. CASE \E c : FreshlyServed(c)
    <3>1. PICK c : FreshlyServed(c)
      BY <2>2
    <3>2. Validated(c)
      BY <3>1 DEF FreshlyServed, Validated
    <3> QED
      BY <3>1, <3>2 DEF ServedInv, AppShaped, FreshlyServed
  <2> QED
    BY <1>2, <2>1, <2>2, ServedStep DEF ServedInv
<1> QED
  BY <1>1, <1>2, PTL DEF Spec

\* A configuration that was validated degrades as declared.
LEMMA ServedDegrades ==
  ASSUME ServedInv
  PROVE  DegradesAsDeclared
<1> SUFFICES ASSUME app.up, NEW p \in DOMAIN app.cfg.pools
             PROVE  LET w == FallbackWalk(app.cfg.pools, p)[Cardinality(DOMAIN app.cfg.pools)]
                    IN  /\ ~w.looped
                        /\ \A q \in w.seen :
                              /\ q \in DOMAIN app.cfg.pools
                              /\ \E x \in Range(app.cfg.pools[q].members) :
                                    /\ x.weight > 0 /\ x.model \in DOMAIN app.cfg.models
                                    /\ LaneAdmits(app.cfg, x.model)
  BY DEF DegradesAsDeclared
<1> DEFINE c == app.cfg
           w == FallbackWalk(c.pools, p)[Cardinality(DOMAIN c.pools)]
<1>1. Validated(c)
  BY DEF ServedInv
<1>2. Onward(c.pools, w, Cardinality(DOMAIN c.pools))
  BY <1>1, WalkOfValidated
<1> HIDE DEF w
<1>3. ~w.looped /\ w.seen \subseteq DOMAIN c.pools
  BY <1>2 DEF Onward
<1>4. \A q \in DOMAIN c.pools :
         \E x \in Range(c.pools[q].members) :
            /\ x.weight > 0 /\ x.model \in DOMAIN c.models
            /\ LaneAdmits(c, x.model)
  BY <1>1, PoolHasLane
<1> QED
  BY <1>3, <1>4 DEF w

(***************************************************************************)
(* What the command passed boots                                           *)
(***************************************************************************)

\* The rules that look at the secrets only refuse one that is malformed.
LEMMA GoodSecretsPass ==
  ASSUME NEW c, NEW x, validate(c, x)
  PROVE  validate(c, "good")
<1>1. \A p \in DOMAIN c.providers : ProviderOk(c, p, x) => ProviderOk(c, p, "good")
  BY DEF ProviderOk, OauthOk, JwtOk
<1> QED
  BY <1>1 DEF validate

\* A name that resolves to a manifest of a kind opens as that kind, when the
\* libraries export what their manifests say.
LEMMA ResolvedOpens ==
  ASSUME NEW pc, NEW kind, NEW ref, ResolvesTo(pc, kind, ref),
         \A f \in DOMAIN pc.dir : pc.dir[f].exports = pc.dir[f].kind
  PROVE  Opens(pc, kind, ref)
<1>1. PICK f \in resolve_plugin(pc, ref) : pc.dir[f].kind = kind
  BY DEF ResolvesTo
<1>2. f \in DOMAIN pc.dir
  BY DEF resolve_plugin, LoadableFiles
<1> QED
  BY <1>1, <1>2 DEF Opens, wire_up_raw

\* The construction refuses nothing that the rules and the pre-flight let
\* through, but for secrets that do not resolve.
LEMMA RulesCoverBuild ==
  ASSUME NEW c, validate(c, "good"), plugins_preflight(c)
  PROVE  Buildable(c, "good")
<1>1. LanesBuilt(c)
  BY DEF validate, LanesBuilt, ModelOk, ProviderOk, ProviderSettingsOk
<1>2. resolve_model_context_max(c)
  BY DEF validate, resolve_model_context_max, ContextMaxOk
<1>3. CredentialsBuilt(c, "good")
  <2> SUFFICES ASSUME NEW m \in DOMAIN c.models
               PROVE  CredentialBuilt(c, c.models[m].provider, "good")
    BY DEF CredentialsBuilt
  <2>1. c.models[m].provider \in DOMAIN c.providers
    BY DEF validate, ModelOk
  <2>2. OauthOk(c, c.models[m].provider, "good")
    BY <2>1 DEF validate, ProviderOk
  <2> QED
    BY <2>2 DEF OauthOk, CredentialBuilt
<1>4. PoolsBuilt(c)
  BY DEF validate, validate_pools, MembersOk, PoolsBuilt
<1>5. AuthBuilt(c)
  BY DEF validate, validate_auth, AuthChainOk, AuthBuilt
<1> QED
  BY <1>1, <1>2, <1>3, <1>4, <1>5 DEF Buildable

\* And so with the governance ledger, when its plugin exports what it says and
\* the stored keys name groups that exist.
LEMMA PreflightCoversGovernance ==
  ASSUME NEW c, plugins_preflight(c), NEW ks, KeyGroupsExist(c, ks),
         \A f \in DOMAIN c.plugins.dir : c.plugins.dir[f].exports = c.plugins.dir[f].kind
  PROVE  GovernanceBuilt(c, "good", ks)
<1>1. StoreOpens(c)
  <2>1. CASE c.store = "memory"
    BY <2>1 DEF StoreOpens
  <2>2. CASE c.store # "memory"
    <3> DEFINE ref == <<"store", c.store>>
    <3>1. ref \in PluginRefs(c)
      BY <2>2 DEF PluginRefs
    <3>2. ResolvesTo(c.plugins, ref[1], ref[2])
      BY <3>1 DEF plugins_preflight
    <3>3. ref[1] = "store" /\ ref[2] = c.store
      OBVIOUS
    <3> HIDE DEF ref
    <3>4. ResolvesTo(c.plugins, "store", c.store)
      BY <3>2, <3>3
    <3> QED
      BY <3>4, ResolvedOpens DEF StoreOpens
  <2> QED
    BY <2>1, <2>2
<1>2. GovernanceSecrets(c, "good")
  BY DEF GovernanceSecrets
<1> QED
  BY <1>1, <1>2 DEF GovernanceBuilt

\* In what mode --validate passed what is on disk, it would pass it still.
VettedInv ==
  \A mode \in vetted :
    /\ Resolvable(disk, Catalog)
    /\ validate(LoadConfig(mode), "good") /\ plugins_preflight(LoadConfig(mode))

\* What is loaded changes with the files, the overlay and the directory only.
LEMMA LoadedUnchanged ==
  ASSUME UNCHANGED <<disk, overlay, plugdir, pins>>
  PROVE  \A mode : LoadConfig(mode)' = LoadConfig(mode)
BY DEF LoadConfig, LoadConfigWith

\* Every step that changes one of them forgets what was passed.
LEMMA VettedStep ==
  ASSUME VettedInv, [Next]_vars
  PROVE  VettedInv'
<1>1. CASE UNCHANGED <<disk, overlay, plugdir, pins>> /\ vetted' = vetted
  <2>1. \A mode : LoadConfig(mode)' = LoadConfig(mode)
    BY <1>1, LoadedUnchanged
  <2> QED
    BY <1>1, <2>1 DEF VettedInv
<1>2. CASE vetted' = {}
  BY <1>2 DEF VettedInv
<1>3. CASE validate_config_command
  <2>1. PICK mode \in Modes \ vetted :
          /\ Resolvable(disk, Catalog)
          /\ validate(LoadConfig(mode), cred) /\ plugins_preflight(LoadConfig(mode))
          /\ vetted' = vetted \cup {mode}
          /\ UNCHANGED <<disk, overlay, plugdir, pins>>
    BY <1>3 DEF validate_config_command, plugVars
  <2>2. validate(LoadConfig(mode), "good")
    BY <2>1, GoodSecretsPass
  <2>3. \A m : LoadConfig(m)' = LoadConfig(m)
    BY <2>1, LoadedUnchanged
  <2> QED
    BY <2>1, <2>2, <2>3 DEF VettedInv
<1>4. CASE \/ SetEnv \/ Boot \/ Stop \/ reload_config \/ apply_config \/ mint_key \/ install_plugin
           \/ rebuild_pinned \/ UNCHANGED vars
  BY <1>1, <1>4 DEF SetEnv, Boot, Stop, reload_config, apply_config, BuildAndSwap, mint_key, install_plugin,
                    rebuild_pinned, plugVars, vars
<1>5. CASE \/ DropPlugin \/ remove_plugin \/ rollback_plugin \/ rebuild_refused
           \/ Edit \/ register_hook \/ delete_hook
  BY <1>2, <1>5 DEF DropPlugin, remove_plugin, rollback_plugin, rebuild_refused, Edit, register_hook, delete_hook
<1>6. CASE \E u \in uploads : publish_plugin(u)
  BY <1>1, <1>2, <1>6 DEF publish_plugin
<1> QED
  BY <1>3, <1>4, <1>5, <1>6 DEF Next

\* What is passed boots, once the secrets resolve, the libraries are what they
\* say they are and the stored keys name groups that exist.
LEMMA VettedBoots ==
  ASSUME VettedInv
  PROVE  CleanValidateBoots
<1> SUFFICES ASSUME cred = "good", \A f \in DOMAIN plugdir : plugdir[f].exports = plugdir[f].kind,
                    NEW mode \in vetted,
                    KeyGroupsExist(LoadConfig(mode), StoredKeyGroups(LoadConfig(mode)))
             PROVE  Resolvable(disk, Catalog) /\ BuildFresh(LoadConfig(mode))
  BY DEF CleanValidateBoots
<1> DEFINE ps == IF mode = "safe" THEN [n \in {} |-> NoFloor] ELSE pins
           c == LoadConfig(mode)
<1>1. Resolvable(disk, Catalog) /\ validate(c, "good") /\ plugins_preflight(c)
  BY DEF VettedInv
<1>2. c.plugins.dir = plugdir
  <2>1. Parses(disk)
    BY <1>1 DEF Resolvable
  <2>2. c = LoadConfigWith(mode, plugdir, ps)
    BY DEF LoadConfig
  <2> HIDE DEF ps, c
  <2>3. LoadedFrom(c, plugdir, ps)
    BY <2>1, <2>2, LoadedParts
  <2> QED
    BY <2>3 DEF LoadedFrom
<1> HIDE DEF c
<1>3. Buildable(c, "good")
  BY <1>1, RulesCoverBuild
<1>4. KeyGroupsExist(c, StoredKeyGroups(c))
  BY DEF c
<1>5. GovernanceBuilt(c, "good", StoredKeyGroups(c))
  BY <1>1, <1>2, <1>4, PreflightCoversGovernance
<1> QED
  BY <1>1, <1>3, <1>5 DEF BuildFresh, BuildOver, c

\* A configuration that passed --validate starts, whatever happened to the
\* process since; and what is served, however it came to be, degrades along its
\* declared fallbacks to a pool that has a lane to try.
THEOREM WhatWasValidatedServes == Spec => []ValidatedConfigServes
<1>1. Init => VettedInv
  BY DEF Init, VettedInv
<1>2. VettedInv /\ [Next]_vars => VettedInv'
  BY VettedStep
<1>3. VettedInv /\ ServedInv => ValidatedConfigServes
  BY VettedBoots, ServedDegrades DEF ValidatedConfigServes
<1> QED
  BY <1>1, <1>2, <1>3, ServedHolds, PTL DEF Spec

(***************************************************************************)
(* An install leaves a directory the next boot accepts                     *)
(***************************************************************************)

\* Two configurations, or files, that differ in their plugins block only.
SameButPlugins(c, e) ==
  /\ DOMAIN c = RootFields /\ DOMAIN e = RootFields
  /\ \A f \in RootFields \ {"plugins"} : e[f] = c[f]

\* resolve makes the same of them.
LEMMA ResolvedAlike ==
  ASSUME NEW d, NEW e, SameButPlugins(d, e)
  PROVE  SameButPlugins(resolve(d), resolve(e))
<1> DEFINE ps == RegisterPools(d.pools)
           gl == RegisterAll(ps.hooks, d.global_hooks)
           pp == [p \in DOMAIN d.pools |-> [d.pools[p] EXCEPT !.gates = Range(ps.gates[p]), !.hooks = <<>>]]
<1>1. resolve(d) = [d EXCEPT !.hooks = gl.hooks, !.global_hooks = Range(gl.names), !.pools = pp]
  BY DEF resolve
<1>2. e.pools = d.pools /\ e.global_hooks = d.global_hooks
  BY DEF SameButPlugins, RootFields
<1>3. resolve(e) = [e EXCEPT !.hooks = gl.hooks, !.global_hooks = Range(gl.names), !.pools = pp]
  BY <1>2 DEF resolve
<1> HIDE DEF ps, gl, pp
<1> QED
  BY <1>1, <1>3 DEF SameButPlugins, RootFields

\* And so does the overlay.
LEMMA MergedAlike ==
  ASSUME NEW c, NEW e, NEW doc, SameButPlugins(c, e)
  PROVE  SameButPlugins(MergeInto(c, doc), MergeInto(e, doc))
<1>1. e.hooks = c.hooks /\ e.global_hooks = c.global_hooks
  BY DEF SameButPlugins, RootFields
<1> DEFINE hs == [x \in (DOMAIN c.hooks \cup DOMAIN doc.hooks) \ doc.deleted |->
                    IF x \in DOMAIN doc.hooks THEN doc.hooks[x] ELSE c.hooks[x]]
           gs == (c.global_hooks \cup doc.globals) \ doc.deleted
<1>2. MergeInto(c, doc) = [c EXCEPT !.hooks = hs, !.global_hooks = gs]
  BY DEF MergeInto
<1>3. MergeInto(e, doc) = [e EXCEPT !.hooks = hs, !.global_hooks = gs]
  BY <1>1 DEF MergeInto
<1> HIDE DEF hs, gs
<1> QED
  BY <1>2, <1>3 DEF SameButPlugins, RootFields

\* Loaded over two directories, the file on disk gives configurations that
\* differ in their plugins block only.
LEMMA LoadedAlike ==
  ASSUME NEW mode, NEW dir, NEW dir2, NEW ps, Parses(disk)
  PROVE  SameButPlugins(LoadConfigWith(mode, dir, ps), LoadConfigWith(mode, dir2, ps))
<1> DEFINE q == apply_plugin_versions_to_deploy([disk.plugins EXCEPT !.dir = dir], ps)
           q2 == apply_plugin_versions_to_deploy([disk.plugins EXCEPT !.dir = dir2], ps)
           d == [disk EXCEPT !.plugins = q]
           d2 == [disk EXCEPT !.plugins = q2]
           doc == IF mode = "safe" THEN EmptyOverlay ELSE overlay
<1>1. /\ LoadConfigWith(mode, dir, ps) = MergeInto(resolve(d), doc)
      /\ LoadConfigWith(mode, dir2, ps) = MergeInto(resolve(d2), doc)
  BY DEF LoadConfigWith
<1> HIDE DEF q, q2
<1>2. SameButPlugins(d, d2)
  <2>1. DOMAIN disk = RootFields
    BY DEF Parses
  <2> QED
    BY <2>1 DEF SameButPlugins, RootFields
<1> HIDE DEF d, d2, doc
<1>3. SameButPlugins(resolve(d), resolve(d2))
  BY <1>2, ResolvedAlike
<1> QED
  BY <1>1, <1>3, MergedAlike

\* The trust policy does not depend on the directory.
LEMMA PolicyOfDir ==
  ASSUME NEW pc, DOMAIN pc = PluginFields, NEW dir, NEW ps
  PROVE  /\ to_policy(apply_plugin_versions_to_deploy([pc EXCEPT !.dir = dir], ps))
              = to_policy(apply_plugin_versions_to_deploy(pc, ps))
         /\ apply_plugin_versions_to_deploy([pc EXCEPT !.dir = dir], ps).publishers = pc.publishers
         /\ apply_plugin_versions_to_deploy([pc EXCEPT !.dir = dir], ps).enabled = pc.enabled
<1> DEFINE pd == [pc EXCEPT !.dir = dir]
           mv == [n \in DOMAIN pc.min_versions \cup DOMAIN ps |->
                    IF n \in DOMAIN ps THEN ps[n] ELSE pc.min_versions[n]]
           q == apply_plugin_versions_to_deploy(pc, ps)
           q2 == apply_plugin_versions_to_deploy(pd, ps)
<1>1. DOMAIN pd = PluginFields /\ pd.dir = dir /\ \A f \in PluginFields \ {"dir"} : pd[f] = pc[f]
  BY DirParts
<1> HIDE DEF pd
<1>2. q = [pc EXCEPT !.min_versions = mv, !.first_party_floor = FloorOf(ps)]
  BY DEF apply_plugin_versions_to_deploy, FloorOf
<1>3. pd.min_versions = pc.min_versions
  BY <1>1 DEF PluginFields
<1>4. q2 = [pd EXCEPT !.min_versions = mv, !.first_party_floor = FloorOf(ps)]
  BY <1>3 DEF apply_plugin_versions_to_deploy, FloorOf
<1> HIDE DEF mv, q, q2
<1>5. \A f \in PluginFields \ {"dir"} : q2[f] = q[f]
  BY <1>1, <1>2, <1>4 DEF PluginFields
<1>6. q.publishers = pc.publishers /\ q.enabled = pc.enabled
  BY <1>2 DEF PluginFields
<1>7. /\ q2.publishers = q.publishers /\ q2.enabled = q.enabled
      /\ q2.allow_unsigned = q.allow_unsigned /\ q2.allow_third_party = q.allow_third_party
      /\ q2.min_versions = q.min_versions /\ q2.first_party_floor = q.first_party_floor
  BY <1>5 DEF PluginFields
<1>8. to_policy(q2) = to_policy(q)
  BY <1>7 DEF to_policy, to_policy_with_floor
<1> QED
  BY <1>6, <1>7, <1>8 DEF pd, q, q2

\* The fields that the rules and the construction look at.
SameFields(c, e) ==
  /\ e.providers = c.providers /\ e.models = c.models /\ e.pools = c.pools
  /\ e.hooks = c.hooks /\ e.global_hooks = c.global_hooks /\ e.auth = c.auth
  /\ e.groups = c.groups /\ e.rate_card = c.rate_card /\ e.per_request_fee = c.per_request_fee
  /\ e.store = c.store /\ e.limits = c.limits /\ e.budgets = c.budgets /\ e.security = c.security

\* They are the same but for the plugins.
LEMMA FieldsAlike ==
  ASSUME NEW c, NEW e, SameButPlugins(c, e)
  PROVE  SameFields(c, e)
BY DEF SameButPlugins, SameFields, RootFields

\* The rules do not look at the plugins block.
LEMMA RulesAlike ==
  ASSUME NEW c, NEW e, SameFields(c, e), NEW x, validate(c, x)
  PROVE  validate(e, x)
<1> USE DEF SameFields
<1>1. NoCidr(e) /\ ReasoningTableOk(e) /\ NamesOk(e)
  BY DEF validate, NoCidr, ReasoningTableOk, NamesOk
<1>2. \A m \in DOMAIN e.models : ModelOk(e, m)
  BY DEF validate, ModelOk
<1>3. \A p, url : UrlOk(c, p, url) => UrlOk(e, p, url)
  BY DEF UrlOk, ssrf_blocked_host
<1>4. ASSUME NEW p \in DOMAIN e.providers PROVE ProviderOk(e, p, x)
  <2>1. ProviderOk(c, p, x)
    BY DEF validate
  <2>2. OauthOk(e, p, x)
    BY <1>3, <2>1 DEF ProviderOk, OauthOk
  <2> QED
    BY <1>3, <2>1, <2>2 DEF ProviderOk, ProviderSettingsOk, PathsOk, JwtOk
<1>5. ASSUME NEW p \in DOMAIN e.pools
      PROVE  MembersOk(e, p) /\ BreakerOk(e, p) /\ FailoverOk(e, p) /\ FallbackOk(e, p) /\ AffinityOk(e, p)
  <2>1. MembersOk(c, p) /\ BreakerOk(c, p) /\ FailoverOk(c, p) /\ FallbackOk(c, p) /\ AffinityOk(c, p)
    BY DEF validate, validate_pools
  <2>2. MembersOk(e, p)
    BY <2>1 DEF MembersOk
  <2>3. BreakerOk(e, p)
    BY <2>1 DEF BreakerOk
  <2>4. FailoverOk(e, p)
    BY <2>1 DEF FailoverOk
  <2>5. FallbackOk(e, p) /\ AffinityOk(e, p)
    BY <2>1 DEF FallbackOk, AffinityOk
  <2> QED
    BY <2>2, <2>3, <2>4, <2>5
<1>6. NoFallbackCycle(e)
  BY DEF validate, NoFallbackCycle
<1>7. validate_hooks(e)
  <2>1. \A h \in DOMAIN e.hooks : HookOk(e.hooks[h])
    BY DEF validate, validate_hooks
  <2>2. {h \in DOMAIN e.hooks : e.hooks[h].default} = {h \in DOMAIN c.hooks : c.hooks[h].default}
    OBVIOUS
  <2>3. ReservedNamesOk(e) /\ AtMostOneDefault(e)
    BY <2>2 DEF validate, validate_hooks, ReservedNamesOk, AtMostOneDefault
  <2>4. GatesOk(e) /\ OnErrorOk(e) /\ GlobalHooksOk(e)
    BY DEF validate, validate_hooks, GatesOk, OnErrorOk, GlobalHooksOk
  <2> QED
    BY <2>1, <2>3, <2>4 DEF validate_hooks
<1>8. validate_auth(e)
  <2>1. {a.module : a \in e.auth.chain \cup e.auth.admin_auth} = {a.module : a \in c.auth.chain \cup c.auth.admin_auth}
    OBVIOUS
  <2>2. RoleBindingsOk(e)
    BY <2>1 DEF validate, validate_auth, RoleBindingsOk
  <2> QED
    BY <2>2 DEF validate, validate_auth, AdminAuthOk, ChainEntriesOk, AuthChainOk
<1>9. validate_limits(e)
  BY DEF validate, validate_limits
<1>10. ContextMaxOk(e)
  <2>1. \A m : ContextMaxima(e, m) = ContextMaxima(c, m)
    BY DEF ContextMaxima
  <2> QED
    BY <2>1 DEF validate, ContextMaxOk
<1>11. validate_cost_model(e)
  <2>1. RateCardOk(e)
    BY DEF validate, validate_cost_model, RateCardOk
  <2>2. GroupsOk(e) /\ StoreOk(e)
    BY DEF validate, validate_cost_model, GroupsOk, StoreOk
  <2>3. SecretsOk(e)
    BY DEF validate, validate_cost_model, SecretsOk
  <2> QED
    BY <2>1, <2>2, <2>3 DEF validate_cost_model
<1> QED
  BY <1>1, <1>2, <1>4, <1>5, <1>6, <1>7, <1>8, <1>9, <1>10, <1>11 DEF validate, validate_pools

\* What publishes t: it is loadable, and takes no name of another plugin; and
\* the other files are fine among themselves.
Publishable(dir, policy, f, t) ==
  /\ unpack(t) /\ validate_structure(t) /\ evaluate(t, policy)
  /\ \A x \in DOMAIN dir \ {f} : examine(dir[x], policy) # "invalid"
  /\ \A gh \in conflicts(dir, policy) : gh[1] = f \/ gh[2] = f
  /\ ~InstallClash(dir, policy, f, t)

\* What could be published can be still when nothing has come under another name.
LEMMA StillPublishable ==
  ASSUME NEW dir, NEW seen, NEW policy, NEW f, NEW t, Publishable(seen, policy, f, t),
         \A x \in DOMAIN dir \ {f} : x \in DOMAIN seen /\ dir[x] = seen[x]
  PROVE  Publishable(dir, policy, f, t)
<1>1. \A x \in LoadableFiles(dir, policy) \ {f} : x \in LoadableFiles(seen, policy) /\ dir[x] = seen[x]
  BY DEF LoadableFiles
<1>2. ~InstallClash(dir, policy, f, t)
  BY <1>1 DEF Publishable, InstallClash
<1>3. \A x \in DOMAIN dir \ {f} : examine(dir[x], policy) # "invalid"
  BY DEF Publishable
<1>4. ASSUME NEW gh \in conflicts(dir, policy), gh[1] # f, gh[2] # f
      PROVE  FALSE
  <2>1. gh \in LoadableFiles(dir, policy) \X LoadableFiles(dir, policy)
    BY DEF conflicts
  <2>2. /\ gh \in LoadableFiles(seen, policy) \X LoadableFiles(seen, policy)
        /\ seen[gh[1]] = dir[gh[1]] /\ seen[gh[2]] = dir[gh[2]]
    BY <1>1, <1>4, <2>1
  <2>3. gh \in conflicts(seen, policy)
    BY <2>2 DEF conflicts
  <2> QED
    BY <1>4, <2>3 DEF Publishable
<1> QED
  BY <1>2, <1>3, <1>4 DEF Publishable

\* The loadable files are those there were, and the one that was published.
LEMMA LoadablePublished ==
  ASSUME NEW dir, NEW policy, NEW f, NEW t, Publishable(dir, policy, f, t)
  PROVE  /\ Published(dir, f, t)[f] = t /\ examine(t, policy) = "loadable"
         /\ \A x \in DOMAIN dir \ {f} : Published(dir, f, t)[x] = dir[x]
         /\ LoadableFiles(Published(dir, f, t), policy) = (LoadableFiles(dir, policy) \ {f}) \cup {f}
<1>1. examine(t, policy) = "loadable"
  BY DEF Publishable, examine
<1>2. /\ DOMAIN Published(dir, f, t) = DOMAIN dir \cup {f}
      /\ Published(dir, f, t)[f] = t
      /\ \A x \in DOMAIN dir \ {f} : Published(dir, f, t)[x] = dir[x]
  BY DEF Published
<1> DEFINE new == Published(dir, f, t)
<1> HIDE DEF new
<1>3. \A x : x \in LoadableFiles(new, policy) <=> x \in (LoadableFiles(dir, policy) \ {f}) \cup {f}
  BY <1>1, <1>2 DEF LoadableFiles, new
<1>4. LoadableFiles(new, policy) = (LoadableFiles(dir, policy) \ {f}) \cup {f}
  BY <1>3
<1> QED
  BY <1>1, <1>2, <1>4 DEF new

\* Every file is valid still, and none conflicts with another.
LEMMA PublishedScans ==
  ASSUME NEW dir, NEW policy, NEW f, NEW t, Publishable(dir, policy, f, t)
  PROVE  scan_and_validate(Published(dir, f, t), policy)
<1> DEFINE new == Published(dir, f, t)
           old == LoadableFiles(dir, policy)
<1>1. /\ new[f] = t /\ examine(t, policy) = "loadable"
      /\ \A x \in DOMAIN dir \ {f} : new[x] = dir[x]
      /\ LoadableFiles(new, policy) = (old \ {f}) \cup {f}
  BY LoadablePublished
<1>2. DOMAIN new = DOMAIN dir \cup {f}
  BY DEF Published
<1>3. old \subseteq DOMAIN dir
  BY DEF LoadableFiles
<1> HIDE DEF new
<1>4. \A x \in DOMAIN new : examine(new[x], policy) # "invalid"
  BY <1>1, <1>2 DEF Publishable
<1>5. ASSUME NEW g \in old \ {f}
      PROVE  {dir[g].name, dir[g].alias} \cap {t.name, t.alias} = {}
  BY DEF Publishable, InstallClash
<1>6. ASSUME NEW g \in old \ {f}
      PROVE  /\ dir[g].name # t.name /\ dir[g].name # t.alias
             /\ dir[g].alias # t.name /\ dir[g].alias # t.alias
  BY <1>5
<1>7. ASSUME NEW g \in old \ {f}, NEW h \in old \ {f}, g # h
      PROVE  ~(dir[g].name = dir[h].name \/ dir[g].alias = dir[h].alias \/ dir[g].alias = dir[h].name)
  <2> DEFINE gh == <<g, h>>
  <2>1. gh \in old \X old /\ gh[1] = g /\ gh[2] = h
    OBVIOUS
  <2>2. gh \notin conflicts(dir, policy)
    BY DEF Publishable
  <2> HIDE DEF gh
  <2> QED
    BY <1>7, <2>1, <2>2 DEF conflicts
<1>8. ASSUME NEW g \in (old \ {f}) \cup {f}, NEW h \in (old \ {f}) \cup {f}, g # h
      PROVE  ~(new[g].name = new[h].name \/ new[g].alias = new[h].alias \/ new[g].alias = new[h].name)
  <2>1. CASE g = f
    BY <1>1, <1>3, <1>6, <1>8, <2>1
  <2>2. CASE h = f
    BY <1>1, <1>3, <1>6, <1>8, <2>2
  <2>3. CASE g # f /\ h # f
    BY <1>1, <1>3, <1>7, <1>8, <2>3
  <2> QED
    BY <2>1, <2>2, <2>3
<1>9. conflicts(new, policy) = {}
  BY <1>1, <1>8 DEF conflicts
<1>10. scan_and_validate(new, policy)
  BY <1>4, <1>9 DEF scan_and_validate
<1> QED
  BY <1>10 DEF new

\* The tarball that replaces another stands for the same plugin.
SamePlugin(u, t) ==
  t.name = u.name /\ t.alias = u.alias /\ t.kind = u.kind /\ t.exports = u.exports

\* A reference resolves among the loadable files, by name and then by alias.
LEMMA ResolvesAmong ==
  ASSUME NEW pc, NEW ref, NEW files, files = LoadableFiles(pc.dir, to_policy(pc)), NEW g
  PROVE  g \in resolve_plugin(pc, ref) <=>
           /\ pc.enabled /\ g \in files
           /\ \/ pc.dir[g].name = ref
              \/ pc.dir[g].alias = ref /\ \A x \in files : pc.dir[x].name # ref
<1> DEFINE Named == {x \in DOMAIN pc.dir : pc.dir[x].name = ref /\ pc.enabled
                                          /\ examine(pc.dir[x], to_policy(pc)) = "loadable"}
           Aliased == {x \in DOMAIN pc.dir : pc.dir[x].alias = ref /\ pc.enabled
                                            /\ examine(pc.dir[x], to_policy(pc)) = "loadable"}
<1>1. resolve_plugin(pc, ref) = IF Named # {} THEN Named ELSE Aliased
  BY DEF resolve_plugin
<1>2. \A x : x \in Named <=> pc.enabled /\ x \in files /\ pc.dir[x].name = ref
  BY DEF LoadableFiles
<1>3. \A x : x \in Aliased <=> pc.enabled /\ x \in files /\ pc.dir[x].alias = ref
  BY DEF LoadableFiles
<1> HIDE DEF Named, Aliased
<1> QED
  BY <1>1, <1>2, <1>3

\* What a name resolved to, it resolves to still, with the kind it had.
LEMMA PublishedResolves ==
  ASSUME NEW pc, NEW qc, NEW f, NEW t, NEW ref, NEW g \in resolve_plugin(pc, ref),
         Publishable(pc.dir, to_policy(pc), f, t),
         qc.dir = Published(pc.dir, f, t), qc.enabled = pc.enabled, to_policy(qc) = to_policy(pc),
         f \in DOMAIN pc.dir => SamePlugin(pc.dir[f], t)
  PROVE  g \in resolve_plugin(qc, ref) /\ SamePlugin(pc.dir[g], qc.dir[g])
<1> DEFINE dir == pc.dir
           policy == to_policy(pc)
           new == qc.dir
           old == LoadableFiles(dir, policy)
           now == LoadableFiles(new, policy)
<1>1. /\ new[f] = t
      /\ \A x \in DOMAIN dir \ {f} : new[x] = dir[x]
      /\ now = (old \ {f}) \cup {f}
  BY LoadablePublished
<1>2. \A x \in old \ {f} :
         /\ dir[x].name # t.name /\ dir[x].name # t.alias
         /\ dir[x].alias # t.name /\ dir[x].alias # t.alias
  <2>1. \A x \in old \ {f} : {dir[x].name, dir[x].alias} \cap {t.name, t.alias} = {}
    BY DEF Publishable, InstallClash
  <2> QED
    BY <2>1
<1>3. old \subseteq DOMAIN dir
  BY DEF LoadableFiles
<1> HIDE DEF dir, policy, new, old, now
<1>4. /\ pc.enabled /\ g \in old
      /\ \/ dir[g].name = ref
         \/ dir[g].alias = ref /\ \A x \in old : dir[x].name # ref
  BY ResolvesAmong DEF dir, policy, old
<1>5. \A x \in old : SamePlugin(dir[x], new[x]) /\ x \in now
  BY <1>1, <1>3 DEF SamePlugin, dir
<1>8. g \in now /\ (new[g].name = ref \/ (new[g].alias = ref /\ \A x \in now : new[x].name # ref))
      => g \in resolve_plugin(qc, ref)
  <2>1. now = LoadableFiles(qc.dir, to_policy(qc))
    BY DEF now, new, policy
  <2>2. g \in resolve_plugin(qc, ref) <=>
          /\ qc.enabled /\ g \in now
          /\ \/ qc.dir[g].name = ref
             \/ qc.dir[g].alias = ref /\ \A x \in now : qc.dir[x].name # ref
    BY ONLY <2>1, ResolvesAmong
  <2> QED
    BY <1>4, <2>2 DEF new
<1>6. CASE dir[g].name = ref
  <2>1. g \in now /\ new[g].name = ref
    BY <1>4, <1>5, <1>6 DEF SamePlugin
  <2> QED
    BY <1>4, <1>5, <1>8, <2>1 DEF new, dir
<1>7. CASE dir[g].alias = ref /\ \A x \in old : dir[x].name # ref
  <2>1. g \in now /\ new[g].alias = ref
    BY <1>4, <1>5, <1>7 DEF SamePlugin
  <2>2. ASSUME NEW x \in now PROVE new[x].name # ref
    <3>1. CASE x \in old
      BY <1>5, <1>7, <3>1 DEF SamePlugin
    <3>2. CASE x \notin old
      <4>1. x = f /\ new[x] = t /\ g # f
        BY <1>1, <1>4, <3>2
      <4> QED
        BY <1>2, <1>4, <1>7, <4>1
    <3> QED
      BY <3>1, <3>2
  <2> QED
    BY <1>4, <1>5, <1>8, <2>1, <2>2 DEF new, dir
<1> QED
  BY <1>4, <1>6, <1>7

\* A tarball that may be published, and stands for the plugin it replaces,
\* leaves what is on disk as bootable as it was.
LEMMA PublishKeepsBootable ==
  ASSUME NEW f, NEW t, BootableWith(plugdir),
         Publishable(plugdir, to_policy(apply_plugin_versions_to_deploy(disk.plugins, pins)), f, t),
         f \in DOMAIN plugdir => SamePlugin(plugdir[f], t)
  PROVE  BootableWith(Published(plugdir, f, t))
<1> DEFINE new == Published(plugdir, f, t)
           c == LoadConfigWith("normal", plugdir, pins)
           e == LoadConfigWith("normal", new, pins)
           pc == c.plugins
           qc == e.plugins
<1>1. Resolvable(disk, Catalog) /\ BuildFresh(c)
  BY DEF BootableWith
<1>2. Parses(disk) /\ DOMAIN disk.plugins = PluginFields
  BY <1>1 DEF Resolvable, Parses
<1> HIDE DEF new
<1>3. LoadedFrom(c, plugdir, pins) /\ LoadedFrom(e, new, pins)
  BY <1>2, LoadedParts
<1>4. SameFields(c, e)
  <2>1. SameButPlugins(c, e)
    BY <1>2, LoadedAlike
  <2> HIDE DEF c, e
  <2> QED
    BY <2>1, FieldsAlike
<1> HIDE DEF c, e
<1>5. /\ pc = apply_plugin_versions_to_deploy([disk.plugins EXCEPT !.dir = plugdir], pins)
      /\ qc = apply_plugin_versions_to_deploy([disk.plugins EXCEPT !.dir = new], pins)
      /\ pc.dir = plugdir /\ qc.dir = new
  BY <1>3 DEF LoadedFrom
<1> DEFINE base == apply_plugin_versions_to_deploy(disk.plugins, pins)
<1>6. /\ to_policy(pc) = to_policy(base) /\ to_policy(qc) = to_policy(base)
      /\ pc.publishers = disk.plugins.publishers /\ qc.publishers = disk.plugins.publishers
      /\ pc.enabled = disk.plugins.enabled /\ qc.enabled = disk.plugins.enabled
  BY <1>2, <1>5, PolicyOfDir
<1>7. Publishable(pc.dir, to_policy(pc), f, t) /\ (f \in DOMAIN pc.dir => SamePlugin(pc.dir[f], t))
  BY <1>5, <1>6
<1>8. /\ qc.dir = Published(pc.dir, f, t) /\ qc.enabled = pc.enabled /\ to_policy(qc) = to_policy(pc)
      /\ qc.publishers = pc.publishers
  BY <1>5, <1>6 DEF new
<1> HIDE DEF pc, qc
<1>9. \A ref : \A g \in resolve_plugin(pc, ref) : g \in resolve_plugin(qc, ref) /\ SamePlugin(pc.dir[g], qc.dir[g])
  BY <1>7, <1>8, PublishedResolves
<1>10. \A kind, ref : ResolvesTo(pc, kind, ref) => ResolvesTo(qc, kind, ref)
  BY <1>9 DEF ResolvesTo, SamePlugin
<1>11. \A kind, ref : Opens(pc, kind, ref) => Opens(qc, kind, ref)
  BY <1>9 DEF Opens, wire_up_raw, SamePlugin
<1>12. validate(c, cred) /\ Buildable(c, cred) /\ GovernanceBuilt(c, cred, StoredKeyGroups(c))
  BY <1>1 DEF BuildFresh, BuildOver
<1>13. validate(e, cred)
  BY <1>4, <1>12, RulesAlike
<1>14. plugins_preflight(e)
  <2>1. PluginRefs(e) = PluginRefs(c)
    BY <1>4 DEF PluginRefs, SameFields
  <2>2. plugins_preflight(c)
    BY <1>12 DEF Buildable
  <2>3. PolicyOk(qc)
    BY <1>8, <2>2 DEF plugins_preflight, PolicyOk, pc
  <2>4. scan_and_validate(qc.dir, to_policy(qc))
    BY <1>7, <1>8, PublishedScans
  <2>5. \A r \in PluginRefs(e) : ResolvesTo(qc, r[1], r[2])
    BY <1>10, <2>1, <2>2 DEF plugins_preflight, pc
  <2>6. PluginRefs(e) # {} => qc.enabled
    BY <1>8, <2>1, <2>2 DEF plugins_preflight, pc
  <2> QED
    BY <2>3, <2>4, <2>5, <2>6 DEF plugins_preflight, qc
<1>15. Buildable(e, cred)
  <2> USE <1>4 DEF SameFields
  <2>1. LanesBuilt(e) /\ PoolsBuilt(e)
    BY <1>12 DEF Buildable, LanesBuilt, PoolsBuilt
  <2>2. resolve_model_context_max(e)
    <3>1. \A m : ContextMaxima(e, m) = ContextMaxima(c, m)
      BY DEF ContextMaxima
    <3> QED
      BY <1>12, <3>1 DEF Buildable, resolve_model_context_max
  <2>3. CredentialsBuilt(e, cred)
    <3>1. \A p, url : UrlOk(c, p, url) => UrlOk(e, p, url)
      BY DEF UrlOk, ssrf_blocked_host
    <3>2. \A m \in DOMAIN e.models : CredentialBuilt(c, e.models[m].provider, cred)
      BY <1>12 DEF Buildable, CredentialsBuilt
    <3>3. \A p : CredentialBuilt(c, p, cred) => CredentialBuilt(e, p, cred)
      BY <3>1 DEF CredentialBuilt
    <3> QED
      BY <3>2, <3>3 DEF CredentialsBuilt
  <2>4. AuthBuilt(e)
    BY <1>11, <1>12 DEF Buildable, AuthBuilt, pc, qc
  <2> QED
    BY <1>14, <2>1, <2>2, <2>3, <2>4 DEF Buildable
<1>16. GovernanceBuilt(e, cred, StoredKeyGroups(e))
  <2> USE <1>4 DEF SameFields
  <2>1. StoreOpens(e)
    BY <1>11, <1>12 DEF GovernanceBuilt, StoreOpens, pc, qc
  <2>2. GovernanceSecrets(e, cred)
    BY <1>12 DEF GovernanceBuilt, GovernanceSecrets
  <2>3. StoredKeyGroups(e) = StoredKeyGroups(c)
    BY DEF StoredKeyGroups
  <2>4. KeyGroupsExist(e, StoredKeyGroups(e))
    BY <1>12, <2>3 DEF GovernanceBuilt, KeyGroupsExist
  <2> QED
    BY <2>1, <2>2, <2>4 DEF GovernanceBuilt
<1>17. BuildFresh(e)
  BY <1>13, <1>15, <1>16 DEF BuildFresh, BuildOver
<1> QED
  BY <1>1, <1>17 DEF BootableWith, e, new

\* Every upload that waits to be published passed the check.
UploadsInv == \A u \in uploads : Publishable(u.seen, u.policy, u.file, u.tarball)

\* install_store_plugin checks it, and no other step adds one.
LEMMA UploadsStep ==
  ASSUME UploadsInv, [Next]_vars
  PROVE  UploadsInv'
<1>1. CASE install_plugin
  <2>1. PICK f \in Files, t \in Artifacts :
          /\ install_store_plugin(app.cfg.plugins, plugdir, f, t)
          /\ uploads' = uploads \cup {[file |-> f, tarball |-> t, seen |-> plugdir,
                                        policy |-> to_policy(app.cfg.plugins)]}
    BY <1>1 DEF install_plugin
  <2>2. Publishable(plugdir, to_policy(app.cfg.plugins), f, t)
    BY <2>1 DEF install_store_plugin, Publishable, scan_and_validate
  <2> QED
    BY <2>1, <2>2 DEF UploadsInv
<1>2. CASE uploads' \subseteq uploads
  BY <1>2 DEF UploadsInv
<1>3. ~install_plugin => uploads' \subseteq uploads
  BY DEF Next, vars, plugVars, DropPlugin, publish_plugin, remove_plugin, rollback_plugin, rebuild_pinned,
         rebuild_refused, Edit, SetEnv, validate_config_command, Boot, Stop, reload_config, apply_config,
         BuildAndSwap, register_hook, delete_hook, mint_key
<1> QED
  BY <1>1, <1>2, <1>3

\* publish_plugin publishes nothing that the next boot would refuse: where the
\* process could be restarted it still can, when the file has the posture the
\* upload was checked under, the upload replaces a release of its own plugin,
\* and nothing has come under another name since it was checked.
THEOREM InstallNeverBlocksBoot == Spec => InstallKeepsBootable
<1>1. Init => UploadsInv
  BY DEF Init, UploadsInv
<1>2. UploadsInv /\ [Next]_vars => UploadsInv'
  BY UploadsStep
<1>3. UploadsInv => PublishLeavesBootable
  <2> SUFFICES ASSUME UploadsInv, NEW u \in uploads, publish_plugin(u), plugdir' # plugdir,
                      u.policy = to_policy(apply_plugin_versions_to_deploy(disk.plugins, pins)),
                      Undisturbed(u), Supersedes(u), BootableWith(plugdir), NEW dir, dir = plugdir'
               PROVE  BootableWith(dir)
    BY DEF PublishLeavesBootable
  <2>1. dir = Published(plugdir, u.file, u.tarball)
    BY DEF publish_plugin
  <2>2. u.file \in DOMAIN plugdir => SamePlugin(plugdir[u.file], u.tarball)
    BY DEF Supersedes, SamePlugin
  <2>3. Publishable(plugdir, u.policy, u.file, u.tarball)
    BY StillPublishable DEF UploadsInv, Undisturbed
  <2> QED
    BY <2>1, <2>2, <2>3, PublishKeepsBootable
<1> QED
  BY <1>1, <1>2, <1>3, PTL DEF Spec, InstallKeepsBootable

(***************************************************************************)
(* Steps of a recursive function                                           *)
(***************************************************************************)

\* f lists N steps from a, the n-th of them with F[n].
Steps(f, N, a, F) == f[0] = a /\ \A n \in 1 .. N : f[n] = F[n][f[n - 1]]

\* Functions on X can be applied one after the other to a member of X.
LEMMA StepsExist ==
  ASSUME NEW X, NEW a \in X, NEW N \in Nat, NEW F \in [1 .. N -> [X -> X]]
  PROVE  \E f \in [0 .. N -> X] : Steps(f, N, a, F)
<1> DEFINE S == {k \in 0 .. N : \E f \in [0 .. k -> X] : Steps(f, k, a, F)}
<1>1. 0 \in S
  <2> DEFINE g == [n \in 0 .. 0 |-> a]
  <2>1. g \in [0 .. 0 -> X] /\ Steps(g, 0, a, F)
    BY DEF Steps
  <2> HIDE DEF g
  <2> QED
    BY <2>1
<1>2. ASSUME NEW k \in 1 .. N, k - 1 \in S
      PROVE  k \in S
  <2>1. PICK f \in [0 .. k - 1 -> X] : Steps(f, k - 1, a, F)
    BY <1>2
  <2> DEFINE y == F[k][f[k - 1]]
             g == [n \in 0 .. k |-> IF n = k THEN y ELSE f[n]]
  <2>2. k - 1 \in 0 .. k - 1 /\ k \in 0 .. N
    OBVIOUS
  <2>3. y \in X
    <3>1. F[k] \in [X -> X] /\ f[k - 1] \in X
      BY <2>2
    <3> QED
      BY <3>1
  <2>4. g \in [0 .. k -> X] /\ g[0] = a
    BY <2>1, <2>2, <2>3 DEF Steps
  <2>5. ASSUME NEW n \in 1 .. k
        PROVE  g[n] = F[n][g[n - 1]]
    <3>1. CASE n = k
      BY <3>1, <2>2
    <3>2. CASE n # k
      <4>1. n \in 1 .. k - 1 /\ n \in 0 .. k /\ n - 1 \in 0 .. k /\ n - 1 # k
        BY <3>2
      <4>2. f[n] = F[n][f[n - 1]]
        BY <2>1, <4>1 DEF Steps
      <4> QED
        BY <3>2, <4>1, <4>2
    <3> QED
      BY <3>1, <3>2
  <2> HIDE DEF g
  <2>6. Steps(g, k, a, F)
    BY <2>4, <2>5 DEF Steps
  <2> QED
    BY <2>2, <2>4, <2>6
<1> HIDE DEF S
<1>3. 0 .. N \subseteq S
  BY <1>1, <1>2, UpTo
<1>4. N \in S
  BY <1>3
<1> QED
  BY <1>4 DEF S

\* Whatever takes the same steps stays in X, too.
LEMMA StepsStay ==
  ASSUME NEW X, NEW a \in X, NEW N \in Nat, NEW F \in [1 .. N -> [X -> X]], NEW h,
         h[0] = a, \A n \in 1 .. N : h[n - 1] \in X => h[n] = F[n][h[n - 1]]
  PROVE  \A n \in 0 .. N : h[n] \in X
<1> DEFINE S == {n \in 0 .. N : h[n] \in X}
<1>1. 0 \in S
  OBVIOUS
<1>2. ASSUME NEW n \in 1 .. N, n - 1 \in S PROVE n \in S
  <2>1. h[n - 1] \in X /\ n \in 0 .. N
    BY <1>2
  <2>2. F[n] \in [X -> X] /\ h[n] = F[n][h[n - 1]]
    BY <2>1
  <2> QED
    BY <2>1, <2>2
<1> HIDE DEF S
<1>3. 0 .. N \subseteq S
  BY <1>1, <1>2, UpTo
<1> QED
  BY <1>3 DEF S

(***************************************************************************)
(* The order of a reply                                                    *)
(***************************************************************************)

\* What Ranked computes names lanes of the pool, once.
LEMMA RankedParts ==
  ASSUME NEW raw, Len(raw) \in Nat, NEW valid
  PROVE  Ranked(raw, valid) \in Seq(valid) /\ IsInjective(Ranked(raw, valid))
<1> DEFINE N == Len(raw)
           X == {s \in Seq(valid) : IsInjective(s)}
           F == [n \in 1 .. N |-> [s \in X |-> Rank(s, raw[n], valid)]]
           Rhs(h) == [n \in 0 .. N |-> IF n = 0 THEN <<>> ELSE Rank(h[n - 1], raw[n], valid)]
<1>1. <<>> \in X
  BY DEF IsInjective
<1>2. \A s \in X : \A x : Rank(s, x, valid) \in X
  <2> SUFFICES ASSUME NEW s \in X, NEW x, x \in valid \ Range(s) PROVE Append(s, x) \in X
    BY DEF Rank
  <2> DEFINE t == Append(s, x)
  <2>1. t \in Seq(valid) /\ DOMAIN t = 1 .. Len(s) + 1 /\ t[Len(s) + 1] = x
        /\ \A i \in 1 .. Len(s) : t[i] = s[i] /\ i \in DOMAIN s
    OBVIOUS
  <2>2. \A i \in 1 .. Len(s) : s[i] # x
    BY <2>1 DEF Range
  <2>3. Len(s) \in Nat
    OBVIOUS
  <2> HIDE DEF t
  <2>4. IsInjective(t)
    BY <2>1, <2>2, <2>3 DEF IsInjective
  <2> QED
    BY <2>1, <2>4 DEF t
<1>3. F \in [1 .. N -> [X -> X]]
  BY <1>2
<1>4. \A n \in 1 .. N : \A s \in X : F[n][s] = Rank(s, raw[n], valid)
  OBVIOUS
<1> HIDE DEF X, F, N
<1>5. N \in Nat
  BY DEF N
<1>6. PICK f \in [0 .. N -> X] : Steps(f, N, <<>>, F)
  BY <1>1, <1>3, <1>5, StepsExist
<1>7. f = Rhs(f)
  <2> SUFFICES ASSUME NEW n \in 0 .. N PROVE f[n] = Rhs(f)[n]
    OBVIOUS
  <2>1. n = 0 \/ (n \in 1 .. N /\ n - 1 \in 0 .. N)
    BY <1>5
  <2> QED
    BY <2>1, <1>4, <1>6 DEF Steps
<1> DEFINE H == CHOOSE h : h = Rhs(h)
<1>8. H = Rhs(H)
  BY <1>7
<1> HIDE DEF H
<1>9. H[0] = <<>> /\ \A n \in 1 .. N : H[n] = Rank(H[n - 1], raw[n], valid)
  <2>1. 0 \in 0 .. N /\ \A n \in 1 .. N : n \in 0 .. N /\ n # 0
    BY <1>5
  <2>2. \A n \in 0 .. N : H[n] = IF n = 0 THEN <<>> ELSE Rank(H[n - 1], raw[n], valid)
    BY <1>8
  <2> QED
    BY <2>1, <2>2
<1>10. H[N] \in X
  <2>1. \A n \in 1 .. N : H[n - 1] \in X => H[n] = F[n][H[n - 1]]
    BY <1>4, <1>9
  <2>2. \A n \in 0 .. N : H[n] \in X
    BY <1>1, <1>3, <1>5, <1>9, <2>1, StepsStay
  <2> QED
    BY <1>5, <2>2
<1>11. Ranked(raw, valid) = H[N]
  BY DEF Ranked, H, N
<1> QED
  BY <1>10, <1>11 DEF X

(***************************************************************************)
(* The registry of hooks                                                   *)
(***************************************************************************)

\* A registry that is finite, of gates and taps.
FineHooks(hooks) ==
  IsFiniteSet(DOMAIN hooks) /\ \A x \in DOMAIN hooks : hooks[x].kind \in HookKinds

\* The finite registries of the names U and the entries V.
Registries(U, V) == {h \in UNION {[S -> V] : S \in SUBSET U} : IsFiniteSet(DOMAIN h)}
Registered(U, V) == [hooks : Registries(U, V), names : Seq(U)]

\* U has the names, and V the entries, that references get.
Hosts(U, V, refs) ==
  \A r \in Range(refs) : r.module \in U /\ Suffixed[r.module] \in U /\ hook_cfg_from_ref(r) \in V

\* An entry more.
LEMMA OneMore ==
  ASSUME NEW U, NEW V, NEW h \in Registries(U, V), NEW n \in U, NEW v \in V
  PROVE  [x \in DOMAIN h \cup {n} |-> IF x = n THEN v ELSE h[x]] \in Registries(U, V)
<1> DEFINE g == [x \in DOMAIN h \cup {n} |-> IF x = n THEN v ELSE h[x]]
           S == DOMAIN h \cup {n}
<1>1. DOMAIN h \subseteq U /\ \A x \in DOMAIN h : h[x] \in V
  BY DEF Registries
<1>2. IsFiniteSet(DOMAIN h)
  BY DEF Registries
<1>3. g \in [S -> V] /\ S \in SUBSET U /\ DOMAIN g = S
  BY <1>1
<1>4. IsFiniteSet(S)
  BY <1>2, FS_AddElement
<1> HIDE DEF g, S
<1>5. g \in UNION {[T -> V] : T \in SUBSET U}
  BY <1>3
<1> QED
  BY <1>3, <1>4, <1>5 DEF Registries, g

\* register keeps the registry finite.
LEMMA RegisterRefParts ==
  ASSUME NEW U, NEW V, NEW acc \in Registered(U, V), NEW r,
         r.module \in U, Suffixed[r.module] \in U, hook_cfg_from_ref(r) \in V
  PROVE  RegisterRef(acc, r) \in Registered(U, V)
<1> DEFINE n == RegisteredName(acc.hooks, r)
           hs == [x \in DOMAIN acc.hooks \cup {n} |-> IF x = n THEN hook_cfg_from_ref(r) ELSE acc.hooks[x]]
           ns == Append(acc.names, n)
<1>1. n \in U
  BY DEF RegisteredName
<1>2. acc.hooks \in Registries(U, V) /\ acc.names \in Seq(U)
  BY DEF Registered
<1> HIDE DEF n
<1>3. hs \in Registries(U, V)
  BY <1>1, <1>2, OneMore
<1>4. ns \in Seq(U)
  BY <1>1, <1>2
<1>5. RegisterRef(acc, r) = [hooks |-> hs, names |-> ns]
  BY DEF RegisterRef, n
<1> HIDE DEF hs, ns
<1> QED
  BY <1>3, <1>4, <1>5 DEF Registered

\* RegisterAll registers one reference after the other.
LEMMA RegisterAllParts ==
  ASSUME NEW U, NEW V, NEW hooks \in Registries(U, V), NEW refs, IsHookList(refs), Hosts(U, V, refs)
  PROVE  RegisterAll(hooks, refs) \in Registered(U, V)
<1> DEFINE N == Len(refs)
           X == Registered(U, V)
           a == [hooks |-> hooks, names |-> <<>>]
           F == [n \in 1 .. N |-> [s \in X |-> RegisterRef(s, refs[n])]]
           Rhs(h) == [n \in 0 .. N |-> IF n = 0 THEN a ELSE RegisterRef(h[n - 1], refs[n])]
<1>1. a \in X
  BY DEF Registered
<1>2. \A n \in 1 .. N : \A s \in X : RegisterRef(s, refs[n]) \in X
  <2> SUFFICES ASSUME NEW n \in 1 .. N, NEW s \in X PROVE RegisterRef(s, refs[n]) \in X
    OBVIOUS
  <2>1. refs[n] \in Range(refs)
    BY DEF IsHookList, Range
  <2> QED
    BY <2>1, RegisterRefParts DEF Hosts
<1>3. F \in [1 .. N -> [X -> X]]
  BY <1>2
<1>4. \A n \in 1 .. N : \A s \in X : F[n][s] = RegisterRef(s, refs[n])
  OBVIOUS
<1>5. N \in Nat
  BY DEF IsHookList
<1> HIDE DEF X, F, N, a
<1>6. PICK f \in [0 .. N -> X] : Steps(f, N, a, F)
  BY <1>1, <1>3, <1>5, StepsExist
<1>7. f = Rhs(f)
  <2> SUFFICES ASSUME NEW n \in 0 .. N PROVE f[n] = Rhs(f)[n]
    OBVIOUS
  <2>1. n = 0 \/ (n \in 1 .. N /\ n - 1 \in 0 .. N)
    BY <1>5
  <2> QED
    BY <2>1, <1>4, <1>6 DEF Steps
<1> DEFINE H == CHOOSE h : h = Rhs(h)
<1>8. H = Rhs(H)
  BY <1>7
<1> HIDE DEF H
<1>9. H[0] = a /\ \A n \in 1 .. N : H[n] = RegisterRef(H[n - 1], refs[n])
  <2>1. 0 \in 0 .. N /\ \A n \in 1 .. N : n \in 0 .. N /\ n # 0
    BY <1>5
  <2>2. \A n \in 0 .. N : H[n] = IF n = 0 THEN a ELSE RegisterRef(H[n - 1], refs[n])
    BY <1>8
  <2> QED
    BY <2>1, <2>2
<1>10. H[N] \in X
  <2>1. \A n \in 1 .. N : H[n - 1] \in X => H[n] = F[n][H[n - 1]]
    BY <1>4, <1>9
  <2>2. \A n \in 0 .. N : H[n] \in X
    BY <1>1, <1>3, <1>5, <1>9, <2>1, StepsStay
  <2> QED
    BY <1>5, <2>2
<1>11. RegisterAll(hooks, refs) = H[N]
  BY DEF RegisterAll, H, N, a
<1> QED
  BY <1>10, <1>11 DEF X

\* RegisterPools registers the references of one pool after the other.
LEMMA RegisterPoolsParts ==
  ASSUME NEW U, NEW V, NEW pools,
         \A p \in DOMAIN pools : IsHookList(pools[p].hooks) /\ Hosts(U, V, pools[p].hooks)
  PROVE  RegisterPools(pools).hooks \in Registries(U, V)
<1> DEFINE N == Len(NameOrder)
           X == [hooks : Registries(U, V), gates : UNION {[S -> Seq(U)] : S \in SUBSET DOMAIN pools}]
           a == [hooks |-> [x \in {} |-> None], gates |-> [x \in {} |-> None]]
           F == [n \in 1 .. N |-> [s \in X |-> RegisterPool(pools, s, NameOrder[n])]]
           Rhs(h) == [n \in 0 .. N |-> IF n = 0 THEN a ELSE RegisterPool(pools, h[n - 1], NameOrder[n])]
<1>1. a \in X
  <2>1. [x \in {} |-> None] \in [{} -> V] /\ [x \in {} |-> None] \in [{} -> Seq(U)]
        /\ DOMAIN [x \in {} |-> None] = {}
    OBVIOUS
  <2> DEFINE e == [x \in {} |-> None]
  <2> HIDE DEF e
  <2>2. e \in UNION {[S -> V] : S \in SUBSET U} /\ e \in UNION {[S -> Seq(U)] : S \in SUBSET DOMAIN pools}
    BY <2>1 DEF e
  <2>3. IsFiniteSet(DOMAIN e)
    BY <2>1, FS_EmptySet DEF e
  <2> QED
    BY <2>2, <2>3 DEF Registries, e
<1>2. \A s \in X : \A p : RegisterPool(pools, s, p) \in X
  <2> SUFFICES ASSUME NEW s \in X, NEW p, p \in DOMAIN pools PROVE RegisterPool(pools, s, p) \in X
    BY DEF RegisterPool
  <2> DEFINE r == RegisterAll(s.hooks, pools[p].hooks)
             g == [x \in DOMAIN s.gates \cup {p} |-> IF x = p THEN r.names ELSE s.gates[x]]
  <2>1. s.hooks \in Registries(U, V) /\ s.gates \in UNION {[S -> Seq(U)] : S \in SUBSET DOMAIN pools}
    OBVIOUS
  <2>2. r \in Registered(U, V)
    BY <2>1, RegisterAllParts
  <2>3. RegisterPool(pools, s, p) = [hooks |-> r.hooks, gates |-> g]
    BY DEF RegisterPool
  <2> HIDE DEF r
  <2>4. r.hooks \in Registries(U, V) /\ r.names \in Seq(U)
    BY <2>2 DEF Registered
  <2>5. DOMAIN s.gates \subseteq DOMAIN pools /\ \A x \in DOMAIN s.gates : s.gates[x] \in Seq(U)
    BY <2>1
  <2> DEFINE T == DOMAIN s.gates \cup {p}
  <2>6. g \in [T -> Seq(U)] /\ T \in SUBSET DOMAIN pools
    BY <2>4, <2>5
  <2> HIDE DEF g, T
  <2> QED
    BY <2>3, <2>4, <2>6
<1>3. F \in [1 .. N -> [X -> X]]
  BY <1>2
<1>4. \A n \in 1 .. N : \A s \in X : F[n][s] = RegisterPool(pools, s, NameOrder[n])
  OBVIOUS
<1>5. N \in Nat
  BY DEF NameOrder
<1> HIDE DEF X, F, N, a
<1>6. PICK f \in [0 .. N -> X] : Steps(f, N, a, F)
  BY <1>1, <1>3, <1>5, StepsExist
<1>7. f = Rhs(f)
  <2> SUFFICES ASSUME NEW n \in 0 .. N PROVE f[n] = Rhs(f)[n]
    OBVIOUS
  <2>1. n = 0 \/ (n \in 1 .. N /\ n - 1 \in 0 .. N)
    BY <1>5
  <2> QED
    BY <2>1, <1>4, <1>6 DEF Steps
<1> DEFINE H == CHOOSE h : h = Rhs(h)
<1>8. H = Rhs(H)
  BY <1>7
<1> HIDE DEF H
<1>9. H[0] = a /\ \A n \in 1 .. N : H[n] = RegisterPool(pools, H[n - 1], NameOrder[n])
  <2>1. 0 \in 0 .. N /\ \A n \in 1 .. N : n \in 0 .. N /\ n # 0
    BY <1>5
  <2>2. \A n \in 0 .. N : H[n] = IF n = 0 THEN a ELSE RegisterPool(pools, H[n - 1], NameOrder[n])
    BY <1>8
  <2> QED
    BY <2>1, <2>2
<1>10. H[N] \in X
  <2>1. \A n \in 1 .. N : H[n - 1] \in X => H[n] = F[n][H[n - 1]]
    BY <1>4, <1>9
  <2>2. \A n \in 0 .. N : H[n] \in X
    BY <1>1, <1>3, <1>5, <1>9, <2>1, StepsStay
  <2> QED
    BY <1>5, <2>2
<1>11. RegisterPools(pools) = H[N]
  BY DEF RegisterPools, H, N, a
<1> QED
  BY <1>10, <1>11 DEF X

\* The lists of references of a file.
ListsParse(d) == IsHookList(d.global_hooks) /\ \A p \in DOMAIN d.pools : IsHookList(d.pools[p].hooks)

\* The registry of a resolved configuration is finite, of gates and taps.
LEMMA ResolvedHooks ==
  ASSUME NEW d, Shaped(d), ListsParse(d)
  PROVE  FineHooks(resolve(d).hooks)
<1> DEFINE refs == Range(d.global_hooks) \cup UNION {Range(d.pools[p].hooks) : p \in DOMAIN d.pools}
           U == {r.module : r \in refs} \cup {Suffixed[r.module] : r \in refs}
           V == {hook_cfg_from_ref(r) : r \in refs}
           ps == RegisterPools(d.pools)
           gl == RegisterAll(ps.hooks, d.global_hooks)
<1>1. \A r \in refs : r.kind \in HookKinds
  BY DEF ListsParse, IsHookList
<1>2. \A v \in V : v.kind \in HookKinds
  BY <1>1 DEF hook_cfg_from_ref, HookCfg
<1>3. \A p \in DOMAIN d.pools : IsHookList(d.pools[p].hooks) /\ Hosts(U, V, d.pools[p].hooks)
  BY DEF ListsParse, Hosts
<1>4. IsHookList(d.global_hooks) /\ Hosts(U, V, d.global_hooks)
  BY DEF ListsParse, Hosts
<1> HIDE DEF refs, U, V
<1>5. ps.hooks \in Registries(U, V)
  BY <1>3, RegisterPoolsParts
<1>6. gl \in Registered(U, V)
  BY <1>4, <1>5, RegisterAllParts
<1>7. resolve(d).hooks = gl.hooks
  <2> DEFINE pp == [p \in DOMAIN d.pools |-> [d.pools[p] EXCEPT !.gates = Range(ps.gates[p]), !.hooks = <<>>]]
  <2>1. resolve(d) = [d EXCEPT !.hooks = gl.hooks, !.global_hooks = Range(gl.names), !.pools = pp]
    BY DEF resolve
  <2> HIDE DEF ps, gl, pp
  <2> QED
    BY <2>1 DEF Shaped, RootFields
<1> HIDE DEF ps, gl
<1>8. gl.hooks \in Registries(U, V)
  BY <1>6 DEF Registered
<1>9. IsFiniteSet(DOMAIN gl.hooks) /\ \A x \in DOMAIN gl.hooks : gl.hooks[x] \in V
  BY <1>8 DEF Registries
<1> QED
  BY <1>2, <1>7, <1>9 DEF FineHooks

\* A registry that merge_into puts over another, and takes names from.
LEMMA MergedHooks ==
  ASSUME NEW c, DOMAIN c = RootFields, FineHooks(c.hooks), NEW doc, FineHooks(doc.hooks)
  PROVE  FineHooks(MergeInto(c, doc).hooks)
<1> DEFINE S == (DOMAIN c.hooks \cup DOMAIN doc.hooks) \ doc.deleted
           hs == [x \in S |-> IF x \in DOMAIN doc.hooks THEN doc.hooks[x] ELSE c.hooks[x]]
           gs == (c.global_hooks \cup doc.globals) \ doc.deleted
<1>1. MergeInto(c, doc) = [c EXCEPT !.hooks = hs, !.global_hooks = gs]
  BY DEF MergeInto
<1>2. IsFiniteSet(DOMAIN c.hooks \cup DOMAIN doc.hooks)
  BY FS_Union DEF FineHooks
<1>3. IsFiniteSet(S)
  BY <1>2, FS_Difference
<1>4. \A x \in S : hs[x].kind \in HookKinds
  BY DEF FineHooks
<1>5. DOMAIN hs = S
  OBVIOUS
<1> HIDE DEF hs, gs, S
<1>6. MergeInto(c, doc).hooks = hs
  BY <1>1 DEF RootFields
<1> QED
  BY <1>3, <1>4, <1>5, <1>6 DEF FineHooks

\* The registry of what load_config_from_disk makes of a file that parses.
LEMMA LoadedHooks ==
  ASSUME NEW mode, NEW dir, NEW ps, Parses(disk), FineHooks(overlay.hooks)
  PROVE  FineHooks(LoadConfigWith(mode, dir, ps).hooks)
<1> DEFINE q == apply_plugin_versions_to_deploy([disk.plugins EXCEPT !.dir = dir], ps)
           d == [disk EXCEPT !.plugins = q]
           doc == IF mode = "safe" THEN EmptyOverlay ELSE overlay
<1>1. LoadConfigWith(mode, dir, ps) = MergeInto(resolve(d), doc)
  BY DEF LoadConfigWith
<1>2. Shaped(disk) /\ ListsParse(disk)
  BY ParsedShape DEF Parses, ListsParse
<1>3. DOMAIN q = PluginFields
  BY <1>2, DirParts, PinnedParts DEF Shaped, PluginFields
<1> HIDE DEF q
<1>4. Shaped(d) /\ d.pools = disk.pools /\ d.global_hooks = disk.global_hooks
  BY <1>2, <1>3, OtherPlugins DEF RootFields
<1> HIDE DEF d
<1>5. FineHooks(resolve(d).hooks) /\ DOMAIN resolve(d) = RootFields
  BY <1>2, <1>4, ResolvedHooks, ResolvedParts DEF ListsParse
<1>6. FineHooks(doc.hooks)
  <2>1. FineHooks(EmptyOverlay.hooks)
    BY FS_EmptySet DEF EmptyOverlay, FineHooks
  <2> QED
    BY <2>1
<1> HIDE DEF doc
<1> QED
  BY <1>1, <1>5, <1>6, MergedHooks

\* The registry of what apply_config makes of a body that parses.
LEMMA AppliedHooks ==
  ASSUME NEW d, NEW dir, Parses(d)
  PROVE  FineHooks(resolve([d EXCEPT !.plugins.dir = dir]).hooks)
<1> DEFINE q == [d.plugins EXCEPT !.dir = dir]
           e == [d EXCEPT !.plugins = q]
<1>1. [d EXCEPT !.plugins.dir = dir] = e
  OBVIOUS
<1>2. Shaped(d) /\ ListsParse(d)
  BY ParsedShape DEF Parses, ListsParse
<1>3. DOMAIN q = PluginFields
  BY <1>2, DirParts DEF Shaped
<1> HIDE DEF q
<1>4. Shaped(e) /\ e.pools = d.pools /\ e.global_hooks = d.global_hooks
  BY <1>2, <1>3, OtherPlugins DEF RootFields
<1> HIDE DEF e
<1> QED
  BY <1>1, <1>2, <1>4, ResolvedHooks DEF ListsParse

\* An application whose registries are finite, and whose gates are the ones its
\* configuration resolves to.
Wired(a) ==
  /\ {"up", "cfg", "hooks", "globals", "fired", "gates", "ordering"} \subseteq DOMAIN a
  /\ FineHooks(a.hooks) /\ FineHooks(a.cfg.hooks)
  /\ \A p \in DOMAIN a.cfg.pools :
       a.gates[p] = resolve_pool_gates(a.cfg, p) /\ a.ordering[p] = resolve_pool_ordering(a.cfg, p)

\* So are the one that is served and what the overlay file has.
HookInv == FineHooks(overlay.hooks) /\ (app.up => Wired(app))

\* An application that was just built is wired.
LEMMA BuiltWired ==
  ASSUME NEW c, FineHooks(c.hooks), NEW baseNames, NEW store
  PROVE  Wired(BuiltApp(c, baseNames, store))
<1> DEFINE a == BuiltApp(c, baseNames, store)
           gs == [p \in DOMAIN c.pools |-> resolve_pool_gates(c, p)]
           os == [p \in DOMAIN c.pools |-> resolve_pool_ordering(c, p)]
           fs == resolve_global_hooks(c, c.hooks, c.global_hooks)
<1>1. a = [up |-> TRUE, cfg |-> c, base |-> baseNames, store |-> store, hooks |-> c.hooks,
           globals |-> c.global_hooks, gates |-> gs, ordering |-> os, fired |-> fs]
  BY DEF BuiltApp
<1>2. \A p \in DOMAIN c.pools : gs[p] = resolve_pool_gates(c, p) /\ os[p] = resolve_pool_ordering(c, p)
  OBVIOUS
<1> HIDE DEF a, gs, os, fs
<1>3. a.cfg = c /\ a.hooks = c.hooks /\ a.gates = gs /\ a.ordering = os
      /\ {"up", "cfg", "hooks", "globals", "fired", "gates", "ordering"} \subseteq DOMAIN a
  BY <1>1
<1> QED
  BY <1>2, <1>3 DEF Wired, a

\* Hooks that are registered and deleted leave the gates of the pools alone.
LEMMA RewireWired ==
  ASSUME Wired(app), NEW hs, NEW gs, Rewire(hs, gs), FineHooks(hs)
  PROVE  Wired(app')
<1> DEFINE fired == resolve_global_hooks(app.cfg, hs, gs)
<1>1. app' = [app EXCEPT !.hooks = hs, !.globals = gs, !.fired = fired]
  BY DEF Rewire
<1> HIDE DEF fired
<1>2. DOMAIN app' = DOMAIN app /\ app'.hooks = hs /\ app'.cfg = app.cfg
      /\ app'.gates = app.gates /\ app'.ordering = app.ordering
  BY <1>1 DEF Wired
<1> QED
  BY <1>2 DEF Wired

\* The step of an application that is built, or left as it is.
LEMMA BuildKeepsHooks ==
  ASSUME HookInv, overlay' = overlay, NEW c, FineHooks(c.hooks),
         app' = app \/ \E b, s : app' = BuiltApp(c, b, s)
  PROVE  HookInv'
<1>1. CASE app' = app
  BY <1>1 DEF HookInv
<1>2. CASE \E b, s : app' = BuiltApp(c, b, s)
  <2>1. Wired(app')
    BY <1>2, BuiltWired
  <2> QED
    BY <2>1 DEF HookInv
<1> QED
  BY <1>1, <1>2

\* Every step keeps HookInv: entries are built from a file, or come one by one.
LEMMA HookStep ==
  ASSUME HookInv, [Next]_vars
  PROVE  HookInv'
<1>0. FineHooks(overlay.hooks)
  BY DEF HookInv
<1>1. CASE app' = app /\ overlay' = overlay
  BY <1>1 DEF HookInv
<1>2. CASE Boot
  <2>1. PICK mode \in Modes : /\ Resolvable(disk, Catalog) /\ overlay' = overlay
                              /\ app' = BuiltApp(LoadConfig(mode), DOMAIN resolve(disk).hooks, LoadConfig(mode).store)
    BY <1>2 DEF Boot
  <2>2. FineHooks(LoadConfig(mode).hooks)
    BY <1>0, <2>1, LoadedHooks DEF LoadConfig, Resolvable
  <2> QED
    BY <2>1, <2>2, BuildKeepsHooks
<1>3. CASE Stop
  BY <1>3, DownIsDown DEF Stop, HookInv
<1>4. CASE reload_config
  <2>1. Resolvable(disk, Catalog) /\ BuildAndSwap(LoadConfig("normal"), DOMAIN resolve(disk).hooks)
    BY <1>4 DEF reload_config
  <2>2. FineHooks(LoadConfig("normal").hooks)
    BY <1>0, <2>1, LoadedHooks DEF LoadConfig, Resolvable
  <2>3. overlay' = overlay /\ (app' = app \/ \E b, s : app' = BuiltApp(LoadConfig("normal"), b, s))
    BY <2>1 DEF BuildAndSwap
  <2> QED
    BY <2>2, <2>3, BuildKeepsHooks
<1>5. CASE apply_config
  <2>1. PICK d \in Edits(disk) : /\ Resolvable(d, Catalog)
                                 /\ LET c == resolve([d EXCEPT !.plugins.dir = plugdir])
                                    IN  BuildAndSwap(c, DOMAIN c.hooks)
    BY <1>5 DEF apply_config
  <2> DEFINE c == resolve([d EXCEPT !.plugins.dir = plugdir])
  <2>2. FineHooks(c.hooks)
    BY <2>1, AppliedHooks DEF Resolvable
  <2>3. BuildAndSwap(c, DOMAIN c.hooks)
    BY <2>1
  <2> HIDE DEF c
  <2>4. overlay' = overlay /\ (app' = app \/ \E b, s : app' = BuiltApp(c, b, s))
    BY <2>3 DEF BuildAndSwap
  <2> QED
    BY <2>2, <2>4, BuildKeepsHooks
<1>6. CASE register_hook
  <2>1. PICK r \in ApiHooks :
          LET hs == [x \in DOMAIN app.hooks \cup {r.name} |-> IF x = r.name THEN r.cfg ELSE app.hooks[x]]
          IN  app.up /\ (\E gs : Rewire(hs, gs)) /\ overlay'.hooks = hs
    BY <1>6 DEF register_hook, Unlocked
  <2> DEFINE hs == [x \in DOMAIN app.hooks \cup {r.name} |-> IF x = r.name THEN r.cfg ELSE app.hooks[x]]
  <2>2. FineHooks(app.hooks) /\ Wired(app)
    BY <2>1 DEF HookInv, Wired
  <2>3. IsFiniteSet(DOMAIN app.hooks \cup {r.name})
    BY <2>2, FS_AddElement DEF FineHooks
  <2>4. FineHooks(hs)
    BY <2>2, <2>3, HooksAreTyped DEF FineHooks
  <2>5. app.up /\ (\E gs : Rewire(hs, gs)) /\ overlay'.hooks = hs
    BY <2>1
  <2> HIDE DEF hs
  <2> QED
    BY <2>2, <2>4, <2>5, RewireWired DEF HookInv
<1>7. CASE delete_hook
  <2>1. PICK n :
          LET hs == [x \in DOMAIN app.hooks \ {n} |-> app.hooks[x]]
          IN  app.up /\ (\E gs : Rewire(hs, gs)) /\ overlay'.hooks = hs
    BY <1>7 DEF delete_hook, Unlocked
  <2> DEFINE hs == [x \in DOMAIN app.hooks \ {n} |-> app.hooks[x]]
  <2>2. FineHooks(app.hooks) /\ Wired(app)
    BY <2>1 DEF HookInv, Wired
  <2>3. IsFiniteSet(DOMAIN app.hooks \ {n})
    BY <2>2, FS_Difference DEF FineHooks
  <2>4. FineHooks(hs)
    BY <2>2, <2>3 DEF FineHooks
  <2>5. app.up /\ (\E gs : Rewire(hs, gs)) /\ overlay'.hooks = hs
    BY <2>1
  <2> HIDE DEF hs
  <2> QED
    BY <2>2, <2>4, <2>5, RewireWired DEF HookInv
<1>8. CASE rebuild_pinned
  <2>1. /\ Resolvable(disk, Catalog) /\ overlay' = overlay
        /\ app' = BuiltApp(LoadConfig("normal"), DOMAIN resolve(disk).hooks, app.store)
    BY <1>8 DEF rebuild_pinned
  <2>2. FineHooks(LoadConfig("normal").hooks)
    BY <1>0, <2>1, LoadedHooks DEF LoadConfig, Resolvable
  <2> QED
    BY <2>1, <2>2, BuildKeepsHooks
<1>9. CASE \/ DropPlugin \/ install_plugin \/ remove_plugin \/ rollback_plugin \/ rebuild_refused
           \/ Edit \/ SetEnv \/ validate_config_command \/ mint_key \/ \E u \in uploads : publish_plugin(u)
  <2>1. app' = app /\ overlay' = overlay
    BY <1>9 DEF DropPlugin, install_plugin, remove_plugin, rollback_plugin, rebuild_refused, Edit, SetEnv,
                validate_config_command, mint_key, publish_plugin
  <2> QED
    BY <2>1, <1>1
<1>10. CASE UNCHANGED vars
  BY <1>10, <1>1 DEF vars
<1> QED
  BY <1>2, <1>3, <1>4, <1>5, <1>6, <1>7, <1>8, <1>9, <1>10 DEF Next

(***************************************************************************)
(* The chain behind a gate                                                 *)
(***************************************************************************)

\* The names that on_error chains from name can come to.
Reached(hooks, name) == {name} \cup DOMAIN hooks \cup {hooks[x].on_error : x \in DOMAIN hooks}

\* v lists N steps of an on_error chain from name.
Chained(v, N, hooks, name) == v[0] = name /\ \A n \in 1 .. N : v[n] = OnErrorStep(hooks, v[n - 1])

\* One step of a chain.
LEMMA OnErrorStays ==
  ASSUME NEW hooks, NEW name, NEW x \in Reached(hooks, name)
  PROVE  OnErrorStep(hooks, x) \in Reached(hooks, name)
BY DEF Reached, OnErrorStep, IsGate

\* What OnErrorWalk computes.
LEMMA OnErrorIs ==
  ASSUME NEW hooks, IsFiniteSet(DOMAIN hooks), NEW name
  PROVE  LET N == Cardinality(DOMAIN hooks) + 1
             v == OnErrorWalk(hooks, name)
         IN  DOMAIN v = 0 .. N /\ Chained(v, N, hooks, name)
<1> DEFINE N == Cardinality(DOMAIN hooks) + 1
           X == Reached(hooks, name)
           F == [n \in 1 .. N |-> [s \in X |-> OnErrorStep(hooks, s)]]
           Rhs(h) == [n \in 0 .. N |-> IF n = 0 THEN name ELSE OnErrorStep(hooks, h[n - 1])]
<1>1. name \in X
  BY DEF Reached
<1>3. F \in [1 .. N -> [X -> X]]
  BY OnErrorStays
<1>4. \A n \in 1 .. N : \A s \in X : F[n][s] = OnErrorStep(hooks, s)
  OBVIOUS
<1>5. N \in Nat
  BY FS_CardinalityType
<1> HIDE DEF X, F, N
<1>6. PICK f \in [0 .. N -> X] : Steps(f, N, name, F)
  BY <1>1, <1>3, <1>5, StepsExist
<1>7. f = Rhs(f)
  <2> SUFFICES ASSUME NEW n \in 0 .. N PROVE f[n] = Rhs(f)[n]
    OBVIOUS
  <2>1. n = 0 \/ (n \in 1 .. N /\ n - 1 \in 0 .. N)
    BY <1>5
  <2> QED
    BY <2>1, <1>4, <1>6 DEF Steps
<1> DEFINE H == CHOOSE h : h = Rhs(h)
<1>8. H = Rhs(H)
  BY <1>7
<1> HIDE DEF H
<1>9. H[0] = name /\ \A n \in 1 .. N : H[n] = OnErrorStep(hooks, H[n - 1])
  <2>1. 0 \in 0 .. N /\ \A n \in 1 .. N : n \in 0 .. N /\ n # 0
    BY <1>5
  <2>2. \A n \in 0 .. N : H[n] = IF n = 0 THEN name ELSE OnErrorStep(hooks, H[n - 1])
    BY <1>8
  <2> QED
    BY <2>1, <2>2
<1>10. OnErrorWalk(hooks, name) = H
  BY DEF OnErrorWalk, H, N
<1>11. DOMAIN H = 0 .. N
  BY <1>8
<1> QED
  BY <1>9, <1>10, <1>11 DEF Chained, N

\* One step of the walk to the decider.
DecideStep(hooks, replies, x) == IF Answers(replies, x) THEN x ELSE OnErrorStep(hooks, x)

\* What DeclaredDecider computes.
LEMMA DeciderIs ==
  ASSUME NEW hooks, IsFiniteSet(DOMAIN hooks), NEW name, NEW replies
  PROVE  LET N == Cardinality(DOMAIN hooks) + 1
         IN  \E v : /\ v[0] = name
                    /\ \A n \in 1 .. N : v[n] = DecideStep(hooks, replies, v[n - 1])
                    /\ DeclaredDecider(hooks, name, replies) = v[N]
<1> DEFINE N == Cardinality(DOMAIN hooks) + 1
           X == Reached(hooks, name)
           F == [n \in 1 .. N |-> [s \in X |-> DecideStep(hooks, replies, s)]]
           Rhs(h) == [n \in 0 .. N |->
                        IF n = 0 THEN name
                        ELSE IF Answers(replies, h[n - 1]) THEN h[n - 1] ELSE OnErrorStep(hooks, h[n - 1])]
<1>1. name \in X
  BY DEF Reached
<1>3. F \in [1 .. N -> [X -> X]]
  BY OnErrorStays DEF DecideStep
<1>4. \A n \in 1 .. N : \A s \in X : F[n][s] = DecideStep(hooks, replies, s)
  OBVIOUS
<1>5. N \in Nat
  BY FS_CardinalityType
<1> HIDE DEF X, F, N
<1>6. PICK f \in [0 .. N -> X] : Steps(f, N, name, F)
  BY <1>1, <1>3, <1>5, StepsExist
<1>7. f = Rhs(f)
  <2> SUFFICES ASSUME NEW n \in 0 .. N PROVE f[n] = Rhs(f)[n]
    OBVIOUS
  <2>1. n = 0 \/ (n \in 1 .. N /\ n - 1 \in 0 .. N)
    BY <1>5
  <2> QED
    BY <2>1, <1>4, <1>6 DEF Steps, DecideStep
<1> DEFINE H == CHOOSE h : h = Rhs(h)
<1>8. H = Rhs(H)
  BY <1>7
<1> HIDE DEF H
<1>9. H[0] = name /\ \A n \in 1 .. N : H[n] = DecideStep(hooks, replies, H[n - 1])
  <2>1. 0 \in 0 .. N /\ \A n \in 1 .. N : n \in 0 .. N /\ n # 0
    BY <1>5
  <2>2. \A n \in 0 .. N : H[n] = IF n = 0 THEN name ELSE DecideStep(hooks, replies, H[n - 1])
    BY <1>8 DEF DecideStep
  <2> QED
    BY <2>1, <2>2
<1>10. DeclaredDecider(hooks, name, replies) = H[N]
  BY DEF DeclaredDecider, H, N
<1> QED
  BY <1>9, <1>10 DEF N

\* The states of the walk of resolve_on_error_chain.
Walks(hooks) ==
  [at : {hooks[x].on_error : x \in DOMAIN hooks}, visited : SUBSET DOMAIN hooks,
   links : Seq(DOMAIN hooks), end : {None} \cup Terminals, degraded : BOOLEAN]

\* One step of it, by cases.
LEMMA ChainStepParts ==
  ASSUME NEW c, NEW hooks, NEW w \in Walks(hooks)
  PROVE  /\ ChainStep(c, hooks, w) \in Walks(hooks)
         /\ w.end # None => ChainStep(c, hooks, w) = w
         /\ w.end = None /\ w.at \in Terminals =>
              ChainStep(c, hooks, w).end = (IF w.at = "nothing" THEN "weighted" ELSE w.at)
              /\ ChainStep(c, hooks, w).links = w.links
         /\ w.end = None /\ w.at \in Strategies =>
              ChainStep(c, hooks, w).end = "weighted" /\ ChainStep(c, hooks, w).links = w.links
         /\ w.end = None /\ IsGate(hooks, w.at) /\ w.at \notin w.visited =>
              /\ ChainStep(c, hooks, w).at = hooks[w.at].on_error
              /\ ChainStep(c, hooks, w).visited = w.visited \cup {w.at}
              /\ ChainStep(c, hooks, w).end = None
              /\ ChainStep(c, hooks, w).links =
                   IF gate_transport_named(c, hooks, w.at) THEN Append(w.links, w.at) ELSE w.links
<1> DEFINE r == ChainStep(c, hooks, w)
           ls == IF gate_transport_named(c, hooks, w.at) THEN Append(w.links, w.at) ELSE w.links
<1>1. CASE w.end # None
  BY <1>1 DEF ChainStep
<1>2. CASE w.end = None /\ w.at \in Terminals
  <2> DEFINE e == IF w.at = "nothing" THEN "weighted" ELSE w.at
  <2>1. r = [w EXCEPT !.end = e]
    BY <1>2 DEF ChainStep, Terminals, Strategies, IsGate
  <2>2. e \in Terminals
    BY <1>2 DEF Terminals
  <2> HIDE DEF e, r
  <2>3. r \in Walks(hooks) /\ r.end = e /\ r.links = w.links
    BY <2>1, <2>2 DEF Walks
  <2>4. w.at \notin Strategies /\ ~IsGate(hooks, w.at)
    BY <1>2 DEF Terminals, Strategies, IsGate
  <2> QED
    BY <1>2, <2>3, <2>4 DEF e, r
<1>3. CASE w.end = None /\ w.at \in Strategies
  <2>0. w.at \notin Terminals /\ ~IsGate(hooks, w.at) /\ "weighted" \in Terminals
    BY <1>3 DEF Terminals, Strategies, IsGate
  <2>1. r = [w EXCEPT !.end = "weighted"]
    BY <1>3, <2>0 DEF ChainStep
  <2> HIDE DEF r
  <2>3. r \in Walks(hooks) /\ r.end = "weighted" /\ r.links = w.links
    BY <2>0, <2>1 DEF Walks
  <2> QED
    BY <1>3, <2>0, <2>3 DEF r
<1>4. CASE w.end = None /\ IsGate(hooks, w.at) /\ w.at \notin w.visited
  <2>0. w.at \notin Terminals /\ w.at \notin Strategies /\ w.at \in DOMAIN hooks
    BY <1>4 DEF IsGate
  <2>1. r = [w EXCEPT !.at = hooks[w.at].on_error, !.visited = w.visited \cup {w.at}, !.links = ls]
    BY <1>4, <2>0 DEF ChainStep
  <2>2. ls \in Seq(DOMAIN hooks)
    <3>1. w.links \in Seq(DOMAIN hooks)
      BY DEF Walks
    <3>2. Append(w.links, w.at) \in Seq(DOMAIN hooks)
      BY <2>0, <3>1
    <3> QED
      BY <3>1, <3>2
  <2> HIDE DEF r, ls
  <2>3. r \in Walks(hooks) /\ r.end = w.end /\ r.links = ls /\ r.at = hooks[w.at].on_error
        /\ r.visited = w.visited \cup {w.at}
    BY <2>0, <2>1, <2>2 DEF Walks
  <2> QED
    BY <1>4, <2>0, <2>3 DEF r, ls
<1>5. CASE w.end = None /\ w.at \notin Terminals /\ w.at \notin Strategies
           /\ ~(IsGate(hooks, w.at) /\ w.at \notin w.visited)
  <2>1. r = [w EXCEPT !.end = "weighted", !.degraded = TRUE]
    BY <1>5 DEF ChainStep
  <2>2. "weighted" \in Terminals
    BY DEF Terminals
  <2> HIDE DEF r
  <2>3. r \in Walks(hooks)
    BY <2>1, <2>2 DEF Walks
  <2> QED
    BY <1>5, <2>3 DEF r
<1> QED
  BY <1>1, <1>2, <1>3, <1>4, <1>5

\* What resolve_on_error_chain computes.
LEMMA ChainIs ==
  ASSUME NEW c, NEW hooks, IsFiniteSet(DOMAIN hooks), NEW h \in DOMAIN hooks
  PROVE  LET N == Cardinality(DOMAIN hooks) + 1
         IN  \E v : /\ v[0] = ChainStart(hooks, h)
                    /\ \A n \in 1 .. N : v[n] = ChainStep(c, hooks, v[n - 1])
                    /\ \A n \in 0 .. N : v[n] \in Walks(hooks)
                    /\ resolve_on_error_chain(c, hooks, h) = v[N]
<1> DEFINE N == Cardinality(DOMAIN hooks) + 1
           X == Walks(hooks)
           a == ChainStart(hooks, h)
           F == [n \in 1 .. N |-> [s \in X |-> ChainStep(c, hooks, s)]]
           Rhs(g) == [n \in 0 .. N |-> IF n = 0 THEN a ELSE ChainStep(c, hooks, g[n - 1])]
<1>1. a \in X
  BY DEF ChainStart, Walks
<1>3. F \in [1 .. N -> [X -> X]]
  BY ChainStepParts
<1>4. \A n \in 1 .. N : \A s \in X : F[n][s] = ChainStep(c, hooks, s)
  OBVIOUS
<1>5. N \in Nat
  BY FS_CardinalityType
<1> HIDE DEF X, F, N, a
<1>6. PICK f \in [0 .. N -> X] : Steps(f, N, a, F)
  BY <1>1, <1>3, <1>5, StepsExist
<1>7. f = Rhs(f)
  <2> SUFFICES ASSUME NEW n \in 0 .. N PROVE f[n] = Rhs(f)[n]
    OBVIOUS
  <2>1. n = 0 \/ (n \in 1 .. N /\ n - 1 \in 0 .. N)
    BY <1>5
  <2> QED
    BY <2>1, <1>4, <1>6 DEF Steps
<1> DEFINE H == CHOOSE g : g = Rhs(g)
<1>8. H = Rhs(H)
  BY <1>7
<1> HIDE DEF H
<1>9. H[0] = a /\ \A n \in 1 .. N : H[n] = ChainStep(c, hooks, H[n - 1])
  <2>1. 0 \in 0 .. N /\ \A n \in 1 .. N : n \in 0 .. N /\ n # 0
    BY <1>5
  <2>2. \A n \in 0 .. N : H[n] = IF n = 0 THEN a ELSE ChainStep(c, hooks, H[n - 1])
    BY <1>8
  <2> QED
    BY <2>1, <2>2
<1>10. \A n \in 0 .. N : H[n] \in X
  <2>1. \A n \in 1 .. N : H[n - 1] \in X => H[n] = F[n][H[n - 1]]
    BY <1>4, <1>9
  <2> QED
    BY <1>1, <1>3, <1>5, <1>9, <2>1, StepsStay
<1>11. resolve_on_error_chain(c, hooks, h) = H[N]
  BY DEF resolve_on_error_chain, H, N, a
<1> QED
  BY <1>9, <1>10, <1>11 DEF N, X, a

\* What ends a chain.
Ends == Terminals \cup Strategies

\* A chain v that goes through m gates, no two of them the same, and ends.
Runs(hooks, v, m) ==
  /\ m \in 0 .. Cardinality(DOMAIN hooks)
  /\ v[m] \in Ends
  /\ \A k \in 0 .. m - 1 : IsGate(hooks, v[k]) /\ v[k + 1] = hooks[v[k]].on_error
  /\ \A i, j \in 0 .. m - 1 : v[i] = v[j] => i = j

\* A chain that has ended after one hop per hook never came back to a gate: it
\* would have gone round for ever.
LEMMA EndedChainRuns ==
  ASSUME NEW hooks, IsFiniteSet(DOMAIN hooks), NEW v, NEW name,
         Chained(v, Cardinality(DOMAIN hooks) + 1, hooks, name),
         v[Cardinality(DOMAIN hooks) + 1] \in Ends
  PROVE  \E m : Runs(hooks, v, m)
<1> DEFINE C == Cardinality(DOMAIN hooks)
           N == C + 1
           T == {n \in 0 .. N : v[n] \in Ends}
<1>1. C \in Nat /\ N \in Nat
  BY FS_CardinalityType
<1>2. \A n \in 1 .. N : v[n] = OnErrorStep(hooks, v[n - 1])
  BY DEF Chained
<1> HIDE DEF C
<1>3. N \in T
  BY <1>1 DEF C
<1>4. PICK m \in T : \A w \in T : m <= w
  <2>1. T \subseteq Nat /\ T # {}
    BY <1>1, <1>3
  <2> HIDE DEF T
  <2> QED
    BY <2>1, LeastNatural
<1>5. m \in 0 .. N /\ v[m] \in Ends /\ \A w \in 0 .. m - 1 : v[w] \notin Ends
  BY <1>1, <1>4
<1> HIDE DEF T
\* A name that is no gate is never left.
<1>6. ASSUME NEW k \in 0 .. m - 1 PROVE IsGate(hooks, v[k]) /\ v[k + 1] = hooks[v[k]].on_error
  <2>1. k + 1 \in 1 .. N /\ (k + 1) - 1 = k
    BY <1>1, <1>5
  <2>2. v[k + 1] = OnErrorStep(hooks, v[k])
    BY <1>2, <2>1
  <2>3. IsGate(hooks, v[k])
    <3> SUFFICES ASSUME ~IsGate(hooks, v[k]) PROVE FALSE
      OBVIOUS
    <3> DEFINE S == {d \in 0 .. m - k : v[k + d] = v[k]}
    <3>1. m - k \in Nat /\ 0 \in S
      BY <1>1, <1>5
    <3>2. ASSUME NEW d \in 1 .. m - k, d - 1 \in S PROVE d \in S
      <4>1. v[k + (d - 1)] = v[k] /\ k + d \in 1 .. N /\ (k + d) - 1 = k + (d - 1)
        BY <1>1, <1>5, <3>2
      <4>2. v[k + d] = OnErrorStep(hooks, v[k])
        BY <1>2, <4>1
      <4> QED
        BY <4>2 DEF OnErrorStep
    <3> HIDE DEF S
    <3>3. 0 .. m - k \subseteq S
      BY <3>1, <3>2, UpTo
    <3>4. m - k \in S
      BY <3>1, <3>3
    <3>5. v[k + (m - k)] = v[k]
      BY <3>4 DEF S
    <3>6. k + (m - k) = m
      BY <1>1, <1>5
    <3> QED
      BY <1>5, <3>5, <3>6
  <2> QED
    BY <2>2, <2>3 DEF OnErrorStep
\* Two names that are the same have the same to come.
<1>7. ASSUME NEW i \in 0 .. m - 1, NEW j \in 0 .. m - 1, v[i] = v[j], i < j PROVE FALSE
  <2> DEFINE S == {d \in 0 .. m - j : v[i + d] = v[j + d]}
  <2>1. m - j \in Nat /\ 0 \in S
    BY <1>1, <1>5, <1>7
  <2>2. ASSUME NEW d \in 1 .. m - j, d - 1 \in S PROVE d \in S
    <3>1. v[i + (d - 1)] = v[j + (d - 1)] /\ i + d \in 1 .. N /\ j + d \in 1 .. N
          /\ (i + d) - 1 = i + (d - 1) /\ (j + d) - 1 = j + (d - 1)
      BY <1>1, <1>5, <1>7, <2>2
    <3>2. v[i + d] = OnErrorStep(hooks, v[i + (d - 1)]) /\ v[j + d] = OnErrorStep(hooks, v[j + (d - 1)])
      BY <1>2, <3>1
    <3> QED
      BY <3>1, <3>2
  <2> HIDE DEF S
  <2>3. 0 .. m - j \subseteq S
    BY <2>1, <2>2, UpTo
  <2>4. m - j \in S
    BY <2>1, <2>3
  <2>5. v[i + (m - j)] = v[j + (m - j)]
    BY <2>4 DEF S
  <2>6. j + (m - j) = m /\ i + (m - j) \in 0 .. m - 1
    BY <1>1, <1>5, <1>7
  <2> QED
    BY <1>5, <2>5, <2>6
<1>8. \A i, j \in 0 .. m - 1 : v[i] = v[j] => i = j
  <2> SUFFICES ASSUME NEW i \in 0 .. m - 1, NEW j \in 0 .. m - 1, v[i] = v[j], i # j PROVE FALSE
    OBVIOUS
  <2>1. i < j \/ j < i
    OBVIOUS
  <2> QED
    BY <1>7, <2>1
\* There are no more gates than hooks.
<1>9. m <= C
  <2> DEFINE I == 0 .. m - 1
             f == [k \in I |-> v[k]]
  <2>1. m \in Nat
    BY <1>1, <1>5
  <2>2. f \in [I -> DOMAIN hooks]
    BY <1>6 DEF IsGate
  <2>3. IsInjective(f)
    BY <1>8 DEF IsInjective
  <2>4. f \in Injection(I, DOMAIN hooks)
    BY <2>2, <2>3 DEF Injection
  <2>5. Cardinality(I) <= C
    <3> HIDE DEF f, I
    <3> QED
      BY <2>4, FS_Injection DEF C
  <2>6. Cardinality(I) = m
    BY <2>1, FS_Interval
  <2> QED
    BY <2>5, <2>6
<1> QED
  BY <1>1, <1>5, <1>6, <1>8, <1>9 DEF Runs, C

\* The names V goes through before n that are there, in their order.
Listed(c, hooks, v, n, s) ==
  /\ \A i \in DOMAIN s : \E k \in 0 .. n - 1 : s[i] = v[k] /\ gate_transport_named(c, hooks, v[k])
  /\ \A k \in 0 .. n - 1 : gate_transport_named(c, hooks, v[k]) => \E i \in DOMAIN s : s[i] = v[k]
  /\ \A i, j \in DOMAIN s : \A k, l \in 0 .. n - 1 : s[i] = v[k] /\ s[j] = v[l] /\ i < j => k < l

\* One name more.
LEMMA ListedMore ==
  ASSUME NEW c, NEW hooks, NEW v, NEW n \in Nat, NEW s \in Seq(DOMAIN hooks), Listed(c, hooks, v, n, s),
         \A i, j \in 0 .. n : v[i] = v[j] => i = j
  PROVE  Listed(c, hooks, v, n + 1,
                IF gate_transport_named(c, hooks, v[n]) THEN Append(s, v[n]) ELSE s)
<1>0. 0 .. (n + 1) - 1 = 0 .. n /\ n \in 0 .. n /\ (\A k \in 0 .. n - 1 : k \in 0 .. n)
      /\ (\A k \in 0 .. n : k = n \/ k \in 0 .. n - 1)
  OBVIOUS
<1>1. CASE ~gate_transport_named(c, hooks, v[n])
  <2>1. \A i \in DOMAIN s : \E k \in 0 .. n : s[i] = v[k] /\ gate_transport_named(c, hooks, v[k])
    BY <1>0 DEF Listed
  <2>2. \A k \in 0 .. n : gate_transport_named(c, hooks, v[k]) => \E i \in DOMAIN s : s[i] = v[k]
    BY <1>0, <1>1 DEF Listed
  <2>3. \A i, j \in DOMAIN s : \A k, l \in 0 .. n : s[i] = v[k] /\ s[j] = v[l] /\ i < j => k < l
    <3> SUFFICES ASSUME NEW i \in DOMAIN s, NEW j \in DOMAIN s, NEW k \in 0 .. n, NEW l \in 0 .. n,
                        s[i] = v[k], s[j] = v[l], i < j
                 PROVE  k < l
      OBVIOUS
    <3>1. PICK q \in 0 .. n - 1 : s[i] = v[q]
      BY DEF Listed
    <3>2. PICK r \in 0 .. n - 1 : s[j] = v[r]
      BY DEF Listed
    <3>3. k = q /\ l = r
      BY <1>0, <3>1, <3>2
    <3> QED
      BY <3>3 DEF Listed
  <2>4. Listed(c, hooks, v, n + 1, s)
    BY <1>0, <2>1, <2>2, <2>3 DEF Listed
  <2> QED
    BY <1>1, <2>4
<1>2. CASE gate_transport_named(c, hooks, v[n])
  <2> DEFINE t == Append(s, v[n])
             L == Len(s)
  <2>0. L \in Nat /\ DOMAIN s = 1 .. L /\ DOMAIN t = 1 .. L + 1 /\ t[L + 1] = v[n]
        /\ \A i \in 1 .. L : t[i] = s[i]
    OBVIOUS
  <2> HIDE DEF t, L
  <2>01. \A i \in 1 .. L + 1 : i = L + 1 \/ i \in 1 .. L
    BY <2>0
  <2>02. L + 1 \in 1 .. L + 1 /\ \A i \in 1 .. L : i \in 1 .. L + 1
    BY <2>0
  <2>1. \A i \in DOMAIN t : \E k \in 0 .. n : t[i] = v[k] /\ gate_transport_named(c, hooks, v[k])
    <3> SUFFICES ASSUME NEW i \in 1 .. L + 1
                 PROVE  \E k \in 0 .. n : t[i] = v[k] /\ gate_transport_named(c, hooks, v[k])
      BY <2>0
    <3>1. CASE i = L + 1
      BY <3>1, <1>0, <1>2, <2>0
    <3>2. CASE i \in 1 .. L
      <4>1. PICK k \in 0 .. n - 1 : s[i] = v[k] /\ gate_transport_named(c, hooks, v[k])
        BY <3>2, <2>0 DEF Listed
      <4> QED
        BY <3>2, <4>1, <1>0, <2>0
    <3> QED
      BY <3>1, <3>2, <2>01
  <2>2. \A k \in 0 .. n : gate_transport_named(c, hooks, v[k]) => \E i \in DOMAIN t : t[i] = v[k]
    <3> SUFFICES ASSUME NEW k \in 0 .. n, gate_transport_named(c, hooks, v[k])
                 PROVE  \E i \in 1 .. L + 1 : t[i] = v[k]
      BY <2>0
    <3>1. CASE k = n
      BY <3>1, <2>0, <2>02
    <3>2. CASE k \in 0 .. n - 1
      <4>1. PICK i \in 1 .. L : s[i] = v[k]
        BY <3>2, <2>0 DEF Listed
      <4> QED
        BY <4>1, <2>0, <2>02
    <3> QED
      BY <3>1, <3>2, <1>0
  <2>3. \A i, j \in DOMAIN t : \A k, l \in 0 .. n : t[i] = v[k] /\ t[j] = v[l] /\ i < j => k < l
    <3> SUFFICES ASSUME NEW i \in 1 .. L + 1, NEW j \in 1 .. L + 1, NEW k \in 0 .. n, NEW l \in 0 .. n,
                        t[i] = v[k], t[j] = v[l], i < j
                 PROVE  k < l
      BY <2>0
    <3>1. i \in 1 .. L
      BY <2>0
    <3>2. k \in 0 .. n - 1
      <4>1. PICK q \in 0 .. n - 1 : s[i] = v[q]
        BY <3>1, <2>0 DEF Listed
      <4> QED
        BY <4>1, <3>1, <2>0, <1>0
    <3>3. CASE j = L + 1
      <4>1. l = n
        BY <3>3, <2>0, <1>0
      <4> QED
        BY <4>1, <3>2
    <3>4. CASE j \in 1 .. L
      <4>1. l \in 0 .. n - 1
        <5>1. PICK q \in 0 .. n - 1 : s[j] = v[q]
          BY <3>4, <2>0 DEF Listed
        <5> QED
          BY <5>1, <3>4, <2>0, <1>0
      <4>2. s[i] = v[k] /\ s[j] = v[l] /\ i \in DOMAIN s /\ j \in DOMAIN s
        BY <3>1, <3>4, <2>0
      <4> QED
        BY <4>1, <4>2, <3>2 DEF Listed
    <3> QED
      BY <3>3, <3>4, <2>01
  <2>4. Listed(c, hooks, v, n + 1, t)
    BY <1>0, <2>1, <2>2, <2>3 DEF Listed
  <2> QED
    BY <1>2, <2>4 DEF t
<1> QED
  BY <1>1, <1>2

\* The terminal that a chain which ends on x is resolved to.
TerminalOf(x) == IF x \in Terminals \ {"nothing"} THEN x ELSE "weighted"

\* resolve_on_error_chain lists the gates of a chain that runs out, and its end.
LEMMA ChainListsGates ==
  ASSUME NEW c, NEW hooks, IsFiniteSet(DOMAIN hooks), NEW h \in DOMAIN hooks,
         NEW v, v[0] = hooks[h].on_error, NEW m, Runs(hooks, v, m)
  PROVE  LET last == resolve_on_error_chain(c, hooks, h)
         IN  /\ last.links \in Seq(DOMAIN hooks)
             /\ Listed(c, hooks, v, m, last.links)
             /\ last.end = TerminalOf(v[m])
<1> DEFINE C == Cardinality(DOMAIN hooks)
           N == C + 1
<1>0. C \in Nat
  BY FS_CardinalityType
<1>1. PICK w : /\ w[0] = ChainStart(hooks, h)
               /\ \A n \in 1 .. N : w[n] = ChainStep(c, hooks, w[n - 1])
               /\ \A n \in 0 .. N : w[n] \in Walks(hooks)
               /\ resolve_on_error_chain(c, hooks, h) = w[N]
  BY ChainIs
<1>2. m \in 0 .. C /\ v[m] \in Ends
  BY DEF Runs
<1> HIDE DEF C
<1>3. \A n \in 0 .. N : w[n].links \in Seq(DOMAIN hooks)
  BY <1>1 DEF Walks
<1> DEFINE P(n) == /\ w[n].at = v[n] /\ w[n].end = None
                   /\ w[n].visited = {v[k] : k \in 0 .. n - 1}
                   /\ Listed(c, hooks, v, n, w[n].links)
           S == {n \in 0 .. m : P(n)}
<1>4. 0 \in S
  <2>1. w[0].at = v[0] /\ w[0].end = None /\ w[0].visited = {} /\ w[0].links = <<>>
    BY <1>1 DEF ChainStart
  <2>2. 0 .. 0 - 1 = {} /\ DOMAIN <<>> = {}
    OBVIOUS
  <2>3. Listed(c, hooks, v, 0, w[0].links)
    BY <2>1, <2>2 DEF Listed
  <2> QED
    BY <1>2, <2>1, <2>2, <2>3
<1>5. ASSUME NEW n \in 1 .. m, n - 1 \in S PROVE n \in S
  <2> DEFINE q == n - 1
  <2>1. P(q) /\ q \in 0 .. m - 1 /\ q \in 0 .. N /\ n \in 1 .. N /\ q + 1 = n /\ q \in Nat
    BY <1>0, <1>2, <1>5
  <2>2. IsGate(hooks, v[q]) /\ v[n] = hooks[v[q]].on_error
    BY <2>1 DEF Runs
  <2>3. \A i, j \in 0 .. q : v[i] = v[j] => i = j
    BY <1>2, <2>1 DEF Runs
  <2>4. v[q] \notin w[q].visited
    BY <2>1, <2>3
  <2>5. w[n] = ChainStep(c, hooks, w[q]) /\ w[q] \in Walks(hooks) /\ w[q].links \in Seq(DOMAIN hooks)
    BY <1>1, <1>3, <2>1
  <2>6. /\ w[n].at = v[n]
        /\ w[n].visited = w[q].visited \cup {v[q]}
        /\ w[n].end = None
        /\ w[n].links = IF gate_transport_named(c, hooks, v[q]) THEN Append(w[q].links, v[q]) ELSE w[q].links
    BY <2>1, <2>2, <2>4, <2>5, ChainStepParts
  <2>7. Listed(c, hooks, v, n, w[n].links)
    BY <2>1, <2>3, <2>5, <2>6, ListedMore
  <2>8. w[n].visited = {v[k] : k \in 0 .. n - 1}
    <3>1. w[q].visited = {v[k] : k \in 0 .. q - 1}
      BY <2>1
    <3>2. \A k \in 0 .. q : k = q \/ k \in 0 .. q - 1
      BY <2>1
    <3>3. q \in 0 .. q /\ \A k \in 0 .. q - 1 : k \in 0 .. q
      BY <2>1
    <3> HIDE DEF q
    <3>4. {v[k] : k \in 0 .. q} = {v[k] : k \in 0 .. q - 1} \cup {v[q]}
      BY <3>2, <3>3
    <3> QED
      BY <3>1, <3>4, <2>6 DEF q
  <2> QED
    BY <1>5, <2>6, <2>7, <2>8
<1> HIDE DEF S
<1>6. P(m)
  <2>1. 0 .. m \subseteq S
    BY <1>2, <1>4, <1>5, UpTo
  <2>2. m \in S
    BY <1>2, <2>1
  <2> QED
    BY <2>2 DEF S
<1> DEFINE u == m + 1
<1>7. w[u].end = TerminalOf(v[m]) /\ w[u].links = w[m].links
  <2>1. u \in 1 .. N /\ u - 1 = m /\ m \in 0 .. N
    BY <1>0, <1>2
  <2>2. w[u] = ChainStep(c, hooks, w[m]) /\ w[m] \in Walks(hooks)
    BY <1>1, <2>1
  <2>3. CASE v[m] \in Terminals
    BY <2>2, <2>3, <1>6, ChainStepParts DEF TerminalOf
  <2>4. CASE v[m] \in Strategies
    <3>1. v[m] \notin Terminals
      BY <2>4 DEF Terminals, Strategies
    <3> QED
      BY <2>2, <2>4, <3>1, <1>6, ChainStepParts DEF TerminalOf
  <2> QED
    BY <1>2, <2>3, <2>4 DEF Ends
<1>8. TerminalOf(v[m]) # None
  BY DEF TerminalOf, Terminals, None
<1> DEFINE R == {d \in 0 .. N - u : w[u + d].end = w[u].end /\ w[u + d].links = w[u].links}
<1>9. N - u \in Nat /\ 0 \in R
  BY <1>0, <1>2
<1>10. ASSUME NEW d \in 1 .. N - u, d - 1 \in R PROVE d \in R
  <2> DEFINE q == u + (d - 1)
  <2>1. w[q].end = w[u].end /\ w[q].links = w[u].links /\ u + d \in 1 .. N /\ (u + d) - 1 = q /\ q \in 0 .. N
        /\ d \in 0 .. N - u
    BY <1>0, <1>2, <1>10
  <2>2. w[u + d] = ChainStep(c, hooks, w[q]) /\ w[q] \in Walks(hooks)
    BY <1>1, <2>1
  <2>3. w[u + d] = w[q]
    BY <1>7, <1>8, <2>1, <2>2, ChainStepParts
  <2> QED
    BY <2>1, <2>3
<1>11. w[N].end = w[u].end /\ w[N].links = w[u].links
  <2> HIDE DEF R
  <2>1. 0 .. N - u \subseteq R
    BY <1>9, <1>10, UpTo
  <2>2. N - u \in R
    BY <1>9, <2>1
  <2>3. u + (N - u) = N
    BY <1>0, <1>2
  <2> QED
    BY <2>2, <2>3 DEF R
<1>12. w[N].links \in Seq(DOMAIN hooks)
  BY <1>0, <1>3
<1> QED
  BY <1>1, <1>6, <1>7, <1>11, <1>12

\* DeclaredDecider is the hook, or the first of the chain that answers, or the
\* chain's end.
LEMMA DeciderIsFirst ==
  ASSUME NEW hooks, IsFiniteSet(DOMAIN hooks), NEW h, IsGate(hooks, h), NEW replies,
         NEW v, v[0] = hooks[h].on_error, NEW m, Runs(hooks, v, m)
  PROVE  LET d == DeclaredDecider(hooks, h, replies)
         IN  IF Answers(replies, h) THEN d = h
             ELSE \E k \in 0 .. m : /\ d = v[k]
                                    /\ k = m \/ Answers(replies, v[k])
                                    /\ \A j \in 0 .. k - 1 : ~Answers(replies, v[j])
<1> DEFINE C == Cardinality(DOMAIN hooks)
           N == C + 1
<1>0. C \in Nat
  BY FS_CardinalityType
<1>1. PICK w : /\ w[0] = h
               /\ \A n \in 1 .. N : w[n] = DecideStep(hooks, replies, w[n - 1])
               /\ DeclaredDecider(hooks, h, replies) = w[N]
  BY DeciderIs
<1>2. m \in 0 .. C /\ v[m] \in Ends
  BY DEF Runs
<1> HIDE DEF C
<1>3. CASE Answers(replies, h)
  <2> DEFINE S == {n \in 0 .. N : w[n] = h}
  <2>1. N \in Nat /\ 0 \in S
    BY <1>0, <1>1
  <2>2. ASSUME NEW n \in 1 .. N, n - 1 \in S PROVE n \in S
    BY <1>1, <1>3, <2>2 DEF DecideStep
  <2> HIDE DEF S
  <2>3. 0 .. N \subseteq S
    BY <2>1, <2>2, UpTo
  <2>4. N \in S
    BY <2>1, <2>3
  <2> QED
    BY <1>1, <1>3, <2>4 DEF S
<1>4. CASE ~Answers(replies, h)
  <2> DEFINE T == {n \in 0 .. m : n = m \/ Answers(replies, v[n])}
  <2>1. PICK k \in T : \A x \in T : k <= x
    <3>1. T \subseteq Nat /\ m \in T
      BY <1>2
    <3> HIDE DEF T
    <3> QED
      BY <3>1, LeastNatural
  <2>2. k \in 0 .. m /\ (k = m \/ Answers(replies, v[k])) /\ \A j \in 0 .. k - 1 : ~Answers(replies, v[j])
    <3>1. k \in 0 .. m /\ (k = m \/ Answers(replies, v[k]))
      BY <2>1
    <3>2. ASSUME NEW j \in 0 .. k - 1 PROVE ~Answers(replies, v[j])
      <4>1. j \in 0 .. m /\ ~(k <= j)
        BY <1>2, <3>1
      <4> QED
        BY <2>1, <4>1
    <3> QED
      BY <3>1, <3>2
  <2> HIDE DEF T
  <2> DEFINE S == {n \in 0 .. k : w[n + 1] = v[n]}
  <2>3. k \in Nat /\ 0 \in S
    <3>1. 1 \in 1 .. N /\ 1 - 1 = 0
      BY <1>0
    <3>2. w[1] = hooks[h].on_error
      BY <1>1, <1>4, <3>1 DEF DecideStep, OnErrorStep
    <3> QED
      BY <1>2, <2>2, <3>2
  <2>4. ASSUME NEW n \in 1 .. k, n - 1 \in S PROVE n \in S
    <3> DEFINE q == n - 1
    <3>1. w[n] = v[q] /\ n + 1 \in 1 .. N /\ (n + 1) - 1 = n /\ q \in 0 .. k - 1 /\ q \in 0 .. m - 1
          /\ q + 1 = n /\ n \in 0 .. k
      BY <1>0, <1>2, <2>2, <2>4
    <3> HIDE DEF q
    <3>2. w[n + 1] = DecideStep(hooks, replies, w[n])
      BY <1>1, <3>1
    <3>3. IsGate(hooks, v[q]) /\ v[n] = hooks[v[q]].on_error
      BY <3>1 DEF Runs
    <3>4. ~Answers(replies, v[q])
      BY <2>2, <3>1
    <3>5. w[n + 1] = v[n]
      BY <3>1, <3>2, <3>3, <3>4 DEF DecideStep, OnErrorStep
    <3> QED
      BY <3>1, <3>5
  <2>5. w[k + 1] = v[k]
    <3> HIDE DEF S
    <3>1. 0 .. k \subseteq S
      BY <2>3, <2>4, UpTo
    <3>2. k \in S
      BY <2>3, <3>1
    <3> QED
      BY <3>2 DEF S
  <2>6. DecideStep(hooks, replies, v[k]) = v[k]
    <3>1. v[m] \in Ends => ~IsGate(hooks, v[m])
      BY DEF IsGate, Ends
    <3> QED
      BY <1>2, <2>2, <3>1 DEF DecideStep, OnErrorStep
  <2> DEFINE u == k + 1
             R == {d \in 0 .. N - u : w[u + d] = v[k]}
  <2>7. N - u \in Nat /\ 0 \in R
    BY <1>0, <1>2, <2>2, <2>5
  <2>8. ASSUME NEW d \in 1 .. N - u, d - 1 \in R PROVE d \in R
    <3>1. w[u + (d - 1)] = v[k] /\ u + d \in 1 .. N /\ (u + d) - 1 = u + (d - 1) /\ d \in 0 .. N - u
      BY <1>0, <1>2, <2>2, <2>8
    <3>2. w[u + d] = v[k]
      BY <1>1, <2>6, <3>1
    <3> QED
      BY <3>1, <3>2
  <2>9. w[N] = v[k]
    <3> HIDE DEF R
    <3>1. 0 .. N - u \subseteq R
      BY <2>7, <2>8, UpTo
    <3>2. N - u \in R
      BY <2>7, <3>1
    <3>3. u + (N - u) = N
      BY <1>0, <1>2, <2>2
    <3> QED
      BY <3>2, <3>3 DEF R
  <2> QED
    BY <1>1, <1>4, <2>2, <2>9
<1> QED
  BY <1>3, <1>4

\* A chain from a gate goes through the gate, and then its chain.
LEMMA InTheWalk ==
  ASSUME NEW hooks, IsFiniteSet(DOMAIN hooks), NEW h, IsGate(hooks, h),
         NEW m, Runs(hooks, OnErrorWalk(hooks, hooks[h].on_error), m)
  PROVE  /\ h \in Range(OnErrorWalk(hooks, h))
         /\ \A k \in 0 .. m : OnErrorWalk(hooks, hooks[h].on_error)[k] \in Range(OnErrorWalk(hooks, h))
<1> DEFINE C == Cardinality(DOMAIN hooks)
           N == C + 1
           w == OnErrorWalk(hooks, h)
           v == OnErrorWalk(hooks, hooks[h].on_error)
<1>0. C \in Nat
  BY FS_CardinalityType
<1>1. DOMAIN w = 0 .. N /\ Chained(w, N, hooks, h) /\ Chained(v, N, hooks, hooks[h].on_error)
  BY OnErrorIs
<1>2. m \in 0 .. C
  BY DEF Runs
<1> HIDE DEF C, v, w
<1> DEFINE S == {n \in 0 .. C : w[n + 1] = v[n]}
<1>3. 0 \in S
  <2>1. 1 \in 1 .. N /\ 1 - 1 = 0
    BY <1>0
  <2> QED
    BY <1>0, <1>1, <2>1 DEF Chained, OnErrorStep
<1>4. ASSUME NEW n \in 1 .. C, n - 1 \in S PROVE n \in S
  <2>1. w[n] = v[n - 1] /\ n + 1 \in 1 .. N /\ (n + 1) - 1 = n /\ n \in 1 .. N /\ n \in 0 .. C
    BY <1>0, <1>4
  <2>2. w[n + 1] = OnErrorStep(hooks, w[n]) /\ v[n] = OnErrorStep(hooks, v[n - 1])
    BY <1>1, <2>1 DEF Chained
  <2> QED
    BY <2>1, <2>2
<1>5. 0 .. C \subseteq S
  <2> HIDE DEF S
  <2> QED
    BY <1>0, <1>3, <1>4, UpTo
<1>6. ASSUME NEW k \in 0 .. m PROVE v[k] \in Range(w)
  <2>1. w[k + 1] = v[k] /\ k + 1 \in 0 .. N
    BY <1>0, <1>2, <1>5
  <2> QED
    BY <1>1, <2>1 DEF Range
<1>7. h \in Range(w)
  <2>1. w[0] = h /\ 0 \in 0 .. N
    BY <1>0, <1>1 DEF Chained
  <2> QED
    BY <1>1, <2>1 DEF Range
<1> QED
  BY <1>6, <1>7 DEF v, w

(***************************************************************************)
(* The outcome of a gate                                                   *)
(***************************************************************************)

\* A reply that is one of the three, and refuses only if it was understood.
FineReply(r) ==
  /\ r.sent \in {"down", "garbage", "ok"}
  /\ r.sent = "garbage" => ~r.reject
  /\ Len(r.order) \in Nat

\* So are the replies that the property ranges over.
LEMMA RepliesAreFine ==
  ASSUME NEW r \in SomeReplies
  PROVE  FineReply(r)
<1>1. FineReply(DownReply)
  BY DEF FineReply, DownReply
<1>2. FineReply(EmptyReply)
  BY DEF FineReply, DownReply, EmptyReply
<1>3. FineReply([DownReply EXCEPT !.sent = "garbage"])
  BY DEF FineReply, DownReply
<1>4. FineReply([EmptyReply EXCEPT !.reject = TRUE, !.status = 200, !.order = <<"m1">>])
  <2> DEFINE q == [EmptyReply EXCEPT !.reject = TRUE, !.status = 200, !.order = <<"m1">>]
  <2>1. q.sent = "ok" /\ q.order = <<"m1">>
    BY DEF DownReply, EmptyReply
  <2>2. Len(<<"m1">>) \in Nat
    OBVIOUS
  <2> HIDE DEF q
  <2>3. FineReply(q)
    BY <2>1, <2>2 DEF FineReply
  <2> QED
    BY <2>3 DEF q
<1>5. FineReply([EmptyReply EXCEPT !.order = <<"m2", "gone", "m1", "m2">>])
  <2> DEFINE q == [EmptyReply EXCEPT !.order = <<"m2", "gone", "m1", "m2">>]
  <2>1. q.sent = "ok" /\ q.order = <<"m2", "gone", "m1", "m2">>
    BY DEF DownReply, EmptyReply
  <2>2. Len(<<"m2", "gone", "m1", "m2">>) \in Nat
    OBVIOUS
  <2> HIDE DEF q
  <2>3. FineReply(q)
    BY <2>1, <2>2 DEF FineReply
  <2> QED
    BY <2>3 DEF q
<1> QED
  BY <1>1, <1>2, <1>3, <1>4, <1>5 DEF SomeReplies

\* A ranked order is an abstention or an order of lanes, each named once.
LEMMA RankedDecision ==
  ASSUME NEW raw, Len(raw) \in Nat, NEW valid
  PROVE  LET d == from_ranked(raw, valid)
         IN  /\ d = Abstain \/ d.verb = "prefer"
             /\ d.order \in Seq(valid) /\ IsInjective(d.order)
<1> DEFINE s == Ranked(raw, valid)
<1>1. s \in Seq(valid) /\ IsInjective(s)
  BY RankedParts
<1>2. from_ranked(raw, valid) = IF s = <<>> THEN Abstain ELSE [Abstain EXCEPT !.verb = "prefer", !.order = s]
  BY DEF from_ranked
<1> HIDE DEF s
<1>3. Abstain.order = <<>>
  BY DEF Abstain
<1>4. [Abstain EXCEPT !.verb = "prefer", !.order = s].verb = "prefer"
      /\ [Abstain EXCEPT !.verb = "prefer", !.order = s].order = s
  BY DEF Abstain
<1> QED
  BY <1>1, <1>2, <1>3, <1>4

\* What an outcome may hold: a client's error for a reply that refuses, no
\* refusal for any other, and an order of lanes, each named once.
Obeys(o, r, valid) ==
  /\ IF r.reject THEN o.kind = "reject_request" /\ o.status \in 400 .. 499
     ELSE o.kind \notin {"reject", "reject_request"}
  /\ IsInjective(o.order)
  /\ Range(o.order) \subseteq valid

\* The weighted choice has no order.
LEMMA WeightedObeys ==
  ASSUME NEW r, ~r.reject, NEW valid
  PROVE  Obeys(Weighted, r, valid)
<1>1. Weighted.kind = "weighted" /\ Weighted.order = <<>>
  BY DEF Weighted
<1>2. DOMAIN <<>> = {}
  OBVIOUS
<1> QED
  BY <1>1, <1>2 DEF Obeys, IsInjective, Range

\* A hook's reply is a failure when the hook was down, and is obeyed otherwise.
LEMMA ReplyIsObeyed ==
  ASSUME NEW r, FineReply(r), NEW valid, NEW by
  PROVE  LET d == decide(r, valid)
         IN  /\ d = Failed <=> r.sent = "down"
             /\ r.sent # "down" => Obeys(map_decision(d, by, valid), r, valid)
<1> DEFINE d == decide(r, valid)
<1>0. Abstain.verb = "abstain" /\ Failed.verb = "failed" /\ DOMAIN <<>> = {}
      /\ Weighted.order = <<>>
  BY DEF Abstain, Failed, Weighted
<1>1. CASE r.sent = "down"
  BY <1>1 DEF decide
<1>2. CASE r.sent # "down" /\ d = Abstain /\ ~r.reject
  <2>1. map_decision(Abstain, by, valid) = Weighted
    BY <1>0 DEF map_decision
  <2>2. d # Failed
    BY <1>0, <1>2
  <2> QED
    BY <1>2, <2>1, <2>2, WeightedObeys
<1>3. CASE r.sent = "garbage"
  <2>1. d = Abstain /\ ~r.reject
    BY <1>3 DEF decide, FineReply
  <2> QED
    BY <1>2, <1>3, <2>1
<1>4. CASE r.sent = "ok"
  <2>0. d = normalize(r, valid)
    BY <1>4 DEF decide
  <2>1. CASE r.reject
    <3> DEFINE st == clamp_reject_status(r.status)
    <3>1. st \in 400 .. 499
      BY DEF clamp_reject_status, REJECT_STATUS_DEFAULT
    <3>2. d = [Abstain EXCEPT !.verb = "reject", !.status = st]
      BY <2>0, <2>1 DEF normalize
    <3> HIDE DEF st, d
    <3>3. d.verb = "reject" /\ d.status = st
      BY <3>2 DEF Abstain
    <3> DEFINE o == [Weighted EXCEPT !.kind = "reject_request", !.by = by, !.status = clamp_reject_status(d.status)]
    <3>4. map_decision(d, by, valid) = o
      BY <3>3 DEF map_decision
    <3>5. clamp_reject_status(d.status) = st
      BY <3>1, <3>3 DEF clamp_reject_status
    <3>6. o.kind = "reject_request" /\ o.status = st /\ o.order = <<>>
      BY <3>5 DEF Weighted
    <3> HIDE DEF o
    <3>7. Obeys(o, r, valid)
      BY <1>0, <2>1, <3>1, <3>6 DEF Obeys, IsInjective, Range
    <3>8. d # Failed
      BY <1>0, <3>3
    <3> QED
      BY <1>4, <3>4, <3>7, <3>8 DEF d
  <2>2. CASE ~r.reject /\ r.restrict
    <3>2. d = [Abstain EXCEPT !.verb = "restrict", !.tags = r.tags]
      BY <2>0, <2>2 DEF normalize
    <3> HIDE DEF d
    <3>3. d.verb = "restrict"
      BY <3>2 DEF Abstain
    <3> DEFINE o == [Weighted EXCEPT !.kind = "restrict", !.tags = d.tags, !.by = by]
    <3>4. map_decision(d, by, valid) = o
      BY <3>3 DEF map_decision
    <3>6. o.kind = "restrict" /\ o.order = <<>>
      BY DEF Weighted
    <3> HIDE DEF o
    <3>7. Obeys(o, r, valid)
      BY <1>0, <2>2, <3>6 DEF Obeys, IsInjective, Range
    <3>8. d # Failed
      BY <1>0, <3>3
    <3> QED
      BY <1>4, <3>4, <3>7, <3>8 DEF d
  <2>3. CASE ~r.reject /\ ~r.restrict /\ r.abstain
    <3>1. d = Abstain
      BY <2>0, <2>3 DEF normalize
    <3> QED
      BY <1>2, <1>4, <2>3, <3>1
  <2>4. CASE ~r.reject /\ ~r.restrict /\ ~r.abstain
    <3>1. d = from_ranked(r.order, valid)
      BY <2>0, <2>4 DEF normalize
    <3>2. (d = Abstain \/ d.verb = "prefer") /\ d.order \in Seq(valid)
      BY <3>1, RankedDecision DEF FineReply
    <3>3. CASE d = Abstain
      BY <1>2, <1>4, <2>4, <3>3
    <3>4. CASE d.verb = "prefer"
      <4> HIDE DEF d
      <4> DEFINE f == from_ranked(d.order, valid)
                 o == [Weighted EXCEPT !.kind = "order", !.order = f.order, !.by = by]
      <4>1. f.order \in Seq(valid) /\ IsInjective(f.order)
        BY <3>2, RankedDecision
      <4>2. map_decision(d, by, valid) = IF f = Abstain THEN Weighted ELSE o
        BY <3>4 DEF map_decision
      <4> HIDE DEF f
      <4>3. o.kind = "order" /\ o.order = f.order
        BY DEF Weighted
      <4> HIDE DEF o
      <4>4. Range(f.order) \subseteq valid
        BY <4>1 DEF Range
      <4>5. Obeys(o, r, valid)
        BY <2>4, <4>1, <4>3, <4>4 DEF Obeys
      <4>6. d # Failed
        BY <1>0, <3>4
      <4> QED
        BY <1>4, <2>4, <4>2, <4>5, <4>6, WeightedObeys DEF d
    <3> QED
      BY <3>2, <3>3, <3>4
  <2> QED
    BY <2>1, <2>2, <2>3, <2>4
<1> QED
  BY <1>1, <1>3, <1>4 DEF FineReply

\* When nobody answered, the request is refused if the chain ends in "reject",
\* and the order is the pool's or none.
LEMMA TerminalDecides ==
  ASSUME NEW x \in Ends, NEW cands, NEW by
  PROVE  LET o == coerce_on_error(TerminalOf(x), cands, by)
         IN  /\ o.kind = "reject" <=> x = "reject"
             /\ o.order \in {<<>>, cands}
<1>1. TerminalOf(x) \in {"weighted", "reject", "first"} /\ (TerminalOf(x) = "reject" <=> x = "reject")
  BY DEF TerminalOf, Ends, Terminals, Strategies
<1>2. CASE TerminalOf(x) = "weighted"
  <2>1. coerce_on_error(TerminalOf(x), cands, by) = Weighted
    BY <1>2 DEF coerce_on_error
  <2> QED
    BY <1>1, <1>2, <2>1 DEF Weighted
<1>3. CASE TerminalOf(x) = "reject"
  <2>1. coerce_on_error(TerminalOf(x), cands, by) = [Weighted EXCEPT !.kind = "reject", !.status = 503]
    BY <1>3 DEF coerce_on_error
  <2> QED
    BY <1>1, <1>3, <2>1 DEF Weighted
<1>4. CASE TerminalOf(x) = "first"
  <2>1. coerce_on_error(TerminalOf(x), cands, by) = [Weighted EXCEPT !.kind = "order", !.order = cands, !.by = by]
    BY <1>4 DEF coerce_on_error
  <2> QED
    BY <1>1, <1>4, <2>1 DEF Weighted
<1> QED
  BY <1>1, <1>2, <1>3, <1>4

\* The gates whose replies decide for the gate of hook h.
Asked(c, h) ==
  {x \in DOMAIN c.hooks \cap Range(OnErrorWalk(c.hooks, h)) : gate_transport_named(c, c.hooks, x)}

\* The outcome of gate g, as it was declared.
AsDeclared(c, g, cands, replies) ==
  LET o == decide_policy_order(g, cands, replies)
      d == DeclaredDecider(c.hooks, g.hook, replies)
  IN  /\ IF d \in DOMAIN replies
         THEN /\ replies[d].sent # "garbage" =>
                    IF replies[d].reject
                    THEN o.kind = "reject_request" /\ o.status \in 400 .. 499
                    ELSE o.kind \notin {"reject", "reject_request"}
              /\ IsInjective(o.order)
         ELSE /\ d \in Terminals \cup Strategies
              /\ o.kind = "reject" <=> d = "reject"
              /\ d \in Terminals => o.order \in {<<>>, cands}
      /\ Range(o.order) \subseteq Range(cands)

\* A hook that is wired as a gate: it is there, and its chain ends.
GateHook(c, h) ==
  /\ IsGate(c.hooks, h) /\ gate_transport_named(c, c.hooks, h)
  /\ OnErrorEnd(c.hooks, c.hooks[h].on_error) \in Ends

\* Its gate decides as declared.
LEMMA GateDecides ==
  ASSUME NEW c, FineHooks(c.hooks), DOMAIN c.hooks \cap Ends = {}, NEW h, GateHook(c, h),
         NEW cands, cands # <<>>, NEW replies \in [Asked(c, h) -> SomeReplies]
  PROVE  AsDeclared(c, resolve_gate_transport(c, c.hooks, h), cands, replies)
<1> DEFINE hooks == c.hooks
           v == OnErrorWalk(hooks, hooks[h].on_error)
           last == resolve_on_error_chain(c, hooks, h)
           g == resolve_gate_transport(c, hooks, h)
           d == DeclaredDecider(hooks, h, replies)
           o == decide_policy_order(g, cands, replies)
           valid == Range(cands)
           s == last.links
<1>1. IsFiniteSet(DOMAIN hooks) /\ IsGate(hooks, h) /\ h \in DOMAIN hooks
  BY DEF FineHooks, GateHook, IsGate
<1>2. v[0] = hooks[h].on_error
  BY <1>1, OnErrorIs DEF Chained
<1>3. PICK m : Runs(hooks, v, m)
  <2>1. Chained(v, Cardinality(DOMAIN hooks) + 1, hooks, hooks[h].on_error)
    BY <1>1, OnErrorIs
  <2>2. v[Cardinality(DOMAIN hooks) + 1] \in Ends
    BY DEF GateHook, OnErrorEnd
  <2> HIDE DEF v
  <2> QED
    BY <1>1, <2>1, <2>2, EndedChainRuns
<1>4. m \in Nat /\ v[m] \in Ends /\ \A k \in 0 .. m - 1 : v[k] \in DOMAIN hooks
  <2>1. Cardinality(DOMAIN hooks) \in Nat
    BY <1>1, FS_CardinalityType
  <2> QED
    BY <1>3, <2>1 DEF Runs, IsGate
<1>5. s \in Seq(DOMAIN hooks) /\ Listed(c, hooks, v, m, s) /\ last.end = TerminalOf(v[m])
  <2> HIDE DEF v
  <2> QED
    BY <1>1, <1>2, <1>3, ChainListsGates
<1>6. g.hook = h /\ g.chain = s /\ g.on_error = last.end
  <2> HIDE DEF last
  <2>1. g = [hook |-> h, plugin |-> hooks[h].plugin, prompt |-> hooks[h].prompt,
             chain |-> last.links, on_error |-> last.end, degraded |-> last.degraded]
    BY DEF resolve_gate_transport, last
  <2> QED
    BY <2>1
\* The hook and the gates of its chain that are there are asked.
<1>7. h \in DOMAIN replies /\ \A k \in 0 .. m - 1 : v[k] \in DOMAIN replies <=> gate_transport_named(c, hooks, v[k])
  <2>1. h \in Range(OnErrorWalk(hooks, h)) /\ \A k \in 0 .. m : v[k] \in Range(OnErrorWalk(hooks, h))
    BY <1>1, <1>3, InTheWalk
  <2>2. \A k \in 0 .. m - 1 : k \in 0 .. m
    BY <1>4
  <2> HIDE DEF v
  <2> QED
    BY <1>1, <1>4, <2>1, <2>2 DEF Asked, GateHook
<1>8. \A x \in DOMAIN replies : FineReply(replies[x])
  BY RepliesAreFine
<1>9. IF Answers(replies, h) THEN d = h
      ELSE \E k \in 0 .. m : /\ d = v[k]
                             /\ k = m \/ Answers(replies, v[k])
                             /\ \A j \in 0 .. k - 1 : ~Answers(replies, v[j])
  <2> HIDE DEF v
  <2> QED
    BY <1>1, <1>2, <1>3, DeciderIsFirst
<1>10. v[m] \notin DOMAIN replies
  BY <1>4 DEF Asked
<1> HIDE DEF v, last, d, g, s, valid
\* A reply that decides is obeyed.
<1>11. ASSUME d \in DOMAIN replies, o = map_decision(decide(replies[d], valid), d, valid), Answers(replies, d)
       PROVE  AsDeclared(c, g, cands, replies)
  <2>1. Obeys(o, replies[d], valid)
    BY <1>8, <1>11, ReplyIsObeyed DEF Answers
  <2> QED
    BY <1>6, <1>11, <2>1 DEF AsDeclared, Obeys, valid, d
<1>12. o = IF decide(replies[h], valid) = Failed THEN run_on_error_chain(g, cands, replies)
           ELSE map_decision(decide(replies[h], valid), h, valid)
  BY <1>6 DEF decide_policy_order, valid
<1>13. CASE Answers(replies, h)
  <2>1. decide(replies[h], valid) # Failed
    BY <1>7, <1>8, <1>13, ReplyIsObeyed DEF Answers
  <2> QED
    BY <1>7, <1>9, <1>11, <1>12, <1>13, <2>1 DEF g
<1>14. CASE ~Answers(replies, h)
  <2>1. decide(replies[h], valid) = Failed
    BY <1>7, <1>8, <1>14, ReplyIsObeyed DEF Answers
  <2>2. PICK k \in 0 .. m : /\ d = v[k]
                            /\ k = m \/ Answers(replies, v[k])
                            /\ \A j \in 0 .. k - 1 : ~Answers(replies, v[j])
    BY <1>9, <1>14
  <2> DEFINE answered == {i \in DOMAIN s : decide(replies[s[i]], valid) # Failed}
  \* A gate of the chain has answered, or nobody has.
  <2>3. ASSUME NEW i \in DOMAIN s, NEW q \in 0 .. m - 1, s[i] = v[q]
        PROVE  i \in answered <=> Answers(replies, v[q])
    <3>1. PICK l \in 0 .. m - 1 : s[i] = v[l] /\ gate_transport_named(c, hooks, v[l])
      BY <1>5 DEF Listed
    <3>2. v[q] \in DOMAIN replies
      BY <1>7, <2>3, <3>1
    <3> QED
      BY <1>8, <2>3, <3>2, ReplyIsObeyed DEF Answers
  <2>4. run_on_error_chain(g, cands, replies) =
          IF answered = {} THEN coerce_on_error(last.end, cands, h)
          ELSE LET x == s[CHOOSE i \in answered : \A j \in answered : i <= j]
               IN  map_decision(decide(replies[x], valid), x, valid)
    BY <1>6 DEF run_on_error_chain, valid
  <2>5. \A i \in DOMAIN s : \E q \in 0 .. m - 1 : s[i] = v[q]
    BY <1>5 DEF Listed
  <2>6. DOMAIN s \subseteq Nat
    BY <1>5
  <2> HIDE DEF answered
  <2>7. CASE k = m
    <3>1. answered = {}
      <4> SUFFICES ASSUME NEW i \in answered PROVE FALSE
        OBVIOUS
      <4>1. i \in DOMAIN s
        BY DEF answered
      <4>2. PICK q \in 0 .. m - 1 : s[i] = v[q]
        BY <2>5, <4>1
      <4> QED
        BY <2>2, <2>3, <2>7, <4>1, <4>2
    <3>2. o = coerce_on_error(TerminalOf(v[m]), cands, h)
      BY <1>5, <1>12, <2>1, <2>4, <3>1
    <3>3. (o.kind = "reject" <=> d = "reject") /\ o.order \in {<<>>, cands}
      BY <1>4, <2>2, <2>7, <3>2, TerminalDecides
    <3>4. d \notin DOMAIN replies /\ d \in Terminals \cup Strategies
      BY <1>4, <1>10, <2>2, <2>7 DEF Ends
    <3>5. Range(o.order) \subseteq Range(cands)
      <4>1. Range(<<>>) = {}
        BY DEF Range
      <4> QED
        BY <3>3, <4>1
    <3> QED
      BY <1>6, <3>3, <3>4, <3>5 DEF AsDeclared, d, g
  <2>8. CASE k # m
    <3>1. k \in 0 .. m - 1 /\ Answers(replies, v[k]) /\ v[k] \in DOMAIN replies
      BY <1>4, <2>2, <2>8 DEF Answers
    <3>2. PICK i \in DOMAIN s : s[i] = v[k]
      BY <1>5, <1>7, <3>1 DEF Listed
    <3>3. i \in answered
      BY <2>3, <3>1, <3>2
    <3>4. ASSUME NEW j \in answered PROVE i <= j
      <4>1. j \in DOMAIN s
        BY DEF answered
      <4>2. PICK q \in 0 .. m - 1 : s[j] = v[q]
        BY <2>5, <4>1
      <4>3. Answers(replies, v[q])
        BY <2>3, <4>1, <4>2
      <4>4. ~(q < k)
        <5>1. q < k => q \in 0 .. k - 1
          BY <1>4, <3>1
        <5> QED
          BY <2>2, <4>3, <5>1
      <4>5. j < i => q < k
        BY <1>5, <3>1, <3>2, <4>1, <4>2 DEF Listed
      <4>6. i \in Nat /\ j \in Nat
        BY <2>6, <4>1
      <4> QED
        BY <4>4, <4>5, <4>6
    <3>5. (CHOOSE x \in answered : \A j \in answered : x <= j) = i
      <4>1. \A x \in answered : (\A j \in answered : x <= j) => x = i
        <5> SUFFICES ASSUME NEW x \in answered, \A j \in answered : x <= j PROVE x = i
          OBVIOUS
        <5>1. x <= i /\ i <= x
          BY <3>3, <3>4
        <5>2. x \in Nat /\ i \in Nat
          BY <2>6 DEF answered
        <5> QED
          BY <5>1, <5>2
      <4> QED
        BY <3>3, <3>4, <4>1
    <3>6. o = map_decision(decide(replies[d], valid), d, valid)
      BY <1>12, <2>1, <2>2, <2>4, <3>2, <3>3, <3>5
    <3> QED
      BY <1>11, <2>2, <3>1, <3>6 DEF g
  <2> QED
    BY <2>7, <2>8
<1> QED
  BY <1>13, <1>14 DEF g

\* The gates that a validated configuration wires are hooks whose chain ends.
LEMMA GatesAreHooks ==
  ASSUME NEW c, Validated(c), FineHooks(c.hooks), NEW p \in DOMAIN c.pools,
         NEW g \in resolve_pool_gates(c, p) \cup resolve_pool_ordering(c, p)
  PROVE  \E h : GateHook(c, h) /\ g = resolve_gate_transport(c, c.hooks, h)
<1>1. validate_hooks(c)
  BY DEF Validated, validate
<1>2. DOMAIN c.hooks \cap Ends = {}
  BY <1>1 DEF validate_hooks, ReservedNamesOk, ReservedHookNames, Ends
<1>3. ASSUME NEW h \in DOMAIN c.hooks, c.hooks[h].kind = "gate", gate_transport_named(c, c.hooks, h)
      PROVE  GateHook(c, h)
  <2>1. IsGate(c.hooks, h)
    BY <1>2, <1>3 DEF IsGate, Ends
  <2>2. OnErrorEnd(c.hooks, c.hooks[h].on_error) \in Ends
    BY <1>1 DEF validate_hooks, OnErrorOk, Ends
  <2> QED
    BY <1>3, <2>1, <2>2 DEF GateHook
<1>4. CASE g \in resolve_pool_gates(c, p)
  <2>1. PICK h \in c.pools[p].gates \cap DOMAIN c.hooks :
          c.hooks[h].kind = "gate" /\ gate_transport_named(c, c.hooks, h) /\ g = resolve_gate_transport(c, c.hooks, h)
    BY <1>4 DEF resolve_pool_gates
  <2> QED
    BY <1>3, <2>1
<1>5. CASE g \in resolve_pool_ordering(c, p)
  <2> DEFINE ds == {h \in DOMAIN c.hooks : c.hooks[h].default}
             h == CHOOSE x \in ds : TRUE
  <2>1. ds # {} /\ gate_transport_named(c, c.hooks, h) /\ g = resolve_gate_transport(c, c.hooks, h)
    BY <1>5 DEF resolve_pool_ordering
  <2>2. h \in ds
    BY <2>1
  <2> HIDE DEF h
  <2>3. h \in DOMAIN c.hooks /\ c.hooks[h].kind # "tap"
    BY <1>1, <2>2 DEF validate_hooks, HookOk
  <2>4. c.hooks[h].kind = "gate"
    BY <2>3 DEF FineHooks, HookKinds
  <2> QED
    BY <1>3, <2>1, <2>3, <2>4
<1> QED
  BY <1>4, <1>5

\* An application that is wired decides as declared.
LEMMA ServedGatesDecide ==
  ASSUME ServedInv, HookInv
  PROVE  GatesFailAsDeclared
<1> DEFINE c == app.cfg
           lanes(p) == [i \in DOMAIN c.pools[p].members |-> c.pools[p].members[i].model]
<1> SUFFICES ASSUME app.up, NEW p \in DOMAIN c.pools, NEW g \in app.gates[p] \cup app.ordering[p],
                    NEW replies \in [Asked(c, g.hook) -> SomeReplies]
             PROVE  AsDeclared(c, g, lanes(p), replies)
  <2> HIDE DEF lanes
  <2> QED
    BY DEF GatesFailAsDeclared, Asked, AsDeclared, lanes
<1>1. Validated(c) /\ FineHooks(c.hooks)
  BY DEF ServedInv, HookInv, Wired
<1>2. g \in resolve_pool_gates(c, p) \cup resolve_pool_ordering(c, p)
  BY DEF HookInv, Wired
<1>3. PICK h : GateHook(c, h) /\ g = resolve_gate_transport(c, c.hooks, h)
  BY <1>1, <1>2, GatesAreHooks
<1>4. g.hook = h
  BY <1>3 DEF resolve_gate_transport
<1>5. DOMAIN c.hooks \cap Ends = {}
  BY <1>1 DEF Validated, validate, validate_hooks, ReservedNamesOk, ReservedHookNames, Ends
<1>6. lanes(p) # <<>>
  <2>1. Range(c.pools[p].members) # {}
    BY <1>1, PoolHasLane
  <2>2. DOMAIN c.pools[p].members # {}
    BY <2>1 DEF Range
  <2>3. DOMAIN lanes(p) # DOMAIN <<>>
    BY <2>2
  <2> QED
    BY <2>3
<1> HIDE DEF lanes
<1> QED
  BY <1>1, <1>3, <1>4, <1>5, <1>6, GateDecides

\* Whatever is edited, reloaded, applied, registered and deleted, a gate of a
\* pool that is served decides as the operator declared (resolve_on_error_chain,
\* run_on_error_chain, decide_policy_order).
THEOREM GatesDecideAsDeclared == Spec => []GatesFailAsDeclared
<1>1. Init => HookInv
  <2>1. FineHooks(EmptyOverlay.hooks)
    BY FS_EmptySet DEF EmptyOverlay, FineHooks
  <2> QED
    BY <2>1, DownIsDown DEF Init, HookInv
<1>2. HookInv /\ [Next]_vars => HookInv'
  BY HookStep
<1>3. ServedInv /\ HookInv => GatesFailAsDeclared
  BY ServedGatesDecide
<1> QED
  BY <1>1, <1>2, <1>3, ServedHolds, PTL DEF Spec
=============================================================================
