------------------------- MODULE ControlPlaneProofs -------------------------
(***************************************************************************)
(* Proofs about ControlPlane, for any hooks, groups, callers, files,       *)
(* bodies and bounds: no update is lost, a narrow caller stays narrow, and *)
(* a restart is faithful.                                                  *)
(***************************************************************************)
EXTENDS ControlPlane, TLAPS

-----------------------------------------------------------------------------
(* The inductive invariants *)

Sections == {"hooks", "groups", "root", "pins"}

Docs ==
    [hooks : HookMaps, globals : SUBSET Hooks, deleted : SUBSET Hooks, groups : GroupMaps,
     deletedGroups : SUBSET Groups, root : Nat, pins : Nat]
Apps ==
    [st : {"up"}, ver : Nat, hooks : HookMaps, globals : SUBSET Hooks, groups : GroupMaps,
     root : Nat, pins : Nat, baseHooks : SUBSET Hooks, baseGroups : SUBSET Groups]
Versions == [ver : Nat, hooks : HookMaps, globals : SUBSET Hooks]
Jobs ==
    {Free}
      \cup [sect : {"hooks"}, add : Hooks \cup {NoName}, rem : Hooks \cup {NoName}, pins : Nat]
      \cup [sect : {"groups"}, add : Groups \cup {NoName}, rem : Groups \cup {NoName}, pins : Nat]
      \cup [sect : {"clear"}, add : Sections, rem : {NoName}, pins : Nat]
      \cup [sect : {"root", "pins", "unpin"}, add : {NoName}, rem : {NoName}, pins : Nat]
Pushes == [name : Hooks, cfg : HookDefs, pre : Nat, gen : Nat]
Ghosts ==
    [gen : Nat, bootGen : Nat, lost : BOOLEAN, breach : BOOLEAN, durable : BOOLEAN,
     goneHooks : SUBSET Hooks, goneGroups : SUBSET Groups]

\* The types of the state.
TypeOK ==
    /\ live \in Apps \cup {Down}
    /\ file \in Surfaces
    /\ overlay \in [st : {"absent", "ok", "corrupt"}, doc : Docs]
    /\ log \in Seq(Versions)
    /\ saved \in Seq(Versions)
    /\ lock \in Jobs
    /\ push \in [HookCallers -> Pushes \cup {NoPush}]
    /\ tag \in [ver : Nat, gen : Nat]
    /\ restarts \in Nat
    /\ faults \in Nat
    /\ ghost \in Ghosts

\* A version number of this process names one snapshot of it: the number of
\* swaps since it booted.  An ETag it gave out, and the version a push was made
\* for, are such numbers; those of an earlier process are older than the boot.
VersionInv ==
    /\ ghost.bootGen =< ghost.gen
    /\ Up => live.ver = ghost.gen - ghost.bootGen
    /\ tag.gen =< ghost.gen
    /\ tag.gen >= ghost.bootGen => tag.ver = tag.gen - ghost.bootGen
    /\ \A c \in HookCallers : push[c] # NoPush =>
         /\ Up
         /\ push[c].gen \in ghost.bootGen .. ghost.gen
         /\ push[c].pre = push[c].gen - ghost.bootGen

\* A push that can still be committed is for a hook as it is now but for its
\* settings, and one that its caller may handle.
PushInv ==
    \A c \in HookCallers : push[c] # NoPush /\ push[c].pre = live.ver =>
        /\ push[c].name \in DOMAIN live.hooks
        /\ push[c].cfg.grants = live.hooks[push[c].name].grants
        /\ push[c].cfg.global = live.hooks[push[c].name].global
        /\ ~ Escalates(c, live.hooks[push[c].name])

\* The document the disk will have once the holder of the lock has done what
\* is left to it, failures apart.
Target ==
    CASE lock.sect = "free" -> ReadDoc
      [] lock.sect = "pins" -> persist_plugin_versions(ReadDoc, lock.pins)
      [] OTHER -> NewDoc(lock)

\* What a restart would make of a file and a document is this snapshot.
Agree(app, cfg, doc) ==
    LET disk == MergeInto(cfg, doc)
    IN  /\ disk.groups = app.groups
        /\ disk.root = app.root
        /\ disk.pins = app.pins
        /\ DOMAIN cfg.hooks \subseteq DOMAIN app.hooks /\ cfg.globals \subseteq app.globals =>
             disk.hooks = app.hooks /\ disk.globals = app.globals

\* The disk is on its way to what is live; and the names the file defines are
\* those the live snapshot takes for the file's.
DiskInv ==
    Up /\ ghost.durable =>
        /\ live.baseGroups = DOMAIN file.groups
        /\ Agree(live, file, Target)

\* The wiring names hooks that there are, and the name a write takes off the
\* tombstones is one that is present.
LiveInv ==
    Up =>
        /\ live.globals \subseteq DOMAIN live.hooks
        /\ lock.sect = "hooks" => lock.rem \in DOMAIN live.hooks \cup {NoName}
        /\ lock.sect = "groups" => lock.rem \in DOMAIN live.groups \cup {NoName}
        /\ lock.sect = "root" => live.root # 0

\* What was deleted is buried in the overlay, and there is nothing in an
\* overlay that is not there.
TombInv ==
    /\ ghost.goneHooks \subseteq overlay.doc.deleted
    /\ ghost.goneGroups \subseteq overlay.doc.deletedGroups
    /\ overlay.st = "absent" => overlay.doc = EmptyDoc

\* Who holds the lock is a process that is up.
DownInv == ~ Up => lock = Free

IInv ==
    /\ TypeOK
    /\ DownInv
    /\ VersionInv
    /\ PushInv
    /\ DiskInv
    /\ LiveInv
    /\ TombInv
    /\ NoLostUpdate
    /\ NarrowStaysNarrow

-----------------------------------------------------------------------------
(* Maps by name *)

\* A map is a function on some of the names.
LEMMA MapElim ==
    ASSUME NEW N, NEW V, NEW f \in Maps(N, V)
    PROVE  DOMAIN f \subseteq N /\ f \in [DOMAIN f -> V]
BY DEF Maps

\* A function on some of the names is a map.
LEMMA MapIntro ==
    ASSUME NEW N, NEW V, NEW D \in SUBSET N, NEW f \in [D -> V]
    PROVE  f \in Maps(N, V)
BY DEF Maps

\* No name is a map.
LEMMA EmptyIsMap ==
    ASSUME NEW N, NEW V
    PROVE  Empty \in Maps(N, V)
<1>1. Empty \in [{} -> V]
  BY DEF Empty
<1> QED BY <1>1, MapIntro

\* HashMap insert keeps a map a map, and adds one name.
LEMMA PutMap ==
    ASSUME NEW N, NEW V, NEW f \in Maps(N, V), NEW n \in N, NEW v \in V
    PROVE  /\ Put(f, n, v) \in Maps(N, V)
           /\ DOMAIN Put(f, n, v) = DOMAIN f \cup {n}
           /\ Put(f, n, v)[n] = v
           /\ \A m \in DOMAIN f \ {n} : Put(f, n, v)[m] = f[m]
<1>1. DOMAIN f \subseteq N /\ f \in [DOMAIN f -> V]
  BY MapElim
<1>2. Put(f, n, v) \in [DOMAIN f \cup {n} -> V]
  BY <1>1 DEF Put
<1>3. Put(f, n, v) \in Maps(N, V)
  BY <1>1, <1>2, MapIntro
<1> QED BY <1>3 DEF Put

\* HashMap remove keeps a map a map, and takes names out.
LEMMA WithoutMap ==
    ASSUME NEW N, NEW V, NEW f \in Maps(N, V), NEW S
    PROVE  /\ Without(f, S) \in Maps(N, V)
           /\ DOMAIN Without(f, S) = DOMAIN f \ S
           /\ \A m \in DOMAIN f \ S : Without(f, S)[m] = f[m]
<1>1. DOMAIN f \subseteq N /\ f \in [DOMAIN f -> V]
  BY MapElim
<1>2. Without(f, S) \in [DOMAIN f \ S -> V]
  BY <1>1 DEF Without
<1>3. Without(f, S) \in Maps(N, V)
  BY <1>1, <1>2, MapIntro
<1> QED BY <1>3 DEF Without

\* HashMap extend keeps a map a map, and the first wins.
LEMMA OverMap ==
    ASSUME NEW N, NEW V, NEW f \in Maps(N, V), NEW g \in Maps(N, V)
    PROVE  /\ Over(f, g) \in Maps(N, V)
           /\ DOMAIN Over(f, g) = DOMAIN f \cup DOMAIN g
           /\ \A m \in DOMAIN f : Over(f, g)[m] = f[m]
<1>1. DOMAIN f \subseteq N /\ f \in [DOMAIN f -> V]
  BY MapElim
<1>2. DOMAIN g \subseteq N /\ g \in [DOMAIN g -> V]
  BY MapElim
<1>3. Over(f, g) \in [DOMAIN f \cup DOMAIN g -> V]
  BY <1>1, <1>2 DEF Over
<1>4. Over(f, g) \in Maps(N, V)
  BY <1>1, <1>2, <1>3, MapIntro
<1> QED BY <1>4 DEF Over

\* A map written over one of fewer names, less what it does not have, is itself.
LEMMA OverWithout ==
    ASSUME NEW N, NEW V, NEW f \in Maps(N, V), NEW g \in Maps(N, V), NEW S,
           DOMAIN g \subseteq DOMAIN f \cup S, S \cap DOMAIN f = {}
    PROVE  Without(Over(f, g), S) = f
<1>1. f \in [DOMAIN f -> V]
  BY MapElim
<1>2. DOMAIN Over(f, g) = DOMAIN f \cup DOMAIN g
  BY DEF Over
<1>3. \A m \in DOMAIN f : Over(f, g)[m] = f[m]
  BY DEF Over
<1>4. (DOMAIN f \cup DOMAIN g) \ S = DOMAIN f
  OBVIOUS
<1>5. Without(Over(f, g), S) = [m \in DOMAIN f |-> Over(f, g)[m]]
  BY <1>2, <1>4 DEF Without
<1>6. [m \in DOMAIN f |-> Over(f, g)[m]] = [m \in DOMAIN f |-> f[m]]
  BY <1>3
<1> QED BY <1>1, <1>5, <1>6
-----------------------------------------------------------------------------
(* Types *)

\* A document with nothing in it is a document.
LEMMA EmptyDocType == EmptyDoc \in Docs
BY EmptyIsMap DEF EmptyDoc, Docs, HookMaps, GroupMaps

\* A process that is up has a snapshot.
LEMMA UpIsApp ==
    ASSUME TypeOK, Up
    PROVE  live \in Apps
BY DEF TypeOK, Down, Up

\* The fields of the live snapshot.
LEMMA AppFields ==
    ASSUME live \in Apps
    PROVE  /\ live.st = "up"
           /\ live.ver \in Nat /\ live.ver + 1 \in Nat /\ live.hooks \in HookMaps
           /\ live.globals \in SUBSET Hooks /\ live.groups \in GroupMaps
           /\ live.root \in Nat /\ live.pins \in Nat
           /\ live.baseHooks \in SUBSET Hooks /\ live.baseGroups \in SUBSET Groups
BY DEF Apps

\* A snapshot, from its fields.
LEMMA AppIntro ==
    ASSUME NEW v \in Nat, NEW h \in HookMaps, NEW w \in SUBSET Hooks, NEW g \in GroupMaps,
           NEW r \in Nat, NEW p \in Nat, NEW bh \in SUBSET Hooks, NEW bg \in SUBSET Groups
    PROVE  [st |-> "up", ver |-> v, hooks |-> h, globals |-> w, groups |-> g, root |-> r,
            pins |-> p, baseHooks |-> bh, baseGroups |-> bg] \in Apps
BY DEF Apps

\* What is read of the overlay is a document, whether or not it can be read.
LEMMA ReadDocType ==
    ASSUME TypeOK
    PROVE  ReadDoc \in Docs
BY EmptyDocType DEF TypeOK, ReadDoc

\* A document with a section cleared is a document.
LEMMA ClearSectionType ==
    ASSUME NEW doc \in Docs, NEW s \in Sections
    PROVE  ClearSection(doc, s) \in Docs
<1>1. Empty \in HookMaps /\ Empty \in GroupMaps
  BY EmptyIsMap DEF HookMaps, GroupMaps
<1> QED BY <1>1 DEF ClearSection, Docs, Sections

\* merge_into makes a configuration of a file and a document.
LEMMA MergeType ==
    ASSUME NEW cfg \in Surfaces, NEW doc \in Docs
    PROVE  MergeInto(cfg, doc) \in Surfaces
<1> DEFINE h == Over(doc.hooks, cfg.hooks)
           g == Over(doc.groups, cfg.groups)
<1>1. doc.hooks \in HookMaps /\ cfg.hooks \in HookMaps
  BY DEF Docs, Surfaces
<1>2. doc.groups \in GroupMaps /\ cfg.groups \in GroupMaps
  BY DEF Docs, Surfaces
<1>3. h \in HookMaps
  BY <1>1, OverMap DEF HookMaps
<1>4. g \in GroupMaps
  BY <1>2, OverMap DEF GroupMaps
<1>5. Without(h, doc.deleted) \in HookMaps
  BY <1>3, WithoutMap DEF HookMaps
<1>6. Without(g, doc.deletedGroups) \in GroupMaps
  BY <1>4, WithoutMap DEF GroupMaps
<1> HIDE DEF h, g
<1>7. (cfg.globals \cup doc.globals) \ doc.deleted \in SUBSET Hooks
  BY DEF Docs, Surfaces
<1>8. doc.pins \in Nat /\ (IF doc.root # 0 THEN doc.root ELSE cfg.root) \in Nat
  BY DEF Docs, Surfaces
<1> QED BY <1>5, <1>6, <1>7, <1>8 DEF MergeInto, Surfaces, h, g

\* build_app_from_config makes a snapshot of a configuration.
LEMMA BuildAppType ==
    ASSUME NEW cfg \in Surfaces, NEW base \in Surfaces, NEW ver \in Nat
    PROVE  BuildApp(cfg, base, ver) \in Apps
<1>1. DOMAIN base.hooks \subseteq Hooks /\ DOMAIN base.groups \subseteq Groups
  BY MapElim DEF Surfaces, HookMaps, GroupMaps
<1> QED BY <1>1 DEF BuildApp, Apps, Surfaces

\* VersionLog::record keeps the log a sequence of versions.
LEMMA RecordType ==
    ASSUME NEW q \in Seq(Versions), NEW app \in Apps
    PROVE  Record(q, app) \in Seq(Versions)
<1> DEFINE same == {i \in DOMAIN q : q[i].ver = app.ver}
           rest == IF same = {} THEN q ELSE Removed(q, CHOOSE i \in same : TRUE)
           kept == IF Len(rest) >= KeptVersions THEN Tail(rest) ELSE rest
<1>1. \A i \in DOMAIN q : Removed(q, i) \in Seq(Versions)
  BY DEF Removed
<1>2. rest \in Seq(Versions)
  BY <1>1
<1> HIDE DEF rest
<1>3. kept \in Seq(Versions)
  BY <1>2, ControlPlaneConstants
<1>4. [ver |-> app.ver, hooks |-> app.hooks, globals |-> app.globals] \in Versions
  BY DEF Versions, Apps
<1> HIDE DEF kept
<1>5. Append(kept, [ver |-> app.ver, hooks |-> app.hooks, globals |-> app.globals])
        \in Seq(Versions)
  BY <1>3, <1>4
<1> QED BY <1>5 DEF Record, kept, rest
-----------------------------------------------------------------------------
(* Every swap keeps the versions, the pushes and the types *)

\* What every action that installs a snapshot does, and what it does not touch.
Swap(c, from, named, next, job, durable) ==
    /\ live' = next
    /\ lock' = job
    /\ ghost' = Swapped(c, next, from, named, durable)
    /\ \A d \in HookCallers : push'[d] \in {push[d], NoPush}
    /\ UNCHANGED <<file, overlay, saved, tag, restarts, faults>>

\* A swap that overwrites nothing and breaches nothing keeps all of the
\* invariant but what is said of the disk and of the new snapshot.
LEMMA SwapKeeps ==
    ASSUME IInv, Up,
           NEW c, NEW from, NEW named, NEW next \in Apps, NEW job \in Jobs,
           NEW durable \in BOOLEAN,
           Swap(c, from, named, next, job, durable),
           next.ver = live.ver + 1,
           ~ Overwrites(from, named),
           ~ Breaches(c, next),
           log' \in Seq(Versions),
           push' \in [HookCallers -> Pushes \cup {NoPush}],
           DiskInv', LiveInv'
    PROVE  IInv'
<1>1. /\ ghost'.gen = ghost.gen + 1
      /\ ghost'.bootGen = ghost.bootGen
      /\ ghost'.goneHooks = ghost.goneHooks
      /\ ghost'.goneGroups = ghost.goneGroups
  BY DEF Swap, Swapped, IInv, TypeOK, Ghosts
<1>2. ghost'.lost = FALSE /\ ghost'.breach = FALSE /\ ghost'.durable = durable
  BY DEF Swap, Swapped, IInv, TypeOK, Ghosts, NoLostUpdate, NarrowStaysNarrow
<1>3. ghost' \in Ghosts
  <2> DEFINE l == ghost.lost \/ Overwrites(from, named)
             b == ghost.breach \/ Breaches(c, next)
  <2>1. l \in BOOLEAN /\ b \in BOOLEAN
    OBVIOUS
  <2>2. ghost \in Ghosts
    BY DEF IInv, TypeOK
  <2>3. ghost' = [ghost EXCEPT !.gen = ghost.gen + 1, !.lost = l, !.breach = b, !.durable = durable]
    BY DEF Swap, Swapped
  <2> HIDE DEF l, b
  <2>4. ghost' = [gen |-> ghost.gen + 1, bootGen |-> ghost.bootGen, lost |-> l, breach |-> b,
                  durable |-> durable, goneHooks |-> ghost.goneHooks,
                  goneGroups |-> ghost.goneGroups]
    BY <2>2, <2>3 DEF Ghosts
  <2>5. /\ ghost.gen + 1 \in Nat /\ ghost.bootGen \in Nat
        /\ ghost.goneHooks \in SUBSET Hooks /\ ghost.goneGroups \in SUBSET Groups
    BY <2>2 DEF Ghosts
  <2> QED BY <2>1, <2>4, <2>5, Zenon DEF Ghosts
<1>4. TypeOK'
  BY <1>3 DEF Swap, IInv, TypeOK
<1>5. live \in Apps /\ live.ver = ghost.gen - ghost.bootGen /\ Up'
  <2>1. live \in Apps
    BY UpIsApp DEF IInv
  <2>2. Up'
    BY DEF Swap, Apps, Up
  <2> QED BY <2>1, <2>2 DEF IInv, VersionInv
<1>6. VersionInv'
  <2>1. ghost.gen \in Nat /\ ghost.bootGen \in Nat /\ tag.gen \in Nat
    BY DEF IInv, TypeOK, Ghosts
  <2>2. live'.ver = ghost'.gen - ghost'.bootGen /\ ghost'.bootGen =< ghost'.gen
    BY <1>1, <1>5, <2>1 DEF Swap, IInv, VersionInv
  <2>3. tag'.gen =< ghost'.gen /\ (tag'.gen >= ghost'.bootGen => tag'.ver = tag'.gen - ghost'.bootGen)
    BY <1>1, <2>1 DEF Swap, IInv, VersionInv
  <2>4. ASSUME NEW d \in HookCallers, push'[d] # NoPush
        PROVE  /\ push'[d].gen \in ghost'.bootGen .. ghost'.gen
               /\ push'[d].pre = push'[d].gen - ghost'.bootGen
    <3>1. push'[d] = push[d]
      BY <2>4 DEF Swap
    <3>2. push[d].gen \in ghost.bootGen .. ghost.gen /\ push[d].pre = push[d].gen - ghost.bootGen
      BY <2>4, <3>1 DEF IInv, VersionInv
    <3> QED BY <1>1, <2>1, <3>1, <3>2
  <2> QED BY <1>5, <2>2, <2>3, <2>4 DEF VersionInv
<1>7. PushInv'
  <2>1. SUFFICES ASSUME NEW d \in HookCallers, push'[d] # NoPush, push'[d].pre = live'.ver
                 PROVE  FALSE
    BY DEF PushInv
  <2>2. push'[d] = push[d]
    BY <2>1 DEF Swap
  <2>3. push[d].gen \in ghost.bootGen .. ghost.gen /\ push[d].pre = push[d].gen - ghost.bootGen
    BY <2>1, <2>2 DEF IInv, VersionInv
  <2>4. ghost.gen \in Nat /\ ghost.bootGen \in Nat
    BY DEF IInv, TypeOK, Ghosts
  <2> QED BY <1>5, <2>1, <2>2, <2>3, <2>4 DEF Swap
<1>8. TombInv'
  BY <1>1 DEF Swap, IInv, TombInv
<1>9. DownInv'
  BY <1>5 DEF DownInv
<1> QED BY <1>2, <1>4, <1>6, <1>7, <1>8, <1>9 DEF IInv, NoLostUpdate, NarrowStaysNarrow

\* A request whose ETag is not stale overwrites nothing.
LEMMA FreshTag ==
    ASSUME IInv, Up, NEW cond \in BOOLEAN, ~ Stale(cond)
    PROVE  ~ Overwrites(tag, cond)
<1>1. ghost.gen \in Nat /\ ghost.bootGen \in Nat /\ tag.gen \in Nat
  BY DEF IInv, TypeOK, Ghosts
<1> QED BY <1>1 DEF IInv, VersionInv, Stale, Overwrites

\* A request of a handler that checked the ETag: Apply is a swap.
LEMMA ApplySwaps ==
    ASSUME IInv, NEW c, NEW cond, NEW next \in Apps, NEW job, NEW durable,
           Apply(c, cond, next, job, durable)
    PROVE  /\ Swap(c, tag, cond, next, job, durable)
           /\ log' \in Seq(Versions)
           /\ push' \in [HookCallers -> Pushes \cup {NoPush}]
<1>1. log' \in Seq(Versions)
  BY RecordType DEF Apply, Install, IInv, TypeOK
<1> QED BY <1>1 DEF Apply, Install, Swap, IInv, TypeOK

\* Only a narrow caller can breach, and the callers of scope full are others.
LEMMA FullBreachesNothing ==
    ASSUME NEW c \in FullCallers, NEW next
    PROVE  ~ Breaches(c, next)
BY ControlPlaneConstants DEF Breaches

\* A swap that leaves the hooks and the wiring alone breaches nothing.
LEMMA SameHooksBreachNothing ==
    ASSUME NEW c, NEW next, next.hooks = live.hooks, next.globals = live.globals
    PROVE  ~ Breaches(c, next)
BY DEF Breaches
-----------------------------------------------------------------------------
(* What a restart would load, when one section of the overlay is written *)

\* The hooks written as they are, over the file and less the tombstones, are
\* those of the snapshot, and the other sections are as they were.
LEMMA HooksAgree ==
    ASSUME NEW app \in Apps, NEW old \in Apps, NEW cfg \in Surfaces, NEW doc \in Docs,
           NEW dead \in SUBSET Hooks,
           dead \cap DOMAIN app.hooks = {},
           app.globals \subseteq DOMAIN app.hooks,
           Agree(old, cfg, doc),
           app.groups = old.groups, app.root = old.root, app.pins = old.pins
    PROVE  Agree(app, cfg, [doc EXCEPT !.hooks = app.hooks, !.globals = app.globals,
                                       !.deleted = dead])
<1> DEFINE new == [doc EXCEPT !.hooks = app.hooks, !.globals = app.globals, !.deleted = dead]
<1>1. /\ new.hooks = app.hooks /\ new.globals = app.globals /\ new.deleted = dead
      /\ new.groups = doc.groups /\ new.deletedGroups = doc.deletedGroups
      /\ new.root = doc.root /\ new.pins = doc.pins
  BY DEF Docs
<1> HIDE DEF new
<1>2. /\ MergeInto(cfg, new).groups = MergeInto(cfg, doc).groups
      /\ MergeInto(cfg, new).root = MergeInto(cfg, doc).root
      /\ MergeInto(cfg, new).pins = MergeInto(cfg, doc).pins
  BY <1>1 DEF MergeInto
<1>3. ASSUME DOMAIN cfg.hooks \subseteq DOMAIN app.hooks, cfg.globals \subseteq app.globals
      PROVE  MergeInto(cfg, new).hooks = app.hooks /\ MergeInto(cfg, new).globals = app.globals
  <2>1. app.hooks \in HookMaps /\ cfg.hooks \in HookMaps
    BY DEF Apps, Surfaces
  <2>2. Without(Over(app.hooks, cfg.hooks), dead) = app.hooks
    BY <1>3, <2>1, OverWithout DEF HookMaps
  <2>3. (cfg.globals \cup app.globals) \ dead = app.globals
    BY <1>3
  <2> QED BY <1>1, <2>2, <2>3 DEF MergeInto
<1>4. Agree(app, cfg, new)
  BY <1>2, <1>3 DEF Agree
<1> QED BY <1>4 DEF new

\* The same of the groups: a group of the file that is not there is buried.
LEMMA GroupsAgree ==
    ASSUME NEW app \in Apps, NEW old \in Apps, NEW cfg \in Surfaces, NEW doc \in Docs,
           NEW dead \in SUBSET Groups,
           dead \cap DOMAIN app.groups = {},
           DOMAIN cfg.groups \subseteq DOMAIN app.groups \cup dead,
           Agree(old, cfg, doc),
           app.hooks = old.hooks, app.globals = old.globals,
           app.root = old.root, app.pins = old.pins
    PROVE  Agree(app, cfg, [doc EXCEPT !.groups = app.groups, !.deletedGroups = dead])
<1> DEFINE new == [doc EXCEPT !.groups = app.groups, !.deletedGroups = dead]
<1>1. /\ new.hooks = doc.hooks /\ new.globals = doc.globals /\ new.deleted = doc.deleted
      /\ new.groups = app.groups /\ new.deletedGroups = dead
      /\ new.root = doc.root /\ new.pins = doc.pins
  BY DEF Docs
<1> HIDE DEF new
<1>2. /\ MergeInto(cfg, new).hooks = MergeInto(cfg, doc).hooks
      /\ MergeInto(cfg, new).globals = MergeInto(cfg, doc).globals
      /\ MergeInto(cfg, new).root = MergeInto(cfg, doc).root
      /\ MergeInto(cfg, new).pins = MergeInto(cfg, doc).pins
  BY <1>1 DEF MergeInto
<1>3. app.groups \in GroupMaps /\ cfg.groups \in GroupMaps
  BY DEF Apps, Surfaces
<1>4. Without(Over(app.groups, cfg.groups), dead) = app.groups
  BY <1>3, OverWithout DEF GroupMaps
<1>5. MergeInto(cfg, new).groups = app.groups
  BY <1>1, <1>4 DEF MergeInto
<1>6. Agree(app, cfg, new)
  BY <1>2, <1>5 DEF Agree
<1> QED BY <1>6 DEF new

\* A snapshot built from a file and a document agrees with them.
LEMMA BuiltAgrees ==
    ASSUME NEW cfg, NEW doc, NEW ver
    PROVE  Agree(BuildApp(MergeInto(cfg, doc), cfg, ver), cfg, doc)
BY DEF Agree, BuildApp, MergeInto

\* The groups of the file that are not live are buried, when the disk agrees.
LEMMA FileGroupsCovered ==
    ASSUME NEW app \in Apps, NEW cfg \in Surfaces, NEW doc \in Docs, Agree(app, cfg, doc)
    PROVE  DOMAIN cfg.groups \subseteq DOMAIN app.groups \cup doc.deletedGroups
<1>1. doc.groups \in GroupMaps /\ cfg.groups \in GroupMaps
  BY DEF Docs, Surfaces
<1>2. app.groups = Without(Over(doc.groups, cfg.groups), doc.deletedGroups)
  BY DEF Agree, MergeInto
<1>3. DOMAIN app.groups = (DOMAIN doc.groups \cup DOMAIN cfg.groups) \ doc.deletedGroups
  BY <1>2 DEF Without, Over
<1> QED BY <1>3

\* A tombstone list, with a name added and one taken off, has no name that is
\* present and keeps what is neither present nor taken off.
LEMMA Untombstoned ==
    ASSUME NEW dead, NEW add, NEW rem, NEW present
    PROVE  /\ Untombstone(dead, add, rem, present) \cap present = {}
           /\ \A n \in dead : n # rem /\ n \notin present =>
                n \in Untombstone(dead, add, rem, present)
           /\ add # NoName /\ add # rem /\ add \notin present =>
                add \in Untombstone(dead, add, rem, present)
BY DEF Untombstone, Named

\* The tombstones are names.
LEMMA UntombstoneType ==
    ASSUME NEW N, NEW dead \in SUBSET N, NEW add \in N \cup {NoName}, NEW rem, NEW present
    PROVE  Untombstone(dead, add, rem, present) \in SUBSET N
BY DEF Untombstone, Named
-----------------------------------------------------------------------------
(* Swaps of one section, and rebuilds *)

\* A handler that changed the hooks has the hook section left to write.
LEMMA HookSwapDisk ==
    ASSUME IInv, Up, lock = Free,
           NEW next \in Apps, NEW a \in Hooks \cup {NoName}, NEW r,
           live' = next, lock' = HookJob(a, r), UNCHANGED <<file, overlay>>,
           ghost'.durable = ghost.durable,
           next.globals \subseteq DOMAIN next.hooks,
           next.groups = live.groups, next.root = live.root, next.pins = live.pins,
           next.baseGroups = live.baseGroups
    PROVE  DiskInv'
<1>1. SUFFICES ASSUME ghost.durable
               PROVE  next.baseGroups = DOMAIN file.groups /\ Agree(next, file, Target')
  BY DEF DiskInv
<1>2. live \in Apps /\ ReadDoc \in Docs /\ file \in Surfaces
  BY UpIsApp, ReadDocType, ControlPlaneConstants DEF IInv, TypeOK
<1>3. Target = ReadDoc
  BY DEF Target, Free, Job
<1>4. live.baseGroups = DOMAIN file.groups /\ Agree(live, file, ReadDoc)
  BY <1>1, <1>3 DEF IInv, DiskInv
<1> DEFINE dead == Untombstone(ReadDoc.deleted, a, r, DOMAIN next.hooks)
<1>5. Target' = [ReadDoc EXCEPT !.hooks = next.hooks, !.globals = next.globals, !.deleted = dead]
  BY DEF Target, NewDoc, HookJob, Job, Persist, ReadDoc
<1>6. dead \in SUBSET Hooks /\ dead \cap DOMAIN next.hooks = {}
  BY <1>2, UntombstoneType, Untombstoned DEF Docs
<1> HIDE DEF dead
<1>7. Agree(next, file, Target')
  BY <1>2, <1>4, <1>5, <1>6, HooksAgree
<1> QED BY <1>4, <1>7

\* A handler that changed the groups has the group section left to write.
LEMMA GroupSwapDisk ==
    ASSUME IInv, Up, lock = Free,
           NEW next \in Apps, NEW a \in Groups \cup {NoName}, NEW r,
           live' = next, lock' = GroupJob(a, r), UNCHANGED <<file, overlay>>,
           ghost'.durable = ghost.durable,
           r \in DOMAIN next.groups \cup {NoName},
           \A n \in DOMAIN live.groups : n \in live.baseGroups => n \in DOMAIN next.groups,
           next.hooks = live.hooks, next.globals = live.globals,
           next.root = live.root, next.pins = live.pins,
           next.baseGroups = live.baseGroups
    PROVE  DiskInv'
<1>1. SUFFICES ASSUME ghost.durable
               PROVE  next.baseGroups = DOMAIN file.groups /\ Agree(next, file, Target')
  BY DEF DiskInv
<1>2. live \in Apps /\ ReadDoc \in Docs /\ file \in Surfaces
  BY UpIsApp, ReadDocType, ControlPlaneConstants DEF IInv, TypeOK
<1>3. Target = ReadDoc
  BY DEF Target, Free, Job
<1>4. live.baseGroups = DOMAIN file.groups /\ Agree(live, file, ReadDoc)
  BY <1>1, <1>3 DEF IInv, DiskInv
<1> DEFINE dead == Untombstone(ReadDoc.deletedGroups, a, r, DOMAIN next.groups)
<1>5. Target' = [ReadDoc EXCEPT !.groups = next.groups, !.deletedGroups = dead]
  BY DEF Target, NewDoc, GroupJob, Job, PersistGroups, ReadDoc
<1>6. dead \in SUBSET Groups /\ dead \cap DOMAIN next.groups = {}
  BY <1>2, UntombstoneType, Untombstoned DEF Docs
<1>7. ASSUME NEW n \in DOMAIN file.groups, n \notin DOMAIN next.groups
      PROVE  n \in dead
  <2>1. n \notin DOMAIN live.groups
    BY <1>4, <1>7
  <2>2. n \in ReadDoc.deletedGroups
    BY <1>2, <1>4, <2>1, FileGroupsCovered
  <2>3. n \in Groups
    BY <1>2, <2>2 DEF Docs
  <2>4. n # r
    BY <1>7, <2>3, ControlPlaneConstants
  <2> QED BY <1>7, <2>2, <2>4, Untombstoned
<1> HIDE DEF dead
<1>8. Agree(next, file, Target')
  BY <1>2, <1>4, <1>5, <1>6, <1>7, GroupsAgree
<1> QED BY <1>4, <1>8

\* A rebuild that has nothing left to write agrees with the disk.
LEMMA RebuildDisk ==
    ASSUME NEW ver, live' = BuildApp(DiskSurface, file, ver), lock' = Free,
           UNCHANGED <<file, overlay>>
    PROVE  DiskInv'
<1>1. Target' = ReadDoc
  BY DEF Target, Free, Job, ReadDoc
<1>2. Agree(live', file, ReadDoc)
  BY BuiltAgrees DEF DiskSurface
<1>3. live'.baseGroups = DOMAIN file.groups
  BY DEF BuildApp
<1> QED BY <1>1, <1>2, <1>3 DEF DiskInv

\* A built snapshot wires hooks that it has.
LEMMA BuiltLive ==
    ASSUME NEW cfg, Buildable(cfg), NEW base, NEW ver, live' = BuildApp(cfg, base, ver),
           lock'.sect \notin {"hooks", "groups"},
           lock'.sect = "root" => cfg.root # 0
    PROVE  LiveInv'
BY DEF LiveInv, BuildApp, Buildable, ValidHooks
-----------------------------------------------------------------------------
(* The handlers of hooks *)

\* The work a handler of hooks or groups leaves for the lock's holder.
LEMMA JobTypes ==
    /\ Free \in Jobs
    /\ \A a, r \in Hooks \cup {NoName} : HookJob(a, r) \in Jobs
    /\ \A a, r \in Groups \cup {NoName} : GroupJob(a, r) \in Jobs
BY DEF Jobs, Free, HookJob, GroupJob, Job

\* A definition put under a name.
LEMMA WithHookType ==
    ASSUME live \in Apps, NEW n \in Hooks, NEW cfg \in HookDefs
    PROVE  LET next == WithHook(n, cfg)
           IN  /\ next \in Apps
               /\ next.st = "up" /\ next.ver = live.ver + 1
               /\ next.hooks = Put(live.hooks, n, cfg)
               /\ next.globals = IF cfg.global THEN live.globals \cup {n} ELSE live.globals \ {n}
               /\ next.groups = live.groups /\ next.root = live.root /\ next.pins = live.pins
               /\ next.baseGroups = live.baseGroups
<1>1. Put(live.hooks, n, cfg) \in HookMaps
  BY PutMap DEF Apps, HookMaps
<1> DEFINE g == IF cfg.global THEN live.globals \cup {n} ELSE live.globals \ {n}
<1>2. g \in SUBSET Hooks
  BY DEF Apps
<1> HIDE DEF g
<1>3. WithHook(n, cfg) = [live EXCEPT !.ver = live.ver + 1, !.hooks = Put(live.hooks, n, cfg),
                                      !.globals = g]
  BY DEF WithHook, g
<1>4. WithHook(n, cfg) =
        [st |-> "up", ver |-> live.ver + 1, hooks |-> Put(live.hooks, n, cfg), globals |-> g,
         groups |-> live.groups, root |-> live.root, pins |-> live.pins,
         baseHooks |-> live.baseHooks, baseGroups |-> live.baseGroups]
  BY <1>3 DEF Apps
<1>5. WithHook(n, cfg) \in Apps
  BY <1>1, <1>2, <1>4, AppFields, AppIntro
<1> QED BY <1>4, <1>5 DEF g

\* A snapshot with a hook taken out.
LEMMA WithoutHookType ==
    ASSUME live \in Apps, NEW n
    PROVE  LET next == WithoutHook(n)
           IN  /\ next \in Apps
               /\ next.st = "up" /\ next.ver = live.ver + 1
               /\ next.hooks = Without(live.hooks, {n})
               /\ next.globals = live.globals \ {n}
               /\ next.groups = live.groups /\ next.root = live.root /\ next.pins = live.pins
               /\ next.baseGroups = live.baseGroups
<1> DEFINE h == Without(live.hooks, {n})
           g == live.globals \ {n}
<1>1. h \in HookMaps /\ g \in SUBSET Hooks
  BY WithoutMap DEF Apps, HookMaps
<1>2. WithoutHook(n) = [live EXCEPT !.ver = live.ver + 1, !.hooks = h, !.globals = g]
  BY DEF WithoutHook
<1> HIDE DEF h, g
<1>3. WithoutHook(n) =
        [st |-> "up", ver |-> live.ver + 1, hooks |-> h, globals |-> g,
         groups |-> live.groups, root |-> live.root, pins |-> live.pins,
         baseHooks |-> live.baseHooks, baseGroups |-> live.baseGroups]
  BY <1>2 DEF Apps
<1>4. WithoutHook(n) \in Apps
  BY <1>1, <1>3, AppFields DEF Apps
<1> QED BY <1>3, <1>4 DEF g, h

\* A narrow caller that may handle a definition, and the one it replaces,
\* breaches nothing.
LEMMA WithHookBreachesNothing ==
    ASSUME live \in Apps, NEW c, NEW n \in Hooks, NEW cfg \in HookDefs,
           ~ Escalates(c, cfg), SameGrants(n, cfg)
    PROVE  ~ Breaches(c, WithHook(n, cfg))
<1>1. SUFFICES ASSUME c \in NarrowCallers PROVE ~ Breaches(c, WithHook(n, cfg))
  BY DEF Breaches
<1>2. ~ cfg.global /\ ~ Sees(cfg)
  BY <1>1 DEF Escalates
<1>3. n \in DOMAIN live.hooks => ~ Sees(live.hooks[n])
  BY <1>2 DEF SameGrants, Sees
<1> DEFINE next == WithHook(n, cfg)
<1>4. next.hooks = Put(live.hooks, n, cfg) /\ next.globals = live.globals \ {n}
  BY <1>2, WithHookType
<1>6. DOMAIN next.hooks = DOMAIN live.hooks \cup {n} /\ next.hooks[n] = cfg
  BY <1>4 DEF Put
<1>7. \A m \in DOMAIN live.hooks \ {n} : next.hooks[m] = live.hooks[m]
  BY <1>4 DEF Put
<1> HIDE DEF next
<1>8. ~ Breaches(c, next)
  BY <1>2, <1>3, <1>4, <1>6, <1>7 DEF Breaches
<1> QED BY <1>8 DEF next

\* A delete of a hook the caller may handle breaches nothing.
LEMMA WithoutHookBreachesNothing ==
    ASSUME live \in Apps, NEW c, NEW n \in DOMAIN live.hooks, ~ Escalates(c, live.hooks[n])
    PROVE  ~ Breaches(c, WithoutHook(n))
<1>1. SUFFICES ASSUME c \in NarrowCallers PROVE ~ Breaches(c, WithoutHook(n))
  BY DEF Breaches
<1>2. ~ Sees(live.hooks[n])
  BY <1>1 DEF Escalates
<1> DEFINE next == WithoutHook(n)
<1>3. next.hooks = Without(live.hooks, {n}) /\ next.globals = live.globals \ {n}
  BY WithoutHookType
<1>4. DOMAIN next.hooks = DOMAIN live.hooks \ {n}
      /\ \A m \in DOMAIN live.hooks \ {n} : next.hooks[m] = live.hooks[m]
  BY <1>3 DEF Without
<1> HIDE DEF next
<1>5. ~ Breaches(c, next)
  BY <1>2, <1>3, <1>4 DEF Breaches
<1> QED BY <1>5 DEF next

\* register_hook and put_hook.
LEMMA PutsHook ==
    ASSUME IInv, NEW c, NEW cond \in BOOLEAN, NEW n \in Hooks, NEW cfg \in HookDefs,
           Enter, ~ Escalates(c, cfg), ~ Stale(cond), SameGrants(n, cfg),
           Apply(c, cond, WithHook(n, cfg), HookJob(NoName, n), ghost.durable)
    PROVE  IInv'
<1> DEFINE next == WithHook(n, cfg)
<1>1. Up /\ lock = Free /\ live \in Apps
  BY UpIsApp DEF Enter, IInv
<1>2. /\ next \in Apps /\ next.st = "up" /\ next.ver = live.ver + 1
      /\ next.hooks = Put(live.hooks, n, cfg)
      /\ next.globals = IF cfg.global THEN live.globals \cup {n} ELSE live.globals \ {n}
      /\ next.groups = live.groups /\ next.root = live.root /\ next.pins = live.pins
      /\ next.baseGroups = live.baseGroups
  BY <1>1, WithHookType
<1>3. ~ Breaches(c, next)
  BY <1>1, WithHookBreachesNothing
<1>4. next.globals \subseteq DOMAIN next.hooks /\ n \in DOMAIN next.hooks
  BY <1>1, <1>2 DEF Put, IInv, LiveInv
<1> HIDE DEF next
<1>5. /\ Swap(c, tag, cond, next, HookJob(NoName, n), ghost.durable)
      /\ log' \in Seq(Versions)
      /\ push' \in [HookCallers -> Pushes \cup {NoPush}]
  BY <1>2, ApplySwaps DEF next
<1>6. ~ Overwrites(tag, cond)
  BY <1>1, FreshTag
<1>7. ghost.durable \in BOOLEAN /\ ghost'.durable = ghost.durable
  BY <1>5 DEF IInv, TypeOK, Ghosts, Swap, Swapped
<1>8. DiskInv'
  BY <1>1, <1>2, <1>4, <1>5, <1>7, HookSwapDisk DEF Swap
<1>9. LiveInv'
  BY <1>4, <1>5 DEF LiveInv, Swap, HookJob, Job
<1>10. HookJob(NoName, n) \in Jobs
  BY JobTypes
<1> QED BY <1>1, <1>2, <1>3, <1>5, <1>6, <1>7, <1>8, <1>9, <1>10, SwapKeeps

\* delete_hook.
LEMMA delete_hook_Keeps ==
    ASSUME IInv, NEW c, NEW cond \in BOOLEAN, NEW n \in Hooks, delete_hook(c, cond, n)
    PROVE  IInv'
<1> DEFINE next == WithoutHook(n)
<1>1. Up /\ lock = Free /\ live \in Apps /\ ~ Stale(cond)
  BY UpIsApp DEF delete_hook, Enter, IInv
<1>2. /\ next \in Apps /\ next.st = "up" /\ next.ver = live.ver + 1
      /\ next.hooks = Without(live.hooks, {n})
      /\ next.globals = live.globals \ {n}
      /\ next.groups = live.groups /\ next.root = live.root /\ next.pins = live.pins
      /\ next.baseGroups = live.baseGroups
  BY <1>1, WithoutHookType
<1>3. ~ Breaches(c, next)
  BY <1>1, WithoutHookBreachesNothing DEF delete_hook
<1>4. next.globals \subseteq DOMAIN next.hooks
  BY <1>1, <1>2 DEF Without, IInv, LiveInv
<1> HIDE DEF next
<1>5. /\ Swap(c, tag, cond, next, HookJob(n, NoName), ghost.durable)
      /\ log' \in Seq(Versions)
      /\ push' \in [HookCallers -> Pushes \cup {NoPush}]
  BY <1>2, ApplySwaps DEF next, delete_hook
<1>6. ~ Overwrites(tag, cond)
  BY <1>1, FreshTag
<1>7. ghost.durable \in BOOLEAN /\ ghost'.durable = ghost.durable
  BY <1>5 DEF IInv, TypeOK, Ghosts, Swap, Swapped
<1>8. DiskInv'
  BY <1>1, <1>2, <1>4, <1>5, <1>7, HookSwapDisk DEF Swap
<1>9. LiveInv'
  BY <1>4, <1>5 DEF LiveInv, Swap, HookJob, Job
<1> QED BY <1>1, <1>2, <1>3, <1>5, <1>6, <1>7, <1>8, <1>9, SwapKeeps, JobTypes
\* register_hook and put_hook.
LEMMA register_hook_Keeps ==
    ASSUME IInv, NEW c, NEW cond \in BOOLEAN, NEW n \in Hooks, NEW cfg \in HookCfgs,
           register_hook(c, cond, n, cfg) \/ put_hook(c, cond, n, cfg)
    PROVE  IInv'
<1>1. cfg \in HookDefs
  BY ControlPlaneConstants
<1>2. /\ Enter /\ ~ Escalates(c, cfg) /\ ~ Stale(cond) /\ SameGrants(n, cfg)
      /\ Apply(c, cond, WithHook(n, cfg), HookJob(NoName, n), ghost.durable)
  BY DEF register_hook, put_hook
<1> QED BY <1>1, <1>2, PutsHook

\* The settings are pushed for the snapshot that is live: nothing but the push
\* of the caller changes.
LEMMA patch_hook_settings_Keeps ==
    ASSUME IInv, NEW c \in HookCallers, NEW cond \in BOOLEAN, NEW n \in Hooks, NEW s \in Settings,
           patch_hook_settings(c, cond, n, s)
    PROVE  IInv'
<1> DEFINE cfg == [live.hooks[n] EXCEPT !.set = s]
           p == [name |-> n, cfg |-> cfg, pre |-> live.ver, gen |-> ghost.gen]
<1>1. Up /\ live \in Apps /\ n \in DOMAIN live.hooks
  BY UpIsApp DEF patch_hook_settings, IInv
<1>2. live.hooks[n] \in HookDefs
  BY <1>1, MapElim DEF Apps, HookMaps
<1>3. /\ cfg \in HookDefs
      /\ cfg.grants = live.hooks[n].grants /\ cfg.global = live.hooks[n].global
  BY <1>2 DEF HookDefs
<1> HIDE DEF cfg
<1>4. p \in Pushes /\ p # NoPush
  <2>1. live.ver \in Nat /\ ghost.gen \in Nat
    BY <1>1 DEF Apps, IInv, TypeOK, Ghosts
  <2>2. n # NoName
    BY ControlPlaneConstants
  <2> QED BY <1>3, <2>1, <2>2 DEF Pushes, NoPush
<1>5. push' = [push EXCEPT ![c] = p]
      /\ UNCHANGED <<live, file, overlay, log, saved, lock, tag, restarts, faults, ghost>>
  BY DEF patch_hook_settings, cfg
<1>6. p.name = n /\ p.cfg = cfg /\ p.pre = live.ver /\ p.gen = ghost.gen
  OBVIOUS
<1> HIDE DEF p
<1>7. push \in [HookCallers -> Pushes \cup {NoPush}]
  BY DEF IInv, TypeOK
<1>8. push'[c] = p /\ \A d \in HookCallers : d # c => push'[d] = push[d]
  BY <1>5, <1>7
<1>9. TypeOK'
  BY <1>4, <1>5, <1>7 DEF IInv, TypeOK
<1>10. VersionInv'
  <2>1. ghost.gen \in Nat /\ ghost.bootGen \in Nat /\ ghost.bootGen =< ghost.gen
    BY DEF IInv, TypeOK, Ghosts, VersionInv
  <2>2. p.gen \in ghost.bootGen .. ghost.gen /\ p.pre = p.gen - ghost.bootGen
    BY <1>1, <1>6, <2>1 DEF IInv, VersionInv
  <2> QED BY <1>1, <1>5, <1>8, <2>2 DEF IInv, VersionInv, Up
<1>11. PushInv'
  <2>1. ~ Escalates(c, live.hooks[n])
    BY DEF patch_hook_settings
  <2> QED BY <1>1, <1>3, <1>5, <1>6, <1>8, <2>1 DEF IInv, PushInv, Escalates
<1>12. DiskInv' /\ LiveInv' /\ TombInv' /\ NoLostUpdate' /\ NarrowStaysNarrow'
  <2>1. Target' = Target
    BY <1>5 DEF Target, NewDoc, ReadDoc, Persist, PersistGroups, PersistRoot
  <2>2. DiskInv'
    BY <1>5, <2>1 DEF IInv, DiskInv, Up
  <2> QED BY <1>5, <2>2 DEF IInv, LiveInv, TombInv, NoLostUpdate, NarrowStaysNarrow, Up
<1> QED BY <1>5, <1>9, <1>10, <1>11, <1>12 DEF IInv, DownInv, Up

\* A push that is not acknowledged leaves nothing behind.
LEMMA push_configure_fails_Keeps ==
    ASSUME IInv, NEW c \in HookCallers, push_configure_fails(c)
    PROVE  IInv'
<1>1. push' = [push EXCEPT ![c] = NoPush]
      /\ UNCHANGED <<live, file, overlay, log, saved, lock, tag, restarts, faults, ghost>>
  BY DEF push_configure_fails
<1>2. push \in [HookCallers -> Pushes \cup {NoPush}]
  BY DEF IInv, TypeOK
<1>3. \A d \in HookCallers : push'[d] \in {push[d], NoPush}
  BY <1>1, <1>2
<1>4. TypeOK'
  BY <1>1, <1>2 DEF IInv, TypeOK
<1>5. VersionInv'
  BY <1>1, <1>3 DEF IInv, VersionInv, Up
<1>6. PushInv'
  BY <1>1, <1>3 DEF IInv, PushInv, Escalates
<1>7. Target' = Target
  BY <1>1 DEF Target, NewDoc, ReadDoc, Persist, PersistGroups, PersistRoot
<1>8. DiskInv'
  BY <1>1, <1>7 DEF IInv, DiskInv, Up
<1>9. LiveInv' /\ TombInv' /\ NoLostUpdate' /\ NarrowStaysNarrow'
  BY <1>1 DEF IInv, LiveInv, TombInv, NoLostUpdate, NarrowStaysNarrow, Up
<1> QED BY <1>1, <1>4, <1>5, <1>6, <1>8, <1>9 DEF IInv, DownInv, Up

\* The push that is committed was made for the snapshot that is live, and by a
\* caller that may handle its hook.
LEMMA commit_hook_settings_Keeps ==
    ASSUME IInv, NEW c \in HookCallers, commit_hook_settings(c)
    PROVE  IInv'
<1> DEFINE p == push[c]
           next == WithHook(p.name, p.cfg)
           n == p.name
           cfg == p.cfg
           yes == TRUE
<1>1. /\ p # NoPush /\ Up /\ lock = Free /\ live \in Apps
      /\ live.ver = p.pre /\ SameGrants(n, cfg)
  BY UpIsApp DEF commit_hook_settings, Enter, Committable, IInv
<1>2. p \in Pushes
  BY <1>1 DEF IInv, TypeOK
<1>3. n \in Hooks /\ cfg \in HookDefs
  BY <1>2 DEF Pushes
<1>4. /\ next \in Apps /\ next.st = "up" /\ next.ver = live.ver + 1
      /\ next.hooks = Put(live.hooks, n, cfg)
      /\ next.globals = IF cfg.global THEN live.globals \cup {n} ELSE live.globals \ {n}
      /\ next.groups = live.groups /\ next.root = live.root /\ next.pins = live.pins
      /\ next.baseGroups = live.baseGroups
  BY <1>1, <1>3, WithHookType
<1>5. ~ Escalates(c, cfg)
  <2>1. /\ cfg.grants = live.hooks[n].grants /\ cfg.global = live.hooks[n].global
        /\ ~ Escalates(c, live.hooks[n])
    BY <1>1 DEF IInv, PushInv
  <2> QED BY <2>1 DEF Escalates, Sees
<1>6. ~ Breaches(c, next)
  BY <1>1, <1>3, <1>5, WithHookBreachesNothing
<1>7. ~ Overwrites(p, yes)
  <2>1. ghost.gen \in Nat /\ ghost.bootGen \in Nat /\ p.gen \in Nat
    BY <1>2 DEF IInv, TypeOK, Ghosts, Pushes
  <2>2. p.pre = p.gen - ghost.bootGen /\ live.ver = ghost.gen - ghost.bootGen
    BY <1>1 DEF IInv, VersionInv
  <2> QED BY <1>1, <2>1, <2>2 DEF Overwrites
<1>8. next.globals \subseteq DOMAIN next.hooks /\ n \in DOMAIN next.hooks
  BY <1>1, <1>4 DEF Put, IInv, LiveInv
<1>9. /\ live' = next /\ log' = Record(log, next) /\ lock' = HookJob(NoName, n)
      /\ ghost' = Swapped(c, next, p, yes, ghost.durable)
      /\ push' = [push EXCEPT ![c] = NoPush]
      /\ UNCHANGED <<file, overlay, saved, tag, restarts, faults>>
  BY DEF commit_hook_settings, Install
<1> HIDE DEF next, p, n, cfg, yes
<1>10. /\ push' \in [HookCallers -> Pushes \cup {NoPush}]
       /\ \A d \in HookCallers : push'[d] \in {push[d], NoPush}
  BY <1>9 DEF IInv, TypeOK
<1>11. log' \in Seq(Versions)
  BY <1>4, <1>9, RecordType DEF IInv, TypeOK
<1>12. Swap(c, p, yes, next, HookJob(NoName, n), ghost.durable)
  BY <1>9, <1>10 DEF Swap
<1>13. ghost.durable \in BOOLEAN /\ ghost'.durable = ghost.durable
  BY <1>9 DEF IInv, TypeOK, Ghosts, Swapped
<1>14. DiskInv'
  BY <1>1, <1>4, <1>8, <1>9, <1>13, HookSwapDisk
<1>15. LiveInv'
  BY <1>8, <1>9 DEF LiveInv, HookJob, Job
<1>16. HookJob(NoName, n) \in Jobs
  BY <1>3, JobTypes
<1> QED BY <1>1, <1>4, <1>6, <1>7, <1>10, <1>11, <1>12, <1>13, <1>14, <1>15, <1>16, SwapKeeps

\* A recorded version's hooks are checked again.
LEMMA rollback_config_Keeps ==
    ASSUME IInv, NEW c \in FullCallers, NEW cond \in BOOLEAN, NEW i, rollback_config(c, cond, i)
    PROVE  IInv'
<1> DEFINE h == log[i].hooks
           g == log[i].globals
           next == WithRegistry(log[i])
<1>1. /\ Up /\ lock = Free /\ live \in Apps /\ ~ Stale(cond)
      /\ i \in DOMAIN log /\ ValidHooks(h, g)
  BY UpIsApp DEF rollback_config, Enter, IInv
<1>2. h \in HookMaps /\ g \in SUBSET Hooks
  <2>1. log[i] \in Versions
    BY <1>1 DEF IInv, TypeOK
  <2> QED BY <2>1 DEF Versions
<1>3. next =
        [st |-> "up", ver |-> live.ver + 1, hooks |-> h, globals |-> g,
         groups |-> live.groups, root |-> live.root, pins |-> live.pins,
         baseHooks |-> live.baseHooks, baseGroups |-> live.baseGroups]
  <2>1. next = [live EXCEPT !.ver = live.ver + 1, !.hooks = h, !.globals = g]
    BY DEF WithRegistry
  <2> HIDE DEF h, g, next
  <2> QED BY <1>1, <2>1 DEF Apps
<1> HIDE DEF h, g
<1>4. next \in Apps
  BY <1>1, <1>2, <1>3, AppFields DEF Apps
<1>5. next.globals \subseteq DOMAIN next.hooks
  BY <1>1, <1>3 DEF ValidHooks
<1>6. Apply(c, cond, next, HookJob(NoName, NoName), ghost.durable)
  BY DEF rollback_config
<1> HIDE DEF next
<1>7. /\ Swap(c, tag, cond, next, HookJob(NoName, NoName), ghost.durable)
      /\ log' \in Seq(Versions)
      /\ push' \in [HookCallers -> Pushes \cup {NoPush}]
  BY <1>4, <1>6, ApplySwaps
<1>8. ~ Overwrites(tag, cond) /\ ~ Breaches(c, next)
  BY <1>1, FreshTag, FullBreachesNothing
<1>9. ghost.durable \in BOOLEAN /\ ghost'.durable = ghost.durable
  BY <1>7 DEF IInv, TypeOK, Ghosts, Swap, Swapped
<1>10. DiskInv'
  <2>1. /\ next.groups = live.groups /\ next.root = live.root /\ next.pins = live.pins
        /\ next.baseGroups = live.baseGroups
    BY <1>3
  <2> QED BY <1>1, <1>4, <1>5, <1>7, <1>9, <2>1, HookSwapDisk DEF Swap
<1>11. LiveInv'
  BY <1>5, <1>7 DEF LiveInv, Swap, HookJob, Job
<1>12. HookJob(NoName, NoName) \in Jobs /\ next.ver = live.ver + 1
  BY <1>3, JobTypes
<1> QED BY <1>1, <1>4, <1>7, <1>8, <1>9, <1>10, <1>11, <1>12, SwapKeeps
-----------------------------------------------------------------------------
(* The handlers of groups *)

\* A snapshot with a group put under a name.
LEMMA WithGroupType ==
    ASSUME live \in Apps, NEW n \in Groups, NEW cfg \in GroupDefs
    PROVE  LET next == WithGroup(n, cfg)
           IN  /\ next \in Apps /\ next.st = "up" /\ next.ver = live.ver + 1
               /\ next.hooks = live.hooks /\ next.globals = live.globals
               /\ next.groups = Put(live.groups, n, cfg)
               /\ next.root = live.root /\ next.pins = live.pins
               /\ next.baseGroups = live.baseGroups
<1> DEFINE g == Put(live.groups, n, cfg)
<1>1. g \in GroupMaps
  BY PutMap DEF Apps, GroupMaps
<1>2. WithGroup(n, cfg) = [live EXCEPT !.ver = live.ver + 1, !.groups = g]
  BY DEF WithGroup
<1> HIDE DEF g
<1>3. WithGroup(n, cfg) =
        [st |-> "up", ver |-> live.ver + 1, hooks |-> live.hooks, globals |-> live.globals,
         groups |-> g, root |-> live.root, pins |-> live.pins,
         baseHooks |-> live.baseHooks, baseGroups |-> live.baseGroups]
  BY <1>2 DEF Apps
<1>4. WithGroup(n, cfg) \in Apps
  BY <1>1, <1>3, AppFields DEF Apps
<1> QED BY <1>3, <1>4 DEF g

\* A snapshot with a group taken out.
LEMMA WithoutGroupType ==
    ASSUME live \in Apps, NEW n
    PROVE  LET next == WithoutGroup(n)
           IN  /\ next \in Apps /\ next.st = "up" /\ next.ver = live.ver + 1
               /\ next.hooks = live.hooks /\ next.globals = live.globals
               /\ next.groups = Without(live.groups, {n})
               /\ next.root = live.root /\ next.pins = live.pins
               /\ next.baseGroups = live.baseGroups
<1> DEFINE g == Without(live.groups, {n})
<1>1. g \in GroupMaps
  BY WithoutMap DEF Apps, GroupMaps
<1>2. WithoutGroup(n) = [live EXCEPT !.ver = live.ver + 1, !.groups = g]
  BY DEF WithoutGroup
<1> HIDE DEF g
<1>3. WithoutGroup(n) =
        [st |-> "up", ver |-> live.ver + 1, hooks |-> live.hooks, globals |-> live.globals,
         groups |-> g, root |-> live.root, pins |-> live.pins,
         baseHooks |-> live.baseHooks, baseGroups |-> live.baseGroups]
  BY <1>2 DEF Apps
<1>4. WithoutGroup(n) \in Apps
  BY <1>1, <1>3, AppFields DEF Apps
<1> QED BY <1>3, <1>4 DEF g

\* A swap of groups alone, for a request that is not stale.
LEMMA SwapsGroups ==
    ASSUME IInv, NEW c, NEW cond \in BOOLEAN, Enter, ~ Stale(cond),
           NEW next \in Apps, NEW a \in Groups \cup {NoName}, NEW r \in Groups \cup {NoName},
           Apply(c, cond, next, GroupJob(a, r), ghost.durable),
           next.ver = live.ver + 1,
           r \in DOMAIN next.groups \cup {NoName},
           \A n \in DOMAIN live.groups : n \in live.baseGroups => n \in DOMAIN next.groups,
           next.hooks = live.hooks, next.globals = live.globals,
           next.root = live.root, next.pins = live.pins,
           next.baseGroups = live.baseGroups
    PROVE  IInv'
<1>1. Up /\ lock = Free /\ live \in Apps
  BY UpIsApp DEF Enter, IInv
<1>2. /\ Swap(c, tag, cond, next, GroupJob(a, r), ghost.durable)
      /\ log' \in Seq(Versions)
      /\ push' \in [HookCallers -> Pushes \cup {NoPush}]
  BY ApplySwaps
<1>3. ~ Overwrites(tag, cond)
  BY <1>1, FreshTag
<1>4. ~ Breaches(c, next)
  BY SameHooksBreachNothing
<1>5. ghost.durable \in BOOLEAN /\ ghost'.durable = ghost.durable
  BY <1>2 DEF IInv, TypeOK, Ghosts, Swap, Swapped
<1>6. DiskInv'
  BY <1>1, <1>2, <1>5, GroupSwapDisk DEF Swap
<1>7. LiveInv'
  <2>1. live.globals \subseteq DOMAIN live.hooks
    BY <1>1 DEF IInv, LiveInv
  <2> QED BY <1>2, <2>1 DEF LiveInv, Swap, GroupJob, Job
<1>8. GroupJob(a, r) \in Jobs
  BY JobTypes
<1> QED BY <1>1, <1>2, <1>3, <1>4, <1>5, <1>6, <1>7, <1>8, SwapKeeps

\* What the handlers that put a group share.
LEMMA ApplyGroup_Keeps ==
    ASSUME IInv, NEW c, NEW cond \in BOOLEAN, NEW n \in Groups, NEW cfg \in GroupDefs,
           Enter, ~ Stale(cond), ApplyGroup(c, cond, n, cfg)
    PROVE  IInv'
<1> DEFINE next == WithGroup(n, cfg)
<1>1. live \in Apps
  BY UpIsApp DEF Enter, IInv
<1>2. /\ next \in Apps /\ next.ver = live.ver + 1
      /\ next.hooks = live.hooks /\ next.globals = live.globals
      /\ next.groups = Put(live.groups, n, cfg)
      /\ next.root = live.root /\ next.pins = live.pins
      /\ next.baseGroups = live.baseGroups
  BY <1>1, WithGroupType
<1>3. DOMAIN next.groups = DOMAIN live.groups \cup {n}
  BY <1>2 DEF Put
<1>4. Apply(c, cond, next, GroupJob(NoName, n), ghost.durable)
  BY DEF ApplyGroup
<1> HIDE DEF next
<1> QED BY <1>2, <1>3, <1>4, SwapsGroups

\* delete_group: a group of the file is not deleted.
LEMMA delete_group_Keeps ==
    ASSUME IInv, NEW c, NEW cond \in BOOLEAN, NEW n \in Groups, delete_group(c, cond, n)
    PROVE  IInv'
<1> DEFINE next == WithoutGroup(n)
<1>1. live \in Apps /\ Enter /\ ~ Stale(cond) /\ n \notin live.baseGroups
  BY UpIsApp DEF Enter, IInv, delete_group
<1>2. /\ next \in Apps /\ next.ver = live.ver + 1
      /\ next.hooks = live.hooks /\ next.globals = live.globals
      /\ next.groups = Without(live.groups, {n})
      /\ next.root = live.root /\ next.pins = live.pins
      /\ next.baseGroups = live.baseGroups
  BY <1>1, WithoutGroupType
<1>3. DOMAIN next.groups = DOMAIN live.groups \ {n}
  BY <1>2 DEF Without
<1>4. Apply(c, cond, next, GroupJob(n, NoName), ghost.durable)
  BY DEF delete_group
<1> HIDE DEF next
<1>5. \A m \in DOMAIN live.groups : m \in live.baseGroups => m \in DOMAIN next.groups
  BY <1>1, <1>3
<1> QED BY <1>1, <1>2, <1>4, <1>5, SwapsGroups

\* register_group, put_group, patch_group and a mint that makes its group.
LEMMA GroupHandlersKeep ==
    ASSUME IInv, NEW c, NEW cond \in BOOLEAN, NEW n \in Groups, NEW p \in Groups \cup {NoName},
           \/ register_group(c, cond, n, [parent |-> p])
           \/ put_group(c, cond, n, [parent |-> p])
           \/ patch_group(c, cond, n, p)
    PROVE  IInv'
<1>1. [parent |-> p] \in GroupDefs
  BY DEF GroupDefs
<1>2. CASE register_group(c, cond, n, [parent |-> p]) \/ put_group(c, cond, n, [parent |-> p])
  BY <1>1, <1>2, ApplyGroup_Keeps DEF register_group, put_group
<1>3. CASE patch_group(c, cond, n, p)
  <2>1. live \in Apps /\ n \in DOMAIN live.groups
    BY <1>3, UpIsApp DEF patch_group, Enter, IInv
  <2>2. live.groups[n] \in GroupDefs
    BY <2>1, MapElim DEF Apps, GroupMaps
  <2>3. merge_group_patch(live.groups[n], p) \in GroupDefs
    BY <2>2 DEF merge_group_patch, GroupDefs
  <2> QED BY <1>3, <2>3, ApplyGroup_Keeps DEF patch_group
<1> QED BY <1>2, <1>3

\* A mint that makes its group.
LEMMA resolve_mint_group_Keeps ==
    ASSUME IInv, NEW c, NEW n \in Groups, NEW p \in Groups, resolve_mint_group(c, n, p)
    PROVE  IInv'
<1> DEFINE no == FALSE
<1>1. [parent |-> p] \in GroupDefs
  BY DEF GroupDefs
<1>2. Enter /\ ApplyGroup(c, no, n, [parent |-> p]) /\ ~ Stale(no) /\ no \in BOOLEAN
  BY DEF resolve_mint_group, Stale
<1> HIDE DEF no
<1> QED BY <1>1, <1>2, ApplyGroup_Keeps
-----------------------------------------------------------------------------
(* Whole configurations *)

\* A build of a valid configuration, by a caller of scope full.
LEMMA BuildKeeps ==
    ASSUME IInv, Up, NEW c \in FullCallers, NEW cond \in BOOLEAN, ~ Stale(cond),
           NEW cfg \in Surfaces, NEW base \in Surfaces, Buildable(cfg),
           NEW job \in Jobs, job.sect \notin {"hooks", "groups"},
           job.sect = "root" => cfg.root # 0,
           NEW durable \in BOOLEAN,
           Swap(c, tag, cond, BuildApp(cfg, base, live.ver + 1), job, durable),
           log' \in Seq(Versions),
           push' \in [HookCallers -> Pushes \cup {NoPush}],
           DiskInv'
    PROVE  IInv'
<1> DEFINE next == BuildApp(cfg, base, live.ver + 1)
<1>1. live \in Apps /\ live.ver + 1 \in Nat
  BY UpIsApp, AppFields DEF IInv
<1>2. next \in Apps
  BY <1>1, BuildAppType
<1>3. next.ver = live.ver + 1
  BY DEF BuildApp
<1>4. LiveInv'
  BY BuiltLive DEF Swap
<1> HIDE DEF next
<1>5. ~ Overwrites(tag, cond) /\ ~ Breaches(c, next)
  BY FreshTag, FullBreachesNothing
<1>6. Swap(c, tag, cond, next, job, durable)
  BY DEF next
<1> QED BY <1>2, <1>3, <1>4, <1>5, <1>6, SwapKeeps

\* What is on the disk is typed, and so is what a restart makes of it.
LEMMA DiskTypes ==
    ASSUME IInv
    PROVE  file \in Surfaces /\ ReadDoc \in Docs /\ DiskSurface \in Surfaces
<1>1. file \in Surfaces /\ ReadDoc \in Docs
  BY ReadDocType, ControlPlaneConstants DEF IInv, TypeOK
<1> QED BY <1>1, MergeType DEF DiskSurface

\* reload_config, and the rebuild of rollback_plugin: the disk, and nothing left
\* to write.
LEMMA reload_config_Keeps ==
    ASSUME IInv, Up, NEW c \in FullCallers, Buildable(DiskSurface),
           Apply(c, FALSE, BuildApp(DiskSurface, file, live.ver + 1), Free, TRUE)
    PROVE  IInv'
<1> DEFINE no == FALSE
           yes == TRUE
           next == BuildApp(DiskSurface, file, live.ver + 1)
<1>1. file \in Surfaces /\ DiskSurface \in Surfaces
  BY DiskTypes
<1>2. ~ Stale(no) /\ no \in BOOLEAN /\ yes \in BOOLEAN
  BY DEF Stale
<1>3. next \in Apps
  BY <1>1, BuildAppType, UpIsApp, AppFields DEF IInv
<1>4. Apply(c, no, next, Free, yes)
  OBVIOUS
<1>5. DiskInv'
  BY RebuildDisk DEF Apply, Install
<1>6. Free \in Jobs /\ Free.sect \notin {"hooks", "groups", "root"}
  BY JobTypes DEF Free, Job
<1> HIDE DEF no, yes
<1>7. /\ Swap(c, tag, no, next, Free, yes)
      /\ log' \in Seq(Versions)
      /\ push' \in [HookCallers -> Pushes \cup {NoPush}]
  BY <1>3, <1>4, ApplySwaps
<1> QED BY <1>1, <1>2, <1>5, <1>6, <1>7, BuildKeeps

\* reload_plugins does the same and records no version.
LEMMA reload_plugins_Keeps ==
    ASSUME IInv, NEW c \in FullCallers, reload_plugins(c)
    PROVE  IInv'
<1> DEFINE no == FALSE
           yes == TRUE
           next == BuildApp(DiskSurface, file, live.ver + 1)
<1>1. file \in Surfaces /\ DiskSurface \in Surfaces
  BY DiskTypes
<1>2. ~ Stale(no) /\ no \in BOOLEAN /\ yes \in BOOLEAN
  BY DEF Stale
<1>3. Up /\ Buildable(DiskSurface) /\ lock = Free
  BY DEF reload_plugins, Enter
<1>4. /\ live' = next /\ lock' = Free
      /\ ghost' = Swapped(c, next, tag, no, yes)
      /\ UNCHANGED <<file, overlay, log, saved, push, tag, restarts, faults>>
  BY <1>3 DEF reload_plugins
<1>5. DiskInv'
  BY <1>4, RebuildDisk
<1>6. Free \in Jobs /\ Free.sect \notin {"hooks", "groups", "root"}
  BY JobTypes DEF Free, Job
<1> HIDE DEF no, yes
<1>7. /\ Swap(c, tag, no, next, Free, yes)
      /\ log' \in Seq(Versions)
      /\ push' \in [HookCallers -> Pushes \cup {NoPush}]
  BY <1>4 DEF Swap, IInv, TypeOK
<1> QED BY <1>1, <1>2, <1>3, <1>5, <1>6, <1>7, BuildKeeps

\* apply_config: from then on the disk is not known to be what is live.
LEMMA apply_config_Keeps ==
    ASSUME IInv, NEW c \in FullCallers, NEW cond \in BOOLEAN, NEW body \in Bodies,
           apply_config(c, cond, body)
    PROVE  IInv'
<1> DEFINE no == FALSE
           next == BuildApp(body, body, live.ver + 1)
<1>1. body \in Surfaces
  BY ControlPlaneConstants
<1>2. Up /\ Buildable(body) /\ ~ Stale(cond) /\ no \in BOOLEAN
  BY DEF apply_config, Enter
<1>3. next \in Apps
  BY <1>1, <1>2, BuildAppType, UpIsApp, AppFields DEF IInv
<1>4. Apply(c, cond, next, Free, no)
  BY DEF apply_config
<1>5. ~ ghost'.durable
  BY <1>4 DEF Apply, Swapped, IInv, TypeOK, Ghosts
<1>6. DiskInv'
  BY <1>5 DEF DiskInv
<1>7. Free \in Jobs /\ Free.sect \notin {"hooks", "groups", "root"}
  BY JobTypes DEF Free, Job
<1> HIDE DEF no
<1>8. /\ Swap(c, tag, cond, next, Free, no)
      /\ log' \in Seq(Versions)
      /\ push' \in [HookCallers -> Pushes \cup {NoPush}]
  BY <1>3, <1>4, ApplySwaps
<1> QED BY <1>1, <1>2, <1>6, <1>7, <1>8, BuildKeeps

\* put_config_settings: the disk but for the root section, which is left to
\* write, and for the pins, which are not applied.
LEMMA put_config_settings_Keeps ==
    ASSUME IInv, NEW c \in FullCallers, NEW cond \in BOOLEAN, put_config_settings(c, cond, 2)
    PROVE  IInv'
<1> DEFINE cfg == [DiskSurface EXCEPT !.root = 2, !.pins = 0]
           next == BuildApp(cfg, file, live.ver + 1)
           job == Job("root", NoName, NoName, 0)
           durable == ReadDoc.pins = 0
<1>1. file \in Surfaces /\ ReadDoc \in Docs /\ DiskSurface \in Surfaces
  BY DiskTypes
<1>2. cfg \in Surfaces /\ cfg.root = 2 /\ cfg.pins = 0 /\ cfg.hooks = DiskSurface.hooks
      /\ cfg.globals = DiskSurface.globals /\ cfg.groups = DiskSurface.groups
  BY <1>1 DEF Surfaces
<1>3. Up /\ Buildable(cfg) /\ ~ Stale(cond) /\ durable \in BOOLEAN
  BY DEF put_config_settings, Enter
<1>4. Apply(c, cond, next, job, durable)
  BY DEF put_config_settings
<1> HIDE DEF cfg
<1>5. next \in Apps
  BY <1>1, <1>2, <1>3, BuildAppType, UpIsApp, AppFields DEF IInv
<1>6. DiskInv'
  <2>1. live' = next /\ lock' = job /\ UNCHANGED <<file, overlay>>
        /\ ghost'.durable = durable
    BY <1>4 DEF Apply, Install, Swapped, IInv, TypeOK, Ghosts
  <2>2. SUFFICES ASSUME ReadDoc.pins = 0
                 PROVE  live'.baseGroups = DOMAIN file.groups /\ Agree(live', file, Target')
    BY <2>1 DEF DiskInv
  <2>3. Target' = [ReadDoc EXCEPT !.root = 2]
    <3>1. live'.root = 2
      BY <1>2, <2>1 DEF BuildApp
    <3> QED BY <2>1, <3>1 DEF Target, NewDoc, Job, PersistRoot, ReadDoc
  <2> DEFINE new == [ReadDoc EXCEPT !.root = 2]
  <2>4. /\ new.hooks = ReadDoc.hooks /\ new.globals = ReadDoc.globals
        /\ new.deleted = ReadDoc.deleted /\ new.groups = ReadDoc.groups
        /\ new.deletedGroups = ReadDoc.deletedGroups /\ new.root = 2 /\ new.pins = 0
    BY <1>1, <2>2 DEF Docs
  <2> HIDE DEF new
  <2>5. /\ MergeInto(file, new).hooks = DiskSurface.hooks
        /\ MergeInto(file, new).globals = DiskSurface.globals
        /\ MergeInto(file, new).groups = DiskSurface.groups
        /\ MergeInto(file, new).root = 2 /\ MergeInto(file, new).pins = 0
    BY <2>4 DEF MergeInto, DiskSurface
  <2>6. /\ live'.hooks = cfg.hooks /\ live'.globals = cfg.globals /\ live'.groups = cfg.groups
        /\ live'.root = cfg.root /\ live'.pins = cfg.pins /\ live'.baseGroups = DOMAIN file.groups
    BY <2>1 DEF BuildApp
  <2>7. Agree(live', file, new)
    BY <1>2, <2>5, <2>6 DEF Agree
  <2> QED BY <2>3, <2>6, <2>7 DEF new
<1>7. job \in Jobs /\ job.sect = "root"
  BY DEF Jobs, Job
<1> HIDE DEF job, durable
<1>8. /\ Swap(c, tag, cond, next, job, durable)
      /\ log' \in Seq(Versions)
      /\ push' \in [HookCallers -> Pushes \cup {NoPush}]
  BY <1>4, <1>5, ApplySwaps
<1> QED BY <1>1, <1>2, <1>3, <1>6, <1>7, <1>8, BuildKeeps

\* reset_overlay_section: the disk as it will be once the section is cleared.
LEMMA reset_overlay_section_Keeps ==
    ASSUME IInv, NEW c \in FullCallers, NEW cond \in BOOLEAN, NEW s \in Sections,
           reset_overlay_section(c, cond, s)
    PROVE  IInv'
<1> DEFINE doc == ClearSection(ReadDoc, s)
           cfg == MergeInto(file, doc)
           next == BuildApp(cfg, file, live.ver + 1)
           job == Job("clear", s, NoName, 0)
           yes == TRUE
<1>1. file \in Surfaces /\ doc \in Docs
  BY DiskTypes, ClearSectionType
<1>2. cfg \in Surfaces
  BY <1>1, MergeType
<1>3. Up /\ Buildable(cfg) /\ ~ Stale(cond) /\ yes \in BOOLEAN
  BY DEF reset_overlay_section, Enter
<1>4. Apply(c, cond, next, job, yes)
  BY DEF reset_overlay_section
<1>5. DiskInv'
  <2>1. live' = next /\ lock' = job /\ UNCHANGED <<file, overlay>>
    BY <1>4 DEF Apply, Install
  <2>2. Target' = doc
    BY <2>1 DEF Target, NewDoc, Job, ReadDoc
  <2>3. Agree(live', file, doc)
    BY <2>1, BuiltAgrees
  <2>4. live'.baseGroups = DOMAIN file.groups
    BY <2>1 DEF BuildApp
  <2> QED BY <2>1, <2>2, <2>3, <2>4 DEF DiskInv
<1>6. job \in Jobs /\ job.sect = "clear"
  BY DEF Jobs, Job
<1> HIDE DEF job, yes, cfg
<1>7. next \in Apps
  BY <1>1, <1>2, <1>3, BuildAppType, UpIsApp, AppFields DEF IInv
<1>8. /\ Swap(c, tag, cond, next, job, yes)
      /\ log' \in Seq(Versions)
      /\ push' \in [HookCallers -> Pushes \cup {NoPush}]
  BY <1>4, <1>7, ApplySwaps
<1> QED BY <1>1, <1>2, <1>3, <1>5, <1>6, <1>8, BuildKeeps

\* put_auth leaves all of the surface alone.
LEMMA put_auth_Keeps ==
    ASSUME IInv, NEW c \in FullCallers, NEW cond \in BOOLEAN, put_auth(c, cond)
    PROVE  IInv'
<1> DEFINE next == [live EXCEPT !.ver = live.ver + 1]
<1>1. Up /\ lock = Free /\ live \in Apps /\ ~ Stale(cond)
  BY UpIsApp DEF put_auth, Enter, IInv
<1>2. /\ next \in Apps /\ next.ver = live.ver + 1
      /\ next.hooks = live.hooks /\ next.globals = live.globals /\ next.groups = live.groups
      /\ next.root = live.root /\ next.pins = live.pins /\ next.baseGroups = live.baseGroups
  BY <1>1 DEF Apps
<1>3. Apply(c, cond, next, Free, ghost.durable)
  BY DEF put_auth
<1> HIDE DEF next
<1>4. /\ Swap(c, tag, cond, next, Free, ghost.durable)
      /\ log' \in Seq(Versions)
      /\ push' \in [HookCallers -> Pushes \cup {NoPush}]
  BY <1>2, <1>3, ApplySwaps
<1>5. ~ Overwrites(tag, cond) /\ ~ Breaches(c, next)
  BY <1>1, FreshTag, FullBreachesNothing
<1>6. ghost.durable \in BOOLEAN /\ ghost'.durable = ghost.durable
  BY <1>4 DEF IInv, TypeOK, Ghosts, Swap, Swapped
<1>7. DiskInv'
  <2>1. Target = ReadDoc /\ Target' = ReadDoc
    BY <1>1, <1>4 DEF Target, Free, Job, Swap, ReadDoc
  <2> QED BY <1>1, <1>2, <1>4, <1>6, <2>1 DEF IInv, DiskInv, Swap, Agree
<1>8. LiveInv'
  BY <1>1, <1>2, <1>4 DEF IInv, LiveInv, Swap, Free, Job
<1> QED BY <1>1, <1>2, <1>4, <1>5, <1>6, <1>7, <1>8, JobTypes, SwapKeeps
-----------------------------------------------------------------------------
(* The overlay, the readers, the disk and the process *)

\* What is said of versions and pushes holds still when their variables do.
LEMMA StillVersions ==
    ASSUME IInv, UNCHANGED <<live, push, tag>>,
           ghost'.gen = ghost.gen, ghost'.bootGen = ghost.bootGen
    PROVE  VersionInv' /\ PushInv'
BY DEF IInv, VersionInv, PushInv, Up, Escalates

\* A write that was not refused started from the document that is there.
LEMMA ReadIsDoc ==
    ASSUME IInv, LoadForRmw
    PROVE  ReadDoc = overlay.doc
BY DEF IInv, TypeOK, TombInv, LoadForRmw, ReadDoc

\* A write that fails, or is refused, leaves the overlay as it was.
LEMMA NotWrittenKeeps ==
    ASSUME IInv, NotWritten
    PROVE  faults' \in Nat /\ overlay' = overlay
BY DEF NotWritten, IInv, TypeOK

\* The pin is written, or not; the prior pins are remembered with the lock.
LEMMA rollback_plugin_Keeps ==
    ASSUME IInv, NEW c \in FullCallers, NEW cond \in BOOLEAN, rollback_plugin(c, cond, 1)
    PROVE  IInv'
<1> DEFINE job == Job("pins", NoName, NoName, ReadDoc.pins)
           new == [ReadDoc EXCEPT !.pins = 1]
<1>1. /\ Up /\ lock = Free /\ ~ Stale(cond)
      /\ lock' = job
      /\ UNCHANGED <<live, file, log, saved, push, tag, restarts>>
  BY DEF rollback_plugin, Enter
<1>2. ReadDoc \in Docs
  BY DiskTypes
<1>3. ~ Overwrites(tag, cond)
  BY <1>1, FreshTag
<1>4. ghost' = ghost
  <2> DEFINE l == ghost.lost \/ Overwrites(tag, cond)
  <2>1. ghost' = [ghost EXCEPT !.lost = l]
    BY DEF rollback_plugin
  <2>2. ghost.lost = FALSE
    BY DEF IInv, NoLostUpdate, TypeOK, Ghosts
  <2>3. l = FALSE
    <3>1. ~ ghost.lost
      BY DEF IInv, NoLostUpdate
    <3> QED BY <1>3, <3>1, Zenon
  <2> HIDE DEF l
  <2> QED BY <2>1, <2>2, <2>3 DEF IInv, TypeOK, Ghosts
<1>5. /\ new \in Docs /\ new.deleted = ReadDoc.deleted
      /\ new.deletedGroups = ReadDoc.deletedGroups
      /\ [new EXCEPT !.pins = ReadDoc.pins] = ReadDoc
      /\ [ReadDoc EXCEPT !.pins = ReadDoc.pins] = ReadDoc
  BY <1>2 DEF Docs
<1> HIDE DEF new
<1>6. \/ /\ LoadForRmw /\ overlay' = [st |-> "ok", doc |-> new] /\ faults' = faults
      \/ faults' \in Nat /\ overlay' = overlay
  BY NotWrittenKeeps DEF rollback_plugin, Written, persist_plugin_versions, new
<1>7. job \in Jobs
  BY <1>2 DEF Jobs, Job, Docs
<1>8. TypeOK'
  BY <1>1, <1>4, <1>5, <1>6, <1>7 DEF IInv, TypeOK
<1>9. VersionInv' /\ PushInv'
  BY <1>1, <1>4, StillVersions
<1>10. Target' = ReadDoc /\ Target = ReadDoc
  <2>1. ReadDoc' \in {new, ReadDoc}
    BY <1>6 DEF ReadDoc
  <2>2. Target' = [ReadDoc' EXCEPT !.pins = ReadDoc.pins]
    BY <1>1 DEF Target, Job, persist_plugin_versions
  <2>3. Target = ReadDoc
    BY <1>1 DEF Target, Free, Job
  <2> QED BY <1>5, <2>1, <2>2, <2>3
<1>11. DiskInv'
  BY <1>1, <1>4, <1>10 DEF IInv, DiskInv, Up
<1>12. LiveInv'
  BY <1>1 DEF IInv, LiveInv, Up, Job
<1>13. TombInv'
  <2>1. CASE overlay' = overlay
    BY <1>4, <2>1 DEF IInv, TombInv
  <2>2. CASE LoadForRmw /\ overlay' = [st |-> "ok", doc |-> new]
    BY <1>4, <1>5, <2>2, ReadIsDoc DEF IInv, TombInv
  <2> QED BY <1>6, <2>1, <2>2
<1>14. DownInv'
  BY <1>1 DEF DownInv, Up
<1> QED BY <1>4, <1>8, <1>9, <1>11, <1>12, <1>13, <1>14
        DEF IInv, NoLostUpdate, NarrowStaysNarrow

\* The rebuild fails, and the prior pins are still to be written.
LEMMA rebuild_fails_Keeps ==
    ASSUME IInv, rebuild_fails
    PROVE  IInv'
<1> DEFINE job == Job("unpin", NoName, NoName, lock.pins)
<1>1. /\ lock.sect = "pins" /\ lock' = job
      /\ UNCHANGED <<live, file, overlay, log, saved, push, tag, restarts, ghost>>
      /\ faults' \in Nat
  BY DEF rebuild_fails, PinsAfterFailure, IInv, TypeOK
<1>2. lock.pins \in Nat
  BY DEF IInv, TypeOK, Jobs, Free, Job
<1>3. job \in Jobs
  BY <1>2 DEF Jobs, Job
<1>4. TypeOK'
  BY <1>1, <1>3 DEF IInv, TypeOK
<1>5. VersionInv' /\ PushInv'
  BY <1>1, StillVersions
<1>6. Target' = Target
  BY <1>1 DEF Target, NewDoc, Job, ReadDoc, persist_plugin_versions
<1>7. DiskInv' /\ LiveInv' /\ TombInv'
  BY <1>1, <1>6 DEF IInv, DiskInv, LiveInv, TombInv, Up, Job
<1>8. DownInv'
  BY DEF rebuild_fails, DownInv, Up
<1> QED BY <1>1, <1>4, <1>5, <1>7, <1>8 DEF IInv, NoLostUpdate, NarrowStaysNarrow

\* A process that is up has a document to write for every job but the pins'.
LEMMA NewDocType ==
    ASSUME IInv, Up, lock # Free, lock.sect # "pins"
    PROVE  NewDoc(lock) \in Docs
<1>1. ReadDoc \in Docs /\ live \in Apps
  BY DiskTypes, UpIsApp DEF IInv
<1>2. /\ live.hooks \in HookMaps /\ live.globals \in SUBSET Hooks /\ live.groups \in GroupMaps
      /\ live.root \in Nat
  BY <1>1, AppFields
<1>3. lock \in Jobs \ {Free}
  BY DEF IInv, TypeOK
<1>4. CASE lock.sect = "hooks"
  <2> DEFINE dead == Untombstone(ReadDoc.deleted, lock.add, lock.rem, DOMAIN live.hooks)
  <2>1. lock.add \in Hooks \cup {NoName}
    BY <1>3, <1>4 DEF Jobs
  <2>2. dead \in SUBSET Hooks
    BY <1>1, <2>1 DEF Docs, Untombstone, Named
  <2>3. NewDoc(lock) = [ReadDoc EXCEPT !.hooks = live.hooks, !.globals = live.globals,
                                       !.deleted = dead]
    BY <1>4 DEF NewDoc, Persist
  <2> HIDE DEF dead
  <2> QED BY <1>1, <1>2, <2>2, <2>3 DEF Docs
<1>5. CASE lock.sect = "groups"
  <2> DEFINE dead == Untombstone(ReadDoc.deletedGroups, lock.add, lock.rem, DOMAIN live.groups)
  <2>1. lock.add \in Groups \cup {NoName}
    BY <1>3, <1>5 DEF Jobs
  <2>2. dead \in SUBSET Groups
    BY <1>1, <2>1, UntombstoneType DEF Docs
  <2>3. NewDoc(lock) = [ReadDoc EXCEPT !.groups = live.groups, !.deletedGroups = dead]
    BY <1>5 DEF NewDoc, PersistGroups
  <2> HIDE DEF dead
  <2> QED BY <1>1, <1>2, <2>2, <2>3 DEF Docs
<1>6. CASE lock.sect = "root"
  BY <1>1, <1>2, <1>6 DEF NewDoc, PersistRoot, Docs
<1>7. CASE lock.sect = "clear"
  <2>1. lock.add \in Sections
    BY <1>3, <1>7 DEF Jobs
  <2> QED BY <1>1, <1>7, <2>1, ClearSectionType DEF NewDoc
<1>8. CASE lock.sect = "unpin"
  <2>1. lock.pins \in Nat
    BY <1>3, <1>8 DEF Jobs
  <2> QED BY <1>1, <1>8, <2>1 DEF NewDoc, persist_plugin_versions, Docs
<1>9. lock.sect \in {"hooks", "groups", "root", "clear", "unpin"}
  BY <1>3 DEF Jobs
<1> QED BY <1>4, <1>5, <1>6, <1>7, <1>8, <1>9

\* The document that was to be written is the one that is read from then on,
\* and what was deleted is in its tombstones.
LEMMA WrittenKeeps ==
    ASSUME IInv, Up, lock # Free, lock.sect # "pins", lock' = Free,
           Written(NewDoc(lock)),
           ghost' = [ghost EXCEPT
                !.goneHooks = Buried(ghost.goneHooks, lock, "hooks", DOMAIN live.hooks),
                !.goneGroups = Buried(ghost.goneGroups, lock, "groups", DOMAIN live.groups)],
           UNCHANGED <<live, file, log, saved, push, tag, restarts>>
    PROVE  IInv'
<1> DEFINE doc == NewDoc(lock)
           gh == Buried(ghost.goneHooks, lock, "hooks", DOMAIN live.hooks)
           gg == Buried(ghost.goneGroups, lock, "groups", DOMAIN live.groups)
<1>1. doc \in Docs /\ LoadForRmw /\ overlay' = [st |-> "ok", doc |-> doc] /\ faults' = faults
  BY NewDocType DEF Written
<1>2. ReadDoc = overlay.doc /\ ReadDoc \in Docs
  BY <1>1, ReadIsDoc, DiskTypes
<1>3. lock \in Jobs \ {Free} /\ lock.sect \in {"hooks", "groups", "root", "clear", "unpin"}
  BY DEF IInv, TypeOK, Jobs
<1>4. ghost.goneHooks \in SUBSET Hooks /\ ghost.goneGroups \in SUBSET Groups
  BY DEF IInv, TypeOK, Ghosts
<1>5. gh \subseteq doc.deleted /\ gh \in SUBSET Hooks
  <2>1. CASE lock.sect = "hooks"
    <3>1. gh = (ghost.goneHooks \cup Named(lock.add)) \ DOMAIN live.hooks
      BY <2>1 DEF Buried
    <3>2. doc.deleted = Untombstone(ReadDoc.deleted, lock.add, lock.rem, DOMAIN live.hooks)
      BY <1>2, <2>1 DEF NewDoc, Persist, Docs
    <3>3. lock.add \in Hooks \cup {NoName}
      BY <1>3, <2>1 DEF Jobs
    <3>4. gh \in SUBSET Hooks
      BY <1>4, <3>1, <3>3 DEF Named
    <3>5. lock.rem \in DOMAIN live.hooks \cup {NoName}
      BY <2>1 DEF IInv, LiveInv
    <3>6. ghost.goneHooks \subseteq ReadDoc.deleted
      BY <1>2 DEF IInv, TombInv
    <3>7. NoName \notin Hooks
      BY ControlPlaneConstants
    <3> HIDE DEF gh, doc
    <3> QED BY <3>1, <3>2, <3>4, <3>5, <3>6, <3>7 DEF Untombstone, Named
  <2>2. CASE lock.sect = "groups"
    BY <1>2, <1>4, <2>2 DEF Buried, NewDoc, PersistGroups, Docs, IInv, TombInv
  <2>3. CASE lock.sect = "root"
    BY <1>2, <1>4, <2>3 DEF Buried, NewDoc, PersistRoot, Docs, IInv, TombInv
  <2>4. CASE lock.sect = "unpin"
    BY <1>2, <1>4, <2>4 DEF Buried, NewDoc, persist_plugin_versions, Docs, IInv, TombInv
  <2>5. CASE lock.sect = "clear"
    <3>1. lock.add \in Sections
      BY <1>3, <2>5 DEF Jobs
    <3>2. CASE lock.add = "hooks"
      BY <2>5, <3>2 DEF Buried
    <3>3. CASE lock.add # "hooks"
      <4>1. doc.deleted = ReadDoc.deleted
        BY <1>2, <2>5, <3>1, <3>3 DEF NewDoc, ClearSection, Sections, Docs
      <4>2. gh = ghost.goneHooks
        BY <2>5, <3>3 DEF Buried
      <4> QED BY <1>2, <1>4, <4>1, <4>2 DEF IInv, TombInv
    <3> QED BY <3>2, <3>3
  <2> QED BY <1>3, <2>1, <2>2, <2>3, <2>4, <2>5
<1>6. gg \subseteq doc.deletedGroups /\ gg \in SUBSET Groups
  <2>1. CASE lock.sect = "groups"
    <3>1. gg = (ghost.goneGroups \cup Named(lock.add)) \ DOMAIN live.groups
      BY <2>1 DEF Buried
    <3>2. doc.deletedGroups =
            Untombstone(ReadDoc.deletedGroups, lock.add, lock.rem, DOMAIN live.groups)
      BY <1>2, <2>1 DEF NewDoc, PersistGroups, Docs
    <3>3. lock.add \in Groups \cup {NoName}
      BY <1>3, <2>1 DEF Jobs
    <3>4. gg \in SUBSET Groups
      BY <1>4, <3>1, <3>3 DEF Named
    <3>5. lock.rem \in DOMAIN live.groups \cup {NoName}
      BY <2>1 DEF IInv, LiveInv
    <3>6. ghost.goneGroups \subseteq ReadDoc.deletedGroups
      BY <1>2 DEF IInv, TombInv
    <3>7. NoName \notin Groups
      BY ControlPlaneConstants
    <3> HIDE DEF gg, doc
    <3> QED BY <3>1, <3>2, <3>4, <3>5, <3>6, <3>7 DEF Untombstone, Named
  <2>2. CASE lock.sect = "hooks"
    BY <1>2, <1>4, <2>2 DEF Buried, NewDoc, Persist, Docs, IInv, TombInv
  <2>3. CASE lock.sect = "root"
    BY <1>2, <1>4, <2>3 DEF Buried, NewDoc, PersistRoot, Docs, IInv, TombInv
  <2>4. CASE lock.sect = "unpin"
    BY <1>2, <1>4, <2>4 DEF Buried, NewDoc, persist_plugin_versions, Docs, IInv, TombInv
  <2>5. CASE lock.sect = "clear"
    <3>1. lock.add \in Sections
      BY <1>3, <2>5 DEF Jobs
    <3>2. CASE lock.add = "groups"
      BY <2>5, <3>2 DEF Buried
    <3>3. CASE lock.add # "groups"
      <4>1. doc.deletedGroups = ReadDoc.deletedGroups
        BY <1>2, <2>5, <3>1, <3>3 DEF NewDoc, ClearSection, Sections, Docs
      <4>2. gg = ghost.goneGroups
        BY <2>5, <3>3 DEF Buried
      <4> QED BY <1>2, <1>4, <4>1, <4>2 DEF IInv, TombInv
    <3> QED BY <3>2, <3>3
  <2> QED BY <1>3, <2>1, <2>2, <2>3, <2>4, <2>5
<1>7. Target' = doc /\ Target = doc
  BY <1>1, <1>3 DEF Target, Free, Job, ReadDoc
<1> HIDE DEF doc, gh, gg
<1>8. ghost' = [ghost EXCEPT !.goneHooks = gh, !.goneGroups = gg]
  BY DEF gh, gg
<1>9. /\ ghost' \in Ghosts
      /\ ghost'.gen = ghost.gen /\ ghost'.bootGen = ghost.bootGen
      /\ ghost'.lost = ghost.lost /\ ghost'.breach = ghost.breach
      /\ ghost'.durable = ghost.durable
      /\ ghost'.goneHooks = gh /\ ghost'.goneGroups = gg
  BY <1>5, <1>6, <1>8 DEF IInv, TypeOK, Ghosts
<1>10. TypeOK'
  BY <1>1, <1>9, JobTypes DEF IInv, TypeOK
<1>11. VersionInv' /\ PushInv'
  BY <1>9, StillVersions
<1>12. DiskInv'
  BY <1>7, <1>9 DEF IInv, DiskInv, Up
<1>13. LiveInv'
  BY DEF IInv, LiveInv, Up, Free, Job
<1>14. TombInv'
  BY <1>1, <1>5, <1>6, <1>9 DEF TombInv
<1> QED BY <1>9, <1>10, <1>11, <1>12, <1>13, <1>14 DEF IInv, NoLostUpdate, NarrowStaysNarrow, DownInv, Up

\* When the disk is not known to be what is live, nothing is said of it.
LEMMA Undurable ==
    ASSUME IInv, ghost' = [ghost EXCEPT !.durable = FALSE]
    PROVE  /\ ghost' \in Ghosts
           /\ ghost'.gen = ghost.gen /\ ghost'.bootGen = ghost.bootGen
           /\ ghost'.lost = ghost.lost /\ ghost'.breach = ghost.breach
           /\ ghost'.goneHooks = ghost.goneHooks /\ ghost'.goneGroups = ghost.goneGroups
           /\ ~ ghost'.durable
<1> DEFINE no == FALSE
<1>1. ghost \in Ghosts /\ no \in BOOLEAN
  BY DEF IInv, TypeOK
<1>2. ghost' = [ghost EXCEPT !.durable = no] /\ ~ no
  OBVIOUS
<1> HIDE DEF no
<1> QED BY <1>1, <1>2 DEF Ghosts

\* persist: the section is written, or it is known that it was not.
LEMMA persist_Keeps ==
    ASSUME IInv, persist
    PROVE  IInv'
<1>1. CASE /\ NotWritten
           /\ ghost' = [ghost EXCEPT !.durable = FALSE]
           /\ lock' = Free
           /\ UNCHANGED <<live, file, log, saved, push, tag, restarts>>
  <2>1. faults' \in Nat /\ overlay' = overlay
    BY <1>1, NotWrittenKeeps
  <2>2. TypeOK'
    BY <1>1, <2>1, Undurable, JobTypes DEF IInv, TypeOK
  <2>3. VersionInv' /\ PushInv'
    BY <1>1, Undurable, StillVersions
  <2>4. DiskInv'
    BY <1>1, Undurable DEF DiskInv
  <2>5. LiveInv'
    BY <1>1 DEF IInv, LiveInv, Up, Free, Job
  <2>6. TombInv'
    BY <1>1, <2>1, Undurable DEF IInv, TombInv
  <2> QED BY <1>1, <2>2, <2>3, <2>4, <2>5, <2>6, Undurable
          DEF IInv, NoLostUpdate, NarrowStaysNarrow, DownInv, Up
<1> QED BY <1>1, WrittenKeeps DEF persist

\* A caller reads the ETag of the live snapshot.
LEMMA ReadTag_Keeps ==
    ASSUME IInv, ReadTag
    PROVE  IInv'
<1>1. live \in Apps /\ live.ver \in Nat /\ live.ver = ghost.gen - ghost.bootGen
  BY UpIsApp, AppFields DEF ReadTag, IInv, VersionInv
<1>2. ghost.gen \in Nat /\ ghost.bootGen \in Nat /\ ghost.bootGen =< ghost.gen
  BY DEF IInv, TypeOK, Ghosts, VersionInv
<1>3. /\ tag' = [ver |-> live.ver, gen |-> ghost.gen]
      /\ UNCHANGED <<live, file, overlay, log, saved, lock, push, restarts, faults, ghost>>
  BY DEF ReadTag
<1>4. TypeOK'
  BY <1>1, <1>2, <1>3 DEF IInv, TypeOK
<1>5. VersionInv'
  BY <1>1, <1>2, <1>3 DEF IInv, VersionInv, Up
<1>6. PushInv' /\ LiveInv' /\ TombInv'
  BY <1>3 DEF IInv, PushInv, LiveInv, TombInv, Up, Escalates
<1>7. DiskInv'
  <2>1. Target' = Target
    BY <1>3 DEF Target, NewDoc, ReadDoc, Persist, PersistGroups, PersistRoot
  <2> QED BY <1>3, <2>1 DEF IInv, DiskInv, Up
<1> QED BY <1>3, <1>4, <1>5, <1>6, <1>7 DEF IInv, NoLostUpdate, NarrowStaysNarrow, DownInv, Up

\* The operator edits the file, or the overlay becomes unreadable or readable.
LEMMA DiskChanges_Keep ==
    ASSUME IInv, EditFile \/ OverlayCorrupted \/ OverlayRepaired
    PROVE  IInv'
<1>1. /\ ghost' = [ghost EXCEPT !.durable = FALSE]
      /\ UNCHANGED <<live, log, saved, lock, push, tag, restarts>>
  BY DEF EditFile, OverlayCorrupted, OverlayRepaired
<1>2. file' \in Surfaces /\ faults' \in Nat
  BY ControlPlaneConstants DEF IInv, TypeOK, EditFile, OverlayCorrupted, OverlayRepaired
<1>3. /\ overlay' \in [st : {"absent", "ok", "corrupt"}, doc : Docs]
      /\ overlay'.doc = overlay.doc
      /\ overlay'.st = "absent" => overlay.st = "absent"
  BY DEF IInv, TypeOK, EditFile, OverlayCorrupted, OverlayRepaired
<1>4. TypeOK'
  BY <1>1, <1>2, <1>3, Undurable DEF IInv, TypeOK
<1>5. VersionInv' /\ PushInv'
  BY <1>1, Undurable, StillVersions
<1>6. DiskInv'
  BY <1>1, Undurable DEF DiskInv
<1>7. LiveInv'
  BY <1>1 DEF IInv, LiveInv, Up
<1>8. TombInv'
  BY <1>1, <1>3, Undurable DEF IInv, TombInv
<1> QED BY <1>1, <1>4, <1>5, <1>6, <1>7, <1>8, Undurable
        DEF IInv, NoLostUpdate, NarrowStaysNarrow, DownInv, Up

\* The state file is written.
LEMMA Snapshot_Keeps ==
    ASSUME IInv, Snapshot
    PROVE  IInv'
<1>1. /\ saved' = log
      /\ UNCHANGED <<live, file, overlay, log, lock, push, tag, restarts, faults, ghost>>
  BY DEF Snapshot
<1>2. TypeOK'
  BY <1>1 DEF IInv, TypeOK
<1>3. VersionInv' /\ PushInv'
  BY <1>1, StillVersions
<1>4. LiveInv' /\ TombInv'
  BY <1>1 DEF IInv, LiveInv, TombInv, Up
<1>5. DiskInv'
  <2>1. Target' = Target
    BY <1>1 DEF Target, NewDoc, ReadDoc, Persist, PersistGroups, PersistRoot
  <2> QED BY <1>1, <2>1 DEF IInv, DiskInv, Up
<1> QED BY <1>1, <1>2, <1>3, <1>4, <1>5 DEF IInv, NoLostUpdate, NarrowStaysNarrow, DownInv, Up

\* The process ends: nothing is live, and no push waits.
LEMMA Stop_Keeps ==
    ASSUME IInv, Stop
    PROVE  IInv'
<1>1. /\ live' = Down /\ log' = <<>> /\ lock' = Free
      /\ push' = [c \in HookCallers |-> NoPush]
      /\ UNCHANGED <<file, overlay, saved, tag, restarts, faults, ghost>>
  BY DEF Stop
<1>2. TypeOK'
  BY <1>1, JobTypes DEF IInv, TypeOK
<1>3. ~ Up'
  BY <1>1 DEF Up, Down
<1>4. VersionInv'
  BY <1>1, <1>3 DEF IInv, VersionInv
<1>5. PushInv' /\ DiskInv' /\ LiveInv'
  BY <1>1, <1>3 DEF PushInv, DiskInv, LiveInv
<1>6. TombInv'
  BY <1>1 DEF IInv, TombInv
<1> QED BY <1>1, <1>2, <1>4, <1>5, <1>6 DEF IInv, NoLostUpdate, NarrowStaysNarrow, DownInv, Up

\* A boot, in safe mode or not: version 0 of a new process.
LEMMA Boot_Keeps ==
    ASSUME IInv, NEW safe \in BOOLEAN, Boot(safe)
    PROVE  IInv'
<1> DEFINE doc == IF safe THEN EmptyDoc ELSE ReadDoc
           cfg == MergeInto(file, doc)
           next == BuildApp(cfg, file, 0)
           d == ~ safe
<1>1. /\ ~ Up /\ Buildable(cfg) /\ live' = next
      /\ \E kept \in {saved, <<>>} : log' = Record(kept, live')
      /\ restarts' = restarts + 1
      /\ ghost' = [ghost EXCEPT !.gen = ghost.gen + 1, !.bootGen = ghost.gen + 1, !.durable = d]
      /\ UNCHANGED <<file, overlay, saved, lock, push, tag, faults>>
  BY DEF Boot
<1>2. file \in Surfaces /\ doc \in Docs
  BY DiskTypes, EmptyDocType
<1>3. cfg \in Surfaces
  BY <1>2, MergeType
<1>4. next \in Apps /\ next.ver = 0 /\ next.st = "up"
  BY <1>2, <1>3, BuildAppType DEF BuildApp
<1>5. log' \in Seq(Versions)
  <2>1. saved \in Seq(Versions) /\ <<>> \in Seq(Versions)
    BY DEF IInv, TypeOK
  <2> QED BY <1>1, <1>4, <2>1, RecordType
<1>6. LiveInv'
  <2>1. lock = Free
    BY <1>1 DEF IInv, DownInv
  <2> QED BY <1>1, <2>1, BuiltLive DEF Free, Job
<1>7. DiskInv'
  <2>1. CASE safe
    <3>1. ~ ghost'.durable
      BY <1>1, <2>1 DEF IInv, TypeOK, Ghosts
    <3> QED BY <3>1 DEF DiskInv
  <2>2. CASE ~ safe
    <3>1. lock' = Free
      BY <1>1 DEF IInv, DownInv
    <3>2. live' = BuildApp(DiskSurface, file, 0)
      BY <1>1, <2>2 DEF DiskSurface
    <3> QED BY <1>1, <3>1, <3>2, RebuildDisk
  <2> QED BY <2>1, <2>2
<1> HIDE DEF d, next
<1>8. ghost \in Ghosts /\ d \in BOOLEAN /\ ghost.gen \in Nat /\ ghost.gen + 1 \in Nat
  BY DEF IInv, TypeOK, Ghosts, d
<1>9. /\ ghost'.gen = ghost.gen + 1 /\ ghost'.bootGen = ghost.gen + 1
      /\ ghost'.lost = ghost.lost /\ ghost'.breach = ghost.breach
      /\ ghost'.goneHooks = ghost.goneHooks /\ ghost'.goneGroups = ghost.goneGroups
      /\ ghost' \in Ghosts
  BY <1>1, <1>8 DEF Ghosts
<1>10. TypeOK'
  BY <1>1, <1>4, <1>5, <1>9 DEF IInv, TypeOK
<1>11. \A c \in HookCallers : push'[c] = NoPush
  BY <1>1 DEF IInv, VersionInv
<1>12. VersionInv'
  <2>1. tag.gen \in Nat /\ tag.gen =< ghost.gen
    BY DEF IInv, TypeOK, VersionInv
  <2> QED BY <1>1, <1>4, <1>8, <1>9, <1>11, <2>1 DEF VersionInv
<1>13. PushInv'
  BY <1>11 DEF PushInv
<1>14. TombInv'
  BY <1>1, <1>9 DEF IInv, TombInv
<1>15. DownInv'
  BY <1>1 DEF IInv, DownInv
<1> QED BY <1>6, <1>7, <1>9, <1>10, <1>12, <1>13, <1>14, <1>15
        DEF IInv, NoLostUpdate, NarrowStaysNarrow
-----------------------------------------------------------------------------
(* The invariant *)

\* The first boot.
LEMMA InitKeeps == Init => IInv
<1> SUFFICES ASSUME Init PROVE IInv
  OBVIOUS
<1> DEFINE cfg == MergeInto(file, EmptyDoc)
           app == BuildApp(cfg, file, 0)
<1>1. /\ file \in Surfaces /\ Buildable(cfg) /\ live = app
      /\ overlay = [st |-> "absent", doc |-> EmptyDoc]
      /\ log = Record(<<>>, app)
      /\ saved = <<>> /\ lock = Free
      /\ push = [c \in HookCallers |-> NoPush]
      /\ tag = [ver |-> 0, gen |-> 0]
      /\ restarts = 0 /\ faults = 0
  BY ControlPlaneConstants DEF Init
<1>2. /\ ghost \in Ghosts /\ ghost.gen = 0 /\ ghost.bootGen = 0
      /\ ~ ghost.lost /\ ~ ghost.breach
      /\ ghost.goneHooks = {} /\ ghost.goneGroups = {}
  BY DEF Init, Ghosts
<1>3. file \in Surfaces /\ EmptyDoc \in Docs
  BY <1>1, EmptyDocType, ControlPlaneConstants
<1>4. app \in Apps /\ app.ver = 0
  BY <1>3, MergeType, BuildAppType DEF BuildApp
<1>5. log \in Seq(Versions) /\ saved \in Seq(Versions)
  <2>1. <<>> \in Seq(Versions)
    OBVIOUS
  <2> QED BY <1>1, <1>4, <2>1, RecordType
<1>6. Agree(live, file, Target)
  <2>1. Target = EmptyDoc
    BY <1>1 DEF Target, Free, Job, ReadDoc
  <2> QED BY <1>1, <2>1, BuiltAgrees
<1>7. live.baseGroups = DOMAIN file.groups
  BY <1>1 DEF BuildApp
<1>8. live.globals \subseteq DOMAIN live.hooks
  BY <1>1 DEF BuildApp, Buildable, ValidHooks
<1> HIDE DEF app, cfg
<1>9. TypeOK
  BY <1>1, <1>2, <1>3, <1>4, <1>5, JobTypes DEF TypeOK
<1>10. VersionInv
  BY <1>1, <1>2, <1>4 DEF VersionInv
<1>11. PushInv
  BY <1>1 DEF PushInv
<1>12. DiskInv
  BY <1>6, <1>7 DEF DiskInv
<1>13. LiveInv
  BY <1>1, <1>8 DEF LiveInv, Free, Job
<1>14. TombInv
  BY <1>1, <1>2 DEF TombInv
<1>15. DownInv
  BY <1>1 DEF DownInv
<1> QED BY <1>2, <1>9, <1>10, <1>11, <1>12, <1>13, <1>14, <1>15
        DEF IInv, NoLostUpdate, NarrowStaysNarrow

\* Nothing happens.
LEMMA StutterKeeps ==
    ASSUME IInv, UNCHANGED vars
    PROVE  IInv'
<1>1. UNCHANGED <<live, file, overlay, log, saved, lock, push, tag, restarts, faults, ghost>>
  BY DEF vars
<1>2. Target' = Target
  BY <1>1 DEF Target, NewDoc, ReadDoc, Persist, PersistGroups, PersistRoot
<1>3. TypeOK' /\ LiveInv' /\ TombInv'
  BY <1>1 DEF IInv, TypeOK, LiveInv, TombInv, Up
<1>4. VersionInv' /\ PushInv'
  BY <1>1, StillVersions
<1>5. DiskInv'
  BY <1>1, <1>2 DEF IInv, DiskInv, Up
<1> QED BY <1>1, <1>3, <1>4, <1>5 DEF IInv, NoLostUpdate, NarrowStaysNarrow, DownInv, Up

\* What a principal of scope hooks-register may ask for.
LEMMA HookOpsKeep ==
    ASSUME IInv, NEW c \in HookCallers, HookOps(c)
    PROVE  IInv'
<1>1. HookCfgs \subseteq HookDefs
  BY ControlPlaneConstants
<1>2. ASSUME NEW cond \in BOOLEAN, NEW n \in Hooks, NEW cfg \in HookCfgs,
             register_hook(c, cond, n, cfg) \/ put_hook(c, cond, n, cfg)
      PROVE  IInv'
  BY <1>1, <1>2, register_hook_Keeps DEF put_hook
<1>3. ASSUME NEW cond \in BOOLEAN, NEW n \in Hooks, delete_hook(c, cond, n)
      PROVE  IInv'
  BY <1>3, delete_hook_Keeps
<1>4. ASSUME NEW cond \in BOOLEAN, NEW n \in Hooks, NEW s \in Settings,
             patch_hook_settings(c, cond, n, s)
      PROVE  IInv'
  BY <1>4, patch_hook_settings_Keeps
<1>5. CASE push_configure_fails(c)
  BY <1>5, push_configure_fails_Keeps
<1>6. CASE commit_hook_settings(c)
  BY <1>6, commit_hook_settings_Keeps
<1> QED BY <1>2, <1>3, <1>4, <1>5, <1>6 DEF HookOps

\* What needs scope full.
LEMMA FullOpsKeep ==
    ASSUME IInv, NEW c \in FullCallers, FullOps(c)
    PROVE  IInv'
<1>1. ASSUME NEW cond \in BOOLEAN, NEW i \in 1 .. KeptVersions, rollback_config(c, cond, i)
      PROVE  IInv'
  BY <1>1, rollback_config_Keeps
<1>2. ASSUME NEW cond \in BOOLEAN, NEW n \in Groups, NEW p \in Groups \cup {NoName},
             \/ register_group(c, cond, n, [parent |-> p])
             \/ put_group(c, cond, n, [parent |-> p])
             \/ patch_group(c, cond, n, p)
      PROVE  IInv'
  BY <1>2, GroupHandlersKeep
<1>3. ASSUME NEW cond \in BOOLEAN, NEW n \in Groups, delete_group(c, cond, n)
      PROVE  IInv'
  BY <1>3, delete_group_Keeps
<1>4. ASSUME NEW cond \in BOOLEAN, NEW body \in Bodies, apply_config(c, cond, body)
      PROVE  IInv'
  BY <1>4, apply_config_Keeps
<1>5. ASSUME NEW cond \in BOOLEAN,
             \/ put_config_settings(c, cond, 2)
             \/ rollback_plugin(c, cond, 1)
             \/ put_auth(c, cond)
      PROVE  IInv'
  BY <1>5, put_config_settings_Keeps, rollback_plugin_Keeps, put_auth_Keeps
<1>6. ASSUME NEW cond \in BOOLEAN, NEW s \in {"hooks", "groups", "root", "pins"},
             reset_overlay_section(c, cond, s)
      PROVE  IInv'
  BY <1>6, reset_overlay_section_Keeps DEF Sections
<1>7. CASE reload_config(c) \/ rebuild_pinned(c)
  BY <1>7, reload_config_Keeps DEF reload_config, rebuild_pinned, Enter
<1>8. CASE reload_plugins(c)
  BY <1>8, reload_plugins_Keeps
<1> QED BY <1>1, <1>2, <1>3, <1>4, <1>5, <1>6, <1>7, <1>8 DEF FullOps

\* Every step keeps the invariant.
LEMMA NextKeeps == IInv /\ [Next]_vars => IInv'
<1> SUFFICES ASSUME IInv, [Next]_vars PROVE IInv'
  OBVIOUS
<1>1. ASSUME NEW c \in HookCallers, HookOps(c) PROVE IInv'
  BY <1>1, HookOpsKeep
<1>2. ASSUME NEW c \in MintCallers \cup FullCallers, MintOps(c) PROVE IInv'
  BY <1>2, resolve_mint_group_Keeps DEF MintOps
<1>3. ASSUME NEW c \in FullCallers, FullOps(c) PROVE IInv'
  BY <1>3, FullOpsKeep
<1>4. CASE rebuild_fails \/ persist \/ ReadTag
  BY <1>4, rebuild_fails_Keeps, persist_Keeps, ReadTag_Keeps
<1>5. CASE EditFile \/ OverlayCorrupted \/ OverlayRepaired
  BY <1>5, DiskChanges_Keep
<1>6. CASE Snapshot \/ Stop
  BY <1>6, Snapshot_Keeps, Stop_Keeps
<1>7. ASSUME NEW safe \in BOOLEAN, Boot(safe) PROVE IInv'
  BY <1>7, Boot_Keeps
<1>8. CASE UNCHANGED vars
  BY <1>8, StutterKeeps
<1> QED BY <1>1, <1>2, <1>3, <1>4, <1>5, <1>6, <1>7, <1>8 DEF Next

\* When the lock is free, what the disk agrees with is what it has.
LEMMA DiskIsLiveHolds == IInv => DiskIsLive
<1> SUFFICES ASSUME IInv, Up, lock = Free, ghost.durable,
                    DOMAIN file.hooks \subseteq DOMAIN live.hooks,
                    file.globals \subseteq live.globals
             PROVE  DiskSurface = Surface(live)
  BY DEF DiskIsLive
<1>1. Target = ReadDoc
  BY DEF Target, Free, Job
<1>2. Agree(live, file, ReadDoc)
  BY <1>1 DEF IInv, DiskInv
<1>3. /\ DiskSurface.hooks = live.hooks /\ DiskSurface.globals = live.globals
      /\ DiskSurface.groups = live.groups /\ DiskSurface.root = live.root
      /\ DiskSurface.pins = live.pins
  BY <1>2 DEF Agree, DiskSurface
<1>4. DiskSurface = [hooks |-> DiskSurface.hooks, globals |-> DiskSurface.globals,
                     groups |-> DiskSurface.groups, root |-> DiskSurface.root,
                     pins |-> DiskSurface.pins]
  BY DEF DiskSurface, MergeInto
<1> QED BY <1>3, <1>4 DEF Surface

\* What is buried in a readable overlay is not in what is loaded from it.
LEMMA DeletedStaysDeletedHolds == IInv => DeletedStaysDeleted
<1> SUFFICES ASSUME IInv, overlay.st # "corrupt"
             PROVE  /\ ghost.goneHooks \cap DOMAIN DiskSurface.hooks = {}
                    /\ ghost.goneGroups \cap DOMAIN DiskSurface.groups = {}
  BY DEF DeletedStaysDeleted
<1>1. ReadDoc = overlay.doc
  BY ReadIsDoc DEF LoadForRmw
<1>2. /\ DOMAIN DiskSurface.hooks \cap ReadDoc.deleted = {}
      /\ DOMAIN DiskSurface.groups \cap ReadDoc.deletedGroups = {}
  BY DEF DiskSurface, MergeInto, Without
<1> QED BY <1>1, <1>2 DEF IInv, TombInv

\* The invariant holds throughout.
LEMMA Invariant == Spec => []IInv
BY InitKeeps, NextKeeps, PTL DEF Spec

-----------------------------------------------------------------------------
(* Theorems *)

\* The state of the config plane keeps its types: the snapshot, the overlay
\* document, the version log and the state file's copy of it, the work of the
\* holder of CONFIG_MUTATION_LOCK, and the pushes that wait for their commit.
THEOREM TypeCorrect == Spec => []TypeOK
<1>1. IInv => TypeOK
  BY DEF IInv
<1> QED BY <1>1, Invariant, PTL

\* No request that names a version, and no settings push, is ever applied over
\* a snapshot another caller installed since: stale_if_match and the version
\* check after the push acknowledgement are enough, across restarts and for
\* any number of callers.
THEOREM NoUpdateIsLost == Spec => []NoLostUpdate
<1>1. IInv => NoLostUpdate
  BY DEF IInv
<1> QED BY <1>1, Invariant, PTL

\* A caller of scope hooks-register never gains, changes or takes away a hook
\* that sees content, nor wires one, by any sequence of requests, although the
\* settings it pushes are checked before the lock is taken
\* (hooks_register_escalation, build_with_hook).
THEOREM NarrowCallersStayNarrow == Spec => []NarrowStaysNarrow
<1>1. IInv => NarrowStaysNarrow
  BY DEF IInv
<1> QED BY <1>1, Invariant, PTL

\* What a restart would load is what is live, wherever nothing is known to
\* stand between them, and what was deleted stays deleted (persist_overlay,
\* load_for_rmw, merge_into and the tombstones).
THEOREM RestartsAreFaithful == Spec => []RestartIsFaithful
<1>1. IInv => RestartIsFaithful
  BY DiskIsLiveHolds, DeletedStaysDeletedHolds DEF RestartIsFaithful
<1> QED BY <1>1, Invariant, PTL
=============================================================================
