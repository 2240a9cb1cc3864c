---------------------------- MODULE ControlPlane ----------------------------
(***************************************************************************)
(* The configuration plane of the admin API: the live application snapshot *)
(* and its version, the config file, the overlay that keeps what the API   *)
(* changed, the version log, the state file, and the handlers that change  *)
(* them under CONFIG_MUTATION_LOCK.                                        *)
(*                                                                         *)
(* A handler loads the live snapshot, checks, builds the next snapshot,    *)
(* swaps it in, records the version and writes one section of the overlay, *)
(* all under the lock.  The first five are one action here: nothing they   *)
(* do can be observed half done, since a reader loads one whole snapshot.  *)
(* The overlay write is an action of its own, made while the lock is held: *)
(* the process can die before it, and it can fail.  Two handlers do more.  *)
(* patch_hook_settings checks and pushes the settings to the hook before   *)
(* it takes the lock, and commits after it; rollback_plugin writes the     *)
(* overlay before it rebuilds.                                             *)
(*                                                                         *)
(* A refused request changes nothing here: the conditions of a refusal are *)
(* the guards of its action, in the order of the code.                     *)
(*                                                                         *)
(* A hook definition is its grants (kind, prompt, user: blind or seeing),  *)
(* its global and default flags and its settings.  Whether a hook fires on *)
(* every request is a list apart, the global wiring.  A group is its       *)
(* parent; the root section is one setting; the plugin pins are one floor. *)
(***************************************************************************)
EXTENDS Integers, Sequences, FiniteSets

CONSTANTS
    Hooks,          \* names of hooks
    Groups,         \* names of groups
    HookCfgs,       \* hook definitions a caller may send
    Settings,       \* settings maps a caller may push
    Files,          \* contents config.yaml may be edited to
    FirstFile,      \* what it has at the first boot
    Bodies,         \* whole configurations a caller may apply
    FullCallers,    \* principals of scope full
    NarrowCallers,  \* principals of scope hooks-register
    MintCallers,    \* principals of scope mint
    KeptVersions,   \* MAX_VERSIONS
    MaxSwaps,       \* bound: snapshots installed, over all processes
    MaxRestarts,    \* bound: restarts
    MaxFaults       \* bound: failed or corrupting writes, failed rebuilds

HookCallers == FullCallers \cup NarrowCallers
NoName == "-"
Empty == [n \in {} |-> NoName]
Down == [st |-> "down"]

\* Definitions, maps of them by name, and configurations.
HookDefs ==
    [grants : {"blind", "seeing"}, global : BOOLEAN, default : BOOLEAN, set : Settings \cup {0}]
GroupDefs == [parent : Groups \cup {NoName}]
Maps(names, defs) == UNION {[some -> defs] : some \in SUBSET names}
HookMaps == Maps(Hooks, HookDefs)
GroupMaps == Maps(Groups, GroupDefs)
\* (Pins are written by a rollback, to the overlay: MergeInto does not read a file's.)
Surfaces ==
    [hooks : HookMaps, globals : SUBSET Hooks, groups : GroupMaps, root : Nat, pins : Nat]

ASSUME ControlPlaneConstants ==
    /\ NoName \notin Hooks \cup Groups
    /\ HookCfgs \subseteq HookDefs
    /\ Files \subseteq Surfaces /\ Bodies \subseteq Surfaces
    /\ FullCallers \cap (NarrowCallers \cup MintCallers) = {}
    /\ FirstFile \in Surfaces
    /\ KeptVersions \in Nat \ {0} /\ MaxSwaps \in Nat
    /\ MaxRestarts \in Nat /\ MaxFaults \in Nat

VARIABLES
    live,     \* the AppHandle's current snapshot, or Down
    file,     \* config.yaml, resolved
    overlay,  \* the overlay document and whether the file can be read
    log,      \* the version log, oldest first
    saved,    \* the version log in the state file
    lock,     \* what the holder of the lock still has to do
    push,     \* per caller, the settings push that waits for its commit
    tag,      \* an ETag some caller was given, and may send as If-Match
    restarts, \* boots after the first one
    faults,   \* failures so far
    ghost     \* history variables of the properties

vars == <<live, file, overlay, log, saved, lock, push, tag, restarts, faults, ghost>>

Up == live.st = "up"

\* The work left to the holder of the lock: a section to write, the tombstone
\* to add and the one to clear, and the pins to go back to.
Job(sect, add, rem, pins) == [sect |-> sect, add |-> add, rem |-> rem, pins |-> pins]
Free == Job("free", NoName, NoName, 0)
NoPush == [name |-> NoName]

\* One entry put under a name, some names taken out, and the union of two maps
\* in which the first wins: HashMap insert, remove and extend.
Put(f, n, v) == [x \in DOMAIN f \cup {n} |-> IF x = n THEN v ELSE f[x]]
Without(f, S) == [x \in DOMAIN f \ S |-> f[x]]
Over(f, g) == [x \in DOMAIN f \cup DOMAIN g |-> IF x \in DOMAIN f THEN f[x] ELSE g[x]]
Named(n) == {n} \ {NoName}
-----------------------------------------------------------------------------
(***************************************************************************)
(* The overlay document.                                                   *)
(***************************************************************************)

EmptyDoc ==
    [hooks |-> Empty, globals |-> {}, deleted |-> {}, groups |-> Empty,
     deletedGroups |-> {}, root |-> 0, pins |-> 0]

\* read: an absent or unreadable overlay reads as no overlay.
ReadDoc == IF overlay.st = "ok" THEN overlay.doc ELSE EmptyDoc

\* load_for_rmw: a write starts from what was read, and an unreadable overlay
\* refuses it.
LoadForRmw == overlay.st # "corrupt"

\* The tombstones after a write: add one, clear one, and none for a name that
\* is present.
Untombstone(dead, add, rem, present) == ((dead \cup Named(add)) \ {rem}) \ present

\* persist: the whole hook registry and its wiring, one tombstone added or
\* cleared, and no tombstone left for a name that is present.
Persist_KeepsTombstones(doc, add, rem) ==
    [doc EXCEPT !.hooks = live.hooks, !.globals = live.globals,
                !.deleted = (doc.deleted \cup Named(add)) \ {rem}]
Persist(doc, add, rem) ==
    [doc EXCEPT !.hooks = live.hooks, !.globals = live.globals,
                !.deleted = Untombstone(doc.deleted, add, rem, DOMAIN live.hooks)]

PersistGroups(doc, add, rem) ==
    [doc EXCEPT !.groups = live.groups,
                !.deletedGroups = Untombstone(doc.deletedGroups, add, rem, DOMAIN live.groups)]

\* persist_root: what was merged for the snapshot that is live now.
PersistRoot(doc) == [doc EXCEPT !.root = live.root]

persist_plugin_versions(doc, pins) == [doc EXCEPT !.pins = pins]

ClearSection(doc, s) ==
    CASE s = "hooks"  -> [doc EXCEPT !.hooks = Empty, !.globals = {}, !.deleted = {}]
      [] s = "groups" -> [doc EXCEPT !.groups = Empty, !.deletedGroups = {}]
      [] s = "root"   -> [doc EXCEPT !.root = 0]
      [] s = "pins"   -> [doc EXCEPT !.pins = 0]

SectionIsEmpty(doc, s) == ClearSection(doc, s) = doc

\* merge_into, after the root section and the pins were applied to the file:
\* an overlay entry wins over the file's, the wirings are united, and a
\* tombstone wins over all of them.
MergeInto(cfg, doc) ==
    [hooks   |-> Without(Over(doc.hooks, cfg.hooks), doc.deleted),
     globals |-> (cfg.globals \cup doc.globals) \ doc.deleted,
     groups  |-> Without(Over(doc.groups, cfg.groups), doc.deletedGroups),
     root    |-> IF doc.root # 0 THEN doc.root ELSE cfg.root,
     pins    |-> doc.pins]
-----------------------------------------------------------------------------
(***************************************************************************)
(* Snapshots.                                                              *)
(***************************************************************************)

Ancestors(groups, g) ==
    LET up[i \in 0 .. Cardinality(Groups)] ==
            IF i = 0 THEN {g}
            ELSE up[i - 1] \cup {groups[x].parent : x \in up[i - 1] \cap DOMAIN groups}
    IN  up[Cardinality(Groups)]

\* validate_groups: every parent exists and no chain of parents is a cycle.
ValidGroups(groups) ==
    \A g \in DOMAIN groups :
        LET p == groups[g].parent
        IN  p # NoName => p \in DOMAIN groups /\ g \notin Ancestors(groups, p)

\* The wiring names hooks that there are, and one hook at most is the default.
ValidHooks(hooks, globals) ==
    /\ globals \subseteq DOMAIN hooks
    /\ \A m, n \in DOMAIN hooks : hooks[m].default /\ hooks[n].default => m = n

Surface(app) ==
    [hooks |-> app.hooks, globals |-> app.globals, groups |-> app.groups, root |-> app.root,
     pins |-> app.pins]

\* build_app_from_config: a whole new application, of a valid configuration
\* only; base is the configuration before the overlay was merged.
BuildApp(cfg, base, ver) ==
    [st |-> "up", ver |-> ver, hooks |-> cfg.hooks, globals |-> cfg.globals,
     groups |-> cfg.groups, root |-> cfg.root, pins |-> cfg.pins,
     baseHooks |-> DOMAIN base.hooks, baseGroups |-> DOMAIN base.groups]

Buildable(cfg) == ValidGroups(cfg.groups) /\ ValidHooks(cfg.hooks, cfg.globals)

\* rebuild_app_from_disk: the file with the overlay as it is read now.
DiskSurface == MergeInto(file, ReadDoc)

\* build_with_hook refuses a change of grants, and of nothing else.  The next
\* snapshot has the definition under its name, wired if it says global and
\* unwired if it does not.
SameGrants(name, cfg) == name \in DOMAIN live.hooks => live.hooks[name].grants = cfg.grants
WithHook(name, cfg) ==
    [live EXCEPT !.ver = live.ver + 1, !.hooks = Put(live.hooks, name, cfg),
                 !.globals = IF cfg.global THEN live.globals \cup {name}
                             ELSE live.globals \ {name}]
WithoutHook(name) ==
    [live EXCEPT !.ver = live.ver + 1, !.hooks = Without(live.hooks, {name}),
                 !.globals = live.globals \ {name}]

WithGroup(name, cfg) == [live EXCEPT !.ver = live.ver + 1, !.groups = Put(live.groups, name, cfg)]
WithoutGroup(name) == [live EXCEPT !.ver = live.ver + 1, !.groups = Without(live.groups, {name})]

\* build_with_registry: the hook surface of a recorded version, checked again.
WithRegistry_KeepsVersion(v) == [live EXCEPT !.hooks = v.hooks, !.globals = v.globals]
WithRegistry(v) ==
    [live EXCEPT !.ver = live.ver + 1, !.hooks = v.hooks, !.globals = v.globals]
-----------------------------------------------------------------------------
(***************************************************************************)
(* What the handlers share.                                                *)
(***************************************************************************)

Sees(cfg) == cfg.grants = "seeing"

\* hooks_register_escalation: a narrow principal may not handle a definition
\* that sees content or says global.
Escalates(c, cfg) == c \in NarrowCallers /\ (cfg.global \/ Sees(cfg))

\* stale_if_match.  cond: the caller sent the ETag it holds as If-Match.
Stale(cond) == cond /\ tag.ver # live.ver

\* VersionLog::record: the entry of the same number, of which there is one at
\* most, goes, and so does the oldest when there are too many.
Removed(q, i) == [j \in 1 .. Len(q) - 1 |-> IF j < i THEN q[j] ELSE q[j + 1]]
Record(q, app) ==
    LET same == {i \in DOMAIN q : q[i].ver = app.ver}
        rest == IF same = {} THEN q ELSE Removed(q, CHOOSE i \in same : TRUE)
        kept == IF Len(rest) >= KeptVersions THEN Tail(rest) ELSE rest
    IN  Append(kept, [ver |-> app.ver, hooks |-> app.hooks, globals |-> app.globals])

\* A swap that was asked for on the strength of an earlier snapshot of this
\* process (the ETag's, or the one the settings were pushed against), after
\* another one was installed.
Overwrites(from, named) == named /\ from.gen >= ghost.bootGen /\ from.gen # ghost.gen

\* A narrow caller's swap that makes, changes, unwires or removes a hook that
\* sees content, or that wires a hook.
Breaches(c, next) ==
    /\ c \in NarrowCallers
    /\ \/ \E n \in DOMAIN live.hooks :
            /\ Sees(live.hooks[n])
            /\ \/ n \notin DOMAIN next.hooks
               \/ next.hooks[n] # live.hooks[n]
               \/ n \in live.globals /\ n \notin next.globals
       \/ \E n \in DOMAIN next.hooks :
            Sees(next.hooks[n]) /\ (n \in DOMAIN live.hooks => ~ Sees(live.hooks[n]))
       \/ ~ (next.globals \subseteq live.globals)

Swapped(c, next, from, named, durable) ==
    [ghost EXCEPT !.gen = ghost.gen + 1,
                  !.lost = ghost.lost \/ Overwrites(from, named),
                  !.breach = ghost.breach \/ Breaches(c, next),
                  !.durable = durable]

\* handle.swap and versions.record.
Install(next, job) ==
    /\ live' = next
    /\ log' = Record(log, next)
    /\ lock' = job

\* A handler takes the lock.  (No more requests once the bound is reached.)
Enter == Up /\ lock = Free /\ ghost.gen < MaxSwaps

\* The swap of a handler that checked the caller's ETag.  durable: what a
\* restart would load is again what is live, once the lock is released.
Apply(c, cond, next, job, durable) ==
    /\ Install(next, job)
    /\ ghost' = Swapped(c, next, tag, cond, durable)
    /\ UNCHANGED <<file, overlay, saved, push, tag, restarts, faults>>

HookJob(add, rem) == Job("hooks", add, rem, 0)
GroupJob(add, rem) == Job("groups", add, rem, 0)
-----------------------------------------------------------------------------
(***************************************************************************)
(* Hooks.                                                                  *)
(***************************************************************************)

register_hook(c, cond, n, cfg) ==
    /\ Enter
    /\ ~ Escalates(c, cfg)
    /\ n \notin live.baseHooks
    /\ ~ Stale(cond)
    /\ SameGrants(n, cfg)
    /\ Apply(c, cond, WithHook(n, cfg), HookJob(NoName, n), ghost.durable)

put_hook(c, cond, n, cfg) ==
    /\ Enter
    /\ ~ Escalates(c, cfg)
    /\ n \in DOMAIN live.hooks
    /\ n \notin live.baseHooks
    /\ ~ Stale(cond)
    /\ SameGrants(n, cfg)
    /\ Apply(c, cond, WithHook(n, cfg), HookJob(NoName, n), ghost.durable)

delete_hook_NoEscalation(c, cond, n) ==
    /\ Enter
    /\ n \in DOMAIN live.hooks
    /\ ~ Stale(cond)
    /\ n \notin live.baseHooks
    /\ Apply(c, cond, WithoutHook(n), HookJob(n, NoName), ghost.durable)
delete_hook(c, cond, n) ==
    /\ Enter
    /\ n \in DOMAIN live.hooks
    /\ ~ Stale(cond)
    /\ ~ Escalates(c, live.hooks[n])
    /\ n \notin live.baseHooks
    /\ Apply(c, cond, WithoutHook(n), HookJob(n, NoName), ghost.durable)

\* patch_hook_settings up to the push: checked without the lock, against the
\* snapshot the push is made for.  (One push of a caller at a time.)
patch_hook_settings(c, cond, n, s) ==
    /\ Up /\ push[c] = NoPush /\ ghost.gen < MaxSwaps
    /\ n \in DOMAIN live.hooks
    /\ ~ Escalates(c, live.hooks[n])
    /\ n \notin live.baseHooks
    /\ ~ Stale(cond)
    /\ push' = [push EXCEPT ![c] =
                    [name |-> n, cfg |-> [live.hooks[n] EXCEPT !.set = s],
                     pre |-> live.ver, gen |-> ghost.gen]]
    /\ UNCHANGED <<live, file, overlay, log, saved, lock, tag, restarts, faults, ghost>>

\* The acknowledgement arrived and the lock was taken: the version must be the
\* one the push was made for.
Committable(p) == live.ver = p.pre
commit_hook_settings(c) ==
    LET p == push[c]
    IN  /\ p # NoPush /\ Enter
        /\ Committable(p) /\ SameGrants(p.name, p.cfg)
        /\ push' = [push EXCEPT ![c] = NoPush]
        /\ Install(WithHook(p.name, p.cfg), HookJob(NoName, p.name))
        /\ ghost' = Swapped(c, WithHook(p.name, p.cfg), p, TRUE, ghost.durable)
        /\ UNCHANGED <<file, overlay, saved, tag, restarts, faults>>

\* The hook refused the settings or did not acknowledge them in time, or the
\* configuration moved meanwhile.
push_configure_fails(c) ==
    /\ Up /\ push[c] # NoPush
    /\ push' = [push EXCEPT ![c] = NoPush]
    /\ UNCHANGED <<live, file, overlay, log, saved, lock, tag, restarts, faults, ghost>>

\* A version that is in the log, the first of its number, as VersionLog::get.
rollback_config(c, cond, i) ==
    /\ Enter
    /\ ~ Stale(cond)
    /\ i \in DOMAIN log
    /\ ValidHooks(log[i].hooks, log[i].globals)
    /\ Apply(c, cond, WithRegistry(log[i]), HookJob(NoName, NoName), ghost.durable)
-----------------------------------------------------------------------------
(***************************************************************************)
(* Groups.                                                                 *)
(***************************************************************************)

ApplyGroup(c, cond, n, cfg) ==
    /\ ValidGroups(WithGroup(n, cfg).groups)
    /\ Apply(c, cond, WithGroup(n, cfg), GroupJob(NoName, n), ghost.durable)

register_group(c, cond, n, cfg) ==
    /\ Enter
    /\ n \notin live.baseGroups
    /\ ~ Stale(cond)
    /\ ApplyGroup(c, cond, n, cfg)

put_group(c, cond, n, cfg) ==
    /\ Enter
    /\ n \in DOMAIN live.groups
    /\ n \notin live.baseGroups
    /\ ~ Stale(cond)
    /\ ApplyGroup(c, cond, n, cfg)

\* merge_group_patch: a parent that is not given stays.
merge_group_patch(cfg, parent) == IF parent = NoName THEN cfg ELSE [cfg EXCEPT !.parent = parent]

patch_group(c, cond, n, parent) ==
    /\ Enter
    /\ n \in DOMAIN live.groups
    /\ n \notin live.baseGroups
    /\ ~ Stale(cond)
    /\ ApplyGroup(c, cond, n, merge_group_patch(live.groups[n], parent))

delete_group(c, cond, n) ==
    /\ Enter
    /\ n \in DOMAIN live.groups
    /\ ~ Stale(cond)
    /\ n \notin live.baseGroups
    /\ ValidGroups(WithoutGroup(n).groups)
    /\ Apply(c, cond, WithoutGroup(n), GroupJob(n, NoName), ghost.durable)

\* resolve_mint_group: a key mint names a group and, to have it made, its
\* parent.  A group that is there is bound as it is.
resolve_mint_group(c, n, parent) ==
    /\ Enter
    /\ n \notin DOMAIN live.groups
    /\ parent \in DOMAIN live.groups
    /\ n \notin live.baseGroups
    /\ ApplyGroup(c, FALSE, n, [parent |-> parent])
-----------------------------------------------------------------------------
(***************************************************************************)
(* Whole configurations.                                                   *)
(***************************************************************************)

\* reload_config and reload_plugins rebuild from the disk; the second records
\* no version.
reload_config(c) ==
    /\ Enter
    /\ Buildable(DiskSurface)
    /\ Apply(c, FALSE, BuildApp(DiskSurface, file, live.ver + 1), Free, TRUE)

reload_plugins(c) ==
    /\ Enter
    /\ Buildable(DiskSurface)
    /\ live' = BuildApp(DiskSurface, file, live.ver + 1)
    /\ ghost' = Swapped(c, live', tag, FALSE, TRUE)
    /\ UNCHANGED <<file, overlay, log, saved, lock, push, tag, restarts, faults>>

\* apply_config: the body, without the overlay, until the next reload.
apply_config(c, cond, body) ==
    /\ Enter
    /\ ~ Stale(cond)
    /\ Buildable(body)
    /\ Apply(c, cond, BuildApp(body, body, live.ver + 1), Free, FALSE)

\* put_config_settings: the disk again, with the root section the caller sent
\* merged onto the overlay's; the plugin pins are not applied to this build.
put_config_settings(c, cond, r) ==
    LET cfg == [DiskSurface EXCEPT !.root = r, !.pins = 0]
    IN  /\ Enter
        /\ ~ Stale(cond)
        /\ Buildable(cfg)
        /\ Apply(c, cond, BuildApp(cfg, file, live.ver + 1), Job("root", NoName, NoName, 0),
                 ReadDoc.pins = 0)

\* reset_overlay_section: a section without entries is left alone; otherwise
\* the disk again with the section cleared.
reset_overlay_section(c, cond, s) ==
    LET cfg == MergeInto(file, ClearSection(ReadDoc, s))
    IN  /\ Enter
        /\ ~ Stale(cond)
        /\ ~ SectionIsEmpty(ReadDoc, s)
        /\ Buildable(cfg)
        /\ Apply(c, cond, BuildApp(cfg, file, live.ver + 1), Job("clear", s, NoName, 0), TRUE)

\* put_auth: the admin chain of the live snapshot only, refused if it would not
\* give this caller full scope.  The scope of each caller is a constant here, so
\* the chain itself is not kept.  The empty chain, which the code installs with
\* a warning, gives everyone full scope and is left out.
put_auth(c, cond) ==
    /\ Enter
    /\ ~ Stale(cond)
    /\ Apply(c, cond, [live EXCEPT !.ver = live.ver + 1], Free, ghost.durable)

\* The write of the overlay, by a temporary file and a rename.  It is refused
\* over an unreadable overlay and may fail; both are logged and forgotten.
Written(doc) ==
    /\ LoadForRmw
    /\ overlay' = [st |-> "ok", doc |-> doc]
    /\ UNCHANGED faults
NotWritten ==
    /\ IF LoadForRmw THEN faults < MaxFaults /\ faults' = faults + 1 ELSE UNCHANGED faults
    /\ UNCHANGED overlay

\* rollback_plugin: the pin is written before the rebuild that needs it, over
\* the prior pins, which the holder of the lock remembers.  (A target that is
\* not there or not trusted is refused.)
rollback_plugin(c, cond, pin) ==
    /\ Enter
    /\ ~ Stale(cond)
    /\ Written(persist_plugin_versions(ReadDoc, pin)) \/ NotWritten
    /\ lock' = Job("pins", NoName, NoName, ReadDoc.pins)
    /\ ghost' = [ghost EXCEPT !.lost = ghost.lost \/ Overwrites(tag, cond)]
    /\ UNCHANGED <<live, file, log, saved, push, tag, restarts>>

\* The rebuild finds the pin in the overlay, if it was written.
rebuild_pinned(c) ==
    /\ Up /\ lock.sect = "pins"
    /\ Buildable(DiskSurface)
    /\ Apply(c, FALSE, BuildApp(DiskSurface, file, live.ver + 1), Free, TRUE)

\* It fails, and the prior pins are to be written back.
PinsAfterFailure == Job("unpin", NoName, NoName, lock.pins)
rebuild_fails ==
    /\ Up /\ lock.sect = "pins"
    /\ Buildable(DiskSurface) => faults < MaxFaults
    /\ faults' = IF Buildable(DiskSurface) THEN faults + 1 ELSE faults
    /\ lock' = PinsAfterFailure
    /\ UNCHANGED <<live, file, overlay, log, saved, push, tag, restarts, ghost>>
-----------------------------------------------------------------------------
(***************************************************************************)
(* The overlay write, the readers, the disk and the process.               *)
(***************************************************************************)

\* The section the holder of the lock has to write.
NewDoc(job) ==
    CASE job.sect = "hooks"  -> Persist(ReadDoc, job.add, job.rem)
      [] job.sect = "groups" -> PersistGroups(ReadDoc, job.add, job.rem)
      [] job.sect = "root"   -> PersistRoot(ReadDoc)
      [] job.sect = "clear"  -> ClearSection(ReadDoc, job.add)
      [] job.sect = "unpin"  -> persist_plugin_versions(ReadDoc, job.pins)

\* What was deleted through the API, durably, and not made durable again.
Buried(gone, job, sect, present) ==
    CASE job.sect = sect -> (gone \cup Named(job.add)) \ present
      [] job.sect = "clear" /\ job.add = sect -> {}
      [] OTHER -> gone

\* The holder of the lock writes its section, releases the lock and answers.
persist ==
    /\ Up /\ lock # Free /\ lock.sect # "pins"
    /\ lock' = Free
    /\ \/ /\ Written(NewDoc(lock))
          /\ ghost' = [ghost EXCEPT
                !.goneHooks = Buried(ghost.goneHooks, lock, "hooks", DOMAIN live.hooks),
                !.goneGroups = Buried(ghost.goneGroups, lock, "groups", DOMAIN live.groups)]
       \/ /\ NotWritten
          /\ ghost' = [ghost EXCEPT !.durable = FALSE]
    /\ UNCHANGED <<live, file, log, saved, push, tag, restarts>>

\* A read of the config plane, and the answer of a mutation, carries the ETag
\* of the live snapshot.  (It commutes with what the holder of the lock has
\* left to do, as does an edit of the file: neither is taken in between.)
ReadTag ==
    /\ Up /\ lock = Free
    /\ tag' = [ver |-> live.ver, gen |-> ghost.gen]
    /\ UNCHANGED <<live, file, overlay, log, saved, lock, push, restarts, faults, ghost>>

\* The operator edits the file, or repairs the overlay that a disk fault made
\* unreadable.
EditFile ==
    /\ lock = Free
    /\ file' \in Files \ {file}
    /\ ghost' = [ghost EXCEPT !.durable = FALSE]
    /\ UNCHANGED <<live, overlay, log, saved, lock, push, tag, restarts, faults>>

OverlayCorrupted ==
    /\ overlay.st = "ok" /\ faults < MaxFaults
    /\ overlay' = [overlay EXCEPT !.st = "corrupt"]
    /\ faults' = faults + 1
    /\ ghost' = [ghost EXCEPT !.durable = FALSE]
    /\ UNCHANGED <<live, file, log, saved, lock, push, tag, restarts>>

OverlayRepaired ==
    /\ overlay.st = "corrupt"
    /\ overlay' = [overlay EXCEPT !.st = "ok"]
    /\ ghost' = [ghost EXCEPT !.durable = FALSE]
    /\ UNCHANGED <<live, file, log, saved, lock, push, tag, restarts, faults>>

\* A tick of spawn_snapshotter, or the last snapshot of a graceful stop.  (Of
\* use only to a process that is to be restarted.)
Snapshot ==
    /\ Up /\ saved # log /\ restarts < MaxRestarts
    /\ saved' = log
    /\ UNCHANGED <<live, file, overlay, log, lock, push, tag, restarts, faults, ghost>>

\* The process ends at any point, and what it had not written is gone.
Stop ==
    /\ Up /\ restarts < MaxRestarts
    /\ live' = Down /\ log' = <<>> /\ lock' = Free
    /\ push' = [c \in HookCallers |-> NoPush]
    /\ UNCHANGED <<file, overlay, saved, tag, restarts, faults, ghost>>

\* run: the file with the overlay, or without it in safe mode, as version 0,
\* and the saved log with that version recorded on top of it.  A state file
\* that is too old or cannot be read is none.  An invalid configuration does
\* not boot.
Boot(safe) ==
    LET cfg == MergeInto(file, IF safe THEN EmptyDoc ELSE ReadDoc)
    IN  /\ ~ Up
        /\ Buildable(cfg)
        /\ live' = BuildApp(cfg, file, 0)
        /\ \E kept \in {saved, <<>>} : log' = Record(kept, live')
        /\ restarts' = restarts + 1
        /\ ghost' = [ghost EXCEPT !.gen = ghost.gen + 1, !.bootGen = ghost.gen + 1,
                                  !.durable = ~ safe]
        /\ UNCHANGED <<file, overlay, saved, lock, push, tag, faults>>

\* The first boot: the file alone, which is valid.
Init ==
    /\ file = FirstFile /\ Buildable(MergeInto(file, EmptyDoc))
    /\ overlay = [st |-> "absent", doc |-> EmptyDoc]
    /\ live = BuildApp(MergeInto(file, EmptyDoc), file, 0)
    /\ log = Record(<<>>, live)
    /\ saved = <<>> /\ lock = Free
    /\ push = [c \in HookCallers |-> NoPush]
    /\ tag = [ver |-> 0, gen |-> 0]
    /\ restarts = 0 /\ faults = 0
    /\ ghost = [gen |-> 0, bootGen |-> 0, lost |-> FALSE, breach |-> FALSE,
                durable |-> TRUE, goneHooks |-> {}, goneGroups |-> {}]

\* What a principal of scope hooks-register may ask for.
HookOps(c) ==
    \/ \E cond \in BOOLEAN, n \in Hooks :
        \/ \E cfg \in HookCfgs : register_hook(c, cond, n, cfg) \/ put_hook(c, cond, n, cfg)
        \/ delete_hook(c, cond, n)
        \/ \E s \in Settings : patch_hook_settings(c, cond, n, s)
    \/ push_configure_fails(c)
    \/ commit_hook_settings(c)

\* What a principal of scope mint may.
MintOps(c) == \E n \in Groups, p \in Groups : resolve_mint_group(c, n, p)

\* What needs scope full.
FullOps(c) ==
    \/ \E cond \in BOOLEAN :
        \/ \E i \in 1 .. KeptVersions : rollback_config(c, cond, i)
        \/ \E n \in Groups, p \in Groups \cup {NoName} :
            \/ register_group(c, cond, n, [parent |-> p])
            \/ put_group(c, cond, n, [parent |-> p])
            \/ patch_group(c, cond, n, p)
        \/ \E n \in Groups : delete_group(c, cond, n)
        \/ \E body \in Bodies : apply_config(c, cond, body)
        \/ put_config_settings(c, cond, 2)
        \/ \E s \in {"hooks", "groups", "root", "pins"} : reset_overlay_section(c, cond, s)
        \/ rollback_plugin(c, cond, 1)
        \/ put_auth(c, cond)
    \/ reload_config(c) \/ reload_plugins(c) \/ rebuild_pinned(c)

Next ==
    \/ \E c \in HookCallers : HookOps(c)
    \/ \E c \in MintCallers \cup FullCallers : MintOps(c)
    \/ \E c \in FullCallers : FullOps(c)
    \/ rebuild_fails \/ persist \/ ReadTag \/ EditFile \/ OverlayCorrupted \/ OverlayRepaired
    \/ Snapshot \/ Stop \/ \E safe \in BOOLEAN : Boot(safe)

Spec == Init /\ [][Next]_vars
-----------------------------------------------------------------------------
(***************************************************************************)
(* Properties.                                                             *)
(***************************************************************************)

\* No update is lost: a request that named the version it had read from this
\* process, or a settings push that was made for one, is applied to that very
\* snapshot and never over one another caller installed since (stale_if_match,
\* and the version check of patch_hook_settings after the acknowledgement).
NoLostUpdate == ~ ghost.lost

\* A caller of scope hooks-register never makes, changes, unwires or removes a
\* hook that sees content, and never wires one to every request, by any
\* sequence of the requests it may make (hooks_register_escalation, and the
\* grants build_with_hook keeps).
NarrowStaysNarrow == ~ ghost.breach

\* What a restart would load is what is live, whenever the lock is free and
\* nothing is known to stand between the two: no write failed, no file was
\* edited, no body was applied since the surface last came from the disk, and
\* no rollback took out, or unwired, a hook that the file defines.
DiskIsLive ==
    Up /\ lock = Free /\ ghost.durable /\ DOMAIN file.hooks \subseteq DOMAIN live.hooks
            /\ file.globals \subseteq live.globals
        => DiskSurface = Surface(live)

\* A hook or group that was deleted through the API, and not put back through
\* it, is in nothing that a restart or a reload could load from a readable
\* overlay, even when the file has come to define it (the tombstones).
DeletedStaysDeleted ==
    overlay.st # "corrupt" =>
        /\ ghost.goneHooks \cap DOMAIN DiskSurface.hooks = {}
        /\ ghost.goneGroups \cap DOMAIN DiskSurface.groups = {}

\* A restart resumes with what the API last answered for: what is live is on
\* the disk, and what was deleted is not (persist_overlay, load_for_rmw and the
\* tombstones).
RestartIsFaithful == DiskIsLive /\ DeletedStaysDeleted
=============================================================================
