------------------------------ MODULE Plugins ------------------------------
(***************************************************************************)
(* Plugins: what a tarball in the plugins directory must be to be loaded,  *)
(* and what a name in the configuration then resolves to.  One pipeline    *)
(* serves boot, reload, the --validate command and the admin API: the      *)
(* structure of the archive and its manifest, the trust policy with its    *)
(* anti-downgrade floors, and the conflicts between the plugins that       *)
(* passed both.  Only after it is a library mapped, and asked which kind   *)
(* it is.                                                                  *)
(*                                                                         *)
(* A version is a positive number, since it is only ever compared.  A      *)
(* signature is the key it verifies with, over the manifest as it stands:  *)
(* a manifest changed after it was signed carries the key "broken".        *)
(***************************************************************************)
EXTENDS Integers, Sequences, FiniteSets, SequencesExt

None == "none"
KNOWN_KINDS == {"store", "auth", "hook", "secret"}
FIRST_PARTY_PUBLISHER == "busbar"
BinaryVersion == 3   \* the version of the running binary
NoFloor == 0         \* no pin overrides the first-party floor
-----------------------------------------------------------------------------
(***************************************************************************)
(* The trust policy of a `plugins:` block.                                 *)
(***************************************************************************)

\* The name of the release key is reserved, and every key must parse.
PolicyOk(pc) ==
    FIRST_PARTY_PUBLISHER \notin DOMAIN pc.publishers /\ "malformed" \notin Range(pc.publishers)

to_policy_with_floor(pc, floor) ==
    [first_party_key |-> "release", binary_version |-> floor, publishers |-> pc.publishers,
     allow_unsigned |-> pc.allow_unsigned, allow_third_party |-> pc.allow_third_party,
     min_versions |-> pc.min_versions]

to_policy(pc) ==
    to_policy_with_floor(pc, IF pc.first_party_floor = NoFloor THEN BinaryVersion ELSE pc.first_party_floor)

\* The pins of past rollbacks replace the floors of the names they are about,
\* and the lowest of them, whoever published the plugin, replaces the floor
\* of every first-party plugin.
apply_plugin_versions_to_deploy(pc, pins) ==
    [pc EXCEPT !.min_versions = [n \in DOMAIN @ \cup DOMAIN pins |->
                                    IF n \in DOMAIN pins THEN pins[n] ELSE @[n]],
               !.first_party_floor =
                    IF pins = <<>> \/ DOMAIN pins = {} THEN NoFloor
                    ELSE CHOOSE v \in Range(pins) : \A w \in Range(pins) : v <= w]
-----------------------------------------------------------------------------
(***************************************************************************)
(* One tarball.                                                            *)
(***************************************************************************)

\* unpack: exactly one manifest that parses and one library, in either order;
\* a link, a directory or an unsafe path is a member of another sort.
unpack(t) == Len(t.members) = 2 /\ Range(t.members) = {"manifest", "lib"}

\* supported_abi: one payload version per kind.
supported_abi(kind) == IF kind = "store" THEN {4} ELSE {1}

\* Names, version, publisher and digest are well formed, the digest is the
\* library's, and the engine speaks the payload version.
validate_structure(t) ==
    /\ t.wellformed /\ t.ver \in Nat
    /\ t.kind \in KNOWN_KINDS
    /\ t.intact
    /\ t.abi \in supported_abi(t.kind)

signature_ok(t, key) == t.intact /\ t.key = key

\* Which key proves the manifest, if any.  Without a signature the publisher
\* that the manifest names counts for nothing.
TrustOf(t, policy) ==
    CASE t.key = None -> "unsigned"
      [] t.key # None /\ t.publisher = FIRST_PARTY_PUBLISHER ->
            IF signature_ok(t, policy.first_party_key) THEN "first_party" ELSE "unsigned"
      [] t.key # None /\ t.publisher # FIRST_PARTY_PUBLISHER ->
            IF t.publisher \notin DOMAIN policy.publishers THEN "third_party"
            ELSE IF signature_ok(t, policy.publishers[t.publisher]) THEN "publisher" ELSE "unsigned"

version_at_least(have, floor) == have >= floor

\* evaluate: the floors come before the opt-ins, and only a trusted manifest
\* can meet one.
evaluate(t, policy) ==
    LET trust == TrustOf(t, policy)
    IN  /\ trust = "first_party" => version_at_least(t.ver, policy.binary_version)
        /\ t.name \in DOMAIN policy.min_versions =>
              trust \in {"first_party", "publisher"} /\ version_at_least(t.ver, policy.min_versions[t.name])
        /\ trust = "unsigned" => policy.allow_unsigned
        /\ trust = "third_party" => policy.allow_third_party

examine(t, policy) ==
    IF ~unpack(t) \/ ~validate_structure(t) THEN "invalid"
    ELSE IF evaluate(t, policy) THEN "loadable" ELSE "skipped"
-----------------------------------------------------------------------------
(***************************************************************************)
(* The directory: a function from file names to tarballs.                  *)
(***************************************************************************)

LoadableFiles(dir, policy) == {f \in DOMAIN dir : examine(dir[f], policy) = "loadable"}

\* Two loadable plugins conflict over a name, over an alias, or when the
\* alias of one is the name of the other.
conflicts(dir, policy) ==
    LET files == LoadableFiles(dir, policy)
    IN  {fg \in files \X files :
            LET f == dir[fg[1]]
                g == dir[fg[2]]
            IN  fg[1] # fg[2] /\ (f.name = g.name \/ f.alias = g.alias \/ f.alias = g.name)}

\* One invalid file, or one conflict, and nothing is loaded.
scan_and_validate(dir, policy) ==
    /\ \A f \in DOMAIN dir : examine(dir[f], policy) # "invalid"
    /\ conflicts(dir, policy) = {}

\* PluginRegistry::resolve: by canonical name, then by alias.
resolve_plugin(pc, ref) ==
    LET loadable(f) == pc.enabled /\ examine(pc.dir[f], to_policy(pc)) = "loadable"
        named == {f \in DOMAIN pc.dir : pc.dir[f].name = ref /\ loadable(f)}
    IN  IF named # {} THEN named ELSE {f \in DOMAIN pc.dir : pc.dir[f].alias = ref /\ loadable(f)}

\* What the pre-flight looks at: the manifest.
ResolvesTo(pc, kind, ref) == \E f \in resolve_plugin(pc, ref) : pc.dir[f].kind = kind

\* open_store, open_auth, open_hook: the library is mapped, and the kind it
\* exports must be the one it is wanted for and the one its manifest says.
wire_up_raw(t, kind) == t.exports = kind /\ t.exports = t.kind
Opens(pc, kind, ref) == \E f \in resolve_plugin(pc, ref) : pc.dir[f].kind = kind /\ wire_up_raw(pc.dir[f], kind)
-----------------------------------------------------------------------------
(***************************************************************************)
(* The admin API's checks.                                                 *)
(***************************************************************************)

\* An upload clashes with a loadable plugin of another file over a name or an
\* alias, whichever way round.
InstallClash_SameNameExempt(dir, policy, file, t) ==
    \E f \in LoadableFiles(dir, policy) \ {file} :
        /\ {dir[f].name, dir[f].alias} \cap {t.name, t.alias} # {}
        /\ dir[f].name # t.name
InstallClash(dir, policy, file, t) ==
    \E f \in LoadableFiles(dir, policy) \ {file} :
        {dir[f].name, dir[f].alias} \cap {t.name, t.alias} # {}

\* install_store_plugin, on the policy of the running application.
install_store_plugin(pc, dir, file, t) ==
    /\ PolicyOk(pc)
    /\ unpack(t) /\ validate_structure(t)
    /\ evaluate(t, to_policy(pc))
    /\ scan_and_validate(dir, to_policy(pc))
    /\ ~InstallClash(dir, to_policy(pc), file, t)

\* resolve_plugin_rollback: trusted once the floors are the target's version.
resolve_plugin_rollback(pc, t) ==
    /\ unpack(t) /\ validate_structure(t)
    /\ PolicyOk(pc)
    /\ evaluate(t, to_policy_with_floor([pc EXCEPT !.min_versions =
                        [n \in DOMAIN @ \cup {t.name} |-> IF n = t.name THEN t.ver ELSE @[n]]], t.ver))
=============================================================================
