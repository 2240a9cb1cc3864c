------------------------------ MODULE RedisStore ------------------------------
(***************************************************************************)
(* The methods of `RedisStore`: a name space of rows, index sets and       *)
(* hashes.  The commands of a section are one MULTI/EXEC; a section is run *)
(* again once on a new connection when its own broke, unless it adds.      *)
(***************************************************************************)
EXTENDS Integers, Sequences

CONSTANTS Keys, Seqs, Nil

SCHEMA_VERSION == 4

KEYS_INDEX     == <<"keys">>
AWSCRED_INDEX  == <<"awscreds">>
AUDIT_ZSET     == <<"audit">>
DENYLIST_INDEX == <<"denylist">>
SCHEMA_KEY     == <<"schema">>
OLD            == <<"old">>             \* all that an older build has left
KEY(k)         == <<"key", k>>
AWSCRED(k)     == <<"awscred", k>>
AWSCRED_IDS(k) == <<"awscred_ids", k>>
USAGE(k)       == <<"usage", k>>
METERING(k)    == <<"metering", k>>

Names ==
  {KEYS_INDEX, AWSCRED_INDEX, AUDIT_ZSET, DENYLIST_INDEX, SCHEMA_KEY, OLD}
  \cup UNION {{KEY(k), AWSCRED(k), AWSCRED_IDS(k), USAGE(k), METERING(k)} : k \in Keys}

EmptyNamespace == [x \in Names |-> Nil]

SET(x, v)      == [do |-> "SET", at |-> x, val |-> v]
DEL(xs)        == [do |-> "DEL", at |-> xs]
SADD(x, v)     == [do |-> "SADD", at |-> x, val |-> v]
SREM(x, vs)    == [do |-> "SREM", at |-> x, val |-> vs]
HINCRBY(x, v)  == [do |-> "HINCRBY", at |-> x, val |-> v]
INCR(x)        == [do |-> "INCR", at |-> x]
ZREM(x, s)     == [do |-> "ZREM", at |-> x, val |-> s]
GET(x, into)   == [do |-> "GET", at |-> x, into |-> into]
SCAN(xs, into) == [do |-> "SCAN", at |-> xs, into |-> into]
HEXISTS        == [do |-> "HEXISTS"]

Members(v) == IF v = Nil THEN {} ELSE v

\* An index whose last member goes is gone itself.
Without(v, gone) == IF Members(v) \subseteq gone THEN Nil ELSE Members(v) \ gone

Incremented(v, by) ==
  IF v = Nil THEN by ELSE [f \in {"req", "tok"} |-> v[f] + by[f]]

\* A usage hash with the field of the first release.
has_legacy(db, x) == x = OLD /\ db[x] = "v1 usage"

Exec(st, c) ==
  CASE c.do = "SET"     -> [st EXCEPT !.db[c.at] = c.val]
    [] c.do = "DEL"     -> [st EXCEPT !.db = [x \in DOMAIN @ |-> IF x \in c.at THEN Nil ELSE @[x]]]
    [] c.do = "SADD"    -> [st EXCEPT !.db[c.at] = Members(@) \cup {c.val}]
    [] c.do = "SREM"    -> [st EXCEPT !.db[c.at] = Without(@, c.val)]
    [] c.do = "HINCRBY" -> [st EXCEPT !.db[c.at] = Incremented(@, c.val)]
    [] c.do = "INCR"    -> [st EXCEPT !.db[c.at] = IF @ = Nil THEN 1 ELSE @ + 1]
    [] c.do = "ZREM"    -> [st EXCEPT !.db[c.at] = Without(@, {r \in Members(@) : r.seq = c.val})]
    [] c.do = "GET"     -> [st EXCEPT !.got[c.into] = st.db[c.at]]
    [] c.do = "SCAN"    -> [st EXCEPT !.got[c.into] = {x \in c.at : st.db[x] # Nil}]
    [] c.do = "HEXISTS" -> [st EXCEPT !.got.legacy = {x \in st.got.names : has_legacy(st.db, x)}]

\* The commands of a section, one after the other.
Run(st, cmds) ==
  LET after[i \in 0..Len(cmds)] == IF i = 0 THEN st ELSE Exec(after[i - 1], cmds[i])
  IN  after[Len(cmds)]

with_conn(cmds) == [cmds |-> cmds, retry |-> TRUE]

with_conn_no_retry_Retries(cmds) == [cmds |-> cmds, retry |-> TRUE]

with_conn_no_retry(cmds) == [cmds |-> cmds, retry |-> FALSE]

(***************************************************************************)
(* Opening.  A name space with an older marker is wiped, and so is one     *)
(* without a marker in which the counters of the first release are found;  *)
(* any other data without a marker is refused.                             *)
(***************************************************************************)
Marker(got) == IF got.marker = Nil THEN 0 ELSE got.marker

Unmarked(got) == got.marker = Nil /\ got.names # {}

namespace_is_legacy_shaped(got) == got.legacy # {}

Refuses(got) == Unmarked(got) /\ ~namespace_is_legacy_shaped(got)

Wipe(got) == IF got.names = {} THEN <<>> ELSE <<with_conn(<<DEL(got.names)>>)>>

Mark == <<with_conn(<<SET(SCHEMA_KEY, SCHEMA_VERSION)>>)>>

migrate(got) ==
  <<with_conn(<<GET(SCHEMA_KEY, "marker")>>)>>
  \o IF Marker(got) >= SCHEMA_VERSION THEN <<>>
     ELSE <<with_conn(<<SCAN(Names, "names")>>)>>
          \o (IF Unmarked(got) THEN <<with_conn(<<HEXISTS>>)>> ELSE <<>>)
          \o (IF Refuses(got) THEN <<>> ELSE Wipe(got) \o Mark)

\* allowed_pools as JSON: null is an omitted grant, [] an explicit empty one.
key_to_json(grant) ==
  CASE grant = "all" -> "null" [] grant = "none" -> "[]" [] grant = "some" -> "[p]"

key_from_json(raw) ==
  CASE raw = "null" -> "all" [] raw = "[]" -> "none" [] raw = "[p]" -> "some"

put_key(c) ==
  <<with_conn(<<SET(KEY(c.key), key_to_json(c.grant)), SADD(KEYS_INDEX, c.key)>>)>>

put_key_with_aws_credential(c) ==
  <<with_conn(<<SET(KEY(c.key), key_to_json(c.grant)), SADD(KEYS_INDEX, c.key),
                SET(AWSCRED(c.key), "secret"), SADD(AWSCRED_INDEX, c.key),
                SADD(AWSCRED_IDS(c.key), c.key)>>)>>

(***************************************************************************)
(* What a deletion takes is read before the transaction that takes it.     *)
(***************************************************************************)
delete_key(c, got) ==
  <<with_conn(<<SCAN({USAGE(c.key)}, "names")>>),
    with_conn(<<GET(AWSCRED_IDS(c.key), "ids")>>),
    with_conn(<<DEL({KEY(c.key)}), SREM(KEYS_INDEX, {c.key}), DEL(got.names),
                DEL({AWSCRED(k) : k \in Members(got.ids)}),
                SREM(AWSCRED_INDEX, Members(got.ids)),
                DEL({AWSCRED_IDS(c.key)})>>)>>

put_usage(c) ==
  <<with_conn(<<DEL({USAGE(c.key)}), SET(USAGE(c.key), c.by)>>)>>

add_usage(c) == <<with_conn_no_retry(<<HINCRBY(USAGE(c.key), c.by)>>)>>

add_metering(c) == <<with_conn_no_retry(<<INCR(METERING(c.key))>>)>>

append_audit(c) ==
  <<with_conn(<<ZREM(AUDIT_ZSET, c.seq),
                SADD(AUDIT_ZSET, [seq |-> c.seq, digest |-> c.digest])>>)>>

add_denylist(c) == <<with_conn(<<SADD(DENYLIST_INDEX, c.key)>>)>>

Program(c, got) ==
  CASE c.op = "open"         -> migrate(got)
    [] c.op = "put_key"      -> put_key(c)
    [] c.op = "mint"         -> put_key_with_aws_credential(c)
    [] c.op = "delete_key"   -> delete_key(c, got)
    [] c.op = "put_usage"    -> put_usage(c)
    [] c.op = "add_usage"    -> add_usage(c)
    [] c.op = "add_metering" -> add_metering(c)
    [] c.op = "append_audit" -> append_audit(c)
    [] c.op = "add_denylist" -> add_denylist(c)

(***************************************************************************)
(* What the reading methods make of the name space.                        *)
(***************************************************************************)
\* Listed by the index, and a row behind it.
get_key(db, k) ==
  IF k \in Members(db[KEYS_INDEX]) /\ db[KEY(k)] # Nil THEN key_from_json(db[KEY(k)]) ELSE Nil

list_aws_credentials(db) ==
  {k \in Members(db[AWSCRED_INDEX]) : db[AWSCRED(k)] # Nil}

\* The credentials that the deletion of their key finds.
cred_ids(db) == {k \in Keys : k \in Members(db[AWSCRED_IDS(k)])}

\* A counter below zero is read as zero, and keeps what it is below.
read_u64(v) == IF v < 0 THEN 0 ELSE v

get_usage(db, k) ==
  IF db[USAGE(k)] = Nil THEN [req |-> 0, tok |-> 0]
  ELSE [f \in {"req", "tok"} |-> read_u64(db[USAGE(k)][f])]

BelowZero(db, k) == [f \in {"req", "tok"} |-> read_u64(-db[USAGE(k)][f])]

Usage(db, k) ==
  IF db[USAGE(k)] = Nil THEN Nil ELSE [read |-> get_usage(db, k), owed |-> BelowZero(db, k)]

list_metering(db, k) == IF db[METERING(k)] = Nil THEN 0 ELSE db[METERING(k)]

list_audit(db) == Members(db[AUDIT_ZSET])

list_denylist(db) == Members(db[DENYLIST_INDEX])

View(db) ==
  [keys     |-> [k \in Keys |-> get_key(db, k)],
   creds    |-> list_aws_credentials(db),
   listed   |-> cred_ids(db),
   usage    |-> [k \in Keys |-> Usage(db, k)],
   metering |-> [k \in Keys |-> list_metering(db, k)],
   audit    |-> list_audit(db),
   denied   |-> list_denylist(db)]
=============================================================================
