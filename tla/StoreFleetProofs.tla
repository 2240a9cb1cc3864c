--------------------------- MODULE StoreFleetProofs ---------------------------
(***************************************************************************)
(* Proofs about StoreFleet, for any number of processes, keys and audit    *)
(* entries, any calls and any faults: each backend implements the contract *)
(* of the `Store` trait, and a store that was opened has this build's      *)
(* layout, as long as no two processes open it at once.                    *)
(***************************************************************************)
EXTENDS StoreFleet, TLAPS

-----------------------------------------------------------------------------
(* The inductive invariant: of a backend b, what is stored d, a process x of ns *)

\* What an opening or a deletion may have read.
Reads ==
  [marker : {Nil, 0, 3, 4}, legacy : (SUBSET {"virtual_keys"}) \cup (SUBSET Redis!Names),
   names : SUBSET Redis!Names, ids : {Nil} \cup SUBSET Keys]

BusyStates ==
  [at : {"ask", "told"}, call : C!Calls \cup {[op |-> "open"]}, pc : Nat, retried : BOOLEAN,
   phase : {"invoked", "taken"}, got : Reads, had : SUBSET {"usage", "credential"}]

NodeStates == {Down, Ready, Done, Lost} \cup BusyStates

\* The rows of the tables, by the table.
SqlRows(r) ==
  /\ r = [t \in Sqlite!Tables |-> r[t]]
  /\ r["virtual_keys"] \in [Keys -> {Nil, "NULL", "[]", "[p]"}]
  /\ r["aws_credentials"] \in [Keys -> {Nil, "secret"}]
  /\ r["usage_windows"] \in [Keys -> Nat \cup {Nil}]
  /\ r["usage_ledger"] \in [Keys -> Nat \cup {Nil}]
  /\ r["usage_metering"] \in [Keys -> Nat \cup {Nil}]
  /\ r["audit_log"] \in [Seqs -> Nodes \cup {Nil}]
  /\ r["denylist"] \in [Keys -> {Nil, "denied"}]

\* There are no counters per model without the counter of the requests.
UsageWhole(r) == \A k \in Keys : r["usage_windows"][k] = Nil => r["usage_ledger"][k] = Nil

Shapes == {"none", "old", "new"}

SqlTypes(d) ==
  /\ d = [rows |-> d.rows, shape |-> d.shape, version |-> d.version]
  /\ SqlRows(d.rows) /\ UsageWhole(d.rows)
  /\ d.shape \in [keys : Shapes, others : Shapes]
  /\ d.version \in {0, 3, 4}

\* The values in a Redis name space, by the name.
KeyTypes(d) ==
  /\ d[Redis!KEYS_INDEX] \in {Nil} \cup SUBSET Keys
  /\ \A k \in Keys : d[Redis!KEY(k)] \in {Nil, "null", "[]", "[p]"}

CredTypes(d) ==
  /\ d[Redis!AWSCRED_INDEX] \in {Nil} \cup SUBSET Keys
  /\ \A k \in Keys : d[Redis!AWSCRED(k)] \in {Nil, "secret"}

IdsTypes(d) == \A k \in Keys : d[Redis!AWSCRED_IDS(k)] \in {Nil, {k}}

UsageTypes(d) == \A k \in Keys : d[Redis!USAGE(k)] \in {Nil} \cup [{"req", "tok"} -> Int]

MeteringTypes(d) == \A k \in Keys : d[Redis!METERING(k)] \in {Nil} \cup Nat

AuditTypes(d) == d[Redis!AUDIT_ZSET] \in {Nil} \cup SUBSET [seq : Seqs, digest : Nodes]

DenyTypes(d) == d[Redis!DENYLIST_INDEX] \in {Nil} \cup SUBSET Keys

RedisTypes(d) ==
  /\ d = [x \in Redis!Names |-> d[x]]
  /\ KeyTypes(d) /\ CredTypes(d) /\ IdsTypes(d) /\ UsageTypes(d) /\ MeteringTypes(d)
  /\ AuditTypes(d) /\ DenyTypes(d)
  /\ d[Redis!SCHEMA_KEY] \in {Nil, 3, 4}

IsBusy(x) == x.at \in {"ask", "told"}

IsOpening(x) == IsBusy(x) /\ x.call.op = "open"

IsInCall(x) == IsBusy(x) /\ x.call.op # "open"

IsOpened(x) == x.at \in {"idle", "done"} \/ IsInCall(x)

\* The sections of an opening of Redis, by what it has read so far.
RedisSections(g) ==
  IF g.marker = 4 THEN 1
  ELSE IF g.names = {} THEN 3
  ELSE IF g.marker # Nil THEN 4
  ELSE IF g.legacy = {} THEN 3 ELSE 5

\* The number of the sections of a call.
Sections(b, c, g) ==
  IF c.op = "open"
  THEN IF b = "sqlite" THEN 6 ELSE IF b = "postgres" THEN 2 ELSE RedisSections(g)
  ELSE IF b = "redis" /\ c.op = "delete_key" THEN 3 ELSE 1

Last(b, x) == x.pc = Sections(b, x.call, x.got)

ViewOf(b, d) == IF b = "redis" THEN Redis!View(d) ELSE Sqlite!View(d)

Types(b, d, ns) ==
  /\ b \in {"sqlite", "postgres", "redis"}
  /\ IF b = "redis" THEN RedisTypes(d) ELSE SqlTypes(d)
  /\ ns \in [Nodes -> NodeStates]

OneOpens(ns) == \A m, n \in Nodes : IsOpening(ns[m]) /\ IsOpening(ns[n]) => m = n

\* A call that was told the answer of its last section has taken effect, and
\* one that asks again is one that may.
CallInv(b, v, x) ==
  IsBusy(x) =>
    /\ x.pc \in 1..Sections(b, x.call, x.got)
    /\ x.at = "told" /\ Last(b, x) => x.phase = "taken"
    /\ IsInCall(x) /\ x.at = "ask" /\ x.phase = "taken" => C!Idempotent(x.call)
    /\ x.had \subseteq C!Found(v, x.call)

\* What a deletion on Redis has read covers what it has found all along.
DeleteInv(b, x) ==
  b = "redis" /\ IsInCall(x) /\ x.call.op = "delete_key" =>
    /\ x.got.names \subseteq {Redis!USAGE(x.call.key)}
    /\ Redis!Members(x.got.ids) \subseteq {x.call.key}
    /\ x.pc > 1 \/ x.at = "told" =>
         ("usage" \in x.had => x.got.names = {Redis!USAGE(x.call.key)})
    /\ x.pc > 2 \/ (x.pc = 2 /\ x.at = "told") =>
         ("credential" \in x.had => Redis!Members(x.got.ids) = {x.call.key})

NoneOpened(ns) == \A n \in Nodes : ~IsOpened(ns[n])

\* Before a SQL database has its version nobody has opened it or written to it.
\* Postgres goes from one layout to another in one transaction.
SqlInv(b, d, ns) ==
  b # "redis" =>
    /\ d.version # 4 => d.rows = Sqlite!NoRows /\ NoneOpened(ns)
    /\ b = "postgres" => d.shape.keys = d.shape.others /\ (d.version = 4 => Sqlite!Current(d))

\* An opening knows the version until it stamps it.
SqlOpening(b, d, x) ==
  b # "redis" /\ IsOpening(x) =>
    /\ x.phase = "taken" => d.version = 4 /\ x.at = "told" /\ Last(b, x)
    /\ x.phase = "invoked" /\ (x.pc > 1 \/ x.at = "told") => x.got.marker = d.version
    /\ x.got.legacy \subseteq {"virtual_keys"}
    /\ x.got.legacy # {} => x.got.marker # 4 /\ (x.pc > 1 \/ x.at = "told")

\* Nobody has opened the name space, and none of this build's data is in it.
Virgin(d, ns) ==
  /\ NoneOpened(ns)
  /\ \A x \in Redis!Names \ {Redis!SCHEMA_KEY, Redis!OLD} : d[x] = Nil

\* Another build has left data, or its marker.
Foreign(d) == d[Redis!OLD] # Nil \/ d[Redis!SCHEMA_KEY] = 3

\* A name space of another build is nobody's yet.
RedisInv(b, d, ns) ==
  b = "redis" =>
    /\ d[Redis!SCHEMA_KEY] = 4 => d[Redis!OLD] = Nil
    /\ Foreign(d) => Virgin(d, ns)

\* An opening that is going to wipe a name space is the only process that has
\* come this far, and what an older build has left is gone before it is marked.
RedisOpening(b, d, ns, x) ==
  b = "redis" /\ IsOpening(x) =>
    /\ x.got.marker = 3 \/ x.got.legacy # {} => Virgin(d, ns)
    /\ x.got.marker = 4 => ~Foreign(d)
    /\ x.pc = 1 => x.got.names = {}
    /\ x.pc < 3 => x.got.legacy = {}
    /\ x.pc > 1 => x.got.marker \in {Nil, 3}
    /\ x.pc = 1 /\ x.at = "told" => x.got.marker # 0
    /\ (x.pc > 2 \/ (x.pc = 2 /\ x.at = "told")) /\ d[Redis!OLD] # Nil =>
         Redis!OLD \in x.got.names
    /\ x.pc > 1 /\ ~Redis!Refuses(x.got)
       /\ (Last(b, x) \/ (x.pc + 1 = RedisSections(x.got) /\ x.at = "told")) => d[Redis!OLD] = Nil
    /\ x.at = "told" /\ Last(b, x) /\ ~Redis!Refuses(x.got) => ~Foreign(d)

ProcessInv(b, d, ns, x) ==
  /\ CallInv(b, ViewOf(b, d), x) /\ DeleteInv(b, x)
  /\ SqlOpening(b, d, x) /\ RedisOpening(b, d, ns, x)

InvOf(b, d, ns) ==
  /\ Types(b, d, ns) /\ OneOpens(ns) /\ SqlInv(b, d, ns) /\ RedisInv(b, d, ns)
  /\ \A n \in Nodes : ProcessInv(b, d, ns, ns[n])

Inv == InvOf(backend, db, node)

-----------------------------------------------------------------------------
(* Sections *)

\* The states of a section, statement by statement.
SqlSteps(h, st, s) == h[0] = st /\ \A i \in 1..Len(s) : h[i] = Sqlite!Exec(h[i - 1], s[i])

RedisSteps(h, st, s) == h[0] = st /\ \A i \in 1..Len(s) : h[i] = Redis!Exec(h[i - 1], s[i])

\* A section of at most five statements runs them one after the other.
LEMMA SqlRunOf ==
  ASSUME NEW st, NEW s, Len(s) \in 1..5
  PROVE  \E h : Sqlite!Run(st, s) = h[Len(s)] /\ SqlSteps(h, st, s)
<1> DEFINE e1 == Sqlite!Exec(st, s[1])
           e2 == Sqlite!Exec(e1, s[2])
           e3 == Sqlite!Exec(e2, s[3])
           e4 == Sqlite!Exec(e3, s[4])
           e5 == Sqlite!Exec(e4, s[5])
           IsRun(f) == f = [i \in 0..Len(s) |-> IF i = 0 THEN st ELSE Sqlite!Exec(f[i - 1], s[i])]
           g == [i \in 0..Len(s) |-> IF i = 0 THEN st ELSE IF i = 1 THEN e1 ELSE IF i = 2 THEN e2
                                     ELSE IF i = 3 THEN e3 ELSE IF i = 4 THEN e4 ELSE e5]
           h == CHOOSE f : IsRun(f)
<1>1. IsRun(g)
  <2>1. ASSUME NEW i \in 0..Len(s)
        PROVE  g[i] = IF i = 0 THEN st ELSE Sqlite!Exec(g[i - 1], s[i])
    <3>1. CASE i = 0 BY <3>1
    <3>2. CASE i = 1 BY <3>2
    <3>3. CASE i = 2 BY <3>3
    <3>4. CASE i = 3 BY <3>4
    <3>5. CASE i = 4 BY <3>5
    <3>6. CASE i = 5 BY <3>6
    <3> QED BY <3>1, <3>2, <3>3, <3>4, <3>5, <3>6
  <2> QED BY <2>1
<1>2. IsRun(h)
  BY <1>1
<1>3. SqlSteps(h, st, s)
  <2> HIDE DEF h
  <2> QED BY <1>2 DEF SqlSteps
<1>4. Sqlite!Run(st, s) = h[Len(s)]
  BY DEF Sqlite!Run
<1> HIDE DEF h
<1> QED BY <1>3, <1>4

\* The same for the commands of a MULTI/EXEC.
LEMMA RedisRunOf ==
  ASSUME NEW st, NEW s, Len(s) \in 1..6
  PROVE  \E h : Redis!Run(st, s) = h[Len(s)] /\ RedisSteps(h, st, s)
<1> DEFINE e1 == Redis!Exec(st, s[1])
           e2 == Redis!Exec(e1, s[2])
           e3 == Redis!Exec(e2, s[3])
           e4 == Redis!Exec(e3, s[4])
           e5 == Redis!Exec(e4, s[5])
           e6 == Redis!Exec(e5, s[6])
           IsRun(f) == f = [i \in 0..Len(s) |-> IF i = 0 THEN st ELSE Redis!Exec(f[i - 1], s[i])]
           g == [i \in 0..Len(s) |-> IF i = 0 THEN st ELSE IF i = 1 THEN e1 ELSE IF i = 2 THEN e2
                                     ELSE IF i = 3 THEN e3 ELSE IF i = 4 THEN e4
                                     ELSE IF i = 5 THEN e5 ELSE e6]
           h == CHOOSE f : IsRun(f)
<1>1. IsRun(g)
  <2>1. ASSUME NEW i \in 0..Len(s)
        PROVE  g[i] = IF i = 0 THEN st ELSE Redis!Exec(g[i - 1], s[i])
    <3>1. CASE i = 0 BY <3>1
    <3>2. CASE i = 1 BY <3>2
    <3>3. CASE i = 2 BY <3>3
    <3>4. CASE i = 3 BY <3>4
    <3>5. CASE i = 4 BY <3>5
    <3>6. CASE i = 5 BY <3>6
    <3>7. CASE i = 6 BY <3>7
    <3> QED BY <3>1, <3>2, <3>3, <3>4, <3>5, <3>6, <3>7
  <2> QED BY <2>1
<1>2. IsRun(h)
  BY <1>1
<1>3. RedisSteps(h, st, s)
  <2> HIDE DEF h
  <2> QED BY <1>2 DEF RedisSteps
<1>4. Redis!Run(st, s) = h[Len(s)]
  BY DEF Redis!Run
<1> HIDE DEF h
<1> QED BY <1>3, <1>4

\* The two SQL backends execute the same statements and read the same rows.
LEMMA SameRun ==
  ASSUME NEW st, NEW stmts
  PROVE  Postgres!Run(st, stmts) = Sqlite!Run(st, stmts)
BY DEF Postgres!Run, Sqlite!Run, Postgres!Exec, Sqlite!Exec, Postgres!Sum, Sqlite!Sum,
       Postgres!NoRows, Sqlite!NoRows, Postgres!Created, Sqlite!Created,
       Postgres!SCHEMA_VERSION, Sqlite!SCHEMA_VERSION, Postgres!Tables, Sqlite!Tables

\* Both SQL backends read their tables in the same way.
LEMMA SameView ==
  ASSUME NEW d
  PROVE  Postgres!View(d) = Sqlite!View(d)
BY DEF Postgres!View, Sqlite!View, Postgres!row_to_key, Sqlite!row_to_key,
       Postgres!list_aws_credentials, Sqlite!list_aws_credentials, Postgres!Usage,
       Sqlite!Usage, Postgres!get_usage, Sqlite!get_usage_inner, Postgres!read_u64, Sqlite!u, Postgres!list_metering, Sqlite!list_metering_inner,
       Postgres!list_audit, Sqlite!list_audit, Postgres!list_denylist, Sqlite!list_denylist,
       Postgres!pools_from_storage, Sqlite!pools_from_storage

-----------------------------------------------------------------------------
(* What the statements do *)

Db(R, sh, v) == [rows |-> R, shape |-> sh, version |-> v]

St(d, g) == [db |-> d, got |-> g]

Put(R, t, r, v) == [R EXCEPT ![t][r] = v]

Changed(f, k, v) == [f EXCEPT ![k] = v]

\* What a function is after one of its values changed.
LEMMA ChangedAt ==
  ASSUME NEW T, NEW S, NEW f \in [T -> S], NEW k \in T, NEW v \in S
  PROVE  /\ Changed(f, k, v) \in [T -> S]
         /\ Changed(f, k, v)[k] = v
         /\ \A x \in T : x # k => Changed(f, k, v)[x] = f[x]
BY DEF Changed

\* What an upsert, a deletion and an addition make of the rows of a table.
LEMMA ExecUpsert ==
  ASSUME NEW R, NEW sh, NEW ver, NEW g, NEW t, NEW r, NEW v
  PROVE  /\ Sqlite!Exec(St(Db(R, sh, ver), g), Sqlite!Upsert(t, r, v)) = St(Db(Put(R, t, r, v), sh, ver), g)
         /\ Sqlite!Exec(St(Db(R, sh, ver), g), Sqlite!Delete(t, r)) = St(Db(Put(R, t, r, Nil), sh, ver), g)
         /\ Sqlite!Exec(St(Db(R, sh, ver), g), Sqlite!Add(t, r, v))
              = St(Db(Put(R, t, r, Sqlite!Sum(R[t][r], v)), sh, ver), g)
<1> DEFINE st == St(Db(R, sh, ver), g)
<1>1. Sqlite!Exec(st, Sqlite!Upsert(t, r, v)) = [st EXCEPT !.db.rows[t][r] = v]
  BY DEF Sqlite!Exec, Sqlite!Upsert
<1>2. Sqlite!Exec(st, Sqlite!Delete(t, r)) = [st EXCEPT !.db.rows[t][r] = Nil]
  BY DEF Sqlite!Exec, Sqlite!Delete
<1>3. Sqlite!Exec(st, Sqlite!Add(t, r, v)) = [st EXCEPT !.db.rows[t][r] = Sqlite!Sum(@, v)]
  BY DEF Sqlite!Exec, Sqlite!Add
<1>4. [st EXCEPT !.db.rows[t][r] = v] = St(Db(Put(R, t, r, v), sh, ver), g)
  BY DEF St, Db, Put
<1>5. [st EXCEPT !.db.rows[t][r] = Nil] = St(Db(Put(R, t, r, Nil), sh, ver), g)
  BY DEF St, Db, Put
<1>6. [st EXCEPT !.db.rows[t][r] = Sqlite!Sum(@, v)]
        = St(Db(Put(R, t, r, Sqlite!Sum(R[t][r], v)), sh, ver), g)
  BY DEF St, Db, Put
<1> QED BY <1>1, <1>2, <1>3, <1>4, <1>5, <1>6

-----------------------------------------------------------------------------
(* The effects that the contract allows *)

Contents(K, Cr, L, U, M, A, D) ==
  [keys |-> K, creds |-> Cr, listed |-> L, usage |-> U, metering |-> M, audit |-> A, denied |-> D]

\* The parts of what a store holds.
LEMMA ContentsFields ==
  ASSUME NEW K, NEW Cr, NEW L, NEW U, NEW M, NEW A, NEW D
  PROVE  LET d == Contents(K, Cr, L, U, M, A, D)
         IN  d.keys = K /\ d.creds = Cr /\ d.listed = L /\ d.usage = U
BY DEF Contents

Minted(d, k, g, cr, l) == [d EXCEPT !.keys[k] = g, !.creds = cr, !.listed = l]

Deleted(d, k, l, u, cr) == [d EXCEPT !.keys[k] = Nil, !.listed = l, !.usage[k] = u, !.creds = cr]

\* The contents after a mint, part by part.
LEMMA ContentsMinted ==
  ASSUME NEW K, NEW Cr, NEW L, NEW U, NEW M, NEW A, NEW D, NEW k, NEW g, NEW x, NEW y
  PROVE  Minted(Contents(K, Cr, L, U, M, A, D), k, g, x, y)
           = Contents(Changed(K, k, g), x, y, U, M, A, D)
<1> DEFINE K2 == [K EXCEPT ![k] = g]
<1>1. [Contents(K, Cr, L, U, M, A, D) EXCEPT !.keys[k] = g] = Contents(K2, Cr, L, U, M, A, D)
  BY DEF Contents
<1> HIDE DEF K2
<1>2. [Contents(K2, Cr, L, U, M, A, D) EXCEPT !.creds = x] = Contents(K2, x, L, U, M, A, D)
  BY DEF Contents
<1>3. [Contents(K2, x, L, U, M, A, D) EXCEPT !.listed = y] = Contents(K2, x, y, U, M, A, D)
  BY DEF Contents
<1> QED BY <1>1, <1>2, <1>3, Zenon DEF K2, Minted, Changed

\* The contents after the deletion of a key, part by part.
LEMMA ContentsDeleted ==
  ASSUME NEW K, NEW Cr, NEW L, NEW U, NEW M, NEW A, NEW D, NEW k, NEW x, NEW y, NEW u
  PROVE  Deleted(Contents(K, Cr, L, U, M, A, D), k, x, u, y)
           = Contents(Changed(K, k, Nil), y, x, Changed(U, k, u), M, A, D)
<1> DEFINE K2 == [K EXCEPT ![k] = Nil]
           U2 == [U EXCEPT ![k] = u]
<1>1. [Contents(K, Cr, L, U, M, A, D) EXCEPT !.keys[k] = Nil] = Contents(K2, Cr, L, U, M, A, D)
  BY DEF Contents
<1> HIDE DEF K2
<1>2. [Contents(K2, Cr, L, U, M, A, D) EXCEPT !.listed = x] = Contents(K2, Cr, x, U, M, A, D)
  BY DEF Contents
<1>3. [Contents(K2, Cr, x, U, M, A, D) EXCEPT !.usage[k] = u] = Contents(K2, Cr, x, U2, M, A, D)
  BY DEF Contents
<1> HIDE DEF U2
<1>4. [Contents(K2, Cr, x, U2, M, A, D) EXCEPT !.creds = y] = Contents(K2, y, x, U2, M, A, D)
  BY DEF Contents
<1> QED BY <1>1, <1>2, <1>3, <1>4, Zenon DEF K2, U2, Deleted, Changed

\* The calls, by the method.
LEMMA CallsByOp ==
  ASSUME NEW c \in C!Calls
  PROVE  /\ c.op \in {"put_key", "mint", "delete_key", "add_metering", "add_denylist",
                      "add_usage", "put_usage", "append_audit"}
         /\ c.op \in {"put_key", "mint"} =>
              c.grant \in {"all", "none", "some"} /\ c.key \in Keys
         /\ c.op \in {"delete_key", "add_metering", "add_denylist"} => c.key \in Keys
         /\ c.op \in {"add_usage", "put_usage"} =>
              c.key \in Keys /\ c.by \in {C!Charge, C!Refund}
         /\ c.op = "put_usage" => c.by = C!Charge
         /\ c.op = "append_audit" => c.seq \in Seqs /\ c.digest \in Nodes
         /\ c # [op |-> "open"] /\ c.op # "open"
<1>1. CASE c \in [op : {"put_key", "mint"}, key : Keys, grant : C!Grants]
  BY <1>1 DEF C!Grants
<1>2. CASE c \in [op : {"delete_key", "add_metering", "add_denylist"}, key : Keys]
  BY <1>2
<1>3. CASE c \in [op : {"add_usage", "put_usage"}, key : Keys, by : C!Deltas] /\ (c.op = "put_usage" => c.by = C!Charge)
  BY <1>3 DEF C!Deltas
<1>4. CASE c \in [op : {"append_audit"}, seq : Seqs, digest : Nodes]
  BY <1>4
<1> QED BY <1>1, <1>2, <1>3, <1>4 DEF C!Calls

\* A changed row of a key is an effect that the contract allows put_key.
LEMMA EffectOfPutKey ==
  ASSUME NEW c, c.op = "put_key", NEW K, NEW Cr, NEW L, NEW U, NEW M, NEW A, NEW D, NEW had,
         NEW K2, K2 = Changed(K, c.key, c.grant)
  PROVE  Contents(K2, Cr, L, U, M, A, D) \in C!Effects(Contents(K, Cr, L, U, M, A, D), c, had)
<1> DEFINE d == Contents(K, Cr, L, U, M, A, D)
<1>1. C!Effects(d, c, had) = {[d EXCEPT !.keys[c.key] = c.grant]}
  BY DEF C!Effects
<1>2. [d EXCEPT !.keys[c.key] = c.grant] = Contents(K2, Cr, L, U, M, A, D)
  BY DEF Contents, Changed
<1> QED BY <1>1, <1>2

\* A key with its credential, listed, is what the contract allows a mint.
LEMMA EffectOfMint ==
  ASSUME NEW c, c.op = "mint", NEW K, NEW Cr, NEW L, NEW U, NEW M, NEW A, NEW D, NEW had,
         NEW K2, NEW Cr2, NEW L2, K2 = Changed(K, c.key, c.grant),
         Cr2 = Cr \cup {c.key}, L2 = L \cup {c.key}
  PROVE  Contents(K2, Cr2, L2, U, M, A, D) \in C!Effects(Contents(K, Cr, L, U, M, A, D), c, had)
<1> DEFINE d == Contents(K, Cr, L, U, M, A, D)
           cr == d.creds \cup {c.key}
           l  == d.listed \cup {c.key}
<1>1. C!Effects(d, c, had) = {Minted(d, c.key, c.grant, cr, l)}
  BY DEF C!Effects, Minted
<1>2. d.creds = Cr /\ d.listed = L
  BY ContentsFields
<1>4. cr = Cr2 /\ l = L2
  <2> HIDE DEF d
  <2> QED BY <1>2
<1> HIDE DEF cr, l
<1>3. Minted(d, c.key, c.grant, cr, l) = Contents(Changed(K, c.key, c.grant), cr, l, U, M, A, D)
  BY ContentsMinted
<1> QED BY <1>1, <1>3, <1>4

\* A deletion may leave the usage or the credential that came while it ran.
LEMMA EffectOfDelete ==
  ASSUME NEW c, c.op = "delete_key", NEW K, NEW Cr, NEW L, NEW U, NEW M, NEW A, NEW D, NEW had,
         NEW K2, NEW Cr2, NEW L2, NEW U2, NEW u, K2 = Changed(K, c.key, Nil),
         L2 = L \ {c.key}, U2 = Changed(U, c.key, u),
         u = Nil \/ (u = U[c.key] /\ "usage" \notin had),
         Cr2 = Cr \ {c.key} \/ (Cr2 = Cr /\ "credential" \notin had)
  PROVE  Contents(K2, Cr2, L2, U2, M, A, D) \in C!Effects(Contents(K, Cr, L, U, M, A, D), c, had)
<1> DEFINE d == Contents(K, Cr, L, U, M, A, D)
           l == d.listed \ {c.key}
           us == {Nil} \cup (IF "usage" \in had THEN {} ELSE {d.usage[c.key]})
           css == {d.creds \ {c.key}} \cup (IF "credential" \in had THEN {} ELSE {d.creds})
<1>1. C!Effects(d, c, had) = {Deleted(d, c.key, l, x, cs) : x \in us, cs \in css}
  BY DEF C!Effects, Deleted
<1>2. d.usage = U /\ d.creds = Cr /\ d.listed = L
  BY ContentsFields
<1>4. l = L2 /\ u \in us /\ Cr2 \in css
  <2> HIDE DEF d
  <2> QED BY <1>2
<1> HIDE DEF us, css, l
<1>3. Deleted(d, c.key, l, u, Cr2)
        = Contents(Changed(K, c.key, Nil), Cr2, l, Changed(U, c.key, u), M, A, D)
  BY ContentsDeleted
<1>5. Deleted(d, c.key, l, u, Cr2) \in C!Effects(d, c, had)
  BY <1>1, <1>4
<1> QED BY <1>3, <1>4, <1>5

\* The usage of a key that owes nothing.
Kept(r) == [read |-> r, owed |-> C!Zero]

\* Usage that is replaced is what the contract allows put_usage.
LEMMA EffectOfPutUsage ==
  ASSUME NEW c, c.op = "put_usage", NEW K, NEW Cr, NEW L, NEW U, NEW M, NEW A, NEW D, NEW had,
         NEW U2, U2 = Changed(U, c.key, Kept(c.by))
  PROVE  Contents(K, Cr, L, U2, M, A, D) \in C!Effects(Contents(K, Cr, L, U, M, A, D), c, had)
<1> DEFINE d == Contents(K, Cr, L, U, M, A, D)
<1>1. C!Effects(d, c, had) = {[d EXCEPT !.usage[c.key] = Kept(c.by)]}
  BY DEF C!Effects, Kept
<1>2. [d EXCEPT !.usage[c.key] = Kept(c.by)] = Contents(K, Cr, L, U2, M, A, D)
  BY DEF Contents, Changed
<1> QED BY <1>1, <1>2

\* Usage that has grown by the delta is what the contract allows add_usage.
LEMMA EffectOfAddUsage ==
  ASSUME NEW c, c.op = "add_usage", NEW K, NEW Cr, NEW L, NEW U, NEW M, NEW A, NEW D, NEW had,
         NEW U2, NEW u, U2 = Changed(U, c.key, u), u \in C!Accumulated(U[c.key], c.by)
  PROVE  Contents(K, Cr, L, U2, M, A, D) \in C!Effects(Contents(K, Cr, L, U, M, A, D), c, had)
<1> DEFINE d == Contents(K, Cr, L, U, M, A, D)
           Left(x) == [d EXCEPT !.usage[c.key] = x]
<1>1. C!Effects(d, c, had) = {Left(x) : x \in C!Accumulated(d.usage[c.key], c.by)}
  BY DEF C!Effects
<1>2. Left(u) = Contents(K, Cr, L, U2, M, A, D)
  BY DEF Contents, Changed
<1>3. d.usage = U
  BY DEF Contents
<1> HIDE DEF Left, d
<1> QED BY <1>1, <1>2, <1>3 DEF d

\* A count of one more is what the contract allows add_metering.
LEMMA EffectOfAddMetering ==
  ASSUME NEW c, c.op = "add_metering", NEW K, NEW Cr, NEW L, NEW U, NEW M, NEW A, NEW D, NEW had,
         NEW M2, M2 = Changed(M, c.key, M[c.key] + 1)
  PROVE  Contents(K, Cr, L, U, M2, A, D) \in C!Effects(Contents(K, Cr, L, U, M, A, D), c, had)
<1> DEFINE d == Contents(K, Cr, L, U, M, A, D)
<1>1. C!Effects(d, c, had) = {[d EXCEPT !.metering[c.key] = @ + 1]}
  BY DEF C!Effects
<1>2. [d EXCEPT !.metering[c.key] = @ + 1] = Contents(K, Cr, L, U, M2, A, D)
  BY DEF Contents, Changed
<1> QED BY <1>1, <1>2

\* A record in place of the one of its number is what append_audit may leave.
LEMMA EffectOfAudit ==
  ASSUME NEW c, c.op = "append_audit", NEW K, NEW Cr, NEW L, NEW U, NEW M, NEW A, NEW D, NEW had,
         NEW A2, A2 = {r \in A : r.seq # c.seq} \cup {[seq |-> c.seq, digest |-> c.digest]}
  PROVE  Contents(K, Cr, L, U, M, A2, D) \in C!Effects(Contents(K, Cr, L, U, M, A, D), c, had)
<1> DEFINE d == Contents(K, Cr, L, U, M, A, D)
           a2 == {r \in d.audit : r.seq # c.seq} \cup {[seq |-> c.seq, digest |-> c.digest]}
<1>1. C!Effects(d, c, had) = {[d EXCEPT !.audit = a2]}
  BY DEF C!Effects
<1>2. d.audit = A
  BY DEF Contents
<1>3. a2 = A2
  <2> HIDE DEF d
  <2> QED BY <1>2
<1> HIDE DEF a2
<1>4. [d EXCEPT !.audit = a2] = Contents(K, Cr, L, U, M, a2, D)
  BY DEF Contents
<1> QED BY <1>1, <1>3, <1>4

\* One more subject on the list is what the contract allows add_denylist.
LEMMA EffectOfDeny ==
  ASSUME NEW c, c.op = "add_denylist", NEW K, NEW Cr, NEW L, NEW U, NEW M, NEW A, NEW D, NEW had,
         NEW D2, D2 = D \cup {c.key}
  PROVE  Contents(K, Cr, L, U, M, A, D2) \in C!Effects(Contents(K, Cr, L, U, M, A, D), c, had)
<1> DEFINE d == Contents(K, Cr, L, U, M, A, D)
<1>1. C!Effects(d, c, had) = {[d EXCEPT !.denied = @ \cup {c.key}]}
  BY DEF C!Effects
<1>2. [d EXCEPT !.denied = @ \cup {c.key}] = Contents(K, Cr, L, U, M, A, D2)
  BY DEF Contents
<1> QED BY <1>1, <1>2

-----------------------------------------------------------------------------
(* What the tables are read as *)

\* What a column or a name holds is told from its absence.
LEMMA NilIsNone ==
  /\ \A x \in {"NULL", "null", "[]", "[p]", "secret", "denied"} : x # Nil
  /\ \A x \in Nat : x # Nil
  /\ \A x \in Nodes : x # Nil
  /\ \A S : S \subseteq Keys => S # Nil
  /\ \A S : S \subseteq [seq : Seqs, digest : Nodes] => S # Nil
  /\ \A f \in [{"req", "tok"} -> Int] : f # Nil
  /\ \A f, g \in [{"req", "tok"} -> Int] : [read |-> f, owed |-> g] # Nil
<1>1. ASSUME NEW S, S \subseteq Keys PROVE S # Nil
  BY <1>1, NilAssumption
<1>2. ASSUME NEW S, S \subseteq [seq : Seqs, digest : Nodes] PROVE S # Nil
  BY <1>2, NilAssumption
<1>0. Nil \notin {"NULL", "null", "[]", "[p]", "secret", "denied"}
  BY NilAssumption
<1>3. Nil \notin Int /\ Nil \notin Nodes /\ Nil \notin [{"req", "tok"} -> Int]
  BY NilAssumption
<1>4. ASSUME NEW f \in [{"req", "tok"} -> Int], NEW g \in [{"req", "tok"} -> Int]
      PROVE  [read |-> f, owed |-> g] # Nil
  <2> DEFINE I == [{"req", "tok"} -> Int]
             r == [read |-> f, owed |-> g]
  <2>1. Nil \notin [read : I, owed : I]
    BY NilAssumption
  <2> HIDE DEF I
  <2>2. f \in I /\ g \in I
    BY DEF I
  <2>3. r \in [read : I, owed : I]
    BY <2>2
  <2> HIDE DEF r
  <2>4. r # Nil
    BY <2>1, <2>3, Zenon
  <2> QED BY <2>4 DEF r
<1> QED BY <1>0, <1>1, <1>2, <1>3, <1>4

KeysOf(col) == [k \in Keys |-> IF col[k] = Nil THEN Nil ELSE Sqlite!pools_from_storage(col[k])]

RowsOf(col) == {k \in Keys : col[k] # Nil}

UsageOf(ws, ls) ==
  [k \in Keys |-> IF ws[k] = Nil THEN Nil
                  ELSE [read |-> [req |-> Sqlite!u(ws[k]), tok |-> Sqlite!u(ls[k])],
                        owed |-> [req |-> 0, tok |-> 0]]]

CountsOf(col) == [k \in Keys |-> IF col[k] = Nil THEN 0 ELSE col[k]]

AuditOf(col) == {[seq |-> s, digest |-> col[s]] : s \in {x \in Seqs : col[x] # Nil}}

SqlContents(R) ==
  Contents(KeysOf(R["virtual_keys"]), RowsOf(R["aws_credentials"]), RowsOf(R["aws_credentials"]),
           UsageOf(R["usage_windows"], R["usage_ledger"]), CountsOf(R["usage_metering"]),
           AuditOf(R["audit_log"]), RowsOf(R["denylist"]))

\* What a SQL database shows is a matter of its rows alone.
LEMMA SqlViewIs ==
  ASSUME NEW R, NEW sh, NEW v
  PROVE  Sqlite!View(Db(R, sh, v)) = SqlContents(R)
<1>1. Db(R, sh, v).rows = R
  BY DEF Db
<1> QED
  BY <1>1, Zenon DEF Sqlite!View, SqlContents, Contents, KeysOf, RowsOf, UsageOf, CountsOf, AuditOf,
     Sqlite!row_to_key, Sqlite!list_aws_credentials, Sqlite!Usage, Sqlite!get_usage_inner,
     Sqlite!list_metering_inner, Sqlite!list_audit, Sqlite!list_denylist

\* A key's grant reads back as it was written, and a deleted row as no key.
LEMMA KeysOfChanged ==
  ASSUME NEW col \in [Keys -> {Nil, "NULL", "[]", "[p]"}], NEW k \in Keys,
         NEW g \in {"all", "none", "some"}
  PROVE  /\ KeysOf(Changed(col, k, Sqlite!pools_to_storage(g))) = Changed(KeysOf(col), k, g)
         /\ KeysOf(Changed(col, k, Nil)) = Changed(KeysOf(col), k, Nil)
         /\ Sqlite!pools_to_storage(g) \in {"NULL", "[]", "[p]"}
<1> DEFINE v == Sqlite!pools_to_storage(g)
<1>1. /\ g = "all" => v = "NULL"
      /\ g = "none" => v = "[]"
      /\ g = "some" => v = "[p]"
  BY DEF Sqlite!pools_to_storage
<1>2. /\ Sqlite!pools_from_storage("NULL") = "all"
      /\ Sqlite!pools_from_storage("[]") = "none"
      /\ Sqlite!pools_from_storage("[p]") = "some"
  BY DEF Sqlite!pools_from_storage
<1>3. v \in {"NULL", "[]", "[p]"} /\ Sqlite!pools_from_storage(v) = g /\ v # Nil
  <2> HIDE DEF v
  <2> QED BY <1>1, <1>2, NilIsNone
<1> HIDE DEF v
<1>4. KeysOf(Changed(col, k, v)) = Changed(KeysOf(col), k, g)
  BY <1>3 DEF KeysOf, Changed
<1>5. KeysOf(Changed(col, k, Nil)) = Changed(KeysOf(col), k, Nil)
  BY DEF KeysOf, Changed
<1> QED BY <1>3, <1>4, <1>5 DEF v

\* A row that is written is in its table's listing, one that is deleted is not.
LEMMA RowsOfChanged ==
  ASSUME NEW x \in {"secret", "denied"}, NEW col \in [Keys -> {Nil, x}], NEW k \in Keys
  PROVE  /\ RowsOf(Changed(col, k, x)) = RowsOf(col) \cup {k}
         /\ RowsOf(Changed(col, k, Nil)) = RowsOf(col) \ {k}
BY NilIsNone DEF RowsOf, Changed

\* The usage of a key is what its two tables hold together.
LEMMA UsageOfChanged ==
  ASSUME NEW ws \in [Keys -> Nat \cup {Nil}], NEW ls \in [Keys -> Nat \cup {Nil}], NEW k \in Keys,
         NEW w \in Nat, NEW l \in Nat
  PROVE  /\ UsageOf(Changed(ws, k, w), Changed(ls, k, l))
              = Changed(UsageOf(ws, ls), k, Kept([req |-> w, tok |-> l]))
         /\ UsageOf(Changed(ws, k, Nil), Changed(ls, k, Nil)) = Changed(UsageOf(ws, ls), k, Nil)
<1>1. w # Nil /\ l # Nil /\ Sqlite!u(w) = w /\ Sqlite!u(l) = l
  BY NilIsNone DEF Sqlite!u
<1> DEFINE u == Kept([req |-> w, tok |-> l])
           ws2 == Changed(ws, k, w)
           ls2 == Changed(ls, k, l)
           ws3 == Changed(ws, k, Nil)
           ls3 == Changed(ls, k, Nil)
<1>2. ASSUME NEW x \in Keys
      PROVE  /\ UsageOf(ws2, ls2)[x] = IF x = k THEN u ELSE UsageOf(ws, ls)[x]
             /\ UsageOf(ws3, ls3)[x] = IF x = k THEN Nil ELSE UsageOf(ws, ls)[x]
  <2>1. /\ ws2[x] = IF x = k THEN w ELSE ws[x]
        /\ ls2[x] = IF x = k THEN l ELSE ls[x]
        /\ ws3[x] = IF x = k THEN Nil ELSE ws[x]
        /\ ls3[x] = IF x = k THEN Nil ELSE ls[x]
    BY DEF Changed
  <2> HIDE DEF ws2, ls2, ws3, ls3
  <2> QED BY <2>1, <1>1 DEF UsageOf, Kept, C!Zero
<1> HIDE DEF u, ws2, ls2, ws3, ls3
<1>3. /\ UsageOf(ws2, ls2) = [x \in Keys |-> UsageOf(ws2, ls2)[x]]
      /\ UsageOf(ws3, ls3) = [x \in Keys |-> UsageOf(ws3, ls3)[x]]
      /\ UsageOf(ws, ls) = [x \in Keys |-> UsageOf(ws, ls)[x]]
  BY DEF UsageOf
<1>4. UsageOf(ws2, ls2) = Changed(UsageOf(ws, ls), k, u)
  BY <1>2, <1>3 DEF Changed
<1>5. UsageOf(ws3, ls3) = Changed(UsageOf(ws, ls), k, Nil)
  BY <1>2, <1>3 DEF Changed
<1> QED BY <1>4, <1>5 DEF u, ws2, ls2, ws3, ls3

\* An addition to a metering row, or to none, counts one.
LEMMA CountsOfChanged ==
  ASSUME NEW col \in [Keys -> Nat \cup {Nil}], NEW k \in Keys
  PROVE  /\ CountsOf(Changed(col, k, Sqlite!Sum(col[k], 1)))
              = Changed(CountsOf(col), k, CountsOf(col)[k] + 1)
         /\ Sqlite!Sum(col[k], 1) \in Nat
<1>1. Sqlite!Sum(col[k], 1) = CountsOf(col)[k] + 1 /\ CountsOf(col)[k] \in Nat
  BY DEF CountsOf, Sqlite!Sum
<1>2. Sqlite!Sum(col[k], 1) # Nil
  BY <1>1, NilIsNone
<1> DEFINE s == Sqlite!Sum(col[k], 1)
<1> HIDE DEF s
<1>3. CountsOf(Changed(col, k, s)) = Changed(CountsOf(col), k, s)
  BY <1>2 DEF CountsOf, Changed, s
<1>4. s = CountsOf(col)[k] + 1 /\ s \in Nat
  BY <1>1 DEF s
<1> QED BY <1>3, <1>4 DEF s

\* A record that is written replaces the one of its number.
LEMMA AuditOfChanged ==
  ASSUME NEW col \in [Seqs -> Nodes \cup {Nil}], NEW s \in Seqs, NEW g \in Nodes
  PROVE  AuditOf(Changed(col, s, g))
           = {r \in AuditOf(col) : r.seq # s} \cup {[seq |-> s, digest |-> g]}
<1> DEFINE col2 == [col EXCEPT ![s] = g]
           A2 == {r \in AuditOf(col) : r.seq # s} \cup {[seq |-> s, digest |-> g]}
<1>1. g # Nil
  BY NilIsNone
<1>2. ASSUME NEW r \in AuditOf(col2) PROVE r \in A2
  <2>1. PICK x \in Seqs : col2[x] # Nil /\ r = [seq |-> x, digest |-> col2[x]]
    BY <1>2 DEF AuditOf
  <2>2. CASE x = s
    BY <2>1, <2>2
  <2>3. CASE x # s
    <3>1. col2[x] = col[x] /\ r.seq = x
      BY <2>1, <2>3
    <3>2. r \in AuditOf(col)
      BY <2>1, <3>1 DEF AuditOf
    <3> QED BY <3>1, <3>2, <2>3
  <2> QED BY <2>2, <2>3
<1>3. ASSUME NEW r \in A2 PROVE r \in AuditOf(col2)
  <2>1. CASE r = [seq |-> s, digest |-> g]
    <3>1. s \in {x \in Seqs : col2[x] # Nil} /\ r = [seq |-> s, digest |-> col2[s]]
      BY <1>1, <2>1
    <3> HIDE DEF col2
    <3> QED BY <3>1 DEF AuditOf
  <2>2. CASE r \in AuditOf(col) /\ r.seq # s
    <3>1. PICK x \in Seqs : col[x] # Nil /\ r = [seq |-> x, digest |-> col[x]]
      BY <2>2 DEF AuditOf
    <3>2. x # s /\ col2[x] = col[x]
      BY <2>2, <3>1
    <3> QED BY <3>1, <3>2 DEF AuditOf
  <2> QED BY <2>1, <2>2
<1> QED BY <1>2, <1>3 DEF Changed

-----------------------------------------------------------------------------
(* The methods of the SQL backends *)

\* A method of one statement is one section.
LEMMA AutocommitOne ==
  ASSUME NEW a
  PROVE  Sqlite!Autocommit(<<a>>) = <<<<a>>>> /\ Postgres!Autocommit(<<a>>) = <<<<a>>>>
BY DEF Sqlite!Autocommit, Postgres!Autocommit

SqlSection(c) ==
  CASE c.op = "put_key"      -> <<Sqlite!put_key_inner(c)>>
    [] c.op = "mint"         -> <<Sqlite!put_key_inner(c), Sqlite!put_aws_credential_inner(c)>>
    [] c.op = "delete_key"   -> <<Sqlite!Delete("virtual_keys", c.key),
                                  Sqlite!Delete("usage_windows", c.key),
                                  Sqlite!Delete("usage_ledger", c.key),
                                  Sqlite!Delete("aws_credentials", c.key)>>
    [] c.op = "put_usage"    -> <<Sqlite!Delete("usage_ledger", c.key),
                                  Sqlite!Upsert("usage_windows", c.key, c.by.req),
                                  Sqlite!Upsert("usage_ledger", c.key, c.by.tok)>>
    [] c.op = "add_usage"    -> <<Sqlite!Add("usage_windows", c.key, c.by.req),
                                  Sqlite!Add("usage_ledger", c.key, c.by.tok)>>
    [] c.op = "add_metering" -> <<Sqlite!Add("usage_metering", c.key, 1)>>
    [] c.op = "append_audit" -> <<Sqlite!Upsert("audit_log", c.seq, c.digest)>>
    [] c.op = "add_denylist" -> <<Sqlite!Upsert("denylist", c.key, "denied")>>

\* On both SQL backends every call of the contract is a single section.
LEMMA SqlPrograms ==
  ASSUME NEW c \in C!Calls
  PROVE  Sqlite!Program(c) = <<SqlSection(c)>> /\ Postgres!Program(c) = <<SqlSection(c)>>
<1> USE DEF Sqlite!Program, Postgres!Program, SqlSection
<1>1. CASE c.op = "put_key"
  <2>1. Sqlite!Program(c) = Sqlite!put_key(c) /\ Postgres!Program(c) = Postgres!put_key(c)
        /\ SqlSection(c) = <<Sqlite!put_key_inner(c)>>
    BY <1>1
  <2>2. Postgres!KeyUpsert(c) = Sqlite!put_key_inner(c)
    BY DEF Postgres!KeyUpsert, Sqlite!put_key_inner, Postgres!pools_to_storage,
           Sqlite!pools_to_storage, Postgres!Upsert, Sqlite!Upsert
  <2> QED BY <2>1, <2>2, AutocommitOne DEF Sqlite!put_key, Postgres!put_key
<1>2. CASE c.op = "mint"
  <2>1. Sqlite!Program(c) = Sqlite!put_key_with_aws_credential(c)
        /\ Postgres!Program(c) = Postgres!put_key_with_aws_credential(c)
        /\ SqlSection(c) = <<Sqlite!put_key_inner(c), Sqlite!put_aws_credential_inner(c)>>
    BY <1>2
  <2>2. Postgres!KeyUpsert(c) = Sqlite!put_key_inner(c)
    BY DEF Postgres!KeyUpsert, Sqlite!put_key_inner, Postgres!pools_to_storage,
           Sqlite!pools_to_storage, Postgres!Upsert, Sqlite!Upsert
  <2>3. Postgres!CredentialUpsert(c) = Sqlite!put_aws_credential_inner(c)
    BY DEF Postgres!CredentialUpsert, Sqlite!put_aws_credential_inner, Postgres!Upsert, Sqlite!Upsert
  <2> QED BY <2>1, <2>2, <2>3
          DEF Sqlite!put_key_with_aws_credential, Postgres!put_key_with_aws_credential,
              Sqlite!Transaction, Postgres!Transaction
<1>3. CASE c.op = "delete_key"
  BY <1>3, Zenon DEF Sqlite!delete_key, Postgres!delete_key, Sqlite!Transaction, Postgres!Transaction,
              Sqlite!Delete, Postgres!Delete
<1>4. CASE c.op = "put_usage"
  BY <1>4, Zenon DEF Sqlite!put_usage_inner, Postgres!put_usage, Sqlite!Transaction,
              Postgres!Transaction, Sqlite!Delete, Postgres!Delete, Sqlite!Upsert, Postgres!Upsert
<1>5. CASE c.op = "add_usage"
  BY <1>5, Zenon DEF Sqlite!add_usage_inner, Postgres!add_usage, Sqlite!Transaction,
              Postgres!Transaction, Sqlite!Add, Postgres!Add
<1>6. CASE c.op = "add_metering"
  <2>1. Sqlite!Program(c) = Sqlite!add_metering_inner(c) /\ Postgres!Program(c) = Postgres!add_metering(c)
        /\ SqlSection(c) = <<Sqlite!Add("usage_metering", c.key, 1)>>
    BY <1>6
  <2>2. Postgres!Add("usage_metering", c.key, 1) = Sqlite!Add("usage_metering", c.key, 1)
    BY DEF Postgres!Add, Sqlite!Add
  <2> QED BY <2>1, <2>2, AutocommitOne DEF Sqlite!add_metering_inner, Postgres!add_metering
<1>7. CASE c.op = "append_audit"
  <2>1. Sqlite!Program(c) = Sqlite!append_audit(c) /\ Postgres!Program(c) = Postgres!append_audit(c)
        /\ SqlSection(c) = <<Sqlite!Upsert("audit_log", c.seq, c.digest)>>
    BY <1>7
  <2>2. Postgres!Upsert("audit_log", c.seq, c.digest) = Sqlite!Upsert("audit_log", c.seq, c.digest)
    BY DEF Postgres!Upsert, Sqlite!Upsert
  <2> QED BY <2>1, <2>2, AutocommitOne DEF Sqlite!append_audit, Postgres!append_audit
<1>8. CASE c.op = "add_denylist"
  <2>1. Sqlite!Program(c) = Sqlite!add_denylist(c) /\ Postgres!Program(c) = Postgres!add_denylist(c)
        /\ SqlSection(c) = <<Sqlite!Upsert("denylist", c.key, "denied")>>
    BY <1>8
  <2>2. Postgres!Upsert("denylist", c.key, "denied") = Sqlite!Upsert("denylist", c.key, "denied")
    BY DEF Postgres!Upsert, Sqlite!Upsert
  <2> QED BY <2>1, <2>2, AutocommitOne DEF Sqlite!add_denylist, Postgres!add_denylist
<1> HIDE DEF Sqlite!Program, Postgres!Program, SqlSection
<1> QED BY CallsByOp, <1>1, <1>2, <1>3, <1>4, <1>5, <1>6, <1>7, <1>8

IsRows(R) == R = [x \in Sqlite!Tables |-> R[x]]

\* A row that is put changes its table and no other.
LEMMA PutColumns ==
  ASSUME NEW R, IsRows(R), NEW t \in Sqlite!Tables, NEW r, NEW v
  PROVE  /\ IsRows(Put(R, t, r, v))
         /\ Put(R, t, r, v)[t] = Changed(R[t], r, v)
         /\ \A x \in Sqlite!Tables : x # t => Put(R, t, r, v)[x] = R[x]
BY DEF Put, IsRows, Changed

\* The tables that the calls write.
LEMMA TableNames ==
  /\ "virtual_keys" \in Sqlite!Tables /\ "aws_credentials" \in Sqlite!Tables
  /\ "usage_windows" \in Sqlite!Tables /\ "usage_ledger" \in Sqlite!Tables
  /\ "usage_metering" \in Sqlite!Tables /\ "audit_log" \in Sqlite!Tables
  /\ "denylist" \in Sqlite!Tables
BY DEF Sqlite!Tables

\* What a section of one to five statements does.
LEMMA SqlRun1 ==
  ASSUME NEW st, NEW a
  PROVE  Sqlite!Run(st, <<a>>) = Sqlite!Exec(st, a)
BY SqlRunOf, Len(<<a>>) = 1 DEF SqlSteps

\* The run of two statements, ...
LEMMA SqlRun2 ==
  ASSUME NEW st, NEW a, NEW b, NEW e1, NEW e2,
         e1 = Sqlite!Exec(st, a), e2 = Sqlite!Exec(e1, b)
  PROVE  Sqlite!Run(st, <<a, b>>) = e2
<1> DEFINE s == <<a, b>>
<1>1. Len(s) = 2 /\ Len(s) \in 1..5 /\ s[1] = a /\ s[2] = b
  OBVIOUS
<1> HIDE DEF s
<1>2. PICK h : Sqlite!Run(st, s) = h[Len(s)] /\ SqlSteps(h, st, s)
  BY <1>1, SqlRunOf
<1>3. h[1] = e1 /\ h[2] = e2
  BY <1>1, <1>2 DEF SqlSteps
<1> QED BY <1>1, <1>2, <1>3 DEF s

\* ... of three, ...
LEMMA SqlRun3 ==
  ASSUME NEW st, NEW a, NEW b, NEW c, NEW e1, NEW e2, NEW e3,
         e1 = Sqlite!Exec(st, a), e2 = Sqlite!Exec(e1, b), e3 = Sqlite!Exec(e2, c)
  PROVE  Sqlite!Run(st, <<a, b, c>>) = e3
<1> DEFINE s == <<a, b, c>>
<1>1. Len(s) = 3 /\ Len(s) \in 1..5 /\ s[1] = a /\ s[2] = b /\ s[3] = c
  OBVIOUS
<1> HIDE DEF s
<1>2. PICK h : Sqlite!Run(st, s) = h[Len(s)] /\ SqlSteps(h, st, s)
  BY <1>1, SqlRunOf
<1>3. h[1] = e1 /\ h[2] = e2 /\ h[3] = e3
  BY <1>1, <1>2 DEF SqlSteps
<1> QED BY <1>1, <1>2, <1>3 DEF s

\* ... of four ...
LEMMA SqlRun4 ==
  ASSUME NEW st, NEW a, NEW b, NEW c, NEW d, NEW e1, NEW e2, NEW e3, NEW e4,
         e1 = Sqlite!Exec(st, a), e2 = Sqlite!Exec(e1, b), e3 = Sqlite!Exec(e2, c), e4 = Sqlite!Exec(e3, d)
  PROVE  Sqlite!Run(st, <<a, b, c, d>>) = e4
<1> DEFINE s == <<a, b, c, d>>
<1>1. Len(s) = 4 /\ Len(s) \in 1..5 /\ s[1] = a /\ s[2] = b /\ s[3] = c /\ s[4] = d
  OBVIOUS
<1> HIDE DEF s
<1>2. PICK h : Sqlite!Run(st, s) = h[Len(s)] /\ SqlSteps(h, st, s)
  BY <1>1, SqlRunOf
<1>3. h[1] = e1 /\ h[2] = e2 /\ h[3] = e3 /\ h[4] = e4
  BY <1>1, <1>2 DEF SqlSteps
<1> QED BY <1>1, <1>2, <1>3 DEF s

\* ... and of five.
LEMMA SqlRun5 ==
  ASSUME NEW st, NEW a, NEW b, NEW c, NEW d, NEW e, NEW e1, NEW e2, NEW e3, NEW e4, NEW e5,
         e1 = Sqlite!Exec(st, a), e2 = Sqlite!Exec(e1, b), e3 = Sqlite!Exec(e2, c), e4 = Sqlite!Exec(e3, d), e5 = Sqlite!Exec(e4, e)
  PROVE  Sqlite!Run(st, <<a, b, c, d, e>>) = e5
<1> DEFINE s == <<a, b, c, d, e>>
<1>1. Len(s) = 5 /\ Len(s) \in 1..5 /\ s[1] = a /\ s[2] = b /\ s[3] = c /\ s[4] = d /\ s[5] = e
  OBVIOUS
<1> HIDE DEF s
<1>2. PICK h : Sqlite!Run(st, s) = h[Len(s)] /\ SqlSteps(h, st, s)
  BY <1>1, SqlRunOf
<1>3. h[1] = e1 /\ h[2] = e2 /\ h[3] = e3 /\ h[4] = e4 /\ h[5] = e5
  BY <1>1, <1>2 DEF SqlSteps
<1> QED BY <1>1, <1>2, <1>3 DEF s

\* The rows after a call are rows, and the contract allows them.
SqlAfter(R, c, had, R2) ==
  SqlRows(R2) /\ UsageWhole(R2) /\ SqlContents(R2) \in C!Effects(SqlContents(R), c, had)

SqlTakes(R, c) ==
  \A sh, ver, g, had :
    \E R2 : /\ Sqlite!Run(St(Db(R, sh, ver), g), SqlSection(c)) = St(Db(R2, sh, ver), g)
            /\ SqlAfter(R, c, had, R2)

\* The section of put_key takes the effect of the call, ...
LEMMA SqlPutKey ==
  ASSUME NEW c \in C!Calls, c.op = "put_key", NEW R, SqlRows(R), UsageWhole(R)
  PROVE  SqlTakes(R, c)
<1> SUFFICES ASSUME NEW sh, NEW ver, NEW g, NEW had
             PROVE  \E R2 : /\ Sqlite!Run(St(Db(R, sh, ver), g), SqlSection(c)) = St(Db(R2, sh, ver), g)
                            /\ SqlAfter(R, c, had, R2)
  BY DEF SqlTakes
<1> DEFINE v == Sqlite!pools_to_storage(c.grant)
           R2 == Put(R, "virtual_keys", c.key, v)
<1>1. c.key \in Keys /\ c.grant \in {"all", "none", "some"}
  BY CallsByOp
<1>2. SqlSection(c) = <<Sqlite!Upsert("virtual_keys", c.key, v)>>
  BY DEF SqlSection, Sqlite!put_key_inner
<1>3. Sqlite!Run(St(Db(R, sh, ver), g), SqlSection(c)) = St(Db(R2, sh, ver), g)
  <2>1. Sqlite!Exec(St(Db(R, sh, ver), g), Sqlite!Upsert("virtual_keys", c.key, v))
          = St(Db(R2, sh, ver), g)
    BY ExecUpsert
  <2> HIDE DEF R2, v
  <2> QED BY <1>2, <2>1, SqlRun1
<1>4. /\ IsRows(R2)
      /\ R2["virtual_keys"] = Changed(R["virtual_keys"], c.key, v)
      /\ R2["aws_credentials"] = R["aws_credentials"] /\ R2["usage_windows"] = R["usage_windows"]
      /\ R2["usage_ledger"] = R["usage_ledger"] /\ R2["usage_metering"] = R["usage_metering"]
      /\ R2["audit_log"] = R["audit_log"] /\ R2["denylist"] = R["denylist"]
  <2>1. IsRows(R)
    BY DEF SqlRows, IsRows
  <2> HIDE DEF v
  <2> QED BY <2>1, PutColumns, TableNames
<1>5. /\ KeysOf(R2["virtual_keys"]) = Changed(KeysOf(R["virtual_keys"]), c.key, c.grant)
      /\ v \in {"NULL", "[]", "[p]"}
  BY <1>1, <1>4, KeysOfChanged DEF SqlRows
<1> HIDE DEF R2, v
<1>6. SqlRows(R2) /\ UsageWhole(R2)
  <2>1. R2["virtual_keys"] \in [Keys -> {Nil, "NULL", "[]", "[p]"}]
    BY <1>1, <1>4, <1>5 DEF SqlRows, Changed
  <2> QED BY <1>4, <2>1 DEF SqlRows, UsageWhole, IsRows
<1>7. SqlContents(R2) \in C!Effects(SqlContents(R), c, had)
  BY <1>4, <1>5, EffectOfPutKey DEF SqlContents
<1> QED BY <1>3, <1>6, <1>7 DEF SqlAfter
\* ... and so does the transaction of a mint, ...
LEMMA SqlMint ==
  ASSUME NEW c \in C!Calls, c.op = "mint", NEW R, SqlRows(R), UsageWhole(R)
  PROVE  SqlTakes(R, c)
<1> SUFFICES ASSUME NEW sh, NEW ver, NEW g, NEW had
             PROVE  \E R2 : /\ Sqlite!Run(St(Db(R, sh, ver), g), SqlSection(c)) = St(Db(R2, sh, ver), g)
                            /\ SqlAfter(R, c, had, R2)
  BY DEF SqlTakes
<1> DEFINE v  == Sqlite!pools_to_storage(c.grant)
           R1 == Put(R, "virtual_keys", c.key, v)
           R2 == Put(R1, "aws_credentials", c.key, "secret")
<1>1. c.key \in Keys /\ c.grant \in {"all", "none", "some"}
  BY CallsByOp
<1>2. SqlSection(c) = <<Sqlite!Upsert("virtual_keys", c.key, v),
                        Sqlite!Upsert("aws_credentials", c.key, "secret")>>
  BY DEF SqlSection, Sqlite!put_key_inner, Sqlite!put_aws_credential_inner
<1>3. Sqlite!Run(St(Db(R, sh, ver), g), SqlSection(c)) = St(Db(R2, sh, ver), g)
  <2>1. Sqlite!Exec(St(Db(R, sh, ver), g), Sqlite!Upsert("virtual_keys", c.key, v))
          = St(Db(R1, sh, ver), g)
    BY ExecUpsert
  <2> HIDE DEF R1
  <2>2. Sqlite!Exec(St(Db(R1, sh, ver), g), Sqlite!Upsert("aws_credentials", c.key, "secret"))
          = St(Db(R2, sh, ver), g)
    BY ExecUpsert
  <2> HIDE DEF R2, v
  <2> QED BY <1>2, <2>1, <2>2, SqlRun2
<1>4. /\ IsRows(R2)
      /\ R2["virtual_keys"] = Changed(R["virtual_keys"], c.key, v)
      /\ R2["aws_credentials"] = Changed(R["aws_credentials"], c.key, "secret")
      /\ R2["usage_windows"] = R["usage_windows"]
      /\ R2["usage_ledger"] = R["usage_ledger"] /\ R2["usage_metering"] = R["usage_metering"]
      /\ R2["audit_log"] = R["audit_log"] /\ R2["denylist"] = R["denylist"]
  <2>1. IsRows(R)
    BY DEF SqlRows, IsRows
  <2> HIDE DEF v
  <2>2. IsRows(R1) /\ R1["virtual_keys"] = Changed(R["virtual_keys"], c.key, v)
        /\ \A x \in Sqlite!Tables : x # "virtual_keys" => R1[x] = R[x]
    BY <2>1, PutColumns, TableNames
  <2> HIDE DEF R1
  <2>3. IsRows(R2) /\ R2["aws_credentials"] = Changed(R1["aws_credentials"], c.key, "secret")
        /\ \A x \in Sqlite!Tables : x # "aws_credentials" => R2[x] = R1[x]
    BY <2>2, PutColumns, TableNames
  <2> HIDE DEF R2
  <2> QED BY <2>2, <2>3, TableNames
<1> HIDE DEF R2
<1>c. R["aws_credentials"] \in [Keys -> {Nil, "secret"}] /\ "secret" # Nil
  BY NilIsNone DEF SqlRows
<1>5. /\ KeysOf(R2["virtual_keys"]) = Changed(KeysOf(R["virtual_keys"]), c.key, c.grant)
      /\ v \in {"NULL", "[]", "[p]"}
  BY <1>1, <1>4, KeysOfChanged DEF SqlRows
<1>6. RowsOf(R2["aws_credentials"]) = RowsOf(R["aws_credentials"]) \cup {c.key}
  BY <1>1, <1>4, <1>c, RowsOfChanged
<1> HIDE DEF v
<1>7. SqlRows(R2) /\ UsageWhole(R2)
  <2>1. R2["virtual_keys"] \in [Keys -> {Nil, "NULL", "[]", "[p]"}]
    BY <1>1, <1>4, <1>5 DEF SqlRows, Changed
  <2>2. R2["aws_credentials"] \in [Keys -> {Nil, "secret"}]
    BY <1>1, <1>4 DEF SqlRows, Changed
  <2> QED BY <1>4, <2>1, <2>2 DEF SqlRows, UsageWhole, IsRows
<1>8. SqlContents(R2) \in C!Effects(SqlContents(R), c, had)
  BY <1>4, <1>5, <1>6, EffectOfMint DEF SqlContents
<1> QED BY <1>3, <1>7, <1>8 DEF SqlAfter

\* ... that of a deletion, which removes the rows of every table, ...
LEMMA SqlDelete ==
  ASSUME NEW c \in C!Calls, c.op = "delete_key", NEW R, SqlRows(R), UsageWhole(R)
  PROVE  SqlTakes(R, c)
<1> SUFFICES ASSUME NEW sh, NEW ver, NEW g, NEW had
             PROVE  \E R2 : /\ Sqlite!Run(St(Db(R, sh, ver), g), SqlSection(c)) = St(Db(R2, sh, ver), g)
                            /\ SqlAfter(R, c, had, R2)
  BY DEF SqlTakes
<1> DEFINE R1 == Put(R, "virtual_keys", c.key, Nil)
           R2 == Put(R1, "usage_windows", c.key, Nil)
           R3 == Put(R2, "usage_ledger", c.key, Nil)
           R4 == Put(R3, "aws_credentials", c.key, Nil)
<1>1. c.key \in Keys
  BY CallsByOp
<1>2. SqlSection(c) = <<Sqlite!Delete("virtual_keys", c.key), Sqlite!Delete("usage_windows", c.key),
                        Sqlite!Delete("usage_ledger", c.key), Sqlite!Delete("aws_credentials", c.key)>>
  BY DEF SqlSection
<1>3. Sqlite!Run(St(Db(R, sh, ver), g), SqlSection(c)) = St(Db(R4, sh, ver), g)
  <2>1. Sqlite!Exec(St(Db(R, sh, ver), g), Sqlite!Delete("virtual_keys", c.key))
          = St(Db(R1, sh, ver), g)
    BY ExecUpsert
  <2> HIDE DEF R1
  <2>2. Sqlite!Exec(St(Db(R1, sh, ver), g), Sqlite!Delete("usage_windows", c.key))
          = St(Db(R2, sh, ver), g)
    BY ExecUpsert
  <2> HIDE DEF R2
  <2>3. Sqlite!Exec(St(Db(R2, sh, ver), g), Sqlite!Delete("usage_ledger", c.key))
          = St(Db(R3, sh, ver), g)
    BY ExecUpsert
  <2> HIDE DEF R3
  <2>4. Sqlite!Exec(St(Db(R3, sh, ver), g), Sqlite!Delete("aws_credentials", c.key))
          = St(Db(R4, sh, ver), g)
    BY ExecUpsert
  <2> HIDE DEF R4
  <2> QED BY <1>2, <2>1, <2>2, <2>3, <2>4, SqlRun4
<1>4. /\ IsRows(R4)
      /\ R4["virtual_keys"] = Changed(R["virtual_keys"], c.key, Nil)
      /\ R4["aws_credentials"] = Changed(R["aws_credentials"], c.key, Nil)
      /\ R4["usage_windows"] = Changed(R["usage_windows"], c.key, Nil)
      /\ R4["usage_ledger"] = Changed(R["usage_ledger"], c.key, Nil)
      /\ R4["usage_metering"] = R["usage_metering"]
      /\ R4["audit_log"] = R["audit_log"] /\ R4["denylist"] = R["denylist"]
  <2>1. IsRows(R)
    BY DEF SqlRows, IsRows
  <2>2. IsRows(R1) /\ R1["virtual_keys"] = Changed(R["virtual_keys"], c.key, Nil)
        /\ \A x \in Sqlite!Tables : x # "virtual_keys" => R1[x] = R[x]
    BY <2>1, PutColumns, TableNames
  <2> HIDE DEF R1
  <2>3. IsRows(R2) /\ R2["usage_windows"] = Changed(R1["usage_windows"], c.key, Nil)
        /\ \A x \in Sqlite!Tables : x # "usage_windows" => R2[x] = R1[x]
    BY <2>2, PutColumns, TableNames
  <2> HIDE DEF R2
  <2>4. IsRows(R3) /\ R3["usage_ledger"] = Changed(R2["usage_ledger"], c.key, Nil)
        /\ \A x \in Sqlite!Tables : x # "usage_ledger" => R3[x] = R2[x]
    BY <2>3, PutColumns, TableNames
  <2> HIDE DEF R3
  <2>5. IsRows(R4) /\ R4["aws_credentials"] = Changed(R3["aws_credentials"], c.key, Nil)
        /\ \A x \in Sqlite!Tables : x # "aws_credentials" => R4[x] = R3[x]
    BY <2>4, PutColumns, TableNames
  <2> HIDE DEF R4
  <2> QED BY <2>2, <2>3, <2>4, <2>5, TableNames
<1> HIDE DEF R4
<1>c. R["aws_credentials"] \in [Keys -> {Nil, "secret"}] /\ "secret" # Nil
  BY NilIsNone DEF SqlRows
<1>u. R["usage_windows"] \in [Keys -> Nat \cup {Nil}] /\ R["usage_ledger"] \in [Keys -> Nat \cup {Nil}]
  BY DEF SqlRows
<1>5. KeysOf(R4["virtual_keys"]) = Changed(KeysOf(R["virtual_keys"]), c.key, Nil)
  BY <1>1, <1>4, KeysOfChanged DEF SqlRows
<1>6. RowsOf(R4["aws_credentials"]) = RowsOf(R["aws_credentials"]) \ {c.key}
  BY <1>1, <1>4, <1>c, RowsOfChanged
<1>7. UsageOf(R4["usage_windows"], R4["usage_ledger"])
        = Changed(UsageOf(R["usage_windows"], R["usage_ledger"]), c.key, Nil)
  BY <1>1, <1>4, <1>u, UsageOfChanged
<1>8. SqlRows(R4) /\ UsageWhole(R4)
  <2>1. R4["virtual_keys"] \in [Keys -> {Nil, "NULL", "[]", "[p]"}]
    BY <1>1, <1>4 DEF SqlRows, Changed
  <2>2. R4["aws_credentials"] \in [Keys -> {Nil, "secret"}]
    BY <1>1, <1>4 DEF SqlRows, Changed
  <2>3. R4["usage_windows"] \in [Keys -> Nat \cup {Nil}]
    BY <1>1, <1>4 DEF SqlRows, Changed
  <2>4. R4["usage_ledger"] \in [Keys -> Nat \cup {Nil}]
    BY <1>1, <1>4 DEF SqlRows, Changed
  <2>5. UsageWhole(R4)
    BY <1>1, <1>4 DEF SqlRows, UsageWhole, Changed
  <2> QED BY <1>4, <2>1, <2>2, <2>3, <2>4, <2>5 DEF SqlRows, IsRows
<1>9. SqlContents(R4) \in C!Effects(SqlContents(R), c, had)
  BY <1>4, <1>5, <1>6, <1>7, EffectOfDelete DEF SqlContents
<1> QED BY <1>3, <1>8, <1>9 DEF SqlAfter

\* ... that of put_usage, which writes both tables of the usage, ...
LEMMA SqlPutUsage ==
  ASSUME NEW c \in C!Calls, c.op = "put_usage", NEW R, SqlRows(R), UsageWhole(R)
  PROVE  SqlTakes(R, c)
<1> SUFFICES ASSUME NEW sh, NEW ver, NEW g, NEW had
             PROVE  \E R2 : /\ Sqlite!Run(St(Db(R, sh, ver), g), SqlSection(c)) = St(Db(R2, sh, ver), g)
                            /\ SqlAfter(R, c, had, R2)
  BY DEF SqlTakes
<1> DEFINE R1 == Put(R, "usage_ledger", c.key, Nil)
           R2 == Put(R1, "usage_windows", c.key, c.by.req)
           R3 == Put(R2, "usage_ledger", c.key, c.by.tok)
<1>1. c.key \in Keys /\ c.by.req \in Nat /\ c.by.tok \in Nat /\ c.by = [req |-> c.by.req, tok |-> c.by.tok]
  BY CallsByOp DEF C!Charge
<1>2. SqlSection(c) = <<Sqlite!Delete("usage_ledger", c.key),
                        Sqlite!Upsert("usage_windows", c.key, c.by.req),
                        Sqlite!Upsert("usage_ledger", c.key, c.by.tok)>>
  BY DEF SqlSection
<1>3. Sqlite!Run(St(Db(R, sh, ver), g), SqlSection(c)) = St(Db(R3, sh, ver), g)
  <2>1. Sqlite!Exec(St(Db(R, sh, ver), g), Sqlite!Delete("usage_ledger", c.key))
          = St(Db(R1, sh, ver), g)
    BY ExecUpsert
  <2> HIDE DEF R1
  <2>2. Sqlite!Exec(St(Db(R1, sh, ver), g), Sqlite!Upsert("usage_windows", c.key, c.by.req))
          = St(Db(R2, sh, ver), g)
    BY ExecUpsert
  <2> HIDE DEF R2
  <2>3. Sqlite!Exec(St(Db(R2, sh, ver), g), Sqlite!Upsert("usage_ledger", c.key, c.by.tok))
          = St(Db(R3, sh, ver), g)
    BY ExecUpsert
  <2> HIDE DEF R3
  <2> QED BY <1>2, <2>1, <2>2, <2>3, SqlRun3
<1>4. /\ IsRows(R3)
      /\ R3["virtual_keys"] = R["virtual_keys"] /\ R3["aws_credentials"] = R["aws_credentials"]
      /\ R3["usage_windows"] = Changed(R["usage_windows"], c.key, c.by.req)
      /\ R3["usage_ledger"] = Changed(R["usage_ledger"], c.key, c.by.tok)
      /\ R3["usage_metering"] = R["usage_metering"]
      /\ R3["audit_log"] = R["audit_log"] /\ R3["denylist"] = R["denylist"]
  <2>1. IsRows(R)
    BY DEF SqlRows, IsRows
  <2>2. IsRows(R1) /\ R1["usage_ledger"] = Changed(R["usage_ledger"], c.key, Nil)
        /\ \A x \in Sqlite!Tables : x # "usage_ledger" => R1[x] = R[x]
    BY <2>1, PutColumns, TableNames
  <2> HIDE DEF R1
  <2>3. IsRows(R2) /\ R2["usage_windows"] = Changed(R1["usage_windows"], c.key, c.by.req)
        /\ \A x \in Sqlite!Tables : x # "usage_windows" => R2[x] = R1[x]
    BY <2>2, PutColumns, TableNames
  <2> HIDE DEF R2
  <2>4. IsRows(R3) /\ R3["usage_ledger"] = Changed(R2["usage_ledger"], c.key, c.by.tok)
        /\ \A x \in Sqlite!Tables : x # "usage_ledger" => R3[x] = R2[x]
    BY <2>3, PutColumns, TableNames
  <2> HIDE DEF R3
  <2>5. R3["usage_ledger"] = Changed(Changed(R["usage_ledger"], c.key, Nil), c.key, c.by.tok)
    BY <2>2, <2>3, <2>4, TableNames
  <2>6. Changed(Changed(R["usage_ledger"], c.key, Nil), c.key, c.by.tok)
          = Changed(R["usage_ledger"], c.key, c.by.tok)
    BY <1>1 DEF SqlRows, Changed
  <2> QED BY <2>2, <2>3, <2>4, <2>5, <2>6, TableNames
<1> HIDE DEF R3
<1>5. UsageOf(R3["usage_windows"], R3["usage_ledger"])
        = Changed(UsageOf(R["usage_windows"], R["usage_ledger"]), c.key, Kept(c.by))
  <2>1. UsageOf(R3["usage_windows"], R3["usage_ledger"])
          = Changed(UsageOf(R["usage_windows"], R["usage_ledger"]), c.key,
                    Kept([req |-> c.by.req, tok |-> c.by.tok]))
    BY <1>1, <1>4, UsageOfChanged DEF SqlRows
  <2> QED BY <2>1, <1>1
<1>6. SqlRows(R3) /\ UsageWhole(R3)
  <2>1. R3["usage_windows"] \in [Keys -> Nat \cup {Nil}]
    BY <1>1, <1>4 DEF SqlRows, Changed
  <2>2. R3["usage_ledger"] \in [Keys -> Nat \cup {Nil}]
    BY <1>1, <1>4 DEF SqlRows, Changed
  <2>3. UsageWhole(R3)
    BY <1>1, <1>4, NilIsNone DEF SqlRows, UsageWhole, Changed
  <2> QED BY <1>4, <2>1, <2>2, <2>3 DEF SqlRows, IsRows
<1>7. SqlContents(R3) \in C!Effects(SqlContents(R), c, had)
  BY <1>4, <1>5, EffectOfPutUsage DEF SqlContents
<1> QED BY <1>3, <1>6, <1>7 DEF SqlAfter

\* The sums of the two tables are the sum of the record.
LEMMA SumsAccumulate ==
  ASSUME NEW ow \in Nat \cup {Nil}, NEW ol \in Nat \cup {Nil}, ow = Nil => ol = Nil,
         NEW by \in {C!Charge, C!Refund}, NEW u,
         u = IF ow = Nil THEN Nil ELSE Kept([req |-> Sqlite!u(ow), tok |-> Sqlite!u(ol)])
  PROVE  /\ Sqlite!Sum(ow, by.req) \in Nat /\ Sqlite!Sum(ol, by.tok) \in Nat
         /\ Kept([req |-> Sqlite!Sum(ow, by.req), tok |-> Sqlite!Sum(ol, by.tok)])
              \in C!Accumulated(u, by)
<1> DEFINE old == IF u = Nil THEN [read |-> C!Zero, owed |-> C!Zero] ELSE u
           sum == [f \in {"req", "tok"} |-> old.read[f] - old.owed[f] + by[f]]
           flo == [f \in {"req", "tok"} |-> C!Floored(sum[f])]
           w == Sqlite!Sum(ow, by.req)
           l == Sqlite!Sum(ol, by.tok)
<1>1. by.req \in {0, 1} /\ by.tok \in {1, -1}
  BY DEF C!Charge, C!Refund
<1>2. u = Nil <=> ow = Nil
  <2>1. ASSUME ow # Nil PROVE u # Nil
    <3> DEFINE r == [req |-> Sqlite!u(ow), tok |-> Sqlite!u(ol)]
    <3>1. r \in [{"req", "tok"} -> Int] /\ C!Zero \in [{"req", "tok"} -> Int]
      BY DEF Sqlite!u, C!Zero
    <3>2. u = [read |-> r, owed |-> C!Zero]
      BY <2>1 DEF Kept
    <3> HIDE DEF r
    <3> QED BY <3>1, <3>2, NilIsNone
  <2> QED BY <2>1
<1>z. Sqlite!u(ow) = (IF ow = Nil THEN 0 ELSE ow) /\ Sqlite!u(ol) = (IF ol = Nil THEN 0 ELSE ol)
  BY DEF Sqlite!u
<1>3. /\ old.read["req"] - old.owed["req"] = IF ow = Nil THEN 0 ELSE ow
      /\ old.read["tok"] - old.owed["tok"] = IF ol = Nil THEN 0 ELSE ol
  <2>1. CASE ow = Nil
    <3>1. old.read = C!Zero /\ old.owed = C!Zero
      BY <1>2, <2>1
    <3> HIDE DEF old
    <3> QED BY <2>1, <3>1 DEF C!Zero
  <2>2. CASE ow # Nil
    <3>1. old.read = [req |-> Sqlite!u(ow), tok |-> Sqlite!u(ol)] /\ old.owed = C!Zero
      BY <1>2, <2>2 DEF Kept
    <3> HIDE DEF old
    <3> QED BY <1>z, <2>2, <3>1 DEF C!Zero
  <2> QED BY <2>1, <2>2
<1> HIDE DEF old
<1>4. /\ w = C!Floored(sum["req"]) /\ l = C!Floored(sum["tok"])
      /\ w \in Nat /\ l \in Nat
  BY <1>1, <1>3 DEF Sqlite!Sum, C!Floored
<1>5. flo = [req |-> C!Floored(sum["req"]), tok |-> C!Floored(sum["tok"])]
  <2> HIDE DEF sum
  <2> QED OBVIOUS
<1>6. Kept(flo) \in C!Accumulated(u, by)
  BY DEF C!Accumulated, old, Kept
<1> HIDE DEF sum, flo, w, l
<1>7. [req |-> w, tok |-> l] = flo
  BY <1>4, <1>5
<1> QED BY <1>4, <1>6, <1>7 DEF w, l

\* ... that of add_usage, whose two upserts add to both, ...
LEMMA SqlAddUsage ==
  ASSUME NEW c \in C!Calls, c.op = "add_usage", NEW R, SqlRows(R), UsageWhole(R)
  PROVE  SqlTakes(R, c)
<1> SUFFICES ASSUME NEW sh, NEW ver, NEW g, NEW had
             PROVE  \E R2 : /\ Sqlite!Run(St(Db(R, sh, ver), g), SqlSection(c)) = St(Db(R2, sh, ver), g)
                            /\ SqlAfter(R, c, had, R2)
  BY DEF SqlTakes
<1> DEFINE w  == Sqlite!Sum(R["usage_windows"][c.key], c.by.req)
           l  == Sqlite!Sum(R["usage_ledger"][c.key], c.by.tok)
           u  == UsageOf(R["usage_windows"], R["usage_ledger"])[c.key]
           R1 == Put(R, "usage_windows", c.key, w)
           R2 == Put(R1, "usage_ledger", c.key, l)
<1>1. c.key \in Keys /\ c.by \in {C!Charge, C!Refund}
  BY CallsByOp
<1>u. R["usage_windows"] \in [Keys -> Nat \cup {Nil}] /\ R["usage_ledger"] \in [Keys -> Nat \cup {Nil}]
  BY DEF SqlRows
<1>2. SqlSection(c) = <<Sqlite!Add("usage_windows", c.key, c.by.req),
                        Sqlite!Add("usage_ledger", c.key, c.by.tok)>>
  BY DEF SqlSection
<1>3. w \in Nat /\ l \in Nat /\ Kept([req |-> w, tok |-> l]) \in C!Accumulated(u, c.by)
  <2>1. u = IF R["usage_windows"][c.key] = Nil THEN Nil
            ELSE Kept([req |-> Sqlite!u(R["usage_windows"][c.key]),
                       tok |-> Sqlite!u(R["usage_ledger"][c.key])])
    BY <1>1 DEF UsageOf, Kept, C!Zero
  <2>2. R["usage_windows"][c.key] = Nil => R["usage_ledger"][c.key] = Nil
    BY <1>1 DEF UsageWhole
  <2>3. R["usage_windows"][c.key] \in Nat \cup {Nil} /\ R["usage_ledger"][c.key] \in Nat \cup {Nil}
    BY <1>1, <1>u
  <2> HIDE DEF u
  <2> QED BY <1>1, <2>1, <2>2, <2>3, SumsAccumulate
<1> HIDE DEF u
<1>4. /\ IsRows(R2)
      /\ R2["virtual_keys"] = R["virtual_keys"] /\ R2["aws_credentials"] = R["aws_credentials"]
      /\ R2["usage_windows"] = Changed(R["usage_windows"], c.key, w)
      /\ R2["usage_ledger"] = Changed(R["usage_ledger"], c.key, l)
      /\ R2["usage_metering"] = R["usage_metering"]
      /\ R2["audit_log"] = R["audit_log"] /\ R2["denylist"] = R["denylist"]
      /\ R1["usage_ledger"] = R["usage_ledger"]
  <2>1. IsRows(R)
    BY DEF SqlRows, IsRows
  <2> HIDE DEF w, l
  <2>2. IsRows(R1) /\ R1["usage_windows"] = Changed(R["usage_windows"], c.key, w)
        /\ \A x \in Sqlite!Tables : x # "usage_windows" => R1[x] = R[x]
    BY <2>1, PutColumns, TableNames
  <2> HIDE DEF R1
  <2>3. IsRows(R2) /\ R2["usage_ledger"] = Changed(R1["usage_ledger"], c.key, l)
        /\ \A x \in Sqlite!Tables : x # "usage_ledger" => R2[x] = R1[x]
    BY <2>2, PutColumns, TableNames
  <2> HIDE DEF R2
  <2> QED BY <2>2, <2>3, TableNames
<1>5. Sqlite!Run(St(Db(R, sh, ver), g), SqlSection(c)) = St(Db(R2, sh, ver), g)
  <2>1. Sqlite!Exec(St(Db(R, sh, ver), g), Sqlite!Add("usage_windows", c.key, c.by.req))
          = St(Db(R1, sh, ver), g)
    BY ExecUpsert
  <2>2. l = Sqlite!Sum(R1["usage_ledger"][c.key], c.by.tok)
    BY <1>4
  <2> HIDE DEF R1, w, l
  <2>3. Sqlite!Exec(St(Db(R1, sh, ver), g), Sqlite!Add("usage_ledger", c.key, c.by.tok))
          = St(Db(R2, sh, ver), g)
    BY <2>2, ExecUpsert
  <2> HIDE DEF R2
  <2> QED BY <1>2, <2>1, <2>3, SqlRun2
<1> HIDE DEF R2, R1, w, l
<1>6. UsageOf(R2["usage_windows"], R2["usage_ledger"])
        = Changed(UsageOf(R["usage_windows"], R["usage_ledger"]), c.key, Kept([req |-> w, tok |-> l]))
  BY <1>1, <1>3, <1>4, <1>u, UsageOfChanged
<1>7. SqlRows(R2) /\ UsageWhole(R2)
  <2>1. R2["usage_windows"] \in [Keys -> Nat \cup {Nil}]
    BY <1>1, <1>3, <1>4 DEF SqlRows, Changed
  <2>2. R2["usage_ledger"] \in [Keys -> Nat \cup {Nil}]
    BY <1>1, <1>3, <1>4 DEF SqlRows, Changed
  <2>3. UsageWhole(R2)
    BY <1>1, <1>3, <1>4, NilIsNone DEF SqlRows, UsageWhole, Changed
  <2> QED BY <1>4, <2>1, <2>2, <2>3 DEF SqlRows, IsRows
<1>8. SqlContents(R2) \in C!Effects(SqlContents(R), c, had)
  <2> DEFINE rec == Kept([req |-> w, tok |-> l])
  <2>1. rec \in C!Accumulated(UsageOf(R["usage_windows"], R["usage_ledger"])[c.key], c.by)
    BY <1>3 DEF u
  <2> HIDE DEF rec
  <2> QED BY <1>4, <1>6, <2>1, EffectOfAddUsage DEF SqlContents, rec
<1> QED BY <1>5, <1>7, <1>8 DEF SqlAfter

\* ... the upsert of add_metering, ...
LEMMA SqlAddMetering ==
  ASSUME NEW c \in C!Calls, c.op = "add_metering", NEW R, SqlRows(R), UsageWhole(R)
  PROVE  SqlTakes(R, c)
<1> SUFFICES ASSUME NEW sh, NEW ver, NEW g, NEW had
             PROVE  \E R2 : /\ Sqlite!Run(St(Db(R, sh, ver), g), SqlSection(c)) = St(Db(R2, sh, ver), g)
                            /\ SqlAfter(R, c, had, R2)
  BY DEF SqlTakes
<1> DEFINE v == Sqlite!Sum(R["usage_metering"][c.key], 1)
           R2 == Put(R, "usage_metering", c.key, v)
<1>1. c.key \in Keys
  BY CallsByOp
<1>2. SqlSection(c) = <<Sqlite!Add("usage_metering", c.key, 1)>>
  BY DEF SqlSection
<1>3. Sqlite!Run(St(Db(R, sh, ver), g), SqlSection(c)) = St(Db(R2, sh, ver), g)
  <2>1. Sqlite!Exec(St(Db(R, sh, ver), g), Sqlite!Add("usage_metering", c.key, 1))
          = St(Db(R2, sh, ver), g)
    BY ExecUpsert
  <2> HIDE DEF R2, v
  <2> QED BY <1>2, <2>1, SqlRun1
<1>4. /\ IsRows(R2)
      /\ R2["usage_metering"] = Changed(R["usage_metering"], c.key, v)
      /\ R2["virtual_keys"] = R["virtual_keys"]
      /\ R2["aws_credentials"] = R["aws_credentials"] /\ R2["usage_windows"] = R["usage_windows"]
      /\ R2["usage_ledger"] = R["usage_ledger"]
      /\ R2["audit_log"] = R["audit_log"] /\ R2["denylist"] = R["denylist"]
  <2>1. IsRows(R)
    BY DEF SqlRows, IsRows
  <2> HIDE DEF v
  <2> QED BY <2>1, PutColumns, TableNames
<1> HIDE DEF R2
<1>u. R["usage_metering"] \in [Keys -> Nat \cup {Nil}]
  BY DEF SqlRows
<1>5. /\ CountsOf(R2["usage_metering"])
           = Changed(CountsOf(R["usage_metering"]), c.key, CountsOf(R["usage_metering"])[c.key] + 1)
      /\ v \in Nat
  BY <1>1, <1>4, <1>u, CountsOfChanged
<1> HIDE DEF v
<1>6. SqlRows(R2) /\ UsageWhole(R2)
  <2>1. R2["usage_metering"] \in [Keys -> Nat \cup {Nil}]
    BY <1>1, <1>4, <1>5, <1>u DEF Changed
  <2> QED BY <1>4, <2>1 DEF SqlRows, UsageWhole, IsRows
<1>7. SqlContents(R2) \in C!Effects(SqlContents(R), c, had)
  BY <1>4, <1>5, EffectOfAddMetering DEF SqlContents
<1> QED BY <1>3, <1>6, <1>7 DEF SqlAfter

\* ... that of append_audit ...
LEMMA SqlAudit ==
  ASSUME NEW c \in C!Calls, c.op = "append_audit", NEW R, SqlRows(R), UsageWhole(R)
  PROVE  SqlTakes(R, c)
<1> SUFFICES ASSUME NEW sh, NEW ver, NEW g, NEW had
             PROVE  \E R2 : /\ Sqlite!Run(St(Db(R, sh, ver), g), SqlSection(c)) = St(Db(R2, sh, ver), g)
                            /\ SqlAfter(R, c, had, R2)
  BY DEF SqlTakes
<1> DEFINE R2 == Put(R, "audit_log", c.seq, c.digest)
<1>1. c.seq \in Seqs /\ c.digest \in Nodes
  BY CallsByOp
<1>2. SqlSection(c) = <<Sqlite!Upsert("audit_log", c.seq, c.digest)>>
  BY DEF SqlSection
<1>3. Sqlite!Run(St(Db(R, sh, ver), g), SqlSection(c)) = St(Db(R2, sh, ver), g)
  <2>1. Sqlite!Exec(St(Db(R, sh, ver), g), Sqlite!Upsert("audit_log", c.seq, c.digest))
          = St(Db(R2, sh, ver), g)
    BY ExecUpsert
  <2> HIDE DEF R2
  <2> QED BY <1>2, <2>1, SqlRun1
<1>4. /\ IsRows(R2)
      /\ R2["audit_log"] = Changed(R["audit_log"], c.seq, c.digest)
      /\ R2["virtual_keys"] = R["virtual_keys"]
      /\ R2["aws_credentials"] = R["aws_credentials"] /\ R2["usage_windows"] = R["usage_windows"]
      /\ R2["usage_ledger"] = R["usage_ledger"] /\ R2["usage_metering"] = R["usage_metering"]
      /\ R2["denylist"] = R["denylist"]
  <2>1. IsRows(R)
    BY DEF SqlRows, IsRows
  <2> QED BY <2>1, PutColumns, TableNames
<1> HIDE DEF R2
<1>u. R["audit_log"] \in [Seqs -> Nodes \cup {Nil}]
  BY DEF SqlRows
<1>5. AuditOf(R2["audit_log"])
        = {r \in AuditOf(R["audit_log"]) : r.seq # c.seq} \cup {[seq |-> c.seq, digest |-> c.digest]}
  BY <1>1, <1>4, <1>u, AuditOfChanged
<1>6. SqlRows(R2) /\ UsageWhole(R2)
  <2>1. R2["audit_log"] \in [Seqs -> Nodes \cup {Nil}]
    BY <1>1, <1>4, <1>u DEF Changed
  <2> QED BY <1>4, <2>1 DEF SqlRows, UsageWhole, IsRows
<1>7. SqlContents(R2) \in C!Effects(SqlContents(R), c, had)
  BY <1>4, <1>5, EffectOfAudit DEF SqlContents
<1> QED BY <1>3, <1>6, <1>7 DEF SqlAfter

\* ... and that of add_denylist.
LEMMA SqlDeny ==
  ASSUME NEW c \in C!Calls, c.op = "add_denylist", NEW R, SqlRows(R), UsageWhole(R)
  PROVE  SqlTakes(R, c)
<1> SUFFICES ASSUME NEW sh, NEW ver, NEW g, NEW had
             PROVE  \E R2 : /\ Sqlite!Run(St(Db(R, sh, ver), g), SqlSection(c)) = St(Db(R2, sh, ver), g)
                            /\ SqlAfter(R, c, had, R2)
  BY DEF SqlTakes
<1> DEFINE R2 == Put(R, "denylist", c.key, "denied")
<1>1. c.key \in Keys
  BY CallsByOp
<1>2. SqlSection(c) = <<Sqlite!Upsert("denylist", c.key, "denied")>>
  BY DEF SqlSection
<1>3. Sqlite!Run(St(Db(R, sh, ver), g), SqlSection(c)) = St(Db(R2, sh, ver), g)
  <2>1. Sqlite!Exec(St(Db(R, sh, ver), g), Sqlite!Upsert("denylist", c.key, "denied"))
          = St(Db(R2, sh, ver), g)
    BY ExecUpsert
  <2> HIDE DEF R2
  <2> QED BY <1>2, <2>1, SqlRun1
<1>4. /\ IsRows(R2)
      /\ R2["denylist"] = Changed(R["denylist"], c.key, "denied")
      /\ R2["virtual_keys"] = R["virtual_keys"]
      /\ R2["aws_credentials"] = R["aws_credentials"] /\ R2["usage_windows"] = R["usage_windows"]
      /\ R2["usage_ledger"] = R["usage_ledger"] /\ R2["usage_metering"] = R["usage_metering"]
      /\ R2["audit_log"] = R["audit_log"]
  <2>1. IsRows(R)
    BY DEF SqlRows, IsRows
  <2> QED BY <2>1, PutColumns, TableNames
<1> HIDE DEF R2
<1>u. R["denylist"] \in [Keys -> {Nil, "denied"}]
  BY DEF SqlRows
<1>5. RowsOf(R2["denylist"]) = RowsOf(R["denylist"]) \cup {c.key}
  BY <1>1, <1>4, <1>u, RowsOfChanged
<1>6. SqlRows(R2) /\ UsageWhole(R2)
  <2>1. R2["denylist"] \in [Keys -> {Nil, "denied"}]
    BY <1>1, <1>4, <1>u DEF Changed
  <2> QED BY <1>4, <2>1 DEF SqlRows, UsageWhole, IsRows
<1>7. SqlContents(R2) \in C!Effects(SqlContents(R), c, had)
  BY <1>4, <1>5, EffectOfDeny DEF SqlContents
<1> QED BY <1>3, <1>6, <1>7 DEF SqlAfter

\* The section of any call takes the call's effect.
LEMMA SqlCall ==
  ASSUME NEW c \in C!Calls, NEW R, SqlRows(R), UsageWhole(R)
  PROVE  SqlTakes(R, c)
BY CallsByOp, SqlPutKey, SqlMint, SqlDelete, SqlPutUsage, SqlAddUsage, SqlAddMetering, SqlAudit, SqlDeny

-----------------------------------------------------------------------------
(* Opening a SQL database *)

Got(m, l, ns, i) == [marker |-> m, legacy |-> l, names |-> ns, ids |-> i]

Shape(a, b) == [keys |-> a, others |-> b]

Legacy(m, a) == IF m < 4 /\ a # "none" THEN {"virtual_keys"} ELSE {}

NewIfNone(a) == IF a = "none" THEN "new" ELSE a

\* The statements of a migration.
LEMMA ExecVersion ==
  ASSUME NEW st, NEW s, s.do = "version"
  PROVE  Sqlite!Exec(st, s) = [st EXCEPT !.got.marker = st.db.version]
BY DEF Sqlite!Exec

\* The look for the tables of an older build, ...
LEMMA ExecLegacy ==
  ASSUME NEW st, NEW s, s.do = "legacy?"
  PROVE  Sqlite!Exec(st, s)
           = [st EXCEPT !.got.legacy =
                IF st.got.marker < Sqlite!SCHEMA_VERSION /\ st.db.shape.keys # "none"
                THEN {"virtual_keys"} ELSE {}]
BY DEF Sqlite!Exec

\* ... their removal, which takes every row along, ...
LEMMA ExecDrop ==
  ASSUME NEW st, NEW s, s.do = "drop"
  PROVE  Sqlite!Exec(st, s)
           = IF st.got.legacy # {}
             THEN [st EXCEPT !.db.rows = Sqlite!NoRows, !.db.shape[s.of] = "none"] ELSE st
BY DEF Sqlite!Exec

\* ... the creation of those that are missing ...
LEMMA ExecCreate ==
  ASSUME NEW st, NEW s, s.do = "create"
  PROVE  Sqlite!Exec(st, s) = [st EXCEPT !.db.shape = Sqlite!Created(@)]
BY DEF Sqlite!Exec

\* ... and the stamp of the version.
LEMMA ExecStamp ==
  ASSUME NEW st, NEW s, s.do = "stamp"
  PROVE  Sqlite!Exec(st, s) = [st EXCEPT !.db.version = Sqlite!SCHEMA_VERSION]
BY DEF Sqlite!Exec

OpeningSteps(R, a, b, v, m, l, ns, i) ==
  LET st == St(Db(R, Shape(a, b), v), Got(m, l, ns, i))
  IN  /\ Sqlite!Exec(st, Sqlite!ReadVersion) = St(Db(R, Shape(a, b), v), Got(v, l, ns, i))
      /\ Sqlite!Exec(st, Sqlite!HasLegacy) = St(Db(R, Shape(a, b), v), Got(m, Legacy(m, a), ns, i))
      /\ l = {} => Sqlite!Exec(st, Sqlite!DropKeys) = st /\ Sqlite!Exec(st, Sqlite!DropOthers) = st
      /\ l # {} => /\ Sqlite!Exec(st, Sqlite!DropKeys)
                         = St(Db(Sqlite!NoRows, Shape("none", b), v), Got(m, l, ns, i))
                   /\ Sqlite!Exec(st, Sqlite!DropOthers)
                         = St(Db(Sqlite!NoRows, Shape(a, "none"), v), Got(m, l, ns, i))
      /\ Sqlite!Exec(st, Sqlite!CreateTables)
           = St(Db(R, Shape(NewIfNone(a), NewIfNone(b)), v), Got(m, l, ns, i))
      /\ Sqlite!Exec(st, Sqlite!StampVersion) = St(Db(R, Shape(a, b), 4), Got(m, l, ns, i))

\* The statements of an opening, on any rows and shape.
LEMMA ExecOpening ==
  ASSUME NEW R, NEW a, NEW b, NEW v, NEW m, NEW l, NEW ns, NEW i
  PROVE  OpeningSteps(R, a, b, v, m, l, ns, i)
<1> DEFINE st == St(Db(R, Shape(a, b), v), Got(m, l, ns, i))
<1> HIDE DEF st
<1>f. /\ st.db.version = v /\ st.got.marker = m /\ st.got.legacy = l /\ st.db.shape.keys = a
      /\ st.db.shape = Shape(a, b)
  BY DEF St, Db, Shape, Got, st
<1>1. Sqlite!Exec(st, Sqlite!ReadVersion) = [st EXCEPT !.got.marker = st.db.version]
  BY ExecVersion DEF Sqlite!ReadVersion
<1>2. [st EXCEPT !.got.marker = v] = St(Db(R, Shape(a, b), v), Got(v, l, ns, i))
  BY DEF St, Db, Shape, Got, st
<1>3. Sqlite!Exec(st, Sqlite!HasLegacy)
        = [st EXCEPT !.got.legacy = IF st.got.marker < 4 /\ st.db.shape.keys # "none"
                                    THEN {"virtual_keys"} ELSE {}]
  BY ExecLegacy DEF Sqlite!HasLegacy, Sqlite!SCHEMA_VERSION
<1>4. ASSUME NEW x PROVE [st EXCEPT !.got.legacy = x] = St(Db(R, Shape(a, b), v), Got(m, x, ns, i))
  BY DEF St, Db, Shape, Got, st
<1>d. /\ Sqlite!DropKeys.do = "drop" /\ Sqlite!DropKeys.of = "keys"
      /\ Sqlite!DropOthers.do = "drop" /\ Sqlite!DropOthers.of = "others"
  BY DEF Sqlite!DropKeys, Sqlite!DropOthers
<1>5. /\ Sqlite!Exec(st, Sqlite!DropKeys)
           = IF st.got.legacy # {}
             THEN [st EXCEPT !.db.rows = Sqlite!NoRows, !.db.shape["keys"] = "none"] ELSE st
      /\ Sqlite!Exec(st, Sqlite!DropOthers)
           = IF st.got.legacy # {}
             THEN [st EXCEPT !.db.rows = Sqlite!NoRows, !.db.shape["others"] = "none"] ELSE st
  BY <1>d, ExecDrop
<1>6. ASSUME NEW N
      PROVE  /\ [st EXCEPT !.db.rows = N, !.db.shape["keys"] = "none"]
                  = St(Db(N, Shape("none", b), v), Got(m, l, ns, i))
             /\ [st EXCEPT !.db.rows = N, !.db.shape["others"] = "none"]
                  = St(Db(N, Shape(a, "none"), v), Got(m, l, ns, i))
  <2> DEFINE s2 == St(Db(N, Shape(a, b), v), Got(m, l, ns, i))
  <2>1. [st EXCEPT !.db.rows = N] = s2
    BY DEF St, Db, Got, st
  <2>2. [s2 EXCEPT !.db.shape["keys"] = "none"] = St(Db(N, Shape("none", b), v), Got(m, l, ns, i))
    BY DEF St, Db, Shape, Got
  <2>3. [s2 EXCEPT !.db.shape["others"] = "none"] = St(Db(N, Shape(a, "none"), v), Got(m, l, ns, i))
    BY DEF St, Db, Shape, Got
  <2> HIDE DEF s2
  <2> QED BY <2>1, <2>2, <2>3, Zenon
<1>7. Sqlite!Exec(st, Sqlite!CreateTables) = [st EXCEPT !.db.shape = Sqlite!Created(st.db.shape)]
  <2>1. Sqlite!Exec(st, Sqlite!CreateTables) = [st EXCEPT !.db.shape = Sqlite!Created(@)]
    BY ExecCreate DEF Sqlite!CreateTables
  <2>2. st.db.shape = st["db"]["shape"]
    BY DEF st, St, Db
  <2> QED BY <2>1, <2>2
<1>8. Sqlite!Created(Shape(a, b)) = Shape(NewIfNone(a), NewIfNone(b))
  BY DEF Sqlite!Created, Shape, NewIfNone
<1>9. ASSUME NEW x PROVE [st EXCEPT !.db.shape = x] = St(Db(R, x, v), Got(m, l, ns, i))
  BY DEF St, Db, Shape, Got, st
<1>10. Sqlite!Exec(st, Sqlite!StampVersion) = [st EXCEPT !.db.version = 4]
  BY ExecStamp DEF Sqlite!StampVersion, Sqlite!SCHEMA_VERSION
<1>11. [st EXCEPT !.db.version = 4] = St(Db(R, Shape(a, b), 4), Got(m, l, ns, i))
  BY DEF St, Db, Shape, Got, st
<1>12. Sqlite!Exec(st, Sqlite!ReadVersion) = St(Db(R, Shape(a, b), v), Got(v, l, ns, i))
  BY <1>f, <1>1, <1>2
<1>13. Sqlite!Exec(st, Sqlite!HasLegacy) = St(Db(R, Shape(a, b), v), Got(m, Legacy(m, a), ns, i))
  BY <1>f, <1>3, <1>4 DEF Legacy
<1>14. l = {} => Sqlite!Exec(st, Sqlite!DropKeys) = st /\ Sqlite!Exec(st, Sqlite!DropOthers) = st
  BY <1>f, <1>5
<1>15. l # {} => /\ Sqlite!Exec(st, Sqlite!DropKeys)
                      = St(Db(Sqlite!NoRows, Shape("none", b), v), Got(m, l, ns, i))
                 /\ Sqlite!Exec(st, Sqlite!DropOthers)
                      = St(Db(Sqlite!NoRows, Shape(a, "none"), v), Got(m, l, ns, i))
  BY <1>f, <1>5, <1>6
<1>16. Sqlite!Exec(st, Sqlite!CreateTables)
         = St(Db(R, Shape(NewIfNone(a), NewIfNone(b)), v), Got(m, l, ns, i))
  BY <1>f, <1>7, <1>8, <1>9
<1>17. Sqlite!Exec(st, Sqlite!StampVersion) = St(Db(R, Shape(a, b), 4), Got(m, l, ns, i))
  BY <1>10, <1>11
<1> QED BY <1>12, <1>13, <1>14, <1>15, <1>16, <1>17, Zenon DEF st, OpeningSteps

\* SQLite opens in six sections, PostgreSQL in two.
LEMMA SqlMigrations ==
  /\ Len(Sqlite!migrate) = 6
  /\ Sqlite!migrate[1] = <<Sqlite!ReadVersion>> /\ Sqlite!migrate[2] = <<Sqlite!HasLegacy>>
  /\ Sqlite!migrate[3] = <<Sqlite!DropKeys>>    /\ Sqlite!migrate[4] = <<Sqlite!DropOthers>>
  /\ Sqlite!migrate[5] = <<Sqlite!CreateTables>> /\ Sqlite!migrate[6] = <<Sqlite!StampVersion>>
  /\ Len(Postgres!migrate) = 2
  /\ Postgres!migrate[1] = <<Sqlite!ReadVersion>>
  /\ Postgres!migrate[2] = <<Sqlite!HasLegacy, Sqlite!DropKeys, Sqlite!DropOthers,
                             Sqlite!CreateTables, Sqlite!StampVersion>>
<1>1. /\ Postgres!ReadVersion = Sqlite!ReadVersion /\ Postgres!HasLegacy = Sqlite!HasLegacy
      /\ Postgres!DropKeys = Sqlite!DropKeys /\ Postgres!DropOthers = Sqlite!DropOthers
      /\ Postgres!CreateTables = Sqlite!CreateTables /\ Postgres!StampVersion = Sqlite!StampVersion
  BY DEF Postgres!ReadVersion, Sqlite!ReadVersion, Postgres!HasLegacy, Sqlite!HasLegacy,
         Postgres!DropKeys, Sqlite!DropKeys, Postgres!DropOthers, Sqlite!DropOthers,
         Postgres!CreateTables, Sqlite!CreateTables, Postgres!StampVersion, Sqlite!StampVersion
<1>2. /\ Len(Sqlite!migrate) = 6
      /\ Sqlite!migrate[1] = <<Sqlite!ReadVersion>> /\ Sqlite!migrate[2] = <<Sqlite!HasLegacy>>
      /\ Sqlite!migrate[3] = <<Sqlite!DropKeys>>    /\ Sqlite!migrate[4] = <<Sqlite!DropOthers>>
      /\ Sqlite!migrate[5] = <<Sqlite!CreateTables>> /\ Sqlite!migrate[6] = <<Sqlite!StampVersion>>
  BY DEF Sqlite!migrate, Sqlite!Autocommit
<1>3. Postgres!migrate = <<<<Postgres!ReadVersion>>>>
                         \o <<<<Postgres!HasLegacy, Postgres!DropKeys, Postgres!DropOthers,
                                Postgres!CreateTables, Postgres!StampVersion>>>>
  BY AutocommitOne DEF Postgres!migrate, Postgres!Transaction
<1>4. ASSUME NEW x, NEW y
      PROVE  Len(<<x>> \o <<y>>) = 2 /\ (<<x>> \o <<y>>)[1] = x /\ (<<x>> \o <<y>>)[2] = y
  OBVIOUS
<1>5. /\ Len(Postgres!migrate) = 2
      /\ Postgres!migrate[1] = <<Postgres!ReadVersion>>
      /\ Postgres!migrate[2] = <<Postgres!HasLegacy, Postgres!DropKeys, Postgres!DropOthers,
                                 Postgres!CreateTables, Postgres!StampVersion>>
  <2> DEFINE x == <<Postgres!ReadVersion>>
             y == <<Postgres!HasLegacy, Postgres!DropKeys, Postgres!DropOthers,
                    Postgres!CreateTables, Postgres!StampVersion>>
  <2>1. Postgres!migrate = <<x>> \o <<y>>
    BY <1>3
  <2> HIDE DEF x, y
  <2>2. Len(Postgres!migrate) = 2 /\ Postgres!migrate[1] = x /\ Postgres!migrate[2] = y
    BY <2>1, <1>4
  <2> QED BY <2>2 DEF x, y
<1> QED BY <1>1, <1>2, <1>5

\* A section of an opening: it touches no row, knows the version it has found,
\* and stamps it in the last section only.
SqlOpens(R, v, pc, last, st) ==
  \E a, b, w, l, ns, i :
    /\ st = St(Db(R, Shape(a, b), w), Got(v, l, ns, i))
    /\ a \in Shapes /\ b \in Shapes
    /\ w = IF pc = last THEN 4 ELSE v
    /\ l \in SUBSET {"virtual_keys"}
    /\ l # {} => v # 4
    /\ ns \in SUBSET Redis!Names /\ i \in {Nil} \cup SUBSET Keys

\* What there is to show of a section of an opening.
LEMMA OpensIntro ==
  ASSUME NEW R, NEW v, NEW pc, NEW last, NEW a \in Shapes, NEW b \in Shapes, NEW w,
         NEW l \in SUBSET {"virtual_keys"}, NEW ns \in SUBSET Redis!Names,
         NEW i \in {Nil} \cup SUBSET Keys, NEW st,
         w = (IF pc = last THEN 4 ELSE v), l # {} => v # 4,
         st = St(Db(R, Shape(a, b), w), Got(v, l, ns, i))
  PROVE  SqlOpens(R, v, pc, last, st)
BY DEF SqlOpens

\* A section of an opening on SQLite touches no row of a current database.
LEMMA SqliteOpens ==
  ASSUME NEW R, NEW a \in Shapes, NEW b \in Shapes, NEW v \in {0, 3, 4}, NEW m,
         NEW l \in SUBSET {"virtual_keys"}, NEW ns \in SUBSET Redis!Names,
         NEW i \in {Nil} \cup SUBSET Keys, NEW pc \in 1..6,
         pc > 1 => m = v, l # {} => pc > 1 /\ v # 4,
         v # 4 => R = Sqlite!NoRows
  PROVE  SqlOpens(R, v, pc, 6, Sqlite!Run(St(Db(R, Shape(a, b), v), Got(m, l, ns, i)), Sqlite!migrate[pc]))
<1> DEFINE st == St(Db(R, Shape(a, b), v), Got(m, l, ns, i))
           r  == Sqlite!Run(st, Sqlite!migrate[pc])
<1>t. "none" \in Shapes /\ NewIfNone(a) \in Shapes /\ NewIfNone(b) \in Shapes
  BY DEF Shapes, NewIfNone
<1>e. /\ Sqlite!Exec(st, Sqlite!ReadVersion) = St(Db(R, Shape(a, b), v), Got(v, l, ns, i))
      /\ Sqlite!Exec(st, Sqlite!HasLegacy) = St(Db(R, Shape(a, b), v), Got(m, Legacy(m, a), ns, i))
      /\ l = {} => Sqlite!Exec(st, Sqlite!DropKeys) = st
      /\ l = {} => Sqlite!Exec(st, Sqlite!DropOthers) = st
      /\ l # {} => Sqlite!Exec(st, Sqlite!DropKeys)
                     = St(Db(Sqlite!NoRows, Shape("none", b), v), Got(m, l, ns, i))
      /\ l # {} => Sqlite!Exec(st, Sqlite!DropOthers)
                     = St(Db(Sqlite!NoRows, Shape(a, "none"), v), Got(m, l, ns, i))
      /\ Sqlite!Exec(st, Sqlite!CreateTables)
           = St(Db(R, Shape(NewIfNone(a), NewIfNone(b)), v), Got(m, l, ns, i))
      /\ Sqlite!Exec(st, Sqlite!StampVersion) = St(Db(R, Shape(a, b), 4), Got(m, l, ns, i))
  <2>1. OpeningSteps(R, a, b, v, m, l, ns, i)
    BY ExecOpening
  <2> QED BY <2>1, Zenon DEF OpeningSteps
<1> HIDE DEF st
<1>1. CASE pc = 1
  <2>1. r = St(Db(R, Shape(a, b), v), Got(v, l, ns, i))
    BY <1>1, <1>e, SqlMigrations, SqlRun1
  <2> QED BY <1>1, <2>1 DEF SqlOpens, st
<1>2. CASE pc = 2
  <2>1. r = St(Db(R, Shape(a, b), v), Got(v, Legacy(v, a), ns, i))
    BY <1>2, <1>e, SqlMigrations, SqlRun1
  <2>2. Legacy(v, a) \in SUBSET {"virtual_keys"} /\ (Legacy(v, a) # {} => v # 4)
    BY DEF Legacy
  <2> QED BY <1>2, <2>1, <2>2 DEF SqlOpens, st
<1>3. CASE pc = 3
  <2>r. r = Sqlite!Exec(st, Sqlite!DropKeys) /\ m = v
    BY <1>3, SqlMigrations, SqlRun1
  <2> HIDE DEF r
  <2>a. l = {} => r = St(Db(R, Shape(a, b), v), Got(v, l, ns, i))
    BY <1>e, <2>r DEF st
  <2>b. l # {} => r = St(Db(R, Shape("none", b), v), Got(v, l, ns, i))
    BY <1>e, <2>r
  <2>1. PICK x \in Shapes : r = St(Db(R, Shape(x, b), v), Got(v, l, ns, i))
    <3>1. CASE l = {} BY <2>a, <3>1
    <3>2. CASE l # {} BY <2>b, <3>2, <1>t
    <3> QED BY <3>1, <3>2
  <2>2. SqlOpens(R, v, pc, 6, r)
    BY <1>3, <2>1, OpensIntro
  <2> QED BY <2>2 DEF st, r
<1>4. CASE pc = 4
  <2>r. r = Sqlite!Exec(st, Sqlite!DropOthers) /\ m = v
    BY <1>4, SqlMigrations, SqlRun1
  <2> HIDE DEF r
  <2>a. l = {} => r = St(Db(R, Shape(a, b), v), Got(v, l, ns, i))
    BY <1>e, <2>r DEF st
  <2>b. l # {} => r = St(Db(R, Shape(a, "none"), v), Got(v, l, ns, i))
    BY <1>e, <2>r
  <2>1. PICK x \in Shapes : r = St(Db(R, Shape(a, x), v), Got(v, l, ns, i))
    <3>1. CASE l = {} BY <2>a, <3>1
    <3>2. CASE l # {} BY <2>b, <3>2, <1>t
    <3> QED BY <3>1, <3>2
  <2>2. SqlOpens(R, v, pc, 6, r)
    BY <1>4, <2>1, OpensIntro
  <2> QED BY <2>2 DEF st, r
<1>5. CASE pc = 5
  <2>1. r = St(Db(R, Shape(NewIfNone(a), NewIfNone(b)), v), Got(v, l, ns, i))
    BY <1>5, <1>e, SqlMigrations, SqlRun1
  <2> HIDE DEF r
  <2>2. SqlOpens(R, v, pc, 6, r)
    BY <1>5, <1>t, <2>1, OpensIntro
  <2> QED BY <2>2 DEF st, r
<1>6. CASE pc = 6
  <2>1. r = St(Db(R, Shape(a, b), 4), Got(v, l, ns, i))
    BY <1>6, <1>e, SqlMigrations, SqlRun1
  <2> QED BY <1>6, <2>1 DEF SqlOpens, st
<1> QED BY <1>1, <1>2, <1>3, <1>4, <1>5, <1>6

\* The transaction of Postgres leaves this build's tables.
LEMMA PostgresOpens ==
  ASSUME NEW R, NEW a \in Shapes, NEW v \in {0, 3, 4}, NEW m,
         NEW l \in SUBSET {"virtual_keys"}, NEW ns \in SUBSET Redis!Names,
         NEW i \in {Nil} \cup SUBSET Keys, NEW pc \in 1..2,
         pc > 1 => m = v, l # {} => pc > 1 /\ v # 4,
         v # 4 => R = Sqlite!NoRows, v = 4 => a = "new"
  PROVE  LET r == Postgres!Run(St(Db(R, Shape(a, a), v), Got(m, l, ns, i)), Postgres!migrate[pc])
         IN  /\ SqlOpens(R, v, pc, 2, r)
             /\ r.db.shape = IF pc = 2 THEN Shape("new", "new") ELSE Shape(a, a)
<1> DEFINE st == St(Db(R, Shape(a, a), v), Got(m, l, ns, i))
           r  == Postgres!Run(st, Postgres!migrate[pc])
<1>0. r = Sqlite!Run(st, Postgres!migrate[pc])
  BY SameRun
<1>f. ASSUME NEW x, NEW s, NEW w, NEW g PROVE St(Db(x, s, w), g).db.shape = s
  BY DEF St, Db
<1>1. CASE pc = 1
  <2>1. Sqlite!Exec(st, Sqlite!ReadVersion) = St(Db(R, Shape(a, a), v), Got(v, l, ns, i))
    <3>1. OpeningSteps(R, a, a, v, m, l, ns, i)
      BY ExecOpening
    <3> QED BY <3>1, Zenon DEF OpeningSteps
  <2> HIDE DEF st
  <2>2. r = St(Db(R, Shape(a, a), v), Got(v, l, ns, i))
    BY <1>0, <1>1, <2>1, SqlMigrations, SqlRun1
  <2>3. r.db.shape = Shape(a, a)
    BY <2>2, <1>f
  <2> QED BY <1>1, <2>2, <2>3 DEF SqlOpens, st
<1>2. CASE pc = 2
  <2> DEFINE l2 == Legacy(v, a)
             s1 == St(Db(R, Shape(a, a), v), Got(v, l2, ns, i))
             a2 == IF l2 = {} THEN a ELSE "none"
             s2 == St(Db(R, Shape(a2, a), v), Got(v, l2, ns, i))
             s3 == St(Db(R, Shape(a2, a2), v), Got(v, l2, ns, i))
             s4 == St(Db(R, Shape("new", "new"), v), Got(v, l2, ns, i))
             s5 == St(Db(R, Shape("new", "new"), 4), Got(v, l2, ns, i))
  <2>0. l2 \in SUBSET {"virtual_keys"} /\ (l2 # {} => v # 4) /\ NewIfNone(a2) = "new"
    BY DEF Legacy, NewIfNone
  <2>1. Sqlite!Exec(st, Sqlite!HasLegacy) = s1
    <3>1. OpeningSteps(R, a, a, v, v, l, ns, i) /\ m = v
      BY <1>2, ExecOpening
    <3> QED BY <3>1, Zenon DEF OpeningSteps
  <2> HIDE DEF st, l2
  <2>2. Sqlite!Exec(s1, Sqlite!DropKeys) = s2
    <3>0. OpeningSteps(R, a, a, v, v, l2, ns, i)
      BY ExecOpening
    <3>1. CASE l2 = {}
      <4>1. a2 = a
        BY <3>1
      <4> HIDE DEF a2
      <4> QED BY <3>0, <3>1, <4>1 DEF OpeningSteps
    <3>2. CASE l2 # {}
      <4>1. a2 = "none" /\ R = Sqlite!NoRows
        BY <3>2, <2>0
      <4> HIDE DEF a2
      <4> QED BY <3>0, <3>2, <4>1 DEF OpeningSteps
    <3> QED BY <3>1, <3>2
  <2>3. Sqlite!Exec(s2, Sqlite!DropOthers) = s3
    <3>0. OpeningSteps(R, a2, a, v, v, l2, ns, i)
      BY ExecOpening
    <3>1. CASE l2 = {}
      <4>1. a2 = a
        BY <3>1
      <4> HIDE DEF a2
      <4> QED BY <3>0, <3>1, <4>1 DEF OpeningSteps
    <3>2. CASE l2 # {}
      <4>1. a2 = "none" /\ R = Sqlite!NoRows
        BY <3>2, <2>0
      <4> HIDE DEF a2
      <4> QED BY <3>0, <3>2, <4>1 DEF OpeningSteps
    <3> QED BY <3>1, <3>2
  <2> HIDE DEF a2
  <2>4. Sqlite!Exec(s3, Sqlite!CreateTables) = s4
    <3>1. OpeningSteps(R, a2, a2, v, v, l2, ns, i)
      BY ExecOpening
    <3>2. Sqlite!Exec(s3, Sqlite!CreateTables)
            = St(Db(R, Shape(NewIfNone(a2), NewIfNone(a2)), v), Got(v, l2, ns, i))
      BY <3>1, Zenon DEF OpeningSteps
    <3> QED BY <2>0, <3>2
  <2>5. Sqlite!Exec(s4, Sqlite!StampVersion) = s5
    <3>1. OpeningSteps(R, "new", "new", v, v, l2, ns, i)
      BY ExecOpening
    <3> QED BY <3>1, Zenon DEF OpeningSteps
  <2> HIDE DEF s1, s2, s3, s4, s5
  <2>6. r = s5
    BY <1>0, <1>2, <2>1, <2>2, <2>3, <2>4, <2>5, SqlMigrations, SqlRun5
  <2>7. s5.db.shape = Shape("new", "new")
    BY <1>f DEF s5
  <2>8. "new" \in Shapes
    BY DEF Shapes
  <2>9. SqlOpens(R, v, pc, 2, s5)
    BY <1>2, <2>0, <2>8 DEF SqlOpens, s5
  <2> QED BY <1>2, <2>6, <2>7, <2>9 DEF st
<1> QED BY <1>1, <1>2

-----------------------------------------------------------------------------
(* What the commands of Redis do *)

IsNames(d) == d = [x \in Redis!Names |-> d[x]]

Cleared(d, xs) == [x \in Redis!Names |-> IF x \in xs THEN Nil ELSE d[x]]

\* The names that the commands of Redis use.
LEMMA NamesIn ==
  /\ Redis!KEYS_INDEX \in Redis!Names /\ Redis!AWSCRED_INDEX \in Redis!Names
  /\ Redis!AUDIT_ZSET \in Redis!Names /\ Redis!DENYLIST_INDEX \in Redis!Names
  /\ Redis!SCHEMA_KEY \in Redis!Names /\ Redis!OLD \in Redis!Names
  /\ \A k \in Keys : /\ Redis!KEY(k) \in Redis!Names /\ Redis!AWSCRED(k) \in Redis!Names
                     /\ Redis!AWSCRED_IDS(k) \in Redis!Names /\ Redis!USAGE(k) \in Redis!Names
                     /\ Redis!METERING(k) \in Redis!Names
BY DEF Redis!Names

\* The names are told apart by their prefix and their key.
LEMMA NameParts ==
  /\ Redis!KEYS_INDEX[1] = "keys" /\ Redis!AWSCRED_INDEX[1] = "awscreds"
  /\ Redis!AUDIT_ZSET[1] = "audit" /\ Redis!DENYLIST_INDEX[1] = "denylist"
  /\ Redis!SCHEMA_KEY[1] = "schema" /\ Redis!OLD[1] = "old"
  /\ \A k : /\ Redis!KEY(k)[1] = "key" /\ Redis!KEY(k)[2] = k
            /\ Redis!AWSCRED(k)[1] = "awscred" /\ Redis!AWSCRED(k)[2] = k
            /\ Redis!AWSCRED_IDS(k)[1] = "awscred_ids" /\ Redis!AWSCRED_IDS(k)[2] = k
            /\ Redis!USAGE(k)[1] = "usage" /\ Redis!USAGE(k)[2] = k
            /\ Redis!METERING(k)[1] = "metering" /\ Redis!METERING(k)[2] = k
BY DEF Redis!KEYS_INDEX, Redis!AWSCRED_INDEX, Redis!AUDIT_ZSET, Redis!DENYLIST_INDEX,
       Redis!SCHEMA_KEY, Redis!OLD, Redis!KEY, Redis!AWSCRED, Redis!AWSCRED_IDS, Redis!USAGE,
       Redis!METERING

\* A name that is written changes alone.
LEMMA NameChanged ==
  ASSUME NEW d, IsNames(d), NEW x \in Redis!Names, NEW v
  PROVE  /\ IsNames(Changed(d, x, v))
         /\ Changed(d, x, v)[x] = v
         /\ \A y \in Redis!Names : y # x => Changed(d, x, v)[y] = d[y]
BY DEF IsNames, Changed

\* Names that are deleted hold nothing, and no other changes.
LEMMA NamesCleared ==
  ASSUME NEW d, NEW xs
  PROVE  /\ IsNames(Cleared(d, xs))
         /\ \A y \in Redis!Names : Cleared(d, xs)[y] = IF y \in xs THEN Nil ELSE d[y]
BY DEF IsNames, Cleared

\* SET writes its name.
LEMMA ExecSET ==
  ASSUME NEW d, NEW g, NEW x, NEW v
  PROVE  Redis!Exec(St(d, g), Redis!SET(x, v)) = St(Changed(d, x, v), g)
<1>1. ASSUME NEW st, NEW c, c.do = "SET" PROVE Redis!Exec(st, c) = [st EXCEPT !.db[c.at] = c.val]
  BY <1>1 DEF Redis!Exec
<1>2. /\ Redis!SET(x, v).do = "SET" /\ Redis!SET(x, v).at = x /\ Redis!SET(x, v).val = v
  BY DEF Redis!SET
<1>3. [St(d, g) EXCEPT !.db[x] = v] = St(Changed(d, x, v), g)
  BY DEF St, Changed
<1> QED BY <1>1, <1>2, <1>3

\* DEL clears its names.
LEMMA ExecDEL ==
  ASSUME NEW d, IsNames(d), NEW g, NEW xs
  PROVE  Redis!Exec(St(d, g), Redis!DEL(xs)) = St(Cleared(d, xs), g)
<1>1. ASSUME NEW st, NEW c, c.do = "DEL"
      PROVE  Redis!Exec(st, c)
               = [st EXCEPT !.db = [x \in DOMAIN st.db |-> IF x \in c.at THEN Nil ELSE st.db[x]]]
  BY <1>1 DEF Redis!Exec
<1>2. /\ Redis!DEL(xs).do = "DEL" /\ Redis!DEL(xs).at = xs
  BY DEF Redis!DEL
<1>3. St(d, g).db = d /\ DOMAIN d = Redis!Names
  BY DEF St, IsNames
<1>4. ASSUME NEW e PROVE [St(d, g) EXCEPT !.db = e] = St(e, g)
  BY DEF St
<1>5. Redis!Exec(St(d, g), Redis!DEL(xs)) = [St(d, g) EXCEPT !.db = Cleared(d, xs)]
  BY <1>1, <1>2, <1>3 DEF Cleared
<1> QED BY <1>4, <1>5

\* SADD adds its member, to a set that it makes if there is none.
LEMMA ExecSADD ==
  ASSUME NEW d, NEW g, NEW x, NEW v
  PROVE  Redis!Exec(St(d, g), Redis!SADD(x, v)) = St(Changed(d, x, Redis!Members(d[x]) \cup {v}), g)
<1>1. ASSUME NEW st, NEW c, c.do = "SADD"
      PROVE  Redis!Exec(st, c) = [st EXCEPT !.db[c.at] = Redis!Members(st.db[c.at]) \cup {c.val}]
  BY <1>1 DEF Redis!Exec
<1>2. /\ Redis!SADD(x, v).do = "SADD" /\ Redis!SADD(x, v).at = x /\ Redis!SADD(x, v).val = v
  BY DEF Redis!SADD
<1>3. ASSUME NEW e PROVE [St(d, g) EXCEPT !.db[x] = e] = St(Changed(d, x, e), g)
  BY DEF St, Changed
<1>4. St(d, g).db = d
  BY DEF St
<1>5. Redis!Exec(St(d, g), Redis!SADD(x, v)) = [St(d, g) EXCEPT !.db[x] = Redis!Members(d[x]) \cup {v}]
  BY <1>1, <1>2, <1>4
<1> QED BY <1>3, <1>5

\* SREM takes its members out, and the set with the last of them.
LEMMA ExecSREM ==
  ASSUME NEW d, NEW g, NEW x, NEW vs
  PROVE  Redis!Exec(St(d, g), Redis!SREM(x, vs)) = St(Changed(d, x, Redis!Without(d[x], vs)), g)
<1>1. ASSUME NEW st, NEW c, c.do = "SREM"
      PROVE  Redis!Exec(st, c) = [st EXCEPT !.db[c.at] = Redis!Without(st.db[c.at], c.val)]
  BY <1>1 DEF Redis!Exec
<1>2. /\ Redis!SREM(x, vs).do = "SREM" /\ Redis!SREM(x, vs).at = x /\ Redis!SREM(x, vs).val = vs
  BY DEF Redis!SREM
<1>3. ASSUME NEW e PROVE [St(d, g) EXCEPT !.db[x] = e] = St(Changed(d, x, e), g)
  BY DEF St, Changed
<1>4. St(d, g).db = d
  BY DEF St
<1>5. Redis!Exec(St(d, g), Redis!SREM(x, vs)) = [St(d, g) EXCEPT !.db[x] = Redis!Without(d[x], vs)]
  BY <1>1, <1>2, <1>4
<1> QED BY <1>3, <1>5

\* HINCRBY adds to the fields of its hash.
LEMMA ExecHINCRBY ==
  ASSUME NEW d, NEW g, NEW x, NEW v
  PROVE  Redis!Exec(St(d, g), Redis!HINCRBY(x, v)) = St(Changed(d, x, Redis!Incremented(d[x], v)), g)
<1>1. ASSUME NEW st, NEW c, c.do = "HINCRBY"
      PROVE  Redis!Exec(st, c) = [st EXCEPT !.db[c.at] = Redis!Incremented(st.db[c.at], c.val)]
  BY <1>1 DEF Redis!Exec
<1>2. /\ Redis!HINCRBY(x, v).do = "HINCRBY" /\ Redis!HINCRBY(x, v).at = x
      /\ Redis!HINCRBY(x, v).val = v
  BY DEF Redis!HINCRBY
<1>3. ASSUME NEW e PROVE [St(d, g) EXCEPT !.db[x] = e] = St(Changed(d, x, e), g)
  BY DEF St, Changed
<1>4. St(d, g).db = d
  BY DEF St
<1>5. Redis!Exec(St(d, g), Redis!HINCRBY(x, v)) = [St(d, g) EXCEPT !.db[x] = Redis!Incremented(d[x], v)]
  BY <1>1, <1>2, <1>4
<1> QED BY <1>3, <1>5

\* INCR counts one.
LEMMA ExecINCR ==
  ASSUME NEW d, NEW g, NEW x
  PROVE  Redis!Exec(St(d, g), Redis!INCR(x)) = St(Changed(d, x, IF d[x] = Nil THEN 1 ELSE d[x] + 1), g)
<1>1. ASSUME NEW st, NEW c, c.do = "INCR"
      PROVE  Redis!Exec(st, c)
               = [st EXCEPT !.db[c.at] = IF st.db[c.at] = Nil THEN 1 ELSE st.db[c.at] + 1]
  BY <1>1 DEF Redis!Exec
<1>2. Redis!INCR(x).do = "INCR" /\ Redis!INCR(x).at = x
  BY DEF Redis!INCR
<1>3. ASSUME NEW e PROVE [St(d, g) EXCEPT !.db[x] = e] = St(Changed(d, x, e), g)
  BY DEF St, Changed
<1>4. St(d, g).db = d
  BY DEF St
<1>5. Redis!Exec(St(d, g), Redis!INCR(x)) = [St(d, g) EXCEPT !.db[x] = IF d[x] = Nil THEN 1 ELSE d[x] + 1]
  BY <1>1, <1>2, <1>4
<1> QED BY <1>3, <1>5

OfSeq(v, s) == {r \in Redis!Members(v) : r.seq = s}

\* The removal by score takes out the records of that number.
LEMMA ExecZREM ==
  ASSUME NEW d, NEW g, NEW x, NEW s
  PROVE  Redis!Exec(St(d, g), Redis!ZREM(x, s))
           = St(Changed(d, x, Redis!Without(d[x], OfSeq(d[x], s))), g)
<1>1. ASSUME NEW st, NEW c, c.do = "ZREM"
      PROVE  Redis!Exec(st, c)
               = [st EXCEPT !.db[c.at] = Redis!Without(st.db[c.at], OfSeq(st.db[c.at], c.val))]
  BY <1>1 DEF Redis!Exec, OfSeq
<1>2. Redis!ZREM(x, s).do = "ZREM" /\ Redis!ZREM(x, s).at = x /\ Redis!ZREM(x, s).val = s
  BY DEF Redis!ZREM
<1>3. ASSUME NEW e PROVE [St(d, g) EXCEPT !.db[x] = e] = St(Changed(d, x, e), g)
  BY DEF St, Changed
<1>4. St(d, g).db = d
  BY DEF St
<1>5. Redis!Exec(St(d, g), Redis!ZREM(x, s))
        = [St(d, g) EXCEPT !.db[x] = Redis!Without(d[x], OfSeq(d[x], s))]
  BY <1>1, <1>2, <1>4
<1> QED BY <1>3, <1>5

\* The commands that read.
Present(d, xs) == {y \in xs : d[y] # Nil}

LegacyIn(d, ns) == {y \in ns : Redis!has_legacy(d, y)}

\* GET reads into a field, ...
LEMMA ExecGET ==
  ASSUME NEW d, NEW g, NEW x, NEW into
  PROVE  Redis!Exec(St(d, g), Redis!GET(x, into)) = St(d, Changed(g, into, d[x]))
<1>1. ASSUME NEW st, NEW c, c.do = "GET"
      PROVE  Redis!Exec(st, c) = [st EXCEPT !.got[c.into] = st.db[c.at]]
  BY <1>1 DEF Redis!Exec
<1>2. Redis!GET(x, into).do = "GET" /\ Redis!GET(x, into).at = x /\ Redis!GET(x, into).into = into
  BY DEF Redis!GET
<1>3. St(d, g).db = d
  BY DEF St
<1>4. ASSUME NEW e PROVE [St(d, g) EXCEPT !.got[into] = e] = St(d, Changed(g, into, e))
  BY DEF St, Changed
<1>5. Redis!Exec(St(d, g), Redis!GET(x, into)) = [St(d, g) EXCEPT !.got[into] = d[x]]
  BY <1>1, <1>2, <1>3
<1> QED BY <1>4, <1>5

\* ... as does SCAN, of the names that are present, ...
LEMMA ExecSCAN ==
  ASSUME NEW d, NEW g, NEW x, NEW into
  PROVE  Redis!Exec(St(d, g), Redis!SCAN(x, into)) = St(d, Changed(g, into, Present(d, x)))
<1>1. ASSUME NEW st, NEW c, c.do = "SCAN"
      PROVE  Redis!Exec(st, c) = [st EXCEPT !.got[c.into] = Present(st.db, c.at)]
  BY <1>1 DEF Redis!Exec, Present
<1>2. Redis!SCAN(x, into).do = "SCAN" /\ Redis!SCAN(x, into).at = x /\ Redis!SCAN(x, into).into = into
  BY DEF Redis!SCAN
<1>3. St(d, g).db = d
  BY DEF St
<1>4. ASSUME NEW e PROVE [St(d, g) EXCEPT !.got[into] = e] = St(d, Changed(g, into, e))
  BY DEF St, Changed
<1>5. Redis!Exec(St(d, g), Redis!SCAN(x, into)) = [St(d, g) EXCEPT !.got[into] = Present(d, x)]
  BY <1>1, <1>2, <1>3
<1> QED BY <1>4, <1>5

\* ... and HEXISTS, of those that an older build wrote.
LEMMA ExecHEXISTS ==
  ASSUME NEW d, NEW g
  PROVE  Redis!Exec(St(d, g), Redis!HEXISTS) = St(d, Changed(g, "legacy", LegacyIn(d, g.names)))
<1>1. ASSUME NEW st, NEW c, c.do = "HEXISTS"
      PROVE  Redis!Exec(st, c) = [st EXCEPT !.got.legacy = LegacyIn(st.db, st.got.names)]
  BY <1>1 DEF Redis!Exec, LegacyIn
<1>2. Redis!HEXISTS.do = "HEXISTS"
  BY DEF Redis!HEXISTS
<1>3. St(d, g).db = d /\ St(d, g).got = g
  BY DEF St
<1>4. ASSUME NEW e PROVE [St(d, g) EXCEPT !.got.legacy = e] = St(d, Changed(g, "legacy", e))
  BY DEF St, Changed
<1>5. Redis!Exec(St(d, g), Redis!HEXISTS) = [St(d, g) EXCEPT !.got.legacy = LegacyIn(d, g.names)]
  BY <1>1, <1>2, <1>3
<1> QED BY <1>4, <1>5

\* The commands of a section.
LEMMA RedisRun1 ==
  ASSUME NEW st, NEW a, NEW e1,
         e1 = Redis!Exec(st, a)
  PROVE  Redis!Run(st, <<a>>) = e1
<1> DEFINE s == <<a>>
<1>1. Len(s) = 1 /\ Len(s) \in 1..6 /\ s[1] = a
  OBVIOUS
<1> HIDE DEF s
<1>2. PICK h : Redis!Run(st, s) = h[Len(s)] /\ RedisSteps(h, st, s)
  BY <1>1, RedisRunOf
<1>3. h[1] = e1
  BY <1>1, <1>2 DEF RedisSteps
<1> QED BY <1>1, <1>2, <1>3 DEF s

\* A pipeline of two commands, ...
LEMMA RedisRun2 ==
  ASSUME NEW st, NEW a, NEW b, NEW e1, NEW e2,
         e1 = Redis!Exec(st, a), e2 = Redis!Exec(e1, b)
  PROVE  Redis!Run(st, <<a, b>>) = e2
<1> DEFINE s == <<a, b>>
<1>1. Len(s) = 2 /\ Len(s) \in 1..6 /\ s[1] = a /\ s[2] = b
  OBVIOUS
<1> HIDE DEF s
<1>2. PICK h : Redis!Run(st, s) = h[Len(s)] /\ RedisSteps(h, st, s)
  BY <1>1, RedisRunOf
<1>3. h[1] = e1 /\ h[2] = e2
  BY <1>1, <1>2 DEF RedisSteps
<1> QED BY <1>1, <1>2, <1>3 DEF s

\* ... of five ...
LEMMA RedisRun5 ==
  ASSUME NEW st, NEW a, NEW b, NEW c, NEW d, NEW e, NEW e1, NEW e2, NEW e3, NEW e4, NEW e5,
         e1 = Redis!Exec(st, a), e2 = Redis!Exec(e1, b), e3 = Redis!Exec(e2, c), e4 =
         Redis!Exec(e3, d), e5 = Redis!Exec(e4, e)
  PROVE  Redis!Run(st, <<a, b, c, d, e>>) = e5
<1> DEFINE s == <<a, b, c, d, e>>
<1>1. Len(s) = 5 /\ Len(s) \in 1..6 /\ s[1] = a /\ s[2] = b /\ s[3] = c /\ s[4] = d /\ s[5] = e
  OBVIOUS
<1> HIDE DEF s
<1>2. PICK h : Redis!Run(st, s) = h[Len(s)] /\ RedisSteps(h, st, s)
  BY <1>1, RedisRunOf
<1>3. h[1] = e1 /\ h[2] = e2 /\ h[3] = e3 /\ h[4] = e4 /\ h[5] = e5
  BY <1>1, <1>2 DEF RedisSteps
<1> QED BY <1>1, <1>2, <1>3 DEF s

\* ... and of six.
LEMMA RedisRun6 ==
  ASSUME NEW st, NEW a, NEW b, NEW c, NEW d, NEW e, NEW f, NEW e1, NEW e2, NEW e3, NEW e4, NEW e5, NEW e6,
         e1 = Redis!Exec(st, a), e2 = Redis!Exec(e1, b), e3 = Redis!Exec(e2, c), e4 =
         Redis!Exec(e3, d), e5 = Redis!Exec(e4, e), e6 = Redis!Exec(e5, f)
  PROVE  Redis!Run(st, <<a, b, c, d, e, f>>) = e6
<1> DEFINE s == <<a, b, c, d, e, f>>
<1>1. Len(s) = 6 /\ Len(s) \in 1..6 /\ s[1] = a /\ s[2] = b /\ s[3] = c /\ s[4] = d /\ s[5] = e /\ s[6] = f
  OBVIOUS
<1> HIDE DEF s
<1>2. PICK h : Redis!Run(st, s) = h[Len(s)] /\ RedisSteps(h, st, s)
  BY <1>1, RedisRunOf
<1>3. h[1] = e1 /\ h[2] = e2 /\ h[3] = e3 /\ h[4] = e4 /\ h[5] = e5 /\ h[6] = e6
  BY <1>1, <1>2 DEF RedisSteps
<1> QED BY <1>1, <1>2, <1>3 DEF s

-----------------------------------------------------------------------------
(* What the name space is read as *)

RedisKeys(d) == [k \in Keys |-> Redis!get_key(d, k)]

\* What the counters of a usage hash are to the contract.
UsageIn(v) ==
  IF v = Nil THEN Nil
  ELSE [read |-> [f \in {"req", "tok"} |-> Redis!read_u64(v[f])],
        owed |-> [f \in {"req", "tok"} |-> Redis!read_u64(-v[f])]]

RedisUsage(d) == [k \in Keys |-> Redis!Usage(d, k)]

\* A key's usage is a matter of its own hash.
LEMMA RedisUsageIs ==
  ASSUME NEW d
  PROVE  /\ RedisUsage(d) = [k \in Keys |-> UsageIn(d[Redis!USAGE(k)])]
         /\ \A k : Redis!Usage(d, k) = UsageIn(d[Redis!USAGE(k)])
<1>1. ASSUME NEW k PROVE Redis!Usage(d, k) = UsageIn(d[Redis!USAGE(k)])
  <2> DEFINE v == d[Redis!USAGE(k)]
  <2>1. CASE v = Nil
    BY <2>1 DEF Redis!Usage, UsageIn
  <2>2. CASE v # Nil
    <3>1. Redis!get_usage(d, k) = [f \in {"req", "tok"} |-> Redis!read_u64(v[f])]
      BY <2>2 DEF Redis!get_usage
    <3>2. Redis!BelowZero(d, k) = [f \in {"req", "tok"} |-> Redis!read_u64(-v[f])]
      BY DEF Redis!BelowZero
    <3> QED BY <2>2, <3>1, <3>2 DEF Redis!Usage, UsageIn
  <2> QED BY <2>1, <2>2
<1> QED BY <1>1 DEF RedisUsage

\* A hash is read as a record, and as none when there is none.
LEMMA UsageInNil ==
  ASSUME NEW v \in {Nil} \cup [{"req", "tok"} -> Int]
  PROVE  UsageIn(v) = Nil <=> v = Nil
<1> DEFINE r == [f \in {"req", "tok"} |-> Redis!read_u64(v[f])]
           o == [f \in {"req", "tok"} |-> Redis!read_u64(-v[f])]
<1>1. ASSUME v # Nil PROVE r \in [{"req", "tok"} -> Int] /\ o \in [{"req", "tok"} -> Int]
  BY <1>1 DEF Redis!read_u64
<1>2. v # Nil => UsageIn(v) = [read |-> r, owed |-> o]
  BY DEF UsageIn
<1> HIDE DEF r, o
<1>3. v # Nil => UsageIn(v) # Nil
  BY <1>1, <1>2, NilIsNone
<1> QED BY <1>3 DEF UsageIn

RedisCounts(d) == [k \in Keys |-> Redis!list_metering(d, k)]

RedisContents(d) ==
  Contents(RedisKeys(d), Redis!list_aws_credentials(d), Redis!cred_ids(d), RedisUsage(d),
           RedisCounts(d), Redis!Members(d[Redis!AUDIT_ZSET]), Redis!Members(d[Redis!DENYLIST_INDEX]))

\* What Redis shows, part by part.
LEMMA RedisViewIs ==
  ASSUME NEW d
  PROVE  Redis!View(d) = RedisContents(d)
BY Zenon DEF Redis!View, RedisContents, Contents, RedisKeys, RedisUsage, RedisCounts,
   Redis!list_audit, Redis!list_denylist

SameAt(d, e, xs) == \A x \in xs : e[x] = d[x]

KeyNames == {Redis!KEYS_INDEX} \cup {Redis!KEY(k) : k \in Keys}

CredNames == {Redis!AWSCRED_INDEX} \cup {Redis!AWSCRED(k) : k \in Keys}

IdsNames == {Redis!AWSCRED_IDS(k) : k \in Keys}

UsageNames == {Redis!USAGE(k) : k \in Keys}

MeteringNames == {Redis!METERING(k) : k \in Keys}

\* What is read depends on the names it is read from.
LEMMA SameReads ==
  ASSUME NEW d, NEW e
  PROVE  /\ SameAt(d, e, KeyNames) => RedisKeys(e) = RedisKeys(d)
         /\ SameAt(d, e, CredNames) /\ Redis!Members(d[Redis!AWSCRED_INDEX]) \subseteq Keys =>
              Redis!list_aws_credentials(e) = Redis!list_aws_credentials(d)
         /\ SameAt(d, e, IdsNames) => Redis!cred_ids(e) = Redis!cred_ids(d)
         /\ SameAt(d, e, UsageNames) => RedisUsage(e) = RedisUsage(d)
         /\ SameAt(d, e, MeteringNames) => RedisCounts(e) = RedisCounts(d)
<1>1. ASSUME SameAt(d, e, KeyNames) PROVE RedisKeys(e) = RedisKeys(d)
  <2>1. ASSUME NEW k \in Keys PROVE Redis!get_key(e, k) = Redis!get_key(d, k)
    <3>1. e[Redis!KEYS_INDEX] = d[Redis!KEYS_INDEX] /\ e[Redis!KEY(k)] = d[Redis!KEY(k)]
      BY <1>1 DEF SameAt, KeyNames
    <3> QED BY <3>1 DEF Redis!get_key
  <2> QED BY <2>1 DEF RedisKeys
<1>2. ASSUME SameAt(d, e, CredNames), Redis!Members(d[Redis!AWSCRED_INDEX]) \subseteq Keys
      PROVE  Redis!list_aws_credentials(e) = Redis!list_aws_credentials(d)
  <2>1. e[Redis!AWSCRED_INDEX] = d[Redis!AWSCRED_INDEX]
        /\ \A k \in Keys : e[Redis!AWSCRED(k)] = d[Redis!AWSCRED(k)]
    BY <1>2 DEF SameAt, CredNames
  <2> QED BY <1>2, <2>1 DEF Redis!list_aws_credentials
<1>3. ASSUME SameAt(d, e, IdsNames) PROVE Redis!cred_ids(e) = Redis!cred_ids(d)
  BY <1>3 DEF SameAt, IdsNames, Redis!cred_ids
<1>4. ASSUME SameAt(d, e, UsageNames) PROVE RedisUsage(e) = RedisUsage(d)
  BY <1>4, RedisUsageIs DEF SameAt, UsageNames
<1>5. ASSUME SameAt(d, e, MeteringNames) PROVE RedisCounts(e) = RedisCounts(d)
  BY <1>5 DEF SameAt, MeteringNames, RedisCounts, Redis!list_metering
<1> QED BY <1>1, <1>2, <1>3, <1>4, <1>5

\* Two name spaces that agree but at a few names.
OtherThan(d, e, xs) == \A x \in Redis!Names : x \notin xs => e[x] = d[x]

\* A family of names that a section does not write stays as it is.
LEMMA OthersSame ==
  ASSUME NEW d, NEW e, NEW xs, OtherThan(d, e, xs)
  PROVE  /\ xs \cap KeyNames = {} => SameAt(d, e, KeyNames)
         /\ xs \cap CredNames = {} => SameAt(d, e, CredNames)
         /\ xs \cap IdsNames = {} => SameAt(d, e, IdsNames)
         /\ xs \cap UsageNames = {} => SameAt(d, e, UsageNames)
         /\ xs \cap MeteringNames = {} => SameAt(d, e, MeteringNames)
<1>1. /\ KeyNames \subseteq Redis!Names /\ CredNames \subseteq Redis!Names
      /\ IdsNames \subseteq Redis!Names /\ UsageNames \subseteq Redis!Names
      /\ MeteringNames \subseteq Redis!Names
  BY NamesIn DEF KeyNames, CredNames, IdsNames, UsageNames, MeteringNames
<1> QED BY <1>1 DEF OtherThan, SameAt

\* An index of things of T, or none.
Index(v, T) == v \in {Nil} \cup SUBSET T

Indexable(T) == \A S : S \subseteq T => S # Nil

\* The members of an index with one more.
LEMMA MembersOf ==
  ASSUME NEW T, Indexable(T), NEW v, Index(v, T), NEW x \in T
  PROVE  /\ Redis!Members(v) \subseteq T
         /\ Redis!Members(Redis!Members(v) \cup {x}) = Redis!Members(v) \cup {x}
         /\ Redis!Members(v) \cup {x} \in {Nil} \cup SUBSET T
<1>1. Redis!Members(v) \subseteq T
  BY DEF Redis!Members, Index
<1>2. Redis!Members(v) \cup {x} # Nil
  BY <1>1 DEF Indexable
<1>3. Redis!Members(Redis!Members(v) \cup {x}) = Redis!Members(v) \cup {x}
  BY <1>2 DEF Redis!Members
<1> QED BY <1>1, <1>3

\* The members of an index without some.
LEMMA MembersWithout ==
  ASSUME NEW T, Indexable(T), NEW v, Index(v, T), NEW gone
  PROVE  /\ Redis!Members(Redis!Without(v, gone)) = Redis!Members(v) \ gone
         /\ Index(Redis!Without(v, gone), T)
<1>1. Redis!Members(v) \subseteq T
  BY DEF Redis!Members, Index
<1>2. Redis!Members(v) \ gone # Nil
  BY <1>1 DEF Indexable
<1>4. CASE Redis!Members(v) \subseteq gone
  <2>1. Redis!Without(v, gone) = Nil
    BY <1>4 DEF Redis!Without
  <2>2. Redis!Members(Nil) = {}
    BY DEF Redis!Members
  <2> QED BY <1>1, <1>4, <2>1, <2>2 DEF Index
<1>5. CASE ~(Redis!Members(v) \subseteq gone)
  <2>1. Redis!Without(v, gone) = Redis!Members(v) \ gone
    BY <1>5 DEF Redis!Without
  <2>2. Redis!Members(Redis!Members(v) \ gone) = Redis!Members(v) \ gone
    BY <1>2 DEF Redis!Members
  <2> QED BY <1>1, <2>1, <2>2 DEF Index
<1> QED BY <1>4, <1>5

\* No index is taken for an absent one.
LEMMA Indexables == Indexable(Keys) /\ Indexable([seq : Seqs, digest : Nodes])
BY NilIsNone DEF Indexable

\* Which names belong to which reading.
LEMMA NameFamilies ==
  /\ \A k \in Keys :
       /\ Redis!KEY(k) \notin CredNames \cup IdsNames \cup UsageNames \cup MeteringNames
       /\ Redis!AWSCRED(k) \notin KeyNames \cup IdsNames \cup UsageNames \cup MeteringNames
       /\ Redis!AWSCRED_IDS(k) \notin KeyNames \cup CredNames \cup UsageNames \cup MeteringNames
       /\ Redis!USAGE(k) \notin KeyNames \cup CredNames \cup IdsNames \cup MeteringNames
       /\ Redis!METERING(k) \notin KeyNames \cup CredNames \cup IdsNames \cup UsageNames
  /\ Redis!KEYS_INDEX \notin CredNames \cup IdsNames \cup UsageNames \cup MeteringNames
  /\ Redis!AWSCRED_INDEX \notin KeyNames \cup IdsNames \cup UsageNames \cup MeteringNames
  /\ \A x \in {Redis!AUDIT_ZSET, Redis!DENYLIST_INDEX, Redis!SCHEMA_KEY, Redis!OLD} :
       x \notin KeyNames \cup CredNames \cup IdsNames \cup UsageNames \cup MeteringNames
<1> DEFINE fam == KeyNames \cup CredNames \cup IdsNames \cup UsageNames \cup MeteringNames
<1>1. /\ \A x \in KeyNames : x[1] \in {"keys", "key"}
      /\ \A x \in CredNames : x[1] \in {"awscreds", "awscred"}
      /\ \A x \in IdsNames : x[1] = "awscred_ids"
      /\ \A x \in UsageNames : x[1] = "usage"
      /\ \A x \in MeteringNames : x[1] = "metering"
  BY NameParts DEF KeyNames, CredNames, IdsNames, UsageNames, MeteringNames
<1> QED BY <1>1, NameParts

\* To which family each name belongs.
LEMMA FamilyMembers ==
  /\ Redis!KEYS_INDEX \in KeyNames /\ Redis!AWSCRED_INDEX \in CredNames
  /\ \A k \in Keys : /\ Redis!KEY(k) \in KeyNames /\ Redis!AWSCRED(k) \in CredNames
                     /\ Redis!AWSCRED_IDS(k) \in IdsNames /\ Redis!USAGE(k) \in UsageNames
                     /\ Redis!METERING(k) \in MeteringNames
BY DEF KeyNames, CredNames, IdsNames, UsageNames, MeteringNames

\* What is left alone keeps its type.
LEMMA SameTypes ==
  ASSUME NEW d, NEW e
  PROVE  /\ SameAt(d, e, KeyNames) /\ KeyTypes(d) => KeyTypes(e)
         /\ SameAt(d, e, CredNames) /\ CredTypes(d) => CredTypes(e)
         /\ SameAt(d, e, IdsNames) /\ IdsTypes(d) => IdsTypes(e)
         /\ SameAt(d, e, UsageNames) /\ UsageTypes(d) => UsageTypes(e)
         /\ SameAt(d, e, MeteringNames) /\ MeteringTypes(d) => MeteringTypes(e)
<1>1. SameAt(d, e, KeyNames) /\ KeyTypes(d) => KeyTypes(e)
  BY FamilyMembers DEF SameAt, KeyTypes
<1>2. SameAt(d, e, CredNames) /\ CredTypes(d) => CredTypes(e)
  BY FamilyMembers DEF SameAt, CredTypes
<1>3. SameAt(d, e, IdsNames) /\ IdsTypes(d) => IdsTypes(e)
  BY FamilyMembers DEF SameAt, IdsTypes
<1>4. SameAt(d, e, UsageNames) /\ UsageTypes(d) => UsageTypes(e)
  BY FamilyMembers DEF SameAt, UsageTypes
<1>5. SameAt(d, e, MeteringNames) /\ MeteringTypes(d) => MeteringTypes(e)
  BY FamilyMembers DEF SameAt, MeteringTypes
<1> QED BY <1>1, <1>2, <1>3, <1>4, <1>5

\* A key that is written, with its index, is listed with its grant.
LEMMA KeysWritten ==
  ASSUME NEW d, NEW e, KeyTypes(d), NEW k \in Keys, NEW g \in {"all", "none", "some"},
         e[Redis!KEY(k)] = Redis!key_to_json(g),
         e[Redis!KEYS_INDEX] = Redis!Members(d[Redis!KEYS_INDEX]) \cup {k},
         \A j \in Keys : j # k => e[Redis!KEY(j)] = d[Redis!KEY(j)]
  PROVE  RedisKeys(e) = Changed(RedisKeys(d), k, g) /\ KeyTypes(e)
<1> DEFINE v == Redis!key_to_json(g)
           x == d[Redis!KEYS_INDEX]
<1>1. v \in {"null", "[]", "[p]"} /\ Redis!key_from_json(v) = g
  <2>1. /\ g = "all" => v = "null"
        /\ g = "none" => v = "[]"
        /\ g = "some" => v = "[p]"
    BY DEF Redis!key_to_json
  <2>2. /\ Redis!key_from_json("null") = "all"
        /\ Redis!key_from_json("[]") = "none"
        /\ Redis!key_from_json("[p]") = "some"
    BY DEF Redis!key_from_json
  <2> HIDE DEF v
  <2> QED BY <2>1, <2>2
<1>2. v # Nil
  <2> HIDE DEF v
  <2> QED BY <1>1, NilIsNone
<1>3. /\ Redis!Members(Redis!Members(x) \cup {k}) = Redis!Members(x) \cup {k}
      /\ Redis!Members(x) \cup {k} \in {Nil} \cup SUBSET Keys
  <2>1. Index(x, Keys)
    BY DEF KeyTypes, Index
  <2> HIDE DEF x
  <2> QED BY <2>1, Indexables, MembersOf
<1> HIDE DEF v
<1>4. e[Redis!KEY(k)] = v
  BY DEF v
<1>5. KeyTypes(e)
  BY <1>1, <1>3, <1>4 DEF KeyTypes
<1>6. Redis!get_key(e, k) = g
  BY <1>1, <1>2, <1>3, <1>4 DEF Redis!get_key
<1>7. ASSUME NEW j \in Keys, j # k PROVE Redis!get_key(e, j) = Redis!get_key(d, j)
  BY <1>3, <1>7 DEF Redis!get_key
<1>8. RedisKeys(e) = Changed(RedisKeys(d), k, g)
  BY <1>6, <1>7 DEF RedisKeys, Changed
<1> QED BY <1>5, <1>8

\* A key that is removed, with its place in the index, is not listed.
LEMMA KeysRemoved ==
  ASSUME NEW d, NEW e, KeyTypes(d), NEW k \in Keys, e[Redis!KEY(k)] = Nil,
         e[Redis!KEYS_INDEX] = Redis!Without(d[Redis!KEYS_INDEX], {k}),
         \A j \in Keys : j # k => e[Redis!KEY(j)] = d[Redis!KEY(j)]
  PROVE  RedisKeys(e) = Changed(RedisKeys(d), k, Nil) /\ KeyTypes(e)
<1> DEFINE x == d[Redis!KEYS_INDEX]
<1>1. /\ Redis!Members(Redis!Without(x, {k})) = Redis!Members(x) \ {k}
      /\ Redis!Without(x, {k}) \in {Nil} \cup SUBSET Keys
  <2>1. Index(x, Keys)
    BY DEF KeyTypes, Index
  <2> HIDE DEF x
  <2>2. Redis!Members(Redis!Without(x, {k})) = Redis!Members(x) \ {k} /\ Index(Redis!Without(x, {k}), Keys)
    BY <2>1, Indexables, MembersWithout
  <2>3. Redis!Members(x) \subseteq Keys
    BY <2>1, Indexables, MembersOf
  <2> QED BY <2>2, <2>3 DEF Index
<1>2. KeyTypes(e)
  BY <1>1 DEF KeyTypes
<1>3. Redis!get_key(e, k) = Nil
  BY DEF Redis!get_key
<1>4. ASSUME NEW j \in Keys, j # k PROVE Redis!get_key(e, j) = Redis!get_key(d, j)
  BY <1>1, <1>4 DEF Redis!get_key
<1>5. RedisKeys(e) = Changed(RedisKeys(d), k, Nil)
  BY <1>3, <1>4 DEF RedisKeys, Changed
<1> QED BY <1>2, <1>5

\* A credential that is written, with its index, is listed.
LEMMA CredsWritten ==
  ASSUME NEW d, NEW e, CredTypes(d), NEW k \in Keys, e[Redis!AWSCRED(k)] = "secret",
         e[Redis!AWSCRED_INDEX] = Redis!Members(d[Redis!AWSCRED_INDEX]) \cup {k},
         \A j \in Keys : j # k => e[Redis!AWSCRED(j)] = d[Redis!AWSCRED(j)]
  PROVE  /\ Redis!list_aws_credentials(e) = Redis!list_aws_credentials(d) \cup {k}
         /\ CredTypes(e)
<1> DEFINE x == d[Redis!AWSCRED_INDEX]
<1>1. /\ Redis!Members(Redis!Members(x) \cup {k}) = Redis!Members(x) \cup {k}
      /\ Redis!Members(x) \cup {k} \in {Nil} \cup SUBSET Keys
      /\ Redis!Members(x) \subseteq Keys
  <2>1. Index(x, Keys)
    BY DEF CredTypes, Index
  <2> HIDE DEF x
  <2> QED BY <2>1, Indexables, MembersOf
<1>2. CredTypes(e)
  BY <1>1 DEF CredTypes
<1>3. Redis!Members(e[Redis!AWSCRED_INDEX]) = Redis!Members(x) \cup {k}
  BY <1>1
<1>4. Redis!list_aws_credentials(e) = Redis!list_aws_credentials(d) \cup {k}
  BY <1>1, <1>3, NilIsNone DEF Redis!list_aws_credentials
<1> QED BY <1>2, <1>4

\* What a deletion takes of the credentials: what it has read.
LEMMA CredsRemoved ==
  ASSUME NEW d, NEW e, CredTypes(d), NEW k \in Keys, NEW ids, ids \subseteq {k},
         e[Redis!AWSCRED_INDEX] = Redis!Without(d[Redis!AWSCRED_INDEX], ids),
         \A j \in Keys : e[Redis!AWSCRED(j)] = IF j \in ids THEN Nil ELSE d[Redis!AWSCRED(j)]
  PROVE  /\ Redis!list_aws_credentials(e) = Redis!list_aws_credentials(d) \ ids
         /\ CredTypes(e)
<1> DEFINE x == d[Redis!AWSCRED_INDEX]
<1>1. /\ Redis!Members(Redis!Without(x, ids)) = Redis!Members(x) \ ids
      /\ Redis!Without(x, ids) \in {Nil} \cup SUBSET Keys
      /\ Redis!Members(x) \subseteq Keys
  <2>1. Index(x, Keys)
    BY DEF CredTypes, Index
  <2> HIDE DEF x
  <2>2. Redis!Members(Redis!Without(x, ids)) = Redis!Members(x) \ ids /\ Index(Redis!Without(x, ids), Keys)
    BY <2>1, Indexables, MembersWithout
  <2>3. Redis!Members(x) \subseteq Keys
    BY <2>1, Indexables, MembersOf
  <2> QED BY <2>2, <2>3 DEF Index
<1>2. CredTypes(e)
  BY <1>1 DEF CredTypes
<1>3. Redis!Members(e[Redis!AWSCRED_INDEX]) = Redis!Members(x) \ ids
  BY <1>1
<1>4. Redis!list_aws_credentials(e) = Redis!list_aws_credentials(d) \ ids
  BY <1>1, <1>3 DEF Redis!list_aws_credentials
<1> QED BY <1>2, <1>4

\* The credentials of a key that it lists as its own.
LEMMA IdsWritten ==
  ASSUME NEW d, NEW e, IdsTypes(d), NEW k \in Keys, NEW v,
         e[Redis!AWSCRED_IDS(k)] = v, v \in {Nil, {k}},
         \A j \in Keys : j # k => e[Redis!AWSCRED_IDS(j)] = d[Redis!AWSCRED_IDS(j)]
  PROVE  /\ v = {k} => Redis!cred_ids(e) = Redis!cred_ids(d) \cup {k}
         /\ v = Nil => Redis!cred_ids(e) = Redis!cred_ids(d) \ {k}
         /\ IdsTypes(e)
<1>1. {k} # Nil
  BY NilIsNone
<1>2. Redis!Members({k}) = {k} /\ Redis!Members(Nil) = {}
  BY <1>1 DEF Redis!Members
<1>3. IdsTypes(e)
  BY DEF IdsTypes
<1>4. v = {k} => Redis!cred_ids(e) = Redis!cred_ids(d) \cup {k}
  BY <1>2 DEF Redis!cred_ids
<1>5. v = Nil => Redis!cred_ids(e) = Redis!cred_ids(d) \ {k}
  BY <1>2 DEF Redis!cred_ids
<1> QED BY <1>3, <1>4, <1>5

\* A usage that is written is the key's usage.
LEMMA UsageWritten ==
  ASSUME NEW d, NEW e, UsageTypes(d), NEW k \in Keys,
         NEW u \in {Nil} \cup [{"req", "tok"} -> Int], e[Redis!USAGE(k)] = u,
         \A j \in Keys : j # k => e[Redis!USAGE(j)] = d[Redis!USAGE(j)]
  PROVE  RedisUsage(e) = Changed(RedisUsage(d), k, UsageIn(u)) /\ UsageTypes(e)
<1>1. UsageTypes(e)
  BY DEF UsageTypes
<1>2. RedisUsage(e) = Changed(RedisUsage(d), k, UsageIn(u))
  BY RedisUsageIs DEF Changed
<1> QED BY <1>1, <1>2

\* A counter that is incremented counts one more.
LEMMA MeteringWritten ==
  ASSUME NEW d, NEW e, MeteringTypes(d), NEW k \in Keys,
         e[Redis!METERING(k)] = (IF d[Redis!METERING(k)] = Nil THEN 1 ELSE d[Redis!METERING(k)] + 1),
         \A j \in Keys : j # k => e[Redis!METERING(j)] = d[Redis!METERING(j)]
  PROVE  /\ RedisCounts(e) = Changed(RedisCounts(d), k, RedisCounts(d)[k] + 1)
         /\ MeteringTypes(e)
<1>1. e[Redis!METERING(k)] \in Nat /\ e[Redis!METERING(k)] # Nil
      /\ e[Redis!METERING(k)] = Redis!list_metering(d, k) + 1
  BY NilIsNone DEF MeteringTypes, Redis!list_metering
<1>2. MeteringTypes(e)
  BY <1>1 DEF MeteringTypes
<1>3. Redis!list_metering(e, k) = Redis!list_metering(d, k) + 1
  BY <1>1 DEF Redis!list_metering
<1>4. ASSUME NEW j \in Keys, j # k PROVE Redis!list_metering(e, j) = Redis!list_metering(d, j)
  BY <1>4 DEF Redis!list_metering
<1>5. RedisCounts(e) = Changed(RedisCounts(d), k, RedisCounts(d)[k] + 1)
  BY <1>3, <1>4 DEF RedisCounts, Changed
<1> QED BY <1>2, <1>5

Added(v, x) == Redis!Members(v) \cup {x}

AuditStep(v, s, row, x) ==
  /\ x \in SUBSET [seq : Seqs, digest : Nodes]
  /\ Redis!Members(x) = {r \in Redis!Members(v) : r.seq # s} \cup {row}

\* A record replaces the one of its number in the sorted set.
LEMMA AuditWritten ==
  ASSUME NEW v, Index(v, [seq : Seqs, digest : Nodes]), NEW s \in Seqs, NEW g \in Nodes,
         NEW w, w = Redis!Without(v, OfSeq(v, s)), NEW x, NEW row,
         row = [seq |-> s, digest |-> g], x = Added(w, row)
  PROVE  AuditStep(v, s, row, x)
<1> DEFINE T == [seq : Seqs, digest : Nodes]
           gone == OfSeq(v, s)
<1>0. x = Redis!Members(w) \cup {row}
  BY DEF Added
<1>1. row \in T
  OBVIOUS
<1>2. Indexable(T)
  BY Indexables
<1> HIDE DEF T, gone
<1>3. Index(v, T) /\ w = Redis!Without(v, gone)
  BY DEF T, gone, Index
<1>4. Redis!Members(w) = Redis!Members(v) \ gone /\ w \in {Nil} \cup SUBSET T
  BY <1>2, <1>3, MembersWithout DEF Index
<1>5. /\ Redis!Members(x) = x /\ x \in SUBSET T
  <2>1. x \subseteq T
    BY <1>0, <1>1, <1>4 DEF Redis!Members
  <2> QED BY <2>1, <1>2 DEF Redis!Members, Indexable
<1>6. Redis!Members(v) \ gone = {r \in Redis!Members(v) : r.seq # s}
  BY DEF gone, OfSeq
<1> QED BY <1>0, <1>4, <1>5, <1>6 DEF T, AuditStep

-----------------------------------------------------------------------------
(* The methods of the Redis backend *)

\* The name space after a call is one, and the contract allows it.
RedisAfter(d, c, had, e) ==
  /\ RedisTypes(e)
  /\ RedisContents(e) \in C!Effects(RedisContents(d), c, had)
  /\ e[Redis!SCHEMA_KEY] = d[Redis!SCHEMA_KEY] /\ e[Redis!OLD] = d[Redis!OLD]

RedisTakes(d, c, g, had, cmds) ==
  \E e : Redis!Run(St(d, g), cmds) = St(e, g) /\ RedisAfter(d, c, had, e)

\* The families have their types.
LEMMA RedisTypesParts ==
  ASSUME NEW d, RedisTypes(d)
  PROVE  /\ IsNames(d) /\ KeyTypes(d) /\ CredTypes(d) /\ IdsTypes(d) /\ UsageTypes(d)
         /\ MeteringTypes(d) /\ AuditTypes(d) /\ DenyTypes(d)
         /\ Redis!Members(d[Redis!AWSCRED_INDEX]) \subseteq Keys
<1>1. Redis!Members(d[Redis!AWSCRED_INDEX]) \subseteq Keys
  BY DEF RedisTypes, CredTypes, Redis!Members
<1> QED BY <1>1 DEF RedisTypes, IsNames

\* The pipeline of put_key takes the effect of the call, ...
LEMMA RedisPutKey ==
  ASSUME NEW c \in C!Calls, c.op = "put_key", NEW d, RedisTypes(d), NEW g, NEW had
  PROVE  RedisTakes(d, c, g, had, <<Redis!SET(Redis!KEY(c.key), Redis!key_to_json(c.grant)),
                                    Redis!SADD(Redis!KEYS_INDEX, c.key)>>)
<1> DEFINE v  == Redis!key_to_json(c.grant)
           d1 == Changed(d, Redis!KEY(c.key), v)
           ix == Redis!Members(d1[Redis!KEYS_INDEX]) \cup {c.key}
           e  == Changed(d1, Redis!KEYS_INDEX, ix)
           xs == {Redis!KEY(c.key), Redis!KEYS_INDEX}
<1>1. c.key \in Keys /\ c.grant \in {"all", "none", "some"}
  BY CallsByOp
<1>2. Redis!Run(St(d, g), <<Redis!SET(Redis!KEY(c.key), v), Redis!SADD(Redis!KEYS_INDEX, c.key)>>)
        = St(e, g)
  <2>1. Redis!Exec(St(d, g), Redis!SET(Redis!KEY(c.key), v)) = St(d1, g)
    BY ExecSET
  <2> HIDE DEF d1
  <2>2. Redis!Exec(St(d1, g), Redis!SADD(Redis!KEYS_INDEX, c.key)) = St(e, g)
    BY ExecSADD
  <2> HIDE DEF e, v
  <2> QED BY <2>1, <2>2, RedisRun2
<1>3. /\ IsNames(e) /\ e[Redis!KEY(c.key)] = v
      /\ e[Redis!KEYS_INDEX] = Redis!Members(d[Redis!KEYS_INDEX]) \cup {c.key}
      /\ OtherThan(d, e, xs)
  <2>1. /\ Redis!KEY(c.key) \in Redis!Names /\ Redis!KEYS_INDEX \in Redis!Names
        /\ Redis!KEY(c.key) # Redis!KEYS_INDEX
    BY <1>1, NamesIn, NameParts
  <2> HIDE DEF v
  <2>2. /\ IsNames(d1) /\ d1[Redis!KEY(c.key)] = v
        /\ \A y \in Redis!Names : y # Redis!KEY(c.key) => d1[y] = d[y]
    BY <2>1, NameChanged, RedisTypesParts
  <2> HIDE DEF d1, ix
  <2>3. /\ IsNames(e) /\ e[Redis!KEYS_INDEX] = ix
        /\ \A y \in Redis!Names : y # Redis!KEYS_INDEX => e[y] = d1[y]
    BY <2>1, <2>2, NameChanged
  <2> HIDE DEF e
  <2> QED BY <2>1, <2>2, <2>3 DEF OtherThan, ix
<1> HIDE DEF e, v
<1>4. /\ SameAt(d, e, CredNames) /\ SameAt(d, e, IdsNames) /\ SameAt(d, e, UsageNames)
      /\ SameAt(d, e, MeteringNames)
  BY <1>1, <1>3, NameFamilies, OthersSame
<1>5. /\ e[Redis!AUDIT_ZSET] = d[Redis!AUDIT_ZSET] /\ e[Redis!DENYLIST_INDEX] = d[Redis!DENYLIST_INDEX]
      /\ e[Redis!SCHEMA_KEY] = d[Redis!SCHEMA_KEY] /\ e[Redis!OLD] = d[Redis!OLD]
      /\ \A j \in Keys : j # c.key => e[Redis!KEY(j)] = d[Redis!KEY(j)]
  BY <1>1, <1>3, NamesIn, NameParts DEF OtherThan
<1>6. RedisKeys(e) = Changed(RedisKeys(d), c.key, c.grant) /\ KeyTypes(e)
  BY <1>1, <1>3, <1>5, KeysWritten, RedisTypesParts DEF v
<1>7. RedisTypes(e)
  BY <1>3, <1>4, <1>5, <1>6, SameTypes DEF RedisTypes, IsNames, AuditTypes, DenyTypes
<1>8. RedisContents(e) \in C!Effects(RedisContents(d), c, had)
  <2>1. /\ Redis!list_aws_credentials(e) = Redis!list_aws_credentials(d)
        /\ Redis!cred_ids(e) = Redis!cred_ids(d) /\ RedisUsage(e) = RedisUsage(d)
        /\ RedisCounts(e) = RedisCounts(d)
    BY <1>4, SameReads, RedisTypesParts
  <2> QED BY <1>5, <1>6, <2>1, EffectOfPutKey DEF RedisContents
<1> QED BY <1>2, <1>5, <1>7, <1>8 DEF RedisTakes, RedisAfter, v

\* ... and so does that of a mint, ...
LEMMA RedisMint ==
  ASSUME NEW c \in C!Calls, c.op = "mint", NEW d, RedisTypes(d), NEW g, NEW had
  PROVE  RedisTakes(d, c, g, had, <<Redis!SET(Redis!KEY(c.key), Redis!key_to_json(c.grant)),
                                    Redis!SADD(Redis!KEYS_INDEX, c.key),
                                    Redis!SET(Redis!AWSCRED(c.key), "secret"),
                                    Redis!SADD(Redis!AWSCRED_INDEX, c.key),
                                    Redis!SADD(Redis!AWSCRED_IDS(c.key), c.key)>>)
<1> DEFINE v  == Redis!key_to_json(c.grant)
           d1 == Changed(d, Redis!KEY(c.key), v)
           i2 == Redis!Members(d1[Redis!KEYS_INDEX]) \cup {c.key}
           d2 == Changed(d1, Redis!KEYS_INDEX, i2)
           d3 == Changed(d2, Redis!AWSCRED(c.key), "secret")
           i4 == Redis!Members(d3[Redis!AWSCRED_INDEX]) \cup {c.key}
           d4 == Changed(d3, Redis!AWSCRED_INDEX, i4)
           i5 == Redis!Members(d4[Redis!AWSCRED_IDS(c.key)]) \cup {c.key}
           e  == Changed(d4, Redis!AWSCRED_IDS(c.key), i5)
           xs == {Redis!KEY(c.key), Redis!KEYS_INDEX, Redis!AWSCRED(c.key), Redis!AWSCRED_INDEX,
                  Redis!AWSCRED_IDS(c.key)}
<1>1. c.key \in Keys /\ c.grant \in {"all", "none", "some"}
  BY CallsByOp
<1>2. Redis!Run(St(d, g), <<Redis!SET(Redis!KEY(c.key), v), Redis!SADD(Redis!KEYS_INDEX, c.key),
                            Redis!SET(Redis!AWSCRED(c.key), "secret"),
                            Redis!SADD(Redis!AWSCRED_INDEX, c.key),
                            Redis!SADD(Redis!AWSCRED_IDS(c.key), c.key)>>)
        = St(e, g)
  <2>1. Redis!Exec(St(d, g), Redis!SET(Redis!KEY(c.key), v)) = St(d1, g)
    BY ExecSET
  <2> HIDE DEF d1
  <2>2. Redis!Exec(St(d1, g), Redis!SADD(Redis!KEYS_INDEX, c.key)) = St(d2, g)
    BY ExecSADD
  <2> HIDE DEF d2
  <2>3. Redis!Exec(St(d2, g), Redis!SET(Redis!AWSCRED(c.key), "secret")) = St(d3, g)
    BY ExecSET
  <2> HIDE DEF d3
  <2>4. Redis!Exec(St(d3, g), Redis!SADD(Redis!AWSCRED_INDEX, c.key)) = St(d4, g)
    BY ExecSADD
  <2> HIDE DEF d4
  <2>5. Redis!Exec(St(d4, g), Redis!SADD(Redis!AWSCRED_IDS(c.key), c.key)) = St(e, g)
    BY ExecSADD
  <2> HIDE DEF e, v
  <2> QED BY <2>1, <2>2, <2>3, <2>4, <2>5, RedisRun5
<1>3. /\ IsNames(e) /\ e[Redis!KEY(c.key)] = v
      /\ e[Redis!KEYS_INDEX] = Redis!Members(d[Redis!KEYS_INDEX]) \cup {c.key}
      /\ e[Redis!AWSCRED(c.key)] = "secret"
      /\ e[Redis!AWSCRED_INDEX] = Redis!Members(d[Redis!AWSCRED_INDEX]) \cup {c.key}
      /\ e[Redis!AWSCRED_IDS(c.key)] = Redis!Members(d[Redis!AWSCRED_IDS(c.key)]) \cup {c.key}
      /\ OtherThan(d, e, xs)
  <2>1. /\ Redis!KEY(c.key) \in Redis!Names /\ Redis!KEYS_INDEX \in Redis!Names
        /\ Redis!AWSCRED(c.key) \in Redis!Names /\ Redis!AWSCRED_INDEX \in Redis!Names
        /\ Redis!AWSCRED_IDS(c.key) \in Redis!Names
    BY <1>1, NamesIn
  <2>n. /\ Redis!KEYS_INDEX # Redis!KEY(c.key)
        /\ Redis!AWSCRED(c.key) \notin {Redis!KEY(c.key), Redis!KEYS_INDEX}
        /\ Redis!AWSCRED_INDEX \notin {Redis!KEY(c.key), Redis!KEYS_INDEX, Redis!AWSCRED(c.key)}
        /\ Redis!AWSCRED_IDS(c.key) \notin {Redis!KEY(c.key), Redis!KEYS_INDEX, Redis!AWSCRED(c.key),
                                            Redis!AWSCRED_INDEX}
    BY NameParts
  <2> HIDE DEF v
  <2>2. /\ IsNames(d1) /\ d1[Redis!KEY(c.key)] = v
        /\ \A y \in Redis!Names : y # Redis!KEY(c.key) => d1[y] = d[y]
    BY <2>1, NameChanged, RedisTypesParts
  <2> HIDE DEF d1, i2
  <2>3. /\ IsNames(d2) /\ d2[Redis!KEYS_INDEX] = i2
        /\ \A y \in Redis!Names : y # Redis!KEYS_INDEX => d2[y] = d1[y]
    BY <2>1, <2>2, NameChanged
  <2> HIDE DEF d2
  <2>4. /\ IsNames(d3) /\ d3[Redis!AWSCRED(c.key)] = "secret"
        /\ \A y \in Redis!Names : y # Redis!AWSCRED(c.key) => d3[y] = d2[y]
    BY <2>1, <2>3, NameChanged
  <2> HIDE DEF d3, i4
  <2>5. /\ IsNames(d4) /\ d4[Redis!AWSCRED_INDEX] = i4
        /\ \A y \in Redis!Names : y # Redis!AWSCRED_INDEX => d4[y] = d3[y]
    BY <2>1, <2>4, NameChanged
  <2> HIDE DEF d4, i5
  <2>6. /\ IsNames(e) /\ e[Redis!AWSCRED_IDS(c.key)] = i5
        /\ \A y \in Redis!Names : y # Redis!AWSCRED_IDS(c.key) => e[y] = d4[y]
    BY <2>1, <2>5, NameChanged
  <2> HIDE DEF e
  <2>7. i2 = Redis!Members(d[Redis!KEYS_INDEX]) \cup {c.key}
    BY <2>1, <2>n, <2>2 DEF i2
  <2>8. i4 = Redis!Members(d[Redis!AWSCRED_INDEX]) \cup {c.key}
    BY <2>1, <2>n, <2>2, <2>3, <2>4 DEF i4
  <2>9. i5 = Redis!Members(d[Redis!AWSCRED_IDS(c.key)]) \cup {c.key}
    BY <2>1, <2>n, <2>2, <2>3, <2>4, <2>5 DEF i5
  <2>10. OtherThan(d, e, xs)
    BY <2>2, <2>3, <2>4, <2>5, <2>6 DEF OtherThan
  <2> QED BY <2>1, <2>n, <2>2, <2>3, <2>4, <2>5, <2>6, <2>7, <2>8, <2>9, <2>10
<1> HIDE DEF e, v
<1>4. SameAt(d, e, UsageNames) /\ SameAt(d, e, MeteringNames)
  BY <1>1, <1>3, NameFamilies, OthersSame
<1>5. /\ e[Redis!AUDIT_ZSET] = d[Redis!AUDIT_ZSET] /\ e[Redis!DENYLIST_INDEX] = d[Redis!DENYLIST_INDEX]
      /\ e[Redis!SCHEMA_KEY] = d[Redis!SCHEMA_KEY] /\ e[Redis!OLD] = d[Redis!OLD]
      /\ \A j \in Keys : j # c.key => /\ e[Redis!KEY(j)] = d[Redis!KEY(j)]
                                      /\ e[Redis!AWSCRED(j)] = d[Redis!AWSCRED(j)]
                                      /\ e[Redis!AWSCRED_IDS(j)] = d[Redis!AWSCRED_IDS(j)]
  BY <1>1, <1>3, NamesIn, NameParts DEF OtherThan
<1>6. RedisKeys(e) = Changed(RedisKeys(d), c.key, c.grant) /\ KeyTypes(e)
  BY <1>1, <1>3, <1>5, KeysWritten, RedisTypesParts DEF v
<1>7. /\ Redis!list_aws_credentials(e) = Redis!list_aws_credentials(d) \cup {c.key}
      /\ CredTypes(e)
  BY <1>1, <1>3, <1>5, CredsWritten, RedisTypesParts
<1>8. Redis!cred_ids(e) = Redis!cred_ids(d) \cup {c.key} /\ IdsTypes(e)
  <2>1. e[Redis!AWSCRED_IDS(c.key)] = {c.key}
    <3>1. d[Redis!AWSCRED_IDS(c.key)] \in {Nil, {c.key}}
      BY <1>1, RedisTypesParts DEF IdsTypes
    <3> QED BY <1>3, <3>1 DEF Redis!Members
  <2> QED BY <1>1, <1>5, <2>1, IdsWritten, RedisTypesParts
<1>9. RedisTypes(e)
  BY <1>3, <1>4, <1>5, <1>6, <1>7, <1>8, SameTypes DEF RedisTypes, IsNames, AuditTypes, DenyTypes
<1>10. RedisContents(e) \in C!Effects(RedisContents(d), c, had)
  <2>1. RedisUsage(e) = RedisUsage(d) /\ RedisCounts(e) = RedisCounts(d)
    BY <1>4, SameReads, RedisTypesParts
  <2> QED BY <1>5, <1>6, <1>7, <1>8, <2>1, EffectOfMint DEF RedisContents
<1> QED BY <1>2, <1>5, <1>9, <1>10 DEF RedisTakes, RedisAfter, v

\* ... that of a deletion, with what it has read before, ...
LEMMA RedisDelete ==
  ASSUME NEW c \in C!Calls, c.op = "delete_key", NEW d, RedisTypes(d), NEW g, NEW had,
         NEW names, NEW ids, names \subseteq {Redis!USAGE(c.key)}, ids \subseteq {c.key},
         "usage" \in had => names = {Redis!USAGE(c.key)},
         "credential" \in had => ids = {c.key}
  PROVE  RedisTakes(d, c, g, had,
                    <<Redis!DEL({Redis!KEY(c.key)}), Redis!SREM(Redis!KEYS_INDEX, {c.key}),
                      Redis!DEL(names), Redis!DEL({Redis!AWSCRED(k) : k \in ids}),
                      Redis!SREM(Redis!AWSCRED_INDEX, ids), Redis!DEL({Redis!AWSCRED_IDS(c.key)})>>)
<1> DEFINE rows == {Redis!AWSCRED(k) : k \in ids}
           d1 == Cleared(d, {Redis!KEY(c.key)})
           i2 == Redis!Without(d1[Redis!KEYS_INDEX], {c.key})
           d2 == Changed(d1, Redis!KEYS_INDEX, i2)
           d3 == Cleared(d2, names)
           d4 == Cleared(d3, rows)
           i5 == Redis!Without(d4[Redis!AWSCRED_INDEX], ids)
           d5 == Changed(d4, Redis!AWSCRED_INDEX, i5)
           e  == Cleared(d5, {Redis!AWSCRED_IDS(c.key)})
           xs == {Redis!KEY(c.key), Redis!KEYS_INDEX, Redis!USAGE(c.key), Redis!AWSCRED(c.key),
                  Redis!AWSCRED_INDEX, Redis!AWSCRED_IDS(c.key)}
<1>1. c.key \in Keys
  BY CallsByOp
<1>r. rows \subseteq {Redis!AWSCRED(c.key)} /\ (ids = {c.key} <=> Redis!AWSCRED(c.key) \in rows)
  BY NameParts
<1> HIDE DEF rows
<1>n. /\ Redis!KEY(c.key) \in Redis!Names /\ Redis!KEYS_INDEX \in Redis!Names
      /\ Redis!AWSCRED(c.key) \in Redis!Names /\ Redis!AWSCRED_INDEX \in Redis!Names
      /\ Redis!AWSCRED_IDS(c.key) \in Redis!Names /\ Redis!USAGE(c.key) \in Redis!Names
      /\ Redis!KEYS_INDEX # Redis!KEY(c.key)
      /\ Redis!USAGE(c.key) \notin {Redis!KEY(c.key), Redis!KEYS_INDEX}
      /\ Redis!AWSCRED(c.key) \notin {Redis!KEY(c.key), Redis!KEYS_INDEX, Redis!USAGE(c.key)}
      /\ Redis!AWSCRED_INDEX \notin {Redis!KEY(c.key), Redis!KEYS_INDEX, Redis!USAGE(c.key),
                                     Redis!AWSCRED(c.key)}
      /\ Redis!AWSCRED_IDS(c.key) \notin {Redis!KEY(c.key), Redis!KEYS_INDEX, Redis!USAGE(c.key),
                                          Redis!AWSCRED(c.key), Redis!AWSCRED_INDEX}
  BY <1>1, NamesIn, NameParts
<1>d1. /\ IsNames(d) /\ IsNames(d1)
       /\ \A y \in Redis!Names : d1[y] = IF y = Redis!KEY(c.key) THEN Nil ELSE d[y]
  BY NamesCleared, RedisTypesParts
<1>x1. Redis!Exec(St(d, g), Redis!DEL({Redis!KEY(c.key)})) = St(d1, g)
  BY <1>d1, ExecDEL
<1> HIDE DEF d1, i2
<1>d2. /\ IsNames(d2) /\ d2[Redis!KEYS_INDEX] = i2
       /\ \A y \in Redis!Names : y # Redis!KEYS_INDEX => d2[y] = d1[y]
  BY <1>n, <1>d1, NameChanged
<1>x2. Redis!Exec(St(d1, g), Redis!SREM(Redis!KEYS_INDEX, {c.key})) = St(d2, g)
  BY ExecSREM DEF i2
<1> HIDE DEF d2
<1>d3. IsNames(d3) /\ \A y \in Redis!Names : d3[y] = IF y \in names THEN Nil ELSE d2[y]
  BY NamesCleared
<1>x3. Redis!Exec(St(d2, g), Redis!DEL(names)) = St(d3, g)
  BY <1>d2, ExecDEL
<1> HIDE DEF d3
<1>d4. IsNames(d4) /\ \A y \in Redis!Names : d4[y] = IF y \in rows THEN Nil ELSE d3[y]
  BY NamesCleared
<1>x4. Redis!Exec(St(d3, g), Redis!DEL(rows)) = St(d4, g)
  BY <1>d3, ExecDEL
<1> HIDE DEF d4, i5
<1>d5. /\ IsNames(d5) /\ d5[Redis!AWSCRED_INDEX] = i5
       /\ \A y \in Redis!Names : y # Redis!AWSCRED_INDEX => d5[y] = d4[y]
  BY <1>n, <1>d4, NameChanged
<1>x5. Redis!Exec(St(d4, g), Redis!SREM(Redis!AWSCRED_INDEX, ids)) = St(d5, g)
  BY ExecSREM DEF i5
<1> HIDE DEF d5
<1>d6. IsNames(e) /\ \A y \in Redis!Names : e[y] = IF y = Redis!AWSCRED_IDS(c.key) THEN Nil ELSE d5[y]
  BY NamesCleared
<1>x6. Redis!Exec(St(d5, g), Redis!DEL({Redis!AWSCRED_IDS(c.key)})) = St(e, g)
  BY <1>d5, ExecDEL
<1> HIDE DEF e
<1>2. Redis!Run(St(d, g), <<Redis!DEL({Redis!KEY(c.key)}), Redis!SREM(Redis!KEYS_INDEX, {c.key}),
                            Redis!DEL(names), Redis!DEL(rows),
                            Redis!SREM(Redis!AWSCRED_INDEX, ids),
                            Redis!DEL({Redis!AWSCRED_IDS(c.key)})>>)
        = St(e, g)
  BY <1>x1, <1>x2, <1>x3, <1>x4, <1>x5, <1>x6, RedisRun6
<1>i2. i2 = Redis!Without(d[Redis!KEYS_INDEX], {c.key})
  BY <1>n, <1>d1 DEF i2
<1>i5. i5 = Redis!Without(d[Redis!AWSCRED_INDEX], ids)
  BY <1>n, <1>r, <1>d1, <1>d2, <1>d3, <1>d4 DEF i5
<1>3. /\ e[Redis!KEY(c.key)] = Nil
      /\ e[Redis!KEYS_INDEX] = Redis!Without(d[Redis!KEYS_INDEX], {c.key})
      /\ e[Redis!USAGE(c.key)] = IF names = {} THEN d[Redis!USAGE(c.key)] ELSE Nil
      /\ e[Redis!AWSCRED(c.key)] = IF c.key \in ids THEN Nil ELSE d[Redis!AWSCRED(c.key)]
      /\ e[Redis!AWSCRED_INDEX] = Redis!Without(d[Redis!AWSCRED_INDEX], ids)
      /\ e[Redis!AWSCRED_IDS(c.key)] = Nil
  <2>1. e[Redis!KEY(c.key)] = Nil /\ e[Redis!KEYS_INDEX] = Redis!Without(d[Redis!KEYS_INDEX], {c.key})
    BY <1>n, <1>r, <1>d1, <1>d2, <1>d3, <1>d4, <1>d5, <1>d6, <1>i2
  <2>2. e[Redis!USAGE(c.key)] = IF names = {} THEN d[Redis!USAGE(c.key)] ELSE Nil
    BY <1>n, <1>r, <1>d1, <1>d2, <1>d3, <1>d4, <1>d5, <1>d6
  <2>3. e[Redis!AWSCRED(c.key)] = IF c.key \in ids THEN Nil ELSE d[Redis!AWSCRED(c.key)]
    BY <1>n, <1>r, <1>d1, <1>d2, <1>d3, <1>d4, <1>d5, <1>d6
  <2>4. e[Redis!AWSCRED_INDEX] = Redis!Without(d[Redis!AWSCRED_INDEX], ids)
    BY <1>n, <1>r, <1>d5, <1>d6, <1>i5
  <2> QED BY <1>n, <1>d6, <2>1, <2>2, <2>3, <2>4
<1>o. OtherThan(d, e, xs)
  BY <1>r, <1>d1, <1>d2, <1>d3, <1>d4, <1>d5, <1>d6 DEF OtherThan
<1>4. SameAt(d, e, MeteringNames)
  BY <1>1, <1>o, NameFamilies, OthersSame
<1>5. /\ e[Redis!AUDIT_ZSET] = d[Redis!AUDIT_ZSET] /\ e[Redis!DENYLIST_INDEX] = d[Redis!DENYLIST_INDEX]
      /\ e[Redis!SCHEMA_KEY] = d[Redis!SCHEMA_KEY] /\ e[Redis!OLD] = d[Redis!OLD]
      /\ \A j \in Keys : j # c.key => /\ e[Redis!KEY(j)] = d[Redis!KEY(j)]
                                      /\ e[Redis!AWSCRED(j)] = d[Redis!AWSCRED(j)]
                                      /\ e[Redis!AWSCRED_IDS(j)] = d[Redis!AWSCRED_IDS(j)]
                                      /\ e[Redis!USAGE(j)] = d[Redis!USAGE(j)]
  BY <1>1, <1>o, NamesIn, NameParts DEF OtherThan
<1>6. RedisKeys(e) = Changed(RedisKeys(d), c.key, Nil) /\ KeyTypes(e)
  BY <1>1, <1>3, <1>5, KeysRemoved, RedisTypesParts
<1>7. /\ Redis!list_aws_credentials(e) = Redis!list_aws_credentials(d) \ ids
      /\ CredTypes(e)
  <2>1. \A j \in Keys : e[Redis!AWSCRED(j)] = IF j \in ids THEN Nil ELSE d[Redis!AWSCRED(j)]
    BY <1>1, <1>3, <1>5
  <2> QED BY <1>1, <1>3, <2>1, CredsRemoved, RedisTypesParts
<1>8. Redis!cred_ids(e) = Redis!cred_ids(d) \ {c.key} /\ IdsTypes(e)
  BY <1>1, <1>3, <1>5, IdsWritten, RedisTypesParts
<1> DEFINE u == e[Redis!USAGE(c.key)]
<1>u. /\ u \in {Nil} \cup [{"req", "tok"} -> Int]
      /\ UsageIn(u) = Nil \/ (UsageIn(u) = RedisUsage(d)[c.key] /\ "usage" \notin had)
  <2>1. d[Redis!USAGE(c.key)] \in {Nil} \cup [{"req", "tok"} -> Int]
    BY <1>1, RedisTypesParts DEF UsageTypes
  <2>2. RedisUsage(d)[c.key] = UsageIn(d[Redis!USAGE(c.key)])
    BY <1>1, RedisUsageIs
  <2>3. CASE names = {}
    BY <1>3, <2>1, <2>2, <2>3
  <2>4. CASE names # {}
    BY <1>3, <2>4 DEF UsageIn
  <2> QED BY <2>3, <2>4
<1> HIDE DEF u
<1>9. RedisUsage(e) = Changed(RedisUsage(d), c.key, UsageIn(u)) /\ UsageTypes(e)
  BY <1>1, <1>5, <1>u, UsageWritten, RedisTypesParts DEF u
<1>10. RedisTypes(e)
  BY <1>d6, <1>4, <1>5, <1>6, <1>7, <1>8, <1>9, SameTypes, RedisTypesParts
     DEF RedisTypes, IsNames, AuditTypes, DenyTypes
<1>11. RedisContents(e) \in C!Effects(RedisContents(d), c, had)
  <2>1. RedisCounts(e) = RedisCounts(d)
    BY <1>4, SameReads, RedisTypesParts
  <2> DEFINE cr == Redis!list_aws_credentials(d)
             cr2 == Redis!list_aws_credentials(e)
  <2>2. cr2 = cr \ {c.key} \/ (cr2 = cr /\ "credential" \notin had)
    <3>1. CASE ids = {c.key} BY <1>7, <3>1
    <3>2. CASE ids = {} BY <1>7, <3>2
    <3> QED BY <3>1, <3>2
  <2> HIDE DEF cr, cr2
  <2>3. /\ RedisContents(d) = Contents(RedisKeys(d), cr, Redis!cred_ids(d), RedisUsage(d), RedisCounts(d),
                                       Redis!Members(d[Redis!AUDIT_ZSET]),
                                       Redis!Members(d[Redis!DENYLIST_INDEX]))
        /\ RedisContents(e) = Contents(RedisKeys(e), cr2, Redis!cred_ids(e), RedisUsage(e), RedisCounts(d),
                                       Redis!Members(d[Redis!AUDIT_ZSET]),
                                       Redis!Members(d[Redis!DENYLIST_INDEX]))
    BY <1>5, <2>1 DEF RedisContents, cr, cr2
  <2> DEFINE K == RedisKeys(d)
             K2 == RedisKeys(e)
             L == Redis!cred_ids(d)
             L2 == Redis!cred_ids(e)
             U == RedisUsage(d)
             U2 == RedisUsage(e)
  <2>4. /\ K2 = Changed(K, c.key, Nil) /\ L2 = L \ {c.key} /\ U2 = Changed(U, c.key, UsageIn(u))
        /\ UsageIn(u) = Nil \/ (UsageIn(u) = U[c.key] /\ "usage" \notin had)
    BY <1>6, <1>8, <1>9, <1>u
  <2> HIDE DEF K, K2, L, L2, U, U2
  <2>5. ASSUME NEW M, NEW A, NEW D
        PROVE  Contents(K2, cr2, L2, U2, M, A, D) \in C!Effects(Contents(K, cr, L, U, M, A, D), c, had)
    BY <2>2, <2>4, EffectOfDelete
  <2> QED BY <2>3, <2>5 DEF K, K2, L, L2, U, U2
<1> QED BY <1>2, <1>5, <1>10, <1>11 DEF RedisTakes, RedisAfter, rows

\* A charge that replaces the usage is what is read.
LEMMA ChargeIsKept == UsageIn(C!Charge) = Kept(C!Charge)
<1>1. C!Charge \in [{"req", "tok"} -> Int] /\ C!Charge["req"] = 1 /\ C!Charge["tok"] = 1
  BY DEF C!Charge
<1>2. C!Charge # Nil
  BY <1>1, NilIsNone
<1>3. [f \in {"req", "tok"} |-> Redis!read_u64(C!Charge[f])] = C!Charge
  BY <1>1 DEF Redis!read_u64
<1>4. [f \in {"req", "tok"} |-> Redis!read_u64(-C!Charge[f])] = C!Zero
  BY <1>1 DEF Redis!read_u64, C!Zero
<1> QED BY <1>2, <1>3, <1>4 DEF UsageIn, Kept

\* ... that of put_usage, ...
LEMMA RedisPutUsage ==
  ASSUME NEW c \in C!Calls, c.op = "put_usage", NEW d, RedisTypes(d), NEW g, NEW had
  PROVE  RedisTakes(d, c, g, had, <<Redis!DEL({Redis!USAGE(c.key)}),
                                    Redis!SET(Redis!USAGE(c.key), c.by)>>)
<1> DEFINE d1 == Cleared(d, {Redis!USAGE(c.key)})
           e  == Changed(d1, Redis!USAGE(c.key), c.by)
           xs == {Redis!USAGE(c.key)}
<1>1. c.key \in Keys /\ c.by \in [{"req", "tok"} -> Int]
  BY CallsByOp DEF C!Charge
<1>2. Redis!Run(St(d, g), <<Redis!DEL({Redis!USAGE(c.key)}), Redis!SET(Redis!USAGE(c.key), c.by)>>)
        = St(e, g)
  <2>1. Redis!Exec(St(d, g), Redis!DEL({Redis!USAGE(c.key)})) = St(d1, g)
    BY ExecDEL, RedisTypesParts
  <2> HIDE DEF d1
  <2>2. Redis!Exec(St(d1, g), Redis!SET(Redis!USAGE(c.key), c.by)) = St(e, g)
    BY ExecSET
  <2> HIDE DEF e
  <2> QED BY <2>1, <2>2, RedisRun2
<1>3. IsNames(e) /\ e[Redis!USAGE(c.key)] = c.by /\ OtherThan(d, e, xs)
  <2>1. Redis!USAGE(c.key) \in Redis!Names
    BY <1>1, NamesIn
  <2>2. /\ IsNames(d1) /\ \A y \in Redis!Names : y # Redis!USAGE(c.key) => d1[y] = d[y]
    BY NamesCleared
  <2> HIDE DEF d1
  <2>3. /\ IsNames(e) /\ e[Redis!USAGE(c.key)] = c.by
        /\ \A y \in Redis!Names : y # Redis!USAGE(c.key) => e[y] = d1[y]
    BY <2>1, <2>2, NameChanged
  <2> HIDE DEF e
  <2> QED BY <2>2, <2>3 DEF OtherThan
<1> HIDE DEF e
<1>4. /\ SameAt(d, e, KeyNames) /\ SameAt(d, e, CredNames) /\ SameAt(d, e, IdsNames)
      /\ SameAt(d, e, MeteringNames)
  BY <1>1, <1>3, NameFamilies, OthersSame
<1>5. /\ e[Redis!AUDIT_ZSET] = d[Redis!AUDIT_ZSET] /\ e[Redis!DENYLIST_INDEX] = d[Redis!DENYLIST_INDEX]
      /\ e[Redis!SCHEMA_KEY] = d[Redis!SCHEMA_KEY] /\ e[Redis!OLD] = d[Redis!OLD]
      /\ \A j \in Keys : j # c.key => e[Redis!USAGE(j)] = d[Redis!USAGE(j)]
  BY <1>1, <1>3, NamesIn, NameParts DEF OtherThan
<1>6. RedisUsage(e) = Changed(RedisUsage(d), c.key, Kept(c.by)) /\ UsageTypes(e)
  <2>1. RedisUsage(e) = Changed(RedisUsage(d), c.key, UsageIn(c.by)) /\ UsageTypes(e)
    BY <1>1, <1>3, <1>5, UsageWritten, RedisTypesParts
  <2>2. c.by = C!Charge
    BY CallsByOp
  <2>3. UsageIn(c.by) = Kept(c.by)
    BY <2>2, ChargeIsKept
  <2> QED BY <2>1, <2>3
<1>7. RedisTypes(e)
  BY <1>3, <1>4, <1>5, <1>6, SameTypes DEF RedisTypes, IsNames, AuditTypes, DenyTypes
<1>8. RedisContents(e) \in C!Effects(RedisContents(d), c, had)
  <2>1. /\ RedisKeys(e) = RedisKeys(d) /\ Redis!list_aws_credentials(e) = Redis!list_aws_credentials(d)
        /\ Redis!cred_ids(e) = Redis!cred_ids(d) /\ RedisCounts(e) = RedisCounts(d)
    BY <1>4, SameReads, RedisTypesParts
  <2> QED BY <1>5, <1>6, <2>1, EffectOfPutUsage DEF RedisContents
<1> QED BY <1>2, <1>5, <1>7, <1>8 DEF RedisTakes, RedisAfter

\* HINCRBY leaves the sum as it is, below zero too.
LEMMA IncrementAccumulates ==
  ASSUME NEW u \in {Nil} \cup [{"req", "tok"} -> Int], NEW by \in {C!Charge, C!Refund}
  PROVE  /\ UsageIn(Redis!Incremented(u, by)) \in C!Accumulated(UsageIn(u), by)
         /\ Redis!Incremented(u, by) \in [{"req", "tok"} -> Int]
<1> DEFINE old == IF u = Nil THEN [req |-> 0, tok |-> 0] ELSE u
           sum == [f \in {"req", "tok"} |-> old[f] + by[f]]
           was == IF UsageIn(u) = Nil THEN [read |-> C!Zero, owed |-> C!Zero] ELSE UsageIn(u)
           kept == [f \in {"req", "tok"} |-> was.read[f] - was.owed[f] + by[f]]
<1>1. by \in [{"req", "tok"} -> Int]
  BY DEF C!Charge, C!Refund
<1>3. Redis!Incremented(u, by) = sum
  <2>1. CASE u = Nil
    <3>1. old["req"] = 0 /\ old["tok"] = 0
      BY <2>1
    <3> HIDE DEF old
    <3>2. by = [f \in {"req", "tok"} |-> by[f]]
      BY <1>1
    <3>3. \A f \in {"req", "tok"} : old[f] + by[f] = by[f]
      BY <1>1, <3>1
    <3>4. sum = [f \in {"req", "tok"} |-> by[f]]
      BY <3>3
    <3> QED BY <2>1, <3>2, <3>4 DEF Redis!Incremented
  <2>2. CASE u # Nil
    BY <2>2 DEF Redis!Incremented
  <2> QED BY <2>1, <2>2
<1>4. sum \in [{"req", "tok"} -> Int]
  <2>1. old["req"] \in Int /\ old["tok"] \in Int
    OBVIOUS
  <2> HIDE DEF old
  <2> QED BY <1>1, <2>1
<1>5. kept = sum
  <2>1. \A f \in {"req", "tok"} : was.read[f] - was.owed[f] = old[f]
    <3>1. CASE u = Nil
      <4>1. was.read = C!Zero /\ was.owed = C!Zero /\ old = [req |-> 0, tok |-> 0]
        BY <3>1 DEF UsageIn
      <4> HIDE DEF was, old
      <4> QED BY <4>1 DEF C!Zero
    <3>2. CASE u # Nil
      <4>1. /\ was.read = [f \in {"req", "tok"} |-> Redis!read_u64(u[f])]
            /\ was.owed = [f \in {"req", "tok"} |-> Redis!read_u64(-u[f])]
            /\ old = u
        BY <3>2, UsageInNil DEF UsageIn
      <4> HIDE DEF was, old
      <4> QED BY <3>2, <4>1 DEF Redis!read_u64
    <3> QED BY <3>1, <3>2
  <2> HIDE DEF was, old
  <2> QED BY <2>1
<1>2. UsageIn(sum) \in C!Accumulated(UsageIn(u), by)
  <2> DEFINE read == [f \in {"req", "tok"} |-> C!Floored(kept[f])]
             owed == [f \in {"req", "tok"} |-> C!Floored(-kept[f])]
  <2>1. [read |-> read, owed |-> owed] \in C!Accumulated(UsageIn(u), by)
    BY DEF C!Accumulated
  <2> HIDE DEF kept, sum
  <2>2. UsageIn(sum) = [read |-> read, owed |-> owed]
    BY <1>4, <1>5, NilIsNone DEF UsageIn, Redis!read_u64, C!Floored
  <2> QED BY <2>1, <2>2
<1> HIDE DEF sum, kept
<1> QED BY <1>2, <1>3, <1>4

\* ... that of add_usage, ...
LEMMA RedisAddUsage ==
  ASSUME NEW c \in C!Calls, c.op = "add_usage", NEW d, RedisTypes(d), NEW g, NEW had
  PROVE  RedisTakes(d, c, g, had, <<Redis!HINCRBY(Redis!USAGE(c.key), c.by)>>)
<1> DEFINE u == Redis!Incremented(d[Redis!USAGE(c.key)], c.by)
           e == Changed(d, Redis!USAGE(c.key), u)
           xs == {Redis!USAGE(c.key)}
<1>1. c.key \in Keys /\ c.by \in {C!Charge, C!Refund}
  BY CallsByOp
<1>u. /\ UsageIn(u) \in C!Accumulated(RedisUsage(d)[c.key], c.by)
      /\ u \in {Nil} \cup [{"req", "tok"} -> Int]
  <2>1. d[Redis!USAGE(c.key)] \in {Nil} \cup [{"req", "tok"} -> Int]
    BY <1>1, RedisTypesParts DEF UsageTypes
  <2>2. RedisUsage(d)[c.key] = UsageIn(d[Redis!USAGE(c.key)])
    BY <1>1, RedisUsageIs
  <2> QED BY <1>1, <2>1, <2>2, IncrementAccumulates
<1>2. Redis!Run(St(d, g), <<Redis!HINCRBY(Redis!USAGE(c.key), c.by)>>) = St(e, g)
  <2>1. Redis!Exec(St(d, g), Redis!HINCRBY(Redis!USAGE(c.key), c.by)) = St(e, g)
    BY ExecHINCRBY
  <2> HIDE DEF e
  <2> QED BY <2>1, RedisRun1
<1> HIDE DEF u
<1>3. IsNames(e) /\ e[Redis!USAGE(c.key)] = u /\ OtherThan(d, e, xs)
  <2>1. Redis!USAGE(c.key) \in Redis!Names
    BY <1>1, NamesIn
  <2>3. /\ IsNames(e) /\ e[Redis!USAGE(c.key)] = u
        /\ \A y \in Redis!Names : y # Redis!USAGE(c.key) => e[y] = d[y]
    BY <2>1, NameChanged, RedisTypesParts
  <2> HIDE DEF e
  <2> QED BY <2>3 DEF OtherThan
<1> HIDE DEF e
<1>4. /\ SameAt(d, e, KeyNames) /\ SameAt(d, e, CredNames) /\ SameAt(d, e, IdsNames)
      /\ SameAt(d, e, MeteringNames)
  BY <1>1, <1>3, NameFamilies, OthersSame
<1>5. /\ e[Redis!AUDIT_ZSET] = d[Redis!AUDIT_ZSET] /\ e[Redis!DENYLIST_INDEX] = d[Redis!DENYLIST_INDEX]
      /\ e[Redis!SCHEMA_KEY] = d[Redis!SCHEMA_KEY] /\ e[Redis!OLD] = d[Redis!OLD]
      /\ \A j \in Keys : j # c.key => e[Redis!USAGE(j)] = d[Redis!USAGE(j)]
  BY <1>1, <1>3, NamesIn, NameParts DEF OtherThan
<1>6. RedisUsage(e) = Changed(RedisUsage(d), c.key, UsageIn(u)) /\ UsageTypes(e)
  BY <1>1, <1>3, <1>5, <1>u, UsageWritten, RedisTypesParts
<1>7. RedisTypes(e)
  BY <1>3, <1>4, <1>5, <1>6, SameTypes DEF RedisTypes, IsNames, AuditTypes, DenyTypes
<1>8. RedisContents(e) \in C!Effects(RedisContents(d), c, had)
  <2>1. /\ RedisKeys(e) = RedisKeys(d) /\ Redis!list_aws_credentials(e) = Redis!list_aws_credentials(d)
        /\ Redis!cred_ids(e) = Redis!cred_ids(d) /\ RedisCounts(e) = RedisCounts(d)
    BY <1>4, SameReads, RedisTypesParts
  <2> QED BY <1>5, <1>6, <1>u, <2>1, EffectOfAddUsage DEF RedisContents
<1> QED BY <1>2, <1>5, <1>7, <1>8 DEF RedisTakes, RedisAfter

\* ... that of add_metering, ...
LEMMA RedisAddMetering ==
  ASSUME NEW c \in C!Calls, c.op = "add_metering", NEW d, RedisTypes(d), NEW g, NEW had
  PROVE  RedisTakes(d, c, g, had, <<Redis!INCR(Redis!METERING(c.key))>>)
<1> DEFINE u == IF d[Redis!METERING(c.key)] = Nil THEN 1 ELSE d[Redis!METERING(c.key)] + 1
           e == Changed(d, Redis!METERING(c.key), u)
           xs == {Redis!METERING(c.key)}
<1>1. c.key \in Keys
  BY CallsByOp
<1>2. Redis!Run(St(d, g), <<Redis!INCR(Redis!METERING(c.key))>>) = St(e, g)
  <2>1. Redis!Exec(St(d, g), Redis!INCR(Redis!METERING(c.key))) = St(e, g)
    BY ExecINCR
  <2> HIDE DEF e
  <2> QED BY <2>1, RedisRun1
<1> HIDE DEF u
<1>3. IsNames(e) /\ e[Redis!METERING(c.key)] = u /\ OtherThan(d, e, xs)
  <2>1. Redis!METERING(c.key) \in Redis!Names
    BY <1>1, NamesIn
  <2>3. /\ IsNames(e) /\ e[Redis!METERING(c.key)] = u
        /\ \A y \in Redis!Names : y # Redis!METERING(c.key) => e[y] = d[y]
    BY <2>1, NameChanged, RedisTypesParts
  <2> HIDE DEF e
  <2> QED BY <2>3 DEF OtherThan
<1> HIDE DEF e
<1>4. /\ SameAt(d, e, KeyNames) /\ SameAt(d, e, CredNames) /\ SameAt(d, e, IdsNames)
      /\ SameAt(d, e, UsageNames)
  BY <1>1, <1>3, NameFamilies, OthersSame
<1>5. /\ e[Redis!AUDIT_ZSET] = d[Redis!AUDIT_ZSET] /\ e[Redis!DENYLIST_INDEX] = d[Redis!DENYLIST_INDEX]
      /\ e[Redis!SCHEMA_KEY] = d[Redis!SCHEMA_KEY] /\ e[Redis!OLD] = d[Redis!OLD]
      /\ \A j \in Keys : j # c.key => e[Redis!METERING(j)] = d[Redis!METERING(j)]
  BY <1>1, <1>3, NamesIn, NameParts DEF OtherThan
<1>6. /\ RedisCounts(e) = Changed(RedisCounts(d), c.key, RedisCounts(d)[c.key] + 1)
      /\ MeteringTypes(e)
  BY <1>1, <1>3, <1>5, MeteringWritten, RedisTypesParts DEF u
<1>7. RedisTypes(e)
  BY <1>3, <1>4, <1>5, <1>6, SameTypes DEF RedisTypes, IsNames, AuditTypes, DenyTypes
<1>8. RedisContents(e) \in C!Effects(RedisContents(d), c, had)
  <2>1. /\ RedisKeys(e) = RedisKeys(d) /\ Redis!list_aws_credentials(e) = Redis!list_aws_credentials(d)
        /\ Redis!cred_ids(e) = Redis!cred_ids(d) /\ RedisUsage(e) = RedisUsage(d)
    BY <1>4, SameReads, RedisTypesParts
  <2> QED BY <1>5, <1>6, <2>1, EffectOfAddMetering DEF RedisContents
<1> QED BY <1>2, <1>5, <1>7, <1>8 DEF RedisTakes, RedisAfter

\* ... that of append_audit ...
LEMMA RedisAudit ==
  ASSUME NEW c \in C!Calls, c.op = "append_audit", NEW d, RedisTypes(d), NEW g, NEW had
  PROVE  RedisTakes(d, c, g, had,
                    <<Redis!ZREM(Redis!AUDIT_ZSET, c.seq),
                      Redis!SADD(Redis!AUDIT_ZSET, [seq |-> c.seq, digest |-> c.digest])>>)
<1> DEFINE row == [seq |-> c.seq, digest |-> c.digest]
           v  == d[Redis!AUDIT_ZSET]
           w  == Redis!Without(v, OfSeq(v, c.seq))
           d1 == Changed(d, Redis!AUDIT_ZSET, w)
           x  == Redis!Members(w) \cup {row}
           e  == Changed(d1, Redis!AUDIT_ZSET, x)
           xs == {Redis!AUDIT_ZSET}
<1>1. c.seq \in Seqs /\ c.digest \in Nodes
  BY CallsByOp
<1>v. Index(v, [seq : Seqs, digest : Nodes])
  BY RedisTypesParts DEF AuditTypes, Index
<1>x. /\ x \in SUBSET [seq : Seqs, digest : Nodes]
      /\ Redis!Members(x) = {r \in Redis!Members(v) : r.seq # c.seq} \cup {row}
  <2>1. w = Redis!Without(v, OfSeq(v, c.seq)) /\ x = Added(w, row)
        /\ row = [seq |-> c.seq, digest |-> c.digest]
    BY DEF Added
  <2> HIDE DEF v, w, x, row
  <2>2. AuditStep(v, c.seq, row, x)
    BY <1>1, <1>v, <2>1, AuditWritten
  <2> QED BY <2>2 DEF AuditStep
<1>n. Redis!AUDIT_ZSET \in Redis!Names
  BY NamesIn
<1>2. Redis!Exec(St(d, g), Redis!ZREM(Redis!AUDIT_ZSET, c.seq)) = St(d1, g)
  BY ExecZREM
<1> HIDE DEF v, w, row
<1>3. /\ IsNames(d1) /\ d1[Redis!AUDIT_ZSET] = w
      /\ \A y \in Redis!Names : y # Redis!AUDIT_ZSET => d1[y] = d[y]
  BY <1>n, NameChanged, RedisTypesParts
<1> HIDE DEF d1
<1>4. Redis!Exec(St(d1, g), Redis!SADD(Redis!AUDIT_ZSET, row)) = St(e, g)
  BY <1>3, ExecSADD
<1>5. /\ IsNames(e) /\ e[Redis!AUDIT_ZSET] = x
      /\ \A y \in Redis!Names : y # Redis!AUDIT_ZSET => e[y] = d1[y]
  <2> HIDE DEF x
  <2> QED BY <1>n, <1>3, NameChanged
<1> HIDE DEF e, x
<1>6. Redis!Run(St(d, g), <<Redis!ZREM(Redis!AUDIT_ZSET, c.seq), Redis!SADD(Redis!AUDIT_ZSET, row)>>)
        = St(e, g)
  BY <1>2, <1>4, RedisRun2
<1>7. OtherThan(d, e, xs)
  BY <1>3, <1>5 DEF OtherThan
<1>8. /\ SameAt(d, e, KeyNames) /\ SameAt(d, e, CredNames) /\ SameAt(d, e, IdsNames)
      /\ SameAt(d, e, UsageNames) /\ SameAt(d, e, MeteringNames)
  BY <1>7, NameFamilies, OthersSame
<1>9. /\ e[Redis!DENYLIST_INDEX] = d[Redis!DENYLIST_INDEX]
      /\ e[Redis!SCHEMA_KEY] = d[Redis!SCHEMA_KEY] /\ e[Redis!OLD] = d[Redis!OLD]
  BY <1>7, NamesIn, NameParts DEF OtherThan
<1>10. RedisTypes(e)
  BY <1>5, <1>x, <1>8, <1>9, SameTypes DEF RedisTypes, IsNames, AuditTypes, DenyTypes
<1>11. RedisContents(e) \in C!Effects(RedisContents(d), c, had)
  <2>1. /\ RedisKeys(e) = RedisKeys(d) /\ Redis!list_aws_credentials(e) = Redis!list_aws_credentials(d)
        /\ Redis!cred_ids(e) = Redis!cred_ids(d) /\ RedisUsage(e) = RedisUsage(d)
        /\ RedisCounts(e) = RedisCounts(d)
    BY <1>8, SameReads, RedisTypesParts
  <2>2. Redis!Members(e[Redis!AUDIT_ZSET])
          = {r \in Redis!Members(d[Redis!AUDIT_ZSET]) : r.seq # c.seq}
            \cup {[seq |-> c.seq, digest |-> c.digest]}
    BY <1>5, <1>x DEF v, row
  <2> QED BY <1>9, <2>1, <2>2, EffectOfAudit DEF RedisContents
<1> QED BY <1>6, <1>9, <1>10, <1>11 DEF RedisTakes, RedisAfter, row

\* ... and that of add_denylist.
LEMMA RedisDeny ==
  ASSUME NEW c \in C!Calls, c.op = "add_denylist", NEW d, RedisTypes(d), NEW g, NEW had
  PROVE  RedisTakes(d, c, g, had, <<Redis!SADD(Redis!DENYLIST_INDEX, c.key)>>)
<1> DEFINE v == d[Redis!DENYLIST_INDEX]
           x == Redis!Members(v) \cup {c.key}
           e == Changed(d, Redis!DENYLIST_INDEX, x)
           xs == {Redis!DENYLIST_INDEX}
<1>1. c.key \in Keys
  BY CallsByOp
<1>x. /\ x \in {Nil} \cup SUBSET Keys /\ Redis!Members(x) = x
  <2>1. Index(v, Keys)
    BY RedisTypesParts DEF DenyTypes, Index
  <2> HIDE DEF v
  <2> QED BY <1>1, <2>1, Indexables, MembersOf
<1>2. Redis!Run(St(d, g), <<Redis!SADD(Redis!DENYLIST_INDEX, c.key)>>) = St(e, g)
  <2>1. Redis!Exec(St(d, g), Redis!SADD(Redis!DENYLIST_INDEX, c.key)) = St(e, g)
    BY ExecSADD
  <2> HIDE DEF e
  <2> QED BY <2>1, RedisRun1
<1>3. IsNames(e) /\ e[Redis!DENYLIST_INDEX] = x /\ OtherThan(d, e, xs)
  <2>1. Redis!DENYLIST_INDEX \in Redis!Names
    BY NamesIn
  <2> HIDE DEF x
  <2>3. /\ IsNames(e) /\ e[Redis!DENYLIST_INDEX] = x
        /\ \A y \in Redis!Names : y # Redis!DENYLIST_INDEX => e[y] = d[y]
    BY <2>1, NameChanged, RedisTypesParts
  <2> HIDE DEF e
  <2> QED BY <2>3 DEF OtherThan
<1> HIDE DEF e
<1>4. /\ SameAt(d, e, KeyNames) /\ SameAt(d, e, CredNames) /\ SameAt(d, e, IdsNames)
      /\ SameAt(d, e, UsageNames) /\ SameAt(d, e, MeteringNames)
  BY <1>3, NameFamilies, OthersSame
<1>5. /\ e[Redis!AUDIT_ZSET] = d[Redis!AUDIT_ZSET]
      /\ e[Redis!SCHEMA_KEY] = d[Redis!SCHEMA_KEY] /\ e[Redis!OLD] = d[Redis!OLD]
  BY <1>3, NamesIn, NameParts DEF OtherThan
<1>7. RedisTypes(e)
  BY <1>3, <1>4, <1>5, <1>x, SameTypes DEF RedisTypes, IsNames, AuditTypes, DenyTypes
<1>8. RedisContents(e) \in C!Effects(RedisContents(d), c, had)
  <2>1. /\ RedisKeys(e) = RedisKeys(d) /\ Redis!list_aws_credentials(e) = Redis!list_aws_credentials(d)
        /\ Redis!cred_ids(e) = Redis!cred_ids(d) /\ RedisUsage(e) = RedisUsage(d)
        /\ RedisCounts(e) = RedisCounts(d)
    BY <1>4, SameReads, RedisTypesParts
  <2>2. Redis!Members(e[Redis!DENYLIST_INDEX]) = Redis!Members(d[Redis!DENYLIST_INDEX]) \cup {c.key}
    BY <1>3, <1>x
  <2> QED BY <1>5, <2>1, <2>2, EffectOfDeny DEF RedisContents
<1> QED BY <1>2, <1>5, <1>7, <1>8 DEF RedisTakes, RedisAfter

-----------------------------------------------------------------------------
(* The sections of a call on Redis *)

\* A method of one pipeline is one section.
LEMMA OneSection ==
  ASSUME NEW cmds
  PROVE  /\ Len(<<Redis!with_conn(cmds)>>) = 1 /\ <<Redis!with_conn(cmds)>>[1].cmds = cmds
         /\ Len(<<Redis!with_conn_no_retry(cmds)>>) = 1
         /\ <<Redis!with_conn_no_retry(cmds)>>[1].cmds = cmds
         /\ <<Redis!with_conn_no_retry(cmds)>>[1].retry = FALSE
BY DEF Redis!with_conn, Redis!with_conn_no_retry

\* A call of one section has its effect in it, and is not sent again if it adds.
RedisWhole(p, c) ==
  /\ Len(p) = 1
  /\ p[1].retry => C!Idempotent(c)
  /\ \A d, g, had : RedisTypes(d) => RedisTakes(d, c, g, had, p[1].cmds)

\* A pipeline that may be sent again belongs to a call that bears it.
LEMMA WholeWithConn ==
  ASSUME NEW c, C!Idempotent(c), NEW cmds,
         \A d, g, had : RedisTypes(d) => RedisTakes(d, c, g, had, cmds)
  PROVE  RedisWhole(<<Redis!with_conn(cmds)>>, c)
BY OneSection DEF RedisWhole

\* A pipeline that is not sent again belongs to any call.
LEMMA WholeNoRetry ==
  ASSUME NEW c, NEW cmds, \A d, g, had : RedisTypes(d) => RedisTakes(d, c, g, had, cmds)
  PROVE  RedisWhole(<<Redis!with_conn_no_retry(cmds)>>, c)
BY OneSection DEF RedisWhole

\* Every call but a deletion is a single section that takes its effect.
LEMMA RedisPrograms ==
  ASSUME NEW c \in C!Calls, c.op # "delete_key", NEW got
  PROVE  RedisWhole(Redis!Program(c, got), c)
<1>1. CASE c.op = "put_key"
  <2>1. Redis!Program(c, got)
          = <<Redis!with_conn(<<Redis!SET(Redis!KEY(c.key), Redis!key_to_json(c.grant)),
                                Redis!SADD(Redis!KEYS_INDEX, c.key)>>)>>
    BY <1>1 DEF Redis!Program, Redis!put_key
  <2>2. C!Idempotent(c)
    BY <1>1 DEF C!Idempotent
  <2> QED BY <1>1, <2>1, <2>2, RedisPutKey, WholeWithConn
<1>2. CASE c.op = "mint"
  <2>1. Redis!Program(c, got)
          = <<Redis!with_conn(<<Redis!SET(Redis!KEY(c.key), Redis!key_to_json(c.grant)),
                                Redis!SADD(Redis!KEYS_INDEX, c.key),
                                Redis!SET(Redis!AWSCRED(c.key), "secret"),
                                Redis!SADD(Redis!AWSCRED_INDEX, c.key),
                                Redis!SADD(Redis!AWSCRED_IDS(c.key), c.key)>>)>>
    BY <1>2 DEF Redis!Program, Redis!put_key_with_aws_credential
  <2>2. C!Idempotent(c)
    BY <1>2 DEF C!Idempotent
  <2> QED BY <1>2, <2>1, <2>2, RedisMint, WholeWithConn
<1>3. CASE c.op = "put_usage"
  <2>1. Redis!Program(c, got)
          = <<Redis!with_conn(<<Redis!DEL({Redis!USAGE(c.key)}),
                                Redis!SET(Redis!USAGE(c.key), c.by)>>)>>
    BY <1>3 DEF Redis!Program, Redis!put_usage
  <2>2. C!Idempotent(c)
    BY <1>3 DEF C!Idempotent
  <2> QED BY <1>3, <2>1, <2>2, RedisPutUsage, WholeWithConn
<1>4. CASE c.op = "add_usage"
  <2>1. Redis!Program(c, got) = <<Redis!with_conn_no_retry(<<Redis!HINCRBY(Redis!USAGE(c.key), c.by)>>)>>
    BY <1>4 DEF Redis!Program, Redis!add_usage
  <2> QED BY <1>4, <2>1, RedisAddUsage, WholeNoRetry
<1>5. CASE c.op = "add_metering"
  <2>1. Redis!Program(c, got) = <<Redis!with_conn_no_retry(<<Redis!INCR(Redis!METERING(c.key))>>)>>
    BY <1>5 DEF Redis!Program, Redis!add_metering
  <2> QED BY <1>5, <2>1, RedisAddMetering, WholeNoRetry
<1>6. CASE c.op = "append_audit"
  <2>1. Redis!Program(c, got)
          = <<Redis!with_conn(<<Redis!ZREM(Redis!AUDIT_ZSET, c.seq),
                                Redis!SADD(Redis!AUDIT_ZSET, [seq |-> c.seq, digest |-> c.digest])>>)>>
    BY <1>6 DEF Redis!Program, Redis!append_audit
  <2>2. C!Idempotent(c)
    BY <1>6 DEF C!Idempotent
  <2> QED BY <1>6, <2>1, <2>2, RedisAudit, WholeWithConn
<1>7. CASE c.op = "add_denylist"
  <2>1. Redis!Program(c, got) = <<Redis!with_conn(<<Redis!SADD(Redis!DENYLIST_INDEX, c.key)>>)>>
    BY <1>7 DEF Redis!Program, Redis!add_denylist
  <2>2. C!Idempotent(c)
    BY <1>7 DEF C!Idempotent
  <2> QED BY <1>7, <2>1, <2>2, RedisDeny, WholeWithConn
<1> QED BY CallsByOp, <1>1, <1>2, <1>3, <1>4, <1>5, <1>6, <1>7

RedisDeletion(c, names, ids) ==
  <<Redis!DEL({Redis!KEY(c.key)}), Redis!SREM(Redis!KEYS_INDEX, {c.key}),
    Redis!DEL(names), Redis!DEL({Redis!AWSCRED(k) : k \in ids}),
    Redis!SREM(Redis!AWSCRED_INDEX, ids), Redis!DEL({Redis!AWSCRED_IDS(c.key)})>>

\* A deletion reads the names and the credentials, then removes them.
LEMMA RedisDeletes ==
  ASSUME NEW c, c.op = "delete_key", NEW got
  PROVE  LET p == Redis!Program(c, got)
         IN  /\ Len(p) = 3
             /\ p[1].cmds = <<Redis!SCAN({Redis!USAGE(c.key)}, "names")>>
             /\ p[2].cmds = <<Redis!GET(Redis!AWSCRED_IDS(c.key), "ids")>>
             /\ p[3].cmds = RedisDeletion(c, got.names, Redis!Members(got.ids))
<1>1. Redis!Program(c, got) = Redis!delete_key(c, got)
  BY DEF Redis!Program
<1> QED BY <1>1 DEF Redis!delete_key, Redis!with_conn, RedisDeletion

\* What is read is kept beside what was.
LEMMA GotRead ==
  ASSUME NEW m, NEW l, NEW ns, NEW i, NEW v
  PROVE  /\ Changed(Got(m, l, ns, i), "marker", v) = Got(v, l, ns, i)
         /\ Changed(Got(m, l, ns, i), "legacy", v) = Got(m, v, ns, i)
         /\ Changed(Got(m, l, ns, i), "names", v) = Got(m, l, v, i)
         /\ Changed(Got(m, l, ns, i), "ids", v) = Got(m, l, ns, v)
<1>1. Changed(Got(m, l, ns, i), "marker", v) = Got(v, l, ns, i)
  BY DEF Got, Changed
<1>2. Changed(Got(m, l, ns, i), "legacy", v) = Got(m, v, ns, i)
  BY DEF Got, Changed
<1>3. Changed(Got(m, l, ns, i), "names", v) = Got(m, l, v, i)
  BY DEF Got, Changed
<1>4. Changed(Got(m, l, ns, i), "ids", v) = Got(m, l, ns, v)
  BY DEF Got, Changed
<1> QED BY <1>1, <1>2, <1>3, <1>4

\* The parts of what a process has read.
LEMMA GotFields ==
  ASSUME NEW m, NEW l, NEW ns, NEW i
  PROVE  /\ Got(m, l, ns, i).marker = m /\ Got(m, l, ns, i).legacy = l
         /\ Got(m, l, ns, i).names = ns /\ Got(m, l, ns, i).ids = i
BY DEF Got

Only(cmd) == <<cmd>>

\* A section that reads changes nothing but what its process knows.
LEMMA RedisRead ==
  ASSUME NEW d, NEW m, NEW l, NEW ns, NEW i, NEW x
  PROVE  /\ Redis!Run(St(d, Got(m, l, ns, i)), Only(Redis!GET(x, "marker"))) = St(d, Got(d[x], l, ns, i))
         /\ Redis!Run(St(d, Got(m, l, ns, i)), Only(Redis!GET(x, "ids"))) = St(d, Got(m, l, ns, d[x]))
         /\ Redis!Run(St(d, Got(m, l, ns, i)), Only(Redis!SCAN(x, "names")))
              = St(d, Got(m, l, Present(d, x), i))
         /\ Redis!Run(St(d, Got(m, l, ns, i)), Only(Redis!HEXISTS))
              = St(d, Got(m, LegacyIn(d, ns), ns, i))
<1> DEFINE g == Got(m, l, ns, i)
           v == Present(d, x)
           w == LegacyIn(d, ns)
<1>1. Redis!Exec(St(d, g), Redis!GET(x, "marker")) = St(d, Changed(g, "marker", d[x]))
  BY ExecGET
<1>2. Redis!Exec(St(d, g), Redis!GET(x, "ids")) = St(d, Changed(g, "ids", d[x]))
  BY ExecGET
<1>3. Redis!Exec(St(d, g), Redis!SCAN(x, "names")) = St(d, Changed(g, "names", v))
  BY ExecSCAN
<1>4. Redis!Exec(St(d, g), Redis!HEXISTS) = St(d, Changed(g, "legacy", w))
  <2>1. g.names = ns
    BY GotFields
  <2> HIDE DEF g
  <2> QED BY <2>1, ExecHEXISTS
<1> HIDE DEF v, w
<1>5. /\ Changed(g, "marker", d[x]) = Got(d[x], l, ns, i)
      /\ Changed(g, "ids", d[x]) = Got(m, l, ns, d[x])
      /\ Changed(g, "names", v) = Got(m, l, v, i)
      /\ Changed(g, "legacy", w) = Got(m, w, ns, i)
  BY GotRead
<1> HIDE DEF g
<1>6. Redis!Run(St(d, g), Only(Redis!GET(x, "marker"))) = St(d, Got(d[x], l, ns, i))
  BY <1>1, <1>5, RedisRun1 DEF Only
<1>7. Redis!Run(St(d, g), Only(Redis!GET(x, "ids"))) = St(d, Got(m, l, ns, d[x]))
  BY <1>2, <1>5, RedisRun1 DEF Only
<1>8. Redis!Run(St(d, g), Only(Redis!SCAN(x, "names"))) = St(d, Got(m, l, v, i))
  BY <1>3, <1>5, RedisRun1 DEF Only
<1>9. Redis!Run(St(d, g), Only(Redis!HEXISTS)) = St(d, Got(m, w, ns, i))
  BY <1>4, <1>5, RedisRun1 DEF Only
<1> QED BY <1>6, <1>7, <1>8, <1>9 DEF g, v, w

-----------------------------------------------------------------------------
(* Opening Redis *)

\* The section pc of an opening that has read g.
RedisStep(g, pc) ==
  IF pc = 1 THEN <<Redis!GET(Redis!SCHEMA_KEY, "marker")>>
  ELSE IF pc = 2 THEN <<Redis!SCAN(Redis!Names, "names")>>
  ELSE IF pc = 3 /\ g.marker = Nil /\ g.names # {} THEN <<Redis!HEXISTS>>
  ELSE IF pc < RedisSections(g) THEN <<Redis!DEL(g.names)>>
  ELSE <<Redis!SET(Redis!SCHEMA_KEY, 4)>>

\* The sections of an opening on Redis, by what it has read of the marker.
LEMMA RedisMigration ==
  ASSUME NEW g, g.marker \in {Nil, 0, 3, 4}, NEW c, c.op = "open"
  PROVE  /\ Len(Redis!Program(c, g)) = RedisSections(g)
         /\ \A pc \in 1..RedisSections(g) : Redis!Program(c, g)[pc].cmds = RedisStep(g, pc)
<1> DEFINE p == Redis!Program(c, g)
           A == Redis!with_conn(<<Redis!GET(Redis!SCHEMA_KEY, "marker")>>)
           S == Redis!with_conn(<<Redis!SCAN(Redis!Names, "names")>>)
           H == Redis!with_conn(<<Redis!HEXISTS>>)
           W == Redis!with_conn(<<Redis!DEL(g.names)>>)
           M == Redis!with_conn(<<Redis!SET(Redis!SCHEMA_KEY, 4)>>)
<1>1. p = <<A>> \o IF Redis!Marker(g) >= 4 THEN <<>>
                   ELSE <<S>> \o (IF Redis!Unmarked(g) THEN <<H>> ELSE <<>>)
                              \o (IF Redis!Refuses(g) THEN <<>>
                                  ELSE (IF g.names = {} THEN <<>> ELSE <<W>>) \o <<M>>)
  BY DEF Redis!Program, Redis!migrate, Redis!Wipe, Redis!Mark, Redis!SCHEMA_VERSION
<1>2. /\ Redis!Marker(g) >= 4 <=> g.marker = 4
      /\ Redis!Unmarked(g) <=> g.marker = Nil /\ g.names # {}
      /\ Redis!Refuses(g) <=> g.marker = Nil /\ g.names # {} /\ g.legacy = {}
  <2>1. 0 # Nil /\ 3 # Nil /\ 4 # Nil
    BY NilIsNone
  <2> QED BY <2>1 DEF Redis!Marker, Redis!Unmarked, Redis!Refuses, Redis!namespace_is_legacy_shaped
<1>f. /\ A.cmds = <<Redis!GET(Redis!SCHEMA_KEY, "marker")>>
      /\ S.cmds = <<Redis!SCAN(Redis!Names, "names")>> /\ H.cmds = <<Redis!HEXISTS>>
      /\ W.cmds = <<Redis!DEL(g.names)>> /\ M.cmds = <<Redis!SET(Redis!SCHEMA_KEY, 4)>>
  BY DEF Redis!with_conn
<1>n. 4 # Nil
  BY NilIsNone
<1> HIDE DEF p, A, S, H, W, M
<1>3. CASE g.marker = 4
  <2>1. p = <<A>> \o <<>>
    BY <1>1, <1>2, <1>3
  <2>2. RedisSections(g) = 1
    BY <1>3 DEF RedisSections
  <2>3. Len(p) = 1 /\ p[1] = A
    BY <2>1
  <2> QED BY <1>f, <2>2, <2>3 DEF RedisStep, p
<1>4. CASE g.marker # 4 /\ g.names = {}
  <2>0. <<>> \o <<M>> = <<M>>
    OBVIOUS
  <2>1. p = <<A>> \o (<<S>> \o <<>> \o <<M>>)
    BY <1>1, <1>2, <1>4, <2>0
  <2>2. RedisSections(g) = 3
    BY <1>4 DEF RedisSections
  <2>3. Len(p) = 3 /\ p[1] = A /\ p[2] = S /\ p[3] = M
    BY <2>1
  <2> QED BY <1>4, <1>f, <2>2, <2>3 DEF RedisStep, p
<1>5. CASE g.marker \notin {4, Nil} /\ g.names # {}
  <2>1. p = <<A>> \o (<<S>> \o <<>> \o (<<W>> \o <<M>>))
    BY <1>1, <1>2, <1>5
  <2>2. RedisSections(g) = 4
    BY <1>5 DEF RedisSections
  <2>3. Len(p) = 4 /\ p[1] = A /\ p[2] = S /\ p[3] = W /\ p[4] = M
    BY <2>1
  <2> QED BY <1>5, <1>f, <2>2, <2>3 DEF RedisStep, p
<1>6. CASE g.marker = Nil /\ g.names # {} /\ g.legacy = {}
  <2>1. p = <<A>> \o (<<S>> \o <<H>> \o <<>>)
    BY <1>1, <1>2, <1>6, <1>n
  <2>2. RedisSections(g) = 3
    BY <1>6, <1>n DEF RedisSections
  <2>3. Len(p) = 3 /\ p[1] = A /\ p[2] = S /\ p[3] = H
    BY <2>1
  <2> QED BY <1>6, <1>f, <2>2, <2>3 DEF RedisStep, p
<1>7. CASE g.marker = Nil /\ g.names # {} /\ g.legacy # {}
  <2>1. p = <<A>> \o (<<S>> \o <<H>> \o (<<W>> \o <<M>>))
    BY <1>1, <1>2, <1>7, <1>n
  <2>2. RedisSections(g) = 5
    BY <1>7, <1>n DEF RedisSections
  <2>3. Len(p) = 5 /\ p[1] = A /\ p[2] = S /\ p[3] = H /\ p[4] = W /\ p[5] = M
    BY <2>1
  <2> QED BY <1>7, <1>f, <2>2, <2>3 DEF RedisStep, p
<1> QED BY <1>3, <1>4, <1>5, <1>6, <1>7

-----------------------------------------------------------------------------
(* The states of a process *)

\* What a process has read is made of its parts, ...
LEMMA GotIs ==
  ASSUME NEW g \in Reads
  PROVE  /\ g = Got(g.marker, g.legacy, g.names, g.ids)
         /\ g.marker \in {Nil, 0, 3, 4} /\ g.legacy \in (SUBSET {"virtual_keys"}) \cup (SUBSET Redis!Names)
         /\ g.names \in SUBSET Redis!Names /\ g.ids \in {Nil} \cup SUBSET Keys
BY DEF Reads, Got

\* ... and any such parts make it.
LEMMA GotRange ==
  ASSUME NEW m \in {Nil, 0, 3, 4}, NEW l \in (SUBSET {"virtual_keys"}) \cup (SUBSET Redis!Names),
         NEW ns \in SUBSET Redis!Names, NEW i \in {Nil} \cup SUBSET Keys
  PROVE  Got(m, l, ns, i) \in Reads
BY DEF Reads, Got

\* The state of a process, by what it is doing.
LEMMA StatesByAt ==
  ASSUME NEW x \in NodeStates
  PROVE  /\ x.at \in {"down", "idle", "done", "lost", "ask", "told"}
         /\ IsBusy(x) <=> x \in BusyStates
         /\ x = Down <=> x.at = "down"
         /\ x = Ready <=> x.at = "idle"
         /\ x = Done <=> x.at = "done"
         /\ x = Lost <=> x.at = "lost"
<1>1. CASE x = Down
  BY <1>1 DEF Down, Ready, Done, Lost, IsBusy, BusyStates
<1>2. CASE x = Ready
  BY <1>2 DEF Down, Ready, Done, Lost, IsBusy, BusyStates
<1>3. CASE x = Done
  BY <1>3 DEF Down, Ready, Done, Lost, IsBusy, BusyStates
<1>4. CASE x = Lost
  BY <1>4 DEF Down, Ready, Done, Lost, IsBusy, BusyStates
<1>5. CASE x \in BusyStates
  BY <1>5 DEF Down, Ready, Done, Lost, IsBusy, BusyStates
<1> QED BY <1>1, <1>2, <1>3, <1>4, <1>5 DEF NodeStates

\* The states of a process without a call.
LEMMA IdleStates ==
  /\ Down \in NodeStates /\ Ready \in NodeStates /\ Done \in NodeStates /\ Lost \in NodeStates
  /\ Down.at = "down" /\ Ready.at = "idle" /\ Done.at = "done" /\ Lost.at = "lost"
BY DEF NodeStates, Down, Ready, Done, Lost

\* The parts of a process with a call.
LEMMA BusyFields ==
  ASSUME NEW x \in BusyStates
  PROVE  /\ x.at \in {"ask", "told"} /\ x.pc \in Nat /\ x.retried \in BOOLEAN
         /\ x.phase \in {"invoked", "taken"} /\ x.got \in Reads
         /\ x.had \in SUBSET {"usage", "credential"}
         /\ x.call \in C!Calls \/ x.call.op = "open"
         /\ "call" \in DOMAIN x /\ x \in NodeStates
BY DEF BusyStates, NodeStates

\* A process keeps its call.
SameCall(x, y) ==
  /\ y.call = x.call /\ y.pc = x.pc /\ y.retried = x.retried /\ y.phase = x.phase
  /\ y.got = x.got

\* A ghost apart, a process is where it was.
SameBut(x, y) ==
  /\ y \in NodeStates
  /\ y.at = x.at
  /\ IsBusy(x) => SameCall(x, y) /\ y.had \subseteq x.had

Watch(x, v) ==
  IF "call" \in DOMAIN x THEN [x EXCEPT !.had = @ \cap C!Found(v, x.call)] ELSE x

\* What a process in a call remembers to have found all along.
LEMMA Watches ==
  ASSUME NEW x \in NodeStates, NEW v
  PROVE  /\ SameBut(x, Watch(x, v))
         /\ IsBusy(x) => /\ Watch(x, v).had = x.had \cap C!Found(v, x.call)
                         /\ Watch(x, v).had \subseteq C!Found(v, x.call)
                         /\ x.had \subseteq C!Found(v, x.call) => Watch(x, v) = x
         /\ ~IsBusy(x) => Watch(x, v) = x
<1>1. CASE x \in BusyStates
  <2> DEFINE F == C!Found(v, x.call)
  <2>1. Watch(x, v) = [x EXCEPT !.had = x.had \cap F]
    BY <1>1, BusyFields DEF Watch
  <2> HIDE DEF F
  <2>2. /\ [x EXCEPT !.had = x.had \cap F] \in BusyStates
        /\ [x EXCEPT !.had = x.had \cap F].had = x.had \cap F
        /\ SameCall(x, [x EXCEPT !.had = x.had \cap F])
        /\ [x EXCEPT !.had = x.had \cap F].at = x.at
    BY <1>1 DEF BusyStates, SameCall
  <2>3. x.had \subseteq F => [x EXCEPT !.had = x.had \cap F] = x
    <3>1. ASSUME x.had \subseteq F PROVE x.had \cap F = x.had
      BY <3>1
    <3>2. [x EXCEPT !.had = x.had] = x
      BY <1>1 DEF BusyStates
    <3> QED BY <3>1, <3>2
  <2> QED BY <1>1, <2>1, <2>2, <2>3, StatesByAt, BusyFields DEF SameBut, F
<1>2. CASE x \notin BusyStates
  <2>1. x \in {Down, Ready, Done, Lost}
    BY <1>2 DEF NodeStates
  <2>2. "call" \notin DOMAIN x
    BY <2>1 DEF Down, Ready, Done, Lost
  <2> QED BY <1>2, <2>2, StatesByAt DEF SameBut, Watch
<1> QED BY <1>1, <1>2

-----------------------------------------------------------------------------
(* What the other processes keep *)

\* What is stored is not further from this build's layout than it was.
Nearer(b, d, e) ==
  /\ b # "redis" => e.version = d.version
  /\ b = "redis" => (Foreign(e) => Foreign(d)) /\ (d[Redis!OLD] = Nil => e[Redis!OLD] = Nil)

\* The invariant of a call that another's step leaves as it is, ...
LEMMA CallKept ==
  ASSUME NEW b, NEW v, NEW w, NEW x \in NodeStates, NEW y, CallInv(b, v, x), SameBut(x, y),
         IsBusy(x) => y.had \subseteq C!Found(w, x.call)
  PROVE  CallInv(b, w, y)
BY DEF CallInv, SameBut, SameCall, IsBusy, IsInCall, Last

\* ... of a deletion, ...
LEMMA DeleteKept ==
  ASSUME NEW b, NEW x \in NodeStates, NEW y, DeleteInv(b, x), SameBut(x, y)
  PROVE  DeleteInv(b, y)
BY DEF DeleteInv, SameBut, SameCall, IsBusy, IsInCall

\* ... of an opening on SQL ...
LEMMA SqlOpeningKept ==
  ASSUME NEW b, NEW d, NEW e, NEW x \in NodeStates, NEW y, SqlOpening(b, d, x), SameBut(x, y),
         Nearer(b, d, e)
  PROVE  SqlOpening(b, e, y)
BY DEF SqlOpening, SameBut, SameCall, IsBusy, IsOpening, Last, Nearer

\* ... and on Redis, ...
LEMMA RedisOpeningKept ==
  ASSUME NEW b, NEW d, NEW e, NEW ns, NEW ms, NEW x \in NodeStates, NEW y,
         RedisOpening(b, d, ns, x), SameBut(x, y), Nearer(b, d, e),
         b = "redis" /\ IsOpening(x) /\ Virgin(d, ns) => Virgin(e, ms)
  PROVE  RedisOpening(b, e, ms, y)
<1>1. CASE b = "redis" /\ IsOpening(y)
  <2>1. IsOpening(x) /\ y.at = x.at /\ SameCall(x, y)
    BY <1>1 DEF SameBut, SameCall, IsBusy, IsOpening
  <2>2. Last(b, y) <=> Last(b, x)
    BY <2>1 DEF SameCall, Last
  <2> QED BY <1>1, <2>1, <2>2 DEF RedisOpening, SameCall, Nearer
<1>2. CASE ~(b = "redis" /\ IsOpening(y))
  BY <1>2 DEF RedisOpening
<1> QED BY <1>1, <1>2

\* ... and of any process.
LEMMA ProcessKept ==
  ASSUME NEW b, NEW d, NEW e, NEW ns, NEW ms, NEW x \in NodeStates, NEW y,
         ProcessInv(b, d, ns, x), SameBut(x, y), Nearer(b, d, e),
         b = "redis" /\ IsOpening(x) /\ Virgin(d, ns) => Virgin(e, ms),
         IsBusy(x) => y.had \subseteq C!Found(ViewOf(b, e), x.call)
  PROVE  ProcessInv(b, e, ms, y)
BY CallKept, DeleteKept, SqlOpeningKept, RedisOpeningKept DEF ProcessInv

\* Nothing is asked of a process without a call.
LEMMA IdleProcess ==
  ASSUME NEW b, NEW d, NEW ns, NEW x, ~IsBusy(x)
  PROVE  ProcessInv(b, d, ns, x)
BY DEF ProcessInv, CallInv, DeleteInv, SqlOpening, RedisOpening, IsOpening, IsInCall

\* Tables that do not change are as near to an opened store as they were.
LEMMA NearerSame ==
  ASSUME NEW b, NEW d
  PROVE  Nearer(b, d, d)
BY DEF Nearer

\* One process goes on and nothing is stored.
LEMMA Moves ==
  ASSUME NEW b, NEW d, NEW ns, InvOf(b, d, ns), NEW n \in Nodes, NEW y \in NodeStates,
         ProcessInv(b, d, ns, y),
         IsOpening(y) => IsOpening(ns[n]) \/ \A m \in Nodes : ~IsOpening(ns[m]),
         IsOpened(y) => \/ IsOpened(ns[n])
                        \/ /\ IsOpening(ns[n])
                           /\ b # "redis" => d.version = 4
                           /\ b = "redis" => ~Foreign(d)
  PROVE  InvOf(b, d, [ns EXCEPT ![n] = y])
<1> DEFINE ms == [ns EXCEPT ![n] = y]
<1>1. /\ ns \in [Nodes -> NodeStates] /\ ms \in [Nodes -> NodeStates]
      /\ ms[n] = y /\ \A m \in Nodes : m # n => ms[m] = ns[m]
  BY DEF InvOf, Types
<1> HIDE DEF ms
<1>2. Types(b, d, ms)
  BY <1>1 DEF InvOf, Types
<1>3. OneOpens(ms)
  BY <1>1 DEF InvOf, OneOpens
<1>4. IsOpening(y) => ~IsOpened(y)
  <2>1. IsBusy(y) => y.at \notin {"idle", "done"}
    BY DEF IsBusy
  <2> QED BY <2>1 DEF IsOpening, IsOpened, IsInCall
<1>5. /\ b # "redis" /\ d.version # 4 /\ NoneOpened(ns) => NoneOpened(ms)
      /\ b = "redis" /\ Foreign(d) /\ NoneOpened(ns) => NoneOpened(ms)
  BY <1>1 DEF NoneOpened
<1>6. SqlInv(b, d, ms)
  BY <1>5 DEF InvOf, SqlInv
<1>7. RedisInv(b, d, ms)
  BY <1>5 DEF InvOf, RedisInv, Virgin
<1>8. ASSUME NEW m \in Nodes, IsOpening(ms[m]), NoneOpened(ns)
      PROVE  NoneOpened(ms)
  <2>1. CASE m = n
    BY <1>1, <1>4, <1>8, <2>1 DEF NoneOpened
  <2>2. CASE m # n
    <3>1. IsOpening(ns[m])
      BY <1>1, <1>8, <2>2
    <3>2. ~IsOpening(ns[n])
      BY <2>2, <3>1 DEF InvOf, OneOpens
    <3> QED BY <1>1, <1>8, <3>2 DEF NoneOpened
  <2> QED BY <2>1, <2>2
<1>9. ASSUME NEW m \in Nodes PROVE ProcessInv(b, d, ms, ms[m])
  <2>1. ProcessInv(b, d, ns, ms[m])
    BY <1>1 DEF InvOf
  <2>2. ms[m] \in NodeStates
    BY <1>1
  <2>3. b = "redis" /\ IsOpening(ms[m]) /\ Virgin(d, ns) => Virgin(d, ms)
    BY <1>8 DEF Virgin
  <2>4. SameBut(ms[m], ms[m])
    BY <2>2 DEF SameBut, SameCall
  <2>5. IsBusy(ms[m]) => ms[m].had \subseteq C!Found(ViewOf(b, d), ms[m].call)
    BY <2>1 DEF ProcessInv, CallInv
  <2> QED BY <2>1, <2>2, <2>3, <2>4, <2>5, NearerSame, ProcessKept
<1> QED BY <1>2, <1>3, <1>6, <1>7, <1>9 DEF InvOf, ms

-----------------------------------------------------------------------------
(* A process between two sections *)

\* What a call may find: a usage, a credential.
LEMMA FoundRange ==
  ASSUME NEW v, NEW c
  PROVE  C!Found(v, c) \in SUBSET {"usage", "credential"}
BY DEF C!Found

\* A call that begins.
LEMMA Starts ==
  ASSUME NEW b \in {"sqlite", "postgres", "redis"}, NEW d, NEW ns, NEW c,
         c \in C!Calls \/ c = [op |-> "open"], NEW h, h = C!Found(ViewOf(b, d), c),
         NEW y, y.at = "ask", y.call = c, y.pc = 1, y.phase = "invoked", y.got = Unread, y.had = h
  PROVE  ProcessInv(b, d, ns, y)
<1>1. Unread = Got(0, {}, {}, {}) /\ Unread \in Reads
  <2>1. Unread = Got(0, {}, {}, {})
    BY DEF Unread, Got
  <2> QED BY <2>1, GotRange
<1>4. Unread.marker = 0 /\ Unread.legacy = {} /\ Unread.names = {} /\ Redis!Members(Unread.ids) = {}
  BY <1>1, GotFields DEF Redis!Members
<1>n. 0 # Nil
  BY NilIsNone
<1>5. RedisSections(Unread) = 3
  BY <1>4 DEF RedisSections
<1>6. Sections(b, c, Unread) \in {1, 2, 3, 6} /\ (c.op = "open" => Sections(b, c, Unread) # 1)
  BY <1>5 DEF Sections
<1>7. CallInv(b, ViewOf(b, d), y)
  BY <1>6 DEF CallInv
<1>8. DeleteInv(b, y)
  BY <1>4 DEF DeleteInv
<1>9. SqlOpening(b, d, y)
  BY <1>4 DEF SqlOpening
<1>10. RedisOpening(b, d, ns, y)
  <2>1. IsOpening(y) => ~Last(b, y)
    BY <1>6 DEF IsOpening, Last
  <2> QED BY <1>4, <1>n, <2>1 DEF RedisOpening
<1> QED BY <1>7, <1>8, <1>9, <1>10 DEF ProcessInv

SectionCounts(b, c, g) ==
  /\ c.op = "open" => Sections(b, c, g) \in {1, 3, 4, 5, 6, 2}
  /\ c.op = "open" /\ b = "redis" =>
       /\ Sections(b, c, g) = RedisSections(g)
       /\ RedisSections(g) \in {1, 3, 4, 5}
       /\ g.marker = 4 <=> RedisSections(g) = 1
  /\ c.op # "open" => Sections(b, c, g) \in {1, 3}
  /\ c.op # "open" /\ Sections(b, c, g) # 1 => b = "redis" /\ c.op = "delete_key"

\* How many sections a call has.
LEMMA Counted ==
  ASSUME NEW b \in {"sqlite", "postgres", "redis"}, NEW c, NEW g
  PROVE  SectionCounts(b, c, g)
BY DEF SectionCounts, Sections, RedisSections

\* The next section of a call.
LEMMA GoesOn ==
  ASSUME NEW b \in {"sqlite", "postgres", "redis"}, NEW d, NEW ns, NEW x \in BusyStates,
         ProcessInv(b, d, ns, x), x.at = "told", ~Last(b, x),
         NEW y, y.at = "ask", y.call = x.call, y.pc = x.pc + 1, y.phase = x.phase, y.got = x.got,
         y.had = x.had
  PROVE  ProcessInv(b, d, ns, y)
<1>3. /\ x.pc \in Nat /\ IsBusy(x) /\ IsBusy(y)
      /\ IsOpening(x) <=> IsOpening(y)
      /\ IsInCall(x) <=> IsInCall(y)
  BY BusyFields DEF IsBusy, IsOpening, IsInCall
<1>4. SectionCounts(b, x.call, x.got)
  BY Counted
<1>5. Sections(b, x.call, x.got) \in Nat
  BY <1>4 DEF SectionCounts
<1>6. CallInv(b, ViewOf(b, d), y)
  <2>1. y.pc \in 1..Sections(b, y.call, y.got)
    BY <1>3, <1>5 DEF ProcessInv, CallInv, Last
  <2>2. IsInCall(y) => C!Idempotent(y.call)
    <3>1. IsInCall(y) => x.call.op # "open" /\ Sections(b, x.call, x.got) # 1
      BY <1>3, <1>5 DEF ProcessInv, CallInv, Last, IsInCall
    <3> QED BY <1>4, <3>1 DEF SectionCounts, C!Idempotent
  <2> QED BY <1>3, <2>1, <2>2 DEF ProcessInv, CallInv
<1>7. DeleteInv(b, y)
  BY <1>3 DEF ProcessInv, DeleteInv
<1>p. x.pc >= 1
  BY <1>3, <1>5 DEF ProcessInv, CallInv
<1>8. SqlOpening(b, d, y)
  BY <1>3, <1>p, BusyFields DEF ProcessInv, SqlOpening
<1>9. RedisOpening(b, d, ns, y)
  <2>1. CASE b = "redis" /\ IsOpening(y)
    <3>1. Sections(b, x.call, x.got) = RedisSections(x.got) /\ RedisSections(x.got) \in {1, 3, 4, 5}
          /\ (x.got.marker = 4 <=> RedisSections(x.got) = 1)
      BY <1>3, <1>4, <2>1 DEF SectionCounts, IsOpening
    <3>2. x.got.marker \in {Nil, 0, 3, 4}
      BY BusyFields, GotIs
    <3>3. x.pc \in 1..RedisSections(x.got) /\ x.pc # RedisSections(x.got)
      BY <1>3, <3>1 DEF ProcessInv, CallInv, Last
    <3>4. Last(b, y) <=> x.pc + 1 = RedisSections(x.got)
      BY <3>1 DEF Last
    <3>5. IsOpening(x) /\ RedisOpening(b, d, ns, x)
      BY <1>3, <2>1 DEF ProcessInv
    <3>6. x.got.marker \in {Nil, 3}
      <4>1. x.got.marker # 4
        BY <3>1, <3>3
      <4>2. x.pc = 1 \/ x.pc > 1
        BY <1>3, <1>p
      <4>3. x.got.marker # 0
        <5>1. CASE x.pc = 1 BY <2>1, <3>5, <5>1 DEF RedisOpening
        <5>2. CASE x.pc > 1
          <6>1. 0 # Nil
            BY NilIsNone
          <6> QED BY <2>1, <3>5, <5>2, <6>1 DEF RedisOpening
        <5> QED BY <4>2, <5>1, <5>2
      <4> QED BY <3>2, <4>1, <4>3
    <3>7. Last(b, y) => x.pc > 1
      BY <1>3, <1>p, <3>1, <3>4
    <3> QED BY <1>3, <1>p, <2>1, <3>4, <3>5, <3>6, <3>7 DEF RedisOpening
  <2>2. CASE ~(b = "redis" /\ IsOpening(y))
    BY <2>2 DEF RedisOpening
  <2> QED BY <2>1, <2>2
<1> QED BY <1>6, <1>7, <1>8, <1>9 DEF ProcessInv

\* The same section once more, of a call that may be sent again.
LEMMA Retries ==
  ASSUME NEW d, NEW ns, NEW x \in BusyStates, ProcessInv("redis", d, ns, x),
         IsInCall(x) => C!Idempotent(x.call),
         NEW y, y.at = "ask", y.call = x.call, y.pc = x.pc, y.phase = x.phase, y.got = x.got,
         y.had = x.had
  PROVE  ProcessInv("redis", d, ns, y)
<1>3. /\ IsBusy(x) /\ IsBusy(y)
      /\ IsOpening(x) <=> IsOpening(y)
      /\ IsInCall(x) <=> IsInCall(y)
      /\ Last("redis", y) <=> Last("redis", x)
  BY BusyFields DEF IsBusy, IsOpening, IsInCall, Last
<1>4. CallInv("redis", ViewOf("redis", d), y)
  BY <1>3 DEF ProcessInv, CallInv
<1>5. DeleteInv("redis", y)
  BY <1>3, BusyFields DEF ProcessInv, DeleteInv
<1>6. SqlOpening("redis", d, y)
  BY DEF SqlOpening
<1>7. RedisOpening("redis", d, ns, y)
  BY <1>3, BusyFields DEF ProcessInv, RedisOpening
<1> QED BY <1>4, <1>5, <1>6, <1>7 DEF ProcessInv

-----------------------------------------------------------------------------
(* The steps that store nothing *)

\* The predicates of the model, as ones about a state of a process.
LEMMA StateIs ==
  ASSUME NEW n
  PROVE  /\ Busy(n) <=> IsBusy(node[n])
         /\ Opening(n) <=> IsOpening(node[n])
         /\ InCall(n) <=> IsInCall(node[n])
BY DEF Busy, Opening, InCall, IsBusy, IsOpening, IsInCall

\* The view of the model, as one of a backend and its tables.
LEMMA ViewIs ==
  ASSUME backend \in {"sqlite", "postgres", "redis"}, NEW d
  PROVE  View(d) = ViewOf(backend, d)
BY SameView DEF View, ViewOf

\* The length of a program is the number of sections of its call.
LEMMA ProgramLength ==
  ASSUME backend \in {"sqlite", "postgres", "redis"}, NEW c,
         c \in C!Calls \/ c = [op |-> "open"], NEW g \in Reads
  PROVE  Len(Program(c, g)) = Sections(backend, c, g)
<1>1. CASE c \in C!Calls
  <2>0. c.op # "open"
    BY <1>1, CallsByOp
  <2>1. CASE backend = "sqlite"
    <3>1. Program(c, g) = <<SqlSection(c)>>
      BY <1>1, <2>1, SqlPrograms DEF Program
    <3> QED BY <2>0, <2>1, <3>1 DEF Sections
  <2>2. CASE backend = "postgres"
    <3>1. Program(c, g) = <<SqlSection(c)>>
      BY <1>1, <2>2, SqlPrograms DEF Program
    <3> QED BY <2>0, <2>2, <3>1 DEF Sections
  <2>3. CASE backend = "redis"
    <3>1. Program(c, g) = Redis!Program(c, g)
      BY <2>3 DEF Program
    <3>2. CASE c.op = "delete_key"
      BY <2>3, <3>1, <3>2, RedisDeletes DEF Sections
    <3>3. CASE c.op # "delete_key"
      <4>1. RedisWhole(Redis!Program(c, g), c)
        BY <1>1, <3>3, RedisPrograms
      <4> QED BY <2>0, <2>3, <3>1, <3>3, <4>1 DEF Sections, RedisWhole
    <3> QED BY <3>2, <3>3
  <2> QED BY <2>1, <2>2, <2>3
<1>2. CASE c = [op |-> "open"]
  <2>0. c.op = "open"
    BY <1>2
  <2>1. CASE backend = "sqlite"
    <3>1. Program(c, g) = Sqlite!migrate
      BY <2>0, <2>1 DEF Program, Sqlite!Program
    <3> QED BY <2>0, <2>1, <3>1, SqlMigrations DEF Sections
  <2>2. CASE backend = "postgres"
    <3>1. Program(c, g) = Postgres!migrate
      BY <2>0, <2>2 DEF Program, Postgres!Program
    <3> QED BY <2>0, <2>2, <3>1, SqlMigrations DEF Sections
  <2>3. CASE backend = "redis"
    <3>1. Program(c, g) = Redis!Program(c, g)
      BY <2>3 DEF Program
    <3>2. g.marker \in {Nil, 0, 3, 4}
      BY GotIs
    <3> QED BY <2>0, <2>3, <3>1, <3>2, RedisMigration DEF Sections
  <2> QED BY <2>1, <2>2, <2>3
<1> QED BY <1>1, <1>2

\* A process of a state in which the invariant holds.
LEMMA ProcessOf ==
  ASSUME Inv, NEW n \in Nodes
  PROVE  /\ backend \in {"sqlite", "postgres", "redis"} /\ node[n] \in NodeStates
         /\ ProcessInv(backend, db, node, node[n]) /\ view = ViewOf(backend, db)
         /\ node \in [Nodes -> NodeStates]
         /\ IsBusy(node[n]) =>
              /\ node[n] \in BusyStates
              /\ Len(Program(node[n].call, node[n].got))
                   = Sections(backend, node[n].call, node[n].got)
<1>1. /\ backend \in {"sqlite", "postgres", "redis"} /\ node[n] \in NodeStates
      /\ ProcessInv(backend, db, node, node[n]) /\ node \in [Nodes -> NodeStates]
  BY DEF Inv, InvOf, Types
<1>2. view = ViewOf(backend, db)
  BY <1>1, ViewIs DEF view
<1>3. ASSUME IsBusy(node[n])
      PROVE  /\ node[n] \in BusyStates
             /\ Len(Program(node[n].call, node[n].got)) = Sections(backend, node[n].call, node[n].got)
  <2>1. node[n] \in BusyStates
    BY <1>1, <1>3, StatesByAt
  <2>2. node[n].call \in C!Calls \/ node[n].call = [op |-> "open"]
    BY <2>1 DEF BusyStates
  <2>3. node[n].got \in Reads
    BY <2>1, BusyFields
  <2> QED BY <1>1, <2>1, <2>2, <2>3, ProgramLength
<1> QED BY <1>1, <1>2, <1>3

\* A process that moves alone, over tables that stay, keeps the invariant.
LEMMA MovesTo ==
  ASSUME Inv, NEW n \in Nodes, NEW y \in NodeStates, ProcessInv(backend, db, node, y),
         node' = [node EXCEPT ![n] = y], db' = db, backend' = backend,
         IsOpening(y) => IsOpening(node[n]) \/ \A m \in Nodes : ~IsOpening(node[m]),
         IsOpened(y) => \/ IsOpened(node[n])
                        \/ /\ IsOpening(node[n])
                           /\ backend # "redis" => db.version = 4
                           /\ backend = "redis" => ~Foreign(db)
  PROVE  Inv'
<1>1. InvOf(backend, db, [node EXCEPT ![n] = y])
  BY Moves DEF Inv
<1>2. Inv' <=> InvOf(backend', db', node')
  BY DEF Inv
<1> QED BY <1>1, <1>2

\* A call or an opening that begins.
LEMMA StartedIs ==
  ASSUME NEW c
  PROVE  /\ Started(c).at = "ask" /\ Started(c).call = c /\ Started(c).pc = 1
         /\ Started(c).phase = "invoked" /\ Started(c).got = Unread
         /\ Started(c).had = C!Found(view, c)
         /\ c \in C!Calls \/ c = [op |-> "open"] => Started(c) \in BusyStates
<1>1. Unread \in Reads
  <2>1. Unread = Got(0, {}, {}, {})
    BY DEF Unread, Got
  <2> QED BY <2>1, GotRange
<1>2. C!Found(view, c) \in SUBSET {"usage", "credential"}
  BY FoundRange
<1>3. /\ Started(c).at = "ask" /\ Started(c).call = c /\ Started(c).pc = 1
      /\ Started(c).phase = "invoked" /\ Started(c).got = Unread
      /\ Started(c).had = C!Found(view, c)
  BY DEF Started
<1>4. c \in C!Calls \/ c = [op |-> "open"] => Started(c) \in BusyStates
  BY <1>1, <1>2 DEF Started, BusyStates
<1> QED BY <1>3, <1>4

\* An opening that begins while no other runs keeps the invariant.
LEMMA OpenKeeps ==
  ASSUME Inv, SerialOpens, NEW n \in Nodes, Open(n)
  PROVE  Inv'
<1> DEFINE y == Started([op |-> "open"])
<1>1. /\ y.at = "ask" /\ y.call = [op |-> "open"] /\ y.pc = 1 /\ y.phase = "invoked"
      /\ y.got = Unread /\ y.had = C!Found(view, [op |-> "open"]) /\ y \in BusyStates
  BY StartedIs
<1>2. node' = [node EXCEPT ![n] = y] /\ db' = db /\ backend' = backend
  BY DEF Open
<1>3. \A m \in Nodes : ~IsOpening(node[m])
  BY StateIs DEF Open
<1> HIDE DEF y
<1>4. backend \in {"sqlite", "postgres", "redis"} /\ view = ViewOf(backend, db)
  BY ProcessOf
<1>5. ProcessInv(backend, db, node, y)
  BY <1>1, <1>4, Starts
<1>6. y \in NodeStates /\ ~IsOpened(y)
  BY <1>1, BusyFields DEF IsOpened, IsInCall
<1> QED BY <1>2, <1>3, <1>5, <1>6, MovesTo

\* A call that begins keeps the invariant.
LEMMA BeginKeeps ==
  ASSUME Inv, NEW n \in Nodes, NEW c \in C!Calls, Begin(n, c)
  PROVE  Inv'
<1> DEFINE y == Started(c)
<1>1. /\ y.at = "ask" /\ y.call = c /\ y.pc = 1 /\ y.phase = "invoked"
      /\ y.got = Unread /\ y.had = C!Found(view, c) /\ y \in BusyStates
  BY StartedIs
<1>2. /\ node' = [node EXCEPT ![n] = y] /\ db' = db /\ backend' = backend
      /\ node[n] \in {Ready, Done}
  BY DEF Begin
<1> HIDE DEF y
<1>3. backend \in {"sqlite", "postgres", "redis"} /\ view = ViewOf(backend, db)
  BY ProcessOf
<1>4. ProcessInv(backend, db, node, y)
  BY <1>1, <1>3, Starts
<1>5. y \in NodeStates /\ ~IsOpening(y) /\ IsOpened(node[n])
  BY <1>1, <1>2, BusyFields, CallsByOp, IdleStates DEF IsOpened, IsOpening
<1> QED BY <1>2, <1>4, <1>5, MovesTo

\* A process that ends what it does.
LEMMA EndsKeep ==
  ASSUME Inv, NEW n \in Nodes, NEW y \in {Down, Ready, Done, Lost},
         node' = [node EXCEPT ![n] = y], db' = db, backend' = backend,
         y \in {Ready, Done} => \/ IsOpened(node[n])
                                \/ /\ IsOpening(node[n])
                                   /\ backend # "redis" => db.version = 4
                                   /\ backend = "redis" => ~Foreign(db)
  PROVE  Inv'
<1>1. y \in NodeStates /\ ~IsBusy(y)
  BY IdleStates DEF IsBusy
<1>2. ~IsOpening(y) /\ (IsOpened(y) => y \in {Ready, Done})
  <2>1. y.at \in {"idle", "done"} => y \in {Ready, Done}
    BY <1>1, StatesByAt
  <2> QED BY <1>1, <2>1 DEF IsOpening, IsOpened, IsInCall
<1>3. ProcessInv(backend, db, node, y)
  BY <1>1, IdleProcess
<1> QED BY <1>1, <1>2, <1>3, MovesTo

\* An opening whose last section was answered has this build's layout.
LEMMA OpenedLayout ==
  ASSUME Inv, NEW n \in Nodes, IsOpening(node[n]), node[n].at = "told",
         Last(backend, node[n])
  PROVE  /\ backend # "redis" => db.version = 4
         /\ backend = "redis" /\ ~Redis!Refuses(node[n].got) => ~Foreign(db)
<1>1. ProcessInv(backend, db, node, node[n]) /\ IsBusy(node[n])
  BY ProcessOf DEF IsOpening
<1> QED BY <1>1 DEF ProcessInv, CallInv, SqlOpening, RedisOpening

\* An answer, to the last section or to an earlier one, keeps the invariant.
LEMMA ReplyKeeps ==
  ASSUME Inv, NEW n \in Nodes, Reply(n)
  PROVE  Inv'
<1> DEFINE x == node[n]
           z == [x EXCEPT !.at = "ask", !.pc = x.pc + 1, !.retried = FALSE]
<1>0. x.at = "told" /\ db' = db /\ backend' = backend
  BY DEF Reply
<1>1. IsBusy(x) /\ x \in BusyStates /\ backend \in {"sqlite", "postgres", "redis"}
      /\ ProcessInv(backend, db, node, x) /\ node \in [Nodes -> NodeStates]
  BY <1>0, ProcessOf DEF IsBusy
<1>2. Len(Program(x.call, x.got)) = Sections(backend, x.call, x.got)
  BY <1>1, ProcessOf
<1>3. CASE Last(backend, x)
  <2>1. node' = [node EXCEPT ![n] = AfterOk(n)]
    BY <1>2, <1>3 DEF Reply, Last
  <2>2. CASE IsInCall(x)
    <3>0. InCall(n) /\ ~Opening(n)
      BY <2>2, StateIs DEF IsOpening, IsInCall
    <3>1. AfterOk(n) = Done
      BY <3>0 DEF AfterOk
    <3>2. IsOpened(x)
      BY <2>2 DEF IsOpened
    <3> QED BY <1>0, <2>1, <3>1, <3>2, EndsKeep
  <2>3. CASE IsOpening(x)
    <3>1. ~InCall(n) /\ Opening(n)
      BY <2>3, StateIs DEF IsOpening, IsInCall
    <3>2. AfterOk(n) = IF backend = "redis" /\ Redis!Refuses(node[n].got) THEN Down ELSE Ready
      BY <3>1 DEF AfterOk
    <3>3. /\ backend # "redis" => db.version = 4
          /\ backend = "redis" /\ ~Redis!Refuses(node[n].got) => ~Foreign(db)
      BY <1>0, <1>3, <2>3, OpenedLayout
    <3>4. CASE AfterOk(n) = Down
      <4>1. Down \notin {Ready, Done}
        BY IdleStates
      <4> QED BY <1>0, <2>1, <3>4, <4>1, EndsKeep
    <3>5. CASE AfterOk(n) # Down
      BY <1>0, <2>1, <2>3, <3>2, <3>3, <3>5, EndsKeep
    <3> QED BY <3>4, <3>5
  <2> QED BY <1>1, <2>2, <2>3 DEF IsInCall, IsOpening
<1>4. CASE ~Last(backend, x)
  <2>1. node' = [node EXCEPT ![n] = z]
    BY <1>1, <1>2, <1>4 DEF Reply, Last
  <2>2. /\ z.at = "ask" /\ z.call = x.call /\ z.pc = x.pc + 1 /\ z.phase = x.phase /\ z.got = x.got
        /\ z.had = x.had /\ z \in BusyStates
    <3>1. x.pc + 1 \in Nat
      BY <1>1, BusyFields
    <3>2. ASSUME NEW p \in Nat
          PROVE  LET w == [x EXCEPT !.at = "ask", !.pc = p, !.retried = FALSE]
                 IN  /\ w.at = "ask" /\ w.call = x.call /\ w.pc = p /\ w.phase = x.phase
                     /\ w.got = x.got /\ w.had = x.had /\ w \in BusyStates
      BY <1>1 DEF BusyStates
    <3> QED BY <3>1, <3>2
  <2> HIDE DEF z
  <2>3. ProcessInv(backend, db, node, z)
    BY <1>0, <1>1, <1>4, <2>2, GoesOn
  <2>4. (IsOpening(z) => IsOpening(x)) /\ (IsOpened(z) => IsOpened(x)) /\ z \in NodeStates
    BY <1>0, <2>2, BusyFields DEF IsOpening, IsOpened, IsBusy, IsInCall
  <2> QED BY <1>0, <2>1, <2>3, <2>4, MovesTo
<1> QED BY <1>3, <1>4

\* A call that the tables it finds make fail keeps the invariant.
LEMMA RejectKeeps ==
  ASSUME Inv, NEW n \in Nodes, Reject(n)
  PROVE  Inv'
<1>1. /\ node' = [node EXCEPT ![n] = Ready] /\ db' = db /\ backend' = backend
      /\ node[n].at = "ask" /\ node[n].call.op # "open"
  BY DEF Reject, Usable
<1>2. IsOpened(node[n])
  BY <1>1 DEF IsOpened, IsInCall, IsBusy
<1> QED BY <1>1, <1>2, EndsKeep

\* A section that is sent again is one that may be.
LEMMA MayRetry ==
  ASSUME Inv, NEW n \in Nodes, IsInCall(node[n]), backend = "redis", Section(n).retry
  PROVE  C!Idempotent(node[n].call)
<1> DEFINE x == node[n]
           p == Redis!Program(x.call, x.got)
<1>1. IsBusy(x) /\ x \in BusyStates /\ ProcessInv(backend, db, node, x) /\ x.call.op # "open"
  BY ProcessOf DEF IsInCall
<1>2. x.call \in C!Calls
  BY <1>1, BusyFields
<1>3. Section(n) = p[x.pc]
  BY DEF Section, Program
<1>4. CASE x.call.op = "delete_key"
  BY <1>4 DEF C!Idempotent
<1>5. CASE x.call.op # "delete_key"
  <2>1. RedisWhole(p, x.call)
    BY <1>2, <1>5, RedisPrograms
  <2>2. Sections(backend, x.call, x.got) = 1
    BY <1>1, <1>5 DEF Sections
  <2>3. x.pc = 1
    BY <1>1, <2>2 DEF ProcessInv, CallInv
  <2> QED BY <1>3, <2>1, <2>3 DEF RedisWhole
<1> QED BY <1>4, <1>5

\* A broken connection, before or after the section was executed.
LEMMA BrokenKeeps ==
  ASSUME Inv, NEW n \in Nodes, IsBusy(node[n]), node' = [node EXCEPT ![n] = run(n)],
         db' = db, backend' = backend
  PROVE  Inv'
<1> DEFINE x == node[n]
           z == [x EXCEPT !.at = "ask", !.retried = TRUE]
<1>1. x \in BusyStates /\ backend \in {"sqlite", "postgres", "redis"}
      /\ ProcessInv(backend, db, node, x)
  BY ProcessOf
<1>2. CASE backend = "redis" /\ Section(n).retry /\ ~node[n].retried
  <2>1. run(n) = z
    BY <1>2 DEF run
  <2>2. /\ z.at = "ask" /\ z.call = x.call /\ z.pc = x.pc /\ z.phase = x.phase /\ z.got = x.got
        /\ z.had = x.had /\ z \in BusyStates
    BY <1>1 DEF BusyStates
  <2>3. IsInCall(x) => C!Idempotent(x.call)
    BY <1>2, MayRetry
  <2> HIDE DEF z
  <2>4. ProcessInv(backend, db, node, z)
    BY <1>1, <1>2, <2>2, <2>3, Retries
  <2>5. (IsOpening(z) => IsOpening(x)) /\ (IsOpened(z) => IsOpened(x)) /\ z \in NodeStates
    BY <2>2, BusyFields DEF IsOpening, IsOpened, IsBusy, IsInCall
  <2> QED BY <2>1, <2>4, <2>5, MovesTo
<1>3. CASE ~(backend = "redis" /\ Section(n).retry /\ ~node[n].retried)
  <2>1. run(n) = AfterError(n)
    BY <1>3 DEF run
  <2>2. CASE IsOpening(x)
    <3>1. AfterError(n) = Down
      BY <2>2, StateIs DEF AfterError
    <3>2. Down \notin {Ready, Done}
      BY IdleStates
    <3> QED BY <2>1, <3>1, <3>2, EndsKeep
  <2>3. CASE ~IsOpening(x)
    <3>1. AfterError(n) \in {Lost, Ready}
      BY <1>1, <2>3, StateIs DEF AfterError
    <3>2. IsOpened(x)
      BY <2>3 DEF IsOpened, IsInCall, IsOpening
    <3> QED BY <2>1, <3>1, <3>2, EndsKeep
  <2> QED BY <2>2, <2>3
<1> QED BY <1>2, <1>3

\* A connection that breaks before or after the section keeps the invariant.
LEMMA BreakKeeps ==
  ASSUME Inv, NEW n \in Nodes, Break(n) \/ LoseReply(n)
  PROVE  Inv'
<1>1. IsBusy(node[n]) /\ node' = [node EXCEPT ![n] = run(n)] /\ db' = db /\ backend' = backend
  BY DEF Break, LoseReply, IsBusy
<1> QED BY <1>1, BrokenKeeps

\* A crash keeps the invariant.
LEMMA CrashKeeps ==
  ASSUME Inv, NEW n \in Nodes, Crash(n)
  PROVE  Inv'
<1>1. node' = [node EXCEPT ![n] = Down] /\ db' = db /\ backend' = backend
  BY DEF Crash
<1>2. Down \notin {Ready, Done}
  BY IdleStates
<1> QED BY <1>1, <1>2, EndsKeep

-----------------------------------------------------------------------------
(* The execution of a section *)

StoreTypes(b, d) == IF b = "redis" THEN RedisTypes(d) ELSE SqlTypes(d)

\* A process that was told what its section has read.
Told(b, x, g, v, z) ==
  /\ z.at = "told" /\ z.call = x.call /\ z.pc = x.pc /\ z.got = g
  /\ z.phase = IF x.pc = Sections(b, x.call, g) THEN "taken" ELSE x.phase
  /\ z.had \subseteq x.had /\ z.had \subseteq C!Found(v, x.call)

\* What is stored after a section of x, and what x has read: the invariant
\* holds, and the contract sees an effect in the last section of a call only.
Applied(b, d, ns, x, e, g) ==
  /\ StoreTypes(b, e) /\ g \in Reads
  /\ IsInCall(x) => Nearer(b, d, e)
  /\ SqlInv(b, e, ns) /\ RedisInv(b, e, ns)
  /\ \A z : Told(b, x, g, ViewOf(b, e), z) => ProcessInv(b, e, ns, z)
  /\ IsOpening(x) => ViewOf(b, e) = ViewOf(b, d)
  /\ IsInCall(x) /\ Last(b, x) => ViewOf(b, e) \in C!Effects(ViewOf(b, d), x.call, x.had)
  /\ IsInCall(x) /\ ~Last(b, x) => e = d

\* The conjuncts for a process that was told.
LEMMA ToldCall ==
  ASSUME NEW b \in {"sqlite", "postgres", "redis"}, NEW x \in BusyStates, NEW g, NEW v, NEW z,
         Told(b, x, g, v, z), x.pc \in 1..Sections(b, x.call, g)
  PROVE  CallInv(b, v, z) /\ IsBusy(z)
BY DEF Told, CallInv, IsBusy, Last

SqlTakesAs(R, c, sh, ver, g, had) ==
  \E R2 : /\ Sqlite!Run(St(Db(R, sh, ver), g), SqlSection(c)) = St(Db(R2, sh, ver), g)
          /\ SqlAfter(R, c, had, R2)

\* A call takes its effect whatever was found and whatever the shape is.
LEMMA SqlCallTakes ==
  ASSUME NEW R, NEW c, SqlTakes(R, c), NEW sh, NEW ver, NEW g, NEW had
  PROVE  SqlTakesAs(R, c, sh, ver, g, had)
BY DEF SqlTakes, SqlTakesAs

\* A call on a SQL database is one section.
LEMMA SqlCallApplies ==
  ASSUME NEW b \in {"sqlite", "postgres"}, NEW d, NEW ns, InvOf(b, d, ns), NEW n \in Nodes,
         NEW x, x = ns[n], x \in BusyStates, IsInCall(x)
  PROVE  \E e : /\ Sqlite!Run(St(d, x.got), SqlSection(x.call)) = St(e, x.got)
                /\ Applied(b, d, ns, x, e, x.got)
<1> DEFINE R == d.rows
           c == x.call
<1>1. SqlTypes(d) /\ b # "redis" /\ b \in {"sqlite", "postgres", "redis"}
  BY DEF InvOf, Types
<1>2. d = Db(R, d.shape, d.version) /\ SqlRows(R) /\ UsageWhole(R)
  BY <1>1 DEF SqlTypes, Db
<1>3. c \in C!Calls /\ c.op # "open"
  BY BusyFields DEF IsInCall
<1>4. d.version = 4
  BY <1>1 DEF InvOf, SqlInv, NoneOpened, IsOpened
<1>5. PICK R2 : /\ Sqlite!Run(St(Db(R, d.shape, d.version), x.got), SqlSection(c))
                     = St(Db(R2, d.shape, d.version), x.got)
                /\ SqlAfter(R, c, x.had, R2)
  <2>1. SqlTakes(R, c)
    BY <1>2, <1>3, SqlCall
  <2>2. SqlTakesAs(R, c, d.shape, d.version, x.got, x.had)
    BY <2>1, SqlCallTakes
  <2> QED BY <2>2 DEF SqlTakesAs
<1> DEFINE e == Db(R2, d.shape, d.version)
<1>6. e.rows = R2 /\ e.shape = d.shape /\ e.version = d.version
      /\ e = [rows |-> e.rows, shape |-> e.shape, version |-> e.version]
  BY DEF Db
<1>7. SqlRows(R2) /\ UsageWhole(R2) /\ SqlContents(R2) \in C!Effects(SqlContents(R), c, x.had)
  BY <1>5 DEF SqlAfter
<1>8. ViewOf(b, e) = SqlContents(R2) /\ ViewOf(b, d) = SqlContents(R)
  BY <1>1, <1>2, SqlViewIs DEF ViewOf
<1> HIDE DEF e
<1>9. StoreTypes(b, e)
  BY <1>1, <1>6, <1>7 DEF StoreTypes, SqlTypes
<1>10. x.got \in Reads /\ Nearer(b, d, e)
  BY <1>1, <1>6, BusyFields DEF Nearer
<1>11. SqlInv(b, e, ns)
  BY <1>1, <1>4, <1>6 DEF SqlInv, InvOf, Sqlite!Current
<1>12. RedisInv(b, e, ns)
  BY <1>1 DEF RedisInv
<1>13. Sections(b, c, x.got) = 1 /\ x.pc = 1
  <2>1. Sections(b, c, x.got) = 1
    BY <1>1, <1>3 DEF Sections
  <2>2. CallInv(b, ViewOf(b, d), x) /\ IsBusy(x)
    BY DEF InvOf, ProcessInv, IsInCall
  <2> QED BY <2>1, <2>2 DEF CallInv
<1>14. ASSUME NEW z, Told(b, x, x.got, ViewOf(b, e), z) PROVE ProcessInv(b, e, ns, z)
  <2>1. CallInv(b, ViewOf(b, e), z)
    BY <1>1, <1>13, <1>14, ToldCall
  <2>2. ~IsOpening(z)
    BY <1>3, <1>14 DEF Told, IsOpening
  <2> QED BY <1>1, <2>1, <2>2 DEF ProcessInv, DeleteInv, SqlOpening, RedisOpening
<1>15. Last(b, x) /\ ~IsOpening(x)
  BY <1>3, <1>13 DEF Last, IsOpening
<1>16. Applied(b, d, ns, x, e, x.got)
  BY <1>7, <1>8, <1>9, <1>10, <1>11, <1>12, <1>14, <1>15 DEF Applied
<1> QED BY <1>2, <1>5, <1>16 DEF e

\* The last section of a call on Redis keeps the invariant.
LEMMA AppliedTaken ==
  ASSUME NEW d, NEW ns, NEW n \in Nodes, NEW x, x = ns[n], x \in BusyStates, IsInCall(x),
         InvOf("redis", d, ns), Last("redis", x), NEW e, RedisAfter(d, x.call, x.had, e)
  PROVE  Applied("redis", d, ns, x, e, x.got)
<1>1. x.call \in C!Calls /\ x.call.op # "open" /\ x.got \in Reads /\ x.pc \in Nat
  BY BusyFields DEF IsInCall
<1>2. IsOpened(ns[n]) /\ ~NoneOpened(ns) /\ ~Foreign(d)
  BY DEF InvOf, RedisInv, Virgin, NoneOpened, IsOpened
<1>3. /\ RedisTypes(e) /\ e[Redis!SCHEMA_KEY] = d[Redis!SCHEMA_KEY] /\ e[Redis!OLD] = d[Redis!OLD]
      /\ RedisContents(e) \in C!Effects(RedisContents(d), x.call, x.had)
  BY DEF RedisAfter
<1>4. ViewOf("redis", e) = RedisContents(e) /\ ViewOf("redis", d) = RedisContents(d)
  BY RedisViewIs DEF ViewOf
<1>5. Nearer("redis", d, e) /\ ~Foreign(e)
  BY <1>2, <1>3 DEF Nearer, Foreign
<1>6. SqlInv("redis", e, ns) /\ RedisInv("redis", e, ns)
  BY <1>3, <1>5 DEF SqlInv, RedisInv, InvOf
<1>7. ProcessInv("redis", d, ns, x) /\ IsBusy(x)
  BY DEF InvOf, IsInCall
<1>8. ASSUME NEW z, Told("redis", x, x.got, ViewOf("redis", e), z) PROVE ProcessInv("redis", e, ns, z)
  <2>1. CallInv("redis", ViewOf("redis", e), z)
    BY <1>7, <1>8, ToldCall DEF ProcessInv, CallInv
  <2>2. ~IsOpening(z) /\ (IsInCall(z) => IsInCall(x))
    BY <1>1, <1>8 DEF Told, IsOpening, IsInCall
  <2>3. DeleteInv("redis", z)
    <3>1. CASE x.call.op = "delete_key"
      <4>1. x.pc = 3
        BY <1>1, <3>1 DEF Last, Sections
      <4> QED BY <1>7, <1>8, <2>2, <3>1, <4>1 DEF ProcessInv, DeleteInv, Told
    <3>2. CASE x.call.op # "delete_key"
      BY <1>8, <3>2 DEF DeleteInv, Told
    <3> QED BY <3>1, <3>2
  <2> QED BY <2>1, <2>2, <2>3 DEF ProcessInv, SqlOpening, RedisOpening
<1>9. ~IsOpening(x)
  BY <1>1 DEF IsOpening
<1> QED BY <1>1, <1>3, <1>4, <1>5, <1>6, <1>8, <1>9 DEF Applied, StoreTypes

\* What the invariant says of a call on Redis.
LEMMA RedisCallHas ==
  ASSUME NEW d, NEW ns, NEW n \in Nodes, NEW x, x = ns[n], x \in BusyStates, IsInCall(x),
         InvOf("redis", d, ns)
  PROVE  /\ x.call \in C!Calls /\ x.call.op # "open" /\ x.got \in Reads /\ x.pc \in Nat
         /\ RedisTypes(d) /\ IsBusy(x)
         /\ x.pc \in 1..Sections("redis", x.call, x.got)
         /\ Sections("redis", x.call, x.got) = IF x.call.op = "delete_key" THEN 3 ELSE 1
         /\ CallInv("redis", ViewOf("redis", d), x) /\ DeleteInv("redis", x)
<1>1. x.call \in C!Calls /\ x.call.op # "open" /\ x.got \in Reads /\ x.pc \in Nat /\ IsBusy(x)
  BY BusyFields DEF IsInCall
<1>2. RedisTypes(d) /\ CallInv("redis", ViewOf("redis", d), x) /\ DeleteInv("redis", x)
  BY DEF InvOf, Types, ProcessInv
<1>3. x.pc \in 1..Sections("redis", x.call, x.got)
  BY <1>1, <1>2 DEF CallInv
<1>4. Sections("redis", x.call, x.got) = IF x.call.op = "delete_key" THEN 3 ELSE 1
  BY <1>1 DEF Sections
<1> QED BY <1>1, <1>2, <1>3, <1>4

\* The last section of a call on Redis has its effect.
LEMMA RedisLastTakes ==
  ASSUME NEW d, NEW ns, NEW n \in Nodes, NEW x, x = ns[n], x \in BusyStates, IsInCall(x),
         InvOf("redis", d, ns), Last("redis", x)
  PROVE  RedisTakes(d, x.call, x.got, x.had, Redis!Program(x.call, x.got)[x.pc].cmds)
<1> DEFINE c == x.call
           p == Redis!Program(c, x.got)
<1>1. c \in C!Calls /\ RedisTypes(d) /\ DeleteInv("redis", x)
      /\ x.pc = (IF c.op = "delete_key" THEN 3 ELSE 1)
  BY RedisCallHas DEF Last
<1>2. CASE c.op = "delete_key"
  <2> DEFINE names == x.got.names
             ids == Redis!Members(x.got.ids)
             had == x.had
             g == x.got
  <2>1. p[3].cmds = RedisDeletion(c, names, ids)
    BY <1>2, RedisDeletes
  <2>2. /\ names \subseteq {Redis!USAGE(c.key)} /\ ids \subseteq {c.key}
        /\ "usage" \in had => names = {Redis!USAGE(c.key)}
        /\ "credential" \in had => ids = {c.key}
    BY <1>1, <1>2 DEF DeleteInv
  <2>3. x.pc = 3
    BY <1>1, <1>2
  <2> HIDE DEF c, names, ids, had, g
  <2>4. RedisTakes(d, c, g, had, RedisDeletion(c, names, ids))
    BY <1>1, <1>2, <2>2, RedisDelete DEF RedisDeletion
  <2> QED BY <2>1, <2>3, <2>4 DEF had, g, c
<1>3. CASE c.op # "delete_key"
  <2>1. RedisWhole(p, c)
    BY <1>1, <1>3, RedisPrograms
  <2>2. x.pc = 1
    BY <1>1, <1>3
  <2> QED BY <1>1, <2>1, <2>2 DEF RedisWhole
<1> QED BY <1>2, <1>3

\* The last section of a call on Redis runs and takes its effect.
LEMMA RedisLastApplies ==
  ASSUME NEW d, NEW ns, NEW n \in Nodes, NEW x, x = ns[n], x \in BusyStates, IsInCall(x),
         InvOf("redis", d, ns), Last("redis", x)
  PROVE  \E e : /\ Redis!Run(St(d, x.got), Redis!Program(x.call, x.got)[x.pc].cmds) = St(e, x.got)
                /\ Applied("redis", d, ns, x, e, x.got)
<1>1. PICK e : /\ Redis!Run(St(d, x.got), Redis!Program(x.call, x.got)[x.pc].cmds) = St(e, x.got)
               /\ RedisAfter(d, x.call, x.had, e)
  BY RedisLastTakes DEF RedisTakes
<1>2. Applied("redis", d, ns, x, e, x.got)
  BY <1>1, AppliedTaken
<1> QED BY <1>1, <1>2

\* What a deletion reads is there when it has found it all along.
LEMMA DeletionFinds ==
  ASSUME NEW d, IdsTypes(d), NEW c, c.op = "delete_key", c.key \in Keys
  PROVE  /\ Present(d, {Redis!USAGE(c.key)}) \subseteq {Redis!USAGE(c.key)}
         /\ Redis!Members(d[Redis!AWSCRED_IDS(c.key)]) \subseteq {c.key}
         /\ "usage" \in C!Found(ViewOf("redis", d), c) =>
              Present(d, {Redis!USAGE(c.key)}) = {Redis!USAGE(c.key)}
         /\ "credential" \in C!Found(ViewOf("redis", d), c) =>
              Redis!Members(d[Redis!AWSCRED_IDS(c.key)]) = {c.key}
<1> DEFINE k == c.key
           v == ViewOf("redis", d)
<1>1. /\ v.usage[k] # Nil => d[Redis!USAGE(k)] # Nil
      /\ k \in v.listed <=> k \in Redis!Members(d[Redis!AWSCRED_IDS(k)])
  <2>1. v.usage[k] = Redis!Usage(d, k) /\ v.listed = Redis!cred_ids(d)
    BY DEF ViewOf, Redis!View
  <2> HIDE DEF v
  <2>2. v.usage[k] # Nil => d[Redis!USAGE(k)] # Nil
    BY <2>1 DEF Redis!Usage
  <2> QED BY <2>1, <2>2 DEF Redis!cred_ids
<1>2. d[Redis!AWSCRED_IDS(k)] \in {Nil, {k}}
  BY DEF IdsTypes
<1> HIDE DEF v
<1>3. /\ "usage" \in C!Found(v, c) => d[Redis!USAGE(k)] # Nil
      /\ "credential" \in C!Found(v, c) => k \in Redis!Members(d[Redis!AWSCRED_IDS(k)])
  BY <1>1 DEF C!Found
<1>4. Redis!Members(d[Redis!AWSCRED_IDS(k)]) \subseteq {k}
  BY <1>2 DEF Redis!Members
<1> QED BY <1>3, <1>4 DEF Present, v

\* The sections of a deletion that read.
LEMMA RedisReadApplies ==
  ASSUME NEW d, NEW ns, NEW n \in Nodes, NEW x, x = ns[n], x \in BusyStates, IsInCall(x),
         InvOf("redis", d, ns), ~Last("redis", x)
  PROVE  \E g : /\ Redis!Run(St(d, x.got), Redis!Program(x.call, x.got)[x.pc].cmds) = St(d, g)
                /\ Applied("redis", d, ns, x, d, g)
<1> DEFINE c == x.call
           k == c.key
           m == x.got.marker
           l == x.got.legacy
           s == x.got.names
           i == x.got.ids
           p == Redis!Program(c, x.got)
<1>1. /\ c \in C!Calls /\ c.op = "delete_key" /\ x.got \in Reads /\ x.pc \in {1, 2}
      /\ RedisTypes(d) /\ IsBusy(x) /\ DeleteInv("redis", x)
  BY RedisCallHas DEF Last
<1>2. k \in Keys /\ IdsTypes(d)
  BY <1>1, CallsByOp DEF RedisTypes
<1>3. /\ x.got = Got(m, l, s, i) /\ m \in {Nil, 0, 3, 4}
      /\ l \in (SUBSET {"virtual_keys"}) \cup (SUBSET Redis!Names)
      /\ s \in SUBSET Redis!Names /\ i \in {Nil} \cup SUBSET Keys
  BY <1>1, GotIs
<1>4. /\ p[1].cmds = Only(Redis!SCAN({Redis!USAGE(k)}, "names"))
      /\ p[2].cmds = Only(Redis!GET(Redis!AWSCRED_IDS(k), "ids"))
  BY <1>1, RedisDeletes DEF Only
<1> DEFINE s2 == Present(d, {Redis!USAGE(k)})
           i2 == d[Redis!AWSCRED_IDS(k)]
           g == IF x.pc = 1 THEN Got(m, l, s2, i) ELSE Got(m, l, s, i2)
<1>5. /\ s2 \subseteq {Redis!USAGE(k)} /\ Redis!Members(i2) \subseteq {k}
      /\ "usage" \in C!Found(ViewOf("redis", d), c) => s2 = {Redis!USAGE(k)}
      /\ "credential" \in C!Found(ViewOf("redis", d), c) => Redis!Members(i2) = {k}
  BY <1>1, <1>2, DeletionFinds
<1>6. s2 \in SUBSET Redis!Names /\ i2 \in {Nil} \cup SUBSET Keys
  <2>1. Redis!USAGE(k) \in Redis!Names
    BY <1>2, NamesIn
  <2>2. i2 \in {Nil, {k}}
    BY <1>2 DEF IdsTypes
  <2> HIDE DEF s2, i2
  <2> QED BY <1>2, <1>5, <2>1, <2>2
<1> HIDE DEF s2, i2, m, l, s, i, k, c
<1>7. Redis!Run(St(d, x.got), p[x.pc].cmds) = St(d, g)
  <2>a. Redis!Run(St(d, Got(m, l, s, i)), Only(Redis!SCAN({Redis!USAGE(k)}, "names")))
          = St(d, Got(m, l, Present(d, {Redis!USAGE(k)}), i))
    BY RedisRead
  <2>b. Redis!Run(St(d, Got(m, l, s, i)), Only(Redis!GET(Redis!AWSCRED_IDS(k), "ids")))
          = St(d, Got(m, l, s, d[Redis!AWSCRED_IDS(k)]))
    BY RedisRead
  <2>1. CASE x.pc = 1
    BY <1>3, <1>4, <2>1, <2>a DEF s2
  <2>2. CASE x.pc = 2
    BY <1>3, <1>4, <2>2, <2>b DEF i2
  <2> QED BY <1>1, <2>1, <2>2
<1>8. g \in Reads
  BY <1>3, <1>6, GotRange
<1>9. /\ g.names = (IF x.pc = 1 THEN s2 ELSE s) /\ g.ids = (IF x.pc = 1 THEN i ELSE i2)
  BY GotFields
<1>10. s = x.got.names /\ i = x.got.ids /\ c = x.call /\ k = x.call.key
  BY DEF s, i, c, k
<1> HIDE DEF g
<1>11. ASSUME NEW z, Told("redis", x, g, ViewOf("redis", d), z) PROVE ProcessInv("redis", d, ns, z)
  <2>1. CallInv("redis", ViewOf("redis", d), z)
    <3>1. Sections("redis", x.call, g) = 3
      BY <1>1, <1>10 DEF Sections
    <3> QED BY <1>1, <1>11, <3>1, ToldCall
  <2>2. ~IsOpening(z)
    BY <1>1, <1>10, <1>11 DEF Told, IsOpening
  <2>3. /\ z.at = "told" /\ z.call = c /\ z.pc = x.pc /\ z.got = g /\ z.had \subseteq x.had
        /\ z.had \subseteq C!Found(ViewOf("redis", d), c)
    BY <1>10, <1>11 DEF Told
  <2>4. DeleteInv("redis", z)
    BY <1>1, <1>5, <1>9, <1>10, <2>3 DEF DeleteInv
  <2> QED BY <2>1, <2>2, <2>4 DEF ProcessInv, SqlOpening, RedisOpening
<1>12. Applied("redis", d, ns, x, d, g)
  <2>1. StoreTypes("redis", d) /\ SqlInv("redis", d, ns) /\ RedisInv("redis", d, ns)
    BY <1>1 DEF StoreTypes, InvOf
  <2>2. ~IsOpening(x)
    BY <1>1, <1>10 DEF IsOpening
  <2> QED BY <1>8, <1>11, <2>1, <2>2, NearerSame DEF Applied
<1> QED BY <1>7, <1>12 DEF c

\* A section of an opening of a SQL database leaves the rows as they are.
LEMMA SqlOpeningStep ==
  ASSUME NEW b \in {"sqlite", "postgres"}, NEW d, NEW ns, InvOf(b, d, ns), NEW n \in Nodes,
         NEW x, x = ns[n], x \in BusyStates, IsOpening(x), x.at = "ask", NEW e, NEW g, NEW l, NEW s,
         NEW i, e.rows = d.rows, e.shape \in [keys : Shapes, others : Shapes],
         e = [rows |-> e.rows, shape |-> e.shape, version |-> e.version],
         e.version = (IF x.pc = Sections(b, x.call, x.got) THEN 4 ELSE d.version),
         g = Got(d.version, l, s, i), l \in SUBSET {"virtual_keys"}, l # {} => d.version # 4,
         s \in SUBSET Redis!Names, i \in {Nil} \cup SUBSET Keys,
         b = "postgres" => e.shape.keys = e.shape.others /\ (e.version = 4 => Sqlite!Current(e))
  PROVE  Applied(b, d, ns, x, e, g)
<1>1. SqlTypes(d) /\ b # "redis" /\ b \in {"sqlite", "postgres", "redis"} /\ SqlInv(b, d, ns)
      /\ ProcessInv(b, d, ns, x)
  BY DEF InvOf, Types
<1>2. d.version \in {0, 3, 4}
  BY <1>1 DEF SqlTypes
<1>3. StoreTypes(b, e)
  BY <1>1, <1>2 DEF StoreTypes, SqlTypes
<1>4. g \in Reads /\ g.marker = d.version /\ g.legacy = l
  BY <1>2, GotRange, GotFields
<1>5. SqlInv(b, e, ns) /\ RedisInv(b, e, ns)
  BY <1>1 DEF SqlInv, RedisInv
<1>6. ViewOf(b, e) = ViewOf(b, d)
  <2>1. d = Db(d.rows, d.shape, d.version) /\ e = Db(e.rows, e.shape, e.version)
    BY <1>1 DEF SqlTypes, Db
  <2>2. Sqlite!View(Db(d.rows, d.shape, d.version)) = SqlContents(d.rows)
        /\ Sqlite!View(Db(e.rows, e.shape, e.version)) = SqlContents(e.rows)
    BY SqlViewIs
  <2> QED BY <1>1, <2>1, <2>2 DEF ViewOf
<1>7. Sections(b, x.call, g) = Sections(b, x.call, x.got)
  BY <1>1 DEF Sections, IsOpening
<1>8. x.pc \in 1..Sections(b, x.call, g) /\ x.phase = "invoked" /\ IsBusy(x)
  <2>1. IsBusy(x)
    BY DEF IsOpening
  <2>2. x.phase # "taken"
    BY <1>1 DEF ProcessInv, SqlOpening
  <2> QED BY <1>1, <1>7, <2>1, <2>2, BusyFields DEF ProcessInv, CallInv
<1>9. ASSUME NEW z, Told(b, x, g, ViewOf(b, e), z) PROVE ProcessInv(b, e, ns, z)
  <2>1. CallInv(b, ViewOf(b, e), z) /\ IsBusy(z)
    BY <1>1, <1>8, <1>9, ToldCall
  <2>2. IsOpening(z) /\ ~IsInCall(z)
    BY <1>9, <2>1 DEF Told, IsOpening, IsInCall
  <2>3. /\ z.at = "told" /\ z.call = x.call /\ z.pc = x.pc /\ z.got = g
        /\ z.phase = IF x.pc = Sections(b, x.call, g) THEN "taken" ELSE "invoked"
    BY <1>8, <1>9 DEF Told
  <2>4. SqlOpening(b, e, z)
    BY <1>4, <1>7, <2>3 DEF SqlOpening, Last
  <2> QED BY <1>1, <2>1, <2>2, <2>4 DEF ProcessInv, DeleteInv, RedisOpening
<1>10. ~IsInCall(x)
  BY DEF IsOpening, IsInCall
<1> QED BY <1>3, <1>4, <1>5, <1>6, <1>9, <1>10 DEF Applied

\* What a section of an opening on SQL leaves.
LEMMA OpensAs ==
  ASSUME NEW R, NEW v, NEW pc, NEW last, NEW st, SqlOpens(R, v, pc, last, st)
  PROVE  \E e, g, l, s, i :
           /\ st = St(e, g)
           /\ e.rows = R /\ e.shape \in [keys : Shapes, others : Shapes]
           /\ e = [rows |-> e.rows, shape |-> e.shape, version |-> e.version]
           /\ e.version = (IF pc = last THEN 4 ELSE v)
           /\ g = Got(v, l, s, i) /\ l \in SUBSET {"virtual_keys"} /\ (l # {} => v # 4)
           /\ s \in SUBSET Redis!Names /\ i \in {Nil} \cup SUBSET Keys
<1>1. PICK a, b, w, l, s, i :
        /\ st = St(Db(R, Shape(a, b), w), Got(v, l, s, i))
        /\ a \in Shapes /\ b \in Shapes
        /\ w = IF pc = last THEN 4 ELSE v
        /\ l \in SUBSET {"virtual_keys"}
        /\ l # {} => v # 4
        /\ s \in SUBSET Redis!Names /\ i \in {Nil} \cup SUBSET Keys
  BY DEF SqlOpens
<1> DEFINE e == Db(R, Shape(a, b), w)
           g == Got(v, l, s, i)
<1>2. /\ e.rows = R /\ e.shape = Shape(a, b) /\ e.version = w
      /\ e = [rows |-> e.rows, shape |-> e.shape, version |-> e.version]
  BY DEF Db
<1>3. Shape(a, b) \in [keys : Shapes, others : Shapes]
  BY <1>1 DEF Shape
<1>4. st = St(e, g) /\ g = Got(v, l, s, i)
  BY <1>1
<1> HIDE DEF e, g
<1> QED BY <1>1, <1>2, <1>3, <1>4

\* What the sections of an opening find.
SqlOpeningFinds(b, d, x) ==
  /\ d = Db(d.rows, Shape(d.shape.keys, d.shape.others), d.version)
  /\ d.shape.keys \in Shapes /\ d.shape.others \in Shapes /\ d.version \in {0, 3, 4}
  /\ x.got = Got(x.got.marker, x.got.legacy, x.got.names, x.got.ids)
  /\ x.got.legacy \in SUBSET {"virtual_keys"}
  /\ x.got.names \in SUBSET Redis!Names /\ x.got.ids \in {Nil} \cup SUBSET Keys
  /\ Sections(b, x.call, x.got) = (IF b = "sqlite" THEN 6 ELSE 2)
  /\ x.pc \in 1..Sections(b, x.call, x.got)
  /\ x.pc > 1 => x.got.marker = d.version
  /\ x.got.legacy # {} => x.pc > 1 /\ d.version # 4
  /\ d.version # 4 => d.rows = Sqlite!NoRows
  /\ b = "postgres" => d.shape.keys = d.shape.others /\ (d.version = 4 => d.shape.keys = "new")

\* What the invariant says of an opening on SQL.
LEMMA SqlOpeningHas ==
  ASSUME NEW b \in {"sqlite", "postgres"}, NEW d, NEW ns, InvOf(b, d, ns), NEW n \in Nodes,
         NEW x, x = ns[n], x \in BusyStates, IsOpening(x), x.at = "ask"
  PROVE  SqlOpeningFinds(b, d, x)
<1>1. SqlTypes(d) /\ b # "redis" /\ SqlInv(b, d, ns) /\ CallInv(b, ViewOf(b, d), x)
      /\ SqlOpening(b, d, x) /\ IsBusy(x) /\ x.call.op = "open"
  BY DEF InvOf, Types, ProcessInv, IsOpening
<1>2. d.shape \in [keys : Shapes, others : Shapes] /\ d.version \in {0, 3, 4}
      /\ d = Db(d.rows, d.shape, d.version)
  BY <1>1 DEF SqlTypes, Db
<1>3. d.shape = Shape(d.shape.keys, d.shape.others) /\ d.shape.keys \in Shapes /\ d.shape.others \in Shapes
  BY <1>2 DEF Shape
<1>4. x.got \in Reads /\ x.pc \in Nat /\ x.phase \in {"invoked", "taken"}
  BY BusyFields
<1>5. /\ x.got = Got(x.got.marker, x.got.legacy, x.got.names, x.got.ids)
      /\ x.got.names \in SUBSET Redis!Names /\ x.got.ids \in {Nil} \cup SUBSET Keys
  BY <1>4, GotIs
<1>6. Sections(b, x.call, x.got) = (IF b = "sqlite" THEN 6 ELSE 2) /\ x.pc \in 1..Sections(b, x.call, x.got)
  <2>1. Sections(b, x.call, x.got) = (IF b = "sqlite" THEN 6 ELSE 2)
    BY <1>1 DEF Sections
  <2> QED BY <1>1, <2>1 DEF CallInv
<1>7. /\ x.got.legacy \in SUBSET {"virtual_keys"}
      /\ x.pc > 1 => x.got.marker = d.version
      /\ x.got.legacy # {} => x.pc > 1 /\ d.version # 4
  BY <1>1, <1>4 DEF SqlOpening
<1>8. /\ d.version # 4 => d.rows = Sqlite!NoRows
      /\ b = "postgres" => d.shape.keys = d.shape.others /\ (d.version = 4 => d.shape.keys = "new")
  BY <1>1 DEF SqlInv, Sqlite!Current
<1> QED BY <1>2, <1>3, <1>5, <1>6, <1>7, <1>8 DEF SqlOpeningFinds

\* A section of an opening on SQLite keeps the invariant, ...
LEMMA SqliteOpeningApplies ==
  ASSUME NEW d, NEW ns, InvOf("sqlite", d, ns), NEW n \in Nodes,
         NEW x, x = ns[n], x \in BusyStates, IsOpening(x), x.at = "ask"
  PROVE  \E e, g : /\ Sqlite!Run(St(d, x.got), Sqlite!migrate[x.pc]) = St(e, g)
                   /\ Applied("sqlite", d, ns, x, e, g)
<1> DEFINE R == d.rows
           a == d.shape.keys
           b == d.shape.others
           v == d.version
           m == x.got.marker
           l == x.got.legacy
           s == x.got.names
           i == x.got.ids
           st == Sqlite!Run(St(Db(R, Shape(a, b), v), Got(m, l, s, i)), Sqlite!migrate[x.pc])
<1>1. /\ d = Db(R, Shape(a, b), v) /\ a \in Shapes /\ b \in Shapes /\ v \in {0, 3, 4}
      /\ x.got = Got(m, l, s, i) /\ l \in SUBSET {"virtual_keys"}
      /\ s \in SUBSET Redis!Names /\ i \in {Nil} \cup SUBSET Keys
      /\ Sections("sqlite", x.call, x.got) = 6 /\ x.pc \in 1..6
      /\ x.pc > 1 => m = v
      /\ l # {} => x.pc > 1 /\ v # 4
      /\ v # 4 => R = Sqlite!NoRows
  <2>1. SqlOpeningFinds("sqlite", d, x)
    BY SqlOpeningHas
  <2> QED BY <2>1 DEF SqlOpeningFinds
<1>2. SqlOpens(R, v, x.pc, 6, st)
  <2> HIDE DEF R, a, b, v, m, l, s, i
  <2>1. /\ a \in Shapes /\ b \in Shapes /\ v \in {0, 3, 4} /\ l \in SUBSET {"virtual_keys"}
        /\ s \in SUBSET Redis!Names /\ i \in {Nil} \cup SUBSET Keys /\ x.pc \in 1..6
        /\ x.pc > 1 => m = v
        /\ l # {} => x.pc > 1 /\ v # 4
        /\ v # 4 => R = Sqlite!NoRows
    BY <1>1
  <2> DEFINE pc == x.pc
  <2> HIDE DEF pc
  <2>2. /\ pc \in 1..6
        /\ pc > 1 => m = v
        /\ l # {} => pc > 1 /\ v # 4
    BY <2>1 DEF pc
  <2>3. SqlOpens(R, v, pc, 6, Sqlite!Run(St(Db(R, Shape(a, b), v), Got(m, l, s, i)), Sqlite!migrate[pc]))
    BY ONLY <2>1, <2>2, SqliteOpens
  <2> QED BY <2>3 DEF pc
<1>3. Sqlite!Run(St(d, x.got), Sqlite!migrate[x.pc]) = st
  BY <1>1
<1> HIDE DEF st
<1>4. PICK e, g, l2, s2, i2 :
        /\ st = St(e, g)
        /\ e.rows = R /\ e.shape \in [keys : Shapes, others : Shapes]
        /\ e = [rows |-> e.rows, shape |-> e.shape, version |-> e.version]
        /\ e.version = (IF x.pc = 6 THEN 4 ELSE v)
        /\ g = Got(v, l2, s2, i2) /\ l2 \in SUBSET {"virtual_keys"} /\ (l2 # {} => v # 4)
        /\ s2 \in SUBSET Redis!Names /\ i2 \in {Nil} \cup SUBSET Keys
  BY <1>2, OpensAs
<1>5. Applied("sqlite", d, ns, x, e, g)
  BY <1>1, <1>4, SqlOpeningStep
<1> QED BY <1>3, <1>4, <1>5

\* ... and so does one on PostgreSQL.
LEMMA PostgresOpeningApplies ==
  ASSUME NEW d, NEW ns, InvOf("postgres", d, ns), NEW n \in Nodes,
         NEW x, x = ns[n], x \in BusyStates, IsOpening(x), x.at = "ask"
  PROVE  \E e, g : /\ Postgres!Run(St(d, x.got), Postgres!migrate[x.pc]) = St(e, g)
                   /\ Applied("postgres", d, ns, x, e, g)
<1> DEFINE R == d.rows
           a == d.shape.keys
           v == d.version
           m == x.got.marker
           l == x.got.legacy
           s == x.got.names
           i == x.got.ids
           st == Postgres!Run(St(Db(R, Shape(a, a), v), Got(m, l, s, i)), Postgres!migrate[x.pc])
<1>1. /\ d = Db(R, Shape(a, a), v) /\ a \in Shapes /\ v \in {0, 3, 4}
      /\ x.got = Got(m, l, s, i) /\ l \in SUBSET {"virtual_keys"}
      /\ s \in SUBSET Redis!Names /\ i \in {Nil} \cup SUBSET Keys
      /\ Sections("postgres", x.call, x.got) = 2 /\ x.pc \in 1..2
      /\ x.pc > 1 => m = v
      /\ l # {} => x.pc > 1 /\ v # 4
      /\ v # 4 => R = Sqlite!NoRows
      /\ v = 4 => a = "new"
  <2>1. SqlOpeningFinds("postgres", d, x)
    BY SqlOpeningHas
  <2> QED BY <2>1 DEF SqlOpeningFinds
<1>2. SqlOpens(R, v, x.pc, 2, st) /\ st.db.shape = IF x.pc = 2 THEN Shape("new", "new") ELSE Shape(a, a)
  <2> HIDE DEF R, a, v, m, l, s, i
  <2> QED BY <1>1, PostgresOpens
<1>3. Postgres!Run(St(d, x.got), Postgres!migrate[x.pc]) = st
  BY <1>1
<1> HIDE DEF st
<1>4. PICK e, g, l2, s2, i2 :
        /\ st = St(e, g)
        /\ e.rows = R /\ e.shape \in [keys : Shapes, others : Shapes]
        /\ e = [rows |-> e.rows, shape |-> e.shape, version |-> e.version]
        /\ e.version = (IF x.pc = 2 THEN 4 ELSE v)
        /\ g = Got(v, l2, s2, i2) /\ l2 \in SUBSET {"virtual_keys"} /\ (l2 # {} => v # 4)
        /\ s2 \in SUBSET Redis!Names /\ i2 \in {Nil} \cup SUBSET Keys
  BY <1>2, OpensAs
<1>6. e.shape.keys = e.shape.others /\ (e.version = 4 => Sqlite!Current(e))
  <2>1. e.shape = IF x.pc = 2 THEN Shape("new", "new") ELSE Shape(a, a)
    BY <1>2, <1>4 DEF St
  <2>2. Shape(a, a).keys = a /\ Shape(a, a).others = a
    BY DEF Shape
  <2>3. e.version = 4 => e.shape = Shape("new", "new")
    BY <1>1, <1>4, <2>1
  <2> QED BY <2>1, <2>2, <2>3 DEF Shape, Sqlite!Current
<1>5. Applied("postgres", d, ns, x, e, g)
  BY <1>1, <1>4, <1>6, SqlOpeningStep
<1> QED BY <1>3, <1>4, <1>5

\* The marker and an older build's data are no part of what is read.
LEMMA LayoutUnread ==
  ASSUME NEW d, RedisTypes(d), NEW e, IsNames(e), OtherThan(d, e, {Redis!SCHEMA_KEY, Redis!OLD}),
         e[Redis!SCHEMA_KEY] \in {Nil, 3, 4}
  PROVE  RedisTypes(e) /\ ViewOf("redis", e) = ViewOf("redis", d)
<1> DEFINE xs == {Redis!SCHEMA_KEY, Redis!OLD}
<1>1. /\ SameAt(d, e, KeyNames) /\ SameAt(d, e, CredNames) /\ SameAt(d, e, IdsNames)
      /\ SameAt(d, e, UsageNames) /\ SameAt(d, e, MeteringNames)
  <2>1. /\ xs \cap KeyNames = {} /\ xs \cap CredNames = {} /\ xs \cap IdsNames = {}
        /\ xs \cap UsageNames = {} /\ xs \cap MeteringNames = {}
    BY NameFamilies
  <2> HIDE DEF xs
  <2>2. OtherThan(d, e, xs)
    BY DEF xs
  <2> QED BY <2>1, <2>2, OthersSame
<1>2. e[Redis!AUDIT_ZSET] = d[Redis!AUDIT_ZSET] /\ e[Redis!DENYLIST_INDEX] = d[Redis!DENYLIST_INDEX]
  <2>1. /\ Redis!AUDIT_ZSET \notin xs /\ Redis!DENYLIST_INDEX \notin xs
    BY NameParts
  <2> QED BY <2>1, NamesIn DEF OtherThan
<1>3. RedisTypes(e)
  BY <1>1, <1>2, SameTypes DEF RedisTypes, IsNames, AuditTypes, DenyTypes
<1>4. /\ RedisKeys(e) = RedisKeys(d) /\ Redis!list_aws_credentials(e) = Redis!list_aws_credentials(d)
      /\ Redis!cred_ids(e) = Redis!cred_ids(d) /\ RedisUsage(e) = RedisUsage(d)
      /\ RedisCounts(e) = RedisCounts(d)
  BY <1>1, SameReads, RedisTypesParts
<1>5. RedisContents(e) = RedisContents(d)
  BY <1>2, <1>4 DEF RedisContents
<1> QED BY <1>3, <1>5, RedisViewIs DEF ViewOf

\* What an opening of Redis knows after a section.
RedisTold(e, ns, g, pc) ==
  /\ g.marker = 3 \/ g.legacy # {} => Virgin(e, ns)
  /\ g.marker = 4 => ~Foreign(e)
  /\ pc = 1 => g.names = {} /\ g.marker # 0
  /\ pc < 3 => g.legacy = {}
  /\ pc > 1 => g.marker \in {Nil, 3}
  /\ pc > 1 /\ e[Redis!OLD] # Nil => Redis!OLD \in g.names
  /\ pc > 1 /\ ~Redis!Refuses(g) /\ (pc = RedisSections(g) \/ pc + 1 = RedisSections(g)) =>
       e[Redis!OLD] = Nil
  /\ pc = RedisSections(g) /\ ~Redis!Refuses(g) => ~Foreign(e)

\* What there is to show of a section of an opening on Redis.
LEMMA RedisOpeningStep ==
  ASSUME NEW d, NEW ns, InvOf("redis", d, ns), NEW n \in Nodes,
         NEW x, x = ns[n], x \in BusyStates, IsOpening(x), NEW e, NEW g \in Reads,
         RedisTypes(e), ViewOf("redis", e) = ViewOf("redis", d), RedisInv("redis", e, ns),
         x.pc \in 1..RedisSections(g), RedisTold(e, ns, g, x.pc)
  PROVE  Applied("redis", d, ns, x, e, g)
<1>1. x.call.op = "open" /\ ~IsInCall(x) /\ IsBusy(x) /\ x.pc \in Nat
  BY BusyFields DEF IsOpening, IsInCall
<1>2. StoreTypes("redis", e) /\ SqlInv("redis", e, ns)
  BY DEF StoreTypes, SqlInv
<1>3. Sections("redis", x.call, g) = RedisSections(g)
  BY <1>1 DEF Sections
<1>4. ASSUME NEW z, Told("redis", x, g, ViewOf("redis", e), z) PROVE ProcessInv("redis", e, ns, z)
  <2>1. CallInv("redis", ViewOf("redis", e), z) /\ IsBusy(z)
    BY <1>3, <1>4, ToldCall
  <2>2. z.at = "told" /\ z.call = x.call /\ z.pc = x.pc /\ z.got = g
    BY <1>4 DEF Told
  <2>3. ~IsInCall(z) /\ (Last("redis", z) <=> x.pc = RedisSections(g))
    BY <1>1, <1>3, <2>2 DEF IsInCall, Last
  <2>4. RedisOpening("redis", e, ns, z)
    BY <1>1, <2>2, <2>3 DEF RedisOpening, RedisTold
  <2> QED BY <2>1, <2>3, <2>4 DEF ProcessInv, DeleteInv, SqlOpening
<1> QED BY <1>1, <1>2, <1>4 DEF Applied

\* What a section of an opening of Redis finds.
RedisOpeningFinds(d, ns, x) ==
  /\ RedisTypes(d) /\ RedisInv("redis", d, ns) /\ RedisOpening("redis", d, ns, x)
  /\ x.call.op = "open" /\ x.got \in Reads /\ x.pc \in 1..RedisSections(x.got)
  /\ RedisSections(x.got) \in {1, 3, 4, 5}
  /\ Last("redis", x) <=> x.pc = RedisSections(x.got)
  /\ Redis!Program(x.call, x.got)[x.pc].cmds = RedisStep(x.got, x.pc)
  /\ 0 # Nil /\ 3 # Nil /\ 4 # Nil

\* What the invariant says of an opening on Redis.
LEMMA RedisOpeningHas ==
  ASSUME NEW d, NEW ns, InvOf("redis", d, ns), NEW n \in Nodes,
         NEW x, x = ns[n], x \in BusyStates, IsOpening(x)
  PROVE  RedisOpeningFinds(d, ns, x)
<1>1. RedisTypes(d) /\ RedisInv("redis", d, ns) /\ RedisOpening("redis", d, ns, x)
      /\ CallInv("redis", ViewOf("redis", d), x)
  BY DEF InvOf, Types, ProcessInv
<1>2. x.call.op = "open" /\ IsBusy(x) /\ x.got \in Reads
  BY BusyFields DEF IsOpening
<1>3. Sections("redis", x.call, x.got) = RedisSections(x.got)
  BY <1>2 DEF Sections
<1>4. x.pc \in 1..RedisSections(x.got) /\ (Last("redis", x) <=> x.pc = RedisSections(x.got))
  BY <1>1, <1>2, <1>3 DEF CallInv, Last
<1>5. Redis!Program(x.call, x.got)[x.pc].cmds = RedisStep(x.got, x.pc)
  <2>1. x.got.marker \in {Nil, 0, 3, 4}
    BY <1>2, GotIs
  <2> QED BY <1>2, <1>4, <2>1, RedisMigration
<1>6. RedisSections(x.got) \in {1, 3, 4, 5}
  BY DEF RedisSections
<1> QED BY <1>1, <1>2, <1>4, <1>5, <1>6, NilIsNone DEF RedisOpeningFinds

RedisOpens(d, ns, x) ==
  \E e, g : /\ Redis!Run(St(d, x.got), RedisStep(x.got, x.pc)) = St(e, g)
            /\ Applied("redis", d, ns, x, e, g)

\* The marker is read.
LEMMA RedisOpening1 ==
  ASSUME NEW d, NEW ns, InvOf("redis", d, ns), NEW n \in Nodes,
         NEW x, x = ns[n], x \in BusyStates, IsOpening(x), x.pc = 1
  PROVE  RedisOpens(d, ns, x)
<1> DEFINE m == x.got.marker
           l == x.got.legacy
           s == x.got.names
           i == x.got.ids
           m2 == d[Redis!SCHEMA_KEY]
           g == Got(m2, l, s, i)
<1>1. RedisOpeningFinds(d, ns, x)
  BY RedisOpeningHas
<1>2. RedisTypes(d) /\ RedisInv("redis", d, ns) /\ x.got \in Reads /\ s = {} /\ l = {}
      /\ 0 # Nil /\ 3 # Nil /\ 4 # Nil
  BY <1>1 DEF RedisOpeningFinds, RedisOpening
<1>3. m2 \in {Nil, 3, 4}
  BY <1>2 DEF RedisTypes
<1>4. /\ x.got = Got(m, l, s, i) /\ i \in {Nil} \cup SUBSET Keys
      /\ l \in (SUBSET {"virtual_keys"}) \cup (SUBSET Redis!Names) /\ s \in SUBSET Redis!Names
  BY <1>2, GotIs
<1>5. RedisStep(x.got, x.pc) = Only(Redis!GET(Redis!SCHEMA_KEY, "marker"))
  BY DEF RedisStep, Only
<1> HIDE DEF m, l, s, i
<1>6. Redis!Run(St(d, Got(m, l, s, i)), Only(Redis!GET(Redis!SCHEMA_KEY, "marker"))) = St(d, g)
  BY RedisRead
<1>7. g \in Reads /\ g.marker = m2 /\ g.names = {} /\ g.legacy = {}
  BY <1>2, <1>3, <1>4, GotRange, GotFields
<1> HIDE DEF g
<1>8. /\ m2 = 3 => Virgin(d, ns)
      /\ m2 = 4 => ~Foreign(d)
  BY <1>2 DEF RedisInv, Foreign
<1>9. RedisSections(g) \in {1, 3} /\ (RedisSections(g) = 1 <=> m2 = 4)
  BY <1>7 DEF RedisSections
<1>10. RedisTold(d, ns, g, x.pc)
  BY <1>2, <1>3, <1>7, <1>8, <1>9 DEF RedisTold
<1>11. Applied("redis", d, ns, x, d, g)
  BY <1>2, <1>7, <1>9, <1>10, RedisOpeningStep
<1> QED BY <1>4, <1>5, <1>6, <1>11 DEF RedisOpens

\* The names are listed.
LEMMA RedisOpening2 ==
  ASSUME NEW d, NEW ns, InvOf("redis", d, ns), NEW n \in Nodes,
         NEW x, x = ns[n], x \in BusyStates, IsOpening(x), x.pc = 2
  PROVE  RedisOpens(d, ns, x)
<1> DEFINE m == x.got.marker
           l == x.got.legacy
           s == x.got.names
           i == x.got.ids
           s2 == Present(d, Redis!Names)
           g == Got(m, l, s2, i)
<1>1. RedisOpeningFinds(d, ns, x)
  BY RedisOpeningHas
<1>2. RedisTypes(d) /\ RedisInv("redis", d, ns) /\ x.got \in Reads /\ l = {} /\ m \in {Nil, 3}
      /\ 0 # Nil /\ 3 # Nil /\ 4 # Nil /\ (m = 3 => Virgin(d, ns))
  BY <1>1 DEF RedisOpeningFinds, RedisOpening
<1>4. /\ x.got = Got(m, l, s, i) /\ i \in {Nil} \cup SUBSET Keys
      /\ l \in (SUBSET {"virtual_keys"}) \cup (SUBSET Redis!Names) /\ s \in SUBSET Redis!Names
  BY <1>2, GotIs
<1>5. RedisStep(x.got, x.pc) = Only(Redis!SCAN(Redis!Names, "names"))
  BY DEF RedisStep, Only
<1>3. s2 \in SUBSET Redis!Names /\ (d[Redis!OLD] # Nil => Redis!OLD \in s2)
  BY NamesIn DEF Present
<1> HIDE DEF m, l, s, i
<1>6. Redis!Run(St(d, Got(m, l, s, i)), Only(Redis!SCAN(Redis!Names, "names"))) = St(d, g)
  BY RedisRead
<1> HIDE DEF s2
<1>7. g \in Reads /\ g.marker = m /\ g.names = s2 /\ g.legacy = {}
  BY <1>2, <1>3, <1>4, GotRange, GotFields
<1> HIDE DEF g
<1>9. /\ RedisSections(g) \in {3, 4}
      /\ RedisSections(g) = 3 => s2 = {} \/ Redis!Refuses(g)
  BY <1>2, <1>7 DEF RedisSections, Redis!Refuses, Redis!Unmarked, Redis!namespace_is_legacy_shaped
<1>10. RedisTold(d, ns, g, x.pc)
  BY <1>2, <1>3, <1>7, <1>9 DEF RedisTold
<1>11. Applied("redis", d, ns, x, d, g)
  BY <1>2, <1>7, <1>9, <1>10, RedisOpeningStep
<1> QED BY <1>4, <1>5, <1>6, <1>11 DEF RedisOpens

\* The counters of the first release are looked for.
LEMMA RedisOpening3 ==
  ASSUME NEW d, NEW ns, InvOf("redis", d, ns), NEW n \in Nodes,
         NEW x, x = ns[n], x \in BusyStates, IsOpening(x), x.pc = 3,
         x.got.marker = Nil, x.got.names # {}
  PROVE  RedisOpens(d, ns, x)
<1> DEFINE m == x.got.marker
           l == x.got.legacy
           s == x.got.names
           i == x.got.ids
           l2 == LegacyIn(d, s)
           g == Got(m, l2, s, i)
<1>1. RedisOpeningFinds(d, ns, x)
  BY RedisOpeningHas
<1>2. RedisTypes(d) /\ RedisInv("redis", d, ns) /\ x.got \in Reads
      /\ 0 # Nil /\ 3 # Nil /\ 4 # Nil /\ (d[Redis!OLD] # Nil => Redis!OLD \in s)
  BY <1>1 DEF RedisOpeningFinds, RedisOpening
<1>4. /\ x.got = Got(m, l, s, i) /\ i \in {Nil} \cup SUBSET Keys /\ m = Nil /\ s # {}
      /\ s \in SUBSET Redis!Names
  BY <1>2, GotIs
<1>5. RedisStep(x.got, x.pc) = Only(Redis!HEXISTS)
  BY DEF RedisStep, Only
<1>3. l2 \in SUBSET Redis!Names /\ (l2 # {} => Virgin(d, ns))
  <2>1. l2 # {} => d[Redis!OLD] = "v1 usage"
    BY DEF LegacyIn, Redis!has_legacy
  <2>2. l2 # {} => Foreign(d)
    BY <2>1, NilAssumption DEF Foreign
  <2> QED BY <1>2, <1>4, <2>2 DEF RedisInv, LegacyIn
<1> HIDE DEF m, l, s, i
<1>6. Redis!Run(St(d, Got(m, l, s, i)), Only(Redis!HEXISTS)) = St(d, g)
  BY RedisRead
<1> HIDE DEF l2
<1>7. g \in Reads /\ g.marker = Nil /\ g.names = s /\ g.legacy = l2
  <2>a. m \in {Nil, 0, 3, 4}
    BY <1>4
  <2>b. l2 \in (SUBSET {"virtual_keys"}) \cup (SUBSET Redis!Names)
    BY <1>3
  <2>1. m \in {Nil, 0, 3, 4} /\ l2 \in (SUBSET {"virtual_keys"}) \cup (SUBSET Redis!Names)
    BY <2>a, <2>b
  <2>2. g \in Reads
    BY <1>4, <2>1, GotRange
  <2>3. g.marker = m /\ g.names = s /\ g.legacy = l2
    BY GotFields
  <2> QED BY <1>4, <2>2, <2>3
<1> HIDE DEF g
<1>9. /\ RedisSections(g) \in {3, 5}
      /\ RedisSections(g) = 3 => Redis!Refuses(g)
  BY <1>2, <1>4, <1>7 DEF RedisSections, Redis!Refuses, Redis!Unmarked, Redis!namespace_is_legacy_shaped
<1>10. RedisTold(d, ns, g, x.pc)
  BY <1>2, <1>3, <1>7, <1>9 DEF RedisTold
<1>11. Applied("redis", d, ns, x, d, g)
  BY <1>2, <1>7, <1>9, <1>10, RedisOpeningStep
<1> QED BY <1>4, <1>5, <1>6, <1>11 DEF RedisOpens

\* What another build has left is wiped.
LEMMA RedisOpeningWipes ==
  ASSUME NEW d, NEW ns, InvOf("redis", d, ns), NEW n \in Nodes,
         NEW x, x = ns[n], x \in BusyStates, IsOpening(x), x.pc > 2,
         ~(x.pc = 3 /\ x.got.marker = Nil /\ x.got.names # {}), x.pc < RedisSections(x.got)
  PROVE  RedisOpens(d, ns, x)
<1> DEFINE g == x.got
           s == x.got.names
           e == Cleared(d, s)
<1>1. RedisOpeningFinds(d, ns, x)
  BY RedisOpeningHas
<1>2. RedisTypes(d) /\ RedisInv("redis", d, ns) /\ g \in Reads /\ x.pc \in 1..RedisSections(g)
      /\ RedisOpening("redis", d, ns, x) /\ RedisSections(g) \in {1, 3, 4, 5}
      /\ 0 # Nil /\ 3 # Nil /\ 4 # Nil /\ (d[Redis!OLD] # Nil => Redis!OLD \in s)
      /\ g.marker \in {Nil, 3}
  BY <1>1 DEF RedisOpeningFinds, RedisOpening
<1>3. g.marker = 3 \/ g.legacy # {}
  BY <1>2 DEF RedisSections
<1>4. Virgin(d, ns)
  BY <1>2, <1>3 DEF RedisOpening
<1>5. RedisStep(g, x.pc) = <<Redis!DEL(s)>>
  BY <1>2 DEF RedisStep
<1>6. Redis!Run(St(d, g), <<Redis!DEL(s)>>) = St(e, g)
  <2>1. Redis!Exec(St(d, g), Redis!DEL(s)) = St(e, g)
    BY <1>2, ExecDEL, RedisTypesParts
  <2> HIDE DEF e, g, s
  <2> QED BY <2>1, RedisRun1
<1>7. IsNames(e) /\ \A y \in Redis!Names : e[y] = IF y \in s THEN Nil ELSE d[y]
  <2> HIDE DEF s
  <2> QED BY NamesCleared
<1> HIDE DEF e
<1>8. Virgin(e, ns)
  BY <1>4, <1>7 DEF Virgin
<1>9. e[Redis!OLD] = Nil /\ e[Redis!SCHEMA_KEY] \in {Nil, 3, 4}
  <2>1. d[Redis!SCHEMA_KEY] \in {Nil, 3, 4}
    BY <1>2 DEF RedisTypes
  <2> QED BY <1>2, <1>7, <2>1, NamesIn
<1>10. OtherThan(d, e, {Redis!SCHEMA_KEY, Redis!OLD})
  BY <1>4, <1>8 DEF Virgin, OtherThan
<1>11. RedisTypes(e) /\ ViewOf("redis", e) = ViewOf("redis", d)
  BY <1>2, <1>7, <1>9, <1>10, LayoutUnread
<1>12. RedisInv("redis", e, ns)
  BY <1>8, <1>9 DEF RedisInv
<1>13. RedisTold(e, ns, g, x.pc)
  BY <1>2, <1>8, <1>9 DEF RedisTold
<1>14. Applied("redis", d, ns, x, e, g)
  BY <1>2, <1>11, <1>12, <1>13, RedisOpeningStep
<1> QED BY <1>5, <1>6, <1>14 DEF RedisOpens

\* The name space is marked as this build's.
LEMMA RedisOpeningMarks ==
  ASSUME NEW d, NEW ns, InvOf("redis", d, ns), NEW n \in Nodes,
         NEW x, x = ns[n], x \in BusyStates, IsOpening(x), x.pc > 2,
         ~(x.pc = 3 /\ x.got.marker = Nil /\ x.got.names # {}), x.pc = RedisSections(x.got)
  PROVE  RedisOpens(d, ns, x)
<1> DEFINE g == x.got
           e == Changed(d, Redis!SCHEMA_KEY, 4)
<1>1. RedisOpeningFinds(d, ns, x)
  BY RedisOpeningHas
<1>2. RedisTypes(d) /\ RedisInv("redis", d, ns) /\ g \in Reads /\ x.pc \in 1..RedisSections(g)
      /\ RedisOpening("redis", d, ns, x) /\ RedisSections(g) \in {1, 3, 4, 5}
      /\ 0 # Nil /\ 3 # Nil /\ 4 # Nil /\ Last("redis", x)
      /\ g.marker \in {Nil, 3}
  BY <1>1 DEF RedisOpeningFinds, RedisOpening
<1>3. ~Redis!Refuses(g)
  BY <1>2 DEF RedisSections, Redis!Refuses, Redis!Unmarked, Redis!namespace_is_legacy_shaped
<1>4. d[Redis!OLD] = Nil
  BY <1>2, <1>3 DEF RedisOpening
<1>5. RedisStep(g, x.pc) = <<Redis!SET(Redis!SCHEMA_KEY, 4)>>
  BY <1>2 DEF RedisStep
<1>6. Redis!Run(St(d, g), <<Redis!SET(Redis!SCHEMA_KEY, 4)>>) = St(e, g)
  <2>1. Redis!Exec(St(d, g), Redis!SET(Redis!SCHEMA_KEY, 4)) = St(e, g)
    BY ExecSET
  <2> HIDE DEF e, g
  <2> QED BY <2>1, RedisRun1
<1>7. /\ IsNames(e) /\ e[Redis!SCHEMA_KEY] = 4
      /\ \A y \in Redis!Names : y # Redis!SCHEMA_KEY => e[y] = d[y]
  BY <1>2, NameChanged, NamesIn, RedisTypesParts
<1> HIDE DEF e
<1>8. Virgin(d, ns) => Virgin(e, ns)
  BY <1>7 DEF Virgin
<1>9. e[Redis!OLD] = Nil /\ ~Foreign(e)
  <2>1. Redis!OLD # Redis!SCHEMA_KEY
    BY NameParts
  <2>2. e[Redis!OLD] = Nil
    BY <1>4, <1>7, <2>1, NamesIn
  <2> QED BY <1>7, <2>2 DEF Foreign
<1>10. OtherThan(d, e, {Redis!SCHEMA_KEY, Redis!OLD})
  BY <1>7 DEF OtherThan
<1>11. RedisTypes(e) /\ ViewOf("redis", e) = ViewOf("redis", d)
  BY <1>2, <1>7, <1>10, LayoutUnread
<1>12. RedisInv("redis", e, ns)
  BY <1>9 DEF RedisInv
<1>13. RedisTold(e, ns, g, x.pc)
  <2>1. g.marker = 3 \/ g.legacy # {} => Virgin(d, ns)
    BY <1>2 DEF RedisOpening
  <2> QED BY <1>2, <1>8, <1>9, <2>1 DEF RedisTold
<1>14. Applied("redis", d, ns, x, e, g)
  BY <1>2, <1>11, <1>12, <1>13, RedisOpeningStep
<1> QED BY <1>5, <1>6, <1>14 DEF RedisOpens

\* A section of an opening on Redis keeps the invariant.
LEMMA RedisOpeningApplies ==
  ASSUME NEW d, NEW ns, InvOf("redis", d, ns), NEW n \in Nodes,
         NEW x, x = ns[n], x \in BusyStates, IsOpening(x)
  PROVE  \E e, g : /\ Redis!Run(St(d, x.got), Redis!Program(x.call, x.got)[x.pc].cmds) = St(e, g)
                   /\ Applied("redis", d, ns, x, e, g)
<1>1. RedisOpeningFinds(d, ns, x)
  BY RedisOpeningHas
<1>2. x.pc \in 1..RedisSections(x.got) /\ RedisSections(x.got) \in {1, 3, 4, 5}
      /\ Redis!Program(x.call, x.got)[x.pc].cmds = RedisStep(x.got, x.pc)
  BY <1>1 DEF RedisOpeningFinds
<1>3. \/ x.pc = 1
      \/ x.pc = 2
      \/ x.pc > 2 /\ x.pc < RedisSections(x.got)
      \/ x.pc > 2 /\ x.pc = RedisSections(x.got)
  <2> DEFINE k == RedisSections(x.got)
  <2> HIDE DEF k
  <2>1. x.pc \in 1..k /\ k \in {1, 3, 4, 5}
    BY <1>2 DEF k
  <2>2. x.pc = 1 \/ x.pc = 2 \/ x.pc > 2
    BY <2>1
  <2>3. x.pc < k \/ x.pc = k
    BY <2>1
  <2> QED BY <2>2, <2>3 DEF k
<1>4. RedisOpens(d, ns, x)
  BY <1>3, RedisOpening1, RedisOpening2, RedisOpening3, RedisOpeningWipes, RedisOpeningMarks
<1> QED BY <1>2, <1>4 DEF RedisOpens

-----------------------------------------------------------------------------
(* The invariant after a section *)

\* What the others see of a section.
LEMMA AppliedKeeps ==
  ASSUME NEW b, NEW d, NEW ns, InvOf(b, d, ns), NEW n \in Nodes, IsBusy(ns[n]), NEW e, NEW g,
         Applied(b, d, ns, ns[n], e, g), NEW ms \in [Nodes -> NodeStates],
         Told(b, ns[n], g, ViewOf(b, e), ms[n]),
         \A m \in Nodes : m # n =>
           /\ SameBut(ns[m], ms[m])
           /\ IsBusy(ns[m]) => ms[m].had \subseteq C!Found(ViewOf(b, e), ns[m].call)
  PROVE  InvOf(b, e, ms)
<1> DEFINE x == ns[n]
<1>1. ns \in [Nodes -> NodeStates] /\ b \in {"sqlite", "postgres", "redis"} /\ OneOpens(ns)
      /\ \A m \in Nodes : ProcessInv(b, d, ns, ns[m])
  BY DEF InvOf, Types
<1>2. ASSUME NEW m \in Nodes
      PROVE  /\ IsOpening(ms[m]) <=> IsOpening(ns[m])
             /\ IsOpened(ms[m]) <=> IsOpened(ns[m])
  <2>1. CASE m = n
    <3>1. ms[n].call = x.call /\ ms[n].at = "told" /\ x.at \in {"ask", "told"}
      BY DEF Told, IsBusy
    <3> QED BY <2>1, <3>1 DEF IsOpening, IsOpened, IsInCall, IsBusy
  <2>2. CASE m # n
    BY <2>2 DEF SameBut, SameCall, IsOpening, IsOpened, IsInCall, IsBusy
  <2> QED BY <2>1, <2>2
<1>3. OneOpens(ms) /\ (NoneOpened(ms) <=> NoneOpened(ns)) /\ (Virgin(e, ms) <=> Virgin(e, ns))
  <2>1. OneOpens(ms) /\ (NoneOpened(ms) <=> NoneOpened(ns))
    BY <1>1, <1>2 DEF OneOpens, NoneOpened
  <2> QED BY <2>1 DEF Virgin
<1>4. Types(b, e, ms)
  BY <1>1 DEF Applied, StoreTypes, Types
<1>5. SqlInv(b, e, ms) /\ RedisInv(b, e, ms)
  BY <1>3 DEF Applied, SqlInv, RedisInv
<1>6. ProcessInv(b, e, ms, ms[n])
  <2>1. ProcessInv(b, e, ns, ms[n])
    BY DEF Applied
  <2>2. ms[n] \in NodeStates
    OBVIOUS
  <2>3. SameBut(ms[n], ms[n])
    BY <2>2 DEF SameBut, SameCall
  <2>4. ms[n].had \subseteq C!Found(ViewOf(b, e), ms[n].call)
    BY DEF Told
  <2> QED BY <1>3, <2>1, <2>2, <2>3, <2>4, NearerSame, ProcessKept
<1>7. ASSUME NEW m \in Nodes, m # n PROVE ProcessInv(b, e, ms, ms[m])
  <2>1. /\ ProcessInv(b, d, ns, ns[m]) /\ ns[m] \in NodeStates /\ SameBut(ns[m], ms[m])
        /\ IsBusy(ns[m]) => ms[m].had \subseteq C!Found(ViewOf(b, e), ns[m].call)
    BY <1>1, <1>7
  <2>2. CASE IsInCall(x)
    <3>1. Nearer(b, d, e) /\ ~Virgin(d, ns)
      BY <2>2 DEF Applied, Virgin, NoneOpened, IsOpened
    <3> QED BY <2>1, <3>1, ProcessKept
  <2>3. CASE IsOpening(x)
    <3>1. ~IsOpening(ms[m])
      BY <1>1, <1>2, <1>7, <2>3 DEF OneOpens
    <3>2. CallInv(b, ViewOf(b, e), ms[m])
      BY <2>1, CallKept DEF ProcessInv
    <3>3. DeleteInv(b, ms[m])
      BY <2>1, DeleteKept DEF ProcessInv
    <3> QED BY <3>1, <3>2, <3>3 DEF ProcessInv, SqlOpening, RedisOpening
  <2> QED BY <2>2, <2>3 DEF IsInCall, IsOpening
<1> QED BY <1>3, <1>4, <1>5, <1>6, <1>7 DEF InvOf

\* A section that is executed.
LEMMA SqlExecutes ==
  ASSUME Inv, NEW n \in Nodes, node[n].at = "ask", backend \in {"sqlite", "postgres"}
  PROVE  \E e, g : Executed(n) = St(e, g) /\ Applied(backend, db, node, node[n], e, g)
<1> DEFINE x == node[n]
<1>1. InvOf(backend, db, node) /\ x \in BusyStates /\ IsBusy(x) /\ CallInv(backend, ViewOf(backend, db), x)
  BY ProcessOf DEF Inv, ProcessInv, IsBusy
<1>2. x.call \in C!Calls \/ x.call.op = "open"
  BY <1>1, BusyFields
<1>3. CASE x.call \in C!Calls
  <2>1. IsInCall(x) /\ x.call.op # "open"
    BY <1>1, <1>3, CallsByOp DEF IsInCall
  <2>2. x.pc = 1
    <3>1. Sections(backend, x.call, x.got) = 1
      BY <2>1 DEF Sections
    <3> QED BY <1>1, <3>1 DEF CallInv
  <2>3. Section(n) = SqlSection(x.call)
    <3>1. Program(x.call, x.got) = <<SqlSection(x.call)>>
      BY <1>3, SqlPrograms DEF Program
    <3> QED BY <2>2, <3>1 DEF Section
  <2>4. Executed(n) = Sqlite!Run(St(db, x.got), SqlSection(x.call))
    BY <2>3, SameRun DEF Executed, St
  <2>5. \E e : /\ Sqlite!Run(St(db, x.got), SqlSection(x.call)) = St(e, x.got)
               /\ Applied(backend, db, node, x, e, x.got)
    BY <1>1, <2>1, SqlCallApplies
  <2> QED BY <2>4, <2>5
<1>4. CASE x.call.op = "open"
  <2>1. IsOpening(x)
    BY <1>1, <1>4 DEF IsOpening
  <2>2. CASE backend = "sqlite"
    <3>1. Section(n) = Sqlite!migrate[x.pc]
      BY <1>4, <2>2 DEF Section, Program, Sqlite!Program
    <3>2. Executed(n) = Sqlite!Run(St(db, x.got), Sqlite!migrate[x.pc])
      BY <2>2, <3>1 DEF Executed, St
    <3> QED BY <1>1, <2>1, <2>2, <3>2, SqliteOpeningApplies
  <2>3. CASE backend = "postgres"
    <3>1. Section(n) = Postgres!migrate[x.pc]
      BY <1>4, <2>3 DEF Section, Program, Postgres!Program
    <3>2. Executed(n) = Postgres!Run(St(db, x.got), Postgres!migrate[x.pc])
      BY <2>3, <3>1 DEF Executed, St
    <3> QED BY <1>1, <2>1, <2>3, <3>2, PostgresOpeningApplies
  <2> QED BY <2>2, <2>3
<1> QED BY <1>2, <1>3, <1>4

\* A section on Redis, of a call or an opening, applies, ...
LEMMA RedisExecutes ==
  ASSUME Inv, NEW n \in Nodes, node[n].at = "ask", backend = "redis"
  PROVE  \E e, g : Executed(n) = St(e, g) /\ Applied(backend, db, node, node[n], e, g)
<1> DEFINE x == node[n]
<1>1. InvOf("redis", db, node) /\ x \in BusyStates /\ IsBusy(x)
  BY ProcessOf DEF Inv, IsBusy
<1>2. Executed(n) = Redis!Run(St(db, x.got), Redis!Program(x.call, x.got)[x.pc].cmds)
  <2>1. Section(n) = Redis!Program(x.call, x.got)[x.pc]
    BY DEF Section, Program
  <2> QED BY <2>1 DEF Executed, St
<1>3. CASE IsOpening(x)
  BY <1>1, <1>2, <1>3, RedisOpeningApplies
<1>4. CASE IsInCall(x) /\ Last("redis", x)
  BY <1>1, <1>2, <1>4, RedisLastApplies
<1>5. CASE IsInCall(x) /\ ~Last("redis", x)
  BY <1>1, <1>2, <1>5, RedisReadApplies
<1> QED BY <1>1, <1>3, <1>4, <1>5 DEF IsInCall, IsOpening

\* ... and so does one on any backend.
LEMMA Executes ==
  ASSUME Inv, NEW n \in Nodes, node[n].at = "ask"
  PROVE  \E e, g : Executed(n) = St(e, g) /\ Applied(backend, db, node, node[n], e, g)
<1>1. backend \in {"sqlite", "postgres", "redis"}
  BY ProcessOf
<1> QED BY <1>1, SqlExecutes, RedisExecutes

\* The processes after a section, one by one.
LEMMA ApplyNodes ==
  ASSUME Inv, NEW n \in Nodes, Apply(n), NEW e, NEW g, Executed(n) = St(e, g), g \in Reads
  PROVE  /\ db' = e /\ backend' = backend
         /\ node' \in [Nodes -> NodeStates]
         /\ Told(backend, node[n], g, ViewOf(backend, e), node'[n])
         /\ node'[n].had = node[n].had \cap C!Found(ViewOf(backend, e), node[n].call)
         /\ \A m \in Nodes : m # n => node'[m] = Watch(node[m], ViewOf(backend, e))
<1> DEFINE x == node[n]
           v == ViewOf(backend, e)
           last == x.pc = Len(Program(x.call, g))
           p == IF last THEN "taken" ELSE x.phase
           z == [x EXCEPT !.at = "told", !.got = g, !.phase = p]
           ms == [node EXCEPT ![n] = z]
<1>1. /\ backend \in {"sqlite", "postgres", "redis"} /\ x \in BusyStates /\ x \in NodeStates
      /\ node \in [Nodes -> NodeStates]
  BY ProcessOf, BusyFields DEF Apply, IsBusy
<1>2. Executed(n).db = e /\ Executed(n).got = g
  BY DEF St
<1>3. db' = e /\ backend' = backend
  BY <1>2 DEF Apply
<1>4. node' = Watched([node EXCEPT ![n].at = "told", ![n].got = g, ![n].phase = IF last THEN "taken" ELSE @],
                      View(e))
  BY <1>2 DEF Apply
<1>5. [node EXCEPT ![n].at = "told", ![n].got = g, ![n].phase = IF last THEN "taken" ELSE @] = ms
  BY <1>1 DEF BusyStates
<1>6. View(e) = v
  BY <1>1, ViewIs
<1>7. last <=> x.pc = Sections(backend, x.call, g)
  <2>1. x.call \in C!Calls \/ x.call = [op |-> "open"]
    BY <1>1 DEF BusyStates
  <2> QED BY <1>1, <2>1, ProgramLength
<1> HIDE DEF last
<1>8. z \in BusyStates /\ z.at = "told" /\ z.call = x.call /\ z.pc = x.pc /\ z.got = g
      /\ z.phase = p /\ z.had = x.had
  <2>1. p \in {"invoked", "taken"}
    BY <1>1, BusyFields
  <2> HIDE DEF p
  <2> QED BY <1>1, <2>1 DEF BusyStates
<1> HIDE DEF z, v, p
<1>9. ms[n] = z /\ (\A m \in Nodes : m # n => ms[m] = node[m]) /\ \A m \in Nodes : ms[m] \in NodeStates
  BY <1>1, <1>8, BusyFields
<1> HIDE DEF ms
<1>10. /\ node' = [m \in Nodes |-> node'[m]]
       /\ \A m \in Nodes : node'[m] = Watch(ms[m], v)
  <2>1. node' = Watched(ms, v)
    BY <1>4, <1>5, <1>6
  <2> QED BY ONLY <2>1 DEF Watched, Watch
<1>11. ASSUME NEW m \in Nodes
       PROVE  node'[m] = Watch(ms[m], v) /\ node'[m] \in NodeStates
  BY <1>9, <1>10, Watches DEF SameBut
<1>12. node' \in [Nodes -> NodeStates]
  BY <1>10, <1>11
<1>13. IsBusy(z) /\ z \in NodeStates /\ node'[n] = Watch(z, v)
  BY <1>8, <1>9, <1>11, BusyFields DEF IsBusy
<1>14. /\ SameBut(z, node'[n]) /\ node'[n].had = z.had \cap C!Found(v, z.call)
       /\ node'[n].had \subseteq C!Found(v, z.call)
  BY <1>13, Watches
<1>15. Told(backend, x, g, v, node'[n])
  BY <1>7, <1>8, <1>13, <1>14 DEF Told, SameBut, SameCall, p
<1>16. \A m \in Nodes : m # n => node'[m] = Watch(node[m], v)
  BY <1>9, <1>11
<1> QED BY <1>3, <1>8, <1>12, <1>14, <1>15, <1>16 DEF v

\* A section that is executed keeps the invariant.
LEMMA ApplyKeeps ==
  ASSUME Inv, NEW n \in Nodes, Apply(n)
  PROVE  Inv'
<1>1. PICK e, g : Executed(n) = St(e, g) /\ Applied(backend, db, node, node[n], e, g)
  BY Executes DEF Apply
<1>2. g \in Reads
  BY <1>1 DEF Applied
<1>3. /\ db' = e /\ backend' = backend /\ node' \in [Nodes -> NodeStates]
      /\ Told(backend, node[n], g, ViewOf(backend, e), node'[n])
      /\ \A m \in Nodes : m # n => node'[m] = Watch(node[m], ViewOf(backend, e))
  BY <1>1, <1>2, ApplyNodes
<1> DEFINE ms == node'
           v == ViewOf(backend, e)
<1>4. ASSUME NEW m \in Nodes, m # n
      PROVE  /\ SameBut(node[m], ms[m])
             /\ IsBusy(node[m]) => ms[m].had \subseteq C!Found(v, node[m].call)
  <2>1. ms[m] = Watch(node[m], v) /\ node[m] \in NodeStates
    BY <1>3, <1>4, ProcessOf
  <2> HIDE DEF ms, v
  <2> QED BY <2>1, Watches
<1>5. IsBusy(node[n])
  BY DEF Apply, IsBusy
<1>6. InvOf(backend, e, ms)
  <2>1. InvOf(backend, db, node)
    BY DEF Inv
  <2>2. ms \in [Nodes -> NodeStates] /\ Told(backend, node[n], g, v, ms[n])
    BY <1>3
  <2> HIDE DEF ms
  <2> QED BY <1>1, <1>4, <1>5, <2>1, <2>2, AppliedKeeps DEF v
<1>7. Inv' <=> InvOf(backend', db', node')
  BY DEF Inv
<1> QED BY <1>3, <1>6, <1>7

\* The marker is gone, and nothing else.
LEMMA EvictMarkerKeeps ==
  ASSUME Inv, EvictMarker
  PROVE  Inv' /\ View(db') = View(db) /\ node' = node /\ backend' = backend
<1> DEFINE e == Changed(db, Redis!SCHEMA_KEY, Nil)
<1>1. /\ backend = "redis" /\ backend' = backend /\ node' = node /\ db' = e
      /\ InvOf("redis", db, node)
  BY DEF EvictMarker, Changed, Inv
<1>2. /\ RedisTypes(db) /\ OneOpens(node) /\ RedisInv("redis", db, node)
      /\ node \in [Nodes -> NodeStates]
      /\ \A n \in Nodes : ProcessInv("redis", db, node, node[n])
  BY <1>1 DEF InvOf, Types
<1>3. /\ IsNames(e) /\ e[Redis!SCHEMA_KEY] = Nil
      /\ \A y \in Redis!Names : y # Redis!SCHEMA_KEY => e[y] = db[y]
  BY <1>2, NameChanged, NamesIn, RedisTypesParts
<1> HIDE DEF e
<1>4. e[Redis!OLD] = db[Redis!OLD]
  <2>1. Redis!OLD # Redis!SCHEMA_KEY
    BY NameParts
  <2> QED BY <1>3, <2>1, NamesIn
<1>5. 3 # Nil /\ 4 # Nil
  BY NilIsNone
<1>6. OtherThan(db, e, {Redis!SCHEMA_KEY, Redis!OLD})
  BY <1>3 DEF OtherThan
<1>7. RedisTypes(e) /\ ViewOf("redis", e) = ViewOf("redis", db)
  BY <1>2, <1>3, <1>6, LayoutUnread
<1>8. Nearer("redis", db, e)
  BY <1>3, <1>4, <1>5 DEF Nearer, Foreign
<1>9. Virgin(db, node) => Virgin(e, node)
  BY <1>3 DEF Virgin
<1>10. RedisInv("redis", e, node)
  BY <1>2, <1>3, <1>5, <1>8, <1>9 DEF RedisInv, Nearer
<1>11. ASSUME NEW n \in Nodes PROVE ProcessInv("redis", e, node, node[n])
  <2>1. ProcessInv("redis", db, node, node[n]) /\ node[n] \in NodeStates
    BY <1>2
  <2>2. SameBut(node[n], node[n])
    BY <2>1 DEF SameBut, SameCall
  <2>3. IsBusy(node[n]) => node[n].had \subseteq C!Found(ViewOf("redis", e), node[n].call)
    BY <1>7, <2>1 DEF ProcessInv, CallInv
  <2> QED BY <1>8, <1>9, <2>1, <2>2, <2>3, ProcessKept
<1>12. SqlInv("redis", e, node)
  BY DEF SqlInv
<1>13. InvOf("redis", e, node)
  BY <1>2, <1>7, <1>10, <1>11, <1>12 DEF InvOf, Types
<1>14. Inv' <=> InvOf(backend', db', node')
  BY DEF Inv
<1>15. View(db') = View(db)
  <2>1. View(e) = ViewOf("redis", e) /\ View(db) = ViewOf("redis", db)
    BY <1>1, ViewIs
  <2> QED BY <1>1, <1>7, <2>1
<1> QED BY <1>1, <1>13, <1>14, <1>15

-----------------------------------------------------------------------------
(* The states a store is found in *)

NilAt(S) == [r \in S |-> Nil]

\* Tables without a row are read as nothing.
LEMMA NoRowsIs ==
  /\ SqlRows(Sqlite!NoRows) /\ UsageWhole(Sqlite!NoRows)
  /\ SqlContents(Sqlite!NoRows) = C!Empty
<1> DEFINE R == Sqlite!NoRows
<1>1. /\ R = [t \in Sqlite!Tables |-> R[t]]
      /\ R["virtual_keys"] = NilAt(Keys) /\ R["aws_credentials"] = NilAt(Keys)
      /\ R["usage_windows"] = NilAt(Keys) /\ R["usage_ledger"] = NilAt(Keys)
      /\ R["usage_metering"] = NilAt(Keys) /\ R["denylist"] = NilAt(Keys)
      /\ R["audit_log"] = NilAt(Seqs)
  BY DEF Sqlite!NoRows, Sqlite!Tables, NilAt
<1> HIDE DEF R
<1>2. \A S : \A r \in S : NilAt(S)[r] = Nil
  BY DEF NilAt
<1>3. NilAt(Keys) \in [Keys -> {Nil}] /\ NilAt(Seqs) \in [Seqs -> {Nil}]
  BY DEF NilAt
<1>4. SqlRows(R)
  BY <1>1, <1>3 DEF SqlRows
<1>5. UsageWhole(R)
  BY <1>1, <1>2 DEF UsageWhole
<1>6. /\ KeysOf(NilAt(Keys)) = [k \in Keys |-> Nil] /\ RowsOf(NilAt(Keys)) = {}
      /\ UsageOf(NilAt(Keys), NilAt(Keys)) = [k \in Keys |-> Nil]
      /\ CountsOf(NilAt(Keys)) = [k \in Keys |-> 0]
  BY <1>2 DEF KeysOf, RowsOf, UsageOf, CountsOf
<1>7. AuditOf(NilAt(Seqs)) = {}
  <2>1. {x \in Seqs : NilAt(Seqs)[x] # Nil} = {}
    BY <1>2
  <2> QED BY <2>1 DEF AuditOf
<1>8. SqlContents(R) = C!Empty
  BY <1>1, <1>6, <1>7 DEF SqlContents, Contents, C!Empty
<1> QED BY <1>4, <1>5, <1>8 DEF R

\* The databases that a fleet may find show nothing, ...
LEMMA SqlFound ==
  ASSUME NEW d \in SqlStates
  PROVE  /\ SqlTypes(d) /\ d.rows = Sqlite!NoRows /\ d.shape.keys = d.shape.others
         /\ d.version = 4 => Sqlite!Current(d)
         /\ Sqlite!View(d) = C!Empty
<1>1. PICK s \in Shapes, v \in {0, 3, 4} :
        /\ d = Sqlite!Database(s, s, v)
        /\ v = 4 => s = "new"
  BY DEF SqlStates, Shapes
<1>2. d = Db(Sqlite!NoRows, [keys |-> s, others |-> s], v)
  BY <1>1 DEF Sqlite!Database, Db
<1>3. Sqlite!View(d) = C!Empty
  BY <1>2, SqlViewIs, NoRowsIs
<1>4. /\ d.rows = Sqlite!NoRows /\ d.shape = [keys |-> s, others |-> s] /\ d.version = v
      /\ d = [rows |-> d.rows, shape |-> d.shape, version |-> d.version]
  BY <1>2 DEF Db
<1>5. SqlTypes(d)
  BY <1>1, <1>4, NoRowsIs DEF SqlTypes
<1>6. d.shape.keys = d.shape.others /\ (d.version = 4 => Sqlite!Current(d))
  BY <1>1, <1>4 DEF Sqlite!Current
<1> QED BY <1>3, <1>4, <1>5, <1>6

\* An empty name space is read as nothing.
LEMMA NoNamesIs ==
  RedisTypes(Redis!EmptyNamespace) /\ ViewOf("redis", Redis!EmptyNamespace) = C!Empty
<1> DEFINE d == Redis!EmptyNamespace
<1>1. IsNames(d) /\ \A x \in Redis!Names : d[x] = Nil
  BY DEF Redis!EmptyNamespace, IsNames
<1> HIDE DEF d
<1>2. /\ d[Redis!KEYS_INDEX] = Nil /\ d[Redis!AWSCRED_INDEX] = Nil /\ d[Redis!AUDIT_ZSET] = Nil
      /\ d[Redis!DENYLIST_INDEX] = Nil /\ d[Redis!SCHEMA_KEY] = Nil /\ d[Redis!OLD] = Nil
      /\ \A k \in Keys : /\ d[Redis!KEY(k)] = Nil /\ d[Redis!AWSCRED(k)] = Nil
                         /\ d[Redis!AWSCRED_IDS(k)] = Nil /\ d[Redis!USAGE(k)] = Nil
                         /\ d[Redis!METERING(k)] = Nil
  BY <1>1, NamesIn
<1>3. RedisTypes(d)
  BY <1>1, <1>2 DEF RedisTypes, IsNames, KeyTypes, CredTypes, IdsTypes, UsageTypes, MeteringTypes,
                    AuditTypes, DenyTypes
<1>4. Redis!Members(Nil) = {}
  BY DEF Redis!Members
<1>5. /\ RedisKeys(d) = [k \in Keys |-> Nil] /\ RedisUsage(d) = [k \in Keys |-> Nil]
      /\ RedisCounts(d) = [k \in Keys |-> 0]
  BY <1>2, <1>4 DEF RedisKeys, RedisUsage, RedisCounts, Redis!get_key, Redis!Usage, Redis!list_metering
<1>6. Redis!list_aws_credentials(d) = {} /\ Redis!cred_ids(d) = {}
  BY <1>2, <1>4 DEF Redis!list_aws_credentials, Redis!cred_ids
<1>7. RedisContents(d) = C!Empty
  BY <1>2, <1>4, <1>5, <1>6 DEF RedisContents, Contents, C!Empty
<1> QED BY <1>3, <1>7, RedisViewIs DEF ViewOf, d

\* ... and so do the name spaces.
LEMMA RedisFound ==
  ASSUME NEW d \in RedisStates
  PROVE  /\ RedisTypes(d) /\ ViewOf("redis", d) = C!Empty
         /\ d[Redis!SCHEMA_KEY] = 4 => d[Redis!OLD] = Nil
         /\ \A x \in Redis!Names \ {Redis!SCHEMA_KEY, Redis!OLD} : d[x] = Nil
<1> DEFINE m == Redis!EmptyNamespace
<1>1. Redis!SCHEMA_KEY \in Redis!Names /\ Redis!OLD \in Redis!Names
      /\ Redis!OLD # Redis!SCHEMA_KEY
  BY NameParts, NamesIn
<1>2. IsNames(m) /\ \A x \in Redis!Names : m[x] = Nil
  BY DEF Redis!EmptyNamespace, IsNames
<1>3. /\ IsNames(d) /\ d[Redis!SCHEMA_KEY] \in {Nil, 3, 4}
      /\ d[Redis!SCHEMA_KEY] = 4 => d[Redis!OLD] = Nil
      /\ \A x \in Redis!Names \ {Redis!SCHEMA_KEY, Redis!OLD} : d[x] = Nil
  <2>1. CASE d = m
    BY <1>1, <1>2, <2>1, NilIsNone
  <2>2. CASE \E v \in {"v1 usage", "v1"} : d = [m EXCEPT ![Redis!OLD] = v]
    <3>1. PICK v : d = Changed(m, Redis!OLD, v)
      BY <2>2 DEF Changed
    <3> HIDE DEF m
    <3>2. IsNames(d) /\ \A x \in Redis!Names : x # Redis!OLD => d[x] = m[x]
      BY <1>1, <1>2, <3>1, NameChanged
    <3> QED BY <1>1, <1>2, <3>2, NilIsNone
  <2>3. CASE d = [m EXCEPT ![Redis!OLD] = "v3", ![Redis!SCHEMA_KEY] = 3]
    <3>1. d = Changed(Changed(m, Redis!OLD, "v3"), Redis!SCHEMA_KEY, 3)
      BY <2>3 DEF Changed
    <3> DEFINE o == Changed(m, Redis!OLD, "v3")
    <3> HIDE DEF m
    <3>2. IsNames(o) /\ \A x \in Redis!Names : x # Redis!OLD => o[x] = m[x]
      BY <1>1, <1>2, NameChanged
    <3> HIDE DEF o
    <3>3. /\ IsNames(d) /\ d[Redis!SCHEMA_KEY] = 3
          /\ \A x \in Redis!Names : x # Redis!SCHEMA_KEY => d[x] = o[x]
      BY <1>1, <3>1, <3>2, NameChanged DEF o
    <3> QED BY <1>1, <1>2, <3>2, <3>3
  <2>4. CASE d = [m EXCEPT ![Redis!SCHEMA_KEY] = 4]
    <3>1. d = Changed(m, Redis!SCHEMA_KEY, 4)
      BY <2>4 DEF Changed
    <3> HIDE DEF m
    <3>2. /\ IsNames(d) /\ d[Redis!SCHEMA_KEY] = 4
          /\ \A x \in Redis!Names : x # Redis!SCHEMA_KEY => d[x] = m[x]
      BY <1>1, <1>2, <3>1, NameChanged
    <3> QED BY <1>1, <1>2, <3>2
  <2> QED BY <2>1, <2>2, <2>3, <2>4 DEF RedisStates
<1> HIDE DEF m
<1>4. OtherThan(m, d, {Redis!SCHEMA_KEY, Redis!OLD})
  BY <1>2, <1>3 DEF OtherThan
<1>5. RedisTypes(m) /\ ViewOf("redis", m) = C!Empty
  BY NoNamesIs DEF m
<1> QED BY <1>3, <1>4, <1>5, LayoutUnread

\* The invariant holds at first, over an empty store.
LEMMA InitHolds ==
  ASSUME Init
  PROVE  Inv /\ view = C!Empty /\ inCall = [n \in Nodes |-> C!Idle]
<1>1. /\ backend \in {"sqlite", "postgres", "redis"} /\ node = [n \in Nodes |-> Down]
      /\ backend = "redis" => db \in RedisStates
      /\ backend # "redis" => db \in SqlStates
  BY BackendsAssumption DEF Init
<1>2. node \in [Nodes -> NodeStates] /\ \A n \in Nodes : node[n] = Down
  BY <1>1, IdleStates
<1>3. \A n \in Nodes : ~IsBusy(node[n]) /\ ~IsOpening(node[n]) /\ ~IsOpened(node[n])
  BY <1>2, IdleStates DEF IsBusy, IsOpening, IsOpened, IsInCall
<1>4. OneOpens(node) /\ NoneOpened(node) /\ \A n \in Nodes : ProcessInv(backend, db, node, node[n])
  BY <1>3, IdleProcess DEF OneOpens, NoneOpened
<1>5. StoreTypes(backend, db) /\ ViewOf(backend, db) = C!Empty
  BY <1>1, SqlFound, RedisFound DEF StoreTypes, ViewOf
<1>6. SqlInv(backend, db, node)
  BY <1>1, <1>4, SqlFound DEF SqlInv
<1>7. RedisInv(backend, db, node)
  BY <1>1, <1>4, RedisFound DEF RedisInv, Virgin
<1>8. Inv
  BY <1>1, <1>2, <1>4, <1>5, <1>6, <1>7 DEF Inv, InvOf, Types, StoreTypes
<1>9. view = C!Empty
  BY <1>1, <1>5, ViewIs DEF view
<1>10. inCall = [n \in Nodes |-> C!Idle]
  <2>1. Down # Done
    BY IdleStates
  <2>2. \A n \in Nodes : ~InCall(n) /\ node[n] # Done
    BY <1>2, <1>3, <2>1, StateIs DEF IsInCall
  <2> QED BY <2>2 DEF inCall, C!Idle
<1> QED BY <1>8, <1>9, <1>10

\* Every step keeps the invariant, where the openings come one at a time.
LEMMA NextKeeps ==
  ASSUME SerialOpens, Inv, [Next]_vars
  PROVE  Inv'
<1>1. CASE UNCHANGED vars
  BY <1>1 DEF vars, Inv
<1>2. ASSUME NEW n \in Nodes, Open(n) PROVE Inv'
  BY <1>2, OpenKeeps
<1>3. ASSUME NEW n \in Nodes, Apply(n) PROVE Inv'
  BY <1>3, ApplyKeeps
<1>4. ASSUME NEW n \in Nodes, Reply(n) PROVE Inv'
  BY <1>4, ReplyKeeps
<1>5. ASSUME NEW n \in Nodes, Reject(n) PROVE Inv'
  BY <1>5, RejectKeeps
<1>6. ASSUME NEW n \in Nodes, Break(n) \/ LoseReply(n) PROVE Inv'
  BY <1>6, BreakKeeps
<1>7. ASSUME NEW n \in Nodes, Crash(n) PROVE Inv'
  BY <1>7, CrashKeeps
<1>8. ASSUME NEW n \in Nodes, NEW c \in C!Calls, Begin(n, c) PROVE Inv'
  BY <1>8, BeginKeeps
<1>9. ASSUME EvictMarker PROVE Inv'
  BY <1>9, EvictMarkerKeeps
<1> QED BY <1>1, <1>2, <1>3, <1>4, <1>5, <1>6, <1>7, <1>8, <1>9 DEF Next

-----------------------------------------------------------------------------
(* The layout *)

\* A store that a process has opened has the current layout.
LEMMA OpenedCurrent ==
  ASSUME Inv
  PROVE  OpenedIsCurrent
<1>1. SUFFICES ASSUME NEW n \in Nodes, node[n] \in {Ready, Done} \/ InCall(n)
               PROVE  CASE backend = "sqlite"   -> TRUE
                        [] backend = "postgres" -> Postgres!Current(db)
                        [] backend = "redis"    -> db[Redis!OLD] = Nil
  BY DEF OpenedIsCurrent
<1>2. IsOpened(node[n])
  BY <1>1, StateIs, IdleStates DEF IsOpened
<1>3. ~NoneOpened(node) /\ backend \in {"sqlite", "postgres", "redis"}
  BY <1>2, ProcessOf DEF NoneOpened
<1>4. SqlInv(backend, db, node) /\ RedisInv(backend, db, node)
  BY DEF Inv, InvOf
<1>5. backend = "postgres" => Postgres!Current(db)
  BY <1>3, <1>4 DEF SqlInv, Sqlite!Current, Postgres!Current
<1>6. backend = "redis" => db[Redis!OLD] = Nil
  BY <1>3, <1>4 DEF RedisInv, Foreign, Virgin
<1> QED BY <1>3, <1>5, <1>6

(***************************************************************************)
(* Where the openings come one at a time, a process that has opened a      *)
(* Postgres or Redis store finds this build's layout, whatever an older    *)
(* build left there and wherever an earlier opening was cut short.         *)
(***************************************************************************)
THEOREM OpenedLayoutIsCurrent == SerialOpens => (Spec => []OpenedIsCurrent)
<1>1. Init => Inv
  BY InitHolds
<1>2. SerialOpens /\ Inv /\ [Next]_vars => Inv'
  BY NextKeeps
<1>3. Inv => OpenedIsCurrent
  BY OpenedCurrent
<1> SUFFICES ASSUME SerialOpens PROVE Spec => []OpenedIsCurrent
  OBVIOUS
<1> QED BY <1>1, <1>2, <1>3, PTL DEF Spec

-----------------------------------------------------------------------------
(* The contract *)

\* The call a process is in, as the contract sees it.
CallOf(x) ==
  IF IsInCall(x) THEN C!Busy(x.phase, x.call, x.had)
  ELSE IF x.at = "done" THEN C!Answered ELSE C!Idle

\* The parts of a call as the contract sees it.
LEMMA CallOfFields ==
  ASSUME NEW x \in NodeStates
  PROVE  /\ IsInCall(x) => /\ CallOf(x).is = x.phase /\ CallOf(x).call = x.call
                           /\ CallOf(x).had = x.had /\ CallOf(x).is \in {"invoked", "taken"}
                           /\ CallOf(x) = C!Busy(x.phase, x.call, x.had) /\ CallOf(x) # C!Idle
         /\ ~IsInCall(x) => CallOf(x) \in {C!Idle, C!Answered}
         /\ C!InCall(CallOf(x)) <=> IsInCall(x)
<1>1. C!Idle.is = "idle" /\ C!Answered.is = "answered"
  BY DEF C!Idle, C!Answered
<1>2. \A p, c, h : C!Busy(p, c, h).is = p /\ C!Busy(p, c, h).call = c /\ C!Busy(p, c, h).had = h
  BY DEF C!Busy
<1>3. IsInCall(x) => x.phase \in {"invoked", "taken"}
  BY StatesByAt, BusyFields DEF IsInCall
<1>4. CASE IsInCall(x)
  <2>1. CallOf(x) = C!Busy(x.phase, x.call, x.had)
    BY <1>4 DEF CallOf
  <2> QED BY <1>1, <1>2, <1>3, <1>4, <2>1 DEF C!InCall
<1>5. CASE ~IsInCall(x)
  <2>1. CallOf(x) \in {C!Idle, C!Answered}
    BY <1>5 DEF CallOf
  <2> QED BY <1>1, <1>5, <2>1 DEF C!InCall
<1> QED BY <1>4, <1>5

CallsOf(ns) == [n \in Nodes |-> CallOf(ns[n])]

\* The refinement mapping, before a step and after it.
LEMMA MappedNow ==
  ASSUME Inv
  PROVE  inCall = CallsOf(node)
<1>1. ASSUME NEW n \in Nodes
      PROVE  CallOf(node[n]) =
               CASE InCall(n) -> [is |-> node[n].phase, call |-> node[n].call, had |-> node[n].had]
                 [] ~InCall(n) /\ node[n] = Done -> [is |-> "answered"]
                 [] ~InCall(n) /\ node[n] # Done -> [is |-> "idle"]
  <2>1. (InCall(n) <=> IsInCall(node[n])) /\ (node[n] = Done <=> node[n].at = "done")
    BY ProcessOf, StateIs, StatesByAt
  <2> QED BY <2>1 DEF CallOf, C!Busy, C!Answered, C!Idle
<1> QED BY <1>1 DEF CallsOf, inCall

\* The contract's calls after a step, ...
LEMMA MappedThen ==
  ASSUME Inv'
  PROVE  inCall' = CallsOf(node')
<1>1. ASSUME NEW n \in Nodes
      PROVE  CallOf(node'[n]) =
               CASE InCall(n)' -> [is |-> node'[n].phase, call |-> node'[n].call, had |-> node'[n].had]
                 [] ~InCall(n)' /\ node'[n] = Done -> [is |-> "answered"]
                 [] ~InCall(n)' /\ node'[n] # Done -> [is |-> "idle"]
  <2>1. node'[n] \in NodeStates
    BY DEF Inv, InvOf, Types
  <2>2. node'[n] = Done <=> node'[n].at = "done"
    BY <2>1, StatesByAt
  <2>3. InCall(n)' <=> IsInCall(node'[n])
    BY DEF Busy, Opening, InCall, IsBusy, IsInCall
  <2> QED BY <2>2, <2>3 DEF CallOf, C!Busy, C!Answered, C!Idle
<1> QED BY <1>1 DEF CallsOf, inCall

\* ... its contents after a step ...
LEMMA ViewThen ==
  ASSUME Inv'
  PROVE  view' = ViewOf(backend', db')
<1>1. backend' \in {"sqlite", "postgres", "redis"}
  BY DEF Inv, InvOf, Types
<1>2. view' = CASE backend' = "sqlite"   -> Sqlite!View(db')
                [] backend' = "postgres" -> Postgres!View(db')
                [] backend' = "redis"    -> Redis!View(db')
  BY DEF view, View
<1> QED BY <1>1, <1>2, SameView DEF ViewOf

\* ... and before it.
LEMMA ViewNow ==
  ASSUME Inv
  PROVE  view = ViewOf(backend, db)
<1>1. backend \in {"sqlite", "postgres", "redis"}
  BY DEF Inv, InvOf, Types
<1> QED BY <1>1, ViewIs DEF view

\* A step of one process that stores nothing.
LEMMA OneMoves ==
  ASSUME Inv, Inv', NEW n \in Nodes, NEW y, node' = [node EXCEPT ![n] = y], db' = db,
         backend' = backend
  PROVE  /\ view' = view /\ inCall' = [inCall EXCEPT ![n] = CallOf(y)]
         /\ inCall[n] = CallOf(node[n])
         /\ CallOf(y) = CallOf(node[n]) => inCall' = inCall
<1>1. view' = view
  BY ViewNow, ViewThen
<1>2. inCall = CallsOf(node) /\ inCall' = CallsOf(node')
  BY MappedNow, MappedThen
<1>3. node \in [Nodes -> NodeStates]
  BY ProcessOf
<1>4. node'[n] = y /\ \A m \in Nodes : m # n => node'[m] = node[m]
  BY <1>3
<1>5. CallsOf(node') = [CallsOf(node) EXCEPT ![n] = CallOf(y)]
  <2> DEFINE ms == node'
  <2>1. ms[n] = y /\ \A m \in Nodes : m # n => ms[m] = node[m]
    BY <1>4
  <2> HIDE DEF ms
  <2>2. CallsOf(ms) = [CallsOf(node) EXCEPT ![n] = CallOf(y)]
    BY ONLY <2>1, n \in Nodes DEF CallsOf
  <2> QED BY <2>2 DEF ms
<1>6. CallsOf(node)[n] = CallOf(node[n])
  BY DEF CallsOf
<1>7. CallOf(y) = CallOf(node[n]) => CallsOf(node') = CallsOf(node)
  BY <1>4 DEF CallsOf
<1> QED BY <1>1, <1>2, <1>5, <1>6, <1>7

ContractStep == C!Next \/ (view' = view /\ inCall' = inCall)

\* A process that moves within its call is a stutter of the contract.
LEMMA Stays ==
  ASSUME Inv, Inv', NEW n \in Nodes, NEW y, node' = [node EXCEPT ![n] = y], db' = db,
         backend' = backend, CallOf(y) = CallOf(node[n])
  PROVE  ContractStep
BY OneMoves DEF ContractStep

\* A process that gives its call up is the Leave of the contract, or a stutter.
LEMMA Leaves ==
  ASSUME Inv, Inv', NEW n \in Nodes, NEW y, node' = [node EXCEPT ![n] = y], db' = db,
         backend' = backend, CallOf(y) = C!Idle
  PROVE  ContractStep
<1>1. CASE CallOf(node[n]) = C!Idle
  BY <1>1, Stays
<1>2. CASE CallOf(node[n]) # C!Idle
  <2>1. view' = view /\ inCall' = [inCall EXCEPT ![n] = C!Idle] /\ inCall[n] # C!Idle
    BY <1>2, OneMoves
  <2>2. C!Leave(n)
    BY <2>1 DEF C!Leave
  <2> QED BY <2>2 DEF C!Next, ContractStep
<1> QED BY <1>1, <1>2

\* The calls of processes without one.
LEMMA IdleCalls ==
  /\ CallOf(Down) = C!Idle /\ CallOf(Ready) = C!Idle /\ CallOf(Lost) = C!Idle
  /\ CallOf(Done) = C!Answered
BY IdleStates DEF CallOf, IsInCall, IsBusy

\* An opening is no call.
LEMMA OpenRefines ==
  ASSUME Inv, Inv', NEW n \in Nodes, Open(n)
  PROVE  ContractStep
<1> DEFINE y == Started([op |-> "open"])
<1>1. y.at = "ask" /\ y.call = [op |-> "open"]
  BY StartedIs
<1>2. node' = [node EXCEPT ![n] = y] /\ db' = db /\ backend' = backend
  BY DEF Open
<1> HIDE DEF y
<1>3. CallOf(y) = C!Idle
  BY <1>1 DEF CallOf, IsInCall
<1> QED BY <1>2, <1>3, Leaves

\* A call that begins is the Invoke of the contract.
LEMMA BeginRefines ==
  ASSUME Inv, Inv', NEW n \in Nodes, NEW c \in C!Calls, Begin(n, c)
  PROVE  ContractStep
<1> DEFINE y == Started(c)
<1>1. y.at = "ask" /\ y.call = c /\ y.phase = "invoked" /\ y.had = C!Found(view, c)
  BY StartedIs
<1>2. /\ node' = [node EXCEPT ![n] = y] /\ db' = db /\ backend' = backend
      /\ node[n] \in {Ready, Done}
  BY DEF Begin
<1> HIDE DEF y
<1>3. CallOf(y) = C!Busy("invoked", c, C!Found(view, c))
  BY <1>1, CallsByOp DEF CallOf, IsInCall, IsBusy
<1>4. CallOf(node[n]) \in {C!Idle, C!Answered}
  BY <1>2, IdleCalls
<1>5. view' = view /\ inCall' = [inCall EXCEPT ![n] = CallOf(y)] /\ inCall[n] = CallOf(node[n])
  BY <1>2, OneMoves
<1>6. C!Invoke(n, c)
  BY <1>3, <1>4, <1>5 DEF C!Invoke
<1> QED BY <1>6 DEF C!Next, ContractStep

\* An answer is the Answer of the contract, or a stutter.
LEMMA ReplyRefines ==
  ASSUME Inv, Inv', NEW n \in Nodes, Reply(n)
  PROVE  ContractStep
<1> DEFINE x == node[n]
           last == x.pc = Len(Program(x.call, x.got))
<1>1. x \in BusyStates /\ x \in NodeStates /\ x.at = "told" /\ IsBusy(x)
      /\ CallInv(backend, ViewOf(backend, db), x)
      /\ Len(Program(x.call, x.got)) = Sections(backend, x.call, x.got)
  BY ProcessOf DEF Reply, IsBusy, ProcessInv
<1>2. db' = db /\ backend' = backend
  BY DEF Reply
<1>3. CASE last
  <2>1. node' = [node EXCEPT ![n] = AfterOk(n)]
    BY <1>3 DEF Reply
  <2>2. CASE IsInCall(x)
    <3>1. AfterOk(n) = Done
      BY <2>2, StateIs DEF AfterOk, InCall
    <3>2. CallOf(x).is = "taken"
      <4>1. x.phase = "taken"
        BY <1>1, <1>3 DEF CallInv, Last
      <4> QED BY <1>1, <2>2, <4>1, CallOfFields
    <3>3. view' = view /\ inCall' = [inCall EXCEPT ![n] = C!Answered] /\ inCall[n] = CallOf(x)
      BY <1>2, <2>1, <3>1, OneMoves, IdleCalls
    <3>4. C!Answer(n)
      BY <3>2, <3>3 DEF C!Answer
    <3> QED BY <3>4 DEF C!Next, ContractStep
  <2>3. CASE ~IsInCall(x)
    <3>1. ~InCall(n) /\ Opening(n)
      BY <1>1, <2>3, StateIs DEF IsInCall, IsOpening
    <3>2. AfterOk(n) \in {Down, Ready}
      BY <3>1 DEF AfterOk
    <3>3. CallOf(AfterOk(n)) = C!Idle
      BY <3>2, IdleCalls
    <3> QED BY <1>2, <2>1, <3>3, Leaves
  <2> QED BY <2>2, <2>3
<1>4. CASE ~last
  <2> DEFINE y == [x EXCEPT !.at = "ask", !.pc = x.pc + 1, !.retried = FALSE]
  <2>1. node' = [node EXCEPT ![n] = y]
    BY <1>4 DEF Reply
  <2>2. y.at = "ask" /\ y.call = x.call /\ y.phase = x.phase /\ y.had = x.had
    BY <1>1 DEF BusyStates
  <2> HIDE DEF y
  <2>3. CallOf(y) = CallOf(x)
    BY <1>1, <2>2 DEF CallOf, IsInCall, IsBusy
  <2> QED BY <1>2, <2>1, <2>3, Stays
<1> QED BY <1>3, <1>4

\* A call that fails on its tables, or a crash, is the Leave of the contract.
LEMMA RejectRefines ==
  ASSUME Inv, Inv', NEW n \in Nodes, Reject(n) \/ Crash(n)
  PROVE  ContractStep
<1>1. (\E y \in {Ready, Down} : node' = [node EXCEPT ![n] = y]) /\ db' = db /\ backend' = backend
  BY DEF Reject, Crash
<1>2. PICK y \in {Ready, Down} : node' = [node EXCEPT ![n] = y]
  BY <1>1
<1>3. CallOf(y) = C!Idle
  BY IdleCalls
<1> QED BY <1>1, <1>2, <1>3, Leaves

\* A connection that breaks leaves a call that may be sent again, or is lost.
LEMMA BreakRefines ==
  ASSUME Inv, Inv', NEW n \in Nodes, Break(n) \/ LoseReply(n)
  PROVE  ContractStep
<1> DEFINE x == node[n]
<1>1. node' = [node EXCEPT ![n] = run(n)] /\ db' = db /\ backend' = backend /\ IsBusy(x)
  BY DEF Break, LoseReply, IsBusy
<1>2. x \in BusyStates /\ backend \in {"sqlite", "postgres", "redis"}
  BY <1>1, ProcessOf
<1>3. CASE run(n) = [x EXCEPT !.at = "ask", !.retried = TRUE]
  <2> DEFINE y == [x EXCEPT !.at = "ask", !.retried = TRUE]
  <2>1. y.at = "ask" /\ y.call = x.call /\ y.phase = x.phase /\ y.had = x.had
    BY <1>2 DEF BusyStates
  <2>2. node' = [node EXCEPT ![n] = y]
    BY <1>1, <1>3
  <2> HIDE DEF y
  <2>3. CallOf(y) = CallOf(x)
    BY <1>1, <2>1 DEF CallOf, IsInCall, IsBusy
  <2> QED BY <1>1, <2>2, <2>3, Stays
<1>4. CASE run(n) = AfterError(n)
  <2>1. AfterError(n) \in {Down, Lost, Ready}
    BY <1>2 DEF AfterError
  <2>2. CallOf(run(n)) = C!Idle
    BY <1>4, <2>1, IdleCalls
  <2> QED BY <1>1, <2>2, Leaves
<1> QED BY <1>3, <1>4 DEF run

\* A process that watches, as the contract sees it.
LEMMA WatchedCall ==
  ASSUME NEW x \in NodeStates, NEW v
  PROVE  CallOf(Watch(x, v)) =
           IF C!InCall(CallOf(x))
           THEN C!Busy(CallOf(x).is, CallOf(x).call, CallOf(x).had \cap C!Found(v, CallOf(x).call))
           ELSE CallOf(x)
<1> DEFINE z == Watch(x, v)
<1>1. SameBut(x, z) /\ (IsBusy(x) => z.had = x.had \cap C!Found(v, x.call)) /\ (~IsBusy(x) => z = x)
  BY Watches
<1> HIDE DEF z
<1>2. CASE IsInCall(x)
  <2>1. IsInCall(z) /\ z.phase = x.phase /\ z.call = x.call /\ z.had = x.had \cap C!Found(v, x.call)
    BY <1>1, <1>2 DEF SameBut, SameCall, IsInCall, IsBusy
  <2>2. CallOf(z) = C!Busy(x.phase, x.call, x.had \cap C!Found(v, x.call))
    BY <2>1 DEF CallOf
  <2> QED BY <1>2, <2>2, CallOfFields DEF z
<1>3. CASE ~IsInCall(x)
  <2>1. ~IsInCall(z) /\ z.at = x.at
    BY <1>1, <1>3 DEF SameBut, SameCall, IsInCall, IsBusy
  <2>2. CallOf(z) = CallOf(x)
    BY <1>3, <2>1 DEF CallOf
  <2> QED BY <1>3, <2>2, CallOfFields DEF z
<1> QED BY <1>2, <1>3

\* The last section of a call is the instant at which it takes effect.
LEMMA LastTakes ==
  ASSUME Inv, Inv', NEW n \in Nodes, Apply(n), IsInCall(node[n]), Last(backend, node[n])
  PROVE  C!Take(n)
<1> DEFINE x == node[n]
           cs == CallsOf(node)
<1>1. PICK e, g : Executed(n) = St(e, g) /\ Applied(backend, db, node, x, e, g)
  BY Executes DEF Apply
<1> DEFINE v == ViewOf(backend, e)
<1>2. g \in Reads /\ v \in C!Effects(ViewOf(backend, db), x.call, x.had)
  BY <1>1 DEF Applied
<1>3. /\ db' = e /\ backend' = backend /\ Told(backend, x, g, v, node'[n])
      /\ node'[n].had = x.had \cap C!Found(v, x.call)
      /\ \A m \in Nodes : m # n => node'[m] = Watch(node[m], v)
  BY <1>1, <1>2, ApplyNodes
<1>4. /\ inCall = cs /\ inCall' = CallsOf(node') /\ view = ViewOf(backend, db) /\ view' = v
  BY <1>3, MappedNow, MappedThen, ViewNow, ViewThen
<1>5. /\ x \in NodeStates /\ x.at = "ask" /\ cs[n] = CallOf(x) /\ C!InCall(CallOf(x))
      /\ CallOf(x).is = x.phase /\ CallOf(x).call = x.call /\ CallOf(x).had = x.had
  BY ProcessOf, CallOfFields DEF CallsOf, Apply
<1>6. CallOf(x).is = "taken" => C!Idempotent(CallOf(x).call)
  <2>1. CallInv(backend, ViewOf(backend, db), x) /\ IsBusy(x)
    BY ProcessOf DEF ProcessInv, IsInCall
  <2> QED BY <1>5, <2>1 DEF CallInv
<1> DEFINE b == C!Busy("taken", x.call, x.had)
           bs == [cs EXCEPT ![n] = b]
<1>7. /\ bs[n] = b /\ \A m \in Nodes : m # n => bs[m] = CallOf(node[m])
  BY DEF CallsOf
<1>8. b.is = "taken" /\ b.call = x.call /\ b.had = x.had /\ C!InCall(b)
  BY DEF C!Busy, C!InCall
<1> HIDE DEF v, cs, b, bs
<1>9. ASSUME NEW m \in Nodes
      PROVE  CallOf(node'[m]) = IF C!InCall(bs[m])
                                THEN C!Busy(bs[m].is, bs[m].call, bs[m].had \cap C!Found(v, bs[m].call))
                                ELSE bs[m]
  <2>1. CASE m = n
    <3>1. Sections(backend, x.call, g) = x.pc
      BY DEF Last, Sections, IsInCall
    <3>2. /\ IsInCall(node'[n]) /\ node'[n].phase = "taken" /\ node'[n].call = x.call
          /\ node'[n].had = x.had \cap C!Found(v, x.call)
      BY <1>3, <3>1 DEF Told, IsInCall, IsBusy
    <3>3. CallOf(node'[n]) = C!Busy("taken", x.call, x.had \cap C!Found(v, x.call))
      BY <3>2 DEF CallOf
    <3> QED BY <1>7, <1>8, <2>1, <3>3
  <2>2. CASE m # n
    <3>1. node'[m] = Watch(node[m], v) /\ node[m] \in NodeStates /\ bs[m] = CallOf(node[m])
      BY <1>3, <1>7, <2>2, ProcessOf
    <3> QED BY <3>1, WatchedCall
  <2> QED BY <2>1, <2>2
<1>10. CallsOf(node') = C!Watched(bs, v)
  BY <1>9 DEF CallsOf, C!Watched
<1>11. inCall' = C!Watched([inCall EXCEPT ![n] = C!Busy("taken", inCall[n].call, inCall[n].had)], view')
  BY <1>4, <1>5, <1>10 DEF bs, b
<1>12. /\ C!InCall(inCall[n])
       /\ inCall[n].is = "taken" => C!Idempotent(inCall[n].call)
       /\ view' \in C!Effects(view, inCall[n].call, inCall[n].had)
  BY <1>2, <1>4, <1>5, <1>6
<1> QED BY <1>11, <1>12 DEF C!Take

\* No other section has an effect.
LEMMA OthersRead ==
  ASSUME Inv, Inv', NEW n \in Nodes, Apply(n), ~(IsInCall(node[n]) /\ Last(backend, node[n]))
  PROVE  view' = view /\ inCall' = inCall
<1> DEFINE x == node[n]
<1>1. PICK e, g : Executed(n) = St(e, g) /\ Applied(backend, db, node, x, e, g)
  BY Executes DEF Apply
<1> DEFINE v == ViewOf(backend, e)
<1>2. IsBusy(x) /\ x \in BusyStates /\ x \in NodeStates /\ x.at = "ask"
  BY ProcessOf DEF Apply, IsBusy
<1>3. g \in Reads /\ v = ViewOf(backend, db)
  BY <1>1, <1>2 DEF Applied, IsInCall, IsOpening
<1>4. /\ db' = e /\ backend' = backend /\ Told(backend, x, g, v, node'[n])
      /\ node'[n].had = x.had \cap C!Found(v, x.call)
      /\ \A m \in Nodes : m # n => node'[m] = Watch(node[m], v)
  BY <1>1, <1>3, ApplyNodes
<1>5. /\ inCall = CallsOf(node) /\ inCall' = CallsOf(node') /\ view = v /\ view' = v
  BY <1>3, <1>4, MappedNow, MappedThen, ViewNow, ViewThen
<1> HIDE DEF v
<1>6. ASSUME NEW m \in Nodes, IsBusy(node[m]) PROVE node[m].had \subseteq C!Found(v, node[m].call)
  BY <1>3, <1>6, ProcessOf DEF ProcessInv, CallInv
<1>7. ASSUME NEW m \in Nodes PROVE CallOf(node'[m]) = CallOf(node[m])
  <2>1. CASE m # n
    <3>1. node'[m] = Watch(node[m], v) /\ node[m] \in NodeStates
      BY <1>4, <2>1, ProcessOf
    <3>2. Watch(node[m], v) = node[m]
      BY <1>6, <3>1, Watches
    <3> QED BY <3>1, <3>2
  <2>2. CASE m = n /\ IsInCall(x)
    <3>1. Sections(backend, x.call, g) # x.pc
      BY <2>2 DEF Last, Sections, IsInCall
    <3>2. x.had \cap C!Found(v, x.call) = x.had
      BY <1>2, <1>6
    <3>3. /\ IsInCall(node'[n]) /\ node'[n].phase = x.phase /\ node'[n].call = x.call
          /\ node'[n].had = x.had
      BY <1>4, <2>2, <3>1, <3>2 DEF Told, IsInCall, IsBusy
    <3> QED BY <2>2, <3>3 DEF CallOf
  <2>3. CASE m = n /\ ~IsInCall(x)
    <3>1. ~IsInCall(node'[n]) /\ node'[n].at = "told"
      BY <1>2, <1>4, <2>3 DEF Told, IsInCall
    <3> QED BY <1>2, <2>3, <3>1 DEF CallOf
  <2> QED BY <2>1, <2>2, <2>3
<1>8. CallsOf(node') = CallsOf(node)
  BY <1>7 DEF CallsOf
<1> QED BY <1>5, <1>8

\* A section that is executed is the Take of the contract, or a stutter.
LEMMA ApplyRefines ==
  ASSUME Inv, Inv', NEW n \in Nodes, Apply(n)
  PROVE  ContractStep
<1>1. CASE IsInCall(node[n]) /\ Last(backend, node[n])
  BY <1>1, LastTakes DEF C!Next, ContractStep
<1>2. CASE ~(IsInCall(node[n]) /\ Last(backend, node[n]))
  BY <1>2, OthersRead DEF ContractStep
<1> QED BY <1>1, <1>2

\* The loss of the marker shows nothing.
LEMMA EvictMarkerRefines ==
  ASSUME Inv, Inv', EvictMarker
  PROVE  ContractStep
<1>1. View(db') = View(db) /\ node' = node /\ backend' = backend
  BY EvictMarkerKeeps
<1>2. backend \in {"sqlite", "postgres", "redis"}
  BY DEF Inv, InvOf, Types
<1>3. view' = view
  BY <1>1, <1>2, ViewNow, ViewThen, ViewIs
<1>4. inCall' = inCall
  BY <1>1, MappedNow, MappedThen
<1> QED BY <1>3, <1>4 DEF ContractStep

\* Every step is a step of the contract, or none that it sees.
LEMMA NextRefines ==
  ASSUME Inv, Inv', [Next]_vars
  PROVE  C!Next \/ UNCHANGED <<view, inCall>>
<1>1. ContractStep
  <2>1. CASE UNCHANGED vars
    <3>1. node' = node /\ db' = db /\ backend' = backend
      BY <2>1 DEF vars
    <3> QED BY <3>1, ViewNow, ViewThen, MappedNow, MappedThen DEF ContractStep
  <2>2. ASSUME NEW n \in Nodes, Open(n) PROVE ContractStep
    BY <2>2, OpenRefines
  <2>3. ASSUME NEW n \in Nodes, Apply(n) PROVE ContractStep
    BY <2>3, ApplyRefines
  <2>4. ASSUME NEW n \in Nodes, Reply(n) PROVE ContractStep
    BY <2>4, ReplyRefines
  <2>5. ASSUME NEW n \in Nodes, Reject(n) \/ Crash(n) PROVE ContractStep
    BY <2>5, RejectRefines
  <2>6. ASSUME NEW n \in Nodes, Break(n) \/ LoseReply(n) PROVE ContractStep
    BY <2>6, BreakRefines
  <2>7. ASSUME NEW n \in Nodes, NEW c \in C!Calls, Begin(n, c) PROVE ContractStep
    BY <2>7, BeginRefines
  <2>8. ASSUME EvictMarker PROVE ContractStep
    BY <2>8, EvictMarkerRefines
  <2> QED BY <2>1, <2>2, <2>3, <2>4, <2>5, <2>6, <2>7, <2>8 DEF Next
<1> QED BY <1>1 DEF ContractStep

(***************************************************************************)
(* Where the openings come one at a time, SQLite, Postgres and Redis each  *)
(* implement the contract of the `Store` trait: whatever breaks, a call    *)
(* takes effect whole and between its invocation and its answer, one that  *)
(* adds takes effect once at most, and an opening touches nothing that     *)
(* this build has written.                                                 *)
(***************************************************************************)
THEOREM BackendsKeepContract == SerialOpens => (Spec => KeepsContract)
<1>1. Init => Inv
  BY InitHolds
<1>2. SerialOpens /\ Inv /\ [Next]_vars => Inv'
  BY NextKeeps
<1>3. Init => C!Init
  BY InitHolds DEF C!Init
<1>4. Inv /\ Inv' /\ [Next]_vars => [C!Next]_<<view, inCall>>
  BY NextRefines
<1> SUFFICES ASSUME SerialOpens PROVE Spec => KeepsContract
  OBVIOUS
<1> QED BY <1>1, <1>2, <1>3, <1>4, PTL DEF Spec, KeepsContract, C!Spec
=============================================================================
