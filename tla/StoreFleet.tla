------------------------------ MODULE StoreFleet ------------------------------
(***************************************************************************)
(* Processes that share a durable store.  Each opens it, then makes one    *)
(* call after the other; a call is a sequence of sections, and a section   *)
(* is executed (Apply) and then answered (Reply).  A connection may break  *)
(* before or after the section was executed, a process may crash anywhere, *)
(* and Redis may evict the marker of the schema.                           *)
(***************************************************************************)
EXTENDS Integers, Sequences, FiniteSets

CONSTANTS Nodes, Keys, Seqs, Ops, Nil,
          Backends,     \* the backends to look at
          SerialOpens,  \* whether no two processes open the store at once
          MaxCalls,     \* bound: calls in all
          MaxFaults     \* bound: broken connections, crashes, evictions

\* The absence of a row is no value that is stored.
ASSUME NilAssumption ==
  /\ Nil \notin {"NULL", "null", "[]", "[p]", "secret", "denied", "v1 usage", "v1", "v3"}
  /\ Nil \notin Nodes /\ Nil \notin Int
  /\ \A S \in SUBSET Keys : S # Nil
  /\ \A S \in SUBSET [seq : Seqs, digest : Nodes] : S # Nil
  /\ Nil \notin [{"req", "tok"} -> Int]
  /\ Nil \notin [read : [{"req", "tok"} -> Int], owed : [{"req", "tok"} -> Int]]

ASSUME BackendsAssumption == Backends \subseteq {"sqlite", "postgres", "redis"}

VARIABLES backend, db, node, calls, faults,
          drawn         \* ids that a mint has drawn

vars == <<backend, db, node, calls, faults, drawn>>

Sqlite   == INSTANCE SqliteStore
Postgres == INSTANCE PostgresStore
Redis    == INSTANCE RedisStore

Unread == [marker |-> 0, legacy |-> {}, names |-> {}, ids |-> {}]

Down == [at |-> "down"]
Ready == [at |-> "idle"]
Done == [at |-> "done"]          \* idle, and its last call was answered Ok
Lost == [at |-> "lost"]          \* a connection that is not made again

View(d) ==
  CASE backend = "sqlite"   -> Sqlite!View(d)
    [] backend = "postgres" -> Postgres!View(d)
    [] backend = "redis"    -> Redis!View(d)

view == View(db)

Program(c, got) ==
  CASE backend = "sqlite"   -> Sqlite!Program(c)
    [] backend = "postgres" -> Postgres!Program(c)
    [] backend = "redis"    -> Redis!Program(c, got)

Section(n) == Program(node[n].call, node[n].got)[node[n].pc]

Executed(n) ==
  LET st == [db |-> db, got |-> node[n].got]
  IN  CASE backend = "sqlite"   -> Sqlite!Run(st, Section(n))
        [] backend = "postgres" -> Postgres!Run(st, Section(n))
        [] backend = "redis"    -> Redis!Run(st, Section(n).cmds)

\* The tables a statement of this build names are there, in their new shape.
Usable(c) == IF c.op = "open" \/ backend = "redis" THEN TRUE ELSE Sqlite!Current(db)

Busy(n) == node[n].at \in {"ask", "told"}

Opening(n) == Busy(n) /\ node[n].call.op = "open"

InCall(n) == Busy(n) /\ ~Opening(n)

-----------------------------------------------------------------------------
(***************************************************************************)
(* The states a store is found in: fresh, left by an older build, or with  *)
(* what this build has written.                                            *)
(***************************************************************************)
SqlStates ==
  {Sqlite!Database("none", "none", 0), Sqlite!Database("old", "old", 3),
   Sqlite!Database("new", "new", 4)}

RedisStates ==
  {Redis!EmptyNamespace}
  \cup {[Redis!EmptyNamespace EXCEPT ![Redis!OLD] = v] : v \in {"v1 usage", "v1"}}
  \cup {[Redis!EmptyNamespace EXCEPT ![Redis!OLD] = "v3", ![Redis!SCHEMA_KEY] = 3],
        [Redis!EmptyNamespace EXCEPT ![Redis!SCHEMA_KEY] = 4]}

Init ==
  /\ backend \in Backends
  /\ db \in IF backend = "redis" THEN RedisStates ELSE SqlStates
  /\ node = [n \in Nodes |-> Down]
  /\ calls = 0 /\ faults = 0 /\ drawn = {}

\* The call a process is in, as the contract sees it.
inCall ==
  [n \in Nodes |->
     CASE InCall(n) -> [is |-> node[n].phase, call |-> node[n].call, had |-> node[n].had]
       [] ~InCall(n) /\ node[n] = Done -> [is |-> "answered"]
       [] ~InCall(n) /\ node[n] # Done -> [is |-> "idle"]]

C == INSTANCE StoreContract WITH data <- view, call <- inCall

\* A ghost: what a deletion has found at every moment of the call.
Watched(ns, v) ==
  [n \in Nodes |-> IF "call" \in DOMAIN ns[n]
                   THEN [ns[n] EXCEPT !.had = @ \cap C!Found(v, ns[n].call)]
                   ELSE ns[n]]

Started(c) ==
  [at |-> "ask", call |-> c, pc |-> 1, retried |-> FALSE, phase |-> "invoked", got |-> Unread,
   had |-> C!Found(view, c)]

Open(n) ==
  /\ node[n] = Down
  /\ SerialOpens => \A m \in Nodes : ~Opening(m)
  /\ node' = [node EXCEPT ![n] = Started([op |-> "open"])]
  /\ UNCHANGED <<backend, db, calls, faults, drawn>>

\* An id is drawn once; a key is written again or deleted where it is seen,
\* and charged once it has been there.
Sensible(c) ==
  /\ c.op = "mint" => c.key \notin drawn
  /\ c.op = "put_key" => c.key \notin drawn \/ view.keys[c.key] # Nil
  /\ c.op \in {"delete_key", "add_denylist"} => view.keys[c.key] # Nil
  /\ c.op \in {"add_usage", "put_usage", "add_metering"} => c.key \in drawn

Begin(n, c) ==
  /\ node[n] \in {Ready, Done}
  /\ calls < MaxCalls
  /\ Sensible(c)
  /\ node' = [node EXCEPT ![n] = Started(c)]
  /\ drawn' = IF c.op \in {"mint", "put_key"} THEN drawn \cup {c.key} ELSE drawn
  /\ calls' = calls + 1
  /\ UNCHANGED <<backend, db, faults>>

Apply(n) ==
  /\ node[n].at = "ask"
  /\ Usable(node[n].call)
  /\ LET st   == Executed(n)
         last == node[n].pc = Len(Program(node[n].call, st.got))
     IN  /\ db' = st.db
         /\ node' = Watched([node EXCEPT ![n].at = "told", ![n].got = st.got,
                                         ![n].phase = IF last THEN "taken" ELSE @],
                            View(st.db))
  /\ UNCHANGED <<backend, calls, faults, drawn>>

\* Where a call that has ended leaves its process.
AfterOk(n) ==
  CASE InCall(n) -> Done
    [] Opening(n) -> IF backend = "redis" /\ Redis!Refuses(node[n].got) THEN Down ELSE Ready

AfterError(n) ==
  CASE Opening(n) -> Down
    [] ~Opening(n) /\ backend = "postgres" -> Lost
    [] ~Opening(n) /\ backend # "postgres" -> Ready

Reply(n) ==
  /\ node[n].at = "told"
  /\ node' = [node EXCEPT ![n] =
                IF node[n].pc = Len(Program(node[n].call, node[n].got)) THEN AfterOk(n)
                ELSE [node[n] EXCEPT !.at = "ask", !.pc = node[n].pc + 1, !.retried = FALSE]]
  /\ UNCHANGED <<backend, db, calls, faults, drawn>>

\* The statement names a table that is not there.
Reject(n) ==
  /\ node[n].at = "ask"
  /\ ~Usable(node[n].call)
  /\ node' = [node EXCEPT ![n] = Ready]
  /\ UNCHANGED <<backend, db, calls, faults, drawn>>

\* `run` of the Redis backend: once more on a new connection, or the error.
run(n) ==
  IF backend = "redis" /\ Section(n).retry /\ ~node[n].retried
  THEN [node[n] EXCEPT !.at = "ask", !.retried = TRUE]
  ELSE AfterError(n)

\* The connection breaks before the section is executed, or SQLite refuses it.
Break(n) ==
  /\ node[n].at = "ask" /\ faults < MaxFaults
  /\ node' = [node EXCEPT ![n] = run(n)]
  /\ faults' = faults + 1
  /\ UNCHANGED <<backend, db, calls, drawn>>

\* The section was executed and its answer is lost.
LoseReply(n) ==
  /\ node[n].at = "told" /\ backend # "sqlite" /\ faults < MaxFaults
  /\ node' = [node EXCEPT ![n] = run(n)]
  /\ faults' = faults + 1
  /\ UNCHANGED <<backend, db, calls, drawn>>

Crash(n) ==
  /\ node[n] # Down
  /\ node[n] = Lost \/ faults < MaxFaults
  /\ node' = [node EXCEPT ![n] = Down]
  /\ faults' = IF node[n] = Lost THEN faults ELSE faults + 1
  /\ UNCHANGED <<backend, db, calls, drawn>>

EvictMarker ==
  /\ backend = "redis" /\ faults < MaxFaults
  /\ db[Redis!SCHEMA_KEY] # Nil
  /\ db' = [db EXCEPT ![Redis!SCHEMA_KEY] = Nil]
  /\ faults' = faults + 1
  /\ UNCHANGED <<backend, node, calls, drawn>>

Next ==
  \/ \E n \in Nodes :
       \/ Open(n) \/ Apply(n) \/ Reply(n) \/ Reject(n) \/ Break(n) \/ LoseReply(n) \/ Crash(n)
       \/ \E c \in C!Calls : Begin(n, c)
  \/ EvictMarker

Spec == Init /\ [][Next]_vars

-----------------------------------------------------------------------------
(***************************************************************************)
(* Every backend keeps the contract of the `Store` trait: whatever breaks, *)
(* the calls take effect whole, those that add once at most, an opening    *)
(* touches nothing that this build has written, and what is read back is   *)
(* what was written.                                                       *)
(***************************************************************************)
KeepsContract == C!Spec

(***************************************************************************)
(* A process that has opened a Postgres or Redis store finds this build's  *)
(* layout, whatever an older build left and wherever an earlier opening    *)
(* was cut short (store-postgres and store-redis migrate).                 *)
(***************************************************************************)
OpenedIsCurrent ==
  \A n \in Nodes : (node[n] \in {Ready, Done} \/ InCall(n)) =>
    CASE backend = "sqlite"   -> TRUE
      [] backend = "postgres" -> Postgres!Current(db)
      [] backend = "redis"    -> db[Redis!OLD] = Nil
=============================================================================
