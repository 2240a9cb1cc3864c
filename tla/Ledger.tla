------------------------------- MODULE Ledger -------------------------------
(***************************************************************************)
(* The governance ledger (governance/state.rs, governance/mod.rs): the     *)
(* admission of a request against the limits of its key's group chain, the *)
(* refund and the token accrual that settle it, the write-behind flush of  *)
(* the in-memory cells to the durable store, and the crash, graceful stop  *)
(* and restart of the process.                                             *)
(*                                                                         *)
(* What is atomic here is what is atomic in the code: one compare-and-swap *)
(* of a concurrency gauge, one acquisition of a shard lock, the check and  *)
(* the charge under all the locks, one cell under its shard lock, one      *)
(* add_usage call of the store.                                            *)
(***************************************************************************)
EXTENDS Integers, FiniteSets, Sequences

CONSTANTS
  None,            \* no cap, no pool scope, nobody
  Requests,        \* requests that carry a key; each arrives at most once
  Groups,          \* groups with a `concurrent` cap
  Buckets,         \* ledger buckets: a key's own, or one (group, window) pair
  Pools,
  Chain,           \* Chain[r]: the buckets of r's key, innermost first
  Gauges,          \* Gauges[r]: the capped groups of the chain, innermost first
  Asked,           \* Asked[r]: the pool the request names
  Allowed,         \* Allowed[r]: the pools the key, and their fallbacks, may use
  Limit,           \* Limit[b]: the caps, window and scope of a bucket
  ConcurrentCap,   \* ConcurrentCap[g]
  GovShards,       \* GOV_SHARDS: the number of shards of the map
  Shard,           \* Shard[b]: the index of the shard that holds the cell
  Fee,             \* price_per_request_cents
  Rate,            \* the rate card: cents per token
  Usage,           \* Usage[r]: the token counts its response may report
  MaxAge,          \* the sweep drops cells older than this: 31 days
  MaxLag,          \* ticks between the pinned arrival epoch and the admission
  Start, MaxNow,   \* the clock runs from Start to MaxNow
  MaxStops,        \* how often the process stops
  Scenarios        \* which requests arrive, and what else may happen

Windows == 0 .. MaxNow

ASSUME LedgerAssumption ==
  /\ IsFiniteSet(Requests)
  /\ None \notin Requests \cup Pools \cup Int
  /\ Chain \in [Requests -> Seq(Buckets)]
  \* A chain begins with the key's own bucket, which counts in every pool.
  /\ \A r \in Requests : Chain[r] # <<>> /\ Limit[Chain[r][1]].pool = None
  /\ Gauges \in [Requests -> Seq(Groups)]
  /\ Asked \in [Requests -> Pools]
  /\ Allowed \in [Requests -> SUBSET Pools]
  /\ Limit \in [Buckets -> [requests : Nat \cup {None}, tokens : Nat \cup {None},
                            budget : Nat \cup {None}, period : Nat,
                            pool : Pools \cup {None}, downgrade : Pools \cup {None}]]
  /\ ConcurrentCap \in [Groups -> Nat]
  /\ GovShards \in Nat
  /\ Shard \in [Buckets -> 0 .. GovShards - 1]
  /\ Fee \in Nat /\ Rate \in Nat /\ Usage \in [Requests -> SUBSET Nat]
  /\ Start \in Nat /\ MaxNow \in Nat /\ Start <= MaxNow
  /\ MaxAge \in Nat /\ MaxLag \in Nat /\ MaxStops \in Nat
  \* No window is longer than the sweep's horizon; a month of 31 days is as long.
  /\ \A b \in Buckets : Limit[b].period <= MaxAge
  \* One gauge per group and one cell per bucket in a chain: no cycle of parents.
  /\ \A r \in Requests : \A i, j \in DOMAIN Gauges[r] :
        Gauges[r][i] = Gauges[r][j] => i = j
  /\ Scenarios \subseteq [arrive : SUBSET Requests, until : Start .. MaxNow,
                          flush : BOOLEAN,
                          faults : SUBSET {"error", "lost"},
                          stops : SUBSET {"crash", "graceful"}]

VARIABLES
  now,        \* the wall clock
  scenario,   \* chosen once
  phase,      \* "up", "draining" after the shutdown signal, "down"
  req,        \* the requests
  gauge,      \* GovState::concurrent
  locks,      \* the owner of each shard's write lock, while an admission holds it
  cells,      \* GovState::budget
  durable,    \* the store: one ledger for each bucket and window
  flush,      \* the running flush of the background task and of main
  landed,     \* history: the window that each charge of a request landed in
  forgotten,  \* history: the requests a crash made the ledger forget
  stops,      \* history: how often the process stopped
  trouble     \* history: "lost" acks, store "error"s and a "graceful" stop so far

vars == <<now, scenario, phase, req, gauge, locks, cells, durable, flush,
          landed, forgotten, stops, trouble>>

ledger  == <<cells, durable, landed>>
process == <<now, scenario, phase, stops, forgotten>>

(***************************************************************************)
(* Cells                                                                   *)
(***************************************************************************)
\* budget_window: the start of the window of the bucket that holds t; a period
\* of 0 is the all-time window.
Window(b, t) ==
  IF Limit[b].period = 0 THEN 0 ELSE (t \div Limit[b].period) * Limit[b].period

\* The per-model, per-tier token counters are one counter.
Counters == {"requests", "billable", "tokens"}

\* BudgetCell
Fresh(w) ==
  [window |-> w, requests |-> 0, billable |-> 0, tokens |-> 0,
   flushed |-> [k \in Counters |-> 0], dirty |-> FALSE]

\* A bucket without a cell: it is older than every window and has nothing to
\* flush, which is how each reader of the map treats a missing entry.
Absent == Fresh(-1)

\* A cell of an older window is reset; one of the same or a newer window is
\* used in place, so that a request that straddles a boundary never rewinds it.
Rolled(c, w) == IF w > c.window THEN Fresh(w) ELSE c

Charged(c) == [c EXCEPT !.requests = @ + 1, !.billable = @ + 1, !.dirty = TRUE]

Accrued(c, t) == [c EXCEPT !.tokens = @ + t, !.dirty = TRUE]

\* saturating_sub and saturating_add_signed
Floor(n) == IF n < 0 THEN 0 ELSE n

\* Only the window that was charged is refunded, and only its fee base.
Refunded_Blind(c, w) == [c EXCEPT !.billable = Floor(@ - 1), !.dirty = TRUE]

Refunded(c, w) ==
  IF c.window = w THEN [c EXCEPT !.billable = Floor(@ - 1), !.dirty = TRUE] ELSE c

\* derive_spend_cents
Spend(c) == Rate * c.tokens + Fee * c.billable

(***************************************************************************)
(* Requests                                                                *)
(***************************************************************************)
NoRequest == [pc |-> "new", at |-> 0, pool |-> None, visited |-> {}, held |-> {},
              job |-> "none", todo |-> {}, tokens |-> 0, after |-> "refused"]

\* applies_to_pool
Applies(b, pool) == Limit[b].pool \in {None, pool}

\* The positions of the chain that take part in the request, and their buckets.
Applying(r) == {i \in DOMAIN Chain[r] : Applies(Chain[r][i], req[r].pool)}

ChargedBuckets(r) == {Chain[r][i] : i \in Applying(r)}

NeededShards(r) == {Shard[b] : b \in ChargedBuckets(r)}

Shards == {Shard[b] : b \in Buckets}

HeldShards(r) == {s \in Shards : locks[s] = r}

Unlocked(b) == locks[Shard[b]] = None

Least(S) == CHOOSE n \in S : \A m \in S : n <= m

Admission == {"gauges", "locking", "check", "rollback"}

Settled == {"new", "refused", "done", "dead"}

\* Where an admission begins: at its first gauge, if the chain has one.
Entry(r) == IF Gauges[r] = <<>> THEN "locking" ELSE "gauges"

(***************************************************************************)
(* Admission: admit_check and try_admit                                    *)
(***************************************************************************)
\* governance_guard.  The arrival epoch is pinned.  The key may not reach the
\* pool or a fallback of it, the model may have no rate, and the snapshot of the
\* configuration may have frozen a group of the chain or not know it: refused
\* before anything is taken.
Arrive(r) ==
  /\ phase = "up"
  /\ r \in scenario.arrive
  /\ req[r].pc = "new"
  /\ \/ req' = [req EXCEPT ![r].pc = "refused"]
     \/ req' = [req EXCEPT ![r] = [@ EXCEPT !.pc = Entry(r), !.at = now, !.pool = Asked[r]]]
  /\ UNCHANGED <<process, gauge, locks, ledger, flush, trouble>>

\* Give back what has been taken, gauge by gauge, and go on to `after`.
Retreat(r, after, pool, visited) ==
  req' = [req EXCEPT ![r] = [@ EXCEPT
            !.pc = IF req[r].held = {} THEN after ELSE "rollback",
            !.after = after, !.pool = pool, !.visited = visited]]

NextGauge(r) == Gauges[r][Cardinality(req[r].held) + 1]

\* One compare-and-increment of fetch_update.
TakeGauge(r) ==
  LET g == NextGauge(r)
      held == req[r].held \cup {g}
  IN  /\ req[r].pc = "gauges"
      /\ gauge[g] < ConcurrentCap[g]
      /\ gauge' = [gauge EXCEPT ![g] = @ + 1]
      /\ req' = [req EXCEPT ![r] = [@ EXCEPT !.held = held,
            !.pc = IF Cardinality(held) = Len(Gauges[r]) THEN "locking" ELSE "gauges"]]
      /\ UNCHANGED <<process, locks, ledger, flush, trouble>>

GaugeFull(r) ==
  /\ req[r].pc = "gauges"
  /\ gauge[NextGauge(r)] >= ConcurrentCap[NextGauge(r)]
  /\ Retreat(r, "refused", req[r].pool, req[r].visited)
  /\ UNCHANGED <<process, gauge, locks, ledger, flush, trouble>>

NextShard_ChainOrder(r) ==
  LET left == {i \in Applying(r) : Shard[Chain[r][i]] \notin HeldShards(r)}
  IN  Shard[Chain[r][Least(left)]]

\* Ascending shard order, each shard once.
NextShard(r) == Least(NeededShards(r) \ HeldShards(r))

\* The sweep that now and then runs when a shard is locked.
Swept(c, at) == IF c.window > 0 /\ c.window + MaxAge <= at THEN Absent ELSE c

LockShard(r) ==
  /\ req[r].pc = "locking"
  /\ locks[NextShard(r)] = None
  /\ locks' = [locks EXCEPT ![NextShard(r)] = r]
  /\ \E sweep \in BOOLEAN :
       cells' = [b \in Buckets |-> IF sweep /\ Shard[b] = NextShard(r)
                                   THEN Swept(cells[b], req[r].at) ELSE cells[b]]
  /\ req' = [req EXCEPT ![r].pc =
               IF NeededShards(r) \ HeldShards(r) = {NextShard(r)} THEN "check" ELSE @]
  /\ UNCHANGED <<process, gauge, durable, landed, flush, trouble>>

Unlock(r) == locks' = [s \in Shards |-> IF locks[s] = r THEN None ELSE locks[s]]

Metric_SameWindowOnly(b, at) ==
  LET c == IF cells[b].window = Window(b, at) THEN cells[b] ELSE Fresh(Window(b, at))
      l == Limit[b]
  IN  IF l.requests # None /\ c.requests + 1 > l.requests THEN "requests" ELSE "none"

\* The check reads the cell that the charge would land on.
Metric(b, at) ==
  LET c == Rolled(cells[b], Window(b, at))
      l == Limit[b]
  IN  CASE l.requests # None /\ c.requests + 1 > l.requests -> "requests"
        [] l.tokens # None /\ c.tokens >= l.tokens -> "tokens"
        [] l.budget # None /\ (Spend(c) >= l.budget \/ Spend(c) + Fee > l.budget) -> "budget"
        [] OTHER -> "none"

BlockedAt(r) == {i \in Applying(r) : Metric(Chain[r][i], req[r].at) # "none"}

\* Every bucket is charged in the critical section that checked them all.
Charge(r) ==
  /\ req[r].pc = "check"
  /\ BlockedAt(r) = {}
  /\ cells' = [b \in Buckets |->
                 IF b \in ChargedBuckets(r)
                 THEN Charged(Rolled(cells[b], Window(b, req[r].at))) ELSE cells[b]]
  /\ landed' = [landed EXCEPT ![r] = [b \in Buckets |->
                 IF b \in ChargedBuckets(r) THEN cells'[b].window ELSE @[b]]]
  /\ Unlock(r)
  /\ req' = [req EXCEPT ![r].pc = "flight"]
  /\ UNCHANGED <<process, gauge, durable, flush, trouble>>

\* The pool that the first blocking bucket, if it is a budget, downgrades to.
DowngradeTo(r) ==
  LET b == Chain[r][Least(BlockedAt(r))]
  IN  IF Metric(b, req[r].at) = "budget" THEN Limit[b].downgrade ELSE None

MayDowngrade(r) ==
  /\ DowngradeTo(r) \in Allowed[r] \ req[r].visited
  /\ Cardinality(req[r].visited) < Cardinality(Pools)

\* Nothing is charged; the holds go back, and the request is refused or admitted
\* again through the cheaper pool.
Blocked(r) ==
  /\ req[r].pc = "check"
  /\ BlockedAt(r) # {}
  /\ Unlock(r)
  /\ \/ /\ MayDowngrade(r)
        /\ Retreat(r, Entry(r), DowngradeTo(r), req[r].visited \cup {DowngradeTo(r)})
     \/ /\ ~MayDowngrade(r)
        /\ Retreat(r, "refused", req[r].pool, req[r].visited)
  /\ UNCHANGED <<process, gauge, ledger, flush, trouble>>

(***************************************************************************)
(* Settling: finish_admitted, record_usage and the drop of the grant       *)
(***************************************************************************)
\* The work that is left when a request ends; `job` stays as its history.
Close(r, job, todo, tokens) ==
  req' = [req EXCEPT ![r] = [@ EXCEPT
            !.pc = IF todo = {} /\ req[r].held = {} THEN "done" ELSE "closing",
            !.job = job, !.todo = todo, !.tokens = tokens]]

\* A response other than 2xx.
Fail(r) ==
  /\ req[r].pc = "flight"
  /\ Close(r, "refund", ChargedBuckets(r), 0)
  /\ UNCHANGED <<process, gauge, locks, ledger, flush, trouble>>

\* The stream ended with some usage; none when the client went away first.
Serve(r) ==
  /\ req[r].pc = "flight"
  /\ \E t \in Usage[r] :
       Close(r, "accrue", IF t = 0 THEN {} ELSE ChargedBuckets(r), t)
  /\ UNCHANGED <<process, gauge, locks, ledger, flush, trouble>>

\* refund_bucket or accrue_bucket, under the bucket's shard lock.
SettleBucket(r) ==
  /\ req[r].pc = "closing"
  /\ \E b \in req[r].todo :
       /\ Unlocked(b)
       /\ LET w == Window(b, req[r].at)
          IN  cells' = [cells EXCEPT ![b] =
                 IF req[r].job = "refund" THEN Refunded(@, w)
                 ELSE Accrued(Rolled(@, w), req[r].tokens)]
       /\ req' = [req EXCEPT ![r] = [@ EXCEPT !.todo = req[r].todo \ {b},
            !.pc = IF req[r].todo = {b} /\ req[r].held = {} THEN "done" ELSE "closing"]]
  /\ UNCHANGED <<process, gauge, locks, durable, landed, flush, trouble>>

ReleaseGauge_Leaks(r) ==
  /\ req[r].pc = "rollback"
  /\ req' = [req EXCEPT ![r] = [@ EXCEPT !.held = {}, !.pc = req[r].after]]
  /\ UNCHANGED <<process, gauge, locks, ledger, flush, trouble>>

\* AdmitGrant's Drop.  Usage is recorded before the stream lets go of the grant.
ReleaseGauge(r) ==
  /\ \/ req[r].pc = "rollback"
     \/ req[r].pc = "closing" /\ (req[r].job = "accrue" => req[r].todo = {})
  /\ \E g \in req[r].held :
       /\ gauge' = [gauge EXCEPT ![g] = @ - 1]
       /\ req' = [req EXCEPT ![r] = [@ EXCEPT !.held = req[r].held \ {g},
            !.pc = CASE req[r].held # {g} -> req[r].pc
                     [] req[r].held = {g} /\ req[r].pc = "rollback" -> req[r].after
                     [] req[r].held = {g} /\ req[r].pc = "closing" ->
                          IF req[r].todo = {} THEN "done" ELSE "closing"]]
  /\ UNCHANGED <<process, locks, ledger, flush, trouble>>

(***************************************************************************)
(* The write-behind flush: flush_budgets                                   *)
(***************************************************************************)
Flushers == {"task", "main"}

Idle == [pc |-> "idle", last |-> FALSE, shards |-> {}, snaps |-> {}, ack |-> {}]

Current(c) == [k \in Counters |-> c[k]]

\* A dirty cell's delta since its acknowledged baseline, and the baseline to be.
Snapshot(b) ==
  [bucket |-> b, window |-> cells[b].window, current |-> Current(cells[b]),
   delta |-> [k \in Counters |-> cells[b][k] - cells[b].flushed[k]]]

\* The background task flushes on its tick, one flush at a time, and once more
\* after the shutdown signal; main flushes once when the listeners have drained,
\* without the task's gate.
MayFlush(f) ==
  /\ flush[f].pc = "idle"
  /\ \/ f = "task" /\ phase = "up" /\ scenario.flush
     \/ f = "task" /\ phase = "draining"
     \/ f = "main" /\ phase = "draining" /\ \A r \in Requests : req[r].pc \in Settled

StartFlush(f) ==
  /\ MayFlush(f)
  /\ flush' = [flush EXCEPT ![f] =
                 [Idle EXCEPT !.pc = "scan", !.last = (phase = "draining"), !.shards = Shards]]
  /\ UNCHANGED <<process, req, gauge, locks, ledger, trouble>>

Resting(f) == [Idle EXCEPT !.pc = IF flush[f].last THEN "ended" ELSE "idle"]

\* One shard: snapshot its dirty cells and clear their flags.
ScanShard(f) ==
  LET s == Least(flush[f].shards)
      dirty == {b \in Buckets : Shard[b] = s /\ cells[b].dirty}
      snaps == flush[f].snaps \cup {Snapshot(b) : b \in dirty}
      left == flush[f].shards \ {s}
  IN  /\ flush[f].pc = "scan"
      /\ locks[s] = None
      /\ cells' = [b \in Buckets |-> [cells[b] EXCEPT !.dirty = @ /\ b \notin dirty]]
      /\ flush' = [flush EXCEPT ![f] =
           IF left # {} THEN [@ EXCEPT !.shards = left, !.snaps = snaps]
           ELSE IF snaps = {} THEN Resting(f)
           ELSE [@ EXCEPT !.pc = "write", !.shards = {}, !.snaps = snaps]]
      /\ UNCHANGED <<process, req, gauge, locks, durable, landed, trouble>>

ZeroDelta(snap) == \A k \in Counters : snap.delta[k] = 0

\* Store::add_usage adds the delta, floored at 0.
AddUsage(snap) ==
  durable' = [durable EXCEPT ![snap.bucket][snap.window] =
                [k \in Counters |-> Floor(@[k] + snap.delta[k])]]

\* The store takes the delta, refuses it, or takes it and the answer is lost
\* (once: each loss adds to the durable record).
WriteUsage(f) ==
  /\ flush[f].pc = "write"
  /\ \E snap \in flush[f].snaps :
       \/ /\ IF ZeroDelta(snap) THEN UNCHANGED durable ELSE AddUsage(snap)
          /\ flush' = [flush EXCEPT ![f] = [@ EXCEPT !.pc = "acked", !.ack = {snap}]]
          /\ UNCHANGED trouble
       \/ \E fault \in scenario.faults \ (trouble \cap {"lost"}) :
          /\ ~ZeroDelta(snap)
          /\ IF fault = "lost" THEN AddUsage(snap) ELSE UNCHANGED durable
          /\ flush' = [flush EXCEPT ![f] = [@ EXCEPT !.pc = "failed", !.ack = {snap}]]
          /\ trouble' = trouble \cup {fault}
  /\ UNCHANGED <<process, req, gauge, locks, cells, landed>>

Acknowledged_AnyWindow(c, snap, ok) ==
  IF ok THEN [c EXCEPT !.flushed = snap.current] ELSE [c EXCEPT !.dirty = TRUE]

Acknowledged_KeepsBaseline(c, snap, ok) ==
  IF c.window = snap.window /\ ~ok THEN [c EXCEPT !.dirty = TRUE] ELSE c

\* The baseline moves on a success; a failed delta is marked for the next tick.
\* A cell that rolled since the snapshot has baselines of its own.
Acknowledged(c, snap, ok) ==
  CASE c.window # snap.window -> c
    [] c.window = snap.window /\ ok -> [c EXCEPT !.flushed = snap.current]
    [] OTHER -> [c EXCEPT !.dirty = TRUE]

Acknowledge(f) ==
  /\ flush[f].pc \in {"acked", "failed"}
  /\ \E snap \in flush[f].ack :
       /\ Unlocked(snap.bucket)
       /\ cells' = [cells EXCEPT ![snap.bucket] =
                      Acknowledged(@, snap, flush[f].pc = "acked")]
       /\ flush' = [flush EXCEPT ![f] =
            IF flush[f].snaps = {snap} THEN Resting(f)
            ELSE [@ EXCEPT !.pc = "write", !.snaps = flush[f].snaps \ {snap}, !.ack = {}]]
  /\ UNCHANGED <<process, req, gauge, locks, durable, landed, trouble>>

(***************************************************************************)
(* The process                                                             *)
(***************************************************************************)
Larger(m, n) == IF m < n THEN n ELSE m

Count(b, w) == Cardinality({r \in Requests : landed[r][b] = w})

\* An admission does not take long: the clock waits for it past MaxLag.
Tick ==
  /\ now < scenario.until
  /\ \A r \in Requests : req[r].pc \in Admission => now < req[r].at + MaxLag
  /\ now' = now + 1
  /\ UNCHANGED <<scenario, phase, stops, forgotten, req, gauge, locks, ledger, flush, trouble>>

\* The signal: the listeners stop accepting and what is in flight drains.
Shutdown ==
  /\ phase = "up"
  /\ "graceful" \in scenario.stops
  /\ stops < MaxStops
  /\ phase' = "draining"
  /\ trouble' = trouble \cup {"graceful"}
  /\ UNCHANGED <<now, scenario, stops, forgotten, req, gauge, locks, ledger, flush>>

\* main has flushed, and the runtime waits for a blocking task that has begun.
MayExit ==
  /\ phase = "draining"
  /\ flush["main"].pc = "ended"
  /\ flush["task"].pc \in {"idle", "ended"}

\* Memory is gone; what the store does not have is forgotten, beyond what an
\* earlier stop made the ledger forget.
Die ==
  /\ phase' = "down"
  /\ stops' = stops + 1
  /\ req' = [r \in Requests |-> IF req[r].pc \in Settled THEN req[r]
                                ELSE [req[r] EXCEPT !.pc = "dead", !.held = {}, !.todo = {}]]
  /\ gauge' = [g \in Groups |-> 0]
  /\ locks' = [s \in Shards |-> None]
  /\ cells' = [b \in Buckets |-> Absent]
  /\ flush' = [f \in Flushers |-> Idle]
  /\ forgotten' = [b \in Buckets |-> [w \in Windows |->
                     Larger(forgotten[b][w], Count(b, w) - durable[b][w].requests)]]
  /\ UNCHANGED <<now, scenario, durable, landed, trouble>>

Exit == MayExit /\ Die

Crash ==
  /\ phase \in {"up", "draining"}
  /\ "crash" \in scenario.stops
  /\ stops < MaxStops
  /\ Die

\* hydrate_budgets: the cell of the current window, with the durable record as
\* its baseline.  A fee base of 0 beside a request count is taken for an old row.
Hydrated(b) ==
  LET d == durable[b][Window(b, now)]
      c == [d EXCEPT !.billable = IF @ = 0 THEN d.requests ELSE @]
  IN  IF d.requests = 0 /\ d.tokens = 0 THEN Absent
      ELSE [Fresh(Window(b, now)) EXCEPT
              !.requests = c.requests, !.billable = c.billable, !.tokens = c.tokens,
              !.flushed = c]

Boot ==
  /\ phase = "down"
  /\ phase' = "up"
  /\ cells' = [b \in Buckets |-> Hydrated(b)]
  /\ UNCHANGED <<now, scenario, stops, forgotten, req, gauge, locks, durable, landed,
                 flush, trouble>>

(***************************************************************************)
(* The specification                                                       *)
(***************************************************************************)
Init ==
  /\ now = Start
  /\ scenario \in Scenarios
  /\ phase = "up"
  /\ req = [r \in Requests |-> NoRequest]
  /\ gauge = [g \in Groups |-> 0]
  /\ locks = [s \in Shards |-> None]
  /\ cells = [b \in Buckets |-> Absent]
  /\ durable = [b \in Buckets |-> [w \in Windows |-> [k \in Counters |-> 0]]]
  /\ flush = [f \in Flushers |-> Idle]
  /\ landed = [r \in Requests |-> [b \in Buckets |-> -1]]
  /\ forgotten = [b \in Buckets |-> [w \in Windows |-> 0]]
  /\ stops = 0
  /\ trouble = {}

Admit(r) == TakeGauge(r) \/ GaugeFull(r) \/ LockShard(r) \/ Charge(r) \/ Blocked(r)

Settle(r) == Fail(r) \/ Serve(r) \/ SettleBucket(r) \/ ReleaseGauge(r)

FlushStep(f) == ScanShard(f) \/ WriteUsage(f) \/ Acknowledge(f)

Next ==
  \/ \E r \in Requests : Arrive(r) \/ Admit(r) \/ Settle(r)
  \/ \E f \in Flushers : StartFlush(f) \/ FlushStep(f)
  \/ Tick \/ Shutdown \/ Exit \/ Crash \/ Boot

Spec == Init /\ [][Next]_vars

(***************************************************************************)
(* Properties                                                              *)
(***************************************************************************)
Amounts == [Counters -> Nat]

Cells == [window : Windows \cup {-1}, requests : Nat, billable : Nat, tokens : Nat,
          flushed : Amounts, dirty : BOOLEAN]

Steps == Admission \cup Settled \cup {"flight", "closing"}

RequestStates ==
  [pc : Steps, at : Windows,
   pool : Pools \cup {None}, visited : SUBSET Pools, held : SUBSET Groups,
   job : {"none", "refund", "accrue"}, todo : SUBSET Buckets, tokens : Nat,
   after : {"refused", "gauges", "locking"}]

Snapshots == [bucket : Buckets, window : Windows, current : Amounts,
              delta : [Counters -> Int]]

Holders(g) == {r \in Requests : g \in req[r].held}

\* A group's gauge counts exactly the requests that hold it, through rollbacks,
\* downgrades and every way a request ends, and never passes its cap
\* (try_admit's compare-and-increment, AdmitGrant's Drop).
GaugeExact ==
  \A g \in Groups : gauge[g] = Cardinality(Holders(g)) /\ gauge[g] <= ConcurrentCap[g]

\* The windows that the sweep has not reached: until then a cell is not dropped,
\* to be made anew by a request that outlived it.
Kept(b, w) == Limit[b].period = 0 \/ now < w + MaxAge

\* The buckets that no admission can outlive: the horizon leaves the stragglers of
\* a window the time to finish.  It does for every window but a 31-day month.
Outlasts(b) == Limit[b].period + MaxLag <= MaxAge

\* The windows whose cell no charge can meet a second time.
Firm(b, w) == Outlasts(b) \/ Kept(b, w)

\* However the admissions of a window race and straddle its boundary, no more
\* requests are charged to it than its cap, plus those that a stop of the
\* process made the ledger forget (try_admit, hydrate_budgets).  A window as long
\* as the horizon keeps its cap until it is over: a straggler of it that comes
\* after a sweep of the next one meets a new cell.
RequestsCapHolds ==
  \A b \in Buckets : Limit[b].requests # None =>
    \A w \in Windows : Firm(b, w) =>
      Count(b, w) <= Limit[b].requests + forgotten[b][w]

Refund(r, b) == req[r].job = "refund" /\ b \notin req[r].todo

\* A refund takes back the fee of its own request only: the fee base of a window
\* covers every request charged to it that has not been refunded
\* (refund_bucket, and the flush of the deltas it makes negative).
FeeBaseCovers ==
  trouble \cap {"lost", "graceful"} = {} =>
    \A b \in Buckets : LET w == cells[b].window IN w >= 0 /\ Kept(b, w) =>
      cells[b].billable + forgotten[b][w]
        >= Cardinality({r \in Requests : landed[r][b] = w /\ ~Refund(r, b)})

NotAhead ==
  \A b \in Buckets : \A w \in Windows :
    Firm(b, w) => durable[b][w].requests <= Count(b, w)

\* While the process runs, and unless an acknowledgement was lost, the store
\* never holds more requests of a firm window than were charged: a delta is not sent twice, over
\* failed writes, rollovers, crashes and restarts (flush_budgets).
FlushedOnce == trouble \cap {"lost", "graceful"} = {} => NotAhead

\* A graceful stop over a store that works leaves every charge of the windows in
\* memory in the store, whatever the two final flushes did to each other
\* (spawn_budget_flusher, main).
GracefulStopLosesNothing ==
  MayExit /\ trouble \cap {"error", "lost"} = {} =>
    \A b \in Buckets : LET w == cells[b].window IN w >= 0 /\ Kept(b, w) =>
      durable[b][w].requests + forgotten[b][w] >= Count(b, w)

\* Two admissions never wait for each other's shards: while any waits for a lock,
\* some admission can take its next step (the canonical order of try_admit).
LocksNeverDeadlock ==
  (\E r \in Requests : req[r].pc = "locking") =>
    \E r \in Requests : \/ req[r].pc = "check"
                        \/ req[r].pc = "locking" /\ locks[NextShard(r)] = None

=============================================================================
