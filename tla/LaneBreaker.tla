---------------------------- MODULE LaneBreaker ----------------------------
(***************************************************************************)
(* One upstream lane under concurrent traffic: its default breaker cell,   *)
(* the per-pool cells created on first touch, the requests admitted        *)
(* through them, and the background health prober.                         *)
(*                                                                         *)
(* A request is a process: it is admitted by a cell, arms its probe guard, *)
(* gets a permit of the lane's semaphore, is dispatched, and ends by       *)
(* recording an outcome, by releasing the probe, or by being dropped.      *)
(* Every `await` of the code, and every pair of lock acquisitions, is a    *)
(* point between two actions.  The operations that sweep all the cells of  *)
(* the lane (hard-down, recovery, probe success, probe failure) touch the  *)
(* default cell first and then, under the read lock of the cell map, the   *)
(* pool cells one by one.                                                  *)
(***************************************************************************)
EXTENDS BreakerCell, FiniteSets

CONSTANTS
  Default,        \* the lane-default cell, pool name ""
  Pools,          \* named pools the lane is a member of
  Nobody,         \* no cell
  Requests,       \* concurrent requests
  Prober,         \* the lane's health prober
  ProbeMode,      \* "none", "dead" or "active"
  MaxConcurrent,  \* semaphore size
  Routes,         \* subset of {"sticky", "walk", "fallback", "least_bad"}
  Answers,        \* what can become of a dispatched request
  RetryAfters,    \* Retry-After values seen, 0 for none
  MaxNow,         \* bound on the clock
  MaxEpoch        \* bound on the number of probes per cell

ASSUME LaneConstants ==
  /\ Default \notin Pools
  /\ Nobody \notin Pools \cup {Default}
  /\ Prober \notin Requests
  /\ ProbeMode \in {"none", "dead", "active"}
  /\ MaxConcurrent \in Nat \ {0}
  /\ Routes \subseteq {"sticky", "walk", "fallback", "least_bad"}
  /\ Answers \subseteq {"success", "transient", "hard_down", "no_outcome",
                        "disconnect"}
  /\ RetryAfters \subseteq Nat
  /\ MaxNow \in Nat
  /\ MaxEpoch \in Nat

VARIABLES
  now,      \* the clock, in seconds
  cells,    \* every cell of the lane, those not created yet included
  live,     \* the pools whose cell exists in pool_cells
  making,   \* the cell being created under the map's write lock
  req,      \* the requests
  op,       \* the all-cells sweep each actor is running
  hdUntil,  \* history: until when completed hard-downs park the whole lane
  lost      \* history: the probes, as <<cell, epoch>>, of clients that left

vars == <<now, cells, live, making, req, op, hdUntil, lost>>

CellIds == Pools \cup {Default}
Actors  == Requests \cup {Prober}

Phases == {"idle", "sticky", "admitted", "guarded", "waiting", "dispatched",
           "streaming", "failed", "sweeping"}

\* `epoch` is what the probe guard holds; `won` is a history field: the epoch
\* of the probe this request won, 0 when a Closed cell admitted it.
Request == [pc : Phases, route : Routes \cup {"none"}, pool : CellIds,
            epoch : Nat, won : Nat]

IdleRequest == [pc |-> "idle", route |-> "none", pool |-> Default,
                epoch |-> 0, won |-> 0]

Sweeps == {"hard_down", "recover", "probe_success", "probe_failure"}

\* `parks`: history, the instant until which a hard-down will have parked the
\* lane when it ends; 0 once a recovery has closed a cell under it.
Sweep == [kind : Sweeps \cup {"none", "probing"}, phase : {"default", "lock", "pools"},
          todo : SUBSET Pools, at : Nat, retryAfter : Nat,
          target : CellIds \cup {Nobody}, observed : Nat, parks : Nat]

NoSweep == [kind |-> "none", phase |-> "default", todo |-> {}, at |-> 0,
            retryAfter |-> 0, target |-> Nobody, observed |-> 0, parks |-> 0]

NewSweep(kind, ra) ==
  [NoSweep EXCEPT !.kind = kind, !.at = now, !.retryAfter = ra,
                  !.parks = IF kind = "hard_down" THEN now + HardDownSecs ELSE 0]

NotMaking == [pool |-> Nobody, state |-> "Closed"]

TypeOK ==
  /\ now \in 0..MaxNow
  /\ cells \in [CellIds -> Cell]
  /\ live \subseteq Pools
  /\ making \in [pool : Pools \cup {Nobody}, state : {"Closed", "Open"}]
  /\ req \in [Requests -> Request]
  /\ op \in [Actors -> Sweep]
  /\ hdUntil \in Nat
  /\ lost \subseteq CellIds \X Nat

Init ==
  /\ now = 0
  /\ cells = [p \in CellIds |-> NewCell]
  /\ live = {}
  /\ making = NotMaking
  /\ req = [r \in Requests |-> IdleRequest]
  /\ op = [a \in Actors |-> NoSweep]
  /\ hdUntil = 0
  /\ lost = {}

(***************************************************************************)
(* The map of pool cells                                                   *)
(***************************************************************************)
WriteLocked == making.pool # Nobody
ReadHeld    == \E a \in Actors : op[a].phase = "pools"

\* cell(pool, lane) finds a cell to work on.
Accessible(p) == p = Default \/ (p \in live /\ ~WriteLocked)

SetCell(p, c) == cells' = [cells EXCEPT ![p] = c]

\* First touch: the new cell inherits the default cell's health, read without
\* that cell's transition lock, the state before the rest.
CreateRead(p) ==
  /\ p \notin live
  /\ ~WriteLocked /\ ~ReadHeld
  /\ making' = [pool |-> p, state |-> Normalized(cells[Default].state)]
  /\ UNCHANGED <<now, cells, live, req, op, hdUntil, lost>>

CreateFinish_Fresh(p) ==
  /\ making.pool = p
  /\ SetCell(p, NewCell)
  /\ live' = live \cup {p}
  /\ making' = NotMaking
  /\ UNCHANGED <<now, req, op, hdUntil, lost>>

CreateFinish(p) ==
  /\ making.pool = p
  /\ SetCell(p, [NewCell EXCEPT !.state = making.state,
                                !.cooldown = cells[Default].cooldown,
                                !.streak = cells[Default].streak])
  /\ live' = live \cup {p}
  /\ making' = NotMaking
  /\ UNCHANGED <<now, req, op, hdUntil, lost>>

(***************************************************************************)
(* Admission                                                               *)
(***************************************************************************)
HoldsPermit(r) == req[r].pc \in {"dispatched", "streaming", "sweeping", "failed"}
PermitFree     == Cardinality({r \in Requests : HoldsPermit(r)}) < MaxConcurrent

Goto(r, pc) == req' = [req EXCEPT ![r].pc = pc]
Leave(r)    == req' = [req EXCEPT ![r] = IdleRequest]

\* usable_in / acquire_for_dispatch_in on the one cell a pick has chosen: by
\* session affinity ("sticky"), or by the selection loop of the pool the
\* request asked for ("walk") or of a fallback pool.
Admit(r, p, route) ==
  /\ req[r].pc = "idle"
  /\ route \in Routes \ {"least_bad"}
  /\ Accessible(p)
  /\ Ready(cells[p], now)
  /\ cells[p].epoch < MaxEpoch
  /\ SetCell(p, Acquire(cells[p]))
  /\ req' = [req EXCEPT ![r] =
       [pc    |-> IF route = "sticky" THEN "sticky" ELSE "admitted",
        route |-> route,
        pool  |-> p,
        epoch |-> 0,
        won   |-> IF cells[p].state = "Open" THEN cells[p].epoch + 1 ELSE 0]]
  /\ UNCHANGED <<now, live, making, op, hdUntil, lost>>

\* The guard's token is read in a call of its own, after the acquisition.
ArmGuard(r) ==
  /\ req[r].pc = "admitted"
  /\ Accessible(req[r].pool)
  /\ req' = [req EXCEPT ![r].pc = "guarded", ![r].epoch = cells[req[r].pool].epoch]
  /\ UNCHANGED <<now, cells, live, making, op, hdUntil, lost>>

\* The affinity path takes a permit at once, and otherwise gives the cell back
\* by the unchecked release: it may hold no probe at all.
StickyPermit(r) ==
  /\ req[r].pc = "sticky"
  /\ PermitFree
  /\ Goto(r, "dispatched")
  /\ UNCHANGED <<now, cells, live, making, op, hdUntil, lost>>

StickyFull(r) ==
  /\ req[r].pc = "sticky"
  /\ ~PermitFree
  /\ Accessible(req[r].pool)
  /\ SetCell(req[r].pool, ReleaseProbe(cells[req[r].pool]))
  /\ Leave(r)
  /\ UNCHANGED <<now, live, making, op, hdUntil, lost>>

\* try_acquire, and the wait for a permit when there is none.
TryPermit(r) ==
  /\ req[r].pc = "guarded"
  /\ Goto(r, IF PermitFree THEN "dispatched" ELSE "waiting")
  /\ UNCHANGED <<now, cells, live, making, op, hdUntil, lost>>

PermitGranted(r) ==
  /\ req[r].pc = "waiting"
  /\ PermitFree
  /\ Goto(r, "dispatched")
  /\ UNCHANGED <<now, cells, live, making, op, hdUntil, lost>>

GuardDrop_Leaks(r) ==
  /\ req[r].pc = "waiting"
  /\ Leave(r)
  /\ UNCHANGED <<now, cells, live, making, op, hdUntil, lost>>

\* The wait ran past the deadline, or the request's future was dropped: the
\* guard's Drop releases the probe if the guard still owns it.
GuardDrop(r) ==
  /\ req[r].pc = "waiting"
  /\ Accessible(req[r].pool)
  /\ SetCell(req[r].pool, ReleaseProbeOwned(cells[req[r].pool], req[r].epoch))
  /\ Leave(r)
  /\ UNCHANGED <<now, live, making, op, hdUntil, lost>>

\* on_exhausted: least_bad dispatches past the breaker, without a probe.
LeastBad(r, p) ==
  /\ req[r].pc = "idle"
  /\ "least_bad" \in Routes
  /\ Accessible(p)
  /\ PermitFree
  /\ req' = [req EXCEPT ![r] = [IdleRequest EXCEPT !.pc = "dispatched",
                                                   !.route = "least_bad",
                                                   !.pool = p]]
  /\ UNCHANGED <<now, cells, live, making, op, hdUntil, lost>>

(***************************************************************************)
(* What becomes of a dispatched request                                    *)
(***************************************************************************)
Degraded(r) == req[r].route \in {"fallback", "least_bad"}

\* A client fault, a passed-through 401/403, a context-length error, or a
\* failure before the send: nothing is recorded and the probe is released,
\* unchecked, after the await.
NoOutcome(r) ==
  /\ req[r].pc = "dispatched"
  /\ "no_outcome" \in Answers
  /\ Accessible(req[r].pool)
  /\ SetCell(req[r].pool, ReleaseProbe(cells[req[r].pool]))
  /\ Leave(r)
  /\ UNCHANGED <<now, live, making, op, hdUntil, lost>>

\* A transient failure.  On the degraded path every non-2xx answer is one, and
\* the probe is released in a second step.
Fail(r) ==
  /\ req[r].pc = "dispatched"
  /\ "transient" \in Answers
  /\ Accessible(req[r].pool)
  /\ \E ra \in RetryAfters :
       \E c \in FailureResults(cells[req[r].pool], now, ra) : SetCell(req[r].pool, c)
  /\ \/ Leave(r)
     \/ Degraded(r) /\ Goto(r, "failed")
  /\ UNCHANGED <<now, live, making, op, hdUntil, lost>>

ReleaseAfterFail(r) ==
  /\ req[r].pc = "failed"
  /\ Accessible(req[r].pool)
  /\ SetCell(req[r].pool, ReleaseProbe(cells[req[r].pool]))
  /\ Leave(r)
  /\ UNCHANGED <<now, live, making, op, hdUntil, lost>>

\* An auth or billing answer parks the lane in every cell.
HardDownAnswer(r) ==
  /\ req[r].pc = "dispatched"
  /\ "hard_down" \in Answers
  /\ ~Degraded(r)
  /\ Goto(r, "sweeping")
  /\ op' = [op EXCEPT ![r] = NewSweep("hard_down", 0)]
  /\ UNCHANGED <<now, cells, live, making, hdUntil, lost>>

\* 2xx headers: success is recorded before the body is read.
Succeed(r) ==
  /\ req[r].pc = "dispatched"
  /\ "success" \in Answers
  /\ Accessible(req[r].pool)
  /\ SetCell(req[r].pool, RecordSuccess(cells[req[r].pool]))
  /\ Goto(r, "streaming")
  /\ UNCHANGED <<now, live, making, op, hdUntil, lost>>

\* The body ends, or its receiver goes away.
StreamEnd(r) ==
  /\ req[r].pc = "streaming"
  /\ Leave(r)
  /\ UNCHANGED <<now, cells, live, making, op, hdUntil, lost>>

StreamFail(r) ==
  /\ req[r].pc = "streaming"
  /\ Accessible(req[r].pool)
  /\ \E c \in FailureResults(cells[req[r].pool], now, 0) : SetCell(req[r].pool, c)
  /\ Leave(r)
  /\ UNCHANGED <<now, live, making, op, hdUntil, lost>>

\* The probe its cell is waiting for is this request's.
OnTrial(r) == /\ cells[req[r].pool].state = "HalfOpen"
              /\ cells[req[r].pool].epoch = req[r].won

\* The client goes away while the upstream call is awaited: the future is
\* dropped and nothing is left to record or release.
Disconnect(r) ==
  /\ req[r].pc = "dispatched"
  /\ "disconnect" \in Answers
  /\ Leave(r)
  /\ lost' = IF OnTrial(r) THEN lost \cup {<<req[r].pool, req[r].won>>} ELSE lost
  /\ UNCHANGED <<now, cells, live, making, op, hdUntil>>

(***************************************************************************)
(* The prober                                                              *)
(***************************************************************************)
LaneNeedsProbe == \E p \in live \cup {Default} : Suppressed(cells[p], now)

ProbeSend ==
  /\ op[Prober].kind = "none"
  /\ \/ ProbeMode = "active"
     \/ ProbeMode = "dead" /\ ~WriteLocked /\ LaneNeedsProbe
  /\ op' = [op EXCEPT ![Prober].kind = "probing"]
  /\ UNCHANGED <<now, cells, live, making, req, hdUntil, lost>>

\* A 2xx probe recovers the lane if it is suppressed, then counts as a success.
ProbeOk ==
  /\ op[Prober].kind = "probing"
  /\ ~WriteLocked
  /\ op' = [op EXCEPT ![Prober] =
              NewSweep(IF LaneNeedsProbe THEN "recover" ELSE "probe_success", 0)]
  /\ UNCHANGED <<now, cells, live, making, req, hdUntil, lost>>

ProbeFail ==
  /\ op[Prober].kind = "probing"
  /\ \/ \E ra \in RetryAfters :
          op' = [op EXCEPT ![Prober] = NewSweep("probe_failure", ra)]
     \/ op' = [op EXCEPT ![Prober] = NewSweep("hard_down", 0)]
     \/ op' = [op EXCEPT ![Prober] = NoSweep]
  /\ UNCHANGED <<now, cells, live, making, req, hdUntil, lost>>

(***************************************************************************)
(* Sweeps over the cells of the lane                                       *)
(***************************************************************************)
\* The cells one visit of a sweep can leave; recover is split, see below.
VisitResults(a, c) ==
  CASE op[a].kind = "hard_down"     -> {HardDown(c, op[a].at)}
    [] op[a].kind = "probe_success" -> {RecordSuccess(c)}
    [] op[a].kind = "probe_failure" -> FailureResults(c, op[a].at, op[a].retryAfter)
    [] OTHER                        -> {}

\* Where the sweep is once it is done with cell p.
Advance(a, p) ==
  IF p = Default THEN [op[a] EXCEPT !.phase = "lock", !.target = Nobody]
                 ELSE [op[a] EXCEPT !.todo = @ \ {p}, !.target = Nobody]

MayVisit(a, p) ==
  /\ op[a].kind \in Sweeps
  /\ op[a].target = Nobody
  /\ \/ p = Default /\ op[a].phase = "default"
     \/ op[a].phase = "pools" /\ p \in op[a].todo

Visit(a, p) ==
  /\ MayVisit(a, p)
  /\ \E c \in VisitResults(a, cells[p]) : SetCell(p, c)
  /\ op' = [op EXCEPT ![a] = Advance(a, p)]
  /\ UNCHANGED <<now, live, making, req, hdUntil, lost>>

\* recover_lane reads a cell without its lock and keeps the cooldown it saw...
Observe(a, p) ==
  /\ MayVisit(a, p)
  /\ op[a].kind = "recover"
  /\ op' = [op EXCEPT ![a] =
              IF Suppressed(cells[p], op[a].at)
              THEN [@ EXCEPT !.target = p, !.observed = cells[p].cooldown]
              ELSE Advance(a, p)]
  /\ UNCHANGED <<now, cells, live, making, req, hdUntil, lost>>

\* ... and closes it under the lock, unless it was re-armed meanwhile.
Close(a, p) ==
  LET closed == ClosedIfRecoverable(cells[p], op[a].at, op[a].observed)
  IN  /\ op[a].kind = "recover"
      /\ op[a].target = p
      /\ SetCell(p, closed)
      /\ op' = [b \in Actors |->
                  LET o == IF b = a THEN Advance(a, p) ELSE op[b]
                  IN  [o EXCEPT !.parks = IF closed = cells[p] THEN @ ELSE 0]]
      /\ hdUntil' = IF closed = cells[p] THEN hdUntil ELSE 0
      /\ UNCHANGED <<now, live, making, req, lost>>

LockPools(a) ==
  /\ op[a].kind \in Sweeps
  /\ op[a].phase = "lock"
  /\ ~WriteLocked
  /\ op' = [op EXCEPT ![a].phase = "pools", ![a].todo = live]
  /\ UNCHANGED <<now, cells, live, making, req, hdUntil, lost>>

\* The end of a hard-down.  History: hard-downs that overlap may each leave the
\* other's deadline in a cell, so the earliest is what the lane is parked until.
EndHardDown(a) ==
  \E d \in {op[b].parks : b \in {b \in Actors : op[b].kind = "hard_down"}} :
    /\ \A b \in Actors : op[b].kind = "hard_down" => d <= op[b].parks
    /\ hdUntil' = Greater(hdUntil, d)
    /\ op' = [b \in Actors |-> IF b = a THEN NoSweep
                               ELSE [op[b] EXCEPT !.parks = Lesser(@, d)]]

\* A recovery is followed by the recording of the probe's success.
EndOther(a) ==
  /\ op' = [op EXCEPT ![a] = IF @.kind = "recover" THEN NewSweep("probe_success", 0)
                                                   ELSE NoSweep]
  /\ UNCHANGED hdUntil

SweepEnd(a) ==
  /\ op[a].kind \in Sweeps
  /\ op[a].phase = "pools"
  /\ op[a].todo = {} /\ op[a].target = Nobody
  /\ IF op[a].kind = "hard_down" THEN EndHardDown(a) ELSE EndOther(a)
  /\ req' = IF a \in Requests THEN [req EXCEPT ![a] = IdleRequest] ELSE req
  /\ UNCHANGED <<now, cells, live, making, lost>>

(***************************************************************************)
(* Specification                                                           *)
(***************************************************************************)
Tick ==
  /\ now < MaxNow
  /\ now' = now + 1
  /\ UNCHANGED <<cells, live, making, req, op, hdUntil, lost>>

Arrive(r) == \E p \in CellIds : \/ \E route \in Routes : Admit(r, p, route)
                                \/ LeastBad(r, p)

Proceed(r) == \/ ArmGuard(r) \/ StickyPermit(r) \/ StickyFull(r) \/ TryPermit(r)
              \/ PermitGranted(r) \/ ReleaseAfterFail(r)

Finish(r) == \/ NoOutcome(r) \/ Fail(r) \/ HardDownAnswer(r) \/ Succeed(r)
             \/ StreamEnd(r) \/ StreamFail(r)

Abandon(r) == GuardDrop(r) \/ Disconnect(r)

Probe == ProbeSend \/ ProbeOk \/ ProbeFail

SweepStep(a) == \/ \E p \in CellIds : Visit(a, p) \/ Observe(a, p) \/ Close(a, p)
                \/ LockPools(a) \/ SweepEnd(a)

Create == \E p \in Pools : CreateRead(p) \/ CreateFinish(p)

Next ==
  \/ Tick
  \/ Create
  \/ \E r \in Requests : Arrive(r) \/ Proceed(r) \/ Finish(r) \/ Abandon(r)
  \/ Probe
  \/ \E a \in Actors : SweepStep(a)

Spec == Init /\ [][Next]_vars

\* The runtime keeps polling every request and every sweep, the upstream client
\* has a timeout, and the prober's ticker keeps firing and its probe is timed
\* out.  Nothing obliges clients to arrive or to stay, or probes to succeed.
Fairness ==
  /\ \A r \in Requests : WF_vars(Proceed(r)) /\ WF_vars(Finish(r) \/ Abandon(r))
  /\ \A a \in Actors : WF_vars(SweepStep(a))
  /\ WF_vars(Create)
  /\ WF_vars(Probe)

FairSpec == Spec /\ Fairness

\* The same, with an upstream that does not refuse the probes for ever.
RecoveringSpec == FairSpec /\ SF_vars(ProbeOk)

(***************************************************************************)
(* Properties                                                              *)
(***************************************************************************)
\* A cell is HalfOpen exactly while its probe flag is up.  Every writer of the
\* pair (trip, close, hard-down, both releases, creation by inheritance) has to
\* keep it: a flag left up benches the lane for good, and a HalfOpen cell
\* without a probe is one nobody will ever move again (cell_open_locked,
\* record_hard_down_all_cells, cell).
ProbeIffHalfOpen == \A p \in CellIds : cells[p].state = "HalfOpen" <=> cells[p].probe

InFlight(r, p) == req[r].pc # "idle" /\ req[r].pool = p

\* A HalfOpen cell is waiting for a request that is still in flight and won
\* this very probe, or its winner is a client that left during the upstream
\* call, after the guard was disarmed: every other way out of pick_among, of
\* the engine and of forward_once settles or releases the probe first.
NoOrphanProbe ==
  \A p \in CellIds : cells[p].state = "HalfOpen" =>
     \/ \E r \in Requests : InFlight(r, p) /\ req[r].won = cells[p].epoch
     \/ <<p, cells[p].epoch>> \in lost

\* Once a hard-down has swept the lane, no cell of it admits traffic before the
\* sticky cooldown ends: not one created while the sweep ran, and none whose
\* success, failure or probe release was already under way.  Only a recovery by
\* the prober lifts it (record_hard_down_all_cells, cell).
HardDownParksLane ==
  now < hdUntil =>
    \A p \in live \cup {Default} : cells[p].state = "Open" /\ cells[p].cooldown >= hdUntil

OpenSticks ==
  \A p \in CellIds :
    cells[p].state = "Open" /\ now < cells[p].cooldown /\ cells'[p] # cells[p] =>
      \/ cells'[p].state = "Open" /\ \E a \in Actors :
             op[a].kind = "hard_down" /\ cells'[p].cooldown = op[a].at + HardDownSecs
      \/ \E a \in Actors : /\ op[a].kind = "recover" /\ op[a].target = p
                           /\ cells[p].cooldown <= op[a].observed

\* A tripped cell leaves Open before its cooldown is over only through a
\* prober's close that saw the cooldown it clears; a hard-down may replace the
\* cooldown, and nothing else touches it (cell_closed_if_recoverable,
\* cell_record_success, cell_record_failure, cell_acquire_breaker).
OpenIsSticky == [][OpenSticks]_vars

\* A HalfOpen cell does not stay HalfOpen: the probe's outcome, its release or
\* the background prober moves it.
ProbeResolves ==
  \A p \in CellIds : (cells[p].state = "HalfOpen") ~> (cells[p].state # "HalfOpen")

=============================================================================
