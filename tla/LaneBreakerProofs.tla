------------------------- MODULE LaneBreakerProofs -------------------------
(***************************************************************************)
(* Proofs about LaneBreaker, for any number of requests, pools, permits    *)
(* and probes and for any cooldowns.                                       *)
(***************************************************************************)
EXTENDS LaneBreaker, TLAPS

(***************************************************************************)
(* What a single cell transition preserves                                 *)
(***************************************************************************)
\* The probe flag tells the same story as the state.
Coherent(c) == c.state = "HalfOpen" <=> c.probe

\* A cooldown that compute_cooldown_with_retry_after can return is a natural
\* number, whatever the jitter and the backoff.
LEMMA CooldownIsNat ==
  ASSUME NEW streak, NEW ra \in Nat, NEW dur \in CooldownChoices(streak, ra)
  PROVE  dur \in Nat
<1>1. PICK d \in JitteredCooldowns(Backoff(streak)) :
        dur = Greater(d, Lesser(ra, MaxHonoredRetryAfter))
  BY DEF CooldownChoices
<1>2. d \in Int
  BY <1>1 DEF JitteredCooldowns
<1>3. Lesser(ra, MaxHonoredRetryAfter) \in Nat
  BY CellConstants DEF Lesser
<1> QED
  BY <1>1, <1>2, <1>3 DEF Greater

\* cell_open_locked: Open and coherent, whatever the cell was.
LEMMA OpenLockedCell ==
  ASSUME NEW c \in Cell, NEW until \in Nat
  PROVE  /\ OpenLocked(c, until) \in Cell
         /\ Coherent(OpenLocked(c, until))
         /\ OpenLocked(c, until).state = "Open"
         /\ OpenLocked(c, until).cooldown = until
         /\ OpenLocked(c, until).epoch = c.epoch
BY DEF OpenLocked, Cell, States, Coherent

\* cell_closed_locked: Closed and coherent, whatever the cell was.
LEMMA ClosedLockedCell ==
  ASSUME NEW c \in Cell
  PROVE  /\ ClosedLocked(c) \in Cell
         /\ Coherent(ClosedLocked(c))
         /\ ClosedLocked(c).state = "Closed"
         /\ ClosedLocked(c).epoch = c.epoch
<1>1. 0 \in 0..StreakCap
  BY CellConstants
<1>2. ClosedLocked(c) \in Cell
  BY <1>1 DEF ClosedLocked, Cell, States
<1>3. /\ ClosedLocked(c).state = "Closed"
      /\ ClosedLocked(c).epoch = c.epoch
      /\ ClosedLocked(c).probe = FALSE
  BY DEF ClosedLocked, Cell
<1> QED
  BY <1>2, <1>3 DEF Coherent

\* A streak grows to its cap.
LEMMA BumpStreak ==
  ASSUME NEW n \in 0..StreakCap
  PROVE  Bump(n) \in 0..StreakCap
BY CellConstants DEF Bump, Lesser

\* cell_record_failure leaves an Open cell alone, never leaves a HalfOpen one,
\* and never starts a probe.
LEMMA FailureCell ==
  ASSUME NEW c \in Cell, Coherent(c), NEW at \in Nat, NEW ra \in Nat,
         NEW d \in FailureResults(c, at, ra)
  PROVE  /\ d \in Cell
         /\ Coherent(d)
         /\ d.state # "HalfOpen"
         /\ d.epoch = c.epoch
         /\ c.state = "Open" => d = c
<1>1. PICK dur \in CooldownChoices(Bump(c.streak), ra),
           trip \in TripVerdicts(Bump(c.streak)) :
        d = RecordFailure(c, at, dur, trip)
  BY DEF FailureResults
<1>2. dur \in Nat
  BY <1>1, CooldownIsNat
<1>3. at + dur \in Nat
  BY <1>2
<1>4. Bump(c.streak) \in 0..StreakCap
  BY BumpStreak DEF Cell
<1> DEFINE bumped == [c EXCEPT !.streak = Bump(c.streak)]
<1>5. bumped \in Cell /\ bumped.state = c.state /\ bumped.probe = c.probe /\ bumped.epoch = c.epoch
  BY <1>4 DEF Cell
<1>6. CASE c.state = "Closed" /\ trip
  BY <1>1, <1>3, <1>5, <1>6, OpenLockedCell DEF RecordFailure
<1>7. CASE c.state = "Closed" /\ ~trip
  <2>1. d = [c EXCEPT !.streak = Bump(c.streak), !.cooldown = at + dur]
    BY <1>1, <1>7 DEF RecordFailure
  <2> QED
    BY <2>1, <1>3, <1>4, <1>7 DEF Cell, States, Coherent
<1>8. CASE c.state = "HalfOpen"
  BY <1>1, <1>3, <1>5, <1>8, OpenLockedCell DEF RecordFailure
<1>9. CASE c.state = "Open"
  BY <1>1, <1>9 DEF RecordFailure
<1> QED
  BY <1>6, <1>7, <1>8, <1>9 DEF Cell, States

\* cell_record_success: likewise.
LEMMA SuccessCell ==
  ASSUME NEW c \in Cell, Coherent(c)
  PROVE  /\ RecordSuccess(c) \in Cell
         /\ Coherent(RecordSuccess(c))
         /\ RecordSuccess(c).state # "HalfOpen"
         /\ RecordSuccess(c).epoch = c.epoch
         /\ c.state = "Open" => RecordSuccess(c) = c
<1>1. CASE c.state = "HalfOpen"
  BY <1>1, ClosedLockedCell DEF RecordSuccess
<1>2. CASE c.state = "Closed"
  BY <1>2, CellConstants DEF RecordSuccess, Cell, States, Coherent
<1>3. CASE c.state = "Open"
  BY <1>3 DEF RecordSuccess
<1> QED
  BY <1>1, <1>2, <1>3 DEF Cell, States

\* record_hard_down_all_cells on one cell.
LEMMA HardDownCell ==
  ASSUME NEW c \in Cell, NEW at \in Nat
  PROVE  /\ HardDown(c, at) \in Cell
         /\ Coherent(HardDown(c, at))
         /\ HardDown(c, at).state = "Open"
         /\ HardDown(c, at).cooldown = at + HardDownSecs
         /\ HardDown(c, at).epoch = c.epoch
<1>1. at + HardDownSecs \in Nat
  BY CellConstants
<1> QED
  BY <1>1, OpenLockedCell DEF HardDown

\* cell_closed_if_recoverable: a cell it changes had no newer cooldown than the
\* one observed.
LEMMA RecoverableCell ==
  ASSUME NEW c \in Cell, Coherent(c), NEW at \in Nat, NEW observed \in Nat
  PROVE  LET d == ClosedIfRecoverable(c, at, observed)
         IN  /\ d \in Cell
             /\ Coherent(d)
             /\ d.epoch = c.epoch
             /\ d # c => c.cooldown <= observed /\ d.state = "Closed"
BY ClosedLockedCell DEF ClosedIfRecoverable

\* cell_acquire_breaker: HalfOpen, with a new epoch, exactly when it was Open.
LEMMA AcquireCell ==
  ASSUME NEW c \in Cell, Coherent(c), c.state # "HalfOpen"
  PROVE  /\ Acquire(c) \in Cell
         /\ Coherent(Acquire(c))
         /\ c.state = "Open" => /\ Acquire(c).state = "HalfOpen"
                                /\ Acquire(c).epoch = c.epoch + 1
         /\ c.state # "Open" => Acquire(c) = c
<1>1. CASE c.state = "Open"
  <2>1. Acquire(c) = [c EXCEPT !.state = "HalfOpen", !.epoch = c.epoch + 1, !.probe = TRUE]
    BY <1>1 DEF Acquire
  <2>2. c.epoch + 1 \in Nat
    BY DEF Cell
  <2>3. Acquire(c) \in Cell
    BY <2>1, <2>2 DEF Cell, States
  <2>4. /\ Acquire(c).state = "HalfOpen"
        /\ Acquire(c).epoch = c.epoch + 1
        /\ Acquire(c).probe = TRUE
    BY <2>1 DEF Cell
  <2> QED
    BY <1>1, <2>3, <2>4 DEF Coherent
<1>2. CASE c.state # "Open"
  BY <1>2 DEF Acquire
<1> QED
  BY <1>1, <1>2

\* Both releases: coherent, and without effect on a cell that is not HalfOpen.
LEMMA ReleaseCell ==
  ASSUME NEW c \in Cell, Coherent(c)
  PROVE  /\ ReleaseProbe(c) \in Cell
         /\ Coherent(ReleaseProbe(c))
         /\ ReleaseProbe(c).state # "HalfOpen"
         /\ ReleaseProbe(c).epoch = c.epoch
         /\ c.state # "HalfOpen" => ReleaseProbe(c) = c
<1>1. CASE c.state = "HalfOpen"
  BY <1>1 DEF ReleaseProbe, Cell, States, Coherent
<1>2. CASE c.state # "HalfOpen"
  <2>1. c.probe = FALSE
    BY <1>2 DEF Coherent, Cell
  <2>2. ReleaseProbe(c) = c
    BY <1>2, <2>1 DEF ReleaseProbe, Cell
  <2> QED
    BY <1>2, <2>2
<1> QED
  BY <1>1, <1>2

\* A release gives back only the probe that is owned.
LEMMA ReleaseOwnedCell ==
  ASSUME NEW c \in Cell, Coherent(c), NEW owned \in Nat
  PROVE  /\ ReleaseProbeOwned(c, owned) \in Cell
         /\ Coherent(ReleaseProbeOwned(c, owned))
         /\ ReleaseProbeOwned(c, owned).epoch = c.epoch
         /\ c.epoch = owned => ReleaseProbeOwned(c, owned).state # "HalfOpen"
         /\ c.state # "HalfOpen" \/ c.epoch # owned => ReleaseProbeOwned(c, owned) = c
BY ReleaseCell DEF ReleaseProbeOwned

(***************************************************************************)
(* The inductive invariant                                                 *)
(***************************************************************************)
\* Nothing has touched a pool cell that does not exist, the one being created
\* included, and a sweep works on cells that exist.
UnbornUntouched ==
  /\ \A p \in Pools \ live : cells[p] = NewCell
  /\ making.pool \notin live
  /\ \A a \in Actors : /\ op[a].todo \subseteq live
                        /\ op[a].target \in live \cup {Default, Nobody}

IInv == TypeOK /\ ProbeIffHalfOpen /\ UnbornUntouched

\* An action that only writes one cell that exists keeps the cells well formed,
\* and the cells that do not exist untouched.
LEMMA WriteCell ==
  ASSUME IInv, NEW p \in live \cup {Default}, NEW c \in Cell, Coherent(c),
         SetCell(p, c)
  PROVE  /\ cells' \in [CellIds -> Cell]
         /\ ProbeIffHalfOpen'
         /\ \A q \in Pools \ live : cells'[q] = NewCell
         /\ cells'[p] = c
         /\ \A q \in CellIds : q # p => cells'[q] = cells[q]
<1>1. p \in CellIds /\ p \notin Pools \ live
  BY LaneConstants DEF IInv, TypeOK, CellIds
<1>2. cells' = [cells EXCEPT ![p] = c]
  BY DEF SetCell
<1>3. cells' \in [CellIds -> Cell]
  BY <1>2 DEF IInv, TypeOK
<1>4. cells'[p] = c /\ \A q \in CellIds : q # p => cells'[q] = cells[q]
  BY <1>1, <1>2 DEF IInv, TypeOK
<1>5. ProbeIffHalfOpen'
  BY <1>4 DEF IInv, ProbeIffHalfOpen, Coherent
<1>6. \A q \in Pools \ live : cells'[q] = NewCell
  BY <1>1, <1>4 DEF IInv, UnbornUntouched, CellIds
<1> QED
  BY <1>3, <1>4, <1>5, <1>6

\* The cells an action can read are well formed.
LEMMA ReadCell ==
  ASSUME IInv, NEW p \in CellIds
  PROVE  cells[p] \in Cell /\ Coherent(cells[p])
BY DEF IInv, TypeOK, ProbeIffHalfOpen, Coherent

\* A cell that can be reached is a cell.
LEMMA AccessibleCell ==
  ASSUME NEW p, Accessible(p)
  PROVE  p \in live \cup {Default}
BY DEF Accessible

\* Moving one request keeps the requests well typed.
LEMMA MoveRequest ==
  ASSUME IInv, NEW r \in Requests, NEW pc \in Phases, Goto(r, pc) \/ Leave(r)
  PROVE  req' \in [Requests -> Request]
<1>1. IdleRequest \in Request
  BY DEF IdleRequest, Request, Phases, CellIds
<1>2. [req[r] EXCEPT !.pc = pc] \in Request
  BY DEF IInv, TypeOK, Request
<1> QED
  BY <1>1, <1>2 DEF IInv, TypeOK, Goto, Leave

\* A sweep as it begins.
LEMMA NewSweepType ==
  ASSUME IInv, NEW kind \in Sweeps, NEW ra \in Nat
  PROVE  /\ NewSweep(kind, ra) \in Sweep
         /\ NewSweep(kind, ra).todo = {}
         /\ NewSweep(kind, ra).target = Nobody
<1>1. now \in Nat /\ now + HardDownSecs \in Nat
  BY CellConstants, LaneConstants DEF IInv, TypeOK
<1> QED
  BY <1>1 DEF NewSweep, NoSweep, Sweep, Sweeps

\* A sweep that does not run.
LEMMA NoSweepType ==
  NoSweep \in Sweep /\ NoSweep.todo = {} /\ NoSweep.target = Nobody
BY DEF NoSweep, Sweep

\* Three shapes of action that create no cell.
LEMMA CellStep ==
  ASSUME IInv, NEW p \in live \cup {Default}, NEW c \in Cell, Coherent(c),
         SetCell(p, c), req' \in [Requests -> Request],
         UNCHANGED <<now, live, making, op, hdUntil, lost>>
  PROVE  IInv'
<1>1. /\ cells' \in [CellIds -> Cell]
      /\ ProbeIffHalfOpen'
      /\ \A q \in Pools \ live : cells'[q] = NewCell
  BY WriteCell
<1> QED
  BY <1>1 DEF IInv, TypeOK, UnbornUntouched

\* A step that changes only the requests keeps the invariant.
LEMMA RequestStep ==
  ASSUME IInv, req' \in [Requests -> Request],
         UNCHANGED <<now, cells, live, making, op, hdUntil, lost>>
  PROVE  IInv'
BY DEF IInv, TypeOK, ProbeIffHalfOpen, UnbornUntouched

SweepOK(o) == /\ o \in Sweep
              /\ o.todo \subseteq live
              /\ o.target \in live \cup {Default, Nobody}

\* A step of a sweep, with the cells it leaves, keeps the invariant.
LEMMA SweepStepInv ==
  ASSUME IInv, req' \in [Requests -> Request], hdUntil' \in Nat, UNCHANGED lost,
         cells' \in [CellIds -> Cell], ProbeIffHalfOpen',
         \A q \in Pools \ live : cells'[q] = NewCell,
         NEW o, op' = [b \in Actors |-> o[b]], \A b \in Actors : SweepOK(o[b]),
         UNCHANGED <<now, live, making>>
  PROVE  IInv'
<1>1. \A b \in Actors : op'[b] = o[b]
  OBVIOUS
<1>2. op' \in [Actors -> Sweep]
  BY DEF SweepOK
<1>3. \A b \in Actors : op'[b].todo \subseteq live /\ op'[b].target \in live \cup {Default, Nobody}
  BY <1>1 DEF SweepOK
<1> QED
  BY <1>2, <1>3 DEF IInv, TypeOK, UnbornUntouched

\* The sweep of an actor is in order.
LEMMA OldSweepOK ==
  ASSUME IInv, NEW a \in Actors
  PROVE  SweepOK(op[a])
BY DEF IInv, TypeOK, UnbornUntouched, SweepOK

\* The sweep an actor is left with once it is done with a cell.
LEMMA AdvanceOK ==
  ASSUME IInv, NEW a \in Actors, NEW p \in CellIds
  PROVE  SweepOK(Advance(a, p))
<1>1. SweepOK(op[a])
  BY OldSweepOK
<1>2. CASE p = Default
  BY <1>1, <1>2 DEF Advance, SweepOK, Sweep
<1>3. CASE p # Default
  BY <1>1, <1>3 DEF Advance, SweepOK, Sweep
<1> QED
  BY <1>2, <1>3

\* A sweep visits cells that exist.
LEMMA VisitedExists ==
  ASSUME IInv, NEW a \in Actors, NEW p \in CellIds, MayVisit(a, p)
  PROVE  p \in live \cup {Default}
BY OldSweepOK DEF MayVisit, SweepOK

\* The invariant at the start.
LEMMA InitInv ==
  Init => IInv
<1> SUFFICES ASSUME Init PROVE IInv
  OBVIOUS
<1>1. NewCell \in Cell /\ Coherent(NewCell)
  BY CellConstants DEF NewCell, Cell, States, Coherent
<1>2. IdleRequest \in Request
  BY DEF IdleRequest, Request, Phases, CellIds
<1>3. TypeOK
  BY <1>1, <1>2, NoSweepType, LaneConstants DEF Init, TypeOK, NotMaking
<1>4. ProbeIffHalfOpen
  BY <1>1 DEF Init, ProbeIffHalfOpen, Coherent
<1>5. UnbornUntouched
  BY NoSweepType DEF Init, UnbornUntouched, NotMaking, CellIds
<1> QED
  BY <1>3, <1>4, <1>5 DEF IInv

\* The creation of a cell keeps the invariant.
LEMMA CreateInv ==
  ASSUME IInv, NEW p \in Pools, CreateRead(p) \/ CreateFinish(p)
  PROVE  IInv'
<1>1. Default \in CellIds /\ p \in CellIds /\ cells[Default] \in Cell
  BY ReadCell DEF CellIds
<1>2. CASE CreateRead(p)
  <2>1. Normalized(cells[Default].state) \in {"Closed", "Open"}
    BY <1>1 DEF Normalized, Cell, States
  <2>2. making' \in [pool : Pools \cup {Nobody}, state : {"Closed", "Open"}] /\ making'.pool \notin live
    BY <1>2, <2>1 DEF CreateRead
  <2> QED
    BY <1>2, <2>2 DEF CreateRead, IInv, TypeOK, ProbeIffHalfOpen, UnbornUntouched
<1>3. CASE CreateFinish(p)
  <2> DEFINE c == [NewCell EXCEPT !.state = making.state,
                                  !.cooldown = cells[Default].cooldown,
                                  !.streak = cells[Default].streak]
  <2>1. c \in Cell /\ c.state # "HalfOpen" /\ c.probe = FALSE
    BY <1>1 DEF NewCell, Cell, States, IInv, TypeOK
  <2>2. cells' = [cells EXCEPT ![p] = c]
    BY <1>3 DEF CreateFinish, SetCell
  <2> HIDE DEF c
  <2>3. cells' \in [CellIds -> Cell]
    BY <2>1, <2>2 DEF IInv, TypeOK
  <2>4. cells'[p] = c /\ \A q \in CellIds : q # p => cells'[q] = cells[q]
    BY <1>1, <2>2 DEF IInv, TypeOK
  <2>5. ProbeIffHalfOpen'
    BY <2>1, <2>4 DEF IInv, ProbeIffHalfOpen
  <2>6. TypeOK'
    BY <1>3, <2>3 DEF CreateFinish, IInv, TypeOK, NotMaking
  <2>7. UnbornUntouched'
    <3>1. \A q \in Pools \ live' : cells'[q] = NewCell
      BY <1>3, <2>4 DEF CreateFinish, IInv, UnbornUntouched, CellIds
    <3>2. making'.pool \notin live'
      BY <1>3, LaneConstants DEF CreateFinish, NotMaking, IInv, TypeOK
    <3>3. \A a \in Actors : /\ op'[a].todo \subseteq live'
                            /\ op'[a].target \in live' \cup {Default, Nobody}
      BY <1>3 DEF CreateFinish, IInv, UnbornUntouched
    <3> QED
      BY <3>1, <3>2, <3>3 DEF UnbornUntouched
  <2> QED
    BY <2>5, <2>6, <2>7 DEF IInv
<1> QED
  BY <1>2, <1>3

\* Admission, permits and the guard.
LEMMA ArriveInv ==
  ASSUME IInv, NEW r \in Requests, Arrive(r)
  PROVE  IInv'
<1>1. ASSUME NEW p \in CellIds, NEW route \in Routes, Admit(r, p, route)
      PROVE  IInv'
  <2>1. p \in live \cup {Default}
    BY <1>1, AccessibleCell DEF Admit
  <2>2. cells[p] \in Cell /\ Coherent(cells[p]) /\ cells[p].state # "HalfOpen"
    BY <1>1, ReadCell DEF Admit, Ready
  <2>3. Acquire(cells[p]) \in Cell /\ Coherent(Acquire(cells[p]))
    BY <2>2, AcquireCell
  <2>4. cells[p].epoch \in Nat
    BY <2>2 DEF Cell
  <2>5. [pc |-> IF route = "sticky" THEN "sticky" ELSE "admitted", route |-> route, pool |-> p,
         epoch |-> 0, won |-> IF cells[p].state = "Open" THEN cells[p].epoch + 1 ELSE 0] \in Request
    BY <2>4 DEF Request, Phases
  <2>6. req' \in [Requests -> Request]
    BY <1>1, <2>5 DEF Admit, IInv, TypeOK
  <2> QED
    BY <1>1, <2>1, <2>3, <2>6, CellStep DEF Admit
<1>2. ASSUME NEW p \in CellIds, LeastBad(r, p)
      PROVE  IInv'
  <2>1. [IdleRequest EXCEPT !.pc = "dispatched", !.route = "least_bad", !.pool = p] \in Request
    BY <1>2 DEF IdleRequest, Request, Phases, LeastBad
  <2>2. req' \in [Requests -> Request]
    BY <1>2, <2>1 DEF LeastBad, IInv, TypeOK
  <2> QED
    BY <1>2, <2>2, RequestStep DEF LeastBad
<1> QED
  BY <1>1, <1>2 DEF Arrive

\* The cell a request works on, once it is accessible.
LEMMA OwnCell ==
  ASSUME IInv, NEW r \in Requests
  PROVE  /\ req[r].pool \in CellIds
         /\ cells[req[r].pool] \in Cell
         /\ Coherent(cells[req[r].pool])
         /\ req[r].epoch \in Nat
<1>1. req[r] \in Request
  BY DEF IInv, TypeOK
<1>2. req[r].pool \in CellIds /\ req[r].epoch \in Nat
  BY <1>1 DEF Request
<1> QED
  BY <1>2, ReadCell

\* A request that goes on keeps the invariant.
LEMMA ProceedInv ==
  ASSUME IInv, NEW r \in Requests, Proceed(r)
  PROVE  IInv'
<1> DEFINE c == cells[req[r].pool]
<1>1. c \in Cell /\ Coherent(c) /\ c.epoch \in Nat
  BY OwnCell DEF Cell
<1>2. CASE ArmGuard(r)
  <2>1. [req[r] EXCEPT !.pc = "guarded", !.epoch = c.epoch] \in Request
    BY <1>1 DEF IInv, TypeOK, Request, Phases
  <2>2. req' = [req EXCEPT ![r] = [req[r] EXCEPT !.pc = "guarded", !.epoch = c.epoch]]
    BY <1>2 DEF ArmGuard, IInv, TypeOK, Request
  <2>3. req' \in [Requests -> Request]
    BY <2>1, <2>2 DEF IInv, TypeOK
  <2> QED
    BY <1>2, <2>3, RequestStep DEF ArmGuard
<1>3. CASE StickyPermit(r) \/ TryPermit(r) \/ PermitGranted(r)
  <2>1. PICK pc \in {"dispatched", "waiting"} : Goto(r, pc)
    BY <1>3 DEF StickyPermit, TryPermit, PermitGranted
  <2>2. req' \in [Requests -> Request]
    BY <2>1, MoveRequest DEF Phases
  <2> QED
    BY <1>3, <2>2, RequestStep DEF StickyPermit, TryPermit, PermitGranted
<1>4. CASE StickyFull(r) \/ ReleaseAfterFail(r)
  <2>1. req[r].pool \in live \cup {Default}
    BY <1>4, AccessibleCell DEF StickyFull, ReleaseAfterFail
  <2>2. ReleaseProbe(c) \in Cell /\ Coherent(ReleaseProbe(c))
    BY <1>1, ReleaseCell
  <2>3. req' \in [Requests -> Request]
    BY <1>4, MoveRequest DEF StickyFull, ReleaseAfterFail, Phases
  <2> QED
    BY <1>4, <2>1, <2>2, <2>3, CellStep DEF StickyFull, ReleaseAfterFail
<1> QED
  BY <1>2, <1>3, <1>4 DEF Proceed

\* A request that ends keeps the invariant.
LEMMA FinishInv ==
  ASSUME IInv, NEW r \in Requests, Finish(r)
  PROVE  IInv'
<1> DEFINE p == req[r].pool
           c == cells[p]
<1>1. c \in Cell /\ Coherent(c) /\ now \in Nat
  BY OwnCell, LaneConstants DEF IInv, TypeOK
<1>2. CASE NoOutcome(r)
  <2>1. p \in live \cup {Default} /\ req' \in [Requests -> Request]
    BY <1>2, AccessibleCell, MoveRequest DEF NoOutcome, Phases
  <2>2. ReleaseProbe(c) \in Cell /\ Coherent(ReleaseProbe(c))
    BY <1>1, ReleaseCell
  <2> QED
    BY <1>2, <2>1, <2>2, CellStep DEF NoOutcome
<1>3. CASE Fail(r) \/ StreamFail(r)
  <2>1. PICK ra \in Nat : \E d \in FailureResults(c, now, ra) : SetCell(p, d)
    BY <1>3, LaneConstants DEF Fail, StreamFail
  <2>2. PICK d \in FailureResults(c, now, ra) : SetCell(p, d)
    BY <2>1
  <2>3. d \in Cell /\ Coherent(d)
    BY <1>1, FailureCell
  <2>4. p \in live \cup {Default} /\ req' \in [Requests -> Request]
    BY <1>3, AccessibleCell, MoveRequest DEF Fail, StreamFail, Phases
  <2> QED
    BY <1>3, <2>2, <2>3, <2>4, CellStep DEF Fail, StreamFail
<1>4. CASE Succeed(r)
  <2>1. p \in live \cup {Default} /\ req' \in [Requests -> Request]
    BY <1>4, AccessibleCell, MoveRequest DEF Succeed, Phases
  <2>2. RecordSuccess(c) \in Cell /\ Coherent(RecordSuccess(c))
    BY <1>1, SuccessCell
  <2> QED
    BY <1>4, <2>1, <2>2, CellStep DEF Succeed
<1>5. CASE StreamEnd(r)
  <2>1. req' \in [Requests -> Request]
    BY <1>5, MoveRequest DEF StreamEnd, Phases
  <2> QED
    BY <1>5, <2>1, RequestStep DEF StreamEnd
<1>6. CASE HardDownAnswer(r)
  <2> DEFINE o == [b \in Actors |-> IF b = r THEN NewSweep("hard_down", 0) ELSE op[b]]
  <2>1. op' = [b \in Actors |-> o[b]]
    BY <1>6 DEF HardDownAnswer, IInv, TypeOK
  <2>2. \A b \in Actors : SweepOK(o[b])
    BY OldSweepOK, NewSweepType DEF SweepOK, Sweeps
  <2>3. req' \in [Requests -> Request]
    BY <1>6, MoveRequest DEF HardDownAnswer, Phases
  <2> HIDE DEF o
  <2>4. /\ cells' \in [CellIds -> Cell]
        /\ ProbeIffHalfOpen'
        /\ \A q \in Pools \ live : cells'[q] = NewCell
        /\ hdUntil' \in Nat
    BY <1>6 DEF HardDownAnswer, IInv, TypeOK, ProbeIffHalfOpen, UnbornUntouched
  <2> QED
    BY <1>6, <2>1, <2>2, <2>3, <2>4, SweepStepInv DEF HardDownAnswer
<1> QED
  BY <1>2, <1>3, <1>4, <1>5, <1>6 DEF Finish

\* A request that is dropped keeps the invariant.
LEMMA AbandonInv ==
  ASSUME IInv, NEW r \in Requests, Abandon(r)
  PROVE  IInv'
<1> DEFINE p == req[r].pool
           d == ReleaseProbeOwned(cells[p], req[r].epoch)
<1>1. req' \in [Requests -> Request]
  BY MoveRequest DEF Abandon, GuardDrop, Disconnect, Phases
<1>2. CASE GuardDrop(r)
  <2>1. p \in live \cup {Default}
    BY <1>2, AccessibleCell DEF GuardDrop
  <2>2. d \in Cell /\ Coherent(d)
    BY OwnCell, ReleaseOwnedCell
  <2> QED
    BY <1>1, <1>2, <2>1, <2>2, CellStep DEF GuardDrop
<1>3. CASE Disconnect(r)
  <2>1. <<p, req[r].won>> \in CellIds \X Nat
    BY OwnCell DEF IInv, TypeOK, Request
  <2>2. lost' \subseteq CellIds \X Nat
    BY <1>3, <2>1 DEF Disconnect, IInv, TypeOK
  <2> QED
    BY <1>1, <1>3, <2>2 DEF Disconnect, IInv, TypeOK, ProbeIffHalfOpen, UnbornUntouched
<1> QED
  BY <1>2, <1>3 DEF Abandon

\* An action that replaces the sweep of one actor and touches no cell.
LEMMA OneSweepInv ==
  ASSUME IInv, NEW a \in Actors, NEW o, SweepOK(o),
         op' = [op EXCEPT ![a] = o], req' \in [Requests -> Request],
         UNCHANGED <<now, cells, live, making, hdUntil, lost>>
  PROVE  IInv'
<1> DEFINE f == [b \in Actors |-> IF b = a THEN o ELSE op[b]]
<1>1. op' = [b \in Actors |-> f[b]]
  BY DEF IInv, TypeOK
<1>2. \A b \in Actors : SweepOK(f[b])
  BY OldSweepOK
<1>3. /\ cells' \in [CellIds -> Cell]
      /\ ProbeIffHalfOpen'
      /\ \A q \in Pools \ live : cells'[q] = NewCell
      /\ hdUntil' \in Nat
  BY DEF IInv, TypeOK, ProbeIffHalfOpen, UnbornUntouched
<1> HIDE DEF f
<1> QED
  BY <1>1, <1>2, <1>3, SweepStepInv

\* A probe keeps the invariant.
LEMMA ProbeInv ==
  ASSUME IInv, Probe
  PROVE  IInv'
<1>1. Prober \in Actors /\ req \in [Requests -> Request] /\ SweepOK(op[Prober])
  BY OldSweepOK DEF IInv, TypeOK, Actors
<1>2. SweepOK(NoSweep) /\ \A k \in Sweeps, ra \in Nat : SweepOK(NewSweep(k, ra))
  BY NoSweepType, NewSweepType DEF SweepOK
<1>3. CASE ProbeSend
  <2>1. SweepOK([op[Prober] EXCEPT !.kind = "probing"])
    BY <1>1 DEF SweepOK, Sweep
  <2>2. op' = [op EXCEPT ![Prober] = [op[Prober] EXCEPT !.kind = "probing"]]
    BY <1>3 DEF ProbeSend, IInv, TypeOK
  <2> QED
    BY <1>1, <1>3, <2>1, <2>2, OneSweepInv DEF ProbeSend
<1>4. CASE ProbeOk
  <2>1. PICK k \in Sweeps : op' = [op EXCEPT ![Prober] = NewSweep(k, 0)]
    BY <1>4 DEF ProbeOk, Sweeps
  <2> QED
    BY <1>1, <1>2, <1>4, <2>1, OneSweepInv DEF ProbeOk
<1>5. CASE ProbeFail
  <2>1. PICK o : SweepOK(o) /\ op' = [op EXCEPT ![Prober] = o]
    BY <1>2, <1>5, LaneConstants DEF ProbeFail, Sweeps
  <2> QED
    BY <1>1, <1>5, <2>1, OneSweepInv DEF ProbeFail
<1> QED
  BY <1>3, <1>4, <1>5 DEF Probe

\* One visit of a sweep leaves a well-formed cell, whatever the sweep does.
LEMMA VisitedCell ==
  ASSUME IInv, NEW a \in Actors, NEW c \in Cell, Coherent(c), NEW d \in VisitResults(a, c)
  PROVE  /\ d \in Cell
         /\ Coherent(d)
         /\ d.state # "HalfOpen"
         /\ d.epoch = c.epoch
         /\ c.state = "Open" /\ d # c =>
              /\ op[a].kind = "hard_down"
              /\ d.state = "Open"
              /\ d.cooldown = op[a].at + HardDownSecs
<1>1. op[a].at \in Nat /\ op[a].retryAfter \in Nat
  BY OldSweepOK DEF SweepOK, Sweep
<1>2. CASE op[a].kind = "hard_down"
  BY <1>1, <1>2, HardDownCell DEF VisitResults
<1>3. CASE op[a].kind = "probe_success"
  BY <1>3, SuccessCell DEF VisitResults
<1>4. CASE op[a].kind = "probe_failure"
  BY <1>1, <1>4, FailureCell DEF VisitResults
<1>5. CASE op[a].kind \notin {"hard_down", "probe_success", "probe_failure"}
  BY <1>5 DEF VisitResults
<1> QED
  BY <1>2, <1>3, <1>4, <1>5

\* A sweep keeps the invariant.
LEMMA SweepInv ==
  ASSUME IInv, NEW a \in Actors, SweepStep(a)
  PROVE  IInv'
<1> USE DEF SweepStep
<1>1. req \in [Requests -> Request] /\ hdUntil \in Nat
  BY DEF IInv, TypeOK
<1>2. ASSUME NEW p \in CellIds, Visit(a, p) PROVE IInv'
  <2>1. p \in live \cup {Default}
    BY <1>2, VisitedExists DEF Visit
  <2>2. PICK d \in VisitResults(a, cells[p]) : SetCell(p, d)
    BY <1>2 DEF Visit
  <2>3. d \in Cell /\ Coherent(d)
    BY ReadCell, VisitedCell
  <2>4. /\ cells' \in [CellIds -> Cell]
        /\ ProbeIffHalfOpen'
        /\ \A q \in Pools \ live : cells'[q] = NewCell
    BY <2>1, <2>2, <2>3, WriteCell
  <2> DEFINE f == [b \in Actors |-> IF b = a THEN Advance(a, p) ELSE op[b]]
  <2>5. op' = [b \in Actors |-> f[b]]
    BY <1>2 DEF Visit, IInv, TypeOK
  <2>6. \A b \in Actors : SweepOK(f[b])
    BY OldSweepOK, AdvanceOK
  <2> HIDE DEF f
  <2> QED
    BY <1>1, <1>2, <2>4, <2>5, <2>6, SweepStepInv DEF Visit
<1>3. ASSUME NEW p \in CellIds, Observe(a, p) PROVE IInv'
  <2>1. p \in live \cup {Default} /\ cells[p] \in Cell
    BY <1>3, VisitedExists, ReadCell DEF Observe
  <2>2. cells[p].cooldown \in Nat
    BY <2>1 DEF Cell
  <2>3. SweepOK([op[a] EXCEPT !.target = p, !.observed = cells[p].cooldown])
    BY <2>1, <2>2, OldSweepOK DEF SweepOK, Sweep
  <2>4. PICK o : SweepOK(o) /\ op' = [op EXCEPT ![a] = o]
    BY <1>3, <2>3, AdvanceOK DEF Observe
  <2> QED
    BY <1>1, <1>3, <2>4, OneSweepInv DEF Observe
<1>4. ASSUME NEW p \in CellIds, Close(a, p) PROVE IInv'
  <2> DEFINE d == ClosedIfRecoverable(cells[p], op[a].at, op[a].observed)
  <2>1. p \in live \cup {Default}
    BY <1>4, OldSweepOK, LaneConstants DEF Close, SweepOK, CellIds
  <2>2. op[a].at \in Nat /\ op[a].observed \in Nat
    BY OldSweepOK DEF SweepOK, Sweep
  <2>3. d \in Cell /\ Coherent(d)
    BY <2>2, ReadCell, RecoverableCell
  <2>4. SetCell(p, d)
    BY <1>4 DEF Close
  <2>5. /\ cells' \in [CellIds -> Cell]
        /\ ProbeIffHalfOpen'
        /\ \A q \in Pools \ live : cells'[q] = NewCell
    BY <2>1, <2>3, <2>4, WriteCell
  <2> DEFINE g(b) == IF b = a THEN Advance(a, p) ELSE op[b]
             f == [b \in Actors |-> [g(b) EXCEPT !.parks = IF d = cells[p] THEN @ ELSE 0]]
  <2>6. op' = [b \in Actors |-> f[b]]
    BY <1>4 DEF Close
  <2>7. \A b \in Actors : SweepOK(g(b))
    BY OldSweepOK, AdvanceOK
  <2> HIDE DEF d, g
  <2>8. \A b \in Actors : SweepOK(f[b])
    BY <2>7 DEF SweepOK, Sweep
  <2>9. hdUntil' \in Nat
    BY <1>1, <1>4 DEF Close
  <2> HIDE DEF f
  <2> QED
    BY <1>1, <1>4, <2>5, <2>6, <2>8, <2>9, SweepStepInv DEF Close
<1>5. CASE LockPools(a)
  <2>1. SweepOK([op[a] EXCEPT !.phase = "pools", !.todo = live])
    BY OldSweepOK DEF SweepOK, Sweep, IInv, TypeOK
  <2>2. op' = [op EXCEPT ![a] = [op[a] EXCEPT !.phase = "pools", !.todo = live]]
    BY <1>5, OldSweepOK DEF LockPools, IInv, TypeOK, SweepOK, Sweep
  <2> QED
    BY <1>1, <1>5, <2>1, <2>2, OneSweepInv DEF LockPools
<1>6. CASE SweepEnd(a)
  <2>1. req' \in [Requests -> Request]
    <3>1. IdleRequest \in Request
      BY DEF IdleRequest, Request, Phases, CellIds
    <3> QED
      BY <1>1, <1>6, <3>1 DEF SweepEnd
  <2>2. CASE op[a].kind = "hard_down"
    <3>1. EndHardDown(a)
      BY <1>6, <2>2 DEF SweepEnd
    <3> DEFINE left(d) == [b \in Actors |-> IF b = a THEN NoSweep
                             ELSE [op[b] EXCEPT !.parks = Lesser(@, d)]]
    <3>2. PICK d \in {op[b].parks : b \in {b \in Actors : op[b].kind = "hard_down"}} :
            op' = left(d) /\ hdUntil' = Greater(hdUntil, d)
      BY <3>1 DEF EndHardDown
    <3>3. d \in Nat /\ \A b \in Actors : op[b].parks \in Nat
      BY OldSweepOK DEF SweepOK, Sweep
    <3>4. hdUntil' \in Nat /\ \A b \in Actors : Lesser(op[b].parks, d) \in Nat
      BY <1>1, <3>2, <3>3 DEF Greater, Lesser
    <3>5. \A b \in Actors : SweepOK([op[b] EXCEPT !.parks = Lesser(op[b].parks, d)])
      BY <3>4, OldSweepOK DEF SweepOK, Sweep
    <3> DEFINE f == [b \in Actors |-> IF b = a THEN NoSweep
                       ELSE [op[b] EXCEPT !.parks = Lesser(op[b].parks, d)]]
    <3>6. \A b \in Actors : SweepOK(f[b])
      BY <3>5, NoSweepType DEF SweepOK
    <3>7. op' = [b \in Actors |-> f[b]]
      BY <3>2
    <3>8. /\ cells' \in [CellIds -> Cell]
          /\ ProbeIffHalfOpen'
          /\ \A q \in Pools \ live : cells'[q] = NewCell
      BY <1>6 DEF SweepEnd, IInv, TypeOK, ProbeIffHalfOpen, UnbornUntouched
    <3> HIDE DEF f
    <3> QED
      BY <1>6, <2>1, <3>4, <3>6, <3>7, <3>8, SweepStepInv DEF SweepEnd
  <2>3. CASE op[a].kind # "hard_down"
    <3>1. PICK o : SweepOK(o) /\ op' = [op EXCEPT ![a] = o]
      <4>1. SweepOK(NoSweep) /\ SweepOK(NewSweep("probe_success", 0))
        BY NoSweepType, NewSweepType DEF SweepOK, Sweeps
      <4> QED
        BY <1>6, <2>3, <4>1 DEF SweepEnd, EndOther
    <3> QED
      BY <1>6, <2>1, <2>3, <3>1, OneSweepInv DEF SweepEnd, EndOther
  <2> QED
    BY <2>2, <2>3
<1> QED
  BY <1>2, <1>3, <1>4, <1>5, <1>6

\* Every step keeps the invariant.
LEMMA NextInv ==
  IInv /\ [Next]_vars => IInv'
<1> SUFFICES ASSUME IInv, [Next]_vars PROVE IInv'
  OBVIOUS
<1>1. CASE Tick
  BY <1>1, LaneConstants DEF Tick, IInv, TypeOK, ProbeIffHalfOpen, UnbornUntouched
<1>2. CASE Create
  BY <1>2, CreateInv DEF Create
<1>3. ASSUME NEW r \in Requests, Arrive(r) \/ Proceed(r) \/ Finish(r) \/ Abandon(r)
      PROVE  IInv'
  BY <1>3, ArriveInv, ProceedInv, FinishInv, AbandonInv
<1>4. CASE Probe
  BY <1>4, ProbeInv
<1>5. ASSUME NEW a \in Actors, SweepStep(a) PROVE IInv'
  BY <1>5, SweepInv
<1>6. CASE UNCHANGED vars
  BY <1>6 DEF vars, IInv, TypeOK, ProbeIffHalfOpen, UnbornUntouched
<1> QED
  BY <1>1, <1>2, <1>3, <1>4, <1>5, <1>6 DEF Next

\* The inductive invariant holds in every reachable state.
THEOREM Invariance == Spec => []IInv
BY InitInv, NextInv, PTL DEF Spec

\* Every state of the lane is well typed: the clock, each cell's fields, each
\* request and each sweep (BreakerCell, LaneState, ProbeGuard).
THEOREM TypeCorrect == Spec => []TypeOK
<1>1. IInv => TypeOK
  BY DEF IInv
<1> QED
  BY <1>1, Invariance, PTL

\* The probe flag of a cell is up exactly while the cell is HalfOpen, whatever
\* the interleaving of outcomes, releases, hard-downs, recoveries and cell
\* creations (cell_open_locked, cell_closed_locked, cell_release_probe, cell).
THEOREM ProbeFlagCoherent == Spec => []ProbeIffHalfOpen
<1>1. IInv => ProbeIffHalfOpen
  BY DEF IInv
<1> QED
  BY <1>1, Invariance, PTL

(***************************************************************************)
(* A tripped cell stays tripped                                            *)
(***************************************************************************)
\* The step touches no cell that is Open and cooling down.
KeepsTrips ==
  \A p \in CellIds :
    cells[p].state = "Open" /\ now < cells[p].cooldown => cells'[p] = cells[p]

\* Such a step undoes no trip.
LEMMA KeepingSticks ==
  KeepsTrips => OpenSticks
BY DEF KeepsTrips, OpenSticks

\* A step that writes one cell, and writes back an Open one as it was.
LEMMA OneCellSticks ==
  ASSUME IInv, NEW p \in CellIds, NEW d, SetCell(p, d),
         cells[p].state = "Open" /\ now < cells[p].cooldown => d = cells[p]
  PROVE  KeepsTrips
<1>1. \A q \in CellIds : cells'[q] = IF q = p THEN d ELSE cells[q]
  BY DEF SetCell, IInv, TypeOK
<1> QED
  BY <1>1 DEF KeepsTrips

\* A step that touches no cell touches no tripped one.
LEMMA NoCellSticks ==
  ASSUME UNCHANGED cells
  PROVE  KeepsTrips
BY DEF KeepsTrips

\* A request touches no tripped cell.
LEMMA RequestSticks ==
  ASSUME IInv, NEW r \in Requests, Arrive(r) \/ Proceed(r) \/ Finish(r) \/ Abandon(r)
  PROVE  KeepsTrips
<1> DEFINE p == req[r].pool
<1>1. p \in CellIds /\ cells[p] \in Cell /\ Coherent(cells[p]) /\ req[r].epoch \in Nat
  BY OwnCell
<1>2. now \in Nat
  BY LaneConstants DEF IInv, TypeOK
<1>3. ASSUME NEW q \in CellIds, NEW route \in Routes, Admit(r, q, route) PROVE KeepsTrips
  <2>1. cells[q] \in Cell /\ ~(now < cells[q].cooldown)
    BY <1>2, <1>3, ReadCell DEF Admit, Ready, Cell
  <2> QED
    BY <1>3, <2>1, OneCellSticks DEF Admit
<1>4. CASE StickyFull(r) \/ ReleaseAfterFail(r) \/ NoOutcome(r)
  <2>1. SetCell(p, ReleaseProbe(cells[p]))
    BY <1>4 DEF StickyFull, ReleaseAfterFail, NoOutcome
  <2>2. cells[p].state = "Open" => ReleaseProbe(cells[p]) = cells[p]
    BY <1>1, ReleaseCell
  <2> QED
    BY <1>1, <2>1, <2>2, OneCellSticks
<1>5. CASE Fail(r) \/ StreamFail(r)
  <2>1. PICK ra \in Nat : \E d \in FailureResults(cells[p], now, ra) : SetCell(p, d)
    BY <1>5, LaneConstants DEF Fail, StreamFail
  <2>2. PICK d \in FailureResults(cells[p], now, ra) : SetCell(p, d)
    BY <2>1
  <2>3. cells[p].state = "Open" => d = cells[p]
    BY <1>1, <1>2, FailureCell
  <2> QED
    BY <1>1, <2>2, <2>3, OneCellSticks
<1>6. CASE Succeed(r)
  <2>1. cells[p].state = "Open" => RecordSuccess(cells[p]) = cells[p]
    BY <1>1, SuccessCell
  <2> QED
    BY <1>1, <1>6, <2>1, OneCellSticks DEF Succeed
<1>7. CASE GuardDrop(r)
  <2>1. cells[p].state = "Open" => ReleaseProbeOwned(cells[p], req[r].epoch) = cells[p]
    BY <1>1, ReleaseOwnedCell
  <2> QED
    BY <1>1, <1>7, <2>1, OneCellSticks DEF GuardDrop
<1>8. ASSUME UNCHANGED cells PROVE KeepsTrips
  BY <1>8, NoCellSticks
<1> QED
  BY <1>3, <1>4, <1>5, <1>6, <1>7, <1>8
  DEF Arrive, Proceed, Finish, Abandon, LeastBad, ArmGuard, StickyPermit, TryPermit,
      PermitGranted, HardDownAnswer, StreamEnd, Disconnect

\* An Open cell sticks over a step of the sweep.
LEMMA SweepSticks ==
  ASSUME IInv, NEW a \in Actors, SweepStep(a)
  PROVE  OpenSticks
<1>1. ASSUME NEW p \in CellIds, Visit(a, p) PROVE OpenSticks
  <2>1. PICK d \in VisitResults(a, cells[p]) : SetCell(p, d)
    BY <1>1 DEF Visit
  <2>2. cells[p].state = "Open" /\ d # cells[p] =>
          op[a].kind = "hard_down" /\ d.state = "Open" /\ d.cooldown = op[a].at + HardDownSecs
    BY ReadCell, VisitedCell
  <2>3. \A q \in CellIds : cells'[q] = IF q = p THEN d ELSE cells[q]
    BY <2>1 DEF SetCell, IInv, TypeOK
  <2> QED
    BY <2>2, <2>3 DEF OpenSticks
<1>2. ASSUME NEW p \in CellIds, Close(a, p) PROVE OpenSticks
  <2> DEFINE d == ClosedIfRecoverable(cells[p], op[a].at, op[a].observed)
  <2>1. op[a].at \in Nat /\ op[a].observed \in Nat
    BY OldSweepOK DEF SweepOK, Sweep
  <2>2. d # cells[p] => cells[p].cooldown <= op[a].observed
    BY <2>1, ReadCell, RecoverableCell
  <2>3. SetCell(p, d) /\ op[a].kind = "recover" /\ op[a].target = p
    BY <1>2 DEF Close
  <2> HIDE DEF d
  <2>4. \A q \in CellIds : cells'[q] = IF q = p THEN d ELSE cells[q]
    BY <2>3 DEF SetCell, IInv, TypeOK
  <2> QED
    BY <2>2, <2>3, <2>4 DEF OpenSticks
<1>3. ASSUME UNCHANGED cells PROVE OpenSticks
  BY <1>3, NoCellSticks, KeepingSticks
<1> QED
  BY <1>1, <1>2, <1>3 DEF SweepStep, Observe, LockPools, SweepEnd

\* An Open cell sticks over every step.
LEMMA NextSticks ==
  IInv /\ [Next]_vars => [OpenSticks]_vars
<1> SUFFICES ASSUME IInv, Next PROVE OpenSticks
  OBVIOUS
<1>1. ASSUME NEW p \in Pools, CreateFinish(p) PROVE OpenSticks
  <2>1. p \in CellIds /\ cells[p].state = "Closed"
    BY <1>1 DEF CreateFinish, IInv, UnbornUntouched, NewCell, CellIds
  <2> QED
    BY <1>1, <2>1, OneCellSticks, KeepingSticks DEF CreateFinish
<1>2. ASSUME UNCHANGED cells PROVE OpenSticks
  BY <1>2, NoCellSticks, KeepingSticks
<1> QED
  BY <1>1, <1>2, RequestSticks, KeepingSticks, SweepSticks
  DEF Next, Tick, Create, CreateRead, Probe, ProbeSend, ProbeOk, ProbeFail

\* A tripped cell leaves Open before its cooldown is over only through a
\* recovery that had seen that cooldown, and its cooldown is replaced only by a
\* hard-down: no late success, late failure, stale release or new pool undoes a
\* trip (cell_record_success, cell_record_failure, cell_closed_if_recoverable).
THEOREM TrippedStaysTripped == Spec => OpenIsSticky
BY Invariance, NextSticks, PTL DEF Spec, OpenIsSticky

(***************************************************************************)
(* Every probe has an owner                                                *)
(***************************************************************************)
\* A hard-down sweep still has cell p before it.
StillAhead(o, p) ==
  IF p = Default THEN o.phase = "default"
                 ELSE o.phase \in {"default", "lock"} \/ p \in o.todo

\* What a request in flight remembers of its cell.  It holds no epoch the cell
\* has not reached; its guard is at least as new as its probe; once it streams,
\* its probe is settled; while it applies a hard-down, either its probe is
\* settled or its own cell is still ahead.
Remembers(r) ==
  LET c == cells[req[r].pool]
      o == req[r]
  IN  /\ o.pc # "idle" =>
           /\ o.pool \in live \cup {Default}
           /\ o.won <= c.epoch
           /\ o.epoch <= c.epoch
      /\ o.pc \in {"guarded", "waiting"} => o.won <= o.epoch
      /\ o.pc = "streaming" /\ c.state = "HalfOpen" => o.won # c.epoch
      /\ o.pc = "sweeping" /\ c.state = "HalfOpen" /\ o.won = c.epoch =>
           StillAhead(op[r], o.pool)
      /\ op[r].kind # "none" => o.pc = "sweeping" /\ op[r].kind = "hard_down"

\* A request in flight won the cell's probe, or its winner has left.
Owned(p) == \/ \E r \in Requests : InFlight(r, p) /\ req[r].won = cells[p].epoch
            \/ <<p, cells[p].epoch>> \in lost

OwnerInv == /\ NoOrphanProbe
            /\ \A r \in Requests : Remembers(r)

\* How a cell that exists may change under a request that is not acting: its
\* epoch grows, and it becomes HalfOpen only with a new epoch.
Evolves(p) ==
  /\ cells'[p].epoch \in Nat
  /\ cells[p].epoch \in Nat
  /\ cells[p].epoch <= cells'[p].epoch
  /\ cells'[p].state = "HalfOpen" /\ cells'[p].epoch = cells[p].epoch =>
       cells[p].state = "HalfOpen"

\* A request that does not act keeps what it remembers.
LEMMA Bystander ==
  ASSUME IInv, NEW r \in Requests, Remembers(r), live \subseteq live',
         req'[r] = req[r], op'[r].kind = op[r].kind, op'[r].phase = op[r].phase,
         op'[r].todo = op[r].todo,
         req[r].pc # "idle" => Evolves(req[r].pool)
  PROVE  Remembers(r)'
<1>1. req[r] \in Request
  BY DEF IInv, TypeOK
<1>2. req[r].won \in Nat /\ req[r].epoch \in Nat
  BY <1>1 DEF Request
<1>3. CASE req[r].pc = "idle"
  BY <1>3 DEF Remembers
<1>4. CASE req[r].pc # "idle"
  <2>1. /\ req[r].pool \in live' \cup {Default}
        /\ req[r].won <= cells'[req[r].pool].epoch
        /\ req[r].epoch <= cells'[req[r].pool].epoch
    BY <1>2, <1>4 DEF Remembers, Evolves
  <2>2. cells'[req[r].pool].state = "HalfOpen" /\ req[r].won = cells'[req[r].pool].epoch =>
          cells[req[r].pool].state = "HalfOpen" /\ req[r].won = cells[req[r].pool].epoch
    BY <1>2, <1>4 DEF Remembers, Evolves
  <2>3. StillAhead(op[r], req[r].pool) => StillAhead(op[r], req[r].pool)'
    BY DEF StillAhead
  <2> QED
    BY <1>4, <2>1, <2>2, <2>3 DEF Remembers
<1> QED
  BY <1>3, <1>4

\* A step in which one request acts, on its own cell, which it leaves in a state
\* other than HalfOpen, and ends idle or in a phase with nothing to remember.
LEMMA Settles ==
  ASSUME IInv, OwnerInv, NEW r \in Requests, NEW d \in Cell,
         req[r].pc # "idle", SetCell(req[r].pool, d),
         d.state # "HalfOpen", d.epoch = cells[req[r].pool].epoch,
         \/ Leave(r)
         \/ \E pc \in {"streaming", "failed"} : Goto(r, pc),
         op[r].kind = "none", UNCHANGED <<live, op, lost>>
  PROVE  OwnerInv'
<1> DEFINE p == req[r].pool
<1>1. p \in CellIds /\ cells[p] \in Cell
  BY OwnCell
<1>2. \A q \in CellIds : cells'[q] = IF q = p THEN d ELSE cells[q]
  BY DEF SetCell, IInv, TypeOK
<1>3. \A q \in CellIds : Evolves(q)
  BY <1>1, <1>2, ReadCell DEF Evolves, Cell
<1>4. \A s \in Requests : s # r => req'[s] = req[s]
  BY DEF Leave, Goto, IInv, TypeOK
<1>5. req[r] \in Request /\ req[r].pc \in Phases /\ Remembers(r)
  BY DEF OwnerInv, IInv, TypeOK, Request
<1>6. ASSUME NEW s \in Requests, s # r PROVE Remembers(s)'
  <2>1. req[s].pool \in CellIds
    BY OwnCell
  <2> QED
    BY <1>3, <1>4, <1>6, <2>1, Bystander DEF OwnerInv
<1>7. Remembers(r)'
  <2>1. CASE Leave(r)
    <3>1. req'[r] = IdleRequest
      BY <2>1 DEF Leave, IInv, TypeOK
    <3> QED
      BY <3>1 DEF Remembers, IdleRequest
  <2>2. CASE \E pc \in {"streaming", "failed"} : Goto(r, pc)
    <3>1. PICK pc \in {"streaming", "failed"} : req'[r] = [req[r] EXCEPT !.pc = pc]
      BY <2>2 DEF Goto, IInv, TypeOK
    <3>2. /\ req'[r].pc = pc /\ req'[r].pool = p
          /\ req'[r].won = req[r].won /\ req'[r].epoch = req[r].epoch
      BY <1>5, <3>1 DEF Request
    <3> QED
      BY <1>1, <1>2, <1>5, <3>2 DEF Remembers
  <2> QED
    BY <2>1, <2>2
<1>8. NoOrphanProbe'
  <2> SUFFICES ASSUME NEW q \in CellIds, cells'[q].state = "HalfOpen"
               PROVE  Owned(q)'
    BY DEF NoOrphanProbe, Owned
  <2>1. q # p /\ cells'[q] = cells[q]
    BY <1>2
  <2>2. CASE <<q, cells[q].epoch>> \in lost
    BY <2>1, <2>2 DEF Owned
  <2>3. ASSUME NEW s \in Requests, InFlight(s, q), req[s].won = cells[q].epoch
        PROVE  Owned(q)'
    <3>1. s # r
      BY <2>1, <2>3 DEF InFlight
    <3> QED
      BY <1>4, <2>1, <2>3, <3>1 DEF InFlight, Owned
  <2> QED
    BY <2>1, <2>2, <2>3 DEF OwnerInv, NoOrphanProbe
<1> QED
  BY <1>6, <1>7, <1>8 DEF OwnerInv

\* A step that starts no probe, and in which whoever owns one stays in flight.
LEMMA OwnersStay ==
  ASSUME OwnerInv, lost \subseteq lost',
         \A q \in CellIds : cells'[q].state = "HalfOpen" =>
            cells[q].state = "HalfOpen" /\ cells'[q].epoch = cells[q].epoch,
         \A t \in Requests, q \in CellIds :
            cells'[q].state = "HalfOpen" /\ InFlight(t, q) /\ req[t].won = cells[q].epoch =>
              \/ InFlight(t, q)' /\ req'[t].won = req[t].won
              \/ <<q, cells[q].epoch>> \in lost'
  PROVE  NoOrphanProbe'
<1> SUFFICES ASSUME NEW q \in CellIds, cells'[q].state = "HalfOpen"
             PROVE  Owned(q)'
  BY DEF NoOrphanProbe, Owned
<1>1. cells[q].state = "HalfOpen" /\ cells'[q].epoch = cells[q].epoch
  OBVIOUS
<1>2. CASE <<q, cells[q].epoch>> \in lost
  BY <1>1, <1>2 DEF Owned
<1>3. ASSUME NEW t \in Requests, InFlight(t, q), req[t].won = cells[q].epoch
      PROVE  Owned(q)'
  BY <1>1, <1>3 DEF Owned
<1> QED
  BY <1>1, <1>2, <1>3 DEF OwnerInv, NoOrphanProbe

\* Cells that do not change evolve trivially.
LEMMA SameCellsEvolve ==
  ASSUME IInv, UNCHANGED cells
  PROVE  \A q \in CellIds : Evolves(q)
BY ReadCell DEF Evolves, Cell

\* A step that only moves request r, to a state that remembers enough and still
\* owns what it owned.
LEMMA MovesRequest ==
  ASSUME IInv, OwnerInv, NEW r \in Requests, NEW q, req' = [req EXCEPT ![r] = q],
         \A s \in Actors : s # r => op'[s] = op[s],
         UNCHANGED <<cells, live>>, lost \subseteq lost', Remembers(r)',
         \/ q.pc # "idle" /\ q.pool = req[r].pool /\ q.won = req[r].won
         \/ req[r].pc = "idle"
         \/ cells[req[r].pool].state = "HalfOpen" =>
              \/ req[r].won # cells[req[r].pool].epoch
              \/ <<req[r].pool, req[r].won>> \in lost'
  PROVE  OwnerInv'
<1>1. req'[r] = q /\ \A s \in Requests : s # r => req'[s] = req[s]
  BY DEF IInv, TypeOK
<1>2. ASSUME NEW s \in Requests, s # r PROVE Remembers(s)'
  <2>1. req[s].pool \in CellIds /\ s \in Actors
    BY OwnCell DEF Actors
  <2> QED
    BY <1>1, <1>2, <2>1, SameCellsEvolve, Bystander DEF OwnerInv
<1>3. NoOrphanProbe'
  <2>1. \A t \in Requests, p \in CellIds :
            cells'[p].state = "HalfOpen" /\ InFlight(t, p) /\ req[t].won = cells[p].epoch =>
              \/ InFlight(t, p)' /\ req'[t].won = req[t].won
              \/ <<p, cells[p].epoch>> \in lost'
    BY <1>1 DEF InFlight
  <2> QED
    BY <2>1, OwnersStay
<1> QED
  BY <1>2, <1>3 DEF OwnerInv

\* An admission that takes the probe owns it.
LEMMA AdmitOwned ==
  ASSUME IInv, OwnerInv, NEW r \in Requests, NEW p \in CellIds, NEW route \in Routes,
         Admit(r, p, route)
  PROVE  OwnerInv'
<1> DEFINE c == cells[p]
<1>1. c \in Cell /\ Coherent(c) /\ c.state # "HalfOpen" /\ c.epoch \in Nat
  BY ReadCell DEF Admit, Ready, Cell
<1>2. p \in live \cup {Default} /\ req[r].pc = "idle" /\ op[r].kind = "none"
  BY AccessibleCell DEF Admit, OwnerInv, Remembers
<1>3. \A q \in CellIds : cells'[q] = IF q = p THEN Acquire(c) ELSE cells[q]
  BY DEF Admit, SetCell, IInv, TypeOK
<1>4. /\ c.state = "Open" => Acquire(c).state = "HalfOpen" /\ Acquire(c).epoch = c.epoch + 1
      /\ c.state # "Open" => Acquire(c) = c
  BY <1>1, AcquireCell
<1>5. \A q \in CellIds : Evolves(q)
  BY <1>1, <1>3, <1>4, ReadCell DEF Evolves, Cell
<1>6. /\ \A s \in Requests : s # r => req'[s] = req[s]
      /\ req'[r].pc \in {"sticky", "admitted"}
      /\ req'[r].pool = p
      /\ req'[r].epoch = 0
      /\ req'[r].won = IF c.state = "Open" THEN c.epoch + 1 ELSE 0
  BY DEF Admit, IInv, TypeOK
<1>7. ASSUME NEW s \in Requests, s # r PROVE Remembers(s)'
  <2>1. req[s].pool \in CellIds
    BY OwnCell
  <2> QED
    BY <1>5, <1>6, <1>7, <2>1, Bystander DEF OwnerInv, Admit
<1>8. Remembers(r)'
  <2>1. req'[r].won <= cells'[p].epoch /\ req'[r].epoch <= cells'[p].epoch
    BY <1>1, <1>3, <1>4, <1>6
  <2> QED
    BY <1>2, <1>6, <2>1 DEF Remembers, Admit
<1>9. NoOrphanProbe'
  <2> SUFFICES ASSUME NEW q \in CellIds, cells'[q].state = "HalfOpen"
               PROVE  Owned(q)'
    BY DEF NoOrphanProbe, Owned
  <2>1. CASE q = p
    BY <1>1, <1>3, <1>4, <1>6, <2>1 DEF InFlight, Owned
  <2>2. CASE q # p
    <3>1. CASE <<q, cells[q].epoch>> \in lost
      BY <1>3, <2>2, <3>1 DEF Owned, Admit
    <3>2. ASSUME NEW s \in Requests, InFlight(s, q), req[s].won = cells[q].epoch
          PROVE  Owned(q)'
      BY <1>2, <1>3, <1>6, <2>2, <3>2 DEF InFlight, Owned
    <3> QED
      BY <1>3, <2>2, <3>1, <3>2 DEF OwnerInv, NoOrphanProbe
  <2> QED
    BY <2>1, <2>2
<1> QED
  BY <1>7, <1>8, <1>9 DEF OwnerInv

\* The other moves of a request that touch no cell.
LEMMA MoveOwned ==
  ASSUME IInv, OwnerInv, NEW r \in Requests,
         \/ \E p \in CellIds : LeastBad(r, p)
         \/ ArmGuard(r) \/ StickyPermit(r) \/ TryPermit(r) \/ PermitGranted(r)
         \/ HardDownAnswer(r) \/ StreamEnd(r) \/ Disconnect(r)
  PROVE  OwnerInv'
<1> DEFINE p == req[r].pool
           c == cells[p]
<1>1. p \in CellIds /\ c \in Cell /\ c.epoch \in Nat /\ req[r] \in Request
  BY OwnCell DEF Cell, IInv, TypeOK
<1>2. Remembers(r) /\ req[r].won \in Nat
  BY <1>1 DEF OwnerInv, Request
<1>3. ASSUME NEW q \in CellIds, LeastBad(r, q) PROVE OwnerInv'
  <2> DEFINE n == [IdleRequest EXCEPT !.pc = "dispatched", !.route = "least_bad", !.pool = q]
  <2>1. req' = [req EXCEPT ![r] = n] /\ req'[r] = n
    BY <1>3 DEF LeastBad, IInv, TypeOK
  <2>2. n.pc = "dispatched" /\ n.pool = q /\ n.won = 0 /\ n.epoch = 0
    BY DEF IdleRequest
  <2>3. q \in live \cup {Default} /\ req[r].pc = "idle" /\ cells[q].epoch \in Nat
    BY <1>3, AccessibleCell, ReadCell DEF LeastBad, Cell
  <2> HIDE DEF n
  <2>4. Remembers(r)'
    <3>1. op'[r].kind = "none" /\ live' = live /\ cells' = cells
      BY <1>2, <1>3, <2>3 DEF Remembers, LeastBad
    <3>2. 0 <= cells[q].epoch
      BY <2>3
    <3> QED
      BY <2>1, <2>2, <2>3, <3>1, <3>2 DEF Remembers
  <2> QED
    BY <1>3, <2>1, <2>3, <2>4, MovesRequest DEF LeastBad
<1>4. CASE ArmGuard(r)
  <2> DEFINE n == [req[r] EXCEPT !.pc = "guarded", !.epoch = c.epoch]
  <2>1. req' = [req EXCEPT ![r] = n] /\ req'[r] = n
    BY <1>1, <1>4 DEF ArmGuard, IInv, TypeOK, Request
  <2>2. n.pc = "guarded" /\ n.pool = p /\ n.won = req[r].won /\ n.epoch = c.epoch
    BY <1>1 DEF Request
  <2> HIDE DEF n
  <2>3. Remembers(r)'
    BY <1>1, <1>2, <1>4, <2>1, <2>2 DEF Remembers, ArmGuard
  <2> QED
    BY <1>4, <2>1, <2>2, <2>3, MovesRequest DEF ArmGuard
<1>5. CASE StickyPermit(r) \/ TryPermit(r) \/ PermitGranted(r)
  <2>0. PICK pc \in {"dispatched", "waiting"} :
          Goto(r, pc) /\ (pc = "waiting" => req[r].pc = "guarded")
    BY <1>5 DEF StickyPermit, TryPermit, PermitGranted
  <2>1. req' = [req EXCEPT ![r] = [req[r] EXCEPT !.pc = pc]]
    BY <2>0 DEF Goto, IInv, TypeOK
  <2> DEFINE n == [req[r] EXCEPT !.pc = pc]
  <2>2. n.pc = pc /\ n.pool = p /\ n.won = req[r].won /\ n.epoch = req[r].epoch
    BY <1>1 DEF Request
  <2>3. req'[r] = n
    BY <2>1 DEF IInv, TypeOK
  <2> HIDE DEF n
  <2>4. req[r].pc # "idle" /\ UNCHANGED <<cells, live, op, lost>>
    BY <1>5 DEF StickyPermit, TryPermit, PermitGranted
  <2>5. op[r].kind = "none"
    BY <1>2, <1>5 DEF Remembers, StickyPermit, TryPermit, PermitGranted
  <2>6. Remembers(r)'
    BY <1>2, <2>0, <2>2, <2>3, <2>4, <2>5 DEF Remembers
  <2> QED
    BY <2>1, <2>2, <2>4, <2>6, MovesRequest DEF n
<1>6. CASE HardDownAnswer(r)
  <2> DEFINE n == [req[r] EXCEPT !.pc = "sweeping"]
             o == NewSweep("hard_down", 0)
  <2>1. req' = [req EXCEPT ![r] = n] /\ req'[r] = n
    BY <1>6 DEF HardDownAnswer, Goto, IInv, TypeOK
  <2>2. n.pc = "sweeping" /\ n.pool = p /\ n.won = req[r].won /\ n.epoch = req[r].epoch
    BY <1>1 DEF Request
  <2>3. r \in Actors /\ op'[r] = o /\ \A s \in Actors : s # r => op'[s] = op[s]
    BY <1>6 DEF HardDownAnswer, IInv, TypeOK, Actors
  <2>4. o.kind = "hard_down" /\ o.phase = "default"
    BY DEF NewSweep, NoSweep
  <2> HIDE DEF n, o
  <2>5. StillAhead(op[r], p)'
    BY <2>3, <2>4 DEF StillAhead
  <2>6. StillAhead(op'[r], req'[r].pool)
    BY <2>1, <2>2, <2>3, <2>4 DEF StillAhead
  <2>7. Remembers(r)'
    BY <1>2, <1>6, <2>1, <2>2, <2>3, <2>4, <2>6 DEF Remembers, HardDownAnswer
  <2> QED
    BY <1>6, <2>1, <2>2, <2>3, <2>7, MovesRequest DEF HardDownAnswer
<1>7. CASE StreamEnd(r)
  <2>1. req' = [req EXCEPT ![r] = IdleRequest] /\ req'[r] = IdleRequest
    BY <1>7 DEF StreamEnd, Leave, IInv, TypeOK
  <2>2. Remembers(r)'
    BY <1>2, <1>7, <2>1 DEF Remembers, IdleRequest, StreamEnd
  <2>3. c.state = "HalfOpen" => req[r].won # c.epoch
    BY <1>2, <1>7 DEF Remembers, StreamEnd
  <2> QED
    BY <1>7, <2>1, <2>2, <2>3, MovesRequest DEF StreamEnd
<1>8. CASE Disconnect(r)
  <2>1. req' = [req EXCEPT ![r] = IdleRequest] /\ req'[r] = IdleRequest
    BY <1>8 DEF Disconnect, Leave, IInv, TypeOK
  <2>2. Remembers(r)'
    BY <1>2, <1>8, <2>1 DEF Remembers, IdleRequest, Disconnect
  <2>3. c.state = "HalfOpen" => req[r].won # c.epoch \/ <<p, req[r].won>> \in lost'
    BY <1>8 DEF Disconnect, OnTrial
  <2>4. lost \subseteq lost' /\ UNCHANGED <<cells, live, op>>
    BY <1>8 DEF Disconnect
  <2> QED
    BY <2>1, <2>2, <2>3, <2>4, MovesRequest
<1> QED
  BY <1>3, <1>4, <1>5, <1>6, <1>7, <1>8

\* The moves that settle the request's own cell.
LEMMA SettleOwned ==
  ASSUME IInv, OwnerInv, NEW r \in Requests,
         \/ StickyFull(r) \/ ReleaseAfterFail(r) \/ NoOutcome(r)
         \/ Fail(r) \/ StreamFail(r) \/ Succeed(r) \/ GuardDrop(r)
  PROVE  OwnerInv'
<1> DEFINE p == req[r].pool
           c == cells[p]
<1>1. p \in CellIds /\ c \in Cell /\ Coherent(c) /\ now \in Nat /\ req[r] \in Request
  BY OwnCell, LaneConstants DEF IInv, TypeOK
<1>2. Remembers(r) /\ req[r].won \in Nat /\ req[r].epoch \in Nat /\ c.epoch \in Nat
  BY <1>1 DEF OwnerInv, Request, Cell
<1>3. req[r].pc # "idle" /\ req[r].pc # "sweeping" /\ UNCHANGED <<live, op, lost>>
  BY DEF StickyFull, ReleaseAfterFail, NoOutcome, Fail, StreamFail, Succeed, GuardDrop
<1>4. op[r].kind = "none"
  BY <1>2, <1>3 DEF Remembers
<1>5. CASE StickyFull(r) \/ ReleaseAfterFail(r) \/ NoOutcome(r)
  <2>1. SetCell(p, ReleaseProbe(c)) /\ Leave(r)
    BY <1>5 DEF StickyFull, ReleaseAfterFail, NoOutcome
  <2> QED
    BY <1>1, <1>3, <1>4, <2>1, ReleaseCell, Settles
<1>6. CASE Fail(r) \/ StreamFail(r)
  <2>1. PICK ra \in Nat : \E d \in FailureResults(c, now, ra) : SetCell(p, d)
    BY <1>6, LaneConstants DEF Fail, StreamFail
  <2>2. PICK d \in FailureResults(c, now, ra) : SetCell(p, d)
    BY <2>1
  <2>3. d \in Cell /\ d.state # "HalfOpen" /\ d.epoch = c.epoch
    BY <1>1, FailureCell
  <2>4. Leave(r) \/ \E pc \in {"streaming", "failed"} : Goto(r, pc)
    BY <1>6 DEF Fail, StreamFail
  <2> QED
    BY <1>3, <1>4, <2>2, <2>3, <2>4, Settles
<1>7. CASE Succeed(r)
  <2>1. SetCell(p, RecordSuccess(c)) /\ Goto(r, "streaming")
    BY <1>7 DEF Succeed
  <2> QED
    BY <1>1, <1>3, <1>4, <2>1, SuccessCell, Settles
<1>8. CASE GuardDrop(r)
  <2> DEFINE d == ReleaseProbeOwned(c, req[r].epoch)
  <2>1. SetCell(p, d) /\ Leave(r)
    BY <1>8 DEF GuardDrop
  <2>2. CASE c.epoch = req[r].epoch
    <3>1. d \in Cell /\ d.state # "HalfOpen" /\ d.epoch = c.epoch
      BY <1>1, <1>2, <2>2, ReleaseOwnedCell
    <3> HIDE DEF d
    <3> QED
      BY <1>3, <1>4, <2>1, <3>1, Settles
  <2>3. CASE c.epoch # req[r].epoch
    <3>1. UNCHANGED cells
      BY <1>1, <1>2, <2>1, <2>3, ReleaseOwnedCell DEF SetCell, IInv, TypeOK
    <3>2. req[r].won # c.epoch
      BY <1>2, <1>8, <2>3 DEF Remembers, GuardDrop
    <3>3. req' = [req EXCEPT ![r] = IdleRequest] /\ req'[r] = IdleRequest
      BY <2>1 DEF Leave, IInv, TypeOK
    <3>4. Remembers(r)'
      BY <1>3, <1>4, <3>3 DEF Remembers, IdleRequest
    <3> QED
      BY <1>3, <3>1, <3>2, <3>3, <3>4, MovesRequest
  <2> QED
    BY <2>2, <2>3
<1> QED
  BY <1>5, <1>6, <1>7, <1>8

\* A step of a sweep leaves every request where it is, starts no probe, and
\* changes of the sweeps of other actors at most their history.
LEMMA SweepKeepsOwners ==
  ASSUME IInv, OwnerInv, NEW a \in Actors, UNCHANGED <<req, live, lost>>,
         \A q \in CellIds :
           /\ cells'[q].epoch = cells[q].epoch
           /\ cells'[q].state = "HalfOpen" => cells[q].state = "HalfOpen",
         \A b \in Actors : b # a => /\ op'[b].kind = op[b].kind
                                    /\ op'[b].phase = op[b].phase
                                    /\ op'[b].todo = op[b].todo,
         a \in Requests => Remembers(a)'
  PROVE  OwnerInv'
<1>1. \A q \in CellIds : Evolves(q)
  BY ReadCell DEF Evolves, Cell
<1>2. ASSUME NEW s \in Requests, s # a PROVE Remembers(s)'
  <2>1. req[s].pool \in CellIds /\ s \in Actors
    BY OwnCell DEF Actors
  <2> QED
    BY <1>1, <1>2, <2>1, Bystander DEF OwnerInv
<1>3. NoOrphanProbe'
  <2>1. \A t \in Requests, q \in CellIds : InFlight(t, q) => InFlight(t, q)' /\ req'[t].won = req[t].won
    BY DEF InFlight
  <2> QED
    BY <2>1, OwnersStay
<1> QED
  BY <1>2, <1>3 DEF OwnerInv

\* A request that is sweeping is applying a hard-down.
LEMMA RequestSweep ==
  ASSUME OwnerInv, NEW a \in Actors, op[a].kind \in Sweeps, a \in Requests
  PROVE  req[a].pc = "sweeping" /\ op[a].kind = "hard_down" /\ Remembers(a)
BY DEF OwnerInv, Remembers, Sweeps

\* A visit of the sweep leaves the probes with their owners.
LEMMA VisitOwned ==
  ASSUME IInv, OwnerInv, NEW a \in Actors, NEW p \in CellIds, Visit(a, p)
  PROVE  OwnerInv'
<1>1. PICK d \in VisitResults(a, cells[p]) : SetCell(p, d)
  BY DEF Visit
<1>2. d.state # "HalfOpen" /\ d.epoch = cells[p].epoch
  BY ReadCell, VisitedCell
<1>3. \A q \in CellIds : cells'[q] = IF q = p THEN d ELSE cells[q]
  BY <1>1 DEF SetCell, IInv, TypeOK
<1>4. op'[a] = Advance(a, p) /\ \A b \in Actors : b # a => op'[b] = op[b]
  BY DEF Visit, IInv, TypeOK
<1>5. UNCHANGED <<req, live, lost>> /\ MayVisit(a, p)
  BY DEF Visit
<1>6. ASSUME a \in Requests PROVE Remembers(a)'
  <2> DEFINE q == req[a].pool
  <2>1. req[a].pc = "sweeping" /\ op[a].kind = "hard_down" /\ Remembers(a) /\ q \in CellIds
    BY <1>5, <1>6, RequestSweep, OwnCell DEF MayVisit
  <2>2. op[a] \in Sweep
    BY DEF IInv, TypeOK
  <2>3. Advance(a, p).kind = "hard_down"
    BY <2>1, <2>2 DEF Advance, Sweep
  <2>4. CASE q = p
    BY <1>2, <1>3, <1>4, <1>5, <2>1, <2>3, <2>4 DEF Remembers
  <2>5. CASE q # p
    <3>1. StillAhead(op[a], q) => StillAhead(Advance(a, p), q)
      <4>1. CASE p = Default
        <5>1. Advance(a, p).phase = "lock"
          BY <2>2, <4>1 DEF Advance, Sweep
        <5> QED
          BY <2>5, <4>1, <5>1 DEF StillAhead
      <4>2. CASE p # Default
        <5>1. op[a].phase = "pools"
          BY <1>5, <4>2 DEF MayVisit
        <5>2. Advance(a, p).phase = "pools" /\ Advance(a, p).todo = op[a].todo \ {p}
          BY <2>2, <4>2, <5>1 DEF Advance, Sweep
        <5> QED
          BY <2>5, <5>1, <5>2 DEF StillAhead
      <4> QED
        BY <4>1, <4>2
    <3>2. cells'[q] = cells[q]
      BY <1>3, <2>1, <2>5
    <3> QED
      BY <1>4, <1>5, <2>1, <2>3, <3>1, <3>2 DEF Remembers
  <2> QED
    BY <2>4, <2>5
<1> QED
  BY <1>2, <1>3, <1>4, <1>5, <1>6, SweepKeepsOwners

\* The sweep leaves the probes with their owners.
LEMMA SweepOwned ==
  ASSUME IInv, OwnerInv, NEW a \in Actors, SweepStep(a)
  PROVE  OwnerInv'
<1>0. op[a] \in Sweep
  BY DEF IInv, TypeOK
<1>1. ASSUME NEW p \in CellIds, Visit(a, p) PROVE OwnerInv'
  BY <1>1, VisitOwned
<1>2. ASSUME NEW p \in CellIds, Observe(a, p) PROVE OwnerInv'
  <2>1. a \notin Requests
    BY <1>2, RequestSweep DEF Observe, Sweeps
  <2>2. \A b \in Actors : b # a => op'[b] = op[b]
    BY <1>2 DEF Observe, IInv, TypeOK
  <2> QED
    BY <1>2, <2>1, <2>2, SweepKeepsOwners DEF Observe
<1>3. ASSUME NEW p \in CellIds, Close(a, p) PROVE OwnerInv'
  <2> DEFINE d == ClosedIfRecoverable(cells[p], op[a].at, op[a].observed)
  <2>1. a \notin Requests
    BY <1>3, RequestSweep DEF Close, Sweeps
  <2>2. op[a].at \in Nat /\ op[a].observed \in Nat
    BY <1>0 DEF Sweep
  <2>3. d.epoch = cells[p].epoch /\ (d.state = "HalfOpen" => cells[p].state = "HalfOpen")
    BY <2>2, ReadCell, RecoverableCell
  <2>4. SetCell(p, d)
    BY <1>3 DEF Close
  <2>5. \A b \in Actors : b # a =>
          op'[b] = [op[b] EXCEPT !.parks = IF d = cells[p] THEN @ ELSE 0]
    BY <1>3 DEF Close
  <2> HIDE DEF d
  <2>6. \A b \in Actors : op[b] \in Sweep
    BY DEF IInv, TypeOK
  <2>7. \A b \in Actors : b # a => /\ op'[b].kind = op[b].kind
                                   /\ op'[b].phase = op[b].phase
                                   /\ op'[b].todo = op[b].todo
    BY <2>5, <2>6 DEF Sweep
  <2>8. \A q \in CellIds : cells'[q] = IF q = p THEN d ELSE cells[q]
    BY <2>4 DEF SetCell, IInv, TypeOK
  <2>9. UNCHANGED <<req, live, lost>>
    BY <1>3 DEF Close
  <2> QED
    BY <2>1, <2>3, <2>7, <2>8, <2>9, SweepKeepsOwners
<1>4. CASE LockPools(a)
  <2>1. \A b \in Actors : b # a => op'[b] = op[b]
    BY <1>4 DEF LockPools, IInv, TypeOK
  <2>2. op'[a].phase = "pools" /\ op'[a].todo = live /\ op'[a].kind = op[a].kind
    BY <1>0, <1>4 DEF LockPools, IInv, TypeOK, Sweep
  <2>3. ASSUME a \in Requests PROVE Remembers(a)'
    <3> DEFINE q == req[a].pool
    <3>1. req[a].pc = "sweeping" /\ op[a].kind = "hard_down" /\ Remembers(a)
      BY <1>4, <2>3, RequestSweep DEF LockPools
    <3>2. q \in live \cup {Default}
      BY <3>1 DEF Remembers
    <3>3. StillAhead(op[a], q) => StillAhead(op'[a], q)
      BY <1>4, <2>2, <3>2 DEF StillAhead, LockPools
    <3> QED
      BY <1>4, <2>2, <3>1, <3>3 DEF Remembers, LockPools
  <2> QED
    BY <1>4, <2>1, <2>3, SweepKeepsOwners DEF LockPools
<1>5. CASE SweepEnd(a)
  <2>1. \A b \in Actors : op[b] \in Sweep
    BY DEF IInv, TypeOK
  <2>2. \A b \in Actors : b # a => /\ op'[b].kind = op[b].kind
                                   /\ op'[b].phase = op[b].phase
                                   /\ op'[b].todo = op[b].todo
    <3>1. CASE EndHardDown(a)
      <4>1. PICK e : \A b \in Actors : b # a => op'[b] = [op[b] EXCEPT !.parks = Lesser(@, e)]
        BY <3>1 DEF EndHardDown
      <4> QED
        BY <2>1, <4>1 DEF Sweep
    <3>2. CASE EndOther(a)
      BY <3>2 DEF EndOther, IInv, TypeOK
    <3> QED
      BY <1>5, <3>1, <3>2 DEF SweepEnd
  <2>3. UNCHANGED <<cells, live, lost>>
    BY <1>5 DEF SweepEnd
  <2>4. CASE a \notin Requests
    BY <1>5, <2>2, <2>3, <2>4, SweepKeepsOwners DEF SweepEnd
  <2>5. CASE a \in Requests
    <3>1. req[a].pc = "sweeping" /\ op[a].kind = "hard_down" /\ Remembers(a)
      BY <1>5, <2>5, RequestSweep DEF SweepEnd
    <3>2. ~StillAhead(op[a], req[a].pool)
      BY <1>5 DEF StillAhead, SweepEnd
    <3>3. cells[req[a].pool].state = "HalfOpen" => req[a].won # cells[req[a].pool].epoch
      BY <3>1, <3>2 DEF Remembers
    <3>4. /\ req'[a] = IdleRequest
          /\ \A s \in Requests : s # a => req'[s] = req[s]
      BY <1>5, <2>5 DEF SweepEnd, IInv, TypeOK
    <3>5. op'[a] = NoSweep
      BY <1>5, <3>1 DEF SweepEnd, EndHardDown
    <3>6. Remembers(a)'
      BY <3>4, <3>5 DEF Remembers, IdleRequest, NoSweep
    <3>7. ASSUME NEW s \in Requests, s # a PROVE Remembers(s)'
      <4>1. req[s].pool \in CellIds /\ s \in Actors
        BY OwnCell DEF Actors
      <4> QED
        BY <2>2, <2>3, <3>4, <3>7, <4>1, SameCellsEvolve, Bystander DEF OwnerInv
    <3>8. NoOrphanProbe'
      <4>1. \A t \in Requests, q \in CellIds :
              cells'[q].state = "HalfOpen" /\ InFlight(t, q) /\ req[t].won = cells[q].epoch =>
                InFlight(t, q)' /\ req'[t].won = req[t].won
        BY <2>3, <3>3, <3>4 DEF InFlight
      <4> QED
        BY <2>3, <4>1, OwnersStay
    <3> QED
      BY <3>6, <3>7, <3>8 DEF OwnerInv
  <2> QED
    BY <2>4, <2>5
<1> QED
  BY <1>1, <1>2, <1>3, <1>4, <1>5 DEF SweepStep

\* Steps in which no request and no cell in use takes part.
LEMMA IdleOwned ==
  ASSUME IInv, OwnerInv, NEW p, live \subseteq live', p \notin live \cup {Default},
         UNCHANGED <<req, lost>>,
         \A q \in CellIds : q # p => cells'[q] = cells[q],
         p \in CellIds => cells'[p].state # "HalfOpen",
         \A r \in Requests : op'[r] = op[r]
  PROVE  OwnerInv'
<1>1. ASSUME NEW r \in Requests PROVE Remembers(r)'
  <2>1. req[r].pool \in CellIds /\ cells[req[r].pool] \in Cell /\ Remembers(r)
    BY OwnCell DEF OwnerInv
  <2>2. req[r].pc # "idle" => Evolves(req[r].pool)
    BY <2>1 DEF Remembers, Evolves, Cell
  <2> QED
    BY <2>1, <2>2, Bystander
<1>2. NoOrphanProbe'
  <2>1. \A t \in Requests, q \in CellIds : InFlight(t, q) => InFlight(t, q)' /\ req'[t].won = req[t].won
    BY DEF InFlight
  <2> QED
    BY <2>1, OwnersStay
<1> QED
  BY <1>1, <1>2 DEF OwnerInv

\* A new cell has no probe.
LEMMA CreateOwned ==
  ASSUME IInv, OwnerInv, NEW p \in Pools, CreateFinish(p)
  PROVE  OwnerInv'
<1>1. p \in CellIds /\ p \notin live \cup {Default}
  BY LaneConstants DEF CreateFinish, IInv, UnbornUntouched, CellIds
<1>2. making.state # "HalfOpen"
  BY DEF IInv, TypeOK
<1> DEFINE c == [NewCell EXCEPT !.state = making.state,
                                !.cooldown = cells[Default].cooldown,
                                !.streak = cells[Default].streak]
<1>3. c.state = making.state
  BY DEF NewCell
<1>4. SetCell(p, c)
  BY DEF CreateFinish
<1> HIDE DEF c
<1>5. \A q \in CellIds : cells'[q] = IF q = p THEN c ELSE cells[q]
  BY <1>4 DEF SetCell, IInv, TypeOK
<1>6. UNCHANGED <<req, op, lost>> /\ live \subseteq live'
  BY DEF CreateFinish
<1> QED
  BY <1>1, <1>2, <1>3, <1>5, <1>6, IdleOwned

\* Every step leaves the probes with their owners.
LEMMA NextOwned ==
  IInv /\ OwnerInv /\ [Next]_vars => OwnerInv'
<1> SUFFICES ASSUME IInv, OwnerInv, [Next]_vars PROVE OwnerInv'
  OBVIOUS
<1>1. ASSUME NEW r \in Requests, Arrive(r) \/ Proceed(r) \/ Finish(r) \/ Abandon(r)
      PROVE  OwnerInv'
  BY <1>1, AdmitOwned, MoveOwned, SettleOwned DEF Arrive, Proceed, Finish, Abandon
<1>2. ASSUME NEW a \in Actors, SweepStep(a) PROVE OwnerInv'
  BY <1>2, SweepOwned
<1>3. ASSUME NEW p \in Pools, CreateFinish(p) PROVE OwnerInv'
  BY <1>3, CreateOwned
<1>4. ASSUME UNCHANGED <<cells, live, req, lost>>, \A r \in Requests : op'[r] = op[r]
      PROVE  OwnerInv'
  <2>1. Nobody \notin CellIds /\ Nobody \notin live \cup {Default}
    BY LaneConstants DEF CellIds, IInv, TypeOK
  <2> QED
    BY <1>4, <2>1, IdleOwned
<1>5. CASE Probe
  <2>1. \A r \in Requests : op'[r] = op[r]
    BY <1>5, LaneConstants DEF Probe, ProbeSend, ProbeOk, ProbeFail, IInv, TypeOK, Actors
  <2> QED
    BY <1>4, <1>5, <2>1 DEF Probe, ProbeSend, ProbeOk, ProbeFail
<1>6. CASE Tick \/ UNCHANGED vars \/ \E p \in Pools : CreateRead(p)
  BY <1>4, <1>6 DEF Tick, vars, CreateRead
<1> QED
  BY <1>1, <1>2, <1>3, <1>5, <1>6 DEF Next, Create

\* No probe is owned at the start.
LEMMA InitOwned ==
  Init => OwnerInv
BY DEF Init, OwnerInv, NoOrphanProbe, Remembers, NewCell, IdleRequest, NoSweep, CellIds, Actors

\* A HalfOpen cell always has the request in flight that won its probe, unless
\* that request's client went away during the upstream call: no interleaving of
\* permits, guards, outcomes, releases, hard-down sweeps, recoveries and cell
\* creations, and no client that leaves while it waits for a permit or reads the
\* answer, strands a lane in HalfOpen (pick_among, ProbeGuard, the exits of the
\* engine and of forward_once).
THEOREM ProbeHasOwner ==
  Spec => []NoOrphanProbe
<1>1. IInv /\ OwnerInv /\ [Next]_vars => OwnerInv'
  BY NextOwned
<1>2. OwnerInv => NoOrphanProbe
  BY DEF OwnerInv
<1> QED
  BY <1>1, <1>2, InitOwned, Invariance, PTL DEF Spec

(***************************************************************************)
(* A hard-down parks the whole lane                                        *)
(***************************************************************************)
\* The actors applying a hard-down, and the cells one of them is done with.
Hard    == {a \in Actors : op[a].kind = "hard_down"}
Done(o) == {p \in live \cup {Default} : ~StillAhead(o, p)}

\* A request runs no sweep but its own hard-down.
OwnSweep ==
  \A r \in Requests :
    op[r].kind # "none" => req[r].pc = "sweeping" /\ op[r].kind = "hard_down"

\* No cell is being created while a sweep is among the pool cells.
MapLock == \A a \in Actors : op[a].phase = "pools" => ~WriteLocked

\* A cell that is being created under a parked lane has read Open.
BornParked == WriteLocked /\ now < hdUntil => making.state = "Open"

\* No deadline is further away than a hard-down taken now would put it, and
\* none a running hard-down could bring nearer.
Deadlines ==
  /\ hdUntil <= now + HardDownSecs
  /\ \A a \in Hard : /\ op[a].at <= now
                     /\ op[a].parks <= op[a].at + HardDownSecs
                     /\ hdUntil <= op[a].at + HardDownSecs

\* The cell is Open until some running hard-down's deadline at the least.
Parked(p) == /\ cells[p].state = "Open"
             /\ \E b \in Hard : op[b].parks <= cells[p].cooldown

\* As long as no deadline of a running hard-down is over, and no recovery has
\* cancelled them, the cells that are swept are parked.
Swept == (\A b \in Hard : now < op[b].parks) =>
           \A a \in Hard : \A p \in Done(op[a]) : Parked(p)

ParkInv == /\ OwnSweep /\ MapLock /\ BornParked /\ Deadlines /\ Swept
           /\ HardDownParksLane

\* The instants are natural numbers.
LEMMA Instants ==
  ASSUME IInv
  PROVE  /\ now \in Nat /\ hdUntil \in Nat /\ HardDownSecs \in Nat \ {0}
         /\ \A a \in Actors : op[a].at \in Nat /\ op[a].parks \in Nat
         /\ \A p \in CellIds : cells[p].cooldown \in Nat
         /\ live \cup {Default} \subseteq CellIds
<1>1. \A a \in Actors : op[a].at \in Nat /\ op[a].parks \in Nat
  BY OldSweepOK DEF SweepOK, Sweep
<1>2. \A p \in CellIds : cells[p].cooldown \in Nat
  BY ReadCell DEF Cell
<1> QED
  BY <1>1, <1>2, CellConstants, LaneConstants DEF IInv, TypeOK, CellIds

\* A step that begins, moves and ends no hard-down and touches no tripped cell.
LEMMA HardsStay ==
  ASSUME IInv, ParkInv, KeepsTrips, OwnSweep', MapLock',
         UNCHANGED <<now, live, making, hdUntil>>,
         \A b \in Actors : op[b].kind = "hard_down" \/ op'[b].kind = "hard_down" =>
                             op'[b] = op[b]
  PROVE  ParkInv'
<1>1. Hard' = Hard /\ \A b \in Hard : b \in Actors /\ op'[b] = op[b]
  BY DEF Hard
<1>2. \A p \in live \cup {Default} :
        cells[p].state = "Open" /\ now < cells[p].cooldown => cells'[p] = cells[p]
  BY Instants DEF KeepsTrips
<1>3. BornParked'
  BY DEF ParkInv, BornParked, WriteLocked
<1>4. Deadlines'
  BY <1>1 DEF ParkInv, Deadlines
<1>5. Swept'
  <2> SUFFICES ASSUME \A b \in Hard : now < op[b].parks,
                      NEW a \in Hard, NEW p \in Done(op[a])
               PROVE  Parked(p)'
    BY <1>1 DEF Swept, Done
  <2>1. Parked(p)
    BY DEF ParkInv, Swept
  <2>2. PICK b \in Hard : op[b].parks <= cells[p].cooldown
    BY <2>1 DEF Parked
  <2>3. p \in live \cup {Default} /\ now < cells[p].cooldown
    BY <2>2, Instants DEF Done, Hard
  <2> QED
    BY <1>1, <1>2, <2>1, <2>2, <2>3 DEF Parked
<1>6. HardDownParksLane'
  <2> SUFFICES ASSUME now < hdUntil, NEW p \in live \cup {Default}
               PROVE  cells'[p].state = "Open" /\ cells'[p].cooldown >= hdUntil
    BY DEF HardDownParksLane
  <2>1. cells[p].state = "Open" /\ cells[p].cooldown >= hdUntil
    BY DEF ParkInv, HardDownParksLane
  <2> QED
    BY <1>2, <2>1, Instants
<1> QED
  BY <1>3, <1>4, <1>5, <1>6 DEF ParkInv

\* A hard-down as it begins.
LEMMA NewHardDown ==
  LET o == NewSweep("hard_down", 0)
  IN  /\ o.kind = "hard_down" /\ o.phase = "default" /\ o.at = now
      /\ o.parks = now + HardDownSecs
BY DEF NewSweep, NoSweep

\* A hard-down begins.
LEMMA HardBegins ==
  ASSUME IInv, ParkInv, NEW a \in Actors, a \notin Hard, OwnSweep',
         op' = [op EXCEPT ![a] = NewSweep("hard_down", 0)],
         UNCHANGED <<now, cells, live, making, hdUntil>>
  PROVE  ParkInv'
<1>1. /\ op'[a] = NewSweep("hard_down", 0)
      /\ \A b \in Actors : b # a => op'[b] = op[b]
  BY DEF IInv, TypeOK
<1>2. /\ op'[a].kind = "hard_down" /\ op'[a].phase = "default" /\ op'[a].at = now
      /\ op'[a].parks = now + HardDownSecs
  BY <1>1, NewHardDown
<1>3. Hard' = Hard \cup {a} /\ \A b \in Hard : b \in Actors /\ b # a
  BY <1>1, <1>2 DEF Hard
<1>4. MapLock'
  BY <1>1, <1>2 DEF ParkInv, MapLock, WriteLocked
<1>5. BornParked'
  BY DEF ParkInv, BornParked, WriteLocked
<1>6. Deadlines'
  BY <1>1, <1>2, <1>3, Instants DEF ParkInv, Deadlines
<1>7. Swept'
  <2> SUFFICES ASSUME \A b \in Hard' : now < op'[b].parks,
                      NEW c \in Hard', NEW p \in Done(op[c])'
               PROVE  Parked(p)'
    BY DEF Swept
  <2>2. c # a
    BY <1>2, LaneConstants DEF Done, StillAhead
  <2>3. c \in Hard /\ p \in Done(op[c])
    BY <1>1, <1>3, <2>2 DEF Done, Hard
  <2>4. \A b \in Hard : now < op[b].parks
    BY <1>1, <1>3
  <2>5. Parked(p)
    BY <2>3, <2>4 DEF ParkInv, Swept
  <2> QED
    BY <1>1, <1>3, <2>5 DEF Parked
<1>8. HardDownParksLane'
  BY DEF ParkInv, HardDownParksLane
<1> QED
  BY <1>4, <1>5, <1>6, <1>7, <1>8 DEF ParkInv

\* A hard-down goes on: it parks the cells W, none or one, and is done with no
\* others than before.
LEMMA HardMoves ==
  ASSUME IInv, ParkInv, NEW a \in Hard, OwnSweep', MapLock',
         UNCHANGED <<now, live, making, hdUntil>>,
         op'[a].kind = "hard_down", op'[a].at = op[a].at, op'[a].parks = op[a].parks,
         \A b \in Actors : b # a => op'[b] = op[b],
         NEW W \in SUBSET CellIds,
         \A q \in W : /\ cells'[q].state = "Open"
                      /\ cells'[q].cooldown = op[a].at + HardDownSecs,
         \A q \in CellIds \ W : cells'[q] = cells[q],
         Done(op[a])' \subseteq Done(op[a]) \cup W
  PROVE  ParkInv'
<1>1. /\ Hard' = Hard
      /\ \A b \in Hard : /\ b \in Actors /\ op'[b].at = op[b].at
                         /\ op'[b].parks = op[b].parks
  BY DEF Hard
<1>2. BornParked'
  BY DEF ParkInv, BornParked, WriteLocked
<1>3. Deadlines'
  BY <1>1 DEF ParkInv, Deadlines
<1>4. op[a].parks <= op[a].at + HardDownSecs /\ hdUntil <= op[a].at + HardDownSecs
  BY DEF ParkInv, Deadlines
<1>5. Swept'
  <2> SUFFICES ASSUME \A b \in Hard' : now < op'[b].parks,
                      NEW c \in Hard', NEW p \in Done(op[c])'
               PROVE  Parked(p)'
    BY DEF Swept
  <2>1. \A b \in Hard : now < op[b].parks
    BY <1>1
  <2>2. CASE p \in W
    BY <1>1, <1>4, <2>2 DEF Parked
  <2>3. CASE p \notin W
    <3>1. c \in Hard /\ p \in Done(op[c])
      BY <1>1, <2>3 DEF Done
    <3>2. Parked(p) /\ p \in CellIds
      BY <2>1, <3>1, Instants DEF ParkInv, Swept, Done
    <3> QED
      BY <1>1, <2>3, <3>2 DEF Parked
  <2> QED
    BY <2>2, <2>3
<1>6. HardDownParksLane'
  <2> SUFFICES ASSUME now < hdUntil, NEW p \in live \cup {Default}
               PROVE  cells'[p].state = "Open" /\ cells'[p].cooldown >= hdUntil
    BY DEF HardDownParksLane
  <2>1. cells[p].state = "Open" /\ cells[p].cooldown >= hdUntil /\ p \in CellIds
    BY Instants DEF ParkInv, HardDownParksLane
  <2>2. op[a].at \in Nat
    BY <1>1, Instants
  <2> QED
    BY <1>4, <2>1, <2>2, Instants
<1> QED
  BY <1>2, <1>3, <1>5, <1>6 DEF ParkInv

\* The sweep an actor is left with once it is done with a cell, field by field.
LEMMA AdvanceFields ==
  ASSUME IInv, NEW a \in Actors, NEW p \in CellIds
  PROVE  LET o == Advance(a, p)
         IN  /\ o.kind = op[a].kind /\ o.at = op[a].at /\ o.parks = op[a].parks
             /\ o.phase = "pools" => op[a].phase = "pools"
             /\ MayVisit(a, p) => \A q \in live \cup {Default} :
                  ~StillAhead(o, q) => q = p \/ ~StillAhead(op[a], q)
<1>1. op[a] \in Sweep
  BY OldSweepOK DEF SweepOK
<1>2. CASE p = Default
  <2> DEFINE o == [op[a] EXCEPT !.phase = "lock", !.target = Nobody]
  <2>1. /\ o.kind = op[a].kind /\ o.at = op[a].at /\ o.parks = op[a].parks
        /\ o.phase = "lock"
    BY <1>1 DEF Sweep
  <2>2. Advance(a, p) = o
    BY <1>2 DEF Advance
  <2> HIDE DEF o
  <2>3. \A q \in live \cup {Default} : ~StillAhead(o, q) => q = p
    BY <1>2, <2>1 DEF StillAhead
  <2> QED
    BY <2>1, <2>2, <2>3
<1>3. CASE p # Default
  <2> DEFINE o == [op[a] EXCEPT !.todo = @ \ {p}, !.target = Nobody]
  <2>1. /\ o.kind = op[a].kind /\ o.at = op[a].at /\ o.parks = op[a].parks
        /\ o.phase = op[a].phase /\ o.todo = op[a].todo \ {p}
    BY <1>1 DEF Sweep
  <2>2. Advance(a, p) = o
    BY <1>3 DEF Advance
  <2> HIDE DEF o
  <2>3. \A q \in live \cup {Default} :
          ~StillAhead(o, q) => q = p \/ ~StillAhead(op[a], q)
    BY <2>1 DEF StillAhead
  <2> QED
    BY <2>1, <2>2, <2>3
<1> QED
  BY <1>2, <1>3

\* What a sweep leaves to the others: a request still runs nothing but its own
\* hard-down, and the map's lock is still respected.
LEMMA OneSweepMoves ==
  ASSUME ParkInv, NEW a \in Actors, \A b \in Actors : b # a => op'[b] = op[b],
         UNCHANGED <<making, req>>, op'[a].kind = op[a].kind,
         op'[a].phase = "pools" => op[a].phase = "pools" \/ ~WriteLocked
  PROVE  OwnSweep' /\ MapLock'
<1>1. OwnSweep'
  BY DEF ParkInv, OwnSweep, Actors
<1>2. MapLock'
  BY DEF ParkInv, MapLock, WriteLocked
<1> QED
  BY <1>1, <1>2

\* A visit of any sweep.
LEMMA VisitParks ==
  ASSUME IInv, ParkInv, NEW a \in Actors, NEW p \in CellIds, Visit(a, p)
  PROVE  ParkInv'
<1>1. PICK d \in VisitResults(a, cells[p]) : SetCell(p, d)
  BY DEF Visit
<1>2. MayVisit(a, p) /\ UNCHANGED <<now, live, making, req, hdUntil>>
  BY DEF Visit
<1>3. op'[a] = Advance(a, p) /\ \A b \in Actors : b # a => op'[b] = op[b]
  BY DEF Visit, IInv, TypeOK
<1>4. /\ op'[a].kind = op[a].kind /\ op'[a].at = op[a].at /\ op'[a].parks = op[a].parks
      /\ op'[a].phase = "pools" => op[a].phase = "pools"
  BY <1>3, AdvanceFields
<1>5. OwnSweep' /\ MapLock'
  BY <1>2, <1>3, <1>4, OneSweepMoves
<1>6. \A q \in CellIds : cells'[q] = IF q = p THEN d ELSE cells[q]
  BY <1>1 DEF SetCell, IInv, TypeOK
<1>7. CASE op[a].kind = "hard_down"
  <2>1. op[a].at \in Nat /\ cells[p] \in Cell
    BY Instants, ReadCell
  <2>2. d = HardDown(cells[p], op[a].at)
    BY <1>7 DEF VisitResults
  <2>3. d.state = "Open" /\ d.cooldown = op[a].at + HardDownSecs
    BY <2>1, <2>2, HardDownCell
  <2>4. Done(op[a])' \subseteq Done(op[a]) \cup {p}
    <3> SUFFICES ASSUME NEW q \in live \cup {Default}, ~StillAhead(op'[a], q), q # p
                 PROVE  ~StillAhead(op[a], q)
      BY <1>2 DEF Done, StillAhead
    <3> QED
      BY <1>2, <1>3, AdvanceFields
  <2>5. a \in Hard
    BY <1>7 DEF Hard
  <2> DEFINE W == {p}
  <2>6. /\ W \in SUBSET CellIds
        /\ \A q \in W : cells'[q].state = "Open" /\ cells'[q].cooldown = op[a].at + HardDownSecs
        /\ \A q \in CellIds \ W : cells'[q] = cells[q]
        /\ Done(op[a])' \subseteq Done(op[a]) \cup W
    BY <1>6, <2>3, <2>4
  <2> HIDE DEF W
  <2> QED
    BY <1>2, <1>3, <1>4, <1>5, <1>7, <2>5, <2>6, HardMoves
<1>8. CASE op[a].kind # "hard_down"
  <2>1. cells[p].state = "Open" => d = cells[p]
    BY <1>8, ReadCell, VisitedCell
  <2>2. KeepsTrips
    BY <1>1, <2>1, OneCellSticks
  <2> QED
    BY <1>2, <1>3, <1>4, <1>5, <1>8, <2>2, HardsStay
<1> QED
  BY <1>7, <1>8

\* recover_lane looks at a cell.
LEMMA ObserveParks ==
  ASSUME IInv, ParkInv, NEW a \in Actors, NEW p \in CellIds, Observe(a, p)
  PROVE  ParkInv'
<1>1. /\ op[a].kind = "recover"
      /\ UNCHANGED <<now, cells, live, making, req, hdUntil>>
  BY DEF Observe
<1>2. /\ \A b \in Actors : b # a => op'[b] = op[b]
      /\ \/ op'[a] = [op[a] EXCEPT !.target = p, !.observed = cells[p].cooldown]
         \/ op'[a] = Advance(a, p)
  BY DEF Observe, IInv, TypeOK
<1>3. op[a] \in Sweep
  BY OldSweepOK DEF SweepOK
<1>4. op'[a].kind = op[a].kind /\ (op'[a].phase = "pools" => op[a].phase = "pools")
  BY <1>2, <1>3, AdvanceFields DEF Sweep
<1>5. OwnSweep' /\ MapLock'
  BY <1>1, <1>2, <1>4, OneSweepMoves
<1>6. KeepsTrips
  BY <1>1, NoCellSticks
<1>7. \A b \in Actors : op[b].kind = "hard_down" \/ op'[b].kind = "hard_down" =>
                          op'[b] = op[b]
  BY <1>1, <1>2, <1>4
<1> QED
  BY <1>1, <1>5, <1>6, <1>7, HardsStay

\* recover_lane closes a cell, and calls off the running hard-downs, or finds
\* the cell re-armed and leaves it alone.
LEMMA CloseParks ==
  ASSUME IInv, ParkInv, NEW a \in Actors, NEW p \in CellIds, Close(a, p)
  PROVE  ParkInv'
<1> DEFINE d == ClosedIfRecoverable(cells[p], op[a].at, op[a].observed)
           g(b) == IF b = a THEN Advance(a, p) ELSE op[b]
<1>1. /\ op[a].kind = "recover" /\ SetCell(p, d)
      /\ op' = [b \in Actors |-> [g(b) EXCEPT !.parks = IF d = cells[p] THEN @ ELSE 0]]
      /\ hdUntil' = IF d = cells[p] THEN hdUntil ELSE 0
      /\ UNCHANGED <<now, live, making, req>>
  BY DEF Close
<1>2. \A b \in Actors : /\ g(b) \in Sweep
                        /\ g(b).kind = op[b].kind /\ g(b).at = op[b].at
                        /\ g(b).phase = "pools" => op[b].phase = "pools"
                        /\ b # a => g(b) = op[b]
  BY OldSweepOK, AdvanceOK, AdvanceFields DEF SweepOK
<1> HIDE DEF d, g
<1>3. \A b \in Actors : /\ op'[b].kind = op[b].kind /\ op'[b].at = op[b].at
                        /\ op'[b].phase = "pools" => op[b].phase = "pools"
                        /\ d # cells[p] => op'[b].parks = 0
                        /\ d = cells[p] /\ b # a => op'[b] = op[b]
  BY <1>1, <1>2 DEF Sweep
<1>4. OwnSweep'
  BY <1>1, <1>3 DEF ParkInv, OwnSweep, Actors
<1>5. MapLock'
  BY <1>1, <1>3 DEF ParkInv, MapLock, WriteLocked
<1>6. CASE d = cells[p]
  <2>1. KeepsTrips
    BY <1>1, <1>6, OneCellSticks
  <2>2. \A b \in Actors : op[b].kind = "hard_down" \/ op'[b].kind = "hard_down" =>
                            op'[b] = op[b]
    BY <1>1, <1>3, <1>6
  <2> QED
    BY <1>1, <1>4, <1>5, <1>6, <2>1, <2>2, HardsStay
<1>7. CASE d # cells[p]
  <2>1. hdUntil' = 0 /\ now' = now /\ now \in Nat
    BY <1>1, <1>7, Instants
  <2>2. Hard' = Hard
    BY <1>3 DEF Hard
  <2>3. \A b \in Hard : /\ op'[b].at = op[b].at /\ op'[b].parks = 0
                        /\ op[b].at \in Nat
    BY <1>3, <1>7, Instants DEF Hard
  <2>4. BornParked' /\ HardDownParksLane'
    BY <2>1 DEF BornParked, HardDownParksLane
  <2>5. Deadlines'
    BY <2>1, <2>2, <2>3, Instants DEF ParkInv, Deadlines
  <2>6. Swept'
    BY <2>1, <2>2, <2>3 DEF Swept
  <2> QED
    BY <1>4, <1>5, <2>4, <2>5, <2>6 DEF ParkInv
<1> QED
  BY <1>6, <1>7

\* A sweep takes the read lock of the map.
LEMMA LockParks ==
  ASSUME IInv, ParkInv, NEW a \in Actors, LockPools(a)
  PROVE  ParkInv'
<1>1. op[a].phase = "lock" /\ ~WriteLocked /\ UNCHANGED <<now, cells, live, making, req, hdUntil>>
  BY DEF LockPools
<1>2. op[a] \in Sweep
  BY OldSweepOK DEF SweepOK
<1>3. /\ op'[a] = [op[a] EXCEPT !.phase = "pools", !.todo = live]
      /\ \A b \in Actors : b # a => op'[b] = op[b]
  BY <1>2 DEF LockPools, IInv, TypeOK, Sweep
<1>4. /\ op'[a].kind = op[a].kind /\ op'[a].at = op[a].at /\ op'[a].parks = op[a].parks
      /\ op'[a].phase = "pools" /\ op'[a].todo = live
  BY <1>2, <1>3 DEF Sweep
<1>5. OwnSweep' /\ MapLock'
  BY <1>1, <1>3, <1>4, OneSweepMoves
<1>6. CASE op[a].kind = "hard_down"
  <2> DEFINE W == {}
  <2>1. /\ W \in SUBSET CellIds
        /\ \A q \in W : cells'[q].state = "Open" /\ cells'[q].cooldown = op[a].at + HardDownSecs
        /\ \A q \in CellIds \ W : cells'[q] = cells[q]
    BY <1>1
  <2>2. Done(op[a])' \subseteq Done(op[a]) \cup W
    BY <1>1, <1>4 DEF Done, StillAhead
  <2>3. a \in Hard
    BY <1>6 DEF Hard
  <2> HIDE DEF W
  <2> QED
    BY <1>1, <1>3, <1>4, <1>5, <1>6, <2>1, <2>2, <2>3, HardMoves
<1>7. CASE op[a].kind # "hard_down"
  <2>1. KeepsTrips
    BY <1>1, NoCellSticks
  <2> QED
    BY <1>1, <1>3, <1>4, <1>5, <1>7, <2>1, HardsStay
<1> QED
  BY <1>6, <1>7

\* A sweep ends.  The end of a hard-down is where the lane is parked: every cell
\* is swept, and none until an earlier instant than the earliest deadline.
LEMMA EndParks ==
  ASSUME IInv, ParkInv, NEW a \in Actors, SweepEnd(a)
  PROVE  ParkInv'
<1>1. /\ op[a].kind \in Sweeps /\ op[a].phase = "pools" /\ op[a].todo = {}
      /\ UNCHANGED <<now, cells, live, making>>
      /\ req' = IF a \in Requests THEN [req EXCEPT ![a] = IdleRequest] ELSE req
  BY DEF SweepEnd
<1>2. \A r \in Requests : r # a => req'[r] = req[r]
  BY <1>1 DEF IInv, TypeOK
<1>3. KeepsTrips
  BY <1>1, NoCellSticks
<1>4. CASE op[a].kind # "hard_down"
  <2>1. a \notin Requests
    BY <1>1, <1>4 DEF ParkInv, OwnSweep, Sweeps
  <2>2. PICK o \in {NoSweep, NewSweep("probe_success", 0)} : op' = [op EXCEPT ![a] = o]
    BY <1>4 DEF SweepEnd, EndOther
  <2>3. o.kind # "hard_down" /\ o.phase = "default"
    <3>1. NoSweep.kind # "hard_down" /\ NoSweep.phase = "default"
      BY DEF NoSweep
    <3>2. /\ NewSweep("probe_success", 0).kind # "hard_down"
          /\ NewSweep("probe_success", 0).phase = "default"
      BY DEF NoSweep, NewSweep
    <3> QED
      BY <3>1, <3>2
  <2>4. op'[a] = o /\ \A b \in Actors : b # a => op'[b] = op[b]
    BY <2>2 DEF IInv, TypeOK
  <2>5. OwnSweep'
    BY <1>1, <2>1, <2>4 DEF ParkInv, OwnSweep, Actors
  <2>6. MapLock'
    BY <1>1, <2>3, <2>4 DEF ParkInv, MapLock, WriteLocked
  <2>7. hdUntil' = hdUntil
    BY <1>4 DEF SweepEnd, EndOther
  <2>8. \A b \in Actors : op[b].kind = "hard_down" \/ op'[b].kind = "hard_down" =>
                            op'[b] = op[b]
    BY <1>4, <2>3, <2>4
  <2> QED
    BY <1>1, <1>3, <2>5, <2>6, <2>7, <2>8, HardsStay
<1>5. CASE op[a].kind = "hard_down"
  <2>1. a \in Hard
    BY <1>5 DEF Hard
  <2>2. EndHardDown(a)
    BY <1>5 DEF SweepEnd
  <2>3. PICK d \in {op[b].parks : b \in {b \in Actors : op[b].kind = "hard_down"}} :
          /\ \A b \in Actors : op[b].kind = "hard_down" => d <= op[b].parks
          /\ hdUntil' = Greater(hdUntil, d)
          /\ op' = [b \in Actors |-> IF b = a THEN NoSweep
                                     ELSE [op[b] EXCEPT !.parks = Lesser(@, d)]]
    BY <2>2 DEF EndHardDown
  <2>4. d \in Nat /\ \A b \in Hard : b \in Actors /\ d <= op[b].parks
    BY <2>3, Instants DEF Hard
  <2>5. op'[a].kind = "none" /\ op'[a].phase = "default"
    BY <2>3 DEF NoSweep
  <2>6. \A b \in Actors : b # a => op'[b] = [op[b] EXCEPT !.parks = Lesser(op[b].parks, d)]
    BY <2>3
  <2>7. \A b \in Actors : b # a => /\ op'[b].kind = op[b].kind /\ op'[b].at = op[b].at
                                   /\ op'[b].phase = op[b].phase /\ op'[b].todo = op[b].todo
                                   /\ op'[b].parks = Lesser(op[b].parks, d)
    <3> SUFFICES ASSUME NEW b \in Actors, b # a
                 PROVE  /\ op'[b].kind = op[b].kind /\ op'[b].at = op[b].at
                        /\ op'[b].phase = op[b].phase /\ op'[b].todo = op[b].todo
                        /\ op'[b].parks = Lesser(op[b].parks, d)
      OBVIOUS
    <3>1. op[b] \in Sweep
      BY OldSweepOK DEF SweepOK
    <3>2. op'[b] = [op[b] EXCEPT !.parks = Lesser(op[b].parks, d)]
      BY <2>6
    <3> QED
      BY <3>1, <3>2 DEF Sweep
  <2>8. Hard' = Hard \ {a}
    BY <2>5, <2>7 DEF Hard
  <2>9. OwnSweep'
    BY <1>2, <2>5, <2>7 DEF ParkInv, OwnSweep, Actors
  <2>10. MapLock'
    BY <1>1, <2>5, <2>7 DEF ParkInv, MapLock, WriteLocked
  <2>11. BornParked'
    BY <1>1 DEF ParkInv, MapLock, BornParked, WriteLocked
  <2>12. \A b \in Hard' : /\ b \in Hard /\ op'[b].at = op[b].at /\ op'[b].parks = d
                          /\ d <= op[b].parks
    <3> SUFFICES ASSUME NEW b \in Hard'
                 PROVE  /\ b \in Hard /\ op'[b].at = op[b].at /\ op'[b].parks = d
                        /\ d <= op[b].parks
      OBVIOUS
    <3>1. b \in Hard /\ b # a /\ b \in Actors /\ d <= op[b].parks /\ op[b].parks \in Nat
      BY <2>4, <2>8, Instants
    <3> QED
      BY <2>4, <2>7, <3>1 DEF Lesser
  <2>13. \A b \in Hard : d <= op[b].at + HardDownSecs /\ op[b].at <= now
    <3> SUFFICES ASSUME NEW b \in Hard
                 PROVE  d <= op[b].at + HardDownSecs /\ op[b].at <= now
      OBVIOUS
    <3>1. op[b].parks <= op[b].at + HardDownSecs /\ op[b].at <= now /\ d <= op[b].parks
      BY <2>4 DEF ParkInv, Deadlines
    <3> QED
      BY <2>4, <3>1, Instants
  <2>14. hdUntil' \in {hdUntil, d}
    BY <2>3 DEF Greater
  <2>15. Deadlines'
    <3>1. hdUntil' <= now + HardDownSecs
      BY <2>1, <2>4, <2>13, <2>14, Instants DEF ParkInv, Deadlines
    <3>2. \A b \in Hard' : /\ op'[b].at <= now
                           /\ op'[b].parks <= op'[b].at + HardDownSecs
                           /\ hdUntil' <= op'[b].at + HardDownSecs
      BY <2>12, <2>13, <2>14 DEF ParkInv, Deadlines
    <3> QED
      BY <1>1, <3>1, <3>2 DEF Deadlines
  <2>16. ASSUME now < d, NEW c \in Hard, NEW p \in Done(op[c])
         PROVE  cells[p].state = "Open" /\ d <= cells[p].cooldown
    <3>1. \A b \in Hard : now < op[b].parks
      BY <2>4, <2>16, Instants
    <3>2. Parked(p) /\ p \in CellIds
      BY <2>16, <3>1, Instants DEF ParkInv, Swept, Done
    <3>3. PICK b \in Hard : op[b].parks <= cells[p].cooldown
      BY <3>2 DEF Parked
    <3> QED
      BY <2>4, <3>2, <3>3, Instants DEF Parked
  <2>17. Swept'
    <3> SUFFICES ASSUME \A b \in Hard' : now < op'[b].parks,
                        NEW c \in Hard', NEW p \in Done(op[c])'
                 PROVE  Parked(p)'
      BY <1>1 DEF Swept
    <3>1. now < d /\ c \in Hard /\ c # a /\ c \in Actors /\ op'[c].parks = d
      BY <2>4, <2>8, <2>12
    <3>2. p \in Done(op[c])
      BY <1>1, <2>7, <3>1 DEF Done, StillAhead
    <3>3. cells[p].state = "Open" /\ d <= cells[p].cooldown
      BY <2>16, <3>1, <3>2
    <3> QED
      BY <1>1, <3>1, <3>3 DEF Parked
  <2>18. HardDownParksLane'
    <3> SUFFICES ASSUME now < hdUntil', NEW p \in live \cup {Default}
                 PROVE  cells[p].state = "Open" /\ cells[p].cooldown >= hdUntil'
      BY <1>1 DEF HardDownParksLane
    <3>1. CASE hdUntil' = hdUntil
      BY <3>1 DEF ParkInv, HardDownParksLane
    <3>2. CASE hdUntil' = d
      <4>1. p \in Done(op[a])
        BY <1>1 DEF Done, StillAhead
      <4>2. cells[p].state = "Open" /\ d <= cells[p].cooldown
        BY <2>1, <2>16, <3>2, <4>1
      <4> QED
        BY <2>4, <3>2, <4>2, Instants
    <3> QED
      BY <2>14, <3>1, <3>2
  <2> QED
    BY <2>9, <2>10, <2>11, <2>15, <2>17, <2>18 DEF ParkInv
<1> QED
  BY <1>4, <1>5

\* A request moves.
LEMMA RequestParks ==
  ASSUME IInv, ParkInv, NEW r \in Requests, Arrive(r) \/ Proceed(r) \/ Finish(r) \/ Abandon(r)
  PROVE  ParkInv'
<1>1. KeepsTrips
  BY RequestSticks
<1>2. \A q \in Requests : q # r => req'[q] = req[q]
  BY DEF Arrive, Admit, LeastBad, Proceed, ArmGuard, StickyPermit, StickyFull, TryPermit,
         PermitGranted, ReleaseAfterFail, Finish, NoOutcome, Fail, HardDownAnswer, Succeed,
         StreamEnd, StreamFail, Abandon, GuardDrop, Disconnect, Goto, Leave, IInv, TypeOK
<1>3. UNCHANGED <<now, live, making, hdUntil>>
  BY DEF Arrive, Admit, LeastBad, Proceed, ArmGuard, StickyPermit, StickyFull, TryPermit,
         PermitGranted, ReleaseAfterFail, Finish, NoOutcome, Fail, HardDownAnswer, Succeed,
         StreamEnd, StreamFail, Abandon, GuardDrop, Disconnect
<1>4. op[r].kind = "none"
  <2>1. req[r].pc # "sweeping"
    BY DEF Arrive, Admit, LeastBad, Proceed, ArmGuard, StickyPermit, StickyFull, TryPermit,
           PermitGranted, ReleaseAfterFail, Finish, NoOutcome, Fail, HardDownAnswer, Succeed,
           StreamEnd, StreamFail, Abandon, GuardDrop, Disconnect
  <2> QED
    BY <2>1 DEF ParkInv, OwnSweep
<1>5. CASE UNCHANGED op
  <2>1. OwnSweep'
    BY <1>2, <1>4, <1>5 DEF ParkInv, OwnSweep
  <2>2. MapLock'
    BY <1>3, <1>5 DEF ParkInv, MapLock, WriteLocked
  <2> QED
    BY <1>1, <1>3, <1>5, <2>1, <2>2, HardsStay
<1>6. CASE HardDownAnswer(r)
  <2>1. op' = [op EXCEPT ![r] = NewSweep("hard_down", 0)] /\ r \in Actors /\ UNCHANGED cells
    BY <1>6 DEF HardDownAnswer, Actors
  <2>2. op'[r].kind = "hard_down" /\ req'[r].pc = "sweeping"
    BY <1>6, <2>1, NewHardDown DEF HardDownAnswer, Goto, IInv, TypeOK, Request
  <2>3. OwnSweep'
    BY <1>2, <2>1, <2>2 DEF ParkInv, OwnSweep, IInv, TypeOK
  <2>4. r \notin Hard
    BY <1>4 DEF Hard
  <2> QED
    BY <1>3, <2>1, <2>3, <2>4, HardBegins
<1> QED
  BY <1>5, <1>6
  DEF Arrive, Admit, LeastBad, Proceed, ArmGuard, StickyPermit, StickyFull, TryPermit,
      PermitGranted, ReleaseAfterFail, Finish, NoOutcome, Fail, Succeed,
      StreamEnd, StreamFail, Abandon, GuardDrop, Disconnect

\* The prober sends a probe or takes its answer.
LEMMA ProbeParks ==
  ASSUME IInv, ParkInv, Probe
  PROVE  ParkInv'
<1>1. UNCHANGED <<now, cells, live, making, req, hdUntil>> /\ op[Prober].kind \in {"none", "probing"}
  BY DEF Probe, ProbeSend, ProbeOk, ProbeFail
<1>2. Prober \in Actors /\ Prober \notin Hard /\ Prober \notin Requests
  BY <1>1, LaneConstants DEF Actors, Hard
<1>3. PICK o : op' = [op EXCEPT ![Prober] = o]
  BY DEF Probe, ProbeSend, ProbeOk, ProbeFail
<1>4. op'[Prober] = o /\ \A b \in Actors : b # Prober => op'[b] = op[b]
  BY <1>2, <1>3 DEF IInv, TypeOK
<1>5. OwnSweep'
  BY <1>1, <1>2, <1>4 DEF ParkInv, OwnSweep, Actors
<1>6. CASE op' = [op EXCEPT ![Prober] = NewSweep("hard_down", 0)]
  BY <1>1, <1>2, <1>5, <1>6, HardBegins
<1>7. ASSUME op'[Prober].kind # "hard_down",
             op'[Prober].phase = "pools" => op[Prober].phase = "pools"
      PROVE  ParkInv'
  <2>1. MapLock'
    BY <1>1, <1>2, <1>4, <1>7 DEF ParkInv, MapLock, WriteLocked
  <2>2. KeepsTrips
    BY <1>1, NoCellSticks
  <2>3. \A b \in Actors : op[b].kind = "hard_down" \/ op'[b].kind = "hard_down" =>
                            op'[b] = op[b]
    BY <1>1, <1>4, <1>7
  <2> QED
    BY <1>1, <1>5, <2>1, <2>2, <2>3, HardsStay
<1>8. CASE ProbeSend
  <2>1. op[Prober] \in Sweep
    BY <1>2, OldSweepOK DEF SweepOK
  <2>2. op' = [op EXCEPT ![Prober] = [op[Prober] EXCEPT !.kind = "probing"]]
    BY <1>2, <1>8, <2>1 DEF ProbeSend, IInv, TypeOK
  <2>3. op'[Prober] = [op[Prober] EXCEPT !.kind = "probing"]
    BY <1>2, <2>2 DEF IInv, TypeOK
  <2>4. op'[Prober].kind = "probing" /\ op'[Prober].phase = op[Prober].phase
    BY <2>1, <2>3 DEF Sweep
  <2> QED
    BY <1>7, <2>4
<1>9. ASSUME NEW kind \in {"recover", "probe_success", "probe_failure"}, NEW ra,
             op' = [op EXCEPT ![Prober] = NewSweep(kind, ra)]
      PROVE  ParkInv'
  <2>1. op'[Prober] = NewSweep(kind, ra)
    BY <1>2, <1>9 DEF IInv, TypeOK
  <2>2. NewSweep(kind, ra).kind = kind /\ NewSweep(kind, ra).phase = "default"
    BY DEF NewSweep, NoSweep
  <2> QED
    BY <1>7, <2>1, <2>2
<1>10. CASE op' = [op EXCEPT ![Prober] = NoSweep]
  <2>1. op'[Prober] = NoSweep
    BY <1>2, <1>10 DEF IInv, TypeOK
  <2> QED
    BY <1>7, <2>1 DEF NoSweep
<1> QED
  BY <1>6, <1>8, <1>9, <1>10 DEF Probe, ProbeOk, ProbeFail

\* A cell is created: a cell that read Open copies a cooldown no earlier than
\* the one the lane is parked until.
LEMMA CreateParks ==
  ASSUME IInv, ParkInv, NEW p \in Pools, CreateRead(p) \/ CreateFinish(p)
  PROVE  ParkInv'
<1>1. CASE CreateRead(p)
  <2>1. /\ ~ReadHeld /\ UNCHANGED <<now, cells, live, req, op, hdUntil>>
        /\ making' = [pool |-> p, state |-> Normalized(cells[Default].state)]
    BY <1>1 DEF CreateRead
  <2>2. OwnSweep' /\ Deadlines' /\ Swept' /\ HardDownParksLane'
    BY <2>1 DEF ParkInv, OwnSweep, Deadlines, Swept, HardDownParksLane, Hard, Done,
                StillAhead, Parked
  <2>3. MapLock'
    BY <2>1 DEF MapLock, ReadHeld
  <2>4. BornParked'
    BY <2>1 DEF ParkInv, BornParked, HardDownParksLane, Normalized
  <2> QED
    BY <2>2, <2>3, <2>4 DEF ParkInv
<1>2. CASE CreateFinish(p)
  <2>1. /\ making.pool = p /\ live' = live \cup {p} /\ making' = NotMaking
        /\ UNCHANGED <<now, req, op, hdUntil>>
    BY <1>2 DEF CreateFinish
  <2>2. WriteLocked /\ p # Default /\ p \notin live /\ p \in CellIds
    BY <2>1, LaneConstants DEF WriteLocked, IInv, UnbornUntouched, CellIds
  <2>3. \A a \in Actors : op[a].phase # "pools"
    BY <2>2 DEF ParkInv, MapLock
  <2>4. \A q \in CellIds : q # p => cells'[q] = cells[q]
    BY <1>2, <2>2 DEF CreateFinish, SetCell, IInv, TypeOK
  <2>5. cells'[p].state = making.state /\ cells'[p].cooldown = cells[Default].cooldown
    BY <1>2, <2>2 DEF CreateFinish, SetCell, IInv, TypeOK, NewCell
  <2>6. OwnSweep' /\ MapLock' /\ Deadlines'
    BY <2>1, <2>3 DEF ParkInv, OwnSweep, MapLock, Deadlines, Hard
  <2>7. BornParked'
    BY <2>1 DEF BornParked, WriteLocked, NotMaking
  <2>8. Swept'
    <3> SUFFICES ASSUME \A b \in Hard : now < op[b].parks,
                        NEW a \in Hard, NEW q \in Done(op[a])'
                 PROVE  Parked(q)'
      BY <2>1 DEF Swept, Hard
    <3>1. op[a] \in Sweep /\ op[a].phase # "pools"
      BY <2>3, OldSweepOK DEF Hard, SweepOK
    <3>2. q = Default /\ q \in Done(op[a])
      BY <2>1, <3>1 DEF Done, StillAhead, Sweep
    <3>3. Parked(q)
      BY <3>2 DEF ParkInv, Swept
    <3>4. cells'[q] = cells[q]
      BY <2>2, <2>4, <3>2 DEF CellIds
    <3> QED
      BY <2>1, <3>3, <3>4 DEF Parked, Hard
  <2>9. HardDownParksLane'
    <3> SUFFICES ASSUME now < hdUntil, NEW q \in live \cup {p, Default}
                 PROVE  cells'[q].state = "Open" /\ cells'[q].cooldown >= hdUntil
      BY <2>1 DEF HardDownParksLane
    <3>1. making.state = "Open"
      BY <2>2 DEF ParkInv, BornParked
    <3>2. \A c \in live \cup {Default} : cells[c].state = "Open" /\ cells[c].cooldown >= hdUntil
      BY DEF ParkInv, HardDownParksLane
    <3> QED
      BY <2>4, <2>5, <3>1, <3>2, Instants
  <2> QED
    BY <2>6, <2>7, <2>8, <2>9 DEF ParkInv
<1> QED
  BY <1>1, <1>2

\* The clock: the deadlines that are over are over for good.
LEMMA TickParks ==
  ASSUME IInv, ParkInv, Tick
  PROVE  ParkInv'
<1>1. now' = now + 1 /\ UNCHANGED <<cells, live, making, req, op, hdUntil>>
  BY DEF Tick
<1>2. OwnSweep' /\ MapLock'
  BY <1>1 DEF ParkInv, OwnSweep, MapLock, WriteLocked
<1>3. BornParked' /\ HardDownParksLane'
  BY <1>1, Instants DEF ParkInv, BornParked, HardDownParksLane, WriteLocked
<1>4. Hard' = Hard /\ \A b \in Hard : op[b].at \in Nat /\ op[b].parks \in Nat
  BY <1>1, Instants DEF Hard
<1>5. Deadlines'
  BY <1>1, <1>4, Instants DEF ParkInv, Deadlines
<1>6. Swept'
  <2> SUFFICES ASSUME \A b \in Hard : now + 1 < op[b].parks,
                      NEW a \in Hard, NEW p \in Done(op[a])
               PROVE  Parked(p)
    BY <1>1, <1>4 DEF Swept, Done, StillAhead, Parked
  <2>1. \A b \in Hard : now < op[b].parks
    BY <1>4, Instants
  <2> QED
    BY <2>1 DEF ParkInv, Swept
<1> QED
  BY <1>2, <1>3, <1>5, <1>6 DEF ParkInv

\* Nothing is parked, and nothing swept, at the start.
LEMMA InitParks ==
  Init => ParkInv
<1> SUFFICES ASSUME Init PROVE ParkInv
  OBVIOUS
<1>1. \A a \in Actors : op[a].kind = "none" /\ op[a].phase = "default"
  BY DEF Init, NoSweep
<1>2. hdUntil = 0 /\ now = 0
  BY DEF Init
<1>3. Hard = {}
  BY <1>1 DEF Hard
<1> QED
  BY <1>1, <1>2, <1>3, CellConstants
  DEF ParkInv, OwnSweep, MapLock, BornParked, Deadlines, Swept, HardDownParksLane, Actors

\* Every step keeps the cells that are swept parked.
LEMMA NextParks ==
  IInv /\ ParkInv /\ [Next]_vars => ParkInv'
<1> SUFFICES ASSUME IInv, ParkInv, [Next]_vars PROVE ParkInv'
  OBVIOUS
<1>1. ASSUME NEW a \in Actors, SweepStep(a) PROVE ParkInv'
  BY <1>1, VisitParks, ObserveParks, CloseParks, LockParks, EndParks DEF SweepStep
<1>2. CASE UNCHANGED vars
  BY <1>2 DEF vars, ParkInv, OwnSweep, MapLock, BornParked, Deadlines, Swept,
              HardDownParksLane, WriteLocked, Hard, Done, StillAhead, Parked
<1> QED
  BY <1>1, <1>2, TickParks, CreateParks, RequestParks, ProbeParks DEF Next, Create

\* Once a hard-down has swept the lane, every cell of it stays Open until the
\* sticky cooldown ends, whatever was under way when the sweep began: no cell
\* created meanwhile, no late outcome, no stale release and no second, older
\* hard-down lets traffic in (record_hard_down_all_cells, cell).
THEOREM HardDownParks == Spec => []HardDownParksLane
<1>1. ParkInv => HardDownParksLane
  BY DEF ParkInv
<1> QED
  BY <1>1, Invariance, InitParks, NextParks, PTL DEF Spec

=============================================================================
