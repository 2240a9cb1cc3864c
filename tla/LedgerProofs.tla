---------------------------- MODULE LedgerProofs ----------------------------
(***************************************************************************)
(* Proofs about Ledger, for any requests, chains, limits, windows and      *)
(* scenarios: the concurrency gauges are exact, the shard locks never      *)
(* deadlock, the caps on requests hold, the store is never ahead of what   *)
(* was charged, a graceful stop loses nothing, and the fee base of a       *)
(* window covers the requests that are not refunded.                       *)
(***************************************************************************)
EXTENDS Ledger, FiniteSetTheorems, WellFoundedInduction, TLAPS

-----------------------------------------------------------------------------
(* The inductive invariants *)

\* The types of what admissions share.
TypeInv ==
  /\ now \in Start .. MaxNow
  /\ scenario \in Scenarios
  /\ req \in [Requests -> RequestStates]
  /\ gauge \in [Groups -> Int]
  /\ locks \in [Shards -> Requests \cup {None}]

Prefix(r, n) == {Gauges[r][i] : i \in 1 .. n}

\* What a request holds: nothing once it is settled, and a prefix of its chain
\* while it takes gauges, so that the next one is new to it.
HeldOK(r, q) ==
  /\ q.pc \in Settled => q.held = {}
  /\ q.after = "gauges" => Gauges[r] # <<>>
  /\ q.pc = "gauges" =>
       \E n \in Nat : /\ n < Len(Gauges[r])
                      /\ q.held = Prefix(r, n)
                      /\ IsFiniteSet(q.held) /\ Cardinality(q.held) = n

HeldInv == \A r \in Requests : HeldOK(r, req[r])

\* Only an admission that locks or checks has locks, and they are below all the
\* shards that it still needs.
LockInv ==
  /\ \A s \in Shards : \A r \in Requests :
       locks[s] = r => req[r].pc \in {"locking", "check"}
  /\ \A r \in Requests : req[r].pc = "locking" =>
       /\ NeededShards(r) \ HeldShards(r) # {}
       /\ \A s \in HeldShards(r) : \A t \in NeededShards(r) \ HeldShards(r) : s < t

-----------------------------------------------------------------------------
(* The steps *)

\* The steps that take no part in admissions and settlements.
Elsewhere ==
  \/ \E f \in Flushers : StartFlush(f) \/ FlushStep(f)
  \/ Tick \/ Shutdown \/ Boot
  \/ UNCHANGED vars

\* Such a step leaves the requests, the gauges and the locks alone, and the
\* clock within its bounds.
LEMMA ElsewhereFrame ==
  ASSUME TypeInv, Elsewhere
  PROVE  /\ req' = req /\ gauge' = gauge /\ locks' = locks
         /\ now' \in Start .. MaxNow /\ scenario' = scenario
<1>1. CASE \E f \in Flushers : StartFlush(f) \/ FlushStep(f)
  BY <1>1 DEF StartFlush, FlushStep, ScanShard, WriteUsage, Acknowledge, process, TypeInv
<1>2. CASE Tick
  <2>1. scenario.until \in Start .. MaxNow
    BY LedgerAssumption DEF TypeInv
  <2>2. Start \in Nat /\ MaxNow \in Nat
    BY LedgerAssumption
  <2> QED
    BY <1>2, <2>1, <2>2 DEF Tick, TypeInv
<1>3. CASE Shutdown
  BY <1>3 DEF Shutdown, TypeInv
<1>4. CASE Boot
  BY <1>4 DEF Boot, TypeInv
<1>5. CASE UNCHANGED vars
  BY <1>5 DEF vars, TypeInv
<1> QED
  BY <1>1, <1>2, <1>3, <1>4, <1>5 DEF Elsewhere

\* Every step is one of a request, one elsewhere, or the end of the process.
LEMMA StepKinds ==
  ASSUME [Next]_vars
  PROVE  \/ \E r \in Requests : Arrive(r) \/ Admit(r) \/ Settle(r)
         \/ Elsewhere
         \/ Die
  BY DEF Next, Elsewhere, Exit, Crash

\* A step of a request that leaves its holds alone.
Moves(r) ==
  \E q \in RequestStates : /\ HeldOK(r, q)
                           /\ q.held = req[r].held
                           /\ req' = [req EXCEPT ![r] = q]

\* Such a step keeps the types and every hold.
LEMMA MovesInv ==
  ASSUME TypeInv, HeldInv, NEW r \in Requests, Moves(r)
  PROVE  /\ req' \in [Requests -> RequestStates]
         /\ HeldInv'
         /\ \A x \in Requests : req'[x].held = req[x].held
<1>1. PICK q \in RequestStates : /\ HeldOK(r, q)
                                 /\ q.held = req[r].held
                                 /\ req' = [req EXCEPT ![r] = q]
  BY DEF Moves
<1>2. \A x \in Requests : req'[x] = IF x = r THEN q ELSE req[x]
  BY <1>1 DEF TypeInv
<1>3. \A x \in Requests : HeldOK(x, req'[x])
  BY <1>1, <1>2 DEF HeldInv
<1> QED
  BY <1>1, <1>2, <1>3 DEF TypeInv, HeldInv, HeldOK

\* A chain with a gauge begins with none of them held.
LEMMA PrefixZero ==
  ASSUME NEW r \in Requests, Gauges[r] # <<>>
  PROVE  \E n \in Nat : /\ n < Len(Gauges[r]) /\ {} = Prefix(r, n)
                        /\ IsFiniteSet({}) /\ Cardinality({}) = n
<1>1. Gauges[r] \in Seq(Groups)
  BY LedgerAssumption
<1>2. 0 < Len(Gauges[r])
  BY <1>1
<1>3. Prefix(r, 0) = {}
  BY DEF Prefix
<1> QED
  BY <1>2, <1>3, FS_EmptySet

\* Where an admission begins.
LEMMA EntryGauges ==
  ASSUME NEW r \in Requests
  PROVE  /\ Entry(r) \in {"gauges", "locking"}
         /\ Entry(r) = "gauges" => Gauges[r] # <<>>
  BY DEF Entry

\* Going back, gauge by gauge or at once.
LEMMA RetreatMoves ==
  ASSUME TypeInv, HeldInv, NEW r \in Requests,
         NEW after \in {"refused", "gauges", "locking"},
         after = "gauges" => Gauges[r] # <<>>,
         NEW pool \in Pools \cup {None}, NEW visited \in SUBSET Pools,
         Retreat(r, after, pool, visited)
  PROVE  Moves(r)
<1> DEFINE p == IF req[r].held = {} THEN after ELSE "rollback"
           q == [req[r] EXCEPT !.pc = p, !.after = after, !.pool = pool, !.visited = visited]
<1>1. p \in Steps
  BY DEF Steps, Admission, Settled
<1>2. req[r] \in RequestStates
  BY DEF TypeInv
<1>3. q \in RequestStates /\ q.pc = p /\ q.after = after /\ q.held = req[r].held
  <2> HIDE DEF p
  <2> QED
    BY <1>1, <1>2 DEF RequestStates
<1>4. HeldOK(r, q)
  <2> HIDE DEF q
  <2>1. q.pc \in Settled => q.held = {}
    BY <1>3 DEF Settled
  <2>2. q.pc = "gauges" => q.held = {} /\ Gauges[r] # <<>>
    BY <1>3
  <2> QED
    BY <1>3, <2>1, <2>2, PrefixZero DEF HeldOK
<1>5. req' = [req EXCEPT ![r] = q]
  BY DEF Retreat
<1> QED
  <2> HIDE DEF q
  <2> QED
    BY <1>3, <1>4, <1>5 DEF Moves

\* A request is charged to buckets.
LEMMA ChargedBucketsType ==
  ASSUME NEW r \in Requests
  PROVE  ChargedBuckets(r) \in SUBSET Buckets
<1>1. Chain[r] \in Seq(Buckets)
  BY LedgerAssumption
<1> QED
  BY <1>1 DEF ChargedBuckets, Applying

\* The end of a request that is in flight.
LEMMA CloseMoves ==
  ASSUME TypeInv, HeldInv, NEW r \in Requests, NEW job \in {"refund", "accrue"},
         NEW todo \in SUBSET Buckets, NEW tokens \in Nat,
         Close(r, job, todo, tokens)
  PROVE  Moves(r)
<1> DEFINE p == IF todo = {} /\ req[r].held = {} THEN "done" ELSE "closing"
           q == [req[r] EXCEPT !.pc = p, !.job = job, !.todo = todo, !.tokens = tokens]
<1>1. p \in Steps
  BY DEF Steps, Settled
<1>2. req[r] \in RequestStates
  BY DEF TypeInv
<1>3. q \in RequestStates /\ q.pc = p /\ q.after = req[r].after /\ q.held = req[r].held
  <2> HIDE DEF p
  <2> QED
    BY <1>1, <1>2 DEF RequestStates
<1>4. HeldOK(r, q)
  <2> HIDE DEF q
  <2>1. q.pc \in Settled => q.held = {}
    BY <1>3 DEF Settled
  <2> QED
    BY <1>3, <2>1 DEF HeldOK, HeldInv
<1>5. req' = [req EXCEPT ![r] = q]
  BY DEF Close
<1> QED
  <2> HIDE DEF q
  <2> QED
    BY <1>3, <1>4, <1>5 DEF Moves

\* A change of the step and of nothing that HeldOK reads, among steps that may
\* hold gauges.
LEMMA StepMoves ==
  ASSUME TypeInv, HeldInv, NEW r \in Requests, NEW p \in Steps,
         p \in {"gauges", "refused"} => FALSE,
         p \in Settled => req[r].held = {},
         req' = [req EXCEPT ![r].pc = p]
  PROVE  Moves(r)
<1> DEFINE q == [req[r] EXCEPT !.pc = p]
<1>1. req[r] \in RequestStates
  BY DEF TypeInv
<1>2. q \in RequestStates /\ q.pc = p /\ q.after = req[r].after /\ q.held = req[r].held
  BY <1>1 DEF RequestStates
<1>3. req' = [req EXCEPT ![r] = q]
  BY <1>1 DEF TypeInv
<1>4. HeldOK(r, q)
  <2> HIDE DEF q
  <2> QED
    BY <1>2 DEF HeldOK, HeldInv
<1> QED
  <2> HIDE DEF q
  <2> QED
    BY <1>2, <1>3, <1>4 DEF Moves

\* An arrival holds nothing yet.
LEMMA ArriveMoves ==
  ASSUME TypeInv, HeldInv, NEW r \in Requests, Arrive(r)
  PROVE  Moves(r)
<1>1. req[r] \in RequestStates /\ HeldOK(r, req[r]) /\ req[r].held = {}
  BY DEF TypeInv, HeldInv, HeldOK, Arrive, Settled
<1>2. CASE req' = [req EXCEPT ![r].pc = "refused"]
  <2> DEFINE q == [req[r] EXCEPT !.pc = "refused"]
  <2>1. q \in RequestStates /\ q.pc = "refused" /\ q.after = req[r].after /\ q.held = {}
    BY <1>1 DEF RequestStates, Steps, Settled
  <2>2. req' = [req EXCEPT ![r] = q]
    BY <1>2
  <2>3. HeldOK(r, q)
    <3> HIDE DEF q
    <3> QED
      BY <1>1, <2>1 DEF HeldOK
  <2> QED
    <3> HIDE DEF q
    <3> QED
      BY <1>1, <2>1, <2>2, <2>3 DEF Moves
<1>3. CASE req' = [req EXCEPT ![r] =
                     [req[r] EXCEPT !.pc = Entry(r), !.at = now, !.pool = Asked[r]]]
  <2> DEFINE q == [req[r] EXCEPT !.pc = Entry(r), !.at = now, !.pool = Asked[r]]
  <2>1. now \in Windows /\ Asked[r] \in Pools /\ Entry(r) \in Steps
    <3>1. now \in Windows
      BY LedgerAssumption DEF TypeInv, Windows
    <3>2. Asked[r] \in Pools
      BY LedgerAssumption
    <3> QED
      BY <3>1, <3>2, EntryGauges DEF Steps, Admission
  <2>2. q \in RequestStates /\ q.pc = Entry(r) /\ q.after = req[r].after /\ q.held = {}
    BY <1>1, <2>1 DEF RequestStates
  <2>3. HeldOK(r, q)
    <3> HIDE DEF q
    <3> QED
      BY <1>1, <2>2, EntryGauges, PrefixZero DEF HeldOK
  <2> QED
    <3> HIDE DEF q
    <3> QED
      BY <1>1, <1>3, <2>2, <2>3 DEF Moves, q
<1> QED
  BY <1>2, <1>3 DEF Arrive

\* A refused or downgraded admission goes back.
LEMMA BlockedMoves ==
  ASSUME TypeInv, HeldInv, NEW r \in Requests, Blocked(r)
  PROVE  Moves(r)
<1>1. req[r].pool \in Pools \cup {None} /\ req[r].visited \in SUBSET Pools
  BY DEF TypeInv, RequestStates
<1>2. CASE /\ MayDowngrade(r)
           /\ Retreat(r, Entry(r), DowngradeTo(r), req[r].visited \cup {DowngradeTo(r)})
  <2>1. DowngradeTo(r) \in Pools
    BY <1>2, LedgerAssumption DEF MayDowngrade
  <2>2. req[r].visited \cup {DowngradeTo(r)} \in SUBSET Pools
    BY <1>1, <2>1
  <2> QED
    BY <1>2, <2>1, <2>2, EntryGauges, RetreatMoves
<1>3. CASE Retreat(r, "refused", req[r].pool, req[r].visited)
  BY <1>1, <1>3, RetreatMoves
<1> QED
  BY <1>2, <1>3 DEF Blocked

\* A settlement of a bucket leaves the holds alone.
LEMMA SettleBucketMoves ==
  ASSUME TypeInv, HeldInv, NEW r \in Requests, SettleBucket(r)
  PROVE  Moves(r)
<1>1. PICK b \in req[r].todo :
         req' = [req EXCEPT ![r] = [req[r] EXCEPT !.todo = req[r].todo \ {b},
            !.pc = IF req[r].todo = {b} /\ req[r].held = {} THEN "done" ELSE "closing"]]
  BY DEF SettleBucket
<1> DEFINE p == IF req[r].todo = {b} /\ req[r].held = {} THEN "done" ELSE "closing"
           todo == req[r].todo \ {b}
           q == [req[r] EXCEPT !.todo = todo, !.pc = p]
<1>2. req[r] \in RequestStates /\ HeldOK(r, req[r]) /\ req[r].pc = "closing"
  BY DEF TypeInv, HeldInv, SettleBucket
<1>3. p \in Steps /\ todo \in SUBSET Buckets
  BY <1>2 DEF Steps, Settled, RequestStates
<1>4. q \in RequestStates /\ q.pc = p /\ q.after = req[r].after /\ q.held = req[r].held
  <2> HIDE DEF p, todo
  <2> QED
    BY <1>2, <1>3 DEF RequestStates
<1>5. HeldOK(r, q)
  <2> HIDE DEF q
  <2>1. p \in {"done", "closing"} /\ (p = "done" => req[r].held = {})
    BY <1>2
  <2> QED
    BY <1>2, <1>4, <2>1 DEF HeldOK, Settled
<1>6. req' = [req EXCEPT ![r] = q]
  BY <1>1, <1>2 DEF RequestStates
<1> QED
  <2> HIDE DEF q
  <2> QED
    BY <1>4, <1>5, <1>6 DEF Moves

\* The steps of a request that take or return no gauge.
LEMMA QuietMoves ==
  ASSUME TypeInv, HeldInv, NEW r \in Requests,
         \/ Arrive(r) \/ GaugeFull(r) \/ LockShard(r) \/ Charge(r) \/ Blocked(r)
         \/ Fail(r) \/ Serve(r) \/ SettleBucket(r)
  PROVE  Moves(r) /\ gauge' = gauge /\ now' = now /\ scenario' = scenario
<1>1. CASE Arrive(r)
  BY <1>1, ArriveMoves DEF Arrive, process
<1>2. CASE GaugeFull(r)
  <2>1. req[r].pool \in Pools \cup {None} /\ req[r].visited \in SUBSET Pools
    BY DEF TypeInv, RequestStates
  <2> QED
    BY <1>2, <2>1, RetreatMoves DEF GaugeFull, process
<1>3. CASE LockShard(r)
  <2> DEFINE p == IF NeededShards(r) \ HeldShards(r) = {NextShard(r)} THEN "check"
                  ELSE req[r].pc
  <2>1. p \in {"check", "locking"}
    BY <1>3 DEF LockShard
  <2>2. req' = [req EXCEPT ![r].pc = p]
    BY <1>3 DEF LockShard
  <2>3. p \in Steps /\ p \notin {"gauges", "refused"} /\ p \notin Settled
    BY <2>1 DEF Steps, Admission, Settled
  <2> HIDE DEF p
  <2> QED
    BY <1>3, <2>2, <2>3, StepMoves DEF LockShard, process
<1>4. CASE Charge(r)
  <2>1. "flight" \in Steps /\ "flight" \notin Settled
    BY DEF Steps, Settled
  <2> QED
    BY <1>4, <2>1, StepMoves DEF Charge, process
<1>5. CASE Blocked(r)
  BY <1>5, BlockedMoves DEF Blocked, process
<1>6. CASE Fail(r)
  BY <1>6, ChargedBucketsType, CloseMoves DEF Fail, process
<1>7. CASE Serve(r)
  <2>1. Usage[r] \subseteq Nat
    BY LedgerAssumption
  <2>2. PICK t \in Usage[r] :
           Close(r, "accrue", IF t = 0 THEN {} ELSE ChargedBuckets(r), t)
    BY <1>7 DEF Serve
  <2>3. (IF t = 0 THEN {} ELSE ChargedBuckets(r)) \in SUBSET Buckets
    BY ChargedBucketsType
  <2> QED
    BY <1>7, <2>1, <2>2, <2>3, CloseMoves DEF Serve, process
<1>8. CASE SettleBucket(r)
  BY <1>8, SettleBucketMoves DEF SettleBucket, process
<1> QED
  BY <1>1, <1>2, <1>3, <1>4, <1>5, <1>6, <1>7, <1>8

-----------------------------------------------------------------------------
(* Taking and returning a gauge *)

\* The gauge a request takes is one that it does not hold yet.
LEMMA TakeHeld ==
  ASSUME TypeInv, HeldInv, NEW r \in Requests, TakeGauge(r)
  PROVE  LET g == NextGauge(r) IN
         /\ g \in Groups /\ g \notin req[r].held
         /\ req'[r].held = req[r].held \cup {g}
         /\ \A x \in Requests : x # r => req'[x] = req[x]
         /\ req' \in [Requests -> RequestStates]
         /\ HeldInv'
<1> DEFINE g == NextGauge(r)
           held == req[r].held \cup {g}
           p == IF Cardinality(held) = Len(Gauges[r]) THEN "locking" ELSE "gauges"
           q == [req[r] EXCEPT !.held = held, !.pc = p]
<1>1. req[r] \in RequestStates /\ HeldOK(r, req[r]) /\ req[r].pc = "gauges"
  BY DEF TypeInv, HeldInv, TakeGauge
<1>2. PICK n \in Nat : /\ n < Len(Gauges[r])
                       /\ req[r].held = Prefix(r, n)
                       /\ IsFiniteSet(req[r].held) /\ Cardinality(req[r].held) = n
  BY <1>1 DEF HeldOK
<1>3. Gauges[r] \in Seq(Groups)
  BY LedgerAssumption
<1>4. Len(Gauges[r]) \in Nat /\ DOMAIN Gauges[r] = 1 .. Len(Gauges[r])
  BY <1>3
<1>5. g = Gauges[r][n + 1] /\ g \in Groups
  BY <1>2, <1>3, <1>4 DEF NextGauge
<1>6. g \notin req[r].held
  <2>1. \A i, j \in DOMAIN Gauges[r] : Gauges[r][i] = Gauges[r][j] => i = j
    BY LedgerAssumption
  <2>2. ASSUME NEW i \in 1 .. n, g = Gauges[r][i] PROVE FALSE
    <3>1. i \in DOMAIN Gauges[r] /\ n + 1 \in DOMAIN Gauges[r] /\ i # n + 1
      BY <1>2, <1>4
    <3> QED
      BY <1>5, <2>1, <2>2, <3>1
  <2> QED
    BY <1>2, <2>2 DEF Prefix
<1>7. held = Prefix(r, n + 1)
  <2>1. 1 .. (n + 1) = (1 .. n) \cup {n + 1}
    OBVIOUS
  <2> QED
    BY <1>2, <1>5, <2>1 DEF Prefix
<1>8. IsFiniteSet(held) /\ Cardinality(held) = n + 1
  BY <1>2, <1>6, FS_AddElement
<1>9. p \in Steps /\ held \in SUBSET Groups
  BY <1>1, <1>5 DEF Steps, Admission, RequestStates
<1>10. q \in RequestStates /\ q.pc = p /\ q.held = held /\ q.after = req[r].after
  <2> HIDE DEF p, held
  <2> QED
    BY <1>1, <1>9 DEF RequestStates
<1>11. HeldOK(r, q)
  <2>1. p \notin Settled
    BY DEF Settled
  <2>2. p = "gauges" => n + 1 < Len(Gauges[r])
    BY <1>2, <1>4, <1>8
  <2> HIDE DEF q, p, held
  <2> QED
    BY <1>1, <1>7, <1>8, <1>10, <2>1, <2>2 DEF HeldOK
<1>12. req' = [req EXCEPT ![r] = q]
  BY DEF TakeGauge
<1>13. \A x \in Requests : req'[x] = IF x = r THEN q ELSE req[x]
  BY <1>12 DEF TypeInv
<1>14. HeldInv'
  <2> HIDE DEF q
  <2> QED
    BY <1>11, <1>13 DEF HeldInv, HeldOK
<1> QED
  <2> HIDE DEF q, held
  <2>1. req' \in [Requests -> RequestStates]
    BY <1>10, <1>12 DEF TypeInv
  <2> QED
    BY <1>5, <1>6, <1>10, <1>13, <1>14, <2>1 DEF held

\* A gauge that is returned was held.
LEMMA ReleaseHeld ==
  ASSUME TypeInv, HeldInv, NEW r \in Requests, ReleaseGauge(r)
  PROVE  \E g \in req[r].held :
         /\ g \in Groups
         /\ gauge' = [gauge EXCEPT ![g] = @ - 1]
         /\ req'[r].held = req[r].held \ {g}
         /\ \A x \in Requests : x # r => req'[x] = req[x]
         /\ req' \in [Requests -> RequestStates]
         /\ HeldInv'
<1>1. PICK g \in req[r].held :
       /\ gauge' = [gauge EXCEPT ![g] = @ - 1]
       /\ req' = [req EXCEPT ![r] = [@ EXCEPT !.held = req[r].held \ {g},
            !.pc = CASE req[r].held # {g} -> req[r].pc
                     [] req[r].held = {g} /\ req[r].pc = "rollback" -> req[r].after
                     [] req[r].held = {g} /\ req[r].pc = "closing" ->
                          IF req[r].todo = {} THEN "done" ELSE "closing"]]
  BY DEF ReleaseGauge
<1> DEFINE held == req[r].held \ {g}
           p == CASE req[r].held # {g} -> req[r].pc
                  [] req[r].held = {g} /\ req[r].pc = "rollback" -> req[r].after
                  [] req[r].held = {g} /\ req[r].pc = "closing" ->
                       IF req[r].todo = {} THEN "done" ELSE "closing"
           q == [req[r] EXCEPT !.held = held, !.pc = p]
<1>2. req[r] \in RequestStates /\ HeldOK(r, req[r]) /\ req[r].pc \in {"rollback", "closing"}
  BY DEF TypeInv, HeldInv, ReleaseGauge
<1>3. held \in SUBSET Groups /\ g \in Groups
  BY <1>2 DEF RequestStates
<1>4. \/ req[r].held # {g} /\ p = req[r].pc
      \/ held = {} /\ req[r].pc = "rollback" /\ p = req[r].after
      \/ held = {} /\ p \in {"done", "closing"}
  BY <1>2
<1>5. p \in Steps
  BY <1>2, <1>4 DEF Steps, Admission, Settled, RequestStates
<1>6. q \in RequestStates /\ q.pc = p /\ q.held = held /\ q.after = req[r].after
  <2> HIDE DEF p, held
  <2> QED
    BY <1>2, <1>3, <1>5 DEF RequestStates
<1>7. HeldOK(r, q)
  <2> HIDE DEF p, q, held
  <2>1. q.pc \in Settled => q.held = {}
    BY <1>2, <1>4, <1>6 DEF Settled
  <2>2. q.pc = "gauges" => q.held = {} /\ Gauges[r] # <<>>
    BY <1>2, <1>4, <1>6 DEF HeldOK
  <2> QED
    BY <1>2, <1>6, <2>1, <2>2, PrefixZero DEF HeldOK
<1>8. req' = [req EXCEPT ![r] = q]
  BY <1>1
<1> HIDE DEF p, q
<1>9. \A x \in Requests : req'[x] = IF x = r THEN q ELSE req[x]
  BY <1>8 DEF TypeInv
<1>10. HeldInv'
  BY <1>7, <1>9 DEF HeldInv, HeldOK
<1>11. req' \in [Requests -> RequestStates]
  BY <1>6, <1>8 DEF TypeInv
<1> QED
  BY <1>1, <1>3, <1>6, <1>9, <1>10, <1>11

-----------------------------------------------------------------------------
(* The gauges *)

\* Every step keeps the types and what the requests hold in order.
LEMMA TypeHeldStep ==
  ASSUME TypeInv, HeldInv, [Next]_vars
  PROVE  TypeInv' /\ HeldInv'
<1>1. ASSUME NEW r \in Requests,
             \/ Arrive(r) \/ GaugeFull(r) \/ LockShard(r) \/ Charge(r) \/ Blocked(r)
             \/ Fail(r) \/ Serve(r) \/ SettleBucket(r)
      PROVE  TypeInv' /\ HeldInv'
  <2>1. /\ Moves(r) /\ gauge' = gauge /\ now' = now /\ scenario' = scenario
    BY <1>1, QuietMoves
  <2>2. req' \in [Requests -> RequestStates] /\ HeldInv'
    BY <2>1, MovesInv
  <2>3. locks' \in [Shards -> Requests \cup {None}]
    BY <1>1 DEF TypeInv, Arrive, GaugeFull, LockShard, Charge, Blocked, Fail, Serve,
                SettleBucket, Unlock
  <2> QED
    BY <2>1, <2>2, <2>3 DEF TypeInv
<1>2. ASSUME NEW r \in Requests, TakeGauge(r) PROVE TypeInv' /\ HeldInv'
  <2>1. gauge' \in [Groups -> Int]
    <3>1. PICK g \in Groups : g = NextGauge(r)
      BY <1>2, TakeHeld
    <3>2. gauge' = [gauge EXCEPT ![g] = @ + 1]
      BY <1>2, <3>1 DEF TakeGauge
    <3> QED
      BY <3>2 DEF TypeInv
  <2> QED
    BY <1>2, <2>1, TakeHeld DEF TakeGauge, TypeInv, process
<1>3. ASSUME NEW r \in Requests, ReleaseGauge(r) PROVE TypeInv' /\ HeldInv'
  <2>1. gauge' \in [Groups -> Int]
    BY <1>3, ReleaseHeld DEF TypeInv
  <2> QED
    BY <1>3, <2>1, ReleaseHeld DEF ReleaseGauge, TypeInv, process
<1>4. CASE Die
  <2> DEFINE q(r) == IF req[r].pc \in Settled THEN req[r]
                     ELSE [req[r] EXCEPT !.pc = "dead", !.held = {}, !.todo = {}]
  <2>1. req' = [r \in Requests |-> q(r)]
    BY <1>4 DEF Die
  <2>2. ASSUME NEW r \in Requests PROVE q(r) \in RequestStates /\ HeldOK(r, q(r))
    <3>1. req[r] \in RequestStates /\ HeldOK(r, req[r])
      BY DEF TypeInv, HeldInv
    <3>2. CASE req[r].pc \in Settled
      BY <3>1, <3>2
    <3>3. CASE req[r].pc \notin Settled
      <4> DEFINE d == [req[r] EXCEPT !.pc = "dead", !.held = {}, !.todo = {}]
      <4>1. d \in RequestStates /\ d.pc = "dead" /\ d.held = {} /\ d.after = req[r].after
        BY <3>1 DEF RequestStates, Steps, Settled
      <4>2. HeldOK(r, d)
        <5> HIDE DEF d
        <5> QED
          BY <3>1, <4>1 DEF HeldOK
      <4> QED
        BY <3>3, <4>1, <4>2
    <3> QED
      BY <3>2, <3>3
  <2> HIDE DEF q
  <2>3. HeldInv'
    BY <2>1, <2>2 DEF HeldInv, HeldOK
  <2>4. req' \in [Requests -> RequestStates]
    BY <2>1, <2>2
  <2>5. gauge' \in [Groups -> Int] /\ locks' \in [Shards -> Requests \cup {None}]
    <3>1. gauge' = [g \in Groups |-> 0] /\ locks' = [s \in Shards |-> None]
      BY <1>4 DEF Die
    <3> QED
      BY <3>1
  <2> QED
    BY <1>4, <2>3, <2>4, <2>5 DEF Die, TypeInv
<1>5. CASE Elsewhere
  BY <1>5, ElsewhereFrame DEF TypeInv, HeldInv, HeldOK
<1> QED
  BY <1>1, <1>2, <1>3, <1>4, <1>5, StepKinds DEF Admit, Settle

\* Finitely many requests hold a gauge.
LEMMA HoldersFinite ==
  ASSUME NEW g
  PROVE  IsFiniteSet(Holders(g)) /\ Cardinality(Holders(g)) \in Nat
<1>1. IsFiniteSet(Requests) /\ Holders(g) \in SUBSET Requests
  BY LedgerAssumption DEF Holders
<1> QED
  BY <1>1, FS_Subset, FS_CardinalityType

\* Every step keeps the gauges exact.
LEMMA GaugeStep ==
  ASSUME TypeInv, HeldInv, GaugeExact, [Next]_vars
  PROVE  GaugeExact'
<1> USE DEF GaugeExact
<1>1. ASSUME gauge' = gauge, \A x \in Requests : req'[x].held = req[x].held
      PROVE  GaugeExact'
  BY <1>1 DEF Holders
<1>2. ASSUME NEW r \in Requests,
             \/ Arrive(r) \/ GaugeFull(r) \/ LockShard(r) \/ Charge(r) \/ Blocked(r)
             \/ Fail(r) \/ Serve(r) \/ SettleBucket(r)
      PROVE  GaugeExact'
  BY <1>1, <1>2, QuietMoves, MovesInv
<1>3. ASSUME NEW r \in Requests, TakeGauge(r) PROVE GaugeExact'
  <2>0. PICK g \in Groups : g = NextGauge(r)
    BY <1>3, TakeHeld
  <2>1. /\ g \in Groups /\ g \notin req[r].held
        /\ req'[r].held = req[r].held \cup {g}
        /\ \A x \in Requests : x # r => req'[x] = req[x]
    BY <1>3, <2>0, TakeHeld
  <2>2. gauge' = [gauge EXCEPT ![g] = @ + 1] /\ gauge[g] < ConcurrentCap[g]
    BY <1>3, <2>0 DEF TakeGauge
  <2>3. Holders(g)' = Holders(g) \cup {r} /\ r \notin Holders(g)
    BY <2>1 DEF Holders
  <2>4. \A x \in Groups : x # g => Holders(x)' = Holders(x)
    BY <2>1 DEF Holders
  <2>5. Cardinality(Holders(g)') = Cardinality(Holders(g)) + 1
    BY <2>3, HoldersFinite, FS_AddElement
  <2>6. gauge'[g] = gauge[g] + 1 /\ \A x \in Groups : x # g => gauge'[x] = gauge[x]
    BY <2>1, <2>2 DEF TypeInv
  <2>7. ConcurrentCap[g] \in Nat /\ gauge[g] \in Int
    BY <2>1, LedgerAssumption DEF TypeInv
  <2> QED
    BY <2>1, <2>2, <2>4, <2>5, <2>6, <2>7
<1>4. ASSUME NEW r \in Requests, ReleaseGauge(r) PROVE GaugeExact'
  <2>1. PICK g \in req[r].held :
          /\ g \in Groups
          /\ gauge' = [gauge EXCEPT ![g] = @ - 1]
          /\ req'[r].held = req[r].held \ {g}
          /\ \A x \in Requests : x # r => req'[x] = req[x]
    BY <1>4, ReleaseHeld
  <2>2. Holders(g)' = Holders(g) \ {r} /\ r \in Holders(g)
    BY <2>1 DEF Holders
  <2>3. \A x \in Groups : x # g => Holders(x)' = Holders(x)
    BY <2>1 DEF Holders
  <2>4. Cardinality(Holders(g)') = Cardinality(Holders(g)) - 1
    BY <2>2, HoldersFinite, FS_RemoveElement
  <2>5. gauge'[g] = gauge[g] - 1 /\ \A x \in Groups : x # g => gauge'[x] = gauge[x]
    BY <2>1 DEF TypeInv
  <2>6. ConcurrentCap[g] \in Nat /\ gauge[g] \in Int
    BY <2>1, LedgerAssumption DEF TypeInv
  <2>7. gauge[g] = Cardinality(Holders(g)) /\ gauge[g] <= ConcurrentCap[g]
    BY <2>1
  <2>8. gauge'[g] = Cardinality(Holders(g)') /\ gauge'[g] <= ConcurrentCap[g]
    BY <2>4, <2>5, <2>6, <2>7
  <2>9. ASSUME NEW x \in Groups, x # g
        PROVE  gauge'[x] = Cardinality(Holders(x)') /\ gauge'[x] <= ConcurrentCap[x]
    BY <2>3, <2>5, <2>9
  <2> QED
    BY <2>8, <2>9
<1>5. CASE Die
  <2>1. \A r \in Requests : req'[r].held = {}
    BY <1>5 DEF Die, TypeInv, HeldInv, HeldOK, RequestStates
  <2>2. \A g \in Groups : Holders(g)' = {}
    BY <2>1 DEF Holders
  <2>3. \A g \in Groups : gauge'[g] = 0 /\ ConcurrentCap[g] \in Nat
    BY <1>5, LedgerAssumption DEF Die
  <2> QED
    BY <2>2, <2>3, FS_EmptySet
<1>6. CASE Elsewhere
  BY <1>1, <1>6, ElsewhereFrame
<1> QED
  BY <1>2, <1>3, <1>4, <1>5, <1>6, StepKinds DEF Admit, Settle

\* Nothing is held at the start.
LEMMA InitInv ==
  ASSUME Init
  PROVE  TypeInv /\ HeldInv /\ GaugeExact
<1>1. NoRequest \in RequestStates
  BY LedgerAssumption DEF NoRequest, RequestStates, Steps, Settled, Windows
<1>2. TypeInv
  BY <1>1, LedgerAssumption DEF Init, TypeInv
<1>3. \A r \in Requests : req[r].held = {} /\ req[r].after = "refused" /\ req[r].pc = "new"
  BY DEF Init, NoRequest
<1>4. HeldInv
  BY <1>3 DEF HeldInv, HeldOK
<1>5. \A g \in Groups : Holders(g) = {}
  BY <1>3 DEF Holders
<1>6. GaugeExact
  <2>1. \A g \in Groups : gauge[g] = 0 /\ ConcurrentCap[g] \in Nat
    BY LedgerAssumption DEF Init
  <2> QED
    BY <1>5, <2>1, FS_EmptySet DEF GaugeExact
<1> QED
  BY <1>2, <1>4, <1>6

\* Every gauge counts exactly the requests that hold it and stays within its
\* cap, in every interleaving of try_admit's compare-and-increments, rollbacks,
\* downgrades, settlements and restarts, for any number of requests and groups.
THEOREM GaugesAreExact == Spec => []GaugeExact
<1> DEFINE Inv == TypeInv /\ HeldInv /\ GaugeExact
<1>1. Init => Inv
  BY InitInv
<1>2. Inv /\ [Next]_vars => Inv'
  BY TypeHeldStep, GaugeStep
<1>3. Inv => GaugeExact
  OBVIOUS
<1> QED
  BY <1>1, <1>2, <1>3, PTL DEF Spec

-----------------------------------------------------------------------------
(* The shard locks *)

\* A set of naturals has a least member.
LEMMA LeastNat ==
  ASSUME NEW S \in SUBSET Nat, S # {}
  PROVE  \E n \in S : \A m \in S : n <= m
<1>1. PICK n \in S : \A m \in S : ~(<<m, n>> \in OpToRel(<, Nat))
  BY NatLessThanWellFounded, WFMin
<1>2. ASSUME NEW m \in S PROVE n <= m
  <2>1. m \in Nat /\ n \in Nat
    OBVIOUS
  <2>2. ~(m < n)
    BY <1>1, <2>1 DEF OpToRel
  <2> QED
    BY <2>1, <2>2
<1> QED
  BY <1>2

\* Least finds it.
LEMMA LeastIsLeast ==
  ASSUME NEW S \in SUBSET Nat, S # {}
  PROVE  Least(S) \in S /\ \A m \in S : Least(S) <= m
  BY LeastNat DEF Least

\* The shards are numbers below GOV_SHARDS.
LEMMA ShardsType == Shards \subseteq Nat /\ GovShards \in Nat /\ \A s \in Shards : s < GovShards
<1>1. GovShards \in Nat /\ \A b \in Buckets : Shard[b] \in 0 .. GovShards - 1
  BY LedgerAssumption
<1> QED
  BY <1>1 DEF Shards

\* No request is called None.
LEMMA NoneIsNoRequest == None \notin Requests
  BY LedgerAssumption

\* Every admission needs a shard, through any pool: that of its key's own bucket.
LEMMA OwnBucketApplies ==
  ASSUME NEW r \in Requests, NEW pool
  PROVE  1 \in {i \in DOMAIN Chain[r] : Applies(Chain[r][i], pool)}
<1>1. Chain[r] \in Seq(Buckets) /\ Chain[r] # <<>> /\ Limit[Chain[r][1]].pool = None
  BY LedgerAssumption
<1>2. 1 \in DOMAIN Chain[r]
  BY <1>1
<1> QED
  BY <1>1, <1>2 DEF Applies

\* An admission needs some shards.
LEMMA NeededType ==
  ASSUME NEW r \in Requests
  PROVE  NeededShards(r) \subseteq Shards /\ NeededShards(r) # {}
<1>1. 1 \in Applying(r)
  BY OwnBucketApplies DEF Applying
<1>2. Chain[r][1] \in ChargedBuckets(r)
  BY <1>1 DEF ChargedBuckets
<1> QED
  BY <1>2, ChargedBucketsType DEF NeededShards, Shards

\* It still does after a step.
LEMMA NeededTypePrimed ==
  ASSUME NEW r \in Requests
  PROVE  NeededShards(r)' # {}
<1>1. 1 \in Applying(r)'
  BY OwnBucketApplies DEF Applying
<1>2. Chain[r][1] \in ChargedBuckets(r)'
  BY <1>1 DEF ChargedBuckets
<1> QED
  BY <1>2 DEF NeededShards

\* The next shard is the lowest that is needed.
LEMMA NextShardLeast ==
  ASSUME NEW r \in Requests, NeededShards(r) \ HeldShards(r) # {}
  PROVE  /\ NextShard(r) \in NeededShards(r) \ HeldShards(r)
         /\ NextShard(r) \in Shards
         /\ \A t \in NeededShards(r) \ HeldShards(r) : NextShard(r) <= t
<1>1. NeededShards(r) \subseteq Shards /\ Shards \subseteq Nat
  BY NeededType, ShardsType
<1>2. NeededShards(r) \ HeldShards(r) \in SUBSET Nat
  BY <1>1
<1> HIDE <1>1
<1>3. /\ NextShard(r) \in NeededShards(r) \ HeldShards(r)
      /\ \A t \in NeededShards(r) \ HeldShards(r) : NextShard(r) <= t
  BY <1>2, LeastIsLeast DEF NextShard
<1> QED
  BY <1>1, <1>3

\* What a request needs depends on its pool alone.
LEMMA NeededFrame ==
  ASSUME NEW r \in Requests, req'[r].pool = req[r].pool
  PROVE  NeededShards(r)' = NeededShards(r)
  BY DEF NeededShards, ChargedBuckets, Applying

\* The locks of a request that the step does not concern.
LEMMA OtherLocks ==
  ASSUME LockInv, NEW x \in Requests, req'[x] = req[x], HeldShards(x)' = HeldShards(x)
  PROVE  req'[x].pc = "locking" =>
           /\ NeededShards(x)' \ HeldShards(x)' # {}
           /\ \A s \in HeldShards(x)' : \A t \in NeededShards(x)' \ HeldShards(x)' : s < t
<1>1. NeededShards(x)' = NeededShards(x)
  BY NeededFrame
<1> QED
  BY <1>1 DEF LockInv

\* A step after which the request that takes it has no locks.
LEMMA LocklessStep ==
  ASSUME LockInv, NEW r \in Requests,
         \A x \in Requests : x # r => req'[x] = req[x] /\ HeldShards(x)' = HeldShards(x),
         HeldShards(r)' = {}
  PROVE  LockInv'
<1>1. ASSUME NEW s \in Shards, NEW x \in Requests, locks'[s] = x
      PROVE  req'[x].pc \in {"locking", "check"}
  <2>1. s \in HeldShards(x)'
    BY <1>1 DEF HeldShards, Shards
  <2>2. x # r
    BY <2>1
  <2>3. s \in HeldShards(x) /\ req'[x] = req[x]
    BY <2>1, <2>2
  <2> QED
    BY <2>3 DEF LockInv, HeldShards
<1>2. ASSUME NEW x \in Requests, req'[x].pc = "locking"
      PROVE  /\ NeededShards(x)' \ HeldShards(x)' # {}
             /\ \A s \in HeldShards(x)' : \A t \in NeededShards(x)' \ HeldShards(x)' : s < t
  <2>1. CASE x = r
    BY <2>1, NeededTypePrimed
  <2>2. CASE x # r
    BY <1>2, <2>2, OtherLocks
  <2> QED
    BY <2>1, <2>2
<1> QED
  BY <1>1, <1>2 DEF LockInv, Shards

\* A request outside the locking leaves the locks in order.
LEMMA LockFrame ==
  ASSUME LockInv, NEW r \in Requests, req[r].pc \notin {"locking", "check"},
         \A x \in Requests : x # r => req'[x] = req[x], locks' = locks
  PROVE  LockInv'
<1>1. \A x \in Requests : HeldShards(x)' = HeldShards(x)
  BY DEF HeldShards, Shards
<1>2. HeldShards(r) = {}
  BY DEF LockInv, HeldShards
<1> QED
  BY <1>1, <1>2, LocklessStep

\* A step of a request changes no other request.
LEMMA OthersUntouched ==
  ASSUME TypeInv, HeldInv, NEW r \in Requests,
         \/ Arrive(r) \/ Admit(r) \/ Settle(r)
  PROVE  \A x \in Requests : x # r => req'[x] = req[x]
<1>1. CASE TakeGauge(r)
  BY <1>1, TakeHeld
<1>2. CASE ReleaseGauge(r)
  BY <1>2, ReleaseHeld
<1>3. ASSUME \/ Arrive(r) \/ GaugeFull(r) \/ LockShard(r) \/ Charge(r) \/ Blocked(r)
             \/ Fail(r) \/ Serve(r) \/ SettleBucket(r)
      PROVE  \A x \in Requests : x # r => req'[x] = req[x]
  <2>1. Moves(r)
    BY <1>3, QuietMoves
  <2> QED
    BY <2>1 DEF Moves, TypeInv
<1> QED
  BY <1>1, <1>2, <1>3 DEF Admit, Settle

\* A shard is locked in ascending order: it is above the ones that are held, and
\* what is still needed is above it.
LEMMA LockShardStep ==
  ASSUME TypeInv, HeldInv, LockInv, NEW r \in Requests, LockShard(r)
  PROVE  LockInv'
<1> DEFINE n == NextShard(r)
           p == IF NeededShards(r) \ HeldShards(r) = {n} THEN "check" ELSE "locking"
<1>1. /\ NeededShards(r) \ HeldShards(r) # {}
      /\ \A s \in HeldShards(r) : \A t \in NeededShards(r) \ HeldShards(r) : s < t
  BY DEF LockInv, LockShard
<1>2. /\ n \in NeededShards(r) \ HeldShards(r)
      /\ n \in Shards
      /\ \A t \in NeededShards(r) \ HeldShards(r) : n <= t
  BY <1>1, NextShardLeast
<1>3. /\ \A x \in Requests : x # r => req'[x] = req[x]
      /\ req'[r].pc = p /\ req'[r].pool = req[r].pool
  BY DEF LockShard, TypeInv, RequestStates
<1>4. locks[n] = None /\ locks' = [locks EXCEPT ![n] = r]
  BY DEF LockShard
<1>5. \A s \in Shards : locks'[s] = IF s = n THEN r ELSE locks[s]
  BY <1>4 DEF TypeInv
<1> HIDE DEF n, p
<1>6. \A x \in Requests : x # r => HeldShards(x)' = HeldShards(x)
  BY <1>4, <1>5, NoneIsNoRequest DEF HeldShards, Shards
<1>7. HeldShards(r)' = HeldShards(r) \cup {n}
  BY <1>2, <1>5 DEF HeldShards, Shards
<1>8. NeededShards(r)' = NeededShards(r)
  BY <1>3, NeededFrame
<1>9. ASSUME NEW s \in Shards, NEW x \in Requests, locks'[s] = x
      PROVE  req'[x].pc \in {"locking", "check"}
  <2>1. CASE x = r
    BY <1>3, <2>1 DEF p
  <2>2. CASE x # r
    BY <1>3, <1>5, <1>9, <2>2 DEF LockInv
  <2> QED
    BY <2>1, <2>2
<1>10. ASSUME NEW x \in Requests, req'[x].pc = "locking"
       PROVE  /\ NeededShards(x)' \ HeldShards(x)' # {}
              /\ \A s \in HeldShards(x)' : \A t \in NeededShards(x)' \ HeldShards(x)' : s < t
  <2>1. CASE x = r
    <3>1. NeededShards(r) \ HeldShards(r) # {n}
      BY <1>3, <1>10, <2>1 DEF p
    <3>2. NeededShards(r)' \ HeldShards(r)' # {}
      BY <1>2, <1>7, <1>8, <3>1
    <3>3. ASSUME NEW s \in HeldShards(r)', NEW t \in NeededShards(r)' \ HeldShards(r)'
          PROVE  s < t
      <4>1. t \in NeededShards(r) \ HeldShards(r) /\ t # n
        BY <1>7, <1>8
      <4>2. n \in Nat /\ t \in Nat
        BY <1>2, <4>1, NeededType, ShardsType
      <4>3. n < t
        BY <1>2, <4>1, <4>2
      <4> QED
        BY <1>1, <1>7, <4>1, <4>3
    <3> QED
      BY <2>1, <3>2, <3>3
  <2>2. CASE x # r
    BY <1>3, <1>6, <1>10, <2>2, OtherLocks
  <2> QED
    BY <2>1, <2>2
<1> QED
  BY <1>9, <1>10 DEF LockInv, Shards

\* Letting go of every lock leaves the locks in order.
LEMMA UnlockStep ==
  ASSUME LockInv, NEW r \in Requests, Unlock(r),
         \A x \in Requests : x # r => req'[x] = req[x]
  PROVE  LockInv'
<1>1. \A s \in Shards : locks'[s] = IF locks[s] = r THEN None ELSE locks[s]
  BY DEF Unlock
<1>2. HeldShards(r)' = {}
  BY <1>1, NoneIsNoRequest DEF HeldShards, Shards
<1>3. \A x \in Requests : x # r => HeldShards(x)' = HeldShards(x)
  BY <1>1, NoneIsNoRequest DEF HeldShards, Shards
<1> QED
  BY <1>2, <1>3, LocklessStep

\* Every step leaves the locks in order.
LEMMA LockStep ==
  ASSUME TypeInv, HeldInv, LockInv, [Next]_vars
  PROVE  LockInv'
<1>1. ASSUME NEW r \in Requests,
             \/ Arrive(r) \/ TakeGauge(r) \/ GaugeFull(r)
             \/ Fail(r) \/ Serve(r) \/ SettleBucket(r) \/ ReleaseGauge(r)
      PROVE  LockInv'
  <2>1. req[r].pc \notin {"locking", "check"} /\ locks' = locks
    BY <1>1 DEF Arrive, TakeGauge, GaugeFull, Fail, Serve, SettleBucket, ReleaseGauge
  <2>2. \A x \in Requests : x # r => req'[x] = req[x]
    BY <1>1, OthersUntouched DEF Admit, Settle
  <2> QED
    BY <2>1, <2>2, LockFrame
<1>2. ASSUME NEW r \in Requests, LockShard(r) PROVE LockInv'
  BY <1>2, LockShardStep
<1>3. ASSUME NEW r \in Requests, Charge(r) \/ Blocked(r) PROVE LockInv'
  <2>1. Unlock(r)
    BY <1>3 DEF Charge, Blocked
  <2>2. \A x \in Requests : x # r => req'[x] = req[x]
    BY <1>3, OthersUntouched DEF Admit
  <2> QED
    BY <2>1, <2>2, UnlockStep
<1>4. CASE Elsewhere
  <2>1. req' = req /\ locks' = locks
    BY <1>4, ElsewhereFrame
  <2> QED
    BY <2>1 DEF LockInv, Shards, HeldShards, NeededShards, ChargedBuckets, Applying
<1>5. CASE Die
  <2>1. \A s \in Shards : locks'[s] = None
    BY <1>5 DEF Die
  <2>2. \A r \in Requests : req'[r].pc # "locking"
    BY <1>5 DEF Die, TypeInv, RequestStates, Settled
  <2> QED
    BY <2>1, <2>2, NoneIsNoRequest DEF LockInv, Shards
<1> QED
  BY <1>1, <1>2, <1>3, <1>4, <1>5, StepKinds DEF Admit, Settle

\* Of the admissions that wait for a lock, the one that waits for the highest
\* shard can take it, unless its owner is past the locking.
LEMMA SomeAdmissionMoves ==
  ASSUME TypeInv, LockInv
  PROVE  LocksNeverDeadlock
<1> SUFFICES ASSUME NEW r0 \in Requests, req[r0].pc = "locking",
                    \A r \in Requests : req[r].pc # "check",
                    \A r \in Requests : req[r].pc = "locking" => locks[NextShard(r)] # None
             PROVE  FALSE
  BY DEF LocksNeverDeadlock
<1> DEFINE Waiting == {r \in Requests : req[r].pc = "locking"}
           Room(r) == GovShards - NextShard(r)
           Rooms == {Room(r) : r \in Waiting}
<1>1. \A r \in Waiting : /\ NextShard(r) \in Shards
                         /\ NextShard(r) \in NeededShards(r) \ HeldShards(r)
  BY NextShardLeast DEF LockInv
<1>2. \A r \in Waiting : NextShard(r) \in Nat /\ Room(r) \in Nat
  <2> TAKE r \in Waiting
  <2>1. NextShard(r) \in Nat /\ GovShards \in Nat /\ NextShard(r) < GovShards
    BY <1>1, ShardsType
  <2> QED
    BY <2>1
<1>3. Rooms \in SUBSET Nat /\ Rooms # {}
  BY <1>2
<1>4. PICK least \in Rooms : \A m \in Rooms : least <= m
  <2> HIDE DEF Rooms
  <2> QED
    BY <1>3, LeastNat
<1>5. PICK r \in Waiting : \A x \in Waiting : Room(r) <= Room(x)
  BY <1>4
<1>6. PICK x \in Requests : locks[NextShard(r)] = x
  BY <1>1, <1>5 DEF TypeInv
<1>7. x \in Waiting
  BY <1>1, <1>6 DEF LockInv
<1>8. NextShard(r) \in HeldShards(x)
  BY <1>1, <1>6 DEF HeldShards
<1>9. NextShard(r) < NextShard(x)
  BY <1>1, <1>7, <1>8 DEF LockInv
<1>10. /\ NextShard(r) \in Nat /\ NextShard(x) \in Nat /\ GovShards \in Nat
       /\ GovShards - NextShard(r) <= GovShards - NextShard(x)
  BY <1>2, <1>5, <1>7, ShardsType
<1> HIDE DEF Waiting, Room, Rooms
<1> QED
  BY <1>9, <1>10

\* Admissions that lock several shards each, in any number and for any chains,
\* never wait for each other in a circle (the canonical order of try_admit).
THEOREM AdmissionsNeverDeadlock == Spec => []LocksNeverDeadlock
<1> DEFINE Inv == TypeInv /\ HeldInv /\ LockInv
<1>1. Init => Inv
  <2> SUFFICES ASSUME Init PROVE Inv
    OBVIOUS
  <2>1. \A s \in Shards : locks[s] = None
    BY DEF Init
  <2>2. \A r \in Requests : req[r].pc = "new"
    BY DEF Init, NoRequest
  <2> QED
    BY <2>1, <2>2, InitInv, NoneIsNoRequest DEF LockInv
<1>2. Inv /\ [Next]_vars => Inv'
  BY TypeHeldStep, LockStep
<1>3. Inv => LocksNeverDeadlock
  BY SomeAdmissionMoves
<1> QED
  BY <1>1, <1>2, <1>3, PTL DEF Spec

-----------------------------------------------------------------------------
(* The inductive invariants *)

FlushStates ==
  [pc : {"idle", "scan", "write", "acked", "failed", "ended"}, last : BOOLEAN,
   shards : SUBSET Shards, snaps : SUBSET Snapshots, ack : SUBSET Snapshots]

\* The types of the ledger.
CountTypes ==
  /\ phase \in {"up", "draining", "down"}
  /\ cells \in [Buckets -> Cells]
  /\ durable \in [Buckets -> [Windows -> Amounts]]
  /\ flush \in [Flushers -> FlushStates]
  /\ landed \in [Requests -> [Buckets -> Windows \cup {-1}]]
  /\ forgotten \in [Buckets -> [Windows -> Nat]]
  /\ trouble \in SUBSET {"error", "lost", "graceful"}

\* An admission keeps up with the clock, and nothing lands beyond it.
AgeInv ==
  /\ \A r \in Requests :
       /\ req[r].at <= now
       /\ req[r].pc \in Admission => now <= req[r].at + MaxLag
       /\ req[r].pc \in Admission \cup {"new"} => \A b \in Buckets : landed[r][b] = -1
       /\ \A b \in Buckets : landed[r][b] <= Window(b, now)
  /\ \A b \in Buckets :
       /\ cells[b].window <= Window(b, now)
       /\ cells[b].dirty => cells[b].window >= 0

\* The firm windows that an admission, now or later, may be charged to.
Live(b, w) ==
  /\ Firm(b, w)
  /\ \/ Window(b, now) <= w
     \/ \E r \in Requests : req[r].pc \in Admission /\ Window(b, req[r].at) <= w

CellCount(b, w) == IF cells[b].window = w THEN cells[b].requests ELSE 0

\* What the check of an admission reads covers what was charged to the window,
\* but for what was forgotten; while the process is down, the store does.
CoverInv ==
  \A b \in Buckets : \A w \in Windows :
    /\ phase = "down" => Count(b, w) <= forgotten[b][w] + durable[b][w].requests
    /\ phase # "down" /\ cells[b].window <= w /\ Live(b, w) =>
         Count(b, w) <= forgotten[b][w] + CellCount(b, w)

\* The two flushes: a snapshot of a bucket each, and one that waits for its
\* acknowledgement.
FlushOK(q) ==
  /\ IF q.pc \in {"acked", "failed"} THEN \E s \in q.snaps : q.ack = {s} ELSE q.ack = {}
  /\ \A s, t \in q.snaps : s.bucket = t.bucket => s = t
  /\ q.pc = "scan" => \A s \in q.snaps : Shard[s.bucket] \notin q.shards
  /\ q.pc = "scan" => q.shards # {} \/ Buckets = {}
  /\ q.pc \in {"idle", "ended"} => q.snaps = {}

FlushInv ==
  /\ \A f \in Flushers : FlushOK(flush[f])
  /\ phase = "down" => /\ \A f \in Flushers : flush[f].pc = "idle"
                       /\ \A r \in Requests : req[r].pc \in Settled
  /\ phase = "draining" \/ flush["main"].pc # "idle" => "graceful" \in trouble

\* A cell that was dropped at the end of its age and made again by a late
\* accrual: nothing is charged to it any more, unless its window is not firm.
Stale(b) ==
  /\ ~ Live(b, cells[b].window)
  /\ Firm(b, cells[b].window) => cells[b].requests = 0

Written(f) == IF flush[f].pc = "acked" THEN flush[f].ack ELSE {}

Once == trouble \cap {"lost", "graceful"} = {}

\* What a snapshot and the cell it was taken of still have to do with each other:
\* a negative delta is of a stale cell, and a cell that is still of its window
\* has the baseline it had, and has only grown.
SnapOK(s) ==
  LET c == cells[s.bucket]
  IN  /\ s.delta["requests"] < 0 =>
           ~ Live(s.bucket, s.window) /\ (c.window = s.window => Stale(s.bucket))
      /\ c.window < s.window => ~ Live(s.bucket, s.window)
      /\ c.window = s.window /\ ~ Stale(s.bucket) =>
           /\ c.flushed["requests"] + s.delta["requests"] = s.current["requests"]
           /\ s.current["requests"] <= c.requests

\* The store is not ahead of what was charged: with a snapshot that it has yet to
\* take, with the growth of the cell since one that it has taken, and with what
\* the cell has not flushed.
Waits(s) ==
  Firm(s.bucket, s.window) =>
    durable[s.bucket][s.window].requests + s.delta["requests"] <= Count(s.bucket, s.window)

Lands(s) ==
  LET c == cells[s.bucket]
  IN  c.window = s.window /\ ~ Stale(s.bucket) =>
        durable[s.bucket][s.window].requests + c.requests - s.current["requests"]
          <= Count(s.bucket, s.window)

Level(b) ==
  \A w \in Windows :
    cells[b].window = w /\ ~ Stale(b) =>
      durable[b][w].requests + cells[b].requests - cells[b].flushed["requests"] <= Count(b, w)

CellOK(b) == cells[b].window >= 0 /\ ~ Stale(b) => cells[b].flushed["requests"] <= cells[b].requests

\* The baseline of a cell is behind between the write and its acknowledgement.
Behind(b) == \E s \in Written("task") : s.bucket = b /\ s.window = cells[b].window

SentInv ==
  Once =>
    /\ NotAhead
    /\ \A s \in flush["task"].snaps :
         SnapOK(s) /\ (s \in Written("task") => Lands(s)) /\ (s \notin Written("task") => Waits(s))
    /\ \A b \in Buckets : CellOK(b) /\ (~ Behind(b) => Level(b))

-----------------------------------------------------------------------------
(* Windows and cells *)

\* What the limits of a bucket are.
LEMMA LimitTypes ==
  ASSUME NEW b \in Buckets
  PROVE  /\ Limit[b].period \in Nat /\ MaxLag \in Nat /\ MaxAge \in Nat
         /\ Limit[b].period <= MaxAge
         /\ Limit[b].requests \in Nat \cup {None}
BY LedgerAssumption

\* A product that grows by one factor.
LEMMA Multiples ==
  ASSUME NEW a \in Nat, NEW c \in Nat, NEW p \in Nat, a > c
  PROVE  a * p >= c * p + p
<1>1. PICK d \in Nat : a = c + 1 + d
  <2>1. a - c - 1 \in Nat /\ a = c + 1 + (a - c - 1)
    OBVIOUS
  <2> QED BY <2>1
<1>2. a * p = c * p + p + d * p
  BY <1>1
<1>3. d * p \in Nat /\ c * p \in Nat
  OBVIOUS
<1> QED BY <1>2, <1>3

\* The quotient's multiple of the divisor.
LEMMA Quotient ==
  ASSUME NEW t \in Nat, NEW p \in Nat \ {0}
  PROVE  t \div p \in Nat /\ (t \div p) * p \in Nat /\ (t \div p) * p <= t /\ t < (t \div p) * p + p
BY SMT

\* A window holds the time it is of.
LEMMA WindowBounds ==
  ASSUME NEW b \in Buckets, NEW t \in Nat
  PROVE  /\ Window(b, t) \in Nat /\ Window(b, t) <= t
         /\ Limit[b].period = 0 => Window(b, t) = 0
         /\ Limit[b].period # 0 => t < Window(b, t) + Limit[b].period
<1> DEFINE p == Limit[b].period
<1>1. p \in Nat
  BY LimitTypes
<1>2. CASE p = 0
  BY <1>2 DEF Window
<1>3. CASE p # 0
  <2> DEFINE m == t \div p
  <2>1. m * p \in Nat /\ m * p <= t /\ t < m * p + p
    BY <1>1, <1>3, Quotient
  <2>2. Window(b, t) = m * p
    BY <1>3 DEF Window
  <2> HIDE DEF m
  <2> QED BY <1>3, <2>1, <2>2
<1> QED BY <1>2, <1>3

\* A later time has no earlier window.
LEMMA WindowMonotone ==
  ASSUME NEW b \in Buckets, NEW t \in Nat, NEW u \in Nat, t <= u
  PROVE  Window(b, t) <= Window(b, u)
<1> DEFINE p == Limit[b].period
<1>1. p \in Nat
  BY LimitTypes
<1>2. CASE p = 0
  BY <1>2 DEF Window
<1>3. CASE p # 0
  <2> DEFINE m == t \div p
             n == u \div p
  <2>1. m \in Nat /\ m * p \in Nat /\ m * p <= t
    BY <1>1, <1>3, Quotient
  <2>2. n \in Nat /\ n * p \in Nat /\ u < n * p + p
    BY <1>1, <1>3, Quotient
  <2>3. Window(b, t) = m * p /\ Window(b, u) = n * p
    BY <1>3 DEF Window
  <2> HIDE DEF m, n, p
  <2>4. m > n => m * p >= n * p + p
    BY <1>1, <2>1, <2>2, Multiples
  <2>5. m <= n => m * p <= n * p
    <3>1. m = n => m * p = n * p
      OBVIOUS
    <3>2. n > m => n * p >= m * p + p
      BY <1>1, <2>1, <2>2, Multiples
    <3> QED BY <1>1, <2>1, <2>2, <3>1, <3>2
  <2> QED BY <1>1, <2>1, <2>2, <2>3, <2>4, <2>5
<1> QED BY <1>2, <1>3

\* The window of a time that the clock has shown.
LEMMA WindowType ==
  ASSUME TypeInv, NEW b \in Buckets, NEW t \in Nat, t <= now
  PROVE  Window(b, t) \in Windows
<1>1. now \in Nat /\ now <= MaxNow /\ MaxNow \in Nat
  BY LedgerAssumption DEF TypeInv
<1> QED BY <1>1, WindowBounds DEF Windows

\* A cell that begins a window.
LEMMA FreshCell ==
  ASSUME NEW w \in Windows \cup {-1}
  PROVE  /\ Fresh(w) \in Cells
         /\ Fresh(w).window = w /\ Fresh(w).requests = 0 /\ Fresh(w).flushed["requests"] = 0
         /\ Fresh(w).billable = 0 /\ Fresh(w).flushed["billable"] = 0
         /\ ~ Fresh(w).dirty
<1> DEFINE no == FALSE
           zero == [k \in Counters |-> 0]
<1>1. no \in BOOLEAN /\ ~ no
  OBVIOUS
<1>2. zero \in Amounts /\ zero["requests"] = 0 /\ zero["billable"] = 0
  BY DEF Amounts, Counters
<1>3. Fresh(w) = [window |-> w, requests |-> 0, billable |-> 0, tokens |-> 0, flushed |-> zero,
                  dirty |-> no]
  BY Zenon DEF Fresh
<1> HIDE DEF no, zero
<1> QED BY <1>1, <1>2, <1>3 DEF Cells

\* No cell at all.
LEMMA AbsentCell ==
  Absent \in Cells /\ Absent.window = -1 /\ Absent.requests = 0 /\ ~ Absent.dirty
BY FreshCell DEF Absent

\* A cell that is charged, or that tokens are added to.
LEMMA ChargedCell ==
  ASSUME NEW c \in Cells, NEW t \in Nat
  PROVE  /\ Charged(c) \in Cells /\ Accrued(c, t) \in Cells
         /\ Charged(c).window = c.window /\ Accrued(c, t).window = c.window
         /\ Charged(c).requests = c.requests + 1 /\ Accrued(c, t).requests = c.requests
         /\ Charged(c).billable = c.billable + 1 /\ Accrued(c, t).billable = c.billable
         /\ Charged(c).flushed = c.flushed /\ Accrued(c, t).flushed = c.flushed
         /\ Charged(c).dirty /\ Accrued(c, t).dirty
<1> DEFINE yes == TRUE
           m == c.requests + 1
           n == c.billable + 1
           k == c.tokens + t
<1>1. yes \in BOOLEAN /\ yes /\ m \in Nat /\ n \in Nat /\ k \in Nat
  BY DEF Cells
<1>2. /\ Charged(c) = [c EXCEPT !.requests = m, !.billable = n, !.dirty = yes]
      /\ Accrued(c, t) = [c EXCEPT !.tokens = k, !.dirty = yes]
  BY DEF Charged, Accrued
<1>3. m = c.requests + 1 /\ n = c.billable + 1
  OBVIOUS
<1> HIDE DEF yes, m, n, k
<1>4. /\ Charged(c) \in Cells /\ Charged(c).window = c.window /\ Charged(c).requests = m
      /\ Charged(c).billable = n /\ Charged(c).flushed = c.flushed /\ Charged(c).dirty
  BY <1>1, <1>2 DEF Cells
<1>5. /\ Accrued(c, t) \in Cells /\ Accrued(c, t).window = c.window
      /\ Accrued(c, t).requests = c.requests /\ Accrued(c, t).billable = c.billable
      /\ Accrued(c, t).flushed = c.flushed /\ Accrued(c, t).dirty
  BY <1>1, <1>2 DEF Cells
<1> QED BY <1>3, <1>4, <1>5

\* A cell that is rolled to a window.
LEMMA RolledCell ==
  ASSUME NEW c \in Cells, NEW w \in Windows
  PROVE  /\ Rolled(c, w) \in Cells
         /\ \/ Rolled(c, w) = c /\ w <= c.window
            \/ Rolled(c, w) = Fresh(w) /\ c.window < w
         /\ Rolled(c, w).window \in Windows /\ w <= Rolled(c, w).window
<1>1. c.window \in Windows \cup {-1} /\ w \in Nat
  BY DEF Cells, Windows
<1>2. CASE w > c.window
  <2>1. Rolled(c, w) = Fresh(w)
    BY <1>2 DEF Rolled
  <2> QED BY <1>1, <1>2, <2>1, FreshCell
<1>3. CASE ~ (w > c.window)
  <2>1. Rolled(c, w) = c
    BY <1>3 DEF Rolled
  <2>2. c.window \in Windows /\ w <= c.window
    BY <1>1, <1>3 DEF Windows
  <2> QED BY <1>1, <2>1, <2>2
<1> QED BY <1>2, <1>3

\* A cell whose fee is refunded.
LEMMA RefundedCell ==
  ASSUME NEW c \in Cells, NEW w
  PROVE  /\ Refunded(c, w) \in Cells
         /\ Refunded(c, w).window = c.window /\ Refunded(c, w).requests = c.requests
         /\ Refunded(c, w).flushed = c.flushed
         /\ Refunded(c, w).dirty <=> c.dirty \/ c.window = w
         /\ Refunded(c, w).billable >= c.billable - 1
         /\ c.window # w => Refunded(c, w) = c
<1> DEFINE yes == TRUE
           left == Floor(c.billable - 1)
<1>1. yes \in BOOLEAN /\ yes
  OBVIOUS
<1>2. left \in Nat /\ left >= c.billable - 1 /\ c.billable \in Nat
  BY DEF Floor, Cells
<1>3. Refunded(c, w) = IF c.window = w THEN [c EXCEPT !.billable = left, !.dirty = yes] ELSE c
  BY DEF Refunded
<1> HIDE DEF yes, left
<1>4. CASE c.window = w
  <2>1. Refunded(c, w) = [c EXCEPT !.billable = left, !.dirty = yes]
    BY <1>3, <1>4
  <2>2. /\ Refunded(c, w) \in Cells /\ Refunded(c, w).window = c.window
        /\ Refunded(c, w).requests = c.requests /\ Refunded(c, w).flushed = c.flushed
        /\ Refunded(c, w).dirty = yes /\ Refunded(c, w).billable = left
    BY <1>1, <1>2, <2>1 DEF Cells
  <2> QED BY <1>1, <1>2, <1>4, <2>2
<1>5. CASE c.window # w
  <2>1. Refunded(c, w) = c
    BY <1>3, <1>5
  <2> QED BY <1>2, <1>5, <2>1
<1> QED BY <1>4, <1>5

\* A cell that the sweep meets.
LEMMA SweptCell ==
  ASSUME NEW c \in Cells, NEW at
  PROVE  /\ Swept(c, at) \in Cells
         /\ \/ Swept(c, at) = c
            \/ Swept(c, at) = Absent /\ c.window > 0 /\ c.window + MaxAge <= at
BY AbsentCell, Zenon DEF Swept

\* A cell whose snapshot is acknowledged.
LEMMA AcknowledgedCell ==
  ASSUME NEW c \in Cells, NEW s \in Snapshots, NEW ok \in BOOLEAN
  PROVE  /\ Acknowledged(c, s, ok) \in Cells
         /\ Acknowledged(c, s, ok).window = c.window
         /\ Acknowledged(c, s, ok).requests = c.requests
         /\ Acknowledged(c, s, ok).flushed = IF ok /\ c.window = s.window THEN s.current ELSE c.flushed
         /\ Acknowledged(c, s, ok).billable = c.billable
         /\ Acknowledged(c, s, ok).dirty <=> c.dirty \/ (c.window = s.window /\ ~ ok)
<1> DEFINE yes == TRUE
<1>1. yes \in BOOLEAN /\ yes
  OBVIOUS
<1>2. Acknowledged(c, s, ok) = IF c.window # s.window THEN c
                               ELSE IF ok THEN [c EXCEPT !.flushed = s.current]
                               ELSE [c EXCEPT !.dirty = yes]
  BY DEF Acknowledged
<1> HIDE DEF yes
<1>3. s.current \in Amounts
  BY DEF Snapshots
<1> QED BY <1>1, <1>2, <1>3 DEF Cells

-----------------------------------------------------------------------------
(* The requests and the clock *)

\* What a step of a request does to when and where it is.
Advances(r) ==
  /\ req'[r].at = req[r].at \/ (req'[r].at = now /\ req[r].pc = "new")
  /\ req'[r].pc \in Admission =>
       \/ req[r].pc \in Admission /\ req'[r].at = req[r].at
       \/ req[r].pc = "new" /\ req'[r].at = now
  /\ req'[r].pc = "new" => req[r].pc = "new"

\* A request whose step and holds change, and not its time.
LEMMA SameTime ==
  ASSUME TypeInv, NEW r \in Requests, req'[r].at = req[r].at,
         req'[r].pc \notin Admission \/ req[r].pc \in Admission,
         req'[r].pc # "new"
  PROVE  Advances(r)
BY DEF Advances

\* Every step of a request is of that kind.
LEMMA OwnStep ==
  ASSUME TypeInv, HeldInv, NEW r \in Requests, Arrive(r) \/ Admit(r) \/ Settle(r)
  PROVE  Advances(r)
<1> USE DEF Admission
<1>0. req[r] \in RequestStates
  BY DEF TypeInv
<1>1. CASE Arrive(r)
  <2>1. CASE req' = [req EXCEPT ![r].pc = "refused"]
    <3>1. req'[r].pc = "refused" /\ req'[r].at = req[r].at
      BY <1>0, <2>1 DEF TypeInv, RequestStates
    <3> QED BY <3>1, SameTime
  <2>2. CASE req' = [req EXCEPT ![r] =
                       [req[r] EXCEPT !.pc = Entry(r), !.at = now, !.pool = Asked[r]]]
    <3>1. req'[r].pc = Entry(r) /\ req'[r].at = now
      BY <1>0, <2>2 DEF TypeInv, RequestStates
    <3>2. req[r].pc = "new" /\ Entry(r) # "new"
      BY <1>1, EntryGauges DEF Arrive
    <3> QED BY <3>1, <3>2 DEF Advances
  <2> QED BY <1>1, <2>1, <2>2 DEF Arrive
<1>2. ASSUME NEW after \in {"refused", "gauges", "locking"}, NEW pool, NEW visited,
             Retreat(r, after, pool, visited), req[r].pc \in Admission
      PROVE  Advances(r)
  <2> DEFINE p == IF req[r].held = {} THEN after ELSE "rollback"
  <2>1. p # "new"
    OBVIOUS
  <2>2. req' = [req EXCEPT ![r] = [req[r] EXCEPT !.pc = p, !.after = after, !.pool = pool,
                                     !.visited = visited]]
    BY <1>2 DEF Retreat
  <2> HIDE DEF p
  <2>3. req'[r].pc = p /\ req'[r].at = req[r].at
    BY <1>0, <2>2 DEF TypeInv, RequestStates
  <2> QED BY <1>2, <2>1, <2>3, SameTime
<1>3. CASE GaugeFull(r)
  BY <1>2, <1>3 DEF GaugeFull
<1>4. CASE Blocked(r)
  BY <1>2, <1>4, EntryGauges DEF Blocked
<1>5. CASE TakeGauge(r)
  <2> DEFINE held == req[r].held \cup {NextGauge(r)}
             p == IF Cardinality(held) = Len(Gauges[r]) THEN "locking" ELSE "gauges"
  <2>1. p # "new" /\ req[r].pc \in Admission
    BY <1>5 DEF TakeGauge
  <2>2. req' = [req EXCEPT ![r] = [req[r] EXCEPT !.held = held, !.pc = p]]
    BY <1>5 DEF TakeGauge
  <2> HIDE DEF p, held
  <2>3. req'[r].pc = p /\ req'[r].at = req[r].at
    BY <1>0, <2>2 DEF TypeInv, RequestStates
  <2> QED BY <2>1, <2>3, SameTime
<1>6. CASE LockShard(r)
  <2> DEFINE p == IF NeededShards(r) \ HeldShards(r) = {NextShard(r)} THEN "check" ELSE req[r].pc
  <2>1. p # "new" /\ req[r].pc \in Admission /\ req' = [req EXCEPT ![r].pc = p]
    BY <1>6 DEF LockShard
  <2> HIDE DEF p
  <2>2. req'[r].pc = p /\ req'[r].at = req[r].at
    BY <1>0, <2>1 DEF TypeInv, RequestStates
  <2> QED BY <2>1, <2>2, SameTime
<1>7. CASE Charge(r)
  <2>1. req' = [req EXCEPT ![r].pc = "flight"]
    BY <1>7 DEF Charge
  <2>2. req'[r].pc = "flight" /\ req'[r].at = req[r].at
    BY <1>0, <2>1 DEF TypeInv, RequestStates
  <2> QED BY <2>2, SameTime
<1>8. ASSUME NEW job, NEW todo, NEW tokens, Close(r, job, todo, tokens) PROVE Advances(r)
  <2> DEFINE p == IF todo = {} /\ req[r].held = {} THEN "done" ELSE "closing"
  <2>1. p # "new" /\ p \notin Admission
    OBVIOUS
  <2>2. req' = [req EXCEPT ![r] = [req[r] EXCEPT !.pc = p, !.job = job, !.todo = todo,
                                     !.tokens = tokens]]
    BY <1>8 DEF Close
  <2> HIDE DEF p
  <2>3. req'[r].pc = p /\ req'[r].at = req[r].at
    BY <1>0, <2>2 DEF TypeInv, RequestStates
  <2> QED BY <2>1, <2>3, SameTime
<1>9. CASE Fail(r) \/ Serve(r)
  BY <1>8, <1>9 DEF Fail, Serve
<1>10. CASE SettleBucket(r)
  <2>1. PICK b \in req[r].todo :
          req' = [req EXCEPT ![r] = [req[r] EXCEPT !.todo = req[r].todo \ {b},
             !.pc = IF req[r].todo = {b} /\ req[r].held = {} THEN "done" ELSE "closing"]]
    BY <1>10 DEF SettleBucket
  <2> DEFINE p == IF req[r].todo = {b} /\ req[r].held = {} THEN "done" ELSE "closing"
  <2>2. p # "new" /\ p \notin Admission
    OBVIOUS
  <2>3. req' = [req EXCEPT ![r] = [req[r] EXCEPT !.todo = req[r].todo \ {b}, !.pc = p]]
    BY <2>1
  <2> HIDE DEF p
  <2>4. req'[r].pc = p /\ req'[r].at = req[r].at
    BY <1>0, <2>3 DEF TypeInv, RequestStates
  <2> QED BY <2>2, <2>4, SameTime
<1>11. CASE ReleaseGauge(r)
  <2>1. PICK g \in req[r].held :
          req' = [req EXCEPT ![r] = [req[r] EXCEPT !.held = req[r].held \ {g},
            !.pc = CASE req[r].held # {g} -> req[r].pc
                     [] req[r].held = {g} /\ req[r].pc = "rollback" -> req[r].after
                     [] req[r].held = {g} /\ req[r].pc = "closing" ->
                          IF req[r].todo = {} THEN "done" ELSE "closing"]]
    BY <1>11 DEF ReleaseGauge
  <2> DEFINE p == CASE req[r].held # {g} -> req[r].pc
                     [] req[r].held = {g} /\ req[r].pc = "rollback" -> req[r].after
                     [] req[r].held = {g} /\ req[r].pc = "closing" ->
                          IF req[r].todo = {} THEN "done" ELSE "closing"
  <2>2. req[r].pc \in {"rollback", "closing"} /\ req[r].after \in {"refused", "gauges", "locking"}
    BY <1>0, <1>11 DEF ReleaseGauge, RequestStates
  <2>3. p # "new" /\ (p \in Admission => req[r].pc = "rollback")
    BY <2>2
  <2>4. req' = [req EXCEPT ![r] = [req[r] EXCEPT !.held = req[r].held \ {g}, !.pc = p]]
    BY <2>1
  <2> HIDE DEF p
  <2>5. req'[r].pc = p /\ req'[r].at = req[r].at
    BY <1>0, <2>4 DEF TypeInv, RequestStates
  <2> QED BY <2>3, <2>5, SameTime
<1> QED BY <1>1, <1>3, <1>4, <1>5, <1>6, <1>7, <1>9, <1>10, <1>11 DEF Admit, Settle

\* Time goes forward, and waits for the admissions.
LEMMA TimeStep ==
  ASSUME TypeInv, HeldInv, [Next]_vars
  PROVE  /\ now \in Nat /\ now' \in Nat /\ now <= now'
         /\ \A r \in Requests : Advances(r)
         /\ \A r \in Requests : req[r].pc = "new" /\ req'[r].pc # "new" => now' = now
         /\ now' # now => \A r \in Requests : req[r].pc \in Admission => now < req[r].at + MaxLag
         /\ now' # now => now' = now + 1 /\ req' = req
<1>0. now \in Nat
  BY LedgerAssumption DEF TypeInv
<1>1. ASSUME NEW r \in Requests, Arrive(r) \/ Admit(r) \/ Settle(r)
      PROVE  now' = now /\ \A x \in Requests : Advances(x)
  <2>1. now' = now
    BY <1>1 DEF Arrive, Admit, Settle, TakeGauge, GaugeFull, LockShard, Charge, Blocked, Fail, Serve,
                SettleBucket, ReleaseGauge, process
  <2>2. Advances(r)
    BY <1>1, OwnStep
  <2>3. \A x \in Requests : x # r => Advances(x)
    BY <1>1, OthersUntouched DEF Advances
  <2> QED BY <2>1, <2>2, <2>3
<1>2. CASE Elsewhere
  <2>1. req' = req
    BY <1>2, ElsewhereFrame
  <2>2. \/ now' = now
        \/ now' = now + 1 /\ \A r \in Requests : req[r].pc \in Admission => now < req[r].at + MaxLag
    BY <1>2 DEF Elsewhere, StartFlush, FlushStep, ScanShard, WriteUsage, Acknowledge, process, Tick,
                Shutdown, Boot, vars
  <2>3. \A x \in Requests : Advances(x)
    BY <2>1 DEF Advances
  <2> QED BY <1>0, <2>1, <2>2, <2>3
<1>3. CASE Die
  <2>1. now' = now
    BY <1>3 DEF Die
  <2>2. ASSUME NEW x \in Requests PROVE Advances(x)
    <3>1. CASE req[x].pc \in Settled
      <4>1. req'[x] = req[x]
        BY <1>3, <3>1 DEF Die
      <4> QED BY <4>1 DEF Advances
    <3>2. CASE req[x].pc \notin Settled
      <4>1. req'[x] = [req[x] EXCEPT !.pc = "dead", !.held = {}, !.todo = {}]
        BY <1>3, <3>2 DEF Die
      <4>2. req'[x].pc = "dead" /\ req'[x].at = req[x].at
        BY <4>1 DEF TypeInv, RequestStates
      <4> QED BY <4>2, SameTime DEF Admission
    <3> QED BY <3>1, <3>2
  <2> QED BY <1>0, <2>1, <2>2
<1> QED BY <1>0, <1>1, <1>2, <1>3, StepKinds

\* The clock and the constants of a window's age.
LEMMA KeptTypes ==
  ASSUME TypeInv, NEW b \in Buckets
  PROVE  now \in Nat /\ MaxAge \in Nat /\ Limit[b].period \in Nat /\ Window(b, now) \in Nat
<1>1. now \in Nat
  BY LedgerAssumption DEF TypeInv
<1> QED BY <1>1, LimitTypes, WindowBounds

\* A window that is kept was kept before, and so is every later one.
LEMMA KeptShrinks ==
  ASSUME TypeInv, HeldInv, [Next]_vars, NEW b \in Buckets, NEW w \in Int
  PROVE  /\ Kept(b, w)' => Kept(b, w)
         /\ \A v \in Int : w <= v /\ Kept(b, w) => Kept(b, v)
<1>1. now \in Nat /\ now' \in Nat /\ now <= now' /\ MaxAge \in Nat
  BY TimeStep, KeptTypes
<1> QED BY <1>1 DEF Kept

\* The window of the clock is kept.
LEMMA CurrentKept ==
  ASSUME TypeInv, NEW b \in Buckets
  PROVE  Kept(b, Window(b, now))
<1> DEFINE p == Limit[b].period
<1>1. now \in Nat /\ p \in Nat /\ MaxAge \in Nat /\ p <= MaxAge
  BY KeptTypes, LimitTypes
<1>2. p # 0 => now < Window(b, now) + p /\ Window(b, now) \in Nat
  BY <1>1, WindowBounds
<1> QED BY <1>1, <1>2 DEF Kept

\* The sweep drops no cell of a window that is kept.
LEMMA SweptIsNotKept ==
  ASSUME TypeInv, CountTypes, AgeInv, NEW b \in Buckets, NEW r \in Requests, NEW w \in Int,
         cells[b].window > 0, cells[b].window + MaxAge <= req[r].at, w <= cells[b].window
  PROVE  ~ Kept(b, w)
<1> DEFINE p == Limit[b].period
           v == cells[b].window
<1>1. now \in Nat /\ MaxAge \in Nat /\ p \in Nat
  BY KeptTypes
<1>2. v \in Int /\ v <= Window(b, now)
  BY DEF CountTypes, Cells, Windows, AgeInv
<1>3. req[r].at \in Nat /\ req[r].at <= now
  BY DEF TypeInv, RequestStates, Windows, AgeInv
<1>4. p # 0
  BY <1>1, <1>2, WindowBounds
<1> QED BY <1>1, <1>2, <1>3, <1>4 DEF Kept

\* No window is made firm again.
LEMMA FirmShrinks ==
  ASSUME TypeInv, HeldInv, [Next]_vars, NEW b \in Buckets, NEW w \in Int, Firm(b, w)'
  PROVE  Firm(b, w)
BY KeptShrinks DEF Firm, Outlasts

\* No window is brought back to life.
LEMMA LiveShrinks ==
  ASSUME TypeInv, HeldInv, [Next]_vars, NEW b \in Buckets, NEW w \in Int, Live(b, w)'
  PROVE  Live(b, w)
<1>1. /\ now \in Nat /\ now' \in Nat /\ now <= now'
      /\ \A r \in Requests : Advances(r)
  BY TimeStep
<1>2. Window(b, now) \in Nat /\ Window(b, now') \in Nat /\ Window(b, now) <= Window(b, now')
  BY <1>1, WindowBounds, WindowMonotone
<1>0. Firm(b, w)
  BY FirmShrinks DEF Live
<1>3. CASE Window(b, now') <= w
  BY <1>0, <1>2, <1>3 DEF Live
<1>4. ASSUME NEW r \in Requests, req'[r].pc \in Admission, Window(b, req'[r].at) <= w
      PROVE  Live(b, w)
  BY <1>0, <1>1, <1>4 DEF Live, Advances
<1> QED BY <1>3, <1>4 DEF Live

\* A window whose cell the sweep drops is none that an admission can reach: it is
\* not firm, or its admissions are over before the sweep reaches it.
LEMMA SweptIsDead ==
  ASSUME TypeInv, CountTypes, AgeInv, NEW b \in Buckets, NEW r \in Requests, NEW w \in Int,
         cells[b].window > 0, cells[b].window + MaxAge <= req[r].at, w <= cells[b].window
  PROVE  ~ Live(b, w)
<1> DEFINE p == Limit[b].period
           v == cells[b].window
<1>0. SUFFICES ASSUME Outlasts(b) PROVE ~ Live(b, w)
  BY SweptIsNotKept DEF Live, Firm
<1>1. now \in Nat /\ v \in Int /\ p \in Nat /\ MaxLag \in Nat /\ MaxAge \in Nat /\ p + MaxLag <= MaxAge
  <2>1. now \in Nat
    BY LedgerAssumption DEF TypeInv
  <2>2. v \in Int
    BY DEF CountTypes, Cells, Windows
  <2> QED BY <1>0, <2>1, <2>2, LimitTypes DEF Outlasts
<1>2. req[r].at \in Nat /\ req[r].at <= now
  BY DEF TypeInv, RequestStates, Windows, AgeInv
<1>3. v <= Window(b, now)
  BY DEF AgeInv
<1>4. p # 0
  BY <1>1, <1>3, WindowBounds
<1>5. now < Window(b, now) + p /\ Window(b, now) \in Nat
  BY <1>1, <1>4, WindowBounds
<1>6. ASSUME NEW x \in Requests, req[x].pc \in Admission PROVE w < Window(b, req[x].at)
  <2>1. req[x].at \in Nat /\ now <= req[x].at + MaxLag
    BY <1>6 DEF TypeInv, RequestStates, Windows, AgeInv
  <2>2. req[x].at < Window(b, req[x].at) + p /\ Window(b, req[x].at) \in Nat
    BY <1>4, <2>1, WindowBounds
  <2> QED BY <1>1, <1>2, <2>1, <2>2
<1>7. w < Window(b, now)
  BY <1>1, <1>2, <1>5
<1>8. \A x \in Requests : Window(b, req[x].at) \in Nat
  BY WindowBounds DEF TypeInv, RequestStates, Windows
<1> QED BY <1>5, <1>6, <1>7, <1>8 DEF Live

-----------------------------------------------------------------------------
(* What a step does to the cells *)

\* The cell that a boot makes of the store's record.
LEMMA HydratedCell ==
  ASSUME TypeInv, CountTypes, NEW b \in Buckets
  PROVE  /\ Hydrated(b) \in Cells /\ ~ Hydrated(b).dirty
         /\ Window(b, now) \in Windows
         /\ \/ /\ Hydrated(b).window = -1 /\ Hydrated(b).requests = 0
               /\ durable[b][Window(b, now)].requests = 0
            \/ /\ Hydrated(b).window = Window(b, now)
               /\ Hydrated(b).requests = durable[b][Window(b, now)].requests
               /\ Hydrated(b).flushed["requests"] = durable[b][Window(b, now)].requests
               /\ Hydrated(b).flushed["billable"] = Hydrated(b).billable
               /\ \/ Hydrated(b).billable = durable[b][Window(b, now)].requests
                  \/ Hydrated(b).billable = durable[b][Window(b, now)].billable
<1> DEFINE w == Window(b, now)
           d == durable[b][w]
           n == IF d.billable = 0 THEN d.requests ELSE d.billable
           c == [d EXCEPT !.billable = n]
<1>1. w \in Windows
  <2>1. now \in Nat
    BY LedgerAssumption DEF TypeInv
  <2> QED BY <2>1, WindowType
<1>2. d \in Amounts
  BY <1>1 DEF CountTypes
<1>3. d.requests \in Nat /\ d.billable \in Nat /\ d.tokens \in Nat
  BY <1>2 DEF Amounts, Counters
<1>4. n \in Nat /\ (n = d.requests \/ n = d.billable)
  BY <1>3
<1>5. Hydrated(b) = IF d.requests = 0 /\ d.tokens = 0 THEN Absent
                    ELSE [Fresh(w) EXCEPT !.requests = c.requests, !.billable = c.billable,
                            !.tokens = c.tokens, !.flushed = c]
  BY DEF Hydrated
<1> HIDE DEF n, d, w
<1>6. c \in Amounts /\ c.requests = d.requests /\ c.tokens = d.tokens /\ c.billable = n
      /\ c["requests"] = d.requests /\ c["billable"] = n
  BY <1>2, <1>4 DEF Amounts, Counters
<1> HIDE DEF c
<1>7. CASE d.requests = 0 /\ d.tokens = 0
  <2>1. Hydrated(b) = Absent
    BY <1>5, <1>7
  <2> QED BY <1>1, <1>7, <2>1, AbsentCell DEF d, w
<1>8. CASE ~ (d.requests = 0 /\ d.tokens = 0)
  <2> DEFINE h == [Fresh(w) EXCEPT !.requests = c.requests, !.billable = c.billable,
                     !.tokens = c.tokens, !.flushed = c]
  <2>1. Hydrated(b) = h
    BY <1>5, <1>8
  <2>2. Fresh(w) \in Cells /\ Fresh(w).window = w /\ ~ Fresh(w).dirty
    BY <1>1, FreshCell
  <2>3. h \in Cells /\ h.window = w /\ h.requests = c.requests /\ h.billable = c.billable
        /\ h.flushed = c /\ h.dirty = Fresh(w).dirty
    BY <1>3, <1>4, <1>6, <2>2 DEF Cells
  <2> HIDE DEF h
  <2> QED BY <1>1, <1>4, <1>6, <2>1, <2>2, <2>3 DEF d, w
<1> QED BY <1>7, <1>8

\* Cells that keep their window and their count of requests.
SameCount(b) ==
  /\ cells'[b] \in Cells
  /\ cells'[b].window = cells[b].window
  /\ cells'[b].requests = cells[b].requests

\* A scan clears flags.
LEMMA ScanCells ==
  ASSUME CountTypes, NEW f \in Flushers, ScanShard(f), NEW b \in Buckets
  PROVE  /\ SameCount(b) /\ cells'[b].flushed = cells[b].flushed
         /\ cells'[b].billable = cells[b].billable
         /\ cells'[b].dirty <=> cells[b].dirty /\ Shard[b] # Least(flush[f].shards)
<1> DEFINE dirty == {x \in Buckets : Shard[x] = Least(flush[f].shards) /\ cells[x].dirty}
           left == cells[b].dirty /\ b \notin dirty
<1>1. cells'[b] = [cells[b] EXCEPT !.dirty = left]
  BY DEF ScanShard
<1>2. left \in BOOLEAN /\ (left <=> cells[b].dirty /\ Shard[b] # Least(flush[f].shards))
  OBVIOUS
<1> HIDE DEF left
<1>3. cells[b] \in Cells
  BY DEF CountTypes
<1>4. /\ cells'[b] \in Cells /\ cells'[b].window = cells[b].window
      /\ cells'[b].requests = cells[b].requests /\ cells'[b].flushed = cells[b].flushed
      /\ cells'[b].billable = cells[b].billable /\ cells'[b].dirty = left
  BY <1>1, <1>2, <1>3 DEF Cells
<1> QED BY <1>2, <1>4 DEF SameCount

\* What the acknowledgement of a snapshot does to the cells and to its flush.
Acks(f, s) ==
  /\ s \in Snapshots /\ flush[f].ack = {s}
  /\ \A b \in Buckets :
       /\ SameCount(b)
       /\ cells'[b].flushed = IF b = s.bucket /\ flush[f].pc = "acked" /\ cells[b].window = s.window
                              THEN s.current ELSE cells[b].flushed
       /\ cells'[b].billable = cells[b].billable
       /\ cells'[b].dirty <=> \/ cells[b].dirty
                              \/ b = s.bucket /\ cells[b].window = s.window /\ flush[f].pc # "acked"
  /\ flush' = [flush EXCEPT ![f] =
       IF flush[f].snaps = {s} THEN Resting(f)
       ELSE [flush[f] EXCEPT !.pc = "write", !.snaps = flush[f].snaps \ {s}, !.ack = {}]]

\* An acknowledgement moves the baseline of the cell it is for.
LEMMA AcknowledgeCells ==
  ASSUME CountTypes, NEW f \in Flushers, FlushOK(flush[f]), Acknowledge(f)
  PROVE  \E s \in flush[f].snaps : Acks(f, s)
<1>1. PICK s \in flush[f].ack :
        /\ cells' = [cells EXCEPT ![s.bucket] = Acknowledged(cells[s.bucket], s, flush[f].pc = "acked")]
        /\ flush' = [flush EXCEPT ![f] =
             IF flush[f].snaps = {s} THEN Resting(f)
             ELSE [flush[f] EXCEPT !.pc = "write", !.snaps = flush[f].snaps \ {s}, !.ack = {}]]
  BY DEF Acknowledge
<1>2. flush[f].ack = {s} /\ s \in flush[f].snaps
  BY <1>1 DEF FlushOK, Acknowledge
<1>3. s \in Snapshots /\ s.bucket \in Buckets /\ s.window \in Windows
  BY <1>2 DEF CountTypes, FlushStates, Snapshots
<1> DEFINE ok == flush[f].pc = "acked"
<1>4. ok \in BOOLEAN
  OBVIOUS
<1> HIDE DEF ok
<1>5. ASSUME NEW b \in Buckets
      PROVE  /\ SameCount(b)
             /\ cells'[b].flushed = IF b = s.bucket /\ ok /\ cells[b].window = s.window
                                    THEN s.current ELSE cells[b].flushed
             /\ cells'[b].billable = cells[b].billable
             /\ cells'[b].dirty <=> \/ cells[b].dirty
                                    \/ b = s.bucket /\ cells[b].window = s.window /\ ~ ok
  <2>1. cells[b] \in Cells
    BY DEF CountTypes
  <2>2. CASE b = s.bucket
    <3>1. cells'[b] = Acknowledged(cells[b], s, ok)
      BY <1>1, <2>2 DEF CountTypes, ok
    <3> QED BY <1>3, <1>4, <2>1, <2>2, <3>1, AcknowledgedCell DEF SameCount
  <2>3. CASE b # s.bucket
    <3>1. cells'[b] = cells[b]
      BY <1>1, <2>3 DEF CountTypes
    <3> QED BY <2>1, <2>3, <3>1 DEF SameCount
  <2> QED BY <2>2, <2>3
<1> QED BY <1>1, <1>2, <1>3, <1>5 DEF ok, Acks

\* A request that settles a bucket: a refund changes no count, and an accrual
\* may begin the window of the request anew.
LEMMA SettleCells ==
  ASSUME TypeInv, CountTypes, AgeInv, NEW r \in Requests, SettleBucket(r)
  PROVE  \A b \in Buckets :
           \/ /\ SameCount(b) /\ cells'[b].flushed = cells[b].flushed
              /\ cells[b].dirty => cells'[b].dirty
              /\ cells'[b].dirty => cells[b].dirty \/ cells[b].window \in Windows
              /\ \/ cells'[b].billable = cells[b].billable
                 \/ /\ cells'[b].billable >= cells[b].billable - 1
                    /\ req[r].job = "refund" /\ cells[b].window = Window(b, req[r].at)
                    /\ b \in req[r].todo /\ b \notin req'[r].todo
           \/ /\ cells'[b] \in Cells /\ cells'[b].requests = 0 /\ cells'[b].flushed["requests"] = 0
              /\ cells'[b].window = Window(b, req[r].at)
              /\ cells[b].window < cells'[b].window
<1>0. PICK a \in req[r].todo :
        /\ cells' = [cells EXCEPT ![a] =
                       IF req[r].job = "refund" THEN Refunded(cells[a], Window(a, req[r].at))
                       ELSE Accrued(Rolled(cells[a], Window(a, req[r].at)), req[r].tokens)]
        /\ req' = [req EXCEPT ![r] = [req[r] EXCEPT !.todo = req[r].todo \ {a},
               !.pc = IF req[r].todo = {a} /\ req[r].held = {} THEN "done" ELSE "closing"]]
  BY DEF SettleBucket
<1>1. /\ cells' = [cells EXCEPT ![a] =
                     IF req[r].job = "refund" THEN Refunded(cells[a], Window(a, req[r].at))
                     ELSE Accrued(Rolled(cells[a], Window(a, req[r].at)), req[r].tokens)]
      /\ req'[r].todo = req[r].todo \ {a}
  BY <1>0 DEF TypeInv, RequestStates
<1> TAKE b \in Buckets
<1> DEFINE w == Window(b, req[r].at)
<1>2. cells[b] \in Cells
  BY DEF CountTypes
<1>3. req[r].tokens \in Nat /\ req[r].at \in Nat /\ req[r].at <= now
  BY DEF TypeInv, RequestStates, Windows, AgeInv
<1>4. w \in Windows
  BY <1>3, WindowType
<1> HIDE DEF w
<1>5. CASE a # b
  <2>1. cells'[b] = cells[b]
    BY <1>1, <1>5 DEF CountTypes
  <2> QED BY <1>2, <2>1 DEF SameCount
<1>6. CASE a = b /\ req[r].job = "refund"
  <2>1. cells'[b] = Refunded(cells[b], w)
    BY <1>1, <1>6 DEF CountTypes, w
  <2>2. /\ SameCount(b) /\ cells'[b].flushed = cells[b].flushed
        /\ cells'[b].dirty <=> cells[b].dirty \/ cells[b].window = w
        /\ cells'[b].billable >= cells[b].billable - 1
        /\ cells[b].window # w => cells'[b] = cells[b]
    BY <1>2, <1>4, <2>1, RefundedCell DEF SameCount
  <2>3. b \in req[r].todo /\ b \notin req'[r].todo
    BY <1>1, <1>6
  <2> QED BY <1>4, <1>6, <2>2, <2>3 DEF w
<1>7. CASE a = b /\ req[r].job # "refund"
  <2>1. cells'[b] = Accrued(Rolled(cells[b], w), req[r].tokens)
    BY <1>1, <1>7 DEF CountTypes, w
  <2>2. Rolled(cells[b], w) \in Cells
    BY <1>2, <1>4, RolledCell
  <2>3. /\ cells'[b] \in Cells /\ cells'[b].window = Rolled(cells[b], w).window
        /\ cells'[b].requests = Rolled(cells[b], w).requests
        /\ cells'[b].billable = Rolled(cells[b], w).billable
        /\ cells'[b].flushed = Rolled(cells[b], w).flushed /\ cells'[b].dirty
    <3> DEFINE c == Rolled(cells[b], w)
    <3>1. c \in Cells /\ cells'[b] = Accrued(c, req[r].tokens)
      BY <2>1, <2>2
    <3> HIDE DEF c
    <3>2. /\ cells'[b] \in Cells /\ cells'[b].window = c.window /\ cells'[b].requests = c.requests
          /\ cells'[b].billable = c.billable /\ cells'[b].flushed = c.flushed /\ cells'[b].dirty
      BY <1>3, <3>1, ChargedCell
    <3> QED BY <3>2 DEF c
  <2>4. CASE Rolled(cells[b], w) = cells[b] /\ w <= cells[b].window
    <3>1. cells[b].window \in Windows
      BY <1>2, <1>4, <2>4 DEF Cells, Windows
    <3> QED BY <2>3, <2>4, <3>1 DEF SameCount
  <2>5. CASE Rolled(cells[b], w) = Fresh(w) /\ cells[b].window < w
    BY <1>4, <2>3, <2>5, FreshCell DEF w
  <2> QED BY <1>2, <1>4, <2>4, <2>5, RolledCell
<1> QED BY <1>5, <1>6, <1>7

\* A charge: each bucket's cell, rolled to the window of the admission, counts
\* one more.
LEMMA ChargeCells ==
  ASSUME TypeInv, CountTypes, AgeInv, NEW r \in Requests, Charge(r), NEW b \in Buckets
  PROVE  /\ b \notin ChargedBuckets(r) => cells'[b] = cells[b]
         /\ b \in ChargedBuckets(r) =>
              LET c == Rolled(cells[b], Window(b, req[r].at)) IN
              /\ c \in Cells /\ cells'[b] \in Cells
              /\ cells'[b].window = c.window /\ cells'[b].requests = c.requests + 1
              /\ cells'[b].billable = c.billable + 1
              /\ cells'[b].flushed = c.flushed /\ cells'[b].dirty
              /\ c.window \in Windows /\ Window(b, req[r].at) <= c.window
              /\ Window(b, req[r].at) \in Windows
              /\ \/ c = cells[b] /\ Window(b, req[r].at) <= cells[b].window
                 \/ c = Fresh(Window(b, req[r].at)) /\ cells[b].window < Window(b, req[r].at)
<1> DEFINE w == Window(b, req[r].at)
<1>1. cells[b] \in Cells
  BY DEF CountTypes
<1>2. req[r].at \in Nat /\ req[r].at <= now
  BY DEF TypeInv, RequestStates, Windows, AgeInv
<1>3. w \in Windows
  BY <1>2, WindowType
<1>4. cells'[b] = IF b \in ChargedBuckets(r) THEN Charged(Rolled(cells[b], w)) ELSE cells[b]
  BY DEF Charge
<1> HIDE DEF w
<1>5. Rolled(cells[b], w) \in Cells
  BY <1>1, <1>3, RolledCell
<1>6. b \in ChargedBuckets(r) =>
        /\ cells'[b] \in Cells
        /\ cells'[b].window = Rolled(cells[b], w).window
        /\ cells'[b].requests = Rolled(cells[b], w).requests + 1
        /\ cells'[b].billable = Rolled(cells[b], w).billable + 1
        /\ cells'[b].flushed = Rolled(cells[b], w).flushed /\ cells'[b].dirty
  BY <1>4, <1>5, ChargedCell
<1> QED BY <1>1, <1>3, <1>4, <1>5, <1>6, RolledCell DEF w

\* A shard is locked, and may be swept.
LEMMA SweepCells ==
  ASSUME CountTypes, NEW r \in Requests, LockShard(r), NEW b \in Buckets
  PROVE  /\ cells'[b] \in Cells
         /\ \/ cells'[b] = cells[b]
            \/ cells'[b] = Absent /\ cells[b].window > 0 /\ cells[b].window + MaxAge <= req[r].at
<1>1. cells'[b] \in {cells[b], Swept(cells[b], req[r].at)}
  BY DEF LockShard
<1>2. cells[b] \in Cells
  BY DEF CountTypes
<1> QED BY <1>1, <1>2, SweptCell

-----------------------------------------------------------------------------
(* What a step does to a flush *)

\* No flush.
LEMMA IdleFlush ==
  Idle \in FlushStates /\ FlushOK(Idle) /\ Idle.pc = "idle" /\ Idle.snaps = {} /\ Idle.ack = {}
<1> DEFINE no == FALSE
<1>1. no \in BOOLEAN
  OBVIOUS
<1>2. Idle = [pc |-> "idle", last |-> no, shards |-> {}, snaps |-> {}, ack |-> {}]
  BY Zenon DEF Idle
<1> HIDE DEF no
<1>3. Idle \in FlushStates /\ Idle.pc = "idle" /\ Idle.snaps = {} /\ Idle.ack = {}
  BY <1>1, <1>2 DEF FlushStates
<1> QED BY <1>3 DEF FlushOK

\* A flush that is over.
LEMMA RestingFlush ==
  ASSUME NEW f
  PROVE  /\ Resting(f) \in FlushStates /\ FlushOK(Resting(f))
         /\ Resting(f).pc \in {"idle", "ended"} /\ Resting(f).snaps = {}
<1> DEFINE p == IF flush[f].last THEN "ended" ELSE "idle"
<1>1. Resting(f) = [Idle EXCEPT !.pc = p] /\ p \in {"idle", "ended"}
  BY DEF Resting
<1> HIDE DEF p
<1>2. /\ Resting(f) \in FlushStates /\ Resting(f).pc = p /\ Resting(f).snaps = {}
      /\ Resting(f).ack = {}
  BY <1>1, IdleFlush DEF FlushStates
<1> QED BY <1>1, <1>2 DEF FlushOK

\* What a flush becomes.
Becomes(f, q) ==
  q \in FlushStates /\ FlushOK(q) /\ flush' = [flush EXCEPT ![f] = q]

\* A flush begins with nothing to write.
LEMMA StartBecomes ==
  ASSUME CountTypes, NEW f \in Flushers, StartFlush(f)
  PROVE  \E q : Becomes(f, q) /\ q.pc = "scan" /\ q.snaps = {} /\ q.shards = Shards
<1> DEFINE l == phase = "draining"
           q == [Idle EXCEPT !.pc = "scan", !.last = l, !.shards = Shards]
<1>1. l \in BOOLEAN
  OBVIOUS
<1>2. flush' = [flush EXCEPT ![f] = q]
  BY DEF StartFlush
<1> HIDE DEF l
<1>3. q \in FlushStates /\ q.pc = "scan" /\ q.snaps = {} /\ q.ack = {} /\ q.shards = Shards
  BY <1>1, IdleFlush DEF FlushStates
<1>4. Shards # {} \/ Buckets = {}
  BY DEF Shards
<1> HIDE DEF q
<1> QED BY <1>2, <1>3, <1>4 DEF Becomes, FlushOK

\* A snapshot of a dirty cell.
LEMMA SnapshotType ==
  ASSUME CountTypes, AgeInv, NEW b \in Buckets, cells[b].dirty
  PROVE  /\ Snapshot(b) \in Snapshots
         /\ Snapshot(b).bucket = b /\ Snapshot(b).window = cells[b].window
         /\ cells[b].window \in Windows
         /\ Snapshot(b).current["requests"] = cells[b].requests
         /\ Snapshot(b).delta["requests"] = cells[b].requests - cells[b].flushed["requests"]
         /\ Snapshot(b).current["billable"] = cells[b].billable
         /\ Snapshot(b).delta["billable"] = cells[b].billable - cells[b].flushed["billable"]
<1> DEFINE c == cells[b]
           now_ == Current(c)
           diff == [k \in Counters |-> c[k] - c.flushed[k]]
<1>1. c \in Cells /\ c.window \in Windows
  BY DEF CountTypes, AgeInv, Cells, Windows
<1>2. now_ \in Amounts /\ now_["requests"] = c.requests /\ now_["billable"] = c.billable
  BY <1>1 DEF Current, Amounts, Counters, Cells
<1>3. diff \in [Counters -> Int] /\ diff["requests"] = c.requests - c.flushed["requests"]
      /\ diff["billable"] = c.billable - c.flushed["billable"]
  BY <1>1 DEF Amounts, Counters, Cells
<1>4. Snapshot(b) = [bucket |-> b, window |-> c.window, current |-> now_, delta |-> diff]
  BY DEF Snapshot
<1> HIDE DEF now_, diff
<1>5. /\ Snapshot(b) \in Snapshots /\ Snapshot(b).bucket = b /\ Snapshot(b).window = c.window
      /\ Snapshot(b).current = now_ /\ Snapshot(b).delta = diff
  BY <1>1, <1>2, <1>3, <1>4 DEF Snapshots
<1> QED BY <1>1, <1>2, <1>3, <1>5

\* A scan adds snapshots of buckets that it has none of yet.
LEMMA ScanBecomes ==
  ASSUME TypeInv, CountTypes, AgeInv, NEW f \in Flushers, FlushOK(flush[f]), ScanShard(f)
  PROVE  \E q : /\ Becomes(f, q) /\ q.pc \notin {"acked", "failed"}
                /\ \A t \in flush[f].shards : t # Least(flush[f].shards) => q.pc = "scan" /\ t \in q.shards
                /\ flush[f].snaps \subseteq q.snaps
                /\ \A b \in Buckets : cells[b].dirty /\ Shard[b] = Least(flush[f].shards) =>
                                         Snapshot(b) \in q.snaps
                /\ \A s \in q.snaps :
                     \/ s \in flush[f].snaps
                     \/ /\ \E b \in Buckets : cells[b].dirty /\ s = Snapshot(b)
                        /\ \A t \in flush[f].snaps : t.bucket # s.bucket
<1> DEFINE z == Least(flush[f].shards)
           dirty == {b \in Buckets : Shard[b] = z /\ cells[b].dirty}
           snaps == flush[f].snaps \cup {Snapshot(b) : b \in dirty}
           left == flush[f].shards \ {z}
           q == IF left # {} THEN [flush[f] EXCEPT !.shards = left, !.snaps = snaps]
                ELSE IF snaps = {} THEN Resting(f)
                ELSE [flush[f] EXCEPT !.pc = "write", !.shards = {}, !.snaps = snaps]
<1>1. flush' = [flush EXCEPT ![f] = q]
  BY DEF ScanShard
<1>2. /\ flush[f] \in FlushStates /\ flush[f].pc = "scan" /\ flush[f].ack = {}
      /\ flush[f].snaps \in SUBSET Snapshots /\ flush[f].shards \in SUBSET Shards
  BY DEF CountTypes, ScanShard, FlushOK, FlushStates
<1>3. Buckets # {} => z \in flush[f].shards
  <2>1. flush[f].shards \in SUBSET Nat
    BY <1>2, ShardsType
  <2>2. Buckets # {} => flush[f].shards # {}
    BY <1>2 DEF FlushOK
  <2> QED BY <2>1, <2>2, LeastIsLeast
<1>4. \A b \in dirty : Snapshot(b) \in Snapshots /\ Snapshot(b).bucket = b
  BY SnapshotType
<1>5. \A b \in dirty : \A t \in flush[f].snaps : t.bucket # b
  BY <1>2, <1>3 DEF FlushOK
<1>6. snaps \in SUBSET Snapshots /\ left \in SUBSET Shards
  BY <1>2, <1>4
<1>7. \A s, t \in snaps : s.bucket = t.bucket => s = t
  BY <1>4, <1>5 DEF FlushOK
<1>8. \A s \in snaps : Shard[s.bucket] \notin left
  BY <1>2, <1>4 DEF FlushOK
<1>9. \A s \in snaps : \/ s \in flush[f].snaps
                       \/ /\ \E b \in Buckets : cells[b].dirty /\ s = Snapshot(b)
                          /\ \A t \in flush[f].snaps : t.bucket # s.bucket
  BY <1>4, <1>5
<1>10. /\ flush[f].snaps \subseteq snaps
       /\ \A b \in Buckets : cells[b].dirty /\ Shard[b] = Least(flush[f].shards) => Snapshot(b) \in snaps
       /\ \A t \in flush[f].shards : t # Least(flush[f].shards) => t \in left
  OBVIOUS
<1> HIDE DEF snaps, left, z, dirty
<1>11. CASE left # {}
  <2> DEFINE p == [flush[f] EXCEPT !.shards = left, !.snaps = snaps]
  <2>1. p \in FlushStates /\ p.pc = "scan" /\ p.ack = {} /\ p.shards = left /\ p.snaps = snaps
    BY <1>2, <1>6 DEF FlushStates
  <2>2. flush' = [flush EXCEPT ![f] = p]
    BY <1>1, <1>11
  <2> HIDE DEF p
  <2>3. FlushOK(p)
    BY <1>7, <1>8, <1>11, <2>1 DEF FlushOK
  <2> QED BY <1>9, <1>10, <2>1, <2>2, <2>3 DEF Becomes
<1>12. CASE left = {} /\ snaps = {}
  <2>1. flush' = [flush EXCEPT ![f] = Resting(f)]
    BY <1>1, <1>12
  <2>2. /\ Becomes(f, Resting(f)) /\ Resting(f).pc \notin {"acked", "failed"}
        /\ Resting(f).snaps = {}
    BY <2>1, RestingFlush DEF Becomes
  <2> QED BY <1>12, <1>10, <2>2
<1>13. CASE left = {} /\ snaps # {}
  <2> DEFINE p == [flush[f] EXCEPT !.pc = "write", !.shards = {}, !.snaps = snaps]
  <2>1. p \in FlushStates /\ p.pc = "write" /\ p.ack = {} /\ p.snaps = snaps
    BY <1>2, <1>6 DEF FlushStates
  <2>2. flush' = [flush EXCEPT ![f] = p]
    BY <1>1, <1>13
  <2> HIDE DEF p
  <2>3. FlushOK(p)
    BY <1>7, <2>1 DEF FlushOK
  <2> QED BY <1>9, <1>13, <1>10, <2>1, <2>2, <2>3 DEF Becomes
<1> QED BY <1>11, <1>12, <1>13

\* A write leaves its snapshot to be acknowledged.
LEMMA WriteBecomes ==
  ASSUME TypeInv, CountTypes, NEW f \in Flushers, FlushOK(flush[f]), WriteUsage(f)
  PROVE  \E q, s : /\ Becomes(f, q) /\ s \in flush[f].snaps /\ s \in Snapshots
                   /\ q.snaps = flush[f].snaps /\ q.ack = {s}
                   /\ \/ /\ q.pc = "acked" /\ trouble' = trouble
                         /\ IF ZeroDelta(s) THEN UNCHANGED durable ELSE AddUsage(s)
                      \/ /\ q.pc = "failed"
                         /\ \E fault \in {"error", "lost"} :
                              /\ trouble' = trouble \cup {fault}
                              /\ IF fault = "lost" THEN AddUsage(s) ELSE UNCHANGED durable
<1>1. PICK s \in flush[f].snaps :
        \/ /\ IF ZeroDelta(s) THEN UNCHANGED durable ELSE AddUsage(s)
           /\ flush' = [flush EXCEPT ![f] = [flush[f] EXCEPT !.pc = "acked", !.ack = {s}]]
           /\ UNCHANGED trouble
        \/ \E fault \in scenario.faults \ (trouble \cap {"lost"}) :
           /\ ~ZeroDelta(s)
           /\ IF fault = "lost" THEN AddUsage(s) ELSE UNCHANGED durable
           /\ flush' = [flush EXCEPT ![f] = [flush[f] EXCEPT !.pc = "failed", !.ack = {s}]]
           /\ trouble' = trouble \cup {fault}
  BY DEF WriteUsage
<1>2. flush[f] \in FlushStates /\ s \in Snapshots
  BY DEF CountTypes, FlushStates
<1>3. ASSUME NEW p \in {"acked", "failed"}
      PROVE  LET q == [flush[f] EXCEPT !.pc = p, !.ack = {s}] IN
             /\ q \in FlushStates /\ FlushOK(q) /\ q.snaps = flush[f].snaps /\ q.ack = {s} /\ q.pc = p
  <2> DEFINE q == [flush[f] EXCEPT !.pc = p, !.ack = {s}]
  <2>1. q \in FlushStates /\ q.snaps = flush[f].snaps /\ q.ack = {s} /\ q.pc = p
    BY <1>2 DEF FlushStates
  <2> HIDE DEF q
  <2>2. FlushOK(q)
    BY <2>1 DEF FlushOK
  <2> QED BY <2>1, <2>2 DEF q
<1>4. scenario.faults \in SUBSET {"error", "lost"}
  BY LedgerAssumption DEF TypeInv
<1>5. CASE /\ IF ZeroDelta(s) THEN UNCHANGED durable ELSE AddUsage(s)
           /\ flush' = [flush EXCEPT ![f] = [flush[f] EXCEPT !.pc = "acked", !.ack = {s}]]
           /\ UNCHANGED trouble
  <2> DEFINE q == [flush[f] EXCEPT !.pc = "acked", !.ack = {s}]
  <2>1. Becomes(f, q) /\ q.snaps = flush[f].snaps /\ q.ack = {s} /\ q.pc = "acked"
    BY <1>3, <1>5 DEF Becomes
  <2> HIDE DEF q
  <2> QED BY <1>2, <1>5, <2>1
<1>6. ASSUME NEW fault \in scenario.faults,
             IF fault = "lost" THEN AddUsage(s) ELSE UNCHANGED durable,
             flush' = [flush EXCEPT ![f] = [flush[f] EXCEPT !.pc = "failed", !.ack = {s}]],
             trouble' = trouble \cup {fault}
      PROVE  \E q : /\ Becomes(f, q) /\ q.snaps = flush[f].snaps /\ q.ack = {s} /\ q.pc = "failed"
                    /\ \E e \in {"error", "lost"} :
                         /\ trouble' = trouble \cup {e}
                         /\ IF e = "lost" THEN AddUsage(s) ELSE UNCHANGED durable
  <2> DEFINE q == [flush[f] EXCEPT !.pc = "failed", !.ack = {s}]
  <2>1. Becomes(f, q) /\ q.snaps = flush[f].snaps /\ q.ack = {s} /\ q.pc = "failed"
    BY <1>3, <1>6 DEF Becomes
  <2> HIDE DEF q
  <2> QED BY <1>4, <1>6, <2>1
<1> QED BY <1>1, <1>2, <1>5, <1>6

\* An acknowledgement takes its snapshot off the list.
LEMMA AcknowledgeBecomes ==
  ASSUME CountTypes, NEW f \in Flushers, FlushOK(flush[f]), flush[f].pc \in {"acked", "failed"},
         NEW s \in flush[f].snaps,
         flush' = [flush EXCEPT ![f] =
           IF flush[f].snaps = {s} THEN Resting(f)
           ELSE [flush[f] EXCEPT !.pc = "write", !.snaps = flush[f].snaps \ {s}, !.ack = {}]]
  PROVE  \E q : /\ Becomes(f, q) /\ q.pc \notin {"acked", "failed"}
                /\ q.snaps = flush[f].snaps \ {s}
<1>1. flush[f] \in FlushStates /\ flush[f].snaps \in SUBSET Snapshots
  BY DEF CountTypes, FlushStates
<1>2. CASE flush[f].snaps = {s}
  <2>1. /\ Becomes(f, Resting(f)) /\ Resting(f).pc \notin {"acked", "failed"}
        /\ Resting(f).snaps = flush[f].snaps \ {s}
    BY <1>2, RestingFlush DEF Becomes
  <2> QED BY <2>1
<1>3. CASE flush[f].snaps # {s}
  <2> DEFINE left == flush[f].snaps \ {s}
  <2>1. left \in SUBSET Snapshots /\ left \in SUBSET flush[f].snaps
    BY <1>1
  <2> HIDE DEF left
  <2> DEFINE q == [flush[f] EXCEPT !.pc = "write", !.snaps = left, !.ack = {}]
  <2>2. q \in FlushStates /\ q.pc = "write" /\ q.snaps = left /\ q.ack = {}
    BY <1>1, <2>1 DEF FlushStates
  <2>3. flush' = [flush EXCEPT ![f] = q]
    BY <1>3 DEF left
  <2> HIDE DEF q
  <2>4. FlushOK(q)
    BY <2>1, <2>2 DEF FlushOK
  <2> QED BY <2>2, <2>3, <2>4 DEF Becomes, left
<1> QED BY <1>2, <1>3

\* The store adds to one record.
LEMMA AddUsageStore ==
  ASSUME CountTypes, NEW s \in Snapshots, AddUsage(s)
  PROVE  /\ durable' \in [Buckets -> [Windows -> Amounts]]
         /\ \A b \in Buckets : \A w \in Windows :
              /\ durable'[b][w].requests =
                   IF b = s.bucket /\ w = s.window
                   THEN Floor(durable[b][w].requests + s.delta["requests"]) ELSE durable[b][w].requests
              /\ durable'[b][w].billable =
                   IF b = s.bucket /\ w = s.window
                   THEN Floor(durable[b][w].billable + s.delta["billable"]) ELSE durable[b][w].billable
<1> DEFINE d == durable[s.bucket][s.window]
           sum == [k \in Counters |-> Floor(d[k] + s.delta[k])]
<1>1. s.bucket \in Buckets /\ s.window \in Windows /\ s.delta \in [Counters -> Int]
  BY DEF Snapshots
<1>2. d \in Amounts
  BY <1>1 DEF CountTypes
<1>3. sum \in Amounts
  BY <1>1, <1>2 DEF Amounts, Floor
<1>4. /\ sum["requests"] = Floor(d.requests + s.delta["requests"])
      /\ sum["billable"] = Floor(d.billable + s.delta["billable"])
  BY DEF Counters
<1>5. durable' = [durable EXCEPT ![s.bucket][s.window] = sum]
  BY DEF AddUsage
<1> HIDE DEF sum
<1>6. durable' \in [Buckets -> [Windows -> Amounts]]
  BY <1>1, <1>3, <1>5 DEF CountTypes
<1>7. ASSUME NEW b \in Buckets, NEW w \in Windows
      PROVE  durable'[b][w] = IF b = s.bucket /\ w = s.window THEN sum ELSE durable[b][w]
  BY <1>1, <1>5 DEF CountTypes
<1> QED BY <1>4, <1>6, <1>7

-----------------------------------------------------------------------------
(* The kinds of steps *)

\* A step that touches neither the cells, nor the store, nor a flush.
Quiet ==
  /\ UNCHANGED <<cells, durable, landed, flush, forgotten>>
  /\ \/ UNCHANGED <<phase, trouble>>
     \/ phase = "up" /\ phase' = "draining" /\ trouble' = trouble \cup {"graceful"}

FlushWork(f) == StartFlush(f) \/ ScanShard(f) \/ WriteUsage(f) \/ Acknowledge(f)

\* Every step is of one of these kinds.
LEMMA CountSteps ==
  ASSUME [Next]_vars
  PROVE  \/ Quiet
         \/ \E r \in Requests : LockShard(r) \/ Charge(r) \/ SettleBucket(r)
         \/ \E f \in Flushers : FlushWork(f)
         \/ Die /\ phase # "down"
         \/ Boot
<1>1. ASSUME NEW r \in Requests,
             \/ Arrive(r) \/ TakeGauge(r) \/ GaugeFull(r) \/ Blocked(r)
             \/ Fail(r) \/ Serve(r) \/ ReleaseGauge(r)
      PROVE  Quiet
  BY <1>1 DEF Quiet, Arrive, TakeGauge, GaugeFull, Blocked, Fail, Serve, ReleaseGauge, process, ledger
<1>2. CASE UNCHANGED vars
  BY <1>2 DEF Quiet, vars
<1>3. CASE Tick \/ Shutdown
  BY <1>3 DEF Quiet, Tick, Shutdown, ledger
<1>4. CASE Exit \/ Crash
  BY <1>4 DEF Exit, Crash, MayExit
<1> QED BY <1>1, <1>2, <1>3, <1>4 DEF Next, Admit, Settle, FlushStep, FlushWork

\* What the steps other than a stop and a boot leave alone.
LEMMA CountFrames ==
  /\ \A r \in Requests : LockShard(r) \/ SettleBucket(r) =>
       UNCHANGED <<now, durable, landed, flush, forgotten, phase, trouble>>
  /\ \A r \in Requests : Charge(r) => UNCHANGED <<now, durable, flush, forgotten, phase, trouble>>
  /\ \A f \in Flushers : FlushWork(f) => UNCHANGED <<now, req, landed, forgotten, phase>>
  /\ \A f \in Flushers : StartFlush(f) => UNCHANGED <<cells, durable, trouble>>
  /\ \A f \in Flushers : ScanShard(f) \/ Acknowledge(f) => UNCHANGED <<durable, trouble>>
  /\ \A f \in Flushers : WriteUsage(f) => UNCHANGED cells
  /\ Boot => UNCHANGED <<now, req, durable, landed, flush, forgotten, trouble>>
  /\ Die => UNCHANGED <<now, durable, landed, trouble>>
BY DEF LockShard, SettleBucket, Charge, FlushWork, StartFlush, ScanShard, WriteUsage, Acknowledge,
       Boot, Die, process, ledger

\* Where the charges of a request land.
LEMMA ChargeLands ==
  ASSUME CountTypes, NEW r \in Requests, Charge(r)
  PROVE  /\ \A x \in Requests : \A b \in Buckets :
              landed'[x][b] = IF x = r /\ b \in ChargedBuckets(r) THEN cells'[b].window ELSE landed[x][b]
         /\ (\A b \in ChargedBuckets(r) : cells'[b].window \in Windows) =>
              landed' \in [Requests -> [Buckets -> Windows \cup {-1}]]
<1> DEFINE row == [b \in Buckets |->
                     IF b \in ChargedBuckets(r) THEN cells'[b].window ELSE landed[r][b]]
<1>1. landed' = [landed EXCEPT ![r] = row]
  BY DEF Charge
<1>2. \A b \in Buckets : row[b] = IF b \in ChargedBuckets(r) THEN cells'[b].window ELSE landed[r][b]
  OBVIOUS
<1>3. (\A b \in ChargedBuckets(r) : cells'[b].window \in Windows) => row \in [Buckets -> Windows \cup {-1}]
  BY DEF CountTypes
<1> HIDE DEF row
<1>4. \A x \in Requests : landed'[x] = IF x = r THEN row ELSE landed[x]
  BY <1>1 DEF CountTypes
<1> QED BY <1>1, <1>2, <1>3, <1>4 DEF CountTypes

\* The cells stay cells, of no window that has not begun.
LEMMA CellsFit ==
  ASSUME TypeInv, CountTypes, AgeInv, FlushInv, [Next]_vars
  PROVE  /\ cells' \in [Buckets -> Cells]
         /\ \A b \in Buckets : /\ cells'[b].window <= Window(b, now)
                               /\ cells'[b].dirty => cells'[b].window >= 0
<1> DEFINE Fits(b) == /\ cells'[b] \in Cells /\ cells'[b].window <= Window(b, now)
                      /\ cells'[b].dirty => cells'[b].window >= 0
<1>0. now \in Nat /\ \A b \in Buckets : Window(b, now) \in Nat
  <2>1. now \in Nat
    BY LedgerAssumption DEF TypeInv
  <2> QED BY <2>1, WindowBounds
<1>1. ASSUME NEW b \in Buckets, SameCount(b), cells'[b].dirty => cells[b].dirty \/ cells[b].window \in Windows
      PROVE  Fits(b)
  BY <1>1 DEF SameCount, AgeInv, Windows
<1>3. CASE cells' = cells
  BY <1>3 DEF CountTypes, AgeInv
<1>4. ASSUME NEW r \in Requests, LockShard(r), NEW b \in Buckets PROVE Fits(b)
  <2>1. cells'[b] \in Cells /\ (cells'[b] = cells[b] \/ cells'[b] = Absent)
    BY <1>4, SweepCells
  <2> QED BY <1>0, <2>1, AbsentCell DEF AgeInv
<1>5. ASSUME NEW r \in Requests, Charge(r), NEW b \in Buckets PROVE Fits(b)
  <2> DEFINE c == Rolled(cells[b], Window(b, req[r].at))
  <2>1. req[r].at \in Nat /\ req[r].at <= now
    BY DEF TypeInv, RequestStates, Windows, AgeInv
  <2>2. Window(b, req[r].at) <= Window(b, now) /\ Window(b, req[r].at) \in Windows
    BY <1>0, <2>1, WindowMonotone, WindowType
  <2>3. CASE b \notin ChargedBuckets(r)
    <3>1. cells'[b] = cells[b]
      BY <1>5, <2>3, ChargeCells
    <3> QED BY <3>1 DEF CountTypes, AgeInv
  <2>4. CASE b \in ChargedBuckets(r)
    <3>1. /\ cells'[b] \in Cells /\ cells'[b].window = c.window /\ c.window \in Windows
          /\ c = cells[b] \/ c = Fresh(Window(b, req[r].at))
      BY <1>5, <2>4, ChargeCells
    <3>2. c.window <= Window(b, now)
      BY <2>2, <3>1, FreshCell DEF AgeInv
    <3> HIDE DEF c
    <3> QED BY <3>1, <3>2 DEF Windows
  <2> QED BY <2>3, <2>4
<1>6. ASSUME NEW r \in Requests, SettleBucket(r), NEW b \in Buckets PROVE Fits(b)
  <2>1. req[r].at \in Nat /\ req[r].at <= now
    BY DEF TypeInv, RequestStates, Windows, AgeInv
  <2>2. Window(b, req[r].at) <= Window(b, now) /\ Window(b, req[r].at) \in Windows
    BY <1>0, <2>1, WindowMonotone, WindowType
  <2> QED BY <1>1, <1>6, <2>2, SettleCells DEF Windows
<1>7. ASSUME NEW f \in Flushers, ScanShard(f), NEW b \in Buckets PROVE Fits(b)
  BY <1>1, <1>7, ScanCells
<1>8. ASSUME NEW f \in Flushers, Acknowledge(f), NEW b \in Buckets PROVE Fits(b)
  <2>1. FlushOK(flush[f])
    BY DEF FlushInv
  <2>a. PICK s \in flush[f].snaps : Acks(f, s)
    BY <1>8, <2>1, AcknowledgeCells
  <2>2. /\ s \in Snapshots
        /\ SameCount(b)
        /\ cells'[b].dirty => cells[b].dirty \/ (b = s.bucket /\ cells[b].window = s.window)
    BY <2>a DEF Acks
  <2>3. s.window \in Windows
    BY <2>2 DEF Snapshots
  <2> QED BY <1>1, <2>2, <2>3
<1>9. ASSUME Die, NEW b \in Buckets PROVE Fits(b)
  <2>1. cells'[b] = Absent
    BY <1>9 DEF Die
  <2> QED BY <1>0, <2>1, AbsentCell
<1>10. ASSUME Boot, NEW b \in Buckets PROVE Fits(b)
  <2>1. cells'[b] = Hydrated(b)
    BY <1>10 DEF Boot
  <2> QED BY <1>0, <2>1, HydratedCell
<1>11. \/ cells' = cells
       \/ \A b \in Buckets : Fits(b)
  <2> HIDE DEF Fits
  <2>1. CASE \E r \in Requests : LockShard(r) \/ Charge(r) \/ SettleBucket(r)
    BY <2>1, <1>4, <1>5, <1>6
  <2>2. CASE \E f \in Flushers : FlushWork(f)
    <3>1. \A f \in Flushers : StartFlush(f) \/ WriteUsage(f) => cells' = cells
      BY CountFrames
    <3> QED BY <2>2, <3>1, <1>7, <1>8 DEF FlushWork
  <2>3. CASE Die \/ Boot
    BY <2>3, <1>9, <1>10
  <2>4. CASE Quiet
    BY <2>4 DEF Quiet
  <2> QED BY <2>1, <2>2, <2>3, <2>4, CountSteps
<1>12. cells' = cells \/ cells' = [b \in Buckets |-> cells'[b]]
  <2>1. \A b, v : [cells EXCEPT ![b] = v] = [x \in Buckets |-> [cells EXCEPT ![b] = v][x]]
    BY DEF CountTypes
  <2> QED BY <2>1, CountSteps, CountFrames
          DEF Quiet, FlushWork, LockShard, Charge, SettleBucket, ScanShard, Acknowledge, Die, Boot
<1> QED BY <1>3, <1>11, <1>12

\* What a step of a flush leads to.
LEMMA FlushWorks ==
  ASSUME TypeInv, CountTypes, AgeInv, FlushInv, NEW f \in Flushers, FlushWork(f)
  PROVE  /\ \E q : Becomes(f, q)
         /\ durable' \in [Buckets -> [Windows -> Amounts]]
         /\ trouble' \in SUBSET {"error", "lost", "graceful"} /\ trouble \subseteq trouble'
         /\ phase # "down"
         /\ f = "main" => "graceful" \in trouble
<1>1. FlushOK(flush[f]) /\ flush[f] \in FlushStates
  BY DEF FlushInv, CountTypes
<1>2. phase # "down"
  BY DEF FlushInv, FlushWork, StartFlush, MayFlush, ScanShard, WriteUsage, Acknowledge
<1>3. f = "main" => "graceful" \in trouble
  BY DEF FlushInv, FlushWork, StartFlush, MayFlush, ScanShard, WriteUsage, Acknowledge
<1>4. CASE StartFlush(f)
  BY <1>2, <1>3, <1>4, StartBecomes, CountFrames DEF CountTypes
<1>5. CASE ScanShard(f)
  BY <1>1, <1>2, <1>3, <1>5, ScanBecomes, CountFrames DEF CountTypes
<1>6. CASE WriteUsage(f)
  <2>1. PICK q, s : /\ Becomes(f, q) /\ s \in Snapshots
                    /\ \/ trouble' = trouble
                       \/ \E fault \in {"error", "lost"} : trouble' = trouble \cup {fault}
                    /\ UNCHANGED durable \/ AddUsage(s)
    <3>1. PICK q, s : /\ Becomes(f, q) /\ s \in flush[f].snaps /\ s \in Snapshots
                      /\ q.snaps = flush[f].snaps /\ q.ack = {s}
                      /\ \/ /\ q.pc = "acked" /\ trouble' = trouble
                            /\ IF ZeroDelta(s) THEN UNCHANGED durable ELSE AddUsage(s)
                         \/ /\ q.pc = "failed"
                            /\ \E fault \in {"error", "lost"} :
                                 /\ trouble' = trouble \cup {fault}
                                 /\ IF fault = "lost" THEN AddUsage(s) ELSE UNCHANGED durable
      BY <1>1, <1>6, WriteBecomes
    <3> QED BY <3>1
  <2>2. durable' \in [Buckets -> [Windows -> Amounts]]
    BY <2>1, AddUsageStore DEF CountTypes
  <2>3. trouble' \in SUBSET {"error", "lost", "graceful"} /\ trouble \subseteq trouble'
    BY <2>1 DEF CountTypes
  <2> QED BY <1>2, <1>3, <2>1, <2>2, <2>3
<1>7. CASE Acknowledge(f)
  <2>a. PICK s \in flush[f].snaps : Acks(f, s)
    BY <1>1, <1>7, AcknowledgeCells
  <2>1. flush' = [flush EXCEPT ![f] =
          IF flush[f].snaps = {s} THEN Resting(f)
          ELSE [flush[f] EXCEPT !.pc = "write", !.snaps = flush[f].snaps \ {s}, !.ack = {}]]
    BY <2>a DEF Acks
  <2>2. \E q : Becomes(f, q)
    BY <1>1, <1>7, <2>1, AcknowledgeBecomes DEF Acknowledge
  <2> QED BY <1>2, <1>3, <1>7, <2>2, CountFrames DEF CountTypes
<1> QED BY <1>4, <1>5, <1>6, <1>7 DEF FlushWork

\* Nothing moves while the process is down.
LEMMA DownIsStill ==
  ASSUME FlushInv, phase = "down", [Next]_vars
  PROVE  req' = req /\ flush' = flush
<1>1. \A r \in Requests : ~ (Arrive(r) \/ Admit(r) \/ Settle(r))
  BY DEF FlushInv, Settled, Arrive, Admit, Settle, TakeGauge, GaugeFull, LockShard, Charge, Blocked,
         Fail, Serve, SettleBucket, ReleaseGauge
<1>2. \A f \in Flushers : ~ (StartFlush(f) \/ FlushStep(f))
  BY DEF FlushInv, StartFlush, MayFlush, FlushStep, ScanShard, WriteUsage, Acknowledge
<1>3. ~ Exit /\ ~ Crash /\ ~ Shutdown
  BY DEF Exit, MayExit, Crash, Shutdown
<1> QED BY <1>1, <1>2, <1>3 DEF Next, Tick, Boot, vars

\* The flushes stay in order.
LEMMA FlushInvStep ==
  ASSUME TypeInv, CountTypes, AgeInv, FlushInv, [Next]_vars
  PROVE  /\ flush' \in [Flushers -> FlushStates]
         /\ trouble' \in SUBSET {"error", "lost", "graceful"} /\ trouble \subseteq trouble'
         /\ phase' \in {"up", "draining", "down"}
         /\ FlushInv'
<1>1. CASE Quiet
  <2>1. flush' = flush
    BY <1>1 DEF Quiet
  <2>2. phase' = "down" => phase = "down" /\ req' = req
    BY <1>1, DownIsStill DEF Quiet
  <2>3. trouble \subseteq trouble' /\ trouble' \in SUBSET {"error", "lost", "graceful"}
    BY <1>1 DEF Quiet, CountTypes
  <2>4. phase' = "draining" => phase = "draining" \/ "graceful" \in trouble'
    BY <1>1 DEF Quiet
  <2>5. phase' \in {"up", "draining", "down"}
    BY <1>1 DEF Quiet, CountTypes
  <2> QED BY <2>1, <2>2, <2>3, <2>4, <2>5 DEF FlushInv, FlushOK, CountTypes
<1>2. CASE \E r \in Requests : LockShard(r) \/ Charge(r) \/ SettleBucket(r)
  <2>1. UNCHANGED <<flush, phase, trouble>>
    BY <1>2, CountFrames
  <2>2. phase = "down" => req' = req
    BY DownIsStill
  <2> QED BY <2>1, <2>2 DEF FlushInv, FlushOK, CountTypes
<1>3. ASSUME NEW f \in Flushers, FlushWork(f)
      PROVE  /\ flush' \in [Flushers -> FlushStates] /\ FlushInv'
             /\ trouble' \in SUBSET {"error", "lost", "graceful"} /\ trouble \subseteq trouble'
             /\ phase' \in {"up", "draining", "down"}
  <2>1. PICK q : q \in FlushStates /\ FlushOK(q) /\ flush' = [flush EXCEPT ![f] = q]
    BY <1>3, FlushWorks DEF Becomes
  <2>2. \A x \in Flushers : flush'[x] = IF x = f THEN q ELSE flush[x]
    BY <2>1 DEF CountTypes
  <2>3. phase' = phase /\ phase # "down" /\ trouble \subseteq trouble'
        /\ (f = "main" => "graceful" \in trouble)
    BY <1>3, FlushWorks, CountFrames
  <2>4. \A x \in Flushers : FlushOK(flush'[x])
    BY <2>1, <2>2 DEF FlushInv
  <2>5. phase' = "draining" \/ flush'["main"].pc # "idle" => "graceful" \in trouble'
    BY <2>2, <2>3 DEF FlushInv, Flushers
  <2>6. FlushInv'
    BY <2>3, <2>4, <2>5 DEF FlushInv, FlushOK
  <2> QED BY <1>3, <2>1, <2>3, <2>6, FlushWorks DEF CountTypes
<1>4. CASE Die
  <2>1. \A f \in Flushers : flush'[f] = Idle
    BY <1>4 DEF Die
  <2>2. \A r \in Requests : req'[r].pc \in Settled
    <3> TAKE r \in Requests
    <3>1. CASE req[r].pc \in Settled
      BY <1>4, <3>1 DEF Die
    <3>2. CASE req[r].pc \notin Settled
      <4>1. req'[r] = [req[r] EXCEPT !.pc = "dead", !.held = {}, !.todo = {}]
        BY <1>4, <3>2 DEF Die
      <4>2. req'[r].pc = "dead"
        BY <4>1 DEF TypeInv, RequestStates
      <4> QED BY <4>2 DEF Settled
    <3> QED BY <3>1, <3>2
  <2>3. phase' = "down" /\ trouble' = trouble /\ flush' \in [Flushers -> FlushStates]
    BY <1>4, IdleFlush DEF Die
  <2>4. \A f \in Flushers : FlushOK(flush'[f]) /\ flush'[f].pc = "idle"
    BY <2>1, IdleFlush
  <2>5. FlushInv'
    BY <2>2, <2>3, <2>4 DEF FlushInv, FlushOK, Flushers
  <2> QED BY <2>3, <2>5 DEF CountTypes
<1>5. CASE Boot
  <2>1. UNCHANGED <<flush, trouble>> /\ phase' = "up"
    BY <1>5, CountFrames DEF Boot
  <2> QED BY <2>1 DEF FlushInv, FlushOK, CountTypes
<1> QED BY <1>1, <1>2, <1>3, <1>4, <1>5, CountSteps

\* The types of the ledger hold on.
LEMMA CountTypesStep ==
  ASSUME TypeInv, CountTypes, AgeInv, FlushInv, [Next]_vars
  PROVE  CountTypes'
<1>1. durable' \in [Buckets -> [Windows -> Amounts]]
  BY CountSteps, CountFrames, FlushWorks DEF Quiet, CountTypes
<1>2. landed' \in [Requests -> [Buckets -> Windows \cup {-1}]]
  <2>1. ASSUME NEW r \in Requests, Charge(r)
        PROVE  landed' \in [Requests -> [Buckets -> Windows \cup {-1}]]
    <3>1. ASSUME NEW b \in ChargedBuckets(r) PROVE cells'[b].window \in Windows
      BY <2>1, <3>1, ChargedBucketsType, ChargeCells
    <3> QED BY <2>1, <3>1, ChargeLands
  <2> QED BY <2>1, CountSteps, CountFrames DEF Quiet, CountTypes
<1>3. forgotten' \in [Buckets -> [Windows -> Nat]]
  <2>1. ASSUME Die PROVE forgotten' \in [Buckets -> [Windows -> Nat]]
    <3>1. \A b \in Buckets : \A w \in Windows :
            Larger(forgotten[b][w], Count(b, w) - durable[b][w].requests) \in Nat
      <4> TAKE b \in Buckets
      <4> TAKE w \in Windows
      <4>1. forgotten[b][w] \in Nat /\ durable[b][w].requests \in Nat /\ Count(b, w) \in Nat
        <5>1. Count(b, w) \in Nat
          BY LedgerAssumption, FS_Subset, FS_CardinalityType DEF Count
        <5>2. durable[b][w] \in Amounts
          BY DEF CountTypes
        <5> QED BY <5>1, <5>2 DEF CountTypes, Amounts, Counters
      <4> QED BY <4>1 DEF Larger
    <3> QED BY <2>1, <3>1 DEF Die
  <2> QED BY <2>1, CountSteps, CountFrames DEF Quiet, CountTypes
<1> QED BY <1>1, <1>2, <1>3, CellsFit, FlushInvStep DEF CountTypes

\* Nothing lands beyond the clock, and no admission falls behind it.
LEMMA AgeInvStep ==
  ASSUME TypeInv, HeldInv, CountTypes, AgeInv, FlushInv, [Next]_vars
  PROVE  AgeInv'
<1>0. TypeInv'
  BY TypeHeldStep
<1>1. /\ now \in Nat /\ now' \in Nat /\ now <= now'
      /\ \A r \in Requests : Advances(r)
      /\ \A r \in Requests : req[r].pc = "new" /\ req'[r].pc # "new" => now' = now
      /\ now' # now => \A r \in Requests : req[r].pc \in Admission => now < req[r].at + MaxLag
      /\ now' # now => now' = now + 1 /\ req' = req
  BY TimeStep
<1>2. \A b \in Buckets : Window(b, now) <= Window(b, now') /\ Window(b, now) \in Nat
                         /\ Window(b, now') \in Nat
  BY <1>1, WindowMonotone, WindowBounds
<1>3. MaxLag \in Nat
  BY LedgerAssumption
<1>4. \A b \in Buckets : /\ cells'[b].window <= Window(b, now')
                         /\ cells'[b].dirty => cells'[b].window >= 0
  <2>1. \A b \in Buckets : cells'[b].window \in Int
    BY CellsFit DEF Cells, Windows
  <2> QED BY <1>2, <2>1, CellsFit
<1>5. ASSUME NEW r \in Requests
      PROVE  /\ req'[r].at <= now'
             /\ req'[r].pc \in Admission => now' <= req'[r].at + MaxLag
  <2>1. req[r].at \in Nat /\ req'[r].at \in Nat
    BY <1>0 DEF TypeInv, RequestStates, Windows
  <2>2. req[r].at <= now /\ (req[r].pc \in Admission => now <= req[r].at + MaxLag)
    BY DEF AgeInv
  <2>3. Advances(r)
    BY <1>1
  <2>4. req'[r].at <= now'
    BY <1>1, <2>1, <2>2, <2>3 DEF Advances
  <2>5. ASSUME req'[r].pc \in Admission PROVE now' <= req'[r].at + MaxLag
    <3>1. CASE req[r].pc \in Admission /\ req'[r].at = req[r].at
      <4>1. CASE now' = now
        BY <2>2, <3>1, <4>1
      <4>2. CASE now' # now
        BY <1>1, <1>3, <2>1, <3>1, <4>2
      <4> QED BY <4>1, <4>2
    <3>2. CASE req[r].pc = "new" /\ req'[r].at = now
      <4>1. now' = now
        BY <1>1, <2>5, <3>2 DEF Admission
      <4> QED BY <1>1, <1>3, <3>2, <4>1
    <3> QED BY <2>3, <2>5, <3>1, <3>2 DEF Advances
  <2> QED BY <2>4, <2>5
<1>6. ASSUME NEW r \in Requests, NEW b \in Buckets
      PROVE  /\ landed'[r][b] <= Window(b, now')
             /\ req'[r].pc \in Admission \cup {"new"} => landed'[r][b] = -1
  <2>1. landed[r][b] \in Int /\ landed[r][b] <= Window(b, now)
    BY DEF CountTypes, AgeInv, Windows
  <2>2. req'[r].pc \in Admission \cup {"new"} => landed[r][b] = -1
    BY <1>1 DEF Advances, AgeInv
  <2>3. ASSUME NEW x \in Requests, Charge(x)
        PROVE  landed'[r][b] = landed[r][b] \/ (r = x /\ landed'[r][b] = cells'[b].window)
    BY <2>3, ChargeLands
  <2>4. ASSUME Charge(r) PROVE req'[r].pc = "flight"
    <3>1. req' = [req EXCEPT ![r].pc = "flight"]
      BY <2>4 DEF Charge
    <3> QED BY <3>1 DEF TypeInv, RequestStates
  <2>5. \/ landed'[r][b] = landed[r][b]
        \/ landed'[r][b] = cells'[b].window /\ req'[r].pc = "flight"
    BY <2>3, <2>4, CountSteps, CountFrames DEF Quiet
  <2>6. cells'[b].window <= Window(b, now')
    BY <1>4
  <2>7. CASE landed'[r][b] = landed[r][b]
    BY <1>2, <2>1, <2>2, <2>7
  <2>8. CASE landed'[r][b] = cells'[b].window /\ req'[r].pc = "flight"
    BY <2>6, <2>8 DEF Admission
  <2> QED BY <2>5, <2>7, <2>8
<1> QED BY <1>4, <1>5, <1>6 DEF AgeInv

-----------------------------------------------------------------------------
(* Counting the charges of a window *)

\* The number of charges is a number.
LEMMA CountType ==
  ASSUME NEW b, NEW w
  PROVE  /\ Count(b, w) \in Nat
         /\ (\A r \in Requests : landed[r][b] # w) => Count(b, w) = 0
<1> DEFINE S == {r \in Requests : landed[r][b] = w}
<1>1. IsFiniteSet(S)
  BY LedgerAssumption, FS_Subset
<1>2. (\A r \in Requests : landed[r][b] # w) => S = {}
  OBVIOUS
<1> HIDE DEF S
<1>3. Cardinality(S) \in Nat /\ (S = {} => Cardinality(S) = 0)
  BY <1>1, FS_CardinalityType, FS_EmptySet
<1>4. Count(b, w) = Cardinality(S)
  BY DEF Count, S
<1> QED BY <1>2, <1>3, <1>4

\* A charge is counted in the window of the cell it is charged to, once.
LEMMA ChargeCounts ==
  ASSUME TypeInv, CountTypes, AgeInv, NEW r \in Requests, Charge(r), NEW b \in Buckets, NEW w \in Windows
  PROVE  Count(b, w)' = IF b \in ChargedBuckets(r) /\ cells'[b].window = w
                        THEN Count(b, w) + 1 ELSE Count(b, w)
<1> DEFINE S == {x \in Requests : landed[x][b] = w}
           T == {x \in Requests : landed'[x][b] = w}
<1>1. landed[r][b] = -1 /\ w # -1
  BY DEF Charge, AgeInv, Admission, Windows
<1>2. \A x \in Requests :
        landed'[x][b] = IF x = r /\ b \in ChargedBuckets(r) THEN cells'[b].window ELSE landed[x][b]
  BY ChargeLands
<1>3. IsFiniteSet(S) /\ r \notin S
  BY <1>1, LedgerAssumption, FS_Subset
<1>4. b \in ChargedBuckets(r) /\ cells'[b].window = w => T = S \cup {r}
  BY <1>2
<1>5. ~ (b \in ChargedBuckets(r) /\ cells'[b].window = w) => T = S
  BY <1>1, <1>2
<1> HIDE DEF S, T
<1>6. Cardinality(S \cup {r}) = Cardinality(S) + 1
  BY <1>3, FS_AddElement
<1>7. Count(b, w) = Cardinality(S) /\ Count(b, w)' = Cardinality(T)
  BY DEF Count, S, T
<1> QED BY <1>4, <1>5, <1>6, <1>7

\* What the check of an admission reads of a bucket that it charges.
LEMMA CheckReads ==
  ASSUME TypeInv, CountTypes, NEW r \in Requests, Charge(r), NEW b \in ChargedBuckets(r),
         Limit[b].requests # None
  PROVE  Rolled(cells[b], Window(b, req[r].at)).requests + 1 <= Limit[b].requests
<1> DEFINE c == Rolled(cells[b], Window(b, req[r].at))
           l == Limit[b]
<1>1. PICK i \in Applying(r) : Chain[r][i] = b
  BY DEF ChargedBuckets
<1>2. Metric(b, req[r].at) = "none"
  BY <1>1 DEF Charge, BlockedAt
<1>3. Metric(b, req[r].at) =
        CASE l.requests # None /\ c.requests + 1 > l.requests -> "requests"
          [] l.tokens # None /\ c.tokens >= l.tokens -> "tokens"
          [] l.budget # None /\ (Spend(c) >= l.budget \/ Spend(c) + Fee > l.budget) -> "budget"
          [] OTHER -> "none"
  BY DEF Metric
<1>4. b \in Buckets
  BY ChargedBucketsType
<1>5. l.requests \in Nat
  BY <1>4, LimitTypes
<1>6. c.requests \in Nat
  <2>1. cells[b] \in Cells /\ c \in {cells[b], Fresh(Window(b, req[r].at))}
    BY <1>4 DEF CountTypes, Rolled
  <2>2. Fresh(Window(b, req[r].at)).requests = 0
    BY DEF Fresh
  <2> QED BY <2>1, <2>2 DEF Cells
<1> HIDE DEF c, l
<1>7. ~ (c.requests + 1 > l.requests)
  <2> SUFFICES ASSUME c.requests + 1 > l.requests PROVE FALSE
    OBVIOUS
  <2>1. l.requests # None
    BY DEF l
  <2> QED BY <1>2, <1>3, <2>1
<1> QED BY <1>5, <1>6, <1>7 DEF c, l

-----------------------------------------------------------------------------
(* The cap on the requests of a window *)

\* The types of the numbers that cover a window.
LEMMA CoverTypes ==
  ASSUME CountTypes, NEW b \in Buckets, NEW w \in Windows
  PROVE  /\ forgotten[b][w] \in Nat /\ durable[b][w].requests \in Nat /\ Count(b, w) \in Nat
         /\ cells[b].window \in Int /\ cells[b].requests \in Nat /\ w \in Nat
         /\ CellCount(b, w) \in Nat
<1>1. cells[b] \in Cells /\ durable[b][w] \in Amounts
  BY DEF CountTypes
<1>2. cells[b].window \in Int /\ cells[b].requests \in Nat /\ w \in Nat
  BY <1>1 DEF Cells, Windows
<1>3. durable[b][w].requests \in Nat
  BY <1>1 DEF Amounts, Counters
<1> QED BY <1>2, <1>3, CountType DEF CellCount, CountTypes

\* A cell that keeps its window and its count, or that begins a later window,
\* covers what it covered.
LEMMA CellCovers ==
  ASSUME TypeInv, HeldInv, CountTypes, CoverInv, [Next]_vars, UNCHANGED <<landed, forgotten>>,
         phase # "down", NEW b \in Buckets, NEW w \in Windows,
         \/ cells'[b].window = cells[b].window /\ cells'[b].requests = cells[b].requests
         \/ cells'[b].requests = 0 /\ cells[b].window < cells'[b].window /\ cells'[b].window \in Int,
         cells'[b].window <= w, Live(b, w)'
  PROVE  Count(b, w)' <= forgotten'[b][w] + CellCount(b, w)'
<1>1. Count(b, w)' = Count(b, w) /\ forgotten'[b][w] = forgotten[b][w]
  BY DEF Count
<1>2. Live(b, w)
  BY LiveShrinks DEF Windows
<1>3. cells[b].window <= w
  BY CoverTypes
<1>4. Count(b, w) <= forgotten[b][w] + CellCount(b, w)
  BY <1>2, <1>3 DEF CoverInv
<1>5. CellCount(b, w)' = CellCount(b, w)
  BY CoverTypes DEF CellCount
<1> QED BY <1>1, <1>4, <1>5

\* A charge is covered by the cell that counts it, and was within the cap.
LEMMA ChargeCovers ==
  ASSUME TypeInv, HeldInv, CountTypes, AgeInv, CoverInv, RequestsCapHolds, [Next]_vars,
         phase # "down", NEW r \in Requests, Charge(r), NEW b \in Buckets, NEW w \in Windows
  PROVE  /\ cells'[b].window <= w /\ Live(b, w)' =>
              Count(b, w)' <= forgotten'[b][w] + CellCount(b, w)'
         /\ Limit[b].requests # None /\ Firm(b, w)' =>
              Count(b, w)' <= Limit[b].requests + forgotten'[b][w]
<1> DEFINE v == Window(b, req[r].at)
           c == Rolled(cells[b], v)
<1>1. /\ forgotten' = forgotten
      /\ Count(b, w)' = IF b \in ChargedBuckets(r) /\ cells'[b].window = w
                        THEN Count(b, w) + 1 ELSE Count(b, w)
  BY CountFrames, ChargeCounts
<1>0. Firm(b, w)' => Firm(b, w)
  BY FirmShrinks DEF Windows
<1>2. Limit[b].requests # None => /\ Limit[b].requests \in Nat
                                  /\ Firm(b, w) => Count(b, w) <= Limit[b].requests + forgotten[b][w]
  BY LimitTypes DEF RequestsCapHolds
<1>3. Live(b, w)' => Live(b, w)
  BY LiveShrinks DEF Windows
<1>4. cells[b].window <= w /\ Live(b, w) => Count(b, w) <= forgotten[b][w] + CellCount(b, w)
  BY DEF CoverInv
<1>5. CASE b \notin ChargedBuckets(r)
  <2>1. cells'[b] = cells[b]
    BY <1>5, ChargeCells
  <2>2. CellCount(b, w)' = CellCount(b, w)
    BY <2>1 DEF CellCount
  <2> QED BY <1>0, <1>1, <1>2, <1>3, <1>4, <1>5, <2>1, <2>2
<1>6. CASE b \in ChargedBuckets(r)
  <2>1. /\ c \in Cells /\ cells'[b].window = c.window /\ cells'[b].requests = c.requests + 1
        /\ c.window \in Windows /\ v <= c.window /\ v \in Windows
        /\ \/ c = cells[b] /\ v <= cells[b].window
           \/ c = Fresh(v) /\ cells[b].window < v
    BY <1>6, ChargeCells
  <2>2. c.requests \in Nat
    BY <2>1 DEF Cells
  <2>3. Fresh(v).window = v /\ Fresh(v).requests = 0
    BY <2>1, FreshCell
  <2>4. Limit[b].requests # None => c.requests + 1 <= Limit[b].requests
    BY <1>6, CheckReads
  <2>5. c.window = w /\ Firm(b, w) => Live(b, w)
    BY <2>1 DEF Live, Charge, Admission
  <2> HIDE DEF c, v
  <2>6. c.window <= w => cells[b].window <= w /\ CellCount(b, w) = IF c.window = w THEN c.requests ELSE 0
    BY <2>1, <2>3, CoverTypes DEF CellCount, Windows
  <2>7. CellCount(b, w)' = IF c.window = w THEN c.requests + 1 ELSE 0
    BY <2>1 DEF CellCount
  <2>8. c.window <= w /\ Live(b, w)' => Count(b, w)' <= forgotten'[b][w] + CellCount(b, w)'
    BY <1>1, <1>3, <1>4, <1>6, <2>1, <2>2, <2>6, <2>7, CoverTypes
  <2>9. ASSUME Limit[b].requests # None, Firm(b, w)'
        PROVE  Count(b, w)' <= Limit[b].requests + forgotten'[b][w]
    <3>1. CASE c.window = w
      <4>1. Count(b, w) <= forgotten[b][w] + c.requests
        BY <1>0, <1>4, <2>9, <2>1, <2>5, <2>6, <3>1 DEF Windows
      <4>2. Count(b, w)' = Count(b, w) + 1
        BY <1>1, <1>6, <2>1, <3>1
      <4> QED BY <1>1, <1>2, <2>2, <2>4, <2>9, <4>1, <4>2, CoverTypes
    <3>2. CASE c.window # w
      BY <1>0, <1>1, <1>2, <2>1, <2>9, <3>2
    <3> QED BY <3>1, <3>2
  <2> QED BY <2>1, <2>8, <2>9
<1> QED BY <1>5, <1>6

\* A boot restores the count of the current window; nothing was charged beyond.
LEMMA BootCovers ==
  ASSUME TypeInv, CountTypes, AgeInv, FlushInv, CoverInv, Boot,
         NEW b \in Buckets, NEW w \in Windows, cells'[b].window <= w, Live(b, w)'
  PROVE  Count(b, w)' <= forgotten'[b][w] + CellCount(b, w)'
<1>1. /\ UNCHANGED <<now, req, durable, landed, forgotten>> /\ phase = "down"
      /\ cells'[b] = Hydrated(b)
  BY CountFrames DEF Boot
<1>2. Count(b, w)' = Count(b, w) /\ Count(b, w) <= forgotten[b][w] + durable[b][w].requests
  BY <1>1 DEF Count, CoverInv
<1>3. Window(b, now) <= w
  BY <1>1 DEF Live, FlushInv, Settled, Admission
<1>4. now \in Nat /\ Window(b, now) \in Nat
  <2>1. now \in Nat
    BY LedgerAssumption DEF TypeInv
  <2> QED BY <2>1, WindowBounds
<1>5. CASE Window(b, now) = w
  <2>1. CellCount(b, w)' = durable[b][w].requests
    BY <1>1, <1>5, HydratedCell, CoverTypes DEF CellCount
  <2> QED BY <1>1, <1>2, <2>1
<1>6. CASE Window(b, now) # w
  <2>1. \A r \in Requests : landed[r][b] # w
    BY <1>3, <1>4, <1>6, CoverTypes DEF AgeInv
  <2>2. Count(b, w) = 0
    BY <2>1, CountType
  <2>3. CellCount(b, w)' \in Nat
    <3>1. cells'[b] \in Cells
      BY <1>1, HydratedCell
    <3> QED BY <3>1 DEF CellCount, Cells
  <2> QED BY <1>1, <1>2, <2>2, <2>3, CoverTypes
<1> QED BY <1>5, <1>6

\* The cover holds on, and no charge passes the cap.
LEMMA CoverStep ==
  ASSUME TypeInv, HeldInv, CountTypes, AgeInv, FlushInv, CoverInv, RequestsCapHolds, [Next]_vars
  PROVE  CoverInv' /\ RequestsCapHolds'
<1> DEFINE Covered(b, w) ==
             /\ phase' = "down" => Count(b, w)' <= forgotten'[b][w] + durable'[b][w].requests
             /\ phase' # "down" /\ cells'[b].window <= w /\ Live(b, w)' =>
                  Count(b, w)' <= forgotten'[b][w] + CellCount(b, w)'
           Capped(b, w) ==
             Limit[b].requests # None /\ Firm(b, w)' =>
               Count(b, w)' <= Limit[b].requests + forgotten'[b][w]
<1>1. SUFFICES ASSUME NEW b \in Buckets, NEW w \in Windows PROVE Covered(b, w) /\ Capped(b, w)
  BY DEF CoverInv, RequestsCapHolds
<1>0. Firm(b, w)' => Firm(b, w)
  BY FirmShrinks DEF Windows
<1>2. UNCHANGED <<landed, forgotten>> => Count(b, w)' = Count(b, w) /\ Capped(b, w)
  BY <1>0 DEF Count, RequestsCapHolds
<1>3. ASSUME UNCHANGED <<landed, forgotten, durable>>, phase = "down", phase' = "down"
      PROVE  Covered(b, w)
  BY <1>2, <1>3 DEF CoverInv
<1>4. ASSUME UNCHANGED <<landed, forgotten>>, phase # "down", phase' # "down",
             \/ cells'[b].window = cells[b].window /\ cells'[b].requests = cells[b].requests
             \/ cells'[b].requests = 0 /\ cells[b].window < cells'[b].window /\ cells'[b].window \in Int
      PROVE  Covered(b, w)
  BY <1>4, CellCovers
<1>5. CASE Quiet
  <2>1. UNCHANGED <<landed, forgotten, cells, durable>> /\ (phase' = "down" <=> phase = "down")
    BY <1>5 DEF Quiet
  <2> QED BY <1>2, <1>3, <1>4, <2>1
<1>6. \A r \in Requests : LockShard(r) \/ Charge(r) \/ SettleBucket(r) => phase # "down" /\ phase' # "down"
  <2>1. ASSUME NEW r \in Requests, LockShard(r) \/ Charge(r) \/ SettleBucket(r) PROVE phase # "down"
    BY <2>1 DEF FlushInv, Settled, LockShard, Charge, SettleBucket
  <2> QED BY <2>1, CountFrames
<1>7. ASSUME NEW r \in Requests, LockShard(r) PROVE Covered(b, w) /\ Capped(b, w)
  <2>1. UNCHANGED <<landed, forgotten>> /\ phase # "down" /\ phase' # "down"
    BY <1>6, <1>7, CountFrames
  <2>2. CASE cells'[b] = cells[b]
    BY <1>2, <1>4, <2>1, <2>2
  <2>3. CASE cells'[b] = Absent /\ cells[b].window > 0 /\ cells[b].window + MaxAge <= req[r].at
    <3>1. ASSUME Live(b, w)' PROVE Count(b, w)' <= forgotten'[b][w] + CellCount(b, w)'
      <4>1. Live(b, w)
        BY <3>1, LiveShrinks DEF Windows
      <4>2. ~ (w <= cells[b].window)
        BY <2>3, <4>1, SweptIsDead DEF Windows
      <4>3. Count(b, w) <= forgotten[b][w] + CellCount(b, w) /\ CellCount(b, w) = 0
        BY <2>1, <4>1, <4>2, CoverTypes DEF CoverInv, CellCount
      <4>4. CellCount(b, w)' = 0
        BY <2>3, AbsentCell, CoverTypes DEF CellCount
      <4> QED BY <1>2, <2>1, <4>3, <4>4
    <3> QED BY <1>2, <2>1, <3>1
  <2> QED BY <1>7, <2>2, <2>3, SweepCells
<1>8. ASSUME NEW r \in Requests, Charge(r) PROVE Covered(b, w) /\ Capped(b, w)
  BY <1>6, <1>8, ChargeCovers
<1>9. ASSUME NEW r \in Requests, SettleBucket(r) PROVE Covered(b, w) /\ Capped(b, w)
  <2>1. UNCHANGED <<landed, forgotten>> /\ phase # "down" /\ phase' # "down"
    BY <1>6, <1>9, CountFrames
  <2>2. \/ cells'[b].window = cells[b].window /\ cells'[b].requests = cells[b].requests
        \/ cells'[b].requests = 0 /\ cells[b].window < cells'[b].window /\ cells'[b].window \in Int
    BY <1>9, SettleCells DEF SameCount, Cells, Windows
  <2> QED BY <1>2, <1>4, <2>1, <2>2
<1>10. ASSUME NEW f \in Flushers, FlushWork(f) PROVE Covered(b, w) /\ Capped(b, w)
  <2>1. UNCHANGED <<landed, forgotten>> /\ phase # "down" /\ phase' # "down"
    BY <1>10, CountFrames, FlushWorks
  <2>2. cells'[b].window = cells[b].window /\ cells'[b].requests = cells[b].requests
    BY <1>10, CountFrames, ScanCells, AcknowledgeCells DEF FlushWork, SameCount, FlushInv, Acks
  <2> QED BY <1>2, <1>4, <2>1, <2>2
<1>11. CASE Die
  <2>1. forgotten'[b][w] = Larger(forgotten[b][w], Count(b, w) - durable[b][w].requests)
    BY <1>11 DEF Die
  <2>2. /\ forgotten[b][w] <= forgotten'[b][w] /\ forgotten'[b][w] \in Nat
        /\ Count(b, w) <= forgotten'[b][w] + durable[b][w].requests
    BY <2>1, CoverTypes DEF Larger
  <2>3. Count(b, w)' = Count(b, w) /\ phase' = "down" /\ durable' = durable
    BY <1>11 DEF Die, Count
  <2>4. Limit[b].requests # None /\ Firm(b, w)' =>
          Limit[b].requests \in Nat /\ Count(b, w) <= Limit[b].requests + forgotten[b][w]
    BY <1>0, LimitTypes DEF RequestsCapHolds
  <2> QED BY <2>2, <2>3, <2>4, CoverTypes
<1>12. CASE Boot
  <2>1. UNCHANGED <<landed, forgotten>> /\ phase' # "down"
    BY <1>12, CountFrames DEF Boot
  <2> QED BY <1>2, <1>12, <2>1, BootCovers
<1> HIDE DEF Covered, Capped
<1> QED BY <1>5, <1>7, <1>8, <1>9, <1>10, <1>11, <1>12, CountSteps

\* Nothing has been charged.
LEMMA CountInit ==
  ASSUME Init
  PROVE  CountTypes /\ AgeInv /\ FlushInv /\ CoverInv /\ RequestsCapHolds
<1>1. TypeInv
  BY InitInv
<1>2. now \in Nat /\ MaxLag \in Nat /\ \A b \in Buckets : Window(b, now) \in Nat
  <2>1. now \in Nat /\ MaxLag \in Nat
    BY <1>1, LedgerAssumption DEF TypeInv
  <2> QED BY <2>1, WindowBounds
<1>3. [k \in Counters |-> 0] \in Amounts
  BY DEF Amounts
<1>4. CountTypes
  BY <1>3, AbsentCell, IdleFlush DEF Init, CountTypes
<1>5. \A r \in Requests : req[r].at = 0 /\ req[r].pc = "new" /\ \A b \in Buckets : landed[r][b] = -1
  BY DEF Init, NoRequest
<1>6. \A b \in Buckets : cells[b] = Absent
  BY DEF Init
<1>7. AgeInv
  BY <1>2, <1>5, <1>6, AbsentCell DEF AgeInv, Admission
<1>8. FlushInv
  BY <1>5, IdleFlush DEF Init, FlushInv, Flushers
<1>9. \A b \in Buckets : \A w \in Windows : Count(b, w) = 0
  BY <1>5, CountType DEF Windows
<1>10. CoverInv
  BY <1>4, <1>9, CoverTypes DEF CoverInv, Init
<1>11. RequestsCapHolds
  <2> SUFFICES ASSUME NEW b \in Buckets, NEW w \in Windows, Limit[b].requests # None
               PROVE  Count(b, w) <= Limit[b].requests + forgotten[b][w]
    BY DEF RequestsCapHolds
  <2> QED BY <1>4, <1>9, LimitTypes, CoverTypes
<1> QED BY <1>4, <1>7, <1>8, <1>10, <1>11

\* No more requests are charged to a firm window of a bucket than its cap allows,
\* whatever the admissions that race and straddle its boundary, but for the ones
\* that a stop of the process made the ledger forget (try_admit, the sweep,
\* accrue_bucket's roll, hydrate_budgets).
THEOREM RequestCapsHold == Spec => []RequestsCapHolds
<1> DEFINE Inv == TypeInv /\ HeldInv /\ CountTypes /\ AgeInv /\ FlushInv /\ CoverInv /\ RequestsCapHolds
<1>1. Init => Inv
  BY InitInv, CountInit
<1>2. Inv /\ [Next]_vars => Inv'
  BY TypeHeldStep, CountTypesStep, AgeInvStep, FlushInvStep, CoverStep
<1>3. Inv => RequestsCapHolds
  OBVIOUS
<1> QED
  <2> HIDE DEF Inv
  <2> QED BY <1>1, <1>2, <1>3, PTL DEF Spec

-----------------------------------------------------------------------------
(* The store is not ahead *)

\* The types of the numbers that a cell and its snapshots compare.
LEMMA SentTypes ==
  ASSUME CountTypes, NEW b \in Buckets
  PROVE  /\ cells[b].window \in Int /\ cells[b].requests \in Nat /\ cells[b].flushed["requests"] \in Nat
         /\ cells[b].window >= 0 => cells[b].window \in Windows
         /\ cells[b].window >= -1
         /\ \A s \in Snapshots : /\ s.bucket \in Buckets /\ s.window \in Windows /\ s.window \in Nat
                                 /\ s.delta["requests"] \in Int /\ s.current["requests"] \in Nat
<1>1. cells[b] \in Cells
  BY DEF CountTypes
<1>2. cells[b].flushed["requests"] \in Nat
  BY <1>1 DEF Cells, Amounts, Counters
<1>3. \A s \in Snapshots : s.delta["requests"] \in Int /\ s.current["requests"] \in Nat
  BY DEF Snapshots, Amounts, Counters
<1>4. /\ cells[b].window \in Int /\ cells[b].requests \in Nat
      /\ cells[b].window >= 0 => cells[b].window \in Windows
      /\ cells[b].window >= -1
  BY <1>1 DEF Cells, Windows
<1>5. \A s \in Snapshots : s.bucket \in Buckets /\ s.window \in Windows /\ s.window \in Nat
  BY DEF Snapshots, Windows
<1> QED BY <1>2, <1>3, <1>4, <1>5

\* Charges are never taken back.
LEMMA CountGrows ==
  ASSUME TypeInv, CountTypes, AgeInv, [Next]_vars, NEW b \in Buckets, NEW w \in Windows
  PROVE  /\ Count(b, w) \in Nat /\ Count(b, w)' \in Nat /\ Count(b, w) <= Count(b, w)'
         /\ landed' = landed => Count(b, w)' = Count(b, w)
<1>1. landed' = landed => Count(b, w)' = Count(b, w)
  BY DEF Count
<1>2. Count(b, w) \in Nat
  BY CountType
<1>3. ASSUME NEW r \in Requests, Charge(r) PROVE Count(b, w)' \in {Count(b, w), Count(b, w) + 1}
  BY <1>3, ChargeCounts
<1>4. landed' = landed \/ \E r \in Requests : Charge(r)
  BY CountSteps, CountFrames DEF Quiet
<1> QED BY <1>1, <1>2, <1>3, <1>4

\* A cell that keeps its window, its count and its baseline.
KeepsCell(b) ==
  /\ cells'[b].window = cells[b].window /\ cells'[b].requests = cells[b].requests
  /\ cells'[b].flushed["requests"] = cells[b].flushed["requests"]

\* A stale cell that is kept stays stale.
LEMMA StaleStays ==
  ASSUME TypeInv, HeldInv, CountTypes, [Next]_vars, NEW b \in Buckets, Stale(b),
         cells'[b].window = cells[b].window, cells'[b].requests = cells[b].requests
  PROVE  Stale(b)'
BY LiveShrinks, FirmShrinks, SentTypes DEF Stale

\* A cell of a window that is not firm is stale.
LEMMA FreshIsFirm ==
  ASSUME NEW b \in Buckets
  PROVE  (~ Stale(b) => Firm(b, cells[b].window)) /\ (~ Stale(b)' => Firm(b, cells[b].window)')
BY DEF Stale, Live

\* A cell that is kept is as level with the store as it was.
LEMMA KeptCell ==
  ASSUME TypeInv, HeldInv, CountTypes, AgeInv, [Next]_vars, NEW b \in Buckets, KeepsCell(b)
  PROVE  /\ CellOK(b) => CellOK(b)'
         /\ /\ Level(b)
            /\ \A w \in Windows : cells[b].window = w => durable'[b][w].requests = durable[b][w].requests
            => Level(b)'
<1>1. Stale(b) => Stale(b)'
  BY StaleStays DEF KeepsCell
<1>2. CellOK(b) => CellOK(b)'
  BY <1>1 DEF CellOK, KeepsCell
<1>3. ASSUME NEW w \in Windows, cells[b].window = w, ~ Stale(b)', Level(b),
             durable'[b][w].requests = durable[b][w].requests
      PROVE  durable'[b][w].requests + cells'[b].requests - cells'[b].flushed["requests"] <= Count(b, w)'
  <2>1. cells[b].requests \in Nat /\ cells[b].flushed["requests"] \in Nat
    BY SentTypes
  <2>2. durable[b][w].requests \in Nat
    BY CoverTypes
  <2>3. Count(b, w) \in Nat /\ Count(b, w)' \in Nat /\ Count(b, w) <= Count(b, w)'
    BY CountGrows
  <2>4. durable[b][w].requests + cells[b].requests - cells[b].flushed["requests"] <= Count(b, w)
    BY <1>1, <1>3 DEF Level
  <2> QED BY <1>3, <2>1, <2>2, <2>3, <2>4 DEF KeepsCell
<1> QED BY <1>2, <1>3 DEF Level, KeepsCell

\* A snapshot of a cell that is kept.
LEMMA KeptSnap ==
  ASSUME TypeInv, HeldInv, CountTypes, AgeInv, [Next]_vars, NEW s \in Snapshots, KeepsCell(s.bucket)
  PROVE  /\ SnapOK(s) => SnapOK(s)'
         /\ durable'[s.bucket][s.window].requests = durable[s.bucket][s.window].requests =>
              (Lands(s) => Lands(s)') /\ (Waits(s) => Waits(s)')
<1> DEFINE b == s.bucket
           w == s.window
<1>1. b \in Buckets /\ w \in Windows /\ w \in Int /\ s.delta["requests"] \in Int /\ s.current["requests"] \in Nat
  BY DEF Snapshots, Windows, Amounts, Counters
<1>2. (Stale(b) => Stale(b)') /\ (Live(b, w)' => Live(b, w)) /\ (Firm(b, w)' => Firm(b, w))
  BY <1>1, StaleStays, LiveShrinks, FirmShrinks DEF KeepsCell
<1>3. SnapOK(s) => SnapOK(s)'
  BY <1>2 DEF SnapOK, KeepsCell
<1>4. /\ Count(b, w) \in Nat /\ Count(b, w)' \in Nat /\ Count(b, w) <= Count(b, w)'
      /\ durable[b][w].requests \in Nat /\ cells[b].requests \in Nat
  BY <1>1, CountGrows, CoverTypes
<1>5. ASSUME durable'[b][w].requests = durable[b][w].requests, Waits(s) PROVE Waits(s)'
  BY <1>1, <1>2, <1>4, <1>5 DEF Waits
<1>6. ASSUME durable'[b][w].requests = durable[b][w].requests, Lands(s) PROVE Lands(s)'
  BY <1>1, <1>2, <1>4, <1>6 DEF Lands, KeepsCell
<1> QED BY <1>3, <1>5, <1>6

\* What happens to a cell without a write: it and its snapshots stay in order.
Evolves(b) ==
  /\ CellOK(b) => CellOK(b)'
  /\ \/ cells'[b].window = cells[b].window /\ (Level(b) => Level(b)')
     \/ Level(b)'
  /\ \A s \in Snapshots : s.bucket = b /\ SnapOK(s) =>
       SnapOK(s)' /\ (Lands(s) => Lands(s)') /\ (Waits(s) => Waits(s)')

\* A cell that is kept evolves.
LEMMA KeptEvolves ==
  ASSUME TypeInv, HeldInv, CountTypes, AgeInv, [Next]_vars, durable' = durable,
         NEW b \in Buckets, KeepsCell(b)
  PROVE  Evolves(b)
BY KeptCell, KeptSnap DEF Evolves, KeepsCell

\* The store waits for a snapshot as before when only charges are added.
LEMMA WaitsOn ==
  ASSUME TypeInv, HeldInv, CountTypes, AgeInv, [Next]_vars, durable' = durable,
         NEW s \in Snapshots, Waits(s)
  PROVE  Waits(s)'
<1> DEFINE b == s.bucket
           w == s.window
<1>1. b \in Buckets /\ w \in Windows /\ w \in Int /\ s.delta["requests"] \in Int
  BY DEF Snapshots, Counters, Windows
<1>3. Firm(b, w)' => Firm(b, w)
  BY <1>1, FirmShrinks
<1>2. /\ Count(b, w) \in Nat /\ Count(b, w)' \in Nat /\ Count(b, w) <= Count(b, w)'
      /\ durable[b][w].requests \in Nat
  BY <1>1, CountGrows, CoverTypes
<1> QED BY <1>1, <1>2, <1>3 DEF Waits

\* The sweep drops a cell that no admission can reach.
LEMMA DroppedEvolves ==
  ASSUME TypeInv, HeldInv, CountTypes, AgeInv, [Next]_vars, durable' = durable,
         NEW b \in Buckets, cells'[b] = Absent,
         \A w \in Int : w <= cells[b].window => ~ Live(b, w)
  PROVE  Evolves(b)
<1>1. cells'[b].window = -1
  BY AbsentCell
<1>2. CellOK(b)' /\ Level(b)'
  BY <1>1 DEF CellOK, Level, Windows
<1>3. ASSUME NEW s \in Snapshots, s.bucket = b, SnapOK(s)
      PROVE  SnapOK(s)' /\ Lands(s)' /\ (Waits(s) => Waits(s)')
  <2>1. s.window \in Nat /\ s.window \in Int /\ cells[b].window \in Int
    BY SentTypes
  <2>2. ~ Live(b, s.window)
    <3>1. CASE s.window <= cells[b].window
      BY <2>1, <3>1
    <3>2. CASE cells[b].window < s.window
      BY <1>3, <3>2 DEF SnapOK
    <3> QED BY <2>1, <3>1, <3>2
  <2>3. ~ Live(b, s.window)'
    BY <2>1, <2>2, LiveShrinks
  <2>4. SnapOK(s)'
    BY <1>1, <1>3, <2>1, <2>3 DEF SnapOK
  <2>5. Lands(s)'
    BY <1>1, <1>3, <2>1 DEF Lands
  <2> QED BY <2>4, <2>5, WaitsOn
<1> QED BY <1>2, <1>3 DEF Evolves

\* An accrual begins a window anew.  A snapshot of that window is of a cell that
\* the sweep has dropped, and no admission can reach it.
LEMMA RestartedEvolves ==
  ASSUME TypeInv, HeldInv, CountTypes, AgeInv, [Next]_vars, durable' = durable, landed' = landed,
         NotAhead, NEW b \in Buckets, cells'[b] \in Cells,
         cells'[b].requests = 0, cells'[b].flushed["requests"] = 0, cells[b].window < cells'[b].window
  PROVE  Evolves(b)
<1>1. cells'[b].window \in Int /\ cells[b].window \in Int
  BY SentTypes DEF Cells, Windows
<1>2. CellOK(b)'
  BY DEF CellOK
<1>3. Level(b)'
  <2> SUFFICES ASSUME NEW w \in Windows, Firm(b, w)'
               PROVE  durable'[b][w].requests + 0 - 0 <= Count(b, w)'
    BY FreshIsFirm DEF Level
  <2>0. Firm(b, w)
    BY FirmShrinks DEF Windows
  <2>1. durable[b][w].requests <= Count(b, w) /\ Count(b, w)' = Count(b, w)
        /\ durable[b][w].requests \in Nat
    BY <2>0, CountGrows, CoverTypes DEF NotAhead
  <2> QED BY <2>1
<1>4. ASSUME NEW s \in Snapshots, s.bucket = b, SnapOK(s)
      PROVE  SnapOK(s)' /\ Lands(s)' /\ (Waits(s) => Waits(s)')
  <2>1. s.window \in Nat /\ s.window \in Int /\ s.delta["requests"] \in Int
    BY SentTypes
  <2>2. cells[b].window < s.window => ~ Live(b, s.window)
    BY <1>4 DEF SnapOK
  <2>3. Live(b, s.window)' => Live(b, s.window)
    BY <2>1, LiveShrinks
  <2>4. cells'[b].window = s.window => Stale(b)'
    BY <2>2, <2>3 DEF Stale
  <2>5. SnapOK(s)'
    BY <1>1, <1>4, <2>1, <2>2, <2>3, <2>4 DEF SnapOK
  <2>6. Lands(s)'
    BY <1>4, <2>4 DEF Lands
  <2> QED BY <2>5, <2>6, WaitsOn
<1> QED BY <1>2, <1>3, <1>4 DEF Evolves

\* A charge goes to a cell that is not stale, and counts one on either side.
LEMMA ChargedEvolves ==
  ASSUME TypeInv, HeldInv, CountTypes, AgeInv, [Next]_vars, NotAhead,
         NEW r \in Requests, Charge(r), NEW b \in ChargedBuckets(r)
  PROVE  Evolves(b)
<1> DEFINE v == Window(b, req[r].at)
           c == Rolled(cells[b], v)
<1>0. b \in Buckets /\ durable' = durable
  BY ChargedBucketsType, CountFrames
<1>1. /\ c \in Cells /\ cells'[b] \in Cells
      /\ cells'[b].window = c.window /\ cells'[b].requests = c.requests + 1
      /\ cells'[b].flushed = c.flushed
      /\ c.window \in Windows /\ v <= c.window /\ v \in Windows
      /\ \/ c = cells[b] /\ v <= cells[b].window
         \/ c = Fresh(v) /\ cells[b].window < v
  BY <1>0, ChargeCells
<1>2. Fresh(v).window = v /\ Fresh(v).requests = 0 /\ Fresh(v).flushed["requests"] = 0
  BY <1>1, FreshCell
<1>3. Firm(b, c.window) => Live(b, c.window)
  BY <1>1 DEF Live, Charge, Admission
<1> HIDE DEF c, v
<1>4. /\ c.requests \in Nat /\ c.window \in Nat /\ c.flushed["requests"] \in Nat
      /\ cells[b].window \in Int /\ cells[b].window <= c.window
  BY <1>0, <1>1, <1>2, SentTypes DEF Cells, Windows, Amounts, Counters
<1>5. ~ Stale(b)' => Firm(b, c.window)
  <2>1. PICK n \in Nat : n = c.window
    BY <1>4
  <2>2. Firm(b, n)' => Firm(b, n)
    BY <1>0, FirmShrinks
  <2>3. ~ Stale(b)' => Firm(b, n)'
    BY <1>1, <2>1 DEF Stale, Live
  <2> QED BY <2>1, <2>2, <2>3
<1>6. c = cells[b] /\ Firm(b, c.window) => ~ Stale(b)
  BY <1>3 DEF Stale
<1>7. CellOK(b) => CellOK(b)'
  BY <1>1, <1>2, <1>4, <1>5, <1>6 DEF CellOK
<1>8. \A w \in Windows : w = c.window => Count(b, w)' = Count(b, w) + 1
  BY <1>0, <1>1, ChargeCounts
<1>9. c = cells[b] => (Level(b) => Level(b)')
  <2> SUFFICES ASSUME c = cells[b], Level(b), NEW w \in Windows, cells'[b].window = w, ~ Stale(b)'
               PROVE  durable'[b][w].requests + cells'[b].requests - cells'[b].flushed["requests"]
                        <= Count(b, w)'
    BY DEF Level
  <2>1. durable[b][w].requests + c.requests - c.flushed["requests"] <= Count(b, w)
    BY <1>1, <1>5, <1>6 DEF Level
  <2>2. durable[b][w].requests \in Nat /\ Count(b, w) \in Nat /\ Count(b, w)' = Count(b, w) + 1
    BY <1>0, <1>1, <1>8, CoverTypes
  <2> QED BY <1>0, <1>1, <1>4, <2>1, <2>2
<1>10. c # cells[b] => Level(b)'
  <2> SUFFICES ASSUME c # cells[b], NEW w \in Windows, cells'[b].window = w, ~ Stale(b)'
               PROVE  durable'[b][w].requests + cells'[b].requests - cells'[b].flushed["requests"]
                        <= Count(b, w)'
    BY DEF Level
  <2>1. cells'[b].requests = 1 /\ cells'[b].flushed["requests"] = 0
    BY <1>1, <1>2
  <2>2. durable[b][w].requests \in Nat /\ Count(b, w) \in Nat /\ Count(b, w)' = Count(b, w) + 1
        /\ durable[b][w].requests <= Count(b, w)
    BY <1>0, <1>1, <1>5, <1>8, CoverTypes DEF NotAhead
  <2> QED BY <1>0, <2>1, <2>2
<1>11. ASSUME NEW s \in Snapshots, s.bucket = b, SnapOK(s)
       PROVE  SnapOK(s)' /\ (Lands(s) => Lands(s)') /\ (Waits(s) => Waits(s)')
  <2> DEFINE w == s.window
  <2>1. w \in Windows /\ w \in Nat /\ w \in Int /\ s.delta["requests"] \in Int /\ s.current["requests"] \in Nat
    BY <1>0, SentTypes
  <2>2. Live(b, w)' => Live(b, w)
    BY <1>0, <2>1, LiveShrinks
  <2>3. c.window = w /\ Firm(b, w) => Live(b, w)
    BY <1>3
  <2>4. c.window = w /\ Firm(b, w) => c = cells[b]
    BY <1>1, <1>2, <1>11, <2>1, <2>3 DEF SnapOK
  <2>5. SnapOK(s)'
    <3>1. s.delta["requests"] < 0 => ~ Live(b, w)' /\ (cells'[b].window = w => Stale(b)')
      BY <1>1, <1>5, <1>11, <2>2, <2>3 DEF SnapOK
    <3>2. cells'[b].window < w => ~ Live(b, w)'
      BY <1>1, <1>4, <1>11, <2>1, <2>2 DEF SnapOK
    <3>3. cells'[b].window = w /\ ~ Stale(b)' =>
            /\ cells'[b].flushed["requests"] + s.delta["requests"] = s.current["requests"]
            /\ s.current["requests"] <= cells'[b].requests
      <4> SUFFICES ASSUME c.window = w, ~ Stale(b)'
                   PROVE  /\ c.flushed["requests"] + s.delta["requests"] = s.current["requests"]
                          /\ s.current["requests"] <= c.requests
        BY <1>1, <1>4, <2>1
      <4>1. c = cells[b] /\ ~ Stale(b)
        BY <1>5, <1>6, <2>4
      <4> QED BY <1>11, <4>1 DEF SnapOK
    <3> QED BY <1>11, <3>1, <3>2, <3>3 DEF SnapOK
  <2>6. ASSUME Lands(s), c.window = w, ~ Stale(b)'
        PROVE  durable'[b][w].requests + cells'[b].requests - s.current["requests"] <= Count(b, w)'
    <3>1. durable[b][w].requests + c.requests - s.current["requests"] <= Count(b, w)
      BY <1>5, <1>6, <1>11, <2>4, <2>6 DEF Lands
    <3>2. durable[b][w].requests \in Nat /\ Count(b, w) \in Nat /\ Count(b, w)' = Count(b, w) + 1
      BY <1>0, <1>8, <2>1, <2>6, CoverTypes
    <3> QED BY <1>0, <1>1, <1>4, <2>1, <3>1, <3>2
  <2>7. Lands(s) => Lands(s)'
    BY <1>1, <1>11, <2>6 DEF Lands
  <2> QED BY <1>0, <2>5, <2>7, WaitsOn
<1> QED BY <1>1, <1>7, <1>9, <1>10, <1>11 DEF Evolves

\* A step that leaves the store and the flushes alone.
LEMMA SentFrame ==
  ASSUME TypeInv, HeldInv, CountTypes, AgeInv, [Next]_vars, SentInv, Once, UNCHANGED <<durable, flush>>,
         \A b \in Buckets : Evolves(b)
  PROVE  SentInv'
<1>1. NotAhead'
  <2> SUFFICES ASSUME NEW b \in Buckets, NEW w \in Windows, Firm(b, w)'
               PROVE  durable'[b][w].requests <= Count(b, w)'
    BY DEF NotAhead
  <2>1. durable[b][w].requests <= Count(b, w)
    BY FirmShrinks DEF SentInv, NotAhead, Windows
  <2> QED BY <2>1, CountGrows, CoverTypes
<1>2. Written("task")' = Written("task")
  BY DEF Written
<1>3. ASSUME NEW s \in flush'["task"].snaps
      PROVE  /\ SnapOK(s)' /\ (s \in Written("task")' => Lands(s)')
             /\ s \notin Written("task")' => Waits(s)'
  <2>1. s \in flush["task"].snaps /\ s \in Snapshots /\ s.bucket \in Buckets
    BY <1>3 DEF CountTypes, Flushers, FlushStates, Snapshots
  <2> QED BY <1>2, <2>1 DEF SentInv, Evolves
<1>4. ASSUME NEW b \in Buckets PROVE CellOK(b)' /\ (~ Behind(b)' => Level(b)')
  <2>1. cells'[b].window = cells[b].window => (Behind(b) => Behind(b)')
    BY <1>2 DEF Behind
  <2> QED BY <2>1 DEF SentInv, Evolves
<1> QED BY <1>1, <1>3, <1>4 DEF SentInv

\* The requests and the process.
LEMMA SentOutside ==
  ASSUME TypeInv, HeldInv, CountTypes, AgeInv, FlushInv, SentInv, Once, [Next]_vars,
         Quiet \/ \E r \in Requests : LockShard(r) \/ Charge(r) \/ SettleBucket(r)
  PROVE  SentInv'
<1>1. UNCHANGED <<durable, flush>>
  BY CountFrames DEF Quiet
<1>2. NotAhead
  BY DEF SentInv
<1>3. ASSUME Quiet, NEW b \in Buckets PROVE Evolves(b)
  <2>1. KeepsCell(b)
    BY <1>3 DEF Quiet, KeepsCell
  <2> QED BY <1>1, <2>1, KeptEvolves
<1>4. ASSUME NEW r \in Requests, LockShard(r), NEW b \in Buckets PROVE Evolves(b)
  <2>1. CASE cells'[b] = cells[b]
    <3>1. KeepsCell(b)
      BY <2>1 DEF KeepsCell
    <3> QED BY <1>1, <3>1, KeptEvolves
  <2>2. CASE cells'[b] = Absent /\ cells[b].window > 0 /\ cells[b].window + MaxAge <= req[r].at
    <3>1. \A w \in Int : w <= cells[b].window => ~ Live(b, w)
      BY <2>2, SweptIsDead
    <3> QED BY <1>1, <2>2, <3>1, DroppedEvolves
  <2> QED BY <1>4, <2>1, <2>2, SweepCells
<1>5. ASSUME NEW r \in Requests, Charge(r), NEW b \in Buckets PROVE Evolves(b)
  <2>1. CASE b \in ChargedBuckets(r)
    BY <1>2, <1>5, <2>1, ChargedEvolves
  <2>2. CASE b \notin ChargedBuckets(r)
    <3>1. cells'[b] = cells[b]
      BY <1>5, <2>2, ChargeCells
    <3>2. KeepsCell(b)
      BY <3>1 DEF KeepsCell
    <3> QED BY <1>1, <3>2, KeptEvolves
  <2> QED BY <2>1, <2>2
<1>6. ASSUME NEW r \in Requests, SettleBucket(r), NEW b \in Buckets PROVE Evolves(b)
  <2>1. landed' = landed
    BY <1>6, CountFrames
  <2>2. CASE SameCount(b) /\ cells'[b].flushed = cells[b].flushed
    <3>1. KeepsCell(b)
      BY <2>2 DEF KeepsCell, SameCount
    <3> QED BY <1>1, <3>1, KeptEvolves
  <2>3. CASE /\ cells'[b] \in Cells /\ cells'[b].requests = 0 /\ cells'[b].flushed["requests"] = 0
             /\ cells[b].window < cells'[b].window
    BY <1>1, <1>2, <2>1, <2>3, RestartedEvolves
  <2> QED BY <1>6, <2>2, <2>3, SettleCells
<1>7. \A b \in Buckets : Evolves(b)
  BY <1>3, <1>4, <1>5, <1>6
<1> QED BY <1>1, <1>7, SentFrame

\* A flush begins, or takes snapshots.
LEMMA SentScan ==
  ASSUME TypeInv, HeldInv, CountTypes, AgeInv, FlushInv, SentInv, Once, [Next]_vars,
         StartFlush("task") \/ ScanShard("task")
  PROVE  SentInv'
<1> DEFINE f == "task"
<1>1. f \in Flushers /\ FlushOK(flush[f]) /\ flush[f].pc \in {"idle", "scan"}
  BY DEF Flushers, FlushInv, StartFlush, MayFlush, ScanShard
<1>2. UNCHANGED <<durable, landed>>
  BY <1>1, CountFrames DEF FlushWork
<1>3. \A b \in Buckets : KeepsCell(b)
  <2>1. CASE StartFlush(f)
    BY <1>1, <2>1, CountFrames DEF KeepsCell
  <2>2. CASE ScanShard(f)
    BY <1>1, <2>2, ScanCells DEF KeepsCell, SameCount
  <2> QED BY <2>1, <2>2
<1>4. PICK q : /\ flush'[f] = q /\ q.pc # "acked"
               /\ \A s \in q.snaps :
                    \/ s \in flush[f].snaps
                    \/ \E b \in Buckets : cells[b].dirty /\ s = Snapshot(b)
  <2>1. \A q : Becomes(f, q) => flush'[f] = q
    BY <1>1 DEF Becomes, CountTypes
  <2>2. CASE StartFlush(f)
    BY <1>1, <2>1, <2>2, StartBecomes
  <2>3. CASE ScanShard(f)
    BY <1>1, <2>1, <2>3, ScanBecomes
  <2> QED BY <2>2, <2>3
<1>5. Written(f) = {} /\ Written(f)' = {}
  BY <1>1, <1>4 DEF Written
<1>6. NotAhead /\ NotAhead'
  <2>1. NotAhead
    BY DEF SentInv
  <2>2. \A b \in Buckets : \A w \in Windows :
          Count(b, w)' = Count(b, w) /\ (Firm(b, w)' => Firm(b, w))
    BY <1>2, CountGrows, FirmShrinks DEF Windows
  <2> QED BY <1>2, <2>1, <2>2 DEF NotAhead
<1>7. \A b \in Buckets : CellOK(b) /\ Level(b) /\ CellOK(b)' /\ Level(b)'
  <2> TAKE b \in Buckets
  <2>1. CellOK(b) /\ Level(b)
    BY <1>5 DEF SentInv, Behind
  <2> QED BY <1>2, <1>3, <2>1, KeptCell
<1>8. ASSUME NEW b \in Buckets, cells[b].dirty
      PROVE  SnapOK(Snapshot(b)) /\ Waits(Snapshot(b)) /\ Snapshot(b) \in Snapshots
  <2>1. PICK s : s = Snapshot(b)
    OBVIOUS
  <2>2. /\ s \in Snapshots /\ s.bucket = b /\ s.window = cells[b].window /\ s.window \in Windows
        /\ s.current["requests"] = cells[b].requests
        /\ s.delta["requests"] = cells[b].requests - cells[b].flushed["requests"]
    BY <1>8, <2>1, SnapshotType
  <2>3. PICK w \in Windows : w = s.window
    BY <2>2
  <2>4. /\ cells[b].requests \in Nat /\ cells[b].flushed["requests"] \in Nat
        /\ durable[b][w].requests \in Nat /\ Count(b, w) \in Nat /\ w \in Nat
        /\ Firm(b, w) => durable[b][w].requests <= Count(b, w)
    BY <1>6, SentTypes, CoverTypes DEF NotAhead
  <2>5. s.delta["requests"] < 0 => Stale(b)
    BY <1>7, <2>2, <2>3, <2>4 DEF CellOK
  <2>6. SnapOK(s)
    BY <2>2, <2>3, <2>4, <2>5 DEF SnapOK, Stale
  <2>7. ~ Stale(b) => durable[b][w].requests + cells[b].requests - cells[b].flushed["requests"] <= Count(b, w)
    BY <1>7, <2>2, <2>3 DEF Level
  <2>8. Stale(b) /\ Firm(b, w) => cells[b].requests = 0
    BY <2>2, <2>3 DEF Stale
  <2>9. Firm(b, w) => durable[b][w].requests + s.delta["requests"] <= Count(b, w)
    BY <2>2, <2>4, <2>7, <2>8
  <2>10. Waits(s)
    BY <2>2, <2>3, <2>9 DEF Waits
  <2> QED BY <2>1, <2>2, <2>6, <2>10
<1>9. ASSUME NEW s \in flush'[f].snaps PROVE SnapOK(s)' /\ Waits(s)'
  <2>1. s \in Snapshots /\ SnapOK(s) /\ Waits(s)
    <3>1. CASE s \in flush[f].snaps
      BY <1>1, <1>5, <3>1 DEF SentInv, CountTypes, FlushStates
    <3>2. CASE \E b \in Buckets : cells[b].dirty /\ s = Snapshot(b)
      BY <1>8, <3>2
    <3> QED BY <1>4, <1>9, <3>1, <3>2
  <2>2. s.bucket \in Buckets
    BY <2>1 DEF Snapshots
  <2> QED BY <1>2, <1>3, <2>1, <2>2, KeptSnap
<1> QED BY <1>5, <1>6, <1>7, <1>9 DEF SentInv

\* The store takes a delta, or refuses it.
LEMMA SentWrite ==
  ASSUME TypeInv, HeldInv, CountTypes, AgeInv, FlushInv, SentInv, Once, Once', [Next]_vars,
         WriteUsage("task")
  PROVE  SentInv'
<1> DEFINE f == "task"
<1>1. f \in Flushers /\ FlushOK(flush[f]) /\ flush[f].pc = "write" /\ Written(f) = {}
  BY DEF Flushers, FlushInv, WriteUsage, Written
<1>2. cells' = cells /\ landed' = landed
  BY <1>1, CountFrames DEF FlushWork
<1>3. \A b \in Buckets : KeepsCell(b)
  BY <1>2 DEF KeepsCell
<1>4. PICK q, s : /\ Becomes(f, q) /\ s \in flush[f].snaps /\ s \in Snapshots
                  /\ q.snaps = flush[f].snaps /\ q.ack = {s}
                  /\ \/ /\ q.pc = "acked" /\ trouble' = trouble
                        /\ IF ZeroDelta(s) THEN UNCHANGED durable ELSE AddUsage(s)
                     \/ /\ q.pc = "failed"
                        /\ \E fault \in {"error", "lost"} :
                             /\ trouble' = trouble \cup {fault}
                             /\ IF fault = "lost" THEN AddUsage(s) ELSE UNCHANGED durable
  BY <1>1, WriteBecomes
<1>5. flush'[f] = q
  BY <1>1, <1>4 DEF Becomes, CountTypes
<1>6. /\ NotAhead
      /\ \A t \in flush[f].snaps : t \in Snapshots /\ t.bucket \in Buckets /\ SnapOK(t) /\ Waits(t)
      /\ \A b \in Buckets : CellOK(b) /\ Level(b)
  BY <1>1 DEF SentInv, Behind, CountTypes, FlushStates, Snapshots
<1>7. \A b \in Buckets : CellOK(b)'
  BY <1>3, <1>6, KeptCell
<1>8. \A t \in flush[f].snaps : SnapOK(t)'
  BY <1>3, <1>6, KeptSnap
<1>9. \A b \in Buckets : \A w \in Windows :
        Count(b, w)' = Count(b, w) /\ (Firm(b, w)' => Firm(b, w))
  BY <1>2, CountGrows, FirmShrinks DEF Windows
<1>10. CASE durable' = durable /\ q.pc = "failed"
  <2>1. Written(f)' = {}
    BY <1>5, <1>10 DEF Written
  <2>2. \A b \in Buckets : Level(b)'
    BY <1>3, <1>6, <1>10, KeptCell
  <2>3. \A t \in flush[f].snaps : Waits(t)'
    BY <1>3, <1>6, <1>10, KeptSnap
  <2>4. NotAhead'
    BY <1>6, <1>9, <1>10 DEF NotAhead
  <2> QED BY <1>4, <1>5, <1>7, <1>8, <2>1, <2>2, <2>3, <2>4 DEF SentInv
<1>11. CASE q.pc = "acked" /\ IF ZeroDelta(s) THEN UNCHANGED durable ELSE AddUsage(s)
  <2>1. Written(f)' = {s}
    BY <1>4, <1>5, <1>11 DEF Written
  <2>2. s.bucket \in Buckets /\ s.window \in Windows /\ s.delta["requests"] \in Int
        /\ s.current["requests"] \in Nat
    BY <1>4 DEF Snapshots, Amounts, Counters
  <2>3. ASSUME NEW b \in Buckets, NEW w \in Windows
        PROVE  durable'[b][w].requests =
                 IF b = s.bucket /\ w = s.window
                 THEN Floor(durable[b][w].requests + s.delta["requests"]) ELSE durable[b][w].requests
    <3>1. CASE ZeroDelta(s)
      <4>1. durable' = durable /\ s.delta["requests"] = 0
        BY <1>11, <3>1 DEF ZeroDelta, Counters
      <4> QED BY <4>1, CoverTypes DEF Floor
    <3>2. CASE ~ ZeroDelta(s)
      BY <1>4, <1>11, <3>2, AddUsageStore
    <3> QED BY <3>1, <3>2
  <2>4. NotAhead'
    <3> SUFFICES ASSUME NEW b \in Buckets, NEW w \in Windows, Firm(b, w)
                 PROVE  durable'[b][w].requests <= Count(b, w)
      BY <1>9 DEF NotAhead
    <3>1. CASE b = s.bucket /\ w = s.window
      <4>1. durable[b][w].requests + s.delta["requests"] <= Count(b, w)
        BY <1>4, <1>6, <3>1 DEF Waits
      <4> QED BY <2>2, <2>3, <3>1, <4>1, CoverTypes DEF Floor
    <3>2. CASE ~ (b = s.bucket /\ w = s.window)
      BY <1>6, <2>3, <3>2 DEF NotAhead
    <3> QED BY <3>1, <3>2
  <2>5. ASSUME NEW t \in flush[f].snaps, t # s PROVE Waits(t)'
    <3>1. t.bucket # s.bucket /\ t \in Snapshots /\ t.bucket \in Buckets /\ t.window \in Windows
      BY <1>1, <1>4, <1>6, <2>5 DEF FlushOK, Snapshots
    <3>2. durable'[t.bucket][t.window].requests = durable[t.bucket][t.window].requests
      BY <2>3, <3>1
    <3> QED BY <1>3, <1>6, <2>5, <3>1, <3>2, KeptSnap
  <2>6. ASSUME NEW b \in Buckets, ~ Behind(b)' PROVE Level(b)'
    <3>1. ASSUME NEW w \in Windows, cells[b].window = w
          PROVE  durable'[b][w].requests = durable[b][w].requests
      BY <1>2, <2>1, <2>3, <2>6, <3>1 DEF Behind
    <3> QED BY <1>3, <1>6, <3>1, KeptCell
  <2>7. Lands(s)'
    <3> DEFINE b == s.bucket
               w == s.window
               d == durable[b][w].requests
    <3> SUFFICES ASSUME cells[b].window = w, ~ Stale(b)'
                 PROVE  durable'[b][w].requests + cells[b].requests - s.current["requests"] <= Count(b, w)
      BY <1>2, <1>9, <2>2 DEF Lands
    <3>1. ~ Stale(b)
      BY <1>2, <2>2, StaleStays
    <3>2. /\ d \in Nat /\ Count(b, w) \in Nat /\ cells[b].requests \in Nat
          /\ cells[b].flushed["requests"] \in Nat
      BY <2>2, CoverTypes, SentTypes
    <3>3. d + cells[b].requests - cells[b].flushed["requests"] <= Count(b, w)
      BY <1>6, <2>2, <3>1 DEF Level
    <3>4. cells[b].flushed["requests"] + s.delta["requests"] = s.current["requests"]
      BY <1>4, <1>6, <3>1 DEF SnapOK
    <3>5. ~ (s.delta["requests"] < 0)
      BY <1>4, <1>6, <3>1 DEF SnapOK, Stale
    <3>6. durable'[b][w].requests = d + s.delta["requests"]
      BY <2>2, <2>3, <3>2, <3>5 DEF Floor
    <3> QED BY <2>2, <3>2, <3>3, <3>4, <3>6
  <2> QED BY <1>4, <1>5, <1>7, <1>8, <2>1, <2>4, <2>5, <2>6, <2>7 DEF SentInv
<1>12. ~ \E fault \in {"lost"} : trouble' = trouble \cup {fault}
  BY DEF Once
<1> QED BY <1>4, <1>10, <1>11, <1>12

\* A baseline moves to what the store has.
LEMMA SentAcknowledge ==
  ASSUME TypeInv, HeldInv, CountTypes, AgeInv, FlushInv, SentInv, Once, [Next]_vars,
         Acknowledge("task")
  PROVE  SentInv'
<1> DEFINE f == "task"
<1>1. f \in Flushers /\ FlushOK(flush[f]) /\ flush[f].pc \in {"acked", "failed"}
  BY DEF Flushers, FlushInv, Acknowledge
<1>2. UNCHANGED <<durable, landed>>
  BY <1>1, CountFrames DEF FlushWork
<1>a. PICK s \in flush[f].snaps : Acks(f, s)
  BY <1>1, AcknowledgeCells
<1>3. /\ s \in Snapshots /\ flush[f].ack = {s}
      /\ \A b \in Buckets :
           /\ SameCount(b)
           /\ cells'[b].flushed = IF b = s.bucket /\ flush[f].pc = "acked" /\ cells[b].window = s.window
                                  THEN s.current ELSE cells[b].flushed
           /\ cells'[b].billable = cells[b].billable
           /\ cells'[b].dirty <=> \/ cells[b].dirty
                                  \/ b = s.bucket /\ cells[b].window = s.window /\ flush[f].pc # "acked"
      /\ flush' = [flush EXCEPT ![f] =
           IF flush[f].snaps = {s} THEN Resting(f)
           ELSE [flush[f] EXCEPT !.pc = "write", !.snaps = flush[f].snaps \ {s}, !.ack = {}]]
  BY <1>a DEF Acks
<1>4. PICK q : Becomes(f, q) /\ q.pc # "acked" /\ q.snaps = flush[f].snaps \ {s}
  BY <1>1, <1>3, AcknowledgeBecomes
<1>5. flush'[f] = q
  BY <1>1, <1>4 DEF Becomes, CountTypes
<1>6. Written(f)' = {} /\ Written(f) = IF flush[f].pc = "acked" THEN {s} ELSE {}
  BY <1>3, <1>4, <1>5 DEF Written
<1>7. NotAhead'
  <2>1. \A b \in Buckets : \A w \in Windows :
          Count(b, w)' = Count(b, w) /\ (Firm(b, w)' => Firm(b, w))
    BY <1>2, CountGrows, FirmShrinks DEF Windows
  <2> QED BY <1>2, <2>1 DEF SentInv, NotAhead
<1>8. ASSUME NEW t \in flush[f].snaps, t # s PROVE SnapOK(t)' /\ Waits(t)'
  <2>1. t \in Snapshots /\ t.bucket # s.bucket /\ t.bucket \in Buckets
    BY <1>1, <1>8 DEF CountTypes, FlushStates, FlushOK, Snapshots
  <2>2. KeepsCell(t.bucket)
    BY <1>3, <2>1 DEF KeepsCell, SameCount
  <2>3. SnapOK(t) /\ Waits(t)
    BY <1>6, <1>8 DEF SentInv
  <2> QED BY <1>2, <2>1, <2>2, <2>3, KeptSnap
<1>9. ASSUME NEW b \in Buckets PROVE CellOK(b)' /\ Level(b)'
  <2>1. CASE b = s.bucket /\ flush[f].pc = "acked" /\ cells[b].window = s.window
    <3>1. /\ cells'[b].window = cells[b].window /\ cells'[b].requests = cells[b].requests
          /\ cells'[b].flushed = s.current
      BY <1>3, <2>1 DEF SameCount
    <3>2. SnapOK(s) /\ Lands(s)
      BY <1>6, <2>1 DEF SentInv
    <3>3. Stale(b) => Stale(b)'
      BY <3>1, StaleStays
    <3>4. CellOK(b)'
      BY <2>1, <3>1, <3>2, <3>3 DEF CellOK, SnapOK
    <3>5. ASSUME NEW w \in Windows, cells[b].window = w, ~ Stale(b)'
          PROVE  durable[b][w].requests + cells[b].requests - s.current["requests"] <= Count(b, w)'
      <4>1. Count(b, w)' = Count(b, w)
        BY <1>2, CountGrows
      <4> QED BY <2>1, <3>2, <3>3, <3>5, <4>1 DEF Lands
    <3> QED BY <1>2, <3>1, <3>4, <3>5 DEF Level
  <2>2. CASE ~ (b = s.bucket /\ flush[f].pc = "acked" /\ cells[b].window = s.window)
    <3>1. KeepsCell(b)
      BY <1>3, <2>2 DEF KeepsCell, SameCount
    <3>2. CellOK(b) /\ Level(b)
      BY <1>6, <2>2 DEF SentInv, Behind
    <3> QED BY <1>2, <3>1, <3>2, KeptCell
  <2> QED BY <2>1, <2>2
<1> QED BY <1>4, <1>5, <1>6, <1>7, <1>8, <1>9 DEF SentInv

\* A stop forgets the cells; a boot makes them of what the store has.
LEMMA SentRestart ==
  ASSUME TypeInv, HeldInv, CountTypes, AgeInv, FlushInv, SentInv, Once, [Next]_vars, Die \/ Boot
  PROVE  SentInv'
<1>1. UNCHANGED <<durable, landed, now>>
  BY CountFrames
<1>2. \A b \in Buckets : \A w \in Windows :
        Count(b, w)' = Count(b, w) /\ (Firm(b, w)' => Firm(b, w))
  BY <1>1, CountGrows, FirmShrinks DEF Windows
<1>3. NotAhead /\ NotAhead'
  BY <1>1, <1>2 DEF SentInv, NotAhead
<1>4. flush'["task"].snaps = {} /\ Written("task")' = {}
  <2>1. CASE Die
    <3>1. flush'["task"] = Idle
      BY <2>1 DEF Die, Flushers
    <3> QED BY <3>1, IdleFlush DEF Written
  <2>2. CASE Boot
    <3>1. flush' = flush /\ flush["task"].pc = "idle" /\ flush["task"].snaps = {}
      BY <2>2, CountFrames DEF Boot, FlushInv, FlushOK, Flushers
    <3> QED BY <3>1 DEF Written
  <2> QED BY <2>1, <2>2
<1>5. ASSUME NEW b \in Buckets PROVE CellOK(b)' /\ Level(b)'
  <2>1. CASE Die
    <3>1. cells'[b].window = -1
      BY <2>1, AbsentCell DEF Die
    <3> QED BY <3>1 DEF CellOK, Level, Windows
  <2>2. CASE Boot
    <3>1. cells'[b] = Hydrated(b)
      BY <2>2 DEF Boot
    <3>2. CASE cells'[b].window = -1
      BY <3>2 DEF CellOK, Level, Windows
    <3>3. CASE /\ cells'[b].window = Window(b, now)
               /\ cells'[b].requests = durable[b][Window(b, now)].requests
               /\ cells'[b].flushed["requests"] = durable[b][Window(b, now)].requests
      <4>1. Window(b, now) \in Windows /\ cells'[b].requests \in Nat
        BY <3>1, HydratedCell DEF Cells
      <4>2. CellOK(b)'
        BY <3>3, <4>1 DEF CellOK
      <4>3. ASSUME NEW w \in Windows, cells'[b].window = w, ~ Stale(b)'
            PROVE  durable'[b][w].requests + cells'[b].requests - cells'[b].flushed["requests"]
                     <= Count(b, w)'
        <5>1. durable[b][w].requests <= Count(b, w) /\ durable[b][w].requests \in Nat
          BY <1>2, <1>3, <4>3, CoverTypes, FreshIsFirm DEF NotAhead
        <5> QED BY <1>1, <1>2, <3>3, <4>1, <5>1
      <4> QED BY <4>2, <4>3 DEF Level
    <3> QED BY <3>1, <3>2, <3>3, HydratedCell
  <2> QED BY <2>1, <2>2
<1> QED BY <1>3, <1>4, <1>5 DEF SentInv

\* What is on its way to the store stays in order.
LEMMA SentStep ==
  ASSUME TypeInv, HeldInv, CountTypes, AgeInv, FlushInv, SentInv, [Next]_vars
  PROVE  SentInv'
<1>1. CASE ~ Once'
  BY <1>1 DEF SentInv
<1>2. CASE Once'
  <2>1. Once
    BY <1>2, FlushInvStep DEF Once
  <2>2. \A f \in Flushers : FlushWork(f) => f = "task"
    BY <2>1, FlushWorks DEF Once, Flushers
  <2>3. CASE \E f \in Flushers : FlushWork(f)
    BY <1>2, <2>1, <2>2, <2>3, SentScan, SentWrite, SentAcknowledge DEF FlushWork
  <2>4. CASE Die \/ Boot
    BY <2>1, <2>4, SentRestart
  <2>5. CASE Quiet \/ \E r \in Requests : LockShard(r) \/ Charge(r) \/ SettleBucket(r)
    BY <2>1, <2>5, SentOutside
  <2> QED BY <2>3, <2>4, <2>5, CountSteps
<1> QED BY <1>1, <1>2

\* Nothing is on its way to the store.
LEMMA SentInit ==
  ASSUME Init
  PROVE  SentInv
<1>1. CountTypes
  BY CountInit
<1>2. \A b \in Buckets : cells[b].window = -1
  BY AbsentCell DEF Init
<1>3. flush["task"].snaps = {}
  BY IdleFlush DEF Init, Flushers
<1>4. \A b \in Buckets : CellOK(b) /\ Level(b)
  BY <1>2 DEF CellOK, Level, Windows
<1>5. NotAhead
  <2> SUFFICES ASSUME NEW b \in Buckets, NEW w \in Windows
               PROVE  durable[b][w].requests <= Count(b, w)
    BY DEF NotAhead
  <2>1. durable[b][w].requests = 0
    BY DEF Init, Counters
  <2> QED BY <1>1, <2>1, CoverTypes
<1> QED BY <1>3, <1>4, <1>5 DEF SentInv

\* Unless an acknowledgement was lost, and until the final flushes, the store has
\* no more requests of a firm window than were charged to it, over any failures of writes, rollovers,
\* sweeps, late accruals, crashes and restarts (flush_budgets, hydrate_budgets).
THEOREM StoreIsNeverAhead == Spec => []FlushedOnce
<1> DEFINE Inv == TypeInv /\ HeldInv /\ CountTypes /\ AgeInv /\ FlushInv /\ SentInv
<1>1. Init => Inv
  BY InitInv, CountInit, SentInit
<1>2. Inv /\ [Next]_vars => Inv'
  BY TypeHeldStep, CountTypesStep, AgeInvStep, FlushInvStep, SentStep
<1>3. Inv => FlushedOnce
  BY DEF SentInv, FlushedOnce, Once
<1> QED
  <2> HIDE DEF Inv
  <2> QED BY <1>1, <1>2, <1>3, PTL DEF Spec

-----------------------------------------------------------------------------
(* The windows that the sweep has not reached *)

\* What a request has left to settle, and may be about to.
TodoOK(q) ==
  /\ q.pc # "closing" => q.todo = {}
  /\ q.pc \notin {"closing", "done", "dead"} => q.job = "none"

Owes(r, b) ==
  \/ req[r].pc = "flight" /\ b \in ChargedBuckets(r)
  \/ b \in req[r].todo

\* A request settles what it charged, in no window after the one it is charged to.
OwesInv ==
  \A r \in Requests :
    /\ TodoOK(req[r])
    /\ \A b \in Buckets : Owes(r, b) => Window(b, req[r].at) <= landed[r][b]

\* While the window that a request was charged to is kept, its cell is not older.
StayInv ==
  \A r \in Requests : \A b \in Buckets :
    req[r].pc \notin Settled /\ Kept(b, landed[r][b]) => landed[r][b] <= cells[b].window

\* A cell of a window that is kept covers what was charged to it.
CoverKept ==
  phase # "down" => \A b \in Buckets : \A w \in Windows :
    cells[b].window = w /\ Kept(b, w) => Count(b, w) <= forgotten[b][w] + cells[b].requests

\* What a step makes of what a request owes and has been refunded.
OwesOn(r) ==
  /\ TodoOK(req'[r])
  /\ req'[r].pc \notin Settled => req[r].pc \notin Settled \ {"new"}
  /\ \A b \in Buckets :
       /\ Owes(r, b)' => Owes(r, b) \/ (Charge(r) /\ b \in ChargedBuckets(r))
       /\ Refund(r, b) => Refund(r, b)'

\* A request that does not move owes what it owed.
LEMMA OwesSame ==
  ASSUME NEW r \in Requests, req'[r] = req[r], TodoOK(req[r])
  PROVE  OwesOn(r)
BY DEF OwesOn, Owes, Refund, ChargedBuckets, Applying, Settled

\* A request that is admitted, or refused.
LEMMA OwesAdmission ==
  ASSUME TypeInv, NEW r \in Requests, TodoOK(req[r]),
         req[r].pc \in Admission \cup {"new"},
         req'[r].pc \notin {"closing", "done", "dead", "flight"},
         req'[r].todo = req[r].todo, req'[r].job = req[r].job
  PROVE  OwesOn(r)
BY DEF OwesOn, Owes, Refund, TodoOK, Settled, Admission

\* A request owes no more after a step of its own, but for what it charges.
LEMMA OwesOwn ==
  ASSUME TypeInv, HeldInv, NEW r \in Requests, TodoOK(req[r]), Arrive(r) \/ Admit(r) \/ Settle(r)
  PROVE  OwesOn(r)
<1>0. req[r] \in RequestStates /\ req \in [Requests -> RequestStates]
  BY DEF TypeInv
<1>1. CASE Arrive(r)
  <2>1. CASE req' = [req EXCEPT ![r].pc = "refused"]
    <3>1. req'[r].pc = "refused" /\ req'[r].todo = req[r].todo /\ req'[r].job = req[r].job
      BY <1>0, <2>1 DEF RequestStates
    <3> QED BY <1>1, <3>1, OwesAdmission DEF Admission, Arrive
  <2>2. CASE req' = [req EXCEPT ![r] =
                       [req[r] EXCEPT !.pc = Entry(r), !.at = now, !.pool = Asked[r]]]
    <3>1. req'[r].pc = Entry(r) /\ req'[r].todo = req[r].todo /\ req'[r].job = req[r].job
      BY <1>0, <2>2 DEF RequestStates
    <3>2. Entry(r) \in {"locking", "gauges"}
      BY DEF Entry
    <3> QED BY <1>1, <3>1, <3>2, OwesAdmission DEF Admission, Arrive
  <2> QED BY <1>1, <2>1, <2>2 DEF Arrive
<1>2. ASSUME NEW after \in {"refused", "gauges", "locking"}, NEW pool, NEW visited,
             Retreat(r, after, pool, visited), req[r].pc \in {"gauges", "check"}
      PROVE  OwesOn(r)
  <2> DEFINE p == IF req[r].held = {} THEN after ELSE "rollback"
  <2>1. req' = [req EXCEPT ![r] = [req[r] EXCEPT !.pc = p, !.after = after, !.pool = pool,
                                                 !.visited = visited]]
    BY <1>2 DEF Retreat
  <2>2. p \in {"refused", "gauges", "locking", "rollback"}
    OBVIOUS
  <2> HIDE DEF p
  <2>3. req'[r].pc = p /\ req'[r].todo = req[r].todo /\ req'[r].job = req[r].job
    BY <1>0, <2>1 DEF RequestStates
  <2> QED BY <1>2, <2>2, <2>3, OwesAdmission DEF Admission
<1>3. CASE TakeGauge(r)
  <2>1. PICK held, p : /\ req' = [req EXCEPT ![r] = [req[r] EXCEPT !.held = held, !.pc = p]]
                       /\ p \in {"locking", "gauges"}
    BY <1>3 DEF TakeGauge
  <2>2. req'[r].pc = p /\ req'[r].todo = req[r].todo /\ req'[r].job = req[r].job
    BY <1>0, <2>1 DEF RequestStates
  <2> QED BY <1>3, <2>1, <2>2, OwesAdmission DEF Admission, TakeGauge
<1>4. CASE GaugeFull(r)
  BY <1>2, <1>4 DEF GaugeFull
<1>5. CASE LockShard(r)
  <2>1. PICK p \in {"locking", "check"} : req' = [req EXCEPT ![r].pc = p]
    BY <1>5 DEF LockShard
  <2>2. req'[r].pc = p /\ req'[r].todo = req[r].todo /\ req'[r].job = req[r].job
    BY <1>0, <2>1 DEF RequestStates
  <2> QED BY <1>5, <2>2, OwesAdmission DEF Admission, LockShard
<1>6. CASE Charge(r)
  <2>1. req' = [req EXCEPT ![r].pc = "flight"] /\ req[r].pc = "check"
    BY <1>6 DEF Charge
  <2>2. /\ req'[r].pc = "flight" /\ req'[r].todo = req[r].todo /\ req'[r].job = req[r].job
        /\ req'[r].pool = req[r].pool
    BY <1>0, <2>1 DEF RequestStates
  <2>3. ChargedBuckets(r)' = ChargedBuckets(r)
    BY <2>2 DEF ChargedBuckets, Applying
  <2> QED BY <1>6, <2>1, <2>2, <2>3 DEF OwesOn, Owes, Refund, TodoOK, Settled
<1>7. CASE Blocked(r)
  <2>1. Entry(r) \in {"locking", "gauges"}
    BY DEF Entry
  <2> QED BY <1>2, <1>7, <2>1 DEF Blocked
<1>8. ASSUME NEW job, NEW todo \in SUBSET ChargedBuckets(r), NEW tokens, Close(r, job, todo, tokens),
             req[r].pc = "flight"
      PROVE  OwesOn(r)
  <2> DEFINE p == IF todo = {} /\ req[r].held = {} THEN "done" ELSE "closing"
  <2>1. req' = [req EXCEPT ![r] = [req[r] EXCEPT !.pc = p, !.job = job, !.todo = todo, !.tokens = tokens]]
    BY <1>8 DEF Close
  <2>2. p \in {"done", "closing"} /\ (p = "done" => todo = {})
    OBVIOUS
  <2> HIDE DEF p
  <2>3. req'[r].pc = p /\ req'[r].todo = todo
    BY <1>0, <2>1 DEF RequestStates
  <2> QED BY <1>8, <2>2, <2>3 DEF OwesOn, Owes, Refund, TodoOK, Settled
<1>9. CASE Fail(r)
  BY <1>8, <1>9 DEF Fail
<1>10. CASE Serve(r)
  <2>1. PICK t \in Usage[r] : Close(r, "accrue", IF t = 0 THEN {} ELSE ChargedBuckets(r), t)
    BY <1>10 DEF Serve
  <2> QED BY <1>8, <1>10, <2>1 DEF Serve
<1>11. CASE SettleBucket(r)
  <2>1. PICK a \in req[r].todo, p \in {"done", "closing"} :
          /\ req' = [req EXCEPT ![r] = [req[r] EXCEPT !.todo = req[r].todo \ {a}, !.pc = p]]
          /\ p = "done" => req[r].todo = {a}
    BY <1>11 DEF SettleBucket
  <2>2. req'[r].pc = p /\ req'[r].todo = req[r].todo \ {a} /\ req'[r].job = req[r].job
    BY <1>0, <2>1 DEF RequestStates
  <2> QED BY <1>11, <2>1, <2>2 DEF OwesOn, Owes, Refund, TodoOK, Settled, SettleBucket
<1>12. CASE ReleaseGauge(r)
  <2>1. PICK held, p : req' = [req EXCEPT ![r] = [req[r] EXCEPT !.held = held, !.pc = p]]
               /\ \/ p = req[r].pc
                  \/ req[r].pc = "rollback" /\ p = req[r].after
                  \/ req[r].pc = "closing" /\ p = IF req[r].todo = {} THEN "done" ELSE "closing"
    BY <1>12 DEF ReleaseGauge
  <2>2. req'[r].pc = p /\ req'[r].todo = req[r].todo /\ req'[r].job = req[r].job
    BY <1>0, <2>1 DEF RequestStates
  <2>3. req[r].after \in {"refused", "gauges", "locking"}
    BY <1>0 DEF RequestStates
  <2>4. req[r].pc \in {"rollback", "closing"}
    BY <1>12 DEF ReleaseGauge
  <2>5. CASE req[r].pc = "rollback"
    BY <2>1, <2>2, <2>3, <2>5, OwesAdmission DEF Admission
  <2>6. CASE req[r].pc = "closing"
    BY <2>1, <2>2, <2>6 DEF OwesOn, Owes, Refund, TodoOK, Settled
  <2> QED BY <2>4, <2>5, <2>6
<1> QED BY <1>1, <1>3, <1>4, <1>5, <1>6, <1>7, <1>9, <1>10, <1>11, <1>12 DEF Admit, Settle

\* What requests owe, over any step.
LEMMA OwesSteps ==
  ASSUME TypeInv, HeldInv, \A r \in Requests : TodoOK(req[r]), [Next]_vars
  PROVE  \A r \in Requests : OwesOn(r)
<1>0. req \in [Requests -> RequestStates]
  BY DEF TypeInv
<1>1. ASSUME NEW x \in Requests, Arrive(x) \/ Admit(x) \/ Settle(x), NEW r \in Requests
      PROVE  OwesOn(r)
  <2>1. CASE r = x
    BY <1>1, <2>1, OwesOwn
  <2>2. CASE r # x
    <3>1. req'[r] = req[r]
      BY <1>1, <2>2, OthersUntouched
    <3> QED BY <3>1, OwesSame
  <2> QED BY <2>1, <2>2
<1>2. ASSUME Elsewhere, NEW r \in Requests PROVE OwesOn(r)
  BY <1>2, ElsewhereFrame, OwesSame
<1>3. ASSUME Die, NEW r \in Requests PROVE OwesOn(r)
  <2>1. CASE req[r].pc \in Settled
    <3>1. req'[r] = req[r]
      BY <1>3, <2>1 DEF Die
    <3> QED BY <3>1, OwesSame
  <2>2. CASE req[r].pc \notin Settled
    <3>1. req'[r] = [req[r] EXCEPT !.pc = "dead", !.held = {}, !.todo = {}]
      BY <1>3, <2>2 DEF Die
    <3>2. req'[r].pc = "dead" /\ req'[r].todo = {} /\ req'[r].job = req[r].job
      BY <1>0, <3>1 DEF RequestStates
    <3> QED BY <3>2 DEF OwesOn, Owes, Refund, TodoOK, Settled
  <2> QED BY <2>1, <2>2
<1> QED BY <1>1, <1>2, <1>3, StepKinds

\* The kinds of steps while the process runs, by what they do to the window and
\* the requests of a cell.
LEMMA CellMoves ==
  ASSUME TypeInv, CountTypes, AgeInv, FlushInv, [Next]_vars, NEW b \in Buckets
  PROVE  \/ /\ cells'[b].window = cells[b].window /\ cells'[b].requests = cells[b].requests
            /\ UNCHANGED <<landed, forgotten>>
         \/ /\ cells[b].window < cells'[b].window /\ UNCHANGED <<landed, forgotten>>
            /\ \E r \in Requests : /\ req[r].pc = "closing" /\ b \in req[r].todo
                                   /\ cells'[b].window = Window(b, req[r].at)
         \/ \E r \in Requests : Charge(r)
         \/ /\ cells'[b] = Absent
            /\ \E r \in Requests : cells[b].window > 0 /\ cells[b].window + MaxAge <= req[r].at
         \/ Die
         \/ Boot
<1>1. CASE Quiet
  BY <1>1 DEF Quiet
<1>2. ASSUME NEW r \in Requests, LockShard(r) PROVE cells'[b] = cells[b] \/
              (cells'[b] = Absent /\ cells[b].window > 0 /\ cells[b].window + MaxAge <= req[r].at)
  BY <1>2, SweepCells
<1>3. ASSUME NEW r \in Requests, SettleBucket(r)
      PROVE  \/ cells'[b].window = cells[b].window /\ cells'[b].requests = cells[b].requests
             \/ /\ cells[b].window < cells'[b].window /\ req[r].pc = "closing" /\ b \in req[r].todo
                /\ cells'[b].window = Window(b, req[r].at)
  <2>1. \/ cells'[b].window = cells[b].window /\ cells'[b].requests = cells[b].requests
        \/ cells[b].window < cells'[b].window /\ cells'[b].window = Window(b, req[r].at)
    BY <1>3, SettleCells DEF SameCount
  <2>2. req[r].pc = "closing" /\ (b \in req[r].todo \/ cells'[b] = cells[b])
    BY <1>3 DEF SettleBucket, CountTypes
  <2> QED BY <2>1, <2>2
<1>4. ASSUME NEW f \in Flushers, FlushWork(f)
      PROVE  cells'[b].window = cells[b].window /\ cells'[b].requests = cells[b].requests
  BY <1>4, CountFrames, ScanCells, AcknowledgeCells DEF FlushWork, SameCount, FlushInv, Acks
<1> QED BY <1>1, <1>2, <1>3, <1>4, CountSteps, CountFrames

\* A late accrual makes no cell of a window that is kept: the cell it was charged
\* to is there.
LEMMA KeptNotMade ==
  ASSUME TypeInv, HeldInv, CountTypes, OwesInv, StayInv, [Next]_vars, NEW b \in Buckets,
         NEW r \in Requests, req[r].pc = "closing", b \in req[r].todo,
         NEW w, w = Window(b, req[r].at), cells[b].window < w
  PROVE  ~ Kept(b, w) /\ ~ Kept(b, w)'
<1>1. w \in Nat /\ w \in Int
  BY WindowBounds DEF TypeInv, RequestStates, Windows
<1>2. w <= landed[r][b] /\ landed[r][b] \in Int /\ cells[b].window \in Int
  BY DEF OwesInv, Owes, CountTypes, Cells, Windows
<1>3. Kept(b, w) => Kept(b, landed[r][b])
  BY <1>1, <1>2, KeptShrinks
<1>4. ~ Kept(b, w)
  BY <1>1, <1>2, <1>3 DEF StayInv, Settled
<1> QED BY <1>1, <1>4, KeptShrinks

\* Every step keeps OwesInv: only a charge adds to what is owed.
LEMMA OwesInvStep ==
  ASSUME TypeInv, HeldInv, CountTypes, AgeInv, FlushInv, OwesInv, [Next]_vars
  PROVE  OwesInv'
<1>1. ASSUME NEW r \in Requests PROVE OwesOn(r) /\ TodoOK(req'[r])
  BY OwesSteps DEF OwesInv, OwesOn
<1>2. ASSUME NEW r \in Requests, NEW b \in Buckets, Owes(r, b)'
      PROVE  Window(b, req'[r].at) <= landed'[r][b]
  <2>1. CASE Owes(r, b)
    <3>1. req[r].pc \in {"flight", "closing"}
      BY <2>1 DEF Owes, OwesInv, TodoOK
    <3>2. req'[r].at = req[r].at
      BY <3>1, TimeStep DEF Advances
    <3>3. landed'[r][b] = landed[r][b]
      <4>1. ASSUME NEW x \in Requests, Charge(x) PROVE landed'[r][b] = landed[r][b]
        <5>1. x # r
          BY <3>1, <4>1 DEF Charge
        <5> QED BY <4>1, <5>1, ChargeLands
      <4> QED BY <4>1, CountSteps, CountFrames DEF Quiet
    <3> QED BY <2>1, <3>2, <3>3 DEF OwesInv
  <2>2. CASE Charge(r) /\ b \in ChargedBuckets(r)
    <3>1. landed'[r][b] = cells'[b].window
      BY <2>2, ChargeLands
    <3>2. Window(b, req[r].at) <= cells'[b].window
      BY <2>2, ChargeCells
    <3>3. req'[r].at = req[r].at
      BY <2>2, TimeStep DEF Advances, Charge
    <3> QED BY <3>1, <3>2, <3>3
  <2> QED BY <1>1, <1>2, <2>1, <2>2 DEF OwesOn
<1> QED BY <1>1, <1>2 DEF OwesInv, TodoOK

\* Every step keeps StayInv: a cell rolls forward, and is swept too late to matter.
LEMMA StayInvStep ==
  ASSUME TypeInv, HeldInv, CountTypes, AgeInv, FlushInv, OwesInv, StayInv, [Next]_vars
  PROVE  StayInv'
<1> SUFFICES ASSUME NEW r \in Requests, NEW b \in Buckets, req'[r].pc \notin Settled,
                    Kept(b, landed[r][b])'
             PROVE  landed'[r][b] <= cells'[b].window
  BY DEF StayInv
<1>1. req[r].pc \notin Settled \ {"new"}
  BY OwesSteps DEF OwesInv, OwesOn
<1>2. CountTypes'
  BY CountTypesStep
<1>3. /\ landed[r][b] \in Int /\ landed'[r][b] \in Int /\ cells[b].window \in Int
      /\ cells'[b].window \in Int /\ cells'[b].window >= -1
  BY <1>2 DEF CountTypes, Cells, Windows
<1>4. req[r].pc = "new" => landed[r][b] = -1
  BY DEF AgeInv
<1>5. Kept(b, landed'[r][b])
  <2>1. \A v \in Int : Kept(b, v)' => Kept(b, v)
    BY KeptShrinks
  <2>2. PICK v : v = landed'[r][b]
    OBVIOUS
  <2>3. Kept(b, v)'
    BY <2>2 DEF Kept
  <2> QED BY <1>3, <2>1, <2>2, <2>3
<1>6. Kept(b, landed[r][b]) => landed[r][b] <= cells[b].window \/ landed[r][b] = -1
  BY <1>1, <1>4 DEF StayInv
<1>7. ASSUME UNCHANGED landed, cells[b].window <= cells'[b].window PROVE landed'[r][b] <= cells'[b].window
  BY <1>3, <1>5, <1>6, <1>7
<1>8. CASE \E x \in Requests : Charge(x)
  <2>1. PICK x \in Requests : Charge(x)
    BY <1>8
  <2>2. cells[b].window <= cells'[b].window
    <3>1. CASE b \in ChargedBuckets(x)
      BY <1>3, <2>1, <3>1, ChargeCells, FreshCell
    <3>2. CASE b \notin ChargedBuckets(x)
      BY <1>3, <2>1, <3>2, ChargeCells
    <3> QED BY <3>1, <3>2
  <2>3. landed'[r][b] = landed[r][b] \/ landed'[r][b] = cells'[b].window
    BY <2>1, ChargeLands
  <2> QED BY <1>3, <1>5, <1>6, <2>2, <2>3
<1>9. CASE cells'[b] = Absent /\ \E x \in Requests : cells[b].window > 0 /\ cells[b].window + MaxAge <= req[x].at
  <2>1. landed' = landed \/ \E x \in Requests : Charge(x)
    BY CountSteps, CountFrames DEF Quiet
  <2>2. ASSUME landed' = landed PROVE landed'[r][b] <= cells'[b].window
    <3>1. ~ (landed[r][b] <= cells[b].window)
      BY <1>3, <1>5, <1>9, <2>2, SweptIsNotKept
    <3>2. landed[r][b] = -1
      BY <1>5, <1>6, <2>2, <3>1
    <3> QED BY <1>3, <2>2, <3>2
  <2> QED BY <1>8, <2>1, <2>2
<1>10. CASE Die \/ Boot
  <2>1. FlushInv'
    BY FlushInvStep
  <2>2. Die => req'[r].pc \in Settled
    BY <2>1 DEF Die, FlushInv
  <2>3. Boot => req'[r].pc \in Settled
    BY CountFrames DEF Boot, FlushInv
  <2> QED BY <1>10, <2>2, <2>3
<1> QED BY <1>3, <1>7, <1>8, <1>9, <1>10, CellMoves

\* Every step keeps CoverKept: what is charged is charged to the cell.
LEMMA CoverKeptStep ==
  ASSUME TypeInv, HeldInv, CountTypes, AgeInv, FlushInv, CoverInv, CoverInv', OwesInv, StayInv, CoverKept,
         [Next]_vars
  PROVE  CoverKept'
<1> SUFFICES ASSUME phase' # "down", NEW b \in Buckets, NEW w \in Windows, cells'[b].window = w, Kept(b, w)'
             PROVE  Count(b, w)' <= forgotten'[b][w] + cells'[b].requests
  BY DEF CoverKept
<1>1. CountTypes' /\ TypeInv'
  BY CountTypesStep, TypeHeldStep
<1>2. Kept(b, w) /\ w \in Int
  BY KeptShrinks DEF Windows
<1>0. Firm(b, w) /\ Firm(b, w)'
  BY <1>2 DEF Firm
<1>3. Live(b, w)' => Count(b, w)' <= forgotten'[b][w] + cells'[b].requests
  <2>1. CellCount(b, w)' = cells'[b].requests
    BY DEF CellCount
  <2>2. cells'[b].window <= w
    BY <1>2
  <2> QED BY <2>1, <2>2 DEF CoverInv
<1>4. CASE Boot
  <2>1. cells'[b] = Hydrated(b) /\ now' = now
    BY <1>4, CountFrames DEF Boot
  <2>2. w = Window(b, now')
    BY <2>1, HydratedCell DEF Windows
  <2>3. Live(b, w)'
    BY <1>0, <1>2, <2>2 DEF Live
  <2> QED BY <1>3, <2>3
<1>5. CASE phase # "down" /\ cells'[b].window = cells[b].window /\ cells'[b].requests = cells[b].requests
           /\ UNCHANGED <<landed, forgotten>>
  BY <1>2, <1>5 DEF CoverKept, Count
<1>6. CASE phase # "down" /\ \E r \in Requests : Charge(r)
  <2>1. PICK r \in Requests : Charge(r)
    BY <1>6
  <2>2. forgotten' = forgotten
    BY <2>1, CountFrames
  <2>3. Count(b, w)' = IF b \in ChargedBuckets(r) THEN Count(b, w) + 1 ELSE Count(b, w)
    BY <2>1, ChargeCounts
  <2>4. CASE b \notin ChargedBuckets(r)
    <3>1. cells'[b] = cells[b]
      BY <2>1, <2>4, ChargeCells
    <3> QED BY <1>2, <1>6, <2>2, <2>3, <2>4, <3>1 DEF CoverKept
  <2>5. CASE b \in ChargedBuckets(r)
    <3> DEFINE v == Window(b, req[r].at)
               c == Rolled(cells[b], v)
    <3>1. /\ cells'[b].window = c.window /\ cells'[b].requests = c.requests + 1
          /\ c \in Cells /\ v \in Windows
          /\ \/ c = cells[b] /\ v <= cells[b].window
             \/ c = Fresh(v) /\ cells[b].window < v
      BY <2>1, <2>5, ChargeCells
    <3>2. Fresh(v).window = v /\ Fresh(v).requests = 0
      BY <3>1, FreshCell
    <3>3. Firm(b, v) => Live(b, v)
      <4>1. Window(b, req[r].at) <= v
        BY <3>1 DEF Windows
      <4> QED BY <2>1, <4>1 DEF Live, Charge, Admission
    <3> HIDE DEF c
    <3>4. c.requests \in Nat
      BY <3>1 DEF Cells
    <3>5. Count(b, w) <= forgotten[b][w] + c.requests
      <4>1. CASE c = cells[b]
        BY <1>2, <1>6, <3>1, <4>1 DEF CoverKept
      <4>2. CASE c = Fresh(v) /\ cells[b].window < v
        <5>1. w = v /\ cells[b].window <= w /\ CellCount(b, w) = 0
          BY <3>1, <3>2, <4>2, CoverTypes DEF CellCount
        <5>2. Count(b, w) <= forgotten[b][w] + CellCount(b, w)
          BY <1>0, <1>6, <3>3, <5>1 DEF CoverInv
        <5> QED BY <3>2, <4>2, <5>1, <5>2
      <4> QED BY <3>1, <4>1, <4>2
    <3> QED BY <2>2, <2>3, <2>5, <3>1, <3>4, <3>5, CoverTypes
  <2> QED BY <2>4, <2>5
<1>7. CASE cells'[b] = Absent
  BY <1>7, AbsentCell DEF Windows
<1>8. CASE \E r \in Requests : /\ req[r].pc = "closing" /\ b \in req[r].todo
                               /\ cells'[b].window = Window(b, req[r].at) /\ cells[b].window < cells'[b].window
  BY <1>2, <1>8, KeptNotMade
<1>9. ~ Die
  BY DEF Die
<1>10. CASE phase = "down" /\ ~ Boot
  <2>1. phase' = phase
    BY <1>10, <1>9, CountSteps, CountFrames DEF Quiet
  <2> QED BY <1>10, <2>1
<1> QED BY <1>4, <1>5, <1>6, <1>7, <1>8, <1>10, <1>9, CellMoves

-----------------------------------------------------------------------------
(* A graceful stop *)

\* A snapshot of a window that is kept: its cell is still there and has only
\* grown, its delta is no loss, and once the store takes it the store has what
\* the cell had.
Fitting(s) ==
  Kept(s.bucket, s.window) =>
    /\ s.window <= cells[s.bucket].window
    /\ cells[s.bucket].window = s.window => s.current["requests"] <= cells[s.bucket].requests
    /\ s.delta["requests"] >= 0
    /\ s.current["requests"] <= durable[s.bucket][s.window].requests + s.delta["requests"]

Taken(s) ==
  Kept(s.bucket, s.window) => s.current["requests"] <= durable[s.bucket][s.window].requests

SnapInv ==
  \A f \in Flushers : \A s \in flush[f].snaps : Fitting(s) /\ (s \in Written(f) => Taken(s))

\* A cell that is not dirty is in the store, or in a snapshot on its way to it.
Sending(b, w) ==
  \/ cells[b].requests <= durable[b][w].requests
  \/ \E f \in Flushers : \E s \in flush[f].snaps :
       s.bucket = b /\ s.window = w /\ s.current["requests"] = cells[b].requests

Saved(b, w) ==
  /\ cells[b].flushed["requests"] <= cells[b].requests
  /\ cells[b].flushed["requests"] <= durable[b][w].requests
  /\ cells[b].dirty \/ Sending(b, w)

SavedInv ==
  phase # "down" => \A b \in Buckets : \A w \in Windows :
    cells[b].window = w /\ Kept(b, w) => Saved(b, w)

\* The flush of main runs alone, but for the task's, and leaves no dirty cell
\* behind in the shards that it has scanned.
DrainInv ==
  /\ \A f \in Flushers : flush[f].pc = "failed" => trouble \cap {"error", "lost"} # {}
  /\ flush["main"].pc # "idle" => phase = "draining" /\ \A r \in Requests : req[r].pc \in Settled
  /\ trouble \cap {"error", "lost"} = {} /\ flush["main"].pc # "idle" =>
       \A b \in Buckets : cells[b].dirty => flush["main"].pc = "scan" /\ Shard[b] \in flush["main"].shards

\* The cell of a window that is kept stays, and grows until it rolls on.
LEMMA CellGrows ==
  ASSUME TypeInv, HeldInv, CountTypes, AgeInv, FlushInv, OwesInv, StayInv, [Next]_vars,
         phase # "down", phase' # "down", NEW b \in Buckets, NEW w \in Windows,
         Kept(b, w), w <= cells[b].window
  PROVE  /\ w <= cells'[b].window
         /\ cells'[b].window = w => cells[b].window = w /\ cells[b].requests <= cells'[b].requests
<1>1. CountTypes'
  BY CountTypesStep
<1>2. /\ w \in Nat /\ cells[b].window \in Int /\ cells'[b].window \in Int
      /\ cells[b].requests \in Nat /\ cells'[b].requests \in Nat
  BY <1>1 DEF CountTypes, Cells, Windows
<1>3. ~ Die /\ ~ Boot
  BY DEF Die, Boot
<1>4. ASSUME NEW r \in Requests, Charge(r)
      PROVE  \/ cells[b].window = cells'[b].window /\ cells[b].requests <= cells'[b].requests
             \/ cells[b].window < cells'[b].window
  <2>1. CASE b \notin ChargedBuckets(r)
    BY <1>2, <1>4, <2>1, ChargeCells
  <2>2. CASE b \in ChargedBuckets(r)
    <3> DEFINE v == Window(b, req[r].at)
               c == Rolled(cells[b], v)
    <3>1. /\ cells'[b].window = c.window /\ cells'[b].requests = c.requests + 1 /\ v \in Windows
          /\ \/ c = cells[b] /\ v <= cells[b].window
             \/ c = Fresh(v) /\ cells[b].window < v
      BY <1>4, <2>2, ChargeCells
    <3>2. Fresh(v).window = v
      BY <3>1, FreshCell
    <3> HIDE DEF c, v
    <3> QED BY <1>2, <3>1, <3>2
  <2> QED BY <2>1, <2>2
<1>5. ASSUME NEW r \in Requests, cells[b].window > 0, cells[b].window + MaxAge <= req[r].at PROVE FALSE
  BY <1>2, <1>5, SweptIsNotKept
<1> QED BY <1>2, <1>3, <1>4, <1>5, CellMoves

\* What a write does to the store.
Adds(s) ==
  \A b \in Buckets : \A w \in Windows :
    /\ durable'[b][w].requests =
         IF b = s.bucket /\ w = s.window
         THEN Floor(durable[b][w].requests + s.delta["requests"]) ELSE durable[b][w].requests
    /\ durable'[b][w].billable =
         IF b = s.bucket /\ w = s.window
         THEN Floor(durable[b][w].billable + s.delta["billable"]) ELSE durable[b][w].billable

\* What the store holds of a window.
LEMMA StoreTypes ==
  ASSUME CountTypes, NEW b \in Buckets, NEW w \in Windows
  PROVE  durable[b][w].requests \in Nat /\ durable[b][w].billable \in Nat
<1>1. durable[b][w] \in Amounts
  BY DEF CountTypes
<1> QED BY <1>1 DEF Amounts, Counters

\* A write adds a delta, or fails, or does both.
LEMMA WriteAdds ==
  ASSUME TypeInv, CountTypes, FlushInv, NEW f \in Flushers, WriteUsage(f)
  PROVE  \E q, s : /\ Becomes(f, q) /\ s \in flush[f].snaps /\ s \in Snapshots
                   /\ q.snaps = flush[f].snaps /\ q.ack = {s}
                   /\ \/ q.pc = "acked" /\ trouble' = trouble /\ Adds(s)
                      \/ /\ q.pc = "failed" /\ trouble' \cap {"error", "lost"} # {}
                         /\ durable' = durable \/ ("lost" \in trouble' /\ Adds(s))
<1>0. FlushOK(flush[f])
  BY DEF FlushInv
<1>1. PICK q, s : /\ Becomes(f, q) /\ s \in flush[f].snaps /\ s \in Snapshots
                  /\ q.snaps = flush[f].snaps /\ q.ack = {s}
                  /\ \/ /\ q.pc = "acked" /\ trouble' = trouble
                        /\ IF ZeroDelta(s) THEN UNCHANGED durable ELSE AddUsage(s)
                     \/ /\ q.pc = "failed"
                        /\ \E fault \in {"error", "lost"} :
                             /\ trouble' = trouble \cup {fault}
                             /\ IF fault = "lost" THEN AddUsage(s) ELSE UNCHANGED durable
  BY <1>0, WriteBecomes
<1>2. AddUsage(s) => Adds(s)
  BY <1>1, AddUsageStore DEF Adds
<1>3. ASSUME ZeroDelta(s), UNCHANGED durable PROVE Adds(s)
  <2>1. s.delta["requests"] = 0 /\ s.delta["billable"] = 0
    BY <1>3 DEF ZeroDelta, Counters
  <2>2. ASSUME NEW b \in Buckets, NEW w \in Windows
        PROVE  /\ Floor(durable[b][w].requests + 0) = durable[b][w].requests
               /\ Floor(durable[b][w].billable + 0) = durable[b][w].billable
    BY StoreTypes DEF Floor
  <2> QED BY <1>3, <2>1, <2>2 DEF Adds
<1>4. CASE /\ q.pc = "acked" /\ trouble' = trouble
           /\ IF ZeroDelta(s) THEN UNCHANGED durable ELSE AddUsage(s)
  <2>1. Adds(s)
    BY <1>2, <1>3, <1>4
  <2> QED BY <1>1, <1>4, <2>1
<1>5. CASE /\ q.pc = "failed"
           /\ \E fault \in {"error", "lost"} :
                /\ trouble' = trouble \cup {fault}
                /\ IF fault = "lost" THEN AddUsage(s) ELSE UNCHANGED durable
  <2>1. trouble' \cap {"error", "lost"} # {} /\ (durable' = durable \/ ("lost" \in trouble' /\ Adds(s)))
    BY <1>2, <1>5
  <2> QED BY <1>1, <1>5, <2>1
<1> QED BY <1>1, <1>4, <1>5

\* The types of a snapshot, and what a step of a flush makes of the flushes.
LEMMA SnapTypes ==
  ASSUME CountTypes, NEW f \in Flushers, NEW s \in flush[f].snaps
  PROVE  /\ s \in Snapshots /\ s.bucket \in Buckets /\ s.window \in Windows /\ s.window \in Nat
         /\ s.delta["requests"] \in Int /\ s.delta["billable"] \in Int
         /\ s.current["requests"] \in Nat /\ s.current["billable"] \in Nat
<1>1. s \in Snapshots
  BY DEF CountTypes, FlushStates
<1> QED BY <1>1 DEF Snapshots, Amounts, Counters, Windows

\* The store's record of a window that is kept grows.
LEMMA StoreGrows ==
  ASSUME TypeInv, CountTypes, FlushInv, SnapInv, [Next]_vars,
         NEW b \in Buckets, NEW w \in Windows, Kept(b, w)
  PROVE  durable[b][w].requests <= durable'[b][w].requests
<1>1. durable[b][w].requests \in Nat
  BY StoreTypes
<1>2. ASSUME NEW f \in Flushers, WriteUsage(f) PROVE durable[b][w].requests <= durable'[b][w].requests
  <2>1. PICK s \in flush[f].snaps : durable' = durable \/ Adds(s)
    BY <1>2, WriteAdds
  <2>2. CASE durable' = durable
    BY <1>1, <2>2
  <2>3. CASE Adds(s)
    <3>1. b = s.bucket /\ w = s.window => s.delta["requests"] >= 0
      BY DEF SnapInv, Fitting
    <3>2. s.delta["requests"] \in Int
      BY SnapTypes
    <3> QED BY <1>1, <2>3, <3>1, <3>2 DEF Adds, Floor
  <2> QED BY <2>1, <2>2, <2>3
<1>3. (\E f \in Flushers : WriteUsage(f)) \/ durable' = durable
  BY CountSteps, CountFrames DEF Quiet, FlushWork
<1> QED BY <1>1, <1>2, <1>3

\* A snapshot stays what it is while the process runs.
LEMMA FittingStays ==
  ASSUME TypeInv, HeldInv, CountTypes, AgeInv, FlushInv, OwesInv, StayInv, SnapInv, [Next]_vars,
         phase # "down", phase' # "down", NEW s \in Snapshots
  PROVE  (Fitting(s) => Fitting(s)') /\ (Taken(s) => Taken(s)')
<1> DEFINE b == s.bucket
           w == s.window
<1>1. /\ b \in Buckets /\ w \in Windows /\ w \in Int
      /\ s.delta["requests"] \in Int /\ s.current["requests"] \in Nat
  BY DEF Snapshots, Amounts, Counters, Windows
<1>2. CountTypes'
  BY CountTypesStep
<1>3. Kept(b, w)' => Kept(b, w)
  BY <1>1, KeptShrinks
<1>4. durable[b][w].requests \in Nat /\ durable'[b][w].requests \in Nat
  <2>1. durable[b][w] \in Amounts /\ durable'[b][w] \in Amounts
    BY <1>1, <1>2 DEF CountTypes
  <2> QED BY <2>1 DEF Amounts, Counters
<1>5. Kept(b, w) => durable[b][w].requests <= durable'[b][w].requests
  BY <1>1, StoreGrows
<1>6. cells[b].requests \in Nat /\ cells'[b].requests \in Nat
  BY <1>1, <1>2 DEF CountTypes, Cells
<1>7. Taken(s) => Taken(s)'
  <2> SUFFICES ASSUME Taken(s), Kept(b, w)'
               PROVE  s.current["requests"] <= durable'[b][w].requests
    BY DEF Taken
  <2>1. s.current["requests"] <= durable[b][w].requests
    BY <1>3 DEF Taken
  <2> QED BY <1>1, <1>3, <1>4, <1>5, <2>1
<1>8. Fitting(s) => Fitting(s)'
  <2> SUFFICES ASSUME Fitting(s), Kept(b, w)'
               PROVE  /\ w <= cells'[b].window
                      /\ cells'[b].window = w => s.current["requests"] <= cells'[b].requests
                      /\ s.delta["requests"] >= 0
                      /\ s.current["requests"] <= durable'[b][w].requests + s.delta["requests"]
    BY DEF Fitting
  <2>1. /\ w <= cells[b].window
        /\ cells[b].window = w => s.current["requests"] <= cells[b].requests
        /\ s.delta["requests"] >= 0
        /\ s.current["requests"] <= durable[b][w].requests + s.delta["requests"]
    BY <1>3 DEF Fitting
  <2>2. /\ w <= cells'[b].window
        /\ cells'[b].window = w => cells[b].window = w /\ cells[b].requests <= cells'[b].requests
    BY <1>1, <1>3, <2>1, CellGrows
  <2> QED BY <1>1, <1>3, <1>4, <1>5, <1>6, <2>1, <2>2
<1> QED BY <1>7, <1>8

\* The snapshots hold on.
LEMMA SnapInvStep ==
  ASSUME TypeInv, HeldInv, CountTypes, AgeInv, FlushInv, OwesInv, StayInv, SnapInv, SavedInv, [Next]_vars
  PROVE  SnapInv'
<1>1. ASSUME NEW f \in Flushers, flush'[f].snaps = {} PROVE \A s \in flush'[f].snaps : FALSE
  BY <1>1
<1>2. ASSUME NEW f \in Flushers, flush'[f] = flush[f], phase # "down", phase' # "down",
             NEW s \in flush'[f].snaps
      PROVE  Fitting(s)' /\ (s \in Written(f)' => Taken(s)')
  <2>1. s \in Snapshots /\ s \in flush[f].snaps
    BY <1>2, SnapTypes
  <2>2. Written(f)' = Written(f)
    BY <1>2 DEF Written
  <2> QED BY <1>2, <2>1, <2>2, FittingStays DEF SnapInv
<1>3. ASSUME phase = "down" \/ phase' = "down" PROVE SnapInv'
  <2>1. ASSUME NEW f \in Flushers PROVE flush'[f].snaps = {}
    <3>1. CASE phase' = "down"
      <4>1. FlushInv'
        BY FlushInvStep
      <4> QED BY <3>1, <4>1 DEF FlushInv, FlushOK
    <3>2. CASE phase = "down"
      <4>1. flush' = flush
        BY <3>2, DownIsStill
      <4> QED BY <3>2, <4>1 DEF FlushInv, FlushOK
    <3> QED BY <1>3, <3>1, <3>2
  <2> QED BY <2>1 DEF SnapInv
<1>4. ASSUME flush' = flush PROVE SnapInv'
  BY <1>2, <1>3, <1>4 DEF SnapInv
<1>5. ASSUME NEW f \in Flushers, FlushWork(f), NEW q, Becomes(f, q),
             \A s \in q.snaps : Fitting(s)' /\ (q.pc = "acked" /\ s \in q.ack => Taken(s)')
      PROVE  SnapInv'
  <2>1. \A x \in Flushers : flush'[x] = IF x = f THEN q ELSE flush[x]
    BY <1>5 DEF Becomes, CountTypes
  <2>2. phase # "down" /\ phase' # "down"
    BY <1>5, FlushWorks, CountFrames
  <2>3. ASSUME NEW x \in Flushers, NEW s \in flush'[x].snaps
        PROVE  Fitting(s)' /\ (s \in Written(x)' => Taken(s)')
    <3>1. CASE x = f
      <4>1. flush'[x] = q
        BY <2>1, <3>1
      <4>2. s \in Written(x)' => q.pc = "acked" /\ s \in q.ack
        BY <4>1 DEF Written
      <4> QED BY <1>5, <2>3, <4>1, <4>2
    <3>2. CASE x # f
      BY <1>2, <2>1, <2>2, <2>3, <3>2
    <3> QED BY <3>1, <3>2
  <2> QED BY <2>3 DEF SnapInv
<1>6. ASSUME NEW f \in Flushers, FlushWork(f), NEW s \in flush[f].snaps PROVE Fitting(s)'
  BY <1>6, SnapTypes, FittingStays, FlushWorks, CountFrames DEF SnapInv
<1>7. ASSUME NEW f \in Flushers, StartFlush(f) PROVE SnapInv'
  <2>1. PICK q : Becomes(f, q) /\ q.snaps = {}
    BY <1>7, StartBecomes
  <2> QED BY <1>5, <1>7, <2>1 DEF FlushWork
<1>8. ASSUME NEW f \in Flushers, ScanShard(f) PROVE SnapInv'
  <2>0. FlushOK(flush[f]) /\ FlushWork(f)
    BY <1>8 DEF FlushInv, FlushWork
  <2>1. PICK q : /\ Becomes(f, q) /\ q.pc # "acked"
                 /\ \A s \in q.snaps : s \in flush[f].snaps \/ \E b \in Buckets : cells[b].dirty /\ s = Snapshot(b)
    BY <1>8, <2>0, ScanBecomes
  <2>2. ASSUME NEW b \in Buckets, cells[b].dirty PROVE Fitting(Snapshot(b)) /\ Snapshot(b) \in Snapshots
    <3>1. PICK s : s = Snapshot(b)
      OBVIOUS
    <3>2. /\ s \in Snapshots /\ s.bucket = b /\ s.window = cells[b].window /\ s.window \in Windows
          /\ s.current["requests"] = cells[b].requests
          /\ s.delta["requests"] = cells[b].requests - cells[b].flushed["requests"]
      BY <2>2, <3>1, SnapshotType
    <3>3. PICK w \in Windows : w = s.window
      BY <3>2
    <3>4. Kept(b, w) => Saved(b, w)
      BY <2>0, <3>2, <3>3, FlushWorks DEF SavedInv
    <3>5. /\ cells[b].requests \in Nat /\ cells[b].flushed["requests"] \in Nat /\ w \in Nat
          /\ durable[b][w].requests \in Nat
      BY SentTypes, StoreTypes DEF Windows
    <3>6. Fitting(s)
      BY <3>2, <3>3, <3>4, <3>5 DEF Fitting, Saved
    <3> QED BY <3>1, <3>2, <3>6
  <2>3. ASSUME NEW s \in q.snaps PROVE Fitting(s)'
    <3>1. CASE s \in flush[f].snaps
      BY <1>6, <2>0, <3>1
    <3>2. CASE \E b \in Buckets : cells[b].dirty /\ s = Snapshot(b)
      BY <2>0, <2>2, <3>2, FittingStays, FlushWorks, CountFrames
    <3> QED BY <2>1, <3>1, <3>2
  <2> QED BY <1>5, <2>0, <2>1, <2>3
<1>9. ASSUME NEW f \in Flushers, WriteUsage(f) PROVE SnapInv'
  <2>0. FlushWork(f)
    BY <1>9 DEF FlushWork
  <2>1. PICK q, s : /\ Becomes(f, q) /\ s \in flush[f].snaps /\ s \in Snapshots
                    /\ q.snaps = flush[f].snaps /\ q.ack = {s}
                    /\ q.pc = "acked" => Adds(s)
    <3>1. PICK q, s : /\ Becomes(f, q) /\ s \in flush[f].snaps /\ s \in Snapshots
                      /\ q.snaps = flush[f].snaps /\ q.ack = {s}
                      /\ \/ q.pc = "acked" /\ trouble' = trouble /\ Adds(s)
                         \/ /\ q.pc = "failed" /\ trouble' \cap {"error", "lost"} # {}
                            /\ durable' = durable \/ ("lost" \in trouble' /\ Adds(s))
      BY <1>9, WriteAdds
    <3> QED BY <3>1
  <2>2. ASSUME q.pc = "acked" PROVE Taken(s)'
    <3>1. /\ s.bucket \in Buckets /\ s.window \in Windows /\ s.delta["requests"] \in Int
          /\ s.current["requests"] \in Nat /\ s.window \in Int
      BY <2>1, SnapTypes DEF Windows
    <3>2. durable[s.bucket][s.window].requests \in Nat
      BY <3>1, StoreTypes
    <3>3. durable'[s.bucket][s.window].requests = Floor(durable[s.bucket][s.window].requests + s.delta["requests"])
      BY <2>1, <2>2, <3>1 DEF Adds
    <3>4. Kept(s.bucket, s.window)' => Kept(s.bucket, s.window)
      BY <3>1, KeptShrinks
    <3>5. Fitting(s)
      BY <2>1 DEF SnapInv
    <3> QED BY <3>1, <3>2, <3>3, <3>4, <3>5 DEF Taken, Fitting, Floor
  <2> QED BY <1>5, <1>6, <2>0, <2>1, <2>2
<1>10. ASSUME NEW f \in Flushers, Acknowledge(f) PROVE SnapInv'
  <2>0. FlushWork(f) /\ FlushOK(flush[f]) /\ flush[f].pc \in {"acked", "failed"}
    BY <1>10 DEF FlushWork, FlushInv, Acknowledge
  <2>a. PICK s \in flush[f].snaps : Acks(f, s)
    BY <1>10, <2>0, AcknowledgeCells
  <2>1. flush' = [flush EXCEPT ![f] =
          IF flush[f].snaps = {s} THEN Resting(f)
          ELSE [flush[f] EXCEPT !.pc = "write", !.snaps = flush[f].snaps \ {s}, !.ack = {}]]
    BY <2>a DEF Acks
  <2>2. PICK q : Becomes(f, q) /\ q.pc # "acked" /\ q.snaps = flush[f].snaps \ {s}
    BY <2>0, <2>1, AcknowledgeBecomes
  <2> QED BY <1>5, <1>6, <2>0, <2>2
<1>11. CASE Quiet \/ \E r \in Requests : LockShard(r) \/ Charge(r) \/ SettleBucket(r)
  <2>1. flush' = flush
    BY <1>11, CountFrames DEF Quiet
  <2> QED BY <1>4, <2>1
<1>12. CASE Die \/ Boot
  BY <1>3, <1>12 DEF Die, Boot
<1> QED BY <1>7, <1>8, <1>9, <1>10, <1>11, <1>12, CountSteps DEF FlushWork

\* A cell that is the same, beside a store that has no less.
LEMMA SavedSame ==
  ASSUME TypeInv, HeldInv, CountTypes, AgeInv, FlushInv, SnapInv, [Next]_vars,
         NEW b \in Buckets, NEW w \in Windows, Kept(b, w), Saved(b, w),
         cells'[b].requests = cells[b].requests, cells'[b].flushed = cells[b].flushed,
         cells'[b].dirty \/ Sending(b, w)' \/ ~ Sending(b, w)
             \/ cells[b].requests <= durable[b][w].requests,
         cells[b].dirty => cells'[b].dirty \/ Sending(b, w)'
  PROVE  Saved(b, w)'
<1>1. CountTypes'
  BY CountTypesStep
<1>2. durable[b][w].requests <= durable'[b][w].requests
  BY StoreGrows
<1>3. durable[b][w].requests \in Nat /\ durable'[b][w].requests \in Nat
  <2>1. durable[b][w] \in Amounts /\ durable'[b][w] \in Amounts
    BY <1>1 DEF CountTypes
  <2> QED BY <2>1 DEF Amounts, Counters
<1>4. cells[b].requests \in Nat /\ cells[b].flushed["requests"] \in Nat
  BY SentTypes
<1>5. /\ cells[b].flushed["requests"] <= cells[b].requests
      /\ cells[b].flushed["requests"] <= durable[b][w].requests
      /\ cells[b].dirty \/ Sending(b, w)
  BY DEF Saved
<1>6. cells[b].requests <= durable[b][w].requests => Sending(b, w)'
  BY <1>2, <1>3, <1>4 DEF Sending
<1>7. cells'[b].dirty \/ Sending(b, w)'
  BY <1>5, <1>6
<1> QED BY <1>2, <1>3, <1>4, <1>5, <1>7 DEF Saved

\* What is on its way stays on its way while no snapshot is dropped.
LEMMA SendingStays ==
  ASSUME TypeInv, HeldInv, CountTypes, AgeInv, FlushInv, SnapInv, [Next]_vars,
         NEW b \in Buckets, NEW w \in Windows, Sending(b, w),
         cells'[b].requests = cells[b].requests,
         \A f \in Flushers : flush[f].snaps \subseteq flush'[f].snaps
  PROVE  Sending(b, w)' \/ cells[b].requests <= durable[b][w].requests
BY DEF Sending

\* The cells of the windows that are kept are in the store, or on their way to it.
LEMMA SavedInvStep ==
  ASSUME TypeInv, HeldInv, CountTypes, AgeInv, FlushInv, OwesInv, StayInv, SnapInv, SavedInv, [Next]_vars
  PROVE  SavedInv'
<1> SUFFICES ASSUME phase' # "down", NEW b \in Buckets, NEW w \in Windows, cells'[b].window = w, Kept(b, w)'
             PROVE  Saved(b, w)'
  BY DEF SavedInv
<1>1. CountTypes'
  BY CountTypesStep
<1>2. Kept(b, w) /\ w \in Nat
  BY KeptShrinks DEF Windows
<1>3. /\ durable[b][w].requests \in Nat /\ cells[b].requests \in Nat
      /\ cells[b].flushed["requests"] \in Nat /\ cells[b] \in Cells
  BY StoreTypes, SentTypes DEF CountTypes
<1>4. phase # "down" /\ cells[b].window = w => Saved(b, w)
  BY <1>2 DEF SavedInv
<1>5. ASSUME NEW f \in Flushers, FlushWork(f)
      PROVE  phase # "down"
  BY <1>5, FlushWorks
<1>6. ASSUME phase # "down", cells'[b] = cells[b], \A f \in Flushers : flush[f].snaps \subseteq flush'[f].snaps
      PROVE  Saved(b, w)'
  BY <1>2, <1>4, <1>6, SavedSame, SendingStays
<1>7. CASE Quiet
  <2>1. cells' = cells /\ flush' = flush /\ (phase = "down" => phase' = "down")
    BY <1>7 DEF Quiet
  <2> QED BY <1>6, <2>1
<1>8. ASSUME NEW r \in Requests, LockShard(r) PROVE Saved(b, w)'
  <2>1. cells'[b] = cells[b]
    BY <1>2, <1>8, SweepCells, AbsentCell
  <2> QED BY <1>6, <1>8, <2>1, CountFrames
<1>9. ASSUME NEW r \in Requests, Charge(r) PROVE Saved(b, w)'
  <2>1. phase # "down" /\ UNCHANGED <<durable, flush>>
    BY <1>9, CountFrames
  <2>2. CASE b \notin ChargedBuckets(r)
    BY <1>6, <1>9, <2>1, <2>2, ChargeCells
  <2>3. CASE b \in ChargedBuckets(r)
    <3> DEFINE v == Window(b, req[r].at)
               c == Rolled(cells[b], v)
    <3>1. /\ cells'[b].window = c.window /\ cells'[b].requests = c.requests + 1 /\ v \in Windows
          /\ cells'[b].flushed = c.flushed /\ cells'[b].dirty
          /\ \/ c = cells[b] /\ v <= cells[b].window
             \/ c = Fresh(v) /\ cells[b].window < v
      BY <1>9, <2>3, ChargeCells
    <3>2. Fresh(v).requests = 0 /\ Fresh(v).flushed["requests"] = 0
      BY <3>1, FreshCell
    <3> HIDE DEF c, v
    <3>3. CASE c = cells[b]
      BY <1>3, <1>4, <2>1, <3>1, <3>3 DEF Saved
    <3>4. CASE c = Fresh(v)
      BY <1>3, <2>1, <3>1, <3>2, <3>4 DEF Saved
    <3> QED BY <3>1, <3>3, <3>4
  <2> QED BY <2>2, <2>3
<1>10. ASSUME NEW r \in Requests, SettleBucket(r) PROVE Saved(b, w)'
  <2>1. phase # "down" /\ UNCHANGED <<durable, flush>>
    BY <1>10, CountFrames
  <2>2. CASE /\ SameCount(b) /\ cells'[b].flushed = cells[b].flushed
             /\ cells[b].dirty => cells'[b].dirty
    <3>1. cells[b].window = w /\ cells'[b].requests = cells[b].requests
      BY <2>2 DEF SameCount
    <3> QED BY <1>2, <1>4, <2>1, <2>2, <3>1, SavedSame, SendingStays
  <2>3. CASE cells[b].window < cells'[b].window /\ cells'[b].window = Window(b, req[r].at)
    <3>1. req[r].pc = "closing" /\ b \in req[r].todo
      <4>1. PICK a \in req[r].todo : \E x : cells' = [cells EXCEPT ![a] = x]
        BY <1>10 DEF SettleBucket
      <4>2. a # b => cells'[b] = cells[b]
        BY <4>1 DEF CountTypes
      <4> QED BY <1>2, <1>10, <2>3, <4>2 DEF SettleBucket, CountTypes
    <3> QED BY <1>2, <2>3, <3>1, KeptNotMade
  <2> QED BY <1>10, <2>2, <2>3, SettleCells
<1>11. ASSUME NEW f \in Flushers, StartFlush(f) PROVE Saved(b, w)'
  <2>1. PICK q : Becomes(f, q)
    BY <1>11, StartBecomes
  <2>2. flush[f].snaps = {} /\ cells' = cells
    BY <1>11, CountFrames DEF StartFlush, MayFlush, FlushInv, FlushOK
  <2>3. \A x \in Flushers : x # f => flush'[x] = flush[x]
    BY <2>1 DEF Becomes, CountTypes
  <2> QED BY <1>5, <1>6, <1>11, <2>2, <2>3 DEF FlushWork
<1>12. ASSUME NEW f \in Flushers, ScanShard(f) PROVE Saved(b, w)'
  <2>0. FlushOK(flush[f]) /\ phase # "down"
    BY <1>5, <1>12 DEF FlushInv, FlushWork
  <2>1. PICK q : /\ Becomes(f, q) /\ flush[f].snaps \subseteq q.snaps
                 /\ \A x \in Buckets : cells[x].dirty /\ Shard[x] = Least(flush[f].shards) =>
                                         Snapshot(x) \in q.snaps
    BY <1>12, <2>0, ScanBecomes
  <2>2. \A x \in Flushers : flush'[x] = IF x = f THEN q ELSE flush[x]
    BY <2>1 DEF Becomes, CountTypes
  <2>3. /\ cells[b].window = w /\ cells'[b].requests = cells[b].requests
        /\ cells'[b].flushed = cells[b].flushed
        /\ cells'[b].dirty <=> cells[b].dirty /\ Shard[b] # Least(flush[f].shards)
    BY <1>12, ScanCells DEF SameCount
  <2>4. ASSUME cells[b].dirty, ~ cells'[b].dirty PROVE Sending(b, w)'
    <3>1. PICK s : s = Snapshot(b)
      OBVIOUS
    <3>2. s \in flush'[f].snaps
      BY <2>1, <2>2, <2>3, <2>4, <3>1
    <3>3. s.bucket = b /\ s.window = w /\ s.current["requests"] = cells'[b].requests
      BY <2>3, <2>4, <3>1, SnapshotType
    <3> QED BY <3>2, <3>3 DEF Sending
  <2>5. \A x \in Flushers : flush[x].snaps \subseteq flush'[x].snaps
    BY <2>1, <2>2
  <2> QED BY <1>2, <1>4, <2>0, <2>3, <2>4, <2>5, SavedSame, SendingStays
<1>13. ASSUME NEW f \in Flushers, WriteUsage(f) PROVE Saved(b, w)'
  <2>1. PICK q : Becomes(f, q) /\ q.snaps = flush[f].snaps
    BY <1>13, WriteAdds
  <2>2. \A x \in Flushers : flush'[x].snaps = flush[x].snaps
    BY <2>1 DEF Becomes, CountTypes
  <2> QED BY <1>5, <1>6, <1>13, <2>2, CountFrames DEF FlushWork
<1>14. ASSUME NEW f \in Flushers, Acknowledge(f) PROVE Saved(b, w)'
  <2>0. FlushOK(flush[f]) /\ flush[f].pc \in {"acked", "failed"} /\ phase # "down" /\ durable' = durable
    BY <1>5, <1>14, CountFrames DEF FlushInv, FlushWork, Acknowledge
  <2>a. PICK s \in flush[f].snaps : Acks(f, s)
    BY <1>14, <2>0, AcknowledgeCells
  <2>1. /\ s \in Snapshots /\ flush[f].ack = {s}
        /\ SameCount(b)
        /\ cells'[b].flushed = IF b = s.bucket /\ flush[f].pc = "acked" /\ cells[b].window = s.window
                               THEN s.current ELSE cells[b].flushed
        /\ cells'[b].dirty <=> \/ cells[b].dirty
                               \/ b = s.bucket /\ cells[b].window = s.window /\ flush[f].pc # "acked"
        /\ flush' = [flush EXCEPT ![f] =
             IF flush[f].snaps = {s} THEN Resting(f)
             ELSE [flush[f] EXCEPT !.pc = "write", !.snaps = flush[f].snaps \ {s}, !.ack = {}]]
    BY <2>a DEF Acks
  <2>2. PICK q : Becomes(f, q) /\ q.snaps = flush[f].snaps \ {s}
    BY <2>0, <2>1, AcknowledgeBecomes
  <2>3. \A x \in Flushers : flush'[x] = IF x = f THEN q ELSE flush[x]
    BY <2>2 DEF Becomes, CountTypes
  <2>4. cells[b].window = w /\ cells'[b].requests = cells[b].requests
    BY <2>1 DEF SameCount
  <2>5. Saved(b, w)
    BY <1>4, <2>0, <2>4
  <2>6. b = s.bucket /\ w = s.window => s.current["requests"] <= cells[b].requests
    BY <1>2, <2>4 DEF SnapInv, Fitting
  <2>7. b = s.bucket /\ w = s.window /\ flush[f].pc = "acked" =>
          s.current["requests"] <= durable[b][w].requests
    BY <1>2, <2>1 DEF SnapInv, Taken, Written
  <2>8. cells'[b].flushed["requests"] <= cells[b].requests
        /\ cells'[b].flushed["requests"] <= durable[b][w].requests
    BY <2>1, <2>4, <2>5, <2>6, <2>7 DEF Saved
  <2>9. ASSUME ~ cells'[b].dirty PROVE Sending(b, w)'
    <3>1. Sending(b, w)
      BY <2>1, <2>5, <2>9 DEF Saved
    <3>2. CASE cells[b].requests <= durable[b][w].requests
      BY <2>0, <2>4, <3>2 DEF Sending
    <3>3. CASE ~ (cells[b].requests <= durable[b][w].requests)
      <4>1. PICK x \in Flushers : \E t \in flush[x].snaps :
              t.bucket = b /\ t.window = w /\ t.current["requests"] = cells[b].requests
        BY <3>1, <3>3 DEF Sending
      <4>2. PICK t \in flush[x].snaps :
              t.bucket = b /\ t.window = w /\ t.current["requests"] = cells[b].requests
        BY <4>1
      <4>3. x = f => t # s
        BY <2>0, <2>1, <2>4, <2>7, <2>9, <3>3, <4>2
      <4>4. t \in flush'[x].snaps
        BY <2>2, <2>3, <4>3
      <4> QED BY <2>4, <4>2, <4>4 DEF Sending
    <3> QED BY <3>2, <3>3
  <2> QED BY <2>0, <2>4, <2>8, <2>9 DEF Saved
<1>15. CASE Boot
  <2>1. cells'[b] = Hydrated(b) /\ durable' = durable
    BY <1>15, CountFrames DEF Boot
  <2>2. /\ w = Window(b, now) /\ cells'[b].requests = durable[b][w].requests
        /\ cells'[b].flushed["requests"] = durable[b][w].requests
    BY <1>2, <2>1, HydratedCell
  <2> QED BY <1>3, <2>1, <2>2 DEF Saved, Sending
<1>16. ~ Die
  BY DEF Die
<1> QED BY <1>7, <1>8, <1>9, <1>10, <1>11, <1>12, <1>13, <1>14, <1>15, <1>16, CountSteps DEF FlushWork

\* Once the listeners have drained, no request moves any more.
LEMMA DrainedIsStill ==
  ASSUME phase = "draining", \A r \in Requests : req[r].pc \in Settled, [Next]_vars
  PROVE  /\ (req' = req /\ phase' = phase) \/ Die
         /\ \A r \in Requests : ~ (LockShard(r) \/ Charge(r) \/ SettleBucket(r))
         /\ ~ Boot
<1>1. \A r \in Requests : ~ (Arrive(r) \/ Admit(r) \/ Settle(r))
  BY DEF Settled, Arrive, Admit, Settle, TakeGauge, GaugeFull, LockShard, Charge, Blocked,
         Fail, Serve, SettleBucket, ReleaseGauge
<1>2. ~ Boot /\ ~ Shutdown
  BY DEF Boot, Shutdown
<1>3. \A f \in Flushers : StartFlush(f) \/ FlushStep(f) => req' = req /\ phase' = phase
  BY DEF StartFlush, FlushStep, ScanShard, WriteUsage, Acknowledge, process
<1>4. CASE Exit \/ Crash
  BY <1>1, <1>2, <1>4 DEF Exit, Crash, Admit, Settle
<1>5. CASE ~ (Exit \/ Crash)
  BY <1>1, <1>2, <1>3, <1>5 DEF Next, Tick, vars, Admit, Settle
<1> QED BY <1>4, <1>5

\* Main's flush runs alone and leaves nothing behind.
LEMMA DrainInvStep ==
  ASSUME TypeInv, HeldInv, CountTypes, AgeInv, FlushInv, DrainInv, [Next]_vars
  PROVE  DrainInv'
<1> DEFINE Clean == trouble \cap {"error", "lost"} = {}
           ToScan(b) == flush["main"].pc = "scan" /\ Shard[b] \in flush["main"].shards
           Failing == \A f \in Flushers : flush[f].pc = "failed" => ~ Clean
           Alone == flush["main"].pc # "idle" => phase = "draining" /\ \A r \in Requests : req[r].pc \in Settled
           Left == Clean /\ flush["main"].pc # "idle" => \A b \in Buckets : cells[b].dirty => ToScan(b)
<1>1. /\ DrainInv <=> Failing /\ Alone /\ Left
      /\ DrainInv' <=> Failing' /\ Alone' /\ Left'
  BY DEF DrainInv
<1>2. Failing /\ Alone /\ Left /\ "main" \in Flushers
  BY <1>1 DEF Flushers
<1>3. Clean' => Clean
  BY FlushInvStep
<1>4. ASSUME flush["main"].pc # "idle", ~ Die
      PROVE  /\ req' = req /\ phase' = phase /\ phase = "draining"
             /\ \A r \in Requests : ~ (LockShard(r) \/ Charge(r) \/ SettleBucket(r))
             /\ ~ Boot
  BY <1>2, <1>4, DrainedIsStill
<1>5. CASE Die
  <2>1. \A f \in Flushers : flush'[f].pc = "idle"
    BY <1>5, IdleFlush DEF Die
  <2>2. flush'["main"].pc = "idle"
    BY <1>2, <2>1
  <2>3. Failing' /\ Alone' /\ Left'
    BY <2>1, <2>2
  <2> QED BY <1>1, <2>3
<1>6. CASE Quiet /\ ~ Die
  <2>1. cells' = cells /\ flush' = flush
    BY <1>6 DEF Quiet
  <2>2. Failing' /\ Alone' /\ Left'
    BY <1>2, <1>3, <1>4, <1>6, <2>1
  <2> QED BY <1>1, <2>2
<1>7. CASE ~ Die /\ (Boot \/ \E r \in Requests : LockShard(r) \/ Charge(r) \/ SettleBucket(r))
  <2>1. flush' = flush /\ flush["main"].pc = "idle"
    BY <1>4, <1>7, CountFrames
  <2>2. Failing' /\ Alone' /\ Left'
    BY <1>2, <1>3, <2>1
  <2> QED BY <1>1, <2>2
<1>8. ASSUME NEW f \in Flushers, FlushWork(f) PROVE DrainInv'
  <2>0. FlushOK(flush[f]) /\ req' = req /\ phase' = phase
    BY <1>8, CountFrames DEF FlushInv
  <2>1. ASSUME NEW q, Becomes(f, q), q.pc = "failed" => ~ Clean',
               f = "main" => Alone', f = "main" => Left',
               f # "main" => \A b \in Buckets : cells'[b].dirty => cells[b].dirty \/ ~ Clean'
        PROVE  DrainInv'
    <3>1. \A x \in Flushers : flush'[x] = IF x = f THEN q ELSE flush[x]
      BY <2>1 DEF Becomes, CountTypes
    <3>2. Failing'
      BY <1>2, <1>3, <2>1, <3>1
    <3>3. ASSUME f # "main" PROVE Alone' /\ Left'
      <4>1. flush'["main"] = flush["main"]
        BY <1>2, <3>1, <3>3
      <4> QED BY <1>2, <1>3, <2>0, <2>1, <3>3, <4>1
    <3> QED BY <1>1, <2>1, <3>2, <3>3
  <2>2. ASSUME NEW q, Becomes(f, q), f = "main" PROVE flush'["main"] = q
    BY <2>2 DEF Becomes, CountTypes
  <2>3. f = "main" /\ ~ StartFlush(f) => flush["main"].pc # "idle" /\ Alone'
    BY <1>2, <1>8, <2>0 DEF FlushWork, ScanShard, WriteUsage, Acknowledge
  <2>4. CASE StartFlush(f)
    <3>1. PICK q : Becomes(f, q) /\ q.pc = "scan" /\ q.shards = Shards
      BY <2>4, StartBecomes
    <3>2. f = "main" => Alone'
      BY <2>0, <2>4 DEF StartFlush, MayFlush
    <3>3. f = "main" => Left'
      BY <2>2, <3>1 DEF Shards
    <3>4. cells' = cells
      BY <2>4, CountFrames
    <3> QED BY <2>1, <3>1, <3>2, <3>3, <3>4
  <2>5. CASE ScanShard(f)
    <3>1. PICK q : /\ Becomes(f, q) /\ q.pc \notin {"acked", "failed"}
                   /\ \A t \in flush[f].shards : t # Least(flush[f].shards) => q.pc = "scan" /\ t \in q.shards
      BY <2>0, <2>5, ScanBecomes
    <3>2. \A b \in Buckets : cells'[b].dirty => cells[b].dirty /\ Shard[b] # Least(flush[f].shards)
      BY <2>5, ScanCells
    <3>3. ~ StartFlush(f)
      BY <2>5 DEF StartFlush, MayFlush, ScanShard
    <3>4. f = "main" => Left'
      BY <1>2, <1>3, <2>2, <2>3, <3>1, <3>2, <3>3
    <3> QED BY <2>1, <2>3, <3>1, <3>2, <3>3, <3>4
  <2>6. CASE WriteUsage(f)
    <3>1. PICK q : Becomes(f, q) /\ (q.pc = "failed" => ~ Clean')
      BY <2>6, WriteAdds
    <3>2. cells' = cells /\ ~ StartFlush(f) /\ flush[f].pc = "write"
      BY <2>6, CountFrames DEF StartFlush, MayFlush, WriteUsage
    <3>3. f = "main" => Left'
      BY <1>2, <1>3, <3>2
    <3> QED BY <2>1, <2>3, <3>1, <3>2, <3>3
  <2>7. CASE Acknowledge(f)
    <3>1. flush[f].pc \in {"acked", "failed"} /\ ~ StartFlush(f)
      BY <2>7 DEF Acknowledge, StartFlush, MayFlush
    <3>a. PICK s \in flush[f].snaps : Acks(f, s)
      BY <2>0, <2>7, AcknowledgeCells
    <3>2. /\ \A b \in Buckets : cells'[b].dirty => cells[b].dirty \/ flush[f].pc # "acked"
          /\ flush' = [flush EXCEPT ![f] =
               IF flush[f].snaps = {s} THEN Resting(f)
               ELSE [flush[f] EXCEPT !.pc = "write", !.snaps = flush[f].snaps \ {s}, !.ack = {}]]
      BY <3>a DEF Acks
    <3>3. PICK q : Becomes(f, q) /\ q.pc \notin {"acked", "failed"}
      BY <2>0, <3>1, <3>2, AcknowledgeBecomes
    <3>4. \A b \in Buckets : cells'[b].dirty => cells[b].dirty \/ ~ Clean'
      BY <1>2, <1>3, <3>1, <3>2
    <3>5. f = "main" => Left'
      BY <1>2, <1>3, <3>1, <3>4
    <3> QED BY <2>1, <2>3, <3>1, <3>3, <3>4, <3>5
  <2> QED BY <1>8, <2>4, <2>5, <2>6, <2>7 DEF FlushWork
<1> QED BY <1>5, <1>6, <1>7, <1>8, CountSteps

\* The first state.
LEMMA KeptInit ==
  ASSUME Init
  PROVE  OwesInv /\ StayInv /\ CoverKept /\ SnapInv /\ SavedInv /\ DrainInv
<1>1. \A r \in Requests : /\ req[r].pc = "new" /\ req[r].todo = {} /\ req[r].job = "none"
  BY DEF Init, NoRequest
<1>2. \A b \in Buckets : cells[b].window = -1 /\ ~ cells[b].dirty
  BY AbsentCell DEF Init
<1>3. \A f \in Flushers : flush[f].snaps = {} /\ flush[f].pc = "idle"
  BY IdleFlush DEF Init
<1>4. OwesInv
  BY <1>1 DEF OwesInv, TodoOK, Owes
<1>5. StayInv
  BY <1>1 DEF StayInv, Settled
<1>6. CoverKept /\ SavedInv
  BY <1>2 DEF CoverKept, SavedInv, Windows
<1>7. SnapInv /\ DrainInv
  BY <1>3 DEF SnapInv, DrainInv, Flushers
<1> QED BY <1>4, <1>5, <1>6, <1>7

\* When main has flushed, the store has what the cells have.
LEMMA DrainedIsSaved ==
  ASSUME CountTypes, FlushInv, CoverKept, SavedInv, DrainInv
  PROVE  GracefulStopLosesNothing
<1> SUFFICES ASSUME MayExit, trouble \cap {"error", "lost"} = {}, NEW b \in Buckets,
                    cells[b].window >= 0, Kept(b, cells[b].window)
             PROVE  durable[b][cells[b].window].requests + forgotten[b][cells[b].window]
                      >= Count(b, cells[b].window)
  BY DEF GracefulStopLosesNothing
<1>1. PICK w \in Windows : w = cells[b].window
  BY SentTypes
<1>2. phase = "draining" /\ flush["main"].pc = "ended" /\ flush["task"].pc \in {"idle", "ended"}
  BY DEF MayExit
<1>3. ~ cells[b].dirty
  BY <1>2 DEF DrainInv
<1>4. \A f \in Flushers : flush[f].snaps = {}
  BY <1>2 DEF Flushers, FlushInv, FlushOK
<1>5. cells[b].requests <= durable[b][w].requests
  BY <1>1, <1>2, <1>3, <1>4 DEF SavedInv, Saved, Sending
<1>6. Count(b, w) <= forgotten[b][w] + cells[b].requests
  BY <1>1, <1>2 DEF CoverKept
<1>7. /\ durable[b][w].requests \in Nat /\ cells[b].requests \in Nat /\ forgotten[b][w] \in Nat
      /\ Count(b, w) \in Nat
  BY StoreTypes, SentTypes, CountType DEF CountTypes
<1> QED BY <1>1, <1>5, <1>6, <1>7

\* A graceful stop loses no charge of a window that is kept, whatever the final
\* flushes of the task and of main did to each other, if no write failed and no
\* answer was lost (spawn_budget_flusher, main, flush_budgets).
THEOREM GracefulStopsSave == Spec => []GracefulStopLosesNothing
<1> DEFINE Inv == /\ TypeInv /\ HeldInv /\ CountTypes /\ AgeInv /\ FlushInv /\ CoverInv /\ RequestsCapHolds
                  /\ OwesInv /\ StayInv /\ CoverKept /\ SnapInv /\ SavedInv /\ DrainInv
<1>1. Init => Inv
  BY InitInv, CountInit, KeptInit
<1>2. Inv /\ [Next]_vars => Inv'
  <2> SUFFICES ASSUME Inv, [Next]_vars PROVE Inv'
    OBVIOUS
  <2>1. TypeInv' /\ HeldInv' /\ CountTypes' /\ AgeInv' /\ FlushInv' /\ CoverInv' /\ RequestsCapHolds'
    BY TypeHeldStep, CountTypesStep, AgeInvStep, FlushInvStep, CoverStep
  <2>2. OwesInv' /\ StayInv' /\ CoverKept'
    BY <2>1, OwesInvStep, StayInvStep, CoverKeptStep
  <2>3. SnapInv' /\ SavedInv' /\ DrainInv'
    BY SnapInvStep, SavedInvStep, DrainInvStep
  <2> QED BY <2>1, <2>2, <2>3
<1>3. Inv => GracefulStopLosesNothing
  BY DrainedIsSaved
<1> QED
  <2> HIDE DEF Inv
  <2> QED BY <1>1, <1>2, <1>3, PTL DEF Spec

-----------------------------------------------------------------------------
(* The fee base *)

\* The requests of a window whose fee was taken back.
Refunds(b, w) == {r \in Requests : landed[r][b] = w /\ Refund(r, b)}

Refs(b, w) == Cardinality(Refunds(b, w))

\* How far the fee base is behind the requests: in the store, in a cell, in its
\* baseline, and in the amounts of a snapshot.
StoreGap(b, w) == durable[b][w].requests - durable[b][w].billable

CellGap(b) == cells[b].requests - cells[b].billable

BaseGap(b) == cells[b].flushed["requests"] - cells[b].flushed["billable"]

Gap(a) == a["requests"] - a["billable"]

\* The fee base is behind by the refunds and no more: in the store, in the cell,
\* and in the store when it has taken what the cell has not flushed, ...
BucketFees(b, w) ==
  /\ StoreGap(b, w) <= Refs(b, w)
  /\ cells[b].window = w =>
       /\ CellGap(b) <= Refs(b, w)
       /\ ~ Behind(b) => StoreGap(b, w) + CellGap(b) - BaseGap(b) <= Refs(b, w)

\* ... and with a snapshot that the store has yet to take, and the changes of the
\* cell since one that it has taken.
SnapFees(s) ==
  /\ s \notin Written("task") =>
       StoreGap(s.bucket, s.window) + Gap(s.delta) <= Refs(s.bucket, s.window)
  /\ cells[s.bucket].window = s.window =>
       /\ BaseGap(s.bucket) + Gap(s.delta) = Gap(s.current)
       /\ s \in Written("task") =>
            StoreGap(s.bucket, s.window) + CellGap(s.bucket) - Gap(s.current)
              <= Refs(s.bucket, s.window)

FeeInv ==
  Once =>
    /\ \A b \in Buckets : \A w \in Windows : Kept(b, w) => BucketFees(b, w)
    /\ \A s \in flush["task"].snaps : Kept(s.bucket, s.window) => SnapFees(s)

\* A process that is down has no cells.
DownInv == phase = "down" => \A b \in Buckets : cells[b].window = -1

\* Every step keeps DownInv: only a boot makes cells.
LEMMA DownInvStep ==
  ASSUME TypeInv, CountTypes, FlushInv, DownInv, [Next]_vars
  PROVE  DownInv'
<1>1. CASE Die
  BY <1>1, AbsentCell DEF Die, DownInv
<1>2. CASE phase = "down" /\ phase' = "down"
  <2>1. \A r \in Requests : ~ (LockShard(r) \/ Charge(r) \/ SettleBucket(r))
    BY <1>2 DEF FlushInv, Settled, LockShard, Charge, SettleBucket
  <2>2. \A f \in Flushers : ~ FlushWork(f)
    BY <1>2 DEF FlushInv, FlushWork, StartFlush, MayFlush, ScanShard, WriteUsage, Acknowledge
  <2>3. Quiet
    BY <1>1, <1>2, <2>1, <2>2, CountSteps DEF Boot
  <2> QED BY <1>2, <2>3 DEF Quiet, DownInv
<1>3. phase' = "down" => Die \/ phase = "down"
  BY CountSteps, CountFrames DEF Quiet, Boot
<1> QED BY <1>1, <1>2, <1>3 DEF DownInv

\* The types of the gaps.
LEMMA GapTypes ==
  ASSUME CountTypes, NEW b \in Buckets, NEW w \in Windows
  PROVE  /\ StoreGap(b, w) \in Int /\ CellGap(b) \in Int /\ BaseGap(b) \in Int
         /\ cells[b].requests \in Nat /\ cells[b].billable \in Nat
         /\ durable[b][w].requests \in Nat /\ durable[b][w].billable \in Nat
<1>1. cells[b] \in Cells
  BY DEF CountTypes
<1>2. cells[b].flushed["requests"] \in Nat /\ cells[b].flushed["billable"] \in Nat
  BY <1>1 DEF Cells, Amounts, Counters
<1>3. cells[b].requests \in Nat /\ cells[b].billable \in Nat
  BY <1>1 DEF Cells
<1> QED BY <1>2, <1>3, StoreTypes DEF StoreGap, CellGap, BaseGap

\* The refunds of a window can be counted.
LEMMA RefsType ==
  ASSUME NEW b, NEW w
  PROVE  Refs(b, w) \in Nat /\ IsFiniteSet(Refunds(b, w))
BY LedgerAssumption, FS_Subset, FS_CardinalityType DEF Refs, Refunds

\* Refunds are not taken back, and a request counts in the window it landed in.
LEMMA RefundsGrow ==
  ASSUME TypeInv, HeldInv, CountTypes, AgeInv, FlushInv, OwesInv, [Next]_vars,
         NEW b \in Buckets, NEW w \in Windows
  PROVE  /\ Refunds(b, w) \subseteq Refunds(b, w)'
         /\ Refs(b, w) <= Refs(b, w)' /\ Refs(b, w)' \in Nat
<1>1. ASSUME NEW r \in Refunds(b, w) PROVE r \in Refunds(b, w)'
  <2>1. r \in Requests /\ landed[r][b] = w /\ Refund(r, b) /\ w # -1
    BY DEF Refunds, Windows
  <2>2. Refund(r, b)'
    BY <2>1, OwesSteps DEF OwesInv, OwesOn
  <2>3. landed'[r][b] = w
    <3>1. ASSUME NEW x \in Requests, Charge(x) PROVE landed'[r][b] = landed[r][b]
      <4>1. x # r
        BY <2>1, <3>1 DEF Charge, AgeInv, Admission
      <4> QED BY <2>1, <3>1, <4>1, ChargeLands
    <3> QED BY <2>1, <3>1, CountSteps, CountFrames DEF Quiet
  <2> QED BY <2>1, <2>2, <2>3 DEF Refunds
<1>2. IsFiniteSet(Refunds(b, w)')
  BY LedgerAssumption, FS_Subset DEF Refunds
<1>3. Refunds(b, w) \subseteq Refunds(b, w)'
  BY <1>1
<1>4. Cardinality(Refunds(b, w)) <= Cardinality(Refunds(b, w)') /\ Cardinality(Refunds(b, w)') \in Nat
  BY <1>2, <1>3, FS_Subset, FS_CardinalityType
<1> QED BY <1>3, <1>4 DEF Refs

\* A refund that reaches its cell is one of a request that was charged to it.
LEMMA RefundCounts ==
  ASSUME TypeInv, HeldInv, CountTypes, AgeInv, FlushInv, OwesInv, StayInv, [Next]_vars,
         NEW r \in Requests, SettleBucket(r), req[r].job = "refund",
         NEW b \in Buckets, b \in req[r].todo, b \notin req'[r].todo,
         NEW w \in Windows, Kept(b, w), cells[b].window = w, w = Window(b, req[r].at)
  PROVE  Refs(b, w) + 1 <= Refs(b, w)'
<1>1. landed[r][b] = w
  <2>1. w <= landed[r][b] /\ landed[r][b] \in Int /\ w \in Int
    BY DEF OwesInv, Owes, CountTypes, Windows
  <2>2. Kept(b, landed[r][b])
    BY <2>1, KeptShrinks
  <2>3. landed[r][b] <= cells[b].window
    BY <2>2 DEF StayInv, SettleBucket, Settled
  <2> QED BY <2>1, <2>3
<1>2. landed'[r][b] = w
  BY <1>1, CountFrames
<1>3. req'[r].job = "refund"
  <2>1. PICK a \in req[r].todo :
          req' = [req EXCEPT ![r] = [req[r] EXCEPT !.todo = req[r].todo \ {a},
             !.pc = IF req[r].todo = {a} /\ req[r].held = {} THEN "done" ELSE "closing"]]
    BY DEF SettleBucket
  <2> DEFINE p == IF req[r].todo = {a} /\ req[r].held = {} THEN "done" ELSE "closing"
  <2>2. req' = [req EXCEPT ![r] = [req[r] EXCEPT !.todo = req[r].todo \ {a}, !.pc = p]]
    BY <2>1
  <2> HIDE DEF p
  <2> QED BY <2>2 DEF TypeInv, RequestStates
<1>4. r \notin Refunds(b, w) /\ r \in Refunds(b, w)'
  BY <1>2, <1>3 DEF Refunds, Refund
<1>5. Refunds(b, w) \cup {r} \subseteq Refunds(b, w)'
  BY <1>4, RefundsGrow
<1>6. IsFiniteSet(Refunds(b, w)') /\ IsFiniteSet(Refunds(b, w))
  BY LedgerAssumption, FS_Subset DEF Refunds
<1>7. Cardinality(Refunds(b, w) \cup {r}) = Cardinality(Refunds(b, w)) + 1
  BY <1>4, <1>6, FS_AddElement
<1>8. Cardinality(Refunds(b, w) \cup {r}) <= Cardinality(Refunds(b, w)')
  BY <1>5, <1>6, FS_Subset
<1> QED BY <1>7, <1>8 DEF Refs

\* What the steps other than a flush do to the cell of a window that is kept.
FeeMoves(b, w) ==
  cells'[b].window = w =>
    \/ /\ cells[b].window = w /\ cells'[b].flushed = cells[b].flushed
       /\ CellGap(b)' - CellGap(b) <= Refs(b, w)' - Refs(b, w)
    \/ /\ cells[b].window < w /\ CellGap(b)' = 0 /\ BaseGap(b)' = 0

\* The steps of requests, and those of no flush, move the fees as they may.
LEMMA OutsideMoves ==
  ASSUME TypeInv, HeldInv, CountTypes, AgeInv, FlushInv, OwesInv, StayInv, [Next]_vars,
         Quiet \/ \E r \in Requests : LockShard(r) \/ Charge(r) \/ SettleBucket(r),
         NEW b \in Buckets, NEW w \in Windows, Kept(b, w), Kept(b, w)'
  PROVE  FeeMoves(b, w)
<1>1. Refs(b, w) \in Nat /\ Refs(b, w)' \in Nat /\ Refs(b, w) <= Refs(b, w)'
  BY RefsType, RefundsGrow
<1>2. CellGap(b) \in Int /\ cells[b].requests \in Nat /\ cells[b].billable \in Nat /\ cells[b] \in Cells
  BY GapTypes DEF CountTypes
<1>3. ASSUME cells'[b] = cells[b] PROVE FeeMoves(b, w)
  BY <1>1, <1>2, <1>3 DEF FeeMoves, CellGap
<1>4. CASE Quiet
  BY <1>3, <1>4 DEF Quiet
<1>5. ASSUME NEW r \in Requests, LockShard(r) PROVE FeeMoves(b, w)
  <2>1. CASE cells'[b] = Absent
    BY <2>1, AbsentCell DEF FeeMoves, Windows
  <2> QED BY <1>3, <1>5, <2>1, SweepCells
<1>6. ASSUME NEW r \in Requests, Charge(r) PROVE FeeMoves(b, w)
  <2>1. CASE b \notin ChargedBuckets(r)
    BY <1>3, <1>6, <2>1, ChargeCells
  <2>2. CASE b \in ChargedBuckets(r)
    <3> DEFINE v == Window(b, req[r].at)
               c == Rolled(cells[b], v)
    <3>1. /\ cells'[b].window = c.window /\ cells'[b].requests = c.requests + 1
          /\ cells'[b].billable = c.billable + 1
          /\ cells'[b].flushed = c.flushed /\ v \in Windows
          /\ \/ c = cells[b] /\ v <= cells[b].window
             \/ c = Fresh(v) /\ cells[b].window < v
      BY <1>6, <2>2, ChargeCells
    <3>2. /\ Fresh(v).requests = 0 /\ Fresh(v).flushed["requests"] = 0 /\ Fresh(v).window = v
          /\ Fresh(v).billable = 0 /\ Fresh(v).flushed["billable"] = 0
      BY <3>1, FreshCell
    <3> HIDE DEF c, v
    <3>3. CASE c = cells[b]
      BY <1>1, <1>2, <3>1, <3>3 DEF FeeMoves, CellGap
    <3>4. CASE c = Fresh(v) /\ cells[b].window < v
      BY <3>1, <3>2, <3>4 DEF FeeMoves, CellGap, BaseGap
    <3> QED BY <3>1, <3>3, <3>4
  <2> QED BY <2>1, <2>2
<1>7. ASSUME NEW r \in Requests, SettleBucket(r) PROVE FeeMoves(b, w)
  <2>0. cells'[b] \in Cells /\ cells[b].window \in Int
    BY CellsFit, SentTypes
  <2>1. CASE /\ SameCount(b) /\ cells'[b].flushed = cells[b].flushed
             /\ cells'[b].billable = cells[b].billable
    BY <1>1, <1>2, <2>1 DEF FeeMoves, CellGap, SameCount
  <2>2. CASE /\ SameCount(b) /\ cells'[b].flushed = cells[b].flushed
             /\ cells'[b].billable >= cells[b].billable - 1
             /\ req[r].job = "refund" /\ cells[b].window = Window(b, req[r].at)
             /\ b \in req[r].todo /\ b \notin req'[r].todo
    <3> SUFFICES ASSUME cells'[b].window = w
                 PROVE  CellGap(b)' - CellGap(b) <= Refs(b, w)' - Refs(b, w)
      BY <2>2 DEF FeeMoves, SameCount
    <3>1. cells[b].window = w /\ cells'[b].requests = cells[b].requests
      BY <2>2 DEF SameCount
    <3>2. Refs(b, w) + 1 <= Refs(b, w)'
      BY <1>7, <2>2, <3>1, RefundCounts
    <3>3. cells'[b].billable \in Nat
      BY <2>0 DEF Cells
    <3> QED BY <1>1, <1>2, <2>2, <3>1, <3>2, <3>3 DEF CellGap
  <2>3. CASE cells[b].window < cells'[b].window /\ cells'[b].window = Window(b, req[r].at)
    <3>1. req[r].pc = "closing" /\ b \in req[r].todo
      <4>1. PICK a \in req[r].todo : \E x : cells' = [cells EXCEPT ![a] = x]
        BY <1>7 DEF SettleBucket
      <4>2. a # b => cells'[b] = cells[b]
        BY <4>1 DEF CountTypes
      <4>3. a = b
        BY <2>0, <2>3, <4>2
      <4> QED BY <1>7, <4>1, <4>3 DEF SettleBucket
    <3> QED BY <2>3, <3>1, KeptNotMade DEF FeeMoves
  <2> QED BY <1>7, <2>1, <2>2, <2>3, SettleCells
<1> QED BY <1>4, <1>5, <1>6, <1>7

\* The types of the gaps of a snapshot.
LEMMA SnapGapTypes ==
  ASSUME NEW s \in Snapshots
  PROVE  /\ s.bucket \in Buckets /\ s.window \in Windows /\ s.window \in Int
         /\ s.delta["requests"] \in Int /\ s.delta["billable"] \in Int
         /\ Gap(s.delta) \in Int /\ Gap(s.current) \in Int
BY DEF Snapshots, Amounts, Counters, Windows, Gap

\* The steps other than a flush.
LEMMA FeesOutside ==
  ASSUME TypeInv, HeldInv, CountTypes, AgeInv, FlushInv, OwesInv, StayInv, SnapInv, FeeInv, Once,
         [Next]_vars, Quiet \/ \E r \in Requests : LockShard(r) \/ Charge(r) \/ SettleBucket(r)
  PROVE  FeeInv'
<1>1. UNCHANGED <<durable, flush>>
  BY CountFrames DEF Quiet
<1>2. CountTypes'
  BY CountTypesStep
<1>3. Written("task")' = Written("task")
  BY <1>1 DEF Written
<1>4. ASSUME NEW b \in Buckets, NEW w \in Windows, Kept(b, w)'
      PROVE  /\ Kept(b, w) /\ FeeMoves(b, w) /\ StoreGap(b, w)' = StoreGap(b, w)
             /\ Refs(b, w) \in Nat /\ Refs(b, w)' \in Nat /\ Refs(b, w) <= Refs(b, w)'
             /\ StoreGap(b, w) \in Int /\ CellGap(b) \in Int /\ BaseGap(b) \in Int
             /\ CellGap(b)' \in Int /\ cells[b].window \in Int /\ w \in Int
             /\ (cells'[b].flushed = cells[b].flushed => BaseGap(b)' = BaseGap(b))
  <2>1. Kept(b, w) /\ w \in Int
    BY <1>4, KeptShrinks DEF Windows
  <2>2. FeeMoves(b, w)
    BY <1>4, <2>1, OutsideMoves
  <2>3. cells'[b].requests \in Nat /\ cells'[b].billable \in Nat
    BY <1>2 DEF CountTypes, Cells
  <2> QED BY <1>1, <2>1, <2>2, <2>3, GapTypes, RefsType, RefundsGrow, SentTypes
          DEF StoreGap, CellGap, BaseGap
<1>5. ASSUME NEW b \in Buckets, NEW w \in Windows, Kept(b, w)' PROVE BucketFees(b, w)'
  <2>1. BucketFees(b, w)
    BY <1>4, <1>5 DEF FeeInv
  <2>2. cells'[b].window = w /\ cells[b].window = w => (Behind(b)' <=> Behind(b))
    BY <1>3 DEF Behind
  <2>3. CASE cells'[b].window # w
    BY <1>4, <1>5, <2>1, <2>3 DEF BucketFees
  <2>4. CASE /\ cells'[b].window = w /\ cells[b].window = w /\ cells'[b].flushed = cells[b].flushed
             /\ CellGap(b)' - CellGap(b) <= Refs(b, w)' - Refs(b, w)
    BY <1>4, <1>5, <2>1, <2>2, <2>4 DEF BucketFees
  <2>5. CASE CellGap(b)' = 0 /\ BaseGap(b)' = 0
    BY <1>4, <1>5, <2>1, <2>5 DEF BucketFees
  <2> QED BY <1>4, <1>5, <2>3, <2>4, <2>5 DEF FeeMoves
<1>6. ASSUME NEW s \in flush["task"].snaps, Kept(s.bucket, s.window)' PROVE SnapFees(s)'
  <2> DEFINE b == s.bucket
             w == s.window
  <2>1. s \in Snapshots /\ "task" \in Flushers
    BY SnapTypes DEF Flushers
  <2>2. b \in Buckets /\ w \in Windows /\ Gap(s.delta) \in Int /\ Gap(s.current) \in Int
    BY <2>1, SnapGapTypes
  <2>3. Kept(b, w)
    BY <1>4, <1>6, <2>2
  <2>4. SnapFees(s) /\ w <= cells[b].window
    BY <2>1, <2>3 DEF FeeInv, SnapInv, Fitting
  <2>5. CASE cells'[b].window # w
    BY <1>3, <1>4, <1>6, <2>2, <2>4, <2>5 DEF SnapFees
  <2>6. CASE cells'[b].window = w
    <3>1. /\ cells[b].window = w /\ cells'[b].flushed = cells[b].flushed
          /\ CellGap(b)' - CellGap(b) <= Refs(b, w)' - Refs(b, w)
      BY <1>4, <1>6, <2>2, <2>4, <2>6 DEF FeeMoves
    <3> QED BY <1>3, <1>4, <1>6, <2>2, <2>4, <3>1 DEF SnapFees
  <2> QED BY <2>5, <2>6
<1> QED BY <1>1, <1>5, <1>6 DEF FeeInv

\* The steps of a flush leave the counts of the cells, the charges and the refunds.
LEMMA FlushKeepsRefs ==
  ASSUME NEW f \in Flushers, FlushWork(f)
  PROVE  \A b, w : Refs(b, w)' = Refs(b, w)
<1>1. req' = req /\ landed' = landed
  BY CountFrames
<1> QED BY <1>1 DEF Refs, Refunds, Refund

\* A scan takes the deltas of the dirty cells; the start of a flush takes none.
LEMMA FeesScan ==
  ASSUME TypeInv, HeldInv, CountTypes, AgeInv, FlushInv, FeeInv, Once, [Next]_vars,
         StartFlush("task") \/ ScanShard("task")
  PROVE  FeeInv'
<1> DEFINE f == "task"
<1>1. f \in Flushers /\ FlushWork(f) /\ FlushOK(flush[f]) /\ flush[f].pc \in {"idle", "scan"}
  BY DEF Flushers, FlushWork, FlushInv, StartFlush, MayFlush, ScanShard
<1>2. durable' = durable /\ \A b, w : Refs(b, w)' = Refs(b, w)
  BY <1>1, FlushKeepsRefs, CountFrames
<1>3. \A b \in Buckets : /\ cells'[b].window = cells[b].window /\ cells'[b].requests = cells[b].requests
                         /\ cells'[b].billable = cells[b].billable /\ cells'[b].flushed = cells[b].flushed
  BY <1>1, ScanCells, CountFrames DEF SameCount
<1>4. PICK q : /\ Becomes(f, q) /\ q.pc # "acked"
               /\ \A s \in q.snaps : \/ s \in flush[f].snaps
                                     \/ \E b \in Buckets : cells[b].dirty /\ s = Snapshot(b)
  <2>1. CASE StartFlush(f)
    BY <1>1, <2>1, StartBecomes
  <2>2. CASE ScanShard(f)
    BY <1>1, <2>2, ScanBecomes
  <2> QED BY <2>1, <2>2
<1>5. flush'[f] = q
  BY <1>1, <1>4 DEF Becomes, CountTypes
<1>6. Written(f) = {} /\ Written(f)' = {}
  BY <1>1, <1>4, <1>5 DEF Written
<1>7. \A b \in Buckets : ~ Behind(b) /\ ~ Behind(b)'
  BY <1>6 DEF Behind
<1>8. ASSUME NEW b \in Buckets, NEW w \in Windows
      PROVE  StoreGap(b, w)' = StoreGap(b, w) /\ CellGap(b)' = CellGap(b) /\ BaseGap(b)' = BaseGap(b)
  BY <1>2, <1>3 DEF StoreGap, CellGap, BaseGap
<1>9. ASSUME NEW b \in Buckets, NEW w \in Windows, Kept(b, w)' PROVE BucketFees(b, w)' /\ BucketFees(b, w)
  <2>1. BucketFees(b, w)
    BY <1>9, KeptShrinks DEF FeeInv, Windows
  <2> QED BY <1>2, <1>3, <1>7, <1>8, <2>1 DEF BucketFees
<1>10. ASSUME NEW s \in q.snaps, Kept(s.bucket, s.window)' PROVE SnapFees(s)'
  <2>1. s \in Snapshots
    BY <1>4 DEF Becomes, FlushStates
  <2>2. s.bucket \in Buckets /\ s.window \in Windows /\ s.window \in Int
    BY <2>1, SnapGapTypes
  <2>3. Kept(s.bucket, s.window)
    BY <1>10, <2>2, KeptShrinks
  <2>4. CASE s \in flush[f].snaps
    <3>1. SnapFees(s)
      BY <2>3, <2>4 DEF FeeInv
    <3> QED BY <1>2, <1>3, <1>6, <1>8, <2>2, <3>1 DEF SnapFees
  <2>5. CASE \E b \in Buckets : cells[b].dirty /\ s = Snapshot(b)
    <3>1. PICK b \in Buckets : cells[b].dirty /\ s = Snapshot(b)
      BY <2>5
    <3>2. /\ s.bucket = b /\ s.window = cells[b].window
          /\ s.current["requests"] = cells[b].requests
          /\ s.delta["requests"] = cells[b].requests - cells[b].flushed["requests"]
          /\ s.current["billable"] = cells[b].billable
          /\ s.delta["billable"] = cells[b].billable - cells[b].flushed["billable"]
      BY <3>1, SnapshotType
    <3>3. PICK w \in Windows : w = s.window
      BY <2>2
    <3>4. BucketFees(b, w)
      BY <1>9, <1>10, <3>2, <3>3
    <3>5. /\ cells[b].flushed["requests"] \in Nat /\ cells[b].flushed["billable"] \in Nat
          /\ cells[b].requests \in Nat /\ cells[b].billable \in Nat
      <4>1. cells[b] \in Cells
        BY DEF CountTypes
      <4> QED BY <4>1 DEF Cells, Amounts, Counters
    <3>6. Gap(s.delta) = CellGap(b) - BaseGap(b) /\ Gap(s.current) = CellGap(b)
      BY <3>2, <3>5 DEF Gap, CellGap, BaseGap
    <3>7. StoreGap(b, w) + CellGap(b) - BaseGap(b) <= Refs(b, w)
      BY <1>7, <3>2, <3>3, <3>4 DEF BucketFees
    <3>8. StoreGap(b, w) \in Int /\ CellGap(b) \in Int /\ BaseGap(b) \in Int
      BY GapTypes
    <3> QED BY <1>2, <1>3, <1>6, <1>8, <3>2, <3>3, <3>6, <3>7, <3>8 DEF SnapFees
  <2> QED BY <1>4, <2>4, <2>5
<1> QED BY <1>5, <1>9, <1>10 DEF FeeInv

\* The store takes a delta, floored at 0, or refuses it.
LEMMA FeesWrite ==
  ASSUME TypeInv, HeldInv, CountTypes, AgeInv, FlushInv, SnapInv, FeeInv, Once, Once', [Next]_vars,
         WriteUsage("task")
  PROVE  FeeInv'
<1> DEFINE f == "task"
<1>1. f \in Flushers /\ FlushWork(f) /\ FlushOK(flush[f]) /\ flush[f].pc = "write" /\ Written(f) = {}
  BY DEF Flushers, FlushWork, FlushInv, WriteUsage, Written
<1>2. cells' = cells /\ \A b, w : Refs(b, w)' = Refs(b, w)
  BY <1>1, FlushKeepsRefs, CountFrames
<1>3. PICK q, s : /\ Becomes(f, q) /\ s \in flush[f].snaps /\ s \in Snapshots
                  /\ q.snaps = flush[f].snaps /\ q.ack = {s}
                  /\ \/ q.pc = "acked" /\ Adds(s)
                     \/ q.pc = "failed" /\ durable' = durable
  <2>1. PICK q, s : /\ Becomes(f, q) /\ s \in flush[f].snaps /\ s \in Snapshots
                    /\ q.snaps = flush[f].snaps /\ q.ack = {s}
                    /\ \/ q.pc = "acked" /\ trouble' = trouble /\ Adds(s)
                       \/ /\ q.pc = "failed" /\ trouble' \cap {"error", "lost"} # {}
                          /\ durable' = durable \/ ("lost" \in trouble' /\ Adds(s))
    BY <1>1, WriteAdds
  <2>2. "lost" \notin trouble'
    BY DEF Once
  <2> QED BY <2>1, <2>2
<1>4. flush'[f] = q /\ flush'[f].snaps = flush[f].snaps
  BY <1>1, <1>3 DEF Becomes, CountTypes
<1>5. \A b \in Buckets : ~ Behind(b) /\ CellGap(b)' = CellGap(b) /\ BaseGap(b)' = BaseGap(b)
  BY <1>1, <1>2 DEF Behind, CellGap, BaseGap
<1>6. ASSUME NEW b \in Buckets, NEW w \in Windows, Kept(b, w)' PROVE Kept(b, w) /\ BucketFees(b, w)
  BY <1>6, KeptShrinks DEF FeeInv, Windows
<1>7. ASSUME NEW t \in flush[f].snaps, Kept(t.bucket, t.window)'
      PROVE  /\ Kept(t.bucket, t.window) /\ SnapFees(t) /\ t \in Snapshots /\ t.bucket \in Buckets
             /\ t.window \in Windows
  <2>1. t \in Snapshots /\ t.bucket \in Buckets /\ t.window \in Windows
    BY <1>1, SnapTypes
  <2>2. Kept(t.bucket, t.window)
    BY <1>6, <1>7, <2>1
  <2> QED BY <2>1, <2>2 DEF FeeInv
<1>8. CASE q.pc = "failed" /\ durable' = durable
  <2>1. Written(f)' = {}
    BY <1>4, <1>8 DEF Written
  <2>2. \A b \in Buckets : \A w \in Windows : StoreGap(b, w)' = StoreGap(b, w)
    BY <1>8 DEF StoreGap
  <2>3. ASSUME NEW b \in Buckets, NEW w \in Windows, Kept(b, w)' PROVE BucketFees(b, w)'
    BY <1>2, <1>5, <1>6, <2>2, <2>3 DEF BucketFees
  <2>4. ASSUME NEW t \in flush[f].snaps, Kept(t.bucket, t.window)' PROVE SnapFees(t)'
    BY <1>1, <1>2, <1>5, <1>7, <2>1, <2>2, <2>4 DEF SnapFees
  <2> QED BY <1>4, <2>3, <2>4 DEF FeeInv
<1>9. CASE q.pc = "acked" /\ Adds(s)
  <2>1. Written(f)' = {s}
    BY <1>3, <1>4, <1>9 DEF Written
  <2>2. /\ s.bucket \in Buckets /\ s.window \in Windows /\ s.window \in Int
        /\ s.delta["requests"] \in Int /\ s.delta["billable"] \in Int
        /\ Gap(s.delta) \in Int /\ Gap(s.current) \in Int
    BY <1>3, SnapGapTypes
  <2>3. \A b \in Buckets : \A w \in Windows :
          ~ (b = s.bucket /\ w = s.window) => StoreGap(b, w)' = StoreGap(b, w)
    BY <1>9 DEF Adds, StoreGap
  <2>4. ASSUME Kept(s.bucket, s.window)'
        PROVE  /\ StoreGap(s.bucket, s.window)' <= StoreGap(s.bucket, s.window) + Gap(s.delta)
               /\ StoreGap(s.bucket, s.window)' \in Int
    <3>1. s.delta["requests"] >= 0
      BY <1>1, <1>3, <1>7, <2>4 DEF SnapInv, Fitting
    <3>2. durable[s.bucket][s.window].requests \in Nat /\ durable[s.bucket][s.window].billable \in Nat
      BY <2>2, StoreTypes
    <3>3. /\ durable'[s.bucket][s.window].requests =
               Floor(durable[s.bucket][s.window].requests + s.delta["requests"])
          /\ durable'[s.bucket][s.window].billable =
               Floor(durable[s.bucket][s.window].billable + s.delta["billable"])
      BY <1>9, <2>2 DEF Adds
    <3> QED BY <2>2, <3>1, <3>2, <3>3 DEF StoreGap, Gap, Floor
  <2>5. Kept(s.bucket, s.window)' =>
          StoreGap(s.bucket, s.window) + Gap(s.delta) <= Refs(s.bucket, s.window)
    BY <1>1, <1>3, <1>7 DEF SnapFees
  <2>6. /\ StoreGap(s.bucket, s.window) \in Int /\ CellGap(s.bucket) \in Int /\ BaseGap(s.bucket) \in Int
        /\ Refs(s.bucket, s.window) \in Nat
    BY <2>2, GapTypes, RefsType
  <2>7. ASSUME NEW b \in Buckets, NEW w \in Windows, Kept(b, w)' PROVE BucketFees(b, w)'
    <3>0. BucketFees(b, w)
      BY <1>6, <2>7
    <3>1. CASE b = s.bucket /\ w = s.window
      <4>1. StoreGap(b, w)' <= Refs(b, w)'
        BY <1>2, <2>2, <2>4, <2>5, <2>6, <2>7, <3>1
      <4>2. cells'[b].window = w => Behind(b)'
        BY <2>1, <3>1 DEF Behind
      <4> QED BY <1>2, <1>5, <3>0, <4>1, <4>2 DEF BucketFees
    <3>2. CASE ~ (b = s.bucket /\ w = s.window)
      BY <1>2, <1>5, <2>3, <3>0, <3>2 DEF BucketFees
    <3> QED BY <3>1, <3>2
  <2>8. ASSUME NEW t \in flush[f].snaps, Kept(t.bucket, t.window)' PROVE SnapFees(t)'
    <3>0. SnapFees(t) /\ t.bucket \in Buckets /\ t.window \in Windows
      BY <1>7, <2>8
    <3>1. CASE t # s
      <4>1. t.bucket # s.bucket
        BY <1>1, <1>3, <3>1 DEF FlushOK
      <4> QED BY <1>1, <1>2, <1>5, <2>1, <2>3, <3>0, <3>1, <4>1 DEF SnapFees
    <3>2. CASE t = s
      <4> SUFFICES ASSUME cells[s.bucket].window = s.window
                   PROVE  /\ BaseGap(s.bucket) + Gap(s.delta) = Gap(s.current)
                          /\ StoreGap(s.bucket, s.window)' + CellGap(s.bucket) - Gap(s.current)
                               <= Refs(s.bucket, s.window)
        BY <1>2, <1>5, <2>1, <2>2, <3>2 DEF SnapFees
      <4>1. BaseGap(s.bucket) + Gap(s.delta) = Gap(s.current)
        BY <3>0, <3>2 DEF SnapFees
      <4>2. StoreGap(s.bucket, s.window) + CellGap(s.bucket) - BaseGap(s.bucket) <= Refs(s.bucket, s.window)
        BY <1>5, <1>6, <2>2, <2>8, <3>2 DEF BucketFees
      <4> QED BY <2>2, <2>4, <2>6, <2>8, <3>2, <4>1, <4>2
    <3> QED BY <3>1, <3>2
  <2> QED BY <1>4, <2>7, <2>8 DEF FeeInv
<1> QED BY <1>3, <1>8, <1>9

\* A baseline moves to what the store has.
LEMMA FeesAcknowledge ==
  ASSUME TypeInv, HeldInv, CountTypes, AgeInv, FlushInv, FeeInv, Once, [Next]_vars, Acknowledge("task")
  PROVE  FeeInv'
<1> DEFINE f == "task"
<1>1. f \in Flushers /\ FlushWork(f) /\ FlushOK(flush[f]) /\ flush[f].pc \in {"acked", "failed"}
  BY DEF Flushers, FlushWork, FlushInv, Acknowledge
<1>2. durable' = durable /\ \A b, w : Refs(b, w)' = Refs(b, w)
  BY <1>1, FlushKeepsRefs, CountFrames
<1>a. PICK s \in flush[f].snaps : Acks(f, s)
  BY <1>1, AcknowledgeCells
<1>3. /\ s \in Snapshots /\ flush[f].ack = {s}
      /\ \A b \in Buckets :
           /\ SameCount(b)
           /\ cells'[b].flushed = IF b = s.bucket /\ flush[f].pc = "acked" /\ cells[b].window = s.window
                                  THEN s.current ELSE cells[b].flushed
           /\ cells'[b].billable = cells[b].billable
           /\ cells'[b].dirty <=> \/ cells[b].dirty
                                  \/ b = s.bucket /\ cells[b].window = s.window /\ flush[f].pc # "acked"
      /\ flush' = [flush EXCEPT ![f] =
           IF flush[f].snaps = {s} THEN Resting(f)
           ELSE [flush[f] EXCEPT !.pc = "write", !.snaps = flush[f].snaps \ {s}, !.ack = {}]]
  BY <1>a DEF Acks
<1>4. PICK q : Becomes(f, q) /\ q.pc # "acked" /\ q.snaps = flush[f].snaps \ {s}
  BY <1>1, <1>3, AcknowledgeBecomes
<1>5. flush'[f] = q
  BY <1>1, <1>4 DEF Becomes, CountTypes
<1>6. Written(f)' = {} /\ Written(f) = IF flush[f].pc = "acked" THEN {s} ELSE {}
  BY <1>3, <1>4, <1>5 DEF Written
<1>7. ASSUME NEW b \in Buckets, NEW w \in Windows
      PROVE  /\ StoreGap(b, w)' = StoreGap(b, w) /\ CellGap(b)' = CellGap(b)
             /\ cells'[b].window = cells[b].window
             /\ BaseGap(b)' = IF b = s.bucket /\ flush[f].pc = "acked" /\ cells[b].window = s.window
                              THEN Gap(s.current) ELSE BaseGap(b)
  BY <1>2, <1>3 DEF StoreGap, CellGap, BaseGap, Gap, SameCount
<1>8. ASSUME NEW b \in Buckets, NEW w \in Windows, Kept(b, w)' PROVE BucketFees(b, w)'
  <2>1. BucketFees(b, w) /\ Kept(b, w)
    BY <1>8, KeptShrinks DEF FeeInv, Windows
  <2>2. CASE b = s.bucket /\ flush[f].pc = "acked" /\ cells[b].window = s.window
    <3>1. cells[b].window = w => StoreGap(b, w) + CellGap(b) - Gap(s.current) <= Refs(b, w)
      BY <1>3, <1>6, <2>1, <2>2 DEF FeeInv, SnapFees
    <3> QED BY <1>2, <1>7, <2>1, <2>2, <3>1 DEF BucketFees
  <2>3. CASE ~ (b = s.bucket /\ flush[f].pc = "acked" /\ cells[b].window = s.window)
    <3>1. ~ Behind(b)
      BY <1>6, <2>3 DEF Behind
    <3> QED BY <1>2, <1>7, <2>1, <2>3, <3>1 DEF BucketFees
  <2> QED BY <2>2, <2>3
<1>9. ASSUME NEW t \in flush[f].snaps, t # s, Kept(t.bucket, t.window)' PROVE SnapFees(t)'
  <2>1. t \in Snapshots /\ t.bucket \in Buckets /\ t.window \in Windows /\ t.window \in Int
    BY <1>1, SnapTypes DEF Windows
  <2>2. Kept(t.bucket, t.window)
    BY <1>9, <2>1, KeptShrinks
  <2>3. SnapFees(t) /\ t.bucket # s.bucket /\ t \notin Written(f)
    BY <1>1, <1>3, <1>6, <1>9, <2>2 DEF FeeInv, FlushOK
  <2> QED BY <1>2, <1>6, <1>7, <2>1, <2>3 DEF SnapFees
<1> QED BY <1>4, <1>5, <1>8, <1>9 DEF FeeInv

\* A stop, and what a boot makes of the store.
LEMMA FeesRestart ==
  ASSUME TypeInv, HeldInv, CountTypes, AgeInv, FlushInv, OwesInv, FeeInv, Once, [Next]_vars, Die \/ Boot
  PROVE  FeeInv'
<1>1. UNCHANGED <<durable, now>>
  BY CountFrames
<1>2. flush'["task"].snaps = {}
  <2>1. CASE Die
    <3>1. flush'["task"] = Idle
      BY <2>1 DEF Die, Flushers
    <3> QED BY <3>1, IdleFlush
  <2>2. CASE Boot
    BY <2>2, CountFrames DEF Boot, FlushInv, FlushOK, Flushers
  <2> QED BY <2>1, <2>2
<1>3. ASSUME NEW b \in Buckets, NEW w \in Windows, Kept(b, w)' PROVE BucketFees(b, w)'
  <2>1. BucketFees(b, w)
    BY <1>3, KeptShrinks DEF FeeInv, Windows
  <2>2. /\ StoreGap(b, w)' = StoreGap(b, w) /\ StoreGap(b, w) \in Int
        /\ Refs(b, w) \in Nat /\ Refs(b, w)' \in Nat /\ Refs(b, w) <= Refs(b, w)'
    BY <1>1, GapTypes, RefsType, RefundsGrow DEF StoreGap
  <2>3. StoreGap(b, w)' <= Refs(b, w)'
    BY <2>1, <2>2 DEF BucketFees
  <2>4. ASSUME cells'[b].window = w PROVE CellGap(b)' <= Refs(b, w)' /\ CellGap(b)' = BaseGap(b)'
                                          /\ CellGap(b)' \in Int
    <3>1. cells'[b] = Hydrated(b)
      <4>1. Die => cells'[b] = Absent
        BY DEF Die
      <4>2. w # -1
        BY DEF Windows
      <4> QED BY <2>4, <4>1, <4>2, AbsentCell DEF Boot
    <3>2. /\ w = Window(b, now) /\ cells'[b].requests = durable[b][w].requests
          /\ cells'[b].flushed["requests"] = durable[b][w].requests
          /\ cells'[b].flushed["billable"] = cells'[b].billable
          /\ \/ cells'[b].billable = durable[b][w].requests
             \/ cells'[b].billable = durable[b][w].billable
      BY <2>4, <3>1, HydratedCell DEF Windows
    <3>3. durable[b][w].requests \in Nat /\ durable[b][w].billable \in Nat
      BY StoreTypes
    <3> QED BY <1>1, <2>2, <2>3, <3>2, <3>3 DEF CellGap, BaseGap, StoreGap
  <2> QED BY <2>2, <2>3, <2>4 DEF BucketFees
<1> QED BY <1>2, <1>3 DEF FeeInv

\* The fee base stays behind by the refunds and no more.
LEMMA FeeInvStep ==
  ASSUME TypeInv, HeldInv, CountTypes, AgeInv, FlushInv, OwesInv, StayInv, SnapInv, FeeInv, [Next]_vars
  PROVE  FeeInv'
<1>1. CASE ~ Once'
  BY <1>1 DEF FeeInv
<1>2. CASE Once'
  <2>1. Once
    BY <1>2, FlushInvStep DEF Once
  <2>2. \A f \in Flushers : FlushWork(f) => f = "task"
    BY <2>1, FlushWorks DEF Once, Flushers
  <2>3. CASE \E f \in Flushers : FlushWork(f)
    BY <1>2, <2>1, <2>2, <2>3, FeesScan, FeesWrite, FeesAcknowledge DEF FlushWork
  <2>4. CASE Die \/ Boot
    BY <2>1, <2>4, FeesRestart
  <2>5. CASE Quiet \/ \E r \in Requests : LockShard(r) \/ Charge(r) \/ SettleBucket(r)
    BY <2>1, <2>5, FeesOutside
  <2> QED BY <2>3, <2>4, <2>5, CountSteps
<1> QED BY <1>1, <1>2

\* The first state.
LEMMA FeesInit ==
  ASSUME Init
  PROVE  FeeInv /\ DownInv
<1>1. CountTypes
  BY CountInit
<1>2. \A b \in Buckets : cells[b].window = -1
  BY AbsentCell DEF Init
<1>3. flush["task"].snaps = {}
  BY IdleFlush DEF Init, Flushers
<1>4. ASSUME NEW b \in Buckets, NEW w \in Windows PROVE BucketFees(b, w)
  <2>1. durable[b][w].requests = 0 /\ durable[b][w].billable = 0
    BY DEF Init, Counters
  <2>2. StoreGap(b, w) <= Refs(b, w)
    BY <2>1, RefsType DEF StoreGap
  <2>3. cells[b].window # w
    BY <1>2 DEF Windows
  <2> QED BY <2>2, <2>3 DEF BucketFees
<1> QED BY <1>2, <1>3, <1>4 DEF FeeInv, DownInv

\* The charges of a window are the ones refunded and the ones that are not.
LEMMA CountSplits ==
  ASSUME NEW b, NEW w
  PROVE  /\ Count(b, w) = Refs(b, w) + Cardinality({r \in Requests : landed[r][b] = w /\ ~Refund(r, b)})
         /\ Cardinality({r \in Requests : landed[r][b] = w /\ ~Refund(r, b)}) \in Nat
<1> DEFINE S == Refunds(b, w)
           T == {r \in Requests : landed[r][b] = w /\ ~Refund(r, b)}
           U == {r \in Requests : landed[r][b] = w}
<1>1. IsFiniteSet(S) /\ IsFiniteSet(T)
  BY LedgerAssumption, FS_Subset DEF Refunds
<1>2. S \cup T = U /\ S \cap T = {}
  BY DEF Refunds
<1> HIDE DEF S, T, U
<1>3. Cardinality(S \cup T) = Cardinality(S) + Cardinality(T) /\ Cardinality(T) \in Nat
  <2>1. Cardinality(S) \in Nat /\ Cardinality(T) \in Nat /\ Cardinality({}) = 0
    BY <1>1, FS_CardinalityType, FS_EmptySet
  <2>2. Cardinality(S \cup T) = Cardinality(S) + Cardinality(T) - Cardinality(S \cap T)
    BY <1>1, FS_Union
  <2>3. Cardinality(S \cap T) = 0
    BY <1>2, <2>1, Zenon
  <2> QED BY <2>1, <2>2, <2>3
<1>4. Count(b, w) = Cardinality(U) /\ Refs(b, w) = Cardinality(S)
  BY DEF Count, U, Refs, S
<1>5. T = {r \in Requests : landed[r][b] = w /\ ~Refund(r, b)}
  BY DEF T
<1>6. Count(b, w) = Refs(b, w) + Cardinality(T) /\ Cardinality(T) \in Nat
  BY <1>2, <1>3, <1>4
<1> QED BY <1>5, <1>6, Zenon

\* The fee base covers the requests that are not refunded.
LEMMA FeesCover ==
  ASSUME CountTypes, DownInv, CoverKept, FeeInv
  PROVE  FeeBaseCovers
<1> SUFFICES ASSUME Once, NEW b \in Buckets, cells[b].window >= 0, Kept(b, cells[b].window)
             PROVE  cells[b].billable + forgotten[b][cells[b].window]
                      >= Cardinality({r \in Requests : landed[r][b] = cells[b].window /\ ~Refund(r, b)})
  BY DEF FeeBaseCovers, Once
<1>1. PICK w \in Windows : w = cells[b].window
  BY SentTypes
<1>2. phase # "down"
  BY DEF DownInv
<1>3. Count(b, w) <= forgotten[b][w] + cells[b].requests
  BY <1>1, <1>2 DEF CoverKept
<1>4. cells[b].requests - cells[b].billable <= Refs(b, w)
  BY <1>1 DEF FeeInv, BucketFees, CellGap
<1>5. /\ cells[b].requests \in Nat /\ cells[b].billable \in Nat /\ forgotten[b][w] \in Nat
      /\ Refs(b, w) \in Nat /\ Count(b, w) \in Nat
  BY GapTypes, RefsType, CountType DEF CountTypes
<1>6. PICK n \in Nat : /\ n = Cardinality({r \in Requests : landed[r][b] = w /\ ~Refund(r, b)})
                       /\ Count(b, w) = Refs(b, w) + n
  BY CountSplits
<1>7. cells[b].billable + forgotten[b][w] >= n
  BY <1>3, <1>4, <1>5, <1>6
<1> QED BY <1>1, <1>6, <1>7

\* Unless an acknowledgement was lost, and until the final flushes, the fee base
\* of a window that is kept covers every request charged to it that has not been
\* refunded, whatever the deltas that a refund made negative, and over crashes
\* and restarts (refund_bucket, flush_budgets, hydrate_budgets).
THEOREM FeesAreCovered == Spec => []FeeBaseCovers
<1> DEFINE Inv == /\ TypeInv /\ HeldInv /\ CountTypes /\ AgeInv /\ FlushInv /\ CoverInv /\ RequestsCapHolds
                  /\ OwesInv /\ StayInv /\ CoverKept /\ SnapInv /\ SavedInv /\ FeeInv /\ DownInv
<1>1. Init => Inv
  BY InitInv, CountInit, KeptInit, FeesInit
<1>2. Inv /\ [Next]_vars => Inv'
  <2> SUFFICES ASSUME Inv, [Next]_vars PROVE Inv'
    OBVIOUS
  <2>1. TypeInv' /\ HeldInv' /\ CountTypes' /\ AgeInv' /\ FlushInv' /\ CoverInv' /\ RequestsCapHolds'
    BY TypeHeldStep, CountTypesStep, AgeInvStep, FlushInvStep, CoverStep
  <2>2. OwesInv' /\ StayInv' /\ CoverKept'
    BY <2>1, OwesInvStep, StayInvStep, CoverKeptStep
  <2>3. SnapInv' /\ SavedInv' /\ FeeInv' /\ DownInv'
    BY SnapInvStep, SavedInvStep, FeeInvStep, DownInvStep
  <2> QED BY <2>1, <2>2, <2>3
<1>3. Inv => FeeBaseCovers
  BY FeesCover
<1> QED
  <2> HIDE DEF Inv
  <2> QED BY <1>1, <1>2, <1>3, PTL DEF Spec
=============================================================================
