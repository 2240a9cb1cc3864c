--------------------------- MODULE FailoverProofs ---------------------------
(***************************************************************************)
(* Proofs about Failover, for any lanes, pools, tags, configurations and   *)
(* gate replies: cyclic fallback chains, shared members and any hop and    *)
(* time budget included.                                                   *)
(***************************************************************************)
EXTENDS Failover, TLAPS

-----------------------------------------------------------------------------
(* The log of attempts *)

\* An attempt in flight is the last of the log.
InFlight == pc = "sent" => Len(log) > 0 /\ log[Len(log)].lane = lane

\* The attempts keep their place: a step may only settle how the last ended.
SameAttempts ==
    /\ Len(log') = Len(log)
    /\ \A i \in 1..Len(log) :
          /\ log'[i].pool = log[i].pool
          /\ log'[i].lane = log[i].lane
          /\ log'[i].via = log[i].via
          /\ log'[i].at = log[i].at
          /\ log'[i].sticky = log[i].sticky
          /\ i < Len(log) => log'[i].outcome = log[i].outcome

\* Ended rewrites the last attempt of a log and nothing else.
LEMMA EndedLog ==
  ASSUME log \in Seq(Attempt), Len(log) > 0,
         NEW o \in Outcomes, NEW w \in Records, Ended(o, w)
  PROVE  /\ log' \in Seq(Attempt)
         /\ SameAttempts
         /\ log'[Len(log)].outcome = o
<1> DEFINE n == Len(log)
<1>1. n \in 1..n /\ log \in [1..n -> Attempt]
  OBVIOUS
<1>2. log' = [log EXCEPT ![n] = [log[n] EXCEPT !.outcome = o, !.recorded = w]]
  BY <1>1 DEF Ended, Attempt
<1>3. log[n] \in Attempt
  BY <1>1
<1>4. [log[n] EXCEPT !.outcome = o, !.recorded = w] \in Attempt
  BY <1>3 DEF Attempt
<1>5. log' \in Seq(Attempt) /\ Len(log') = n
  BY <1>1, <1>2, <1>4
<1>6. ASSUME NEW i \in 1..n PROVE
        /\ log'[i].pool = log[i].pool /\ log'[i].lane = log[i].lane
        /\ log'[i].via = log[i].via /\ log'[i].at = log[i].at
        /\ log'[i].sticky = log[i].sticky
        /\ i < n => log'[i].outcome = log[i].outcome
  <2>1. CASE i = n
    BY <2>1, <1>1, <1>2, <1>3 DEF Attempt
  <2>2. CASE i # n
    BY <2>2, <1>1, <1>2
  <2> QED
    BY <2>1, <2>2
<1>7. log'[n].outcome = o
  BY <1>1, <1>2, <1>3 DEF Attempt
<1> QED
  BY <1>5, <1>6, <1>7 DEF SameAttempts

\* Send appends the attempt for the lane in hand.
LEMMA SendLog ==
  ASSUME TypeOK, Send
  PROVE  /\ log' \in Seq(Attempt)
         /\ Len(log') = Len(log) + 1
         /\ \A i \in 1..Len(log) : log'[i] = log[i]
         /\ log'[Len(log) + 1] =
              [pool |-> pool, lane |-> lane, via |-> via, at |-> now,
               sticky |-> pc = "sticky", outcome |-> "pending", recorded |-> "none"]
<1>1. [pool |-> pool, lane |-> lane, via |-> via, at |-> now,
       sticky |-> pc = "sticky", outcome |-> "pending", recorded |-> "none"] \in Attempt
  BY DEF TypeOK, Attempt, Outcomes, Records
<1> QED
  BY <1>1 DEF Send, NewAttempt, TypeOK

(***************************************************************************)
(* Type correctness                                                        *)
(***************************************************************************)
TypeInv == TypeOK /\ InFlight

\* The types hold at the start.
LEMMA TypeInit == Init => TypeInv
<1> SUFFICES ASSUME Init PROVE TypeInv
  OBVIOUS
<1>1. lane \in Lanes
  BY LanesAssumption DEF Init
<1>2. conf \in Config /\ pool \in Pools /\ aclAt \in Pools
  BY ConfigsAssumption DEF Init, Config
<1> QED
  BY <1>1, <1>2 DEF Init, TypeInv, TypeOK, InFlight, PCs, Vias, Answers

\* Every step keeps the types.
LEMMA TypeStep == TypeInv /\ [Next]_vars => TypeInv'
<1> SUFFICES ASSUME TypeInv, [Next]_vars PROVE TypeInv'
  OBVIOUS
<1> USE DEF TypeInv
<1>c. conf \in Config
  BY ConfigsAssumption DEF TypeOK
<1>e. ASSUME NEW o \in Outcomes, NEW w \in Records, Ended(o, w), pc = "sent"
      PROVE  log' \in Seq(Attempt) /\ SameAttempts
  BY <1>e, EndedLog DEF TypeOK, InFlight
<1>1. CASE AclStep
  BY <1>1, <1>c
     DEF AclStep, Respond, Config, TypeOK, InFlight, PCs, Vias, Answers
<1>2. CASE Gates
  <2>1. restricts' \in Seq(Reply)
    BY <1>2, RepliesAssumption DEF Gates, TypeOK
  <2> QED
    BY <1>2, <2>1, <1>c
       DEF Gates, Respond, Config, TypeOK, InFlight, PCs, Vias, Answers
<1>3. CASE ApplyRestrict
  BY <1>3, <1>c
     DEF ApplyRestrict, Kept, Binding, Respond, Config, TypeOK, InFlight,
         PCs, Vias, Answers
<1>4. CASE EnterLoop
  BY <1>4, <1>c DEF EnterLoop, Config, TypeOK, InFlight, PCs, Vias, Answers
<1>5. CASE LoopHead
  BY <1>5, <1>c
     DEF LoopHead, Respond, Expired, Config, TypeOK, InFlight, PCs, Vias,
         Answers
<1>6. CASE PickLane
  BY <1>6, <1>c
     DEF PickLane, Take, Untried, Expired, Config, TypeOK, InFlight, PCs,
         Vias, Answers
<1>25. CASE PickSticky
  BY <1>25, <1>c
     DEF PickSticky, Untried, Config, TypeOK, InFlight, PCs,
         Vias, Answers
<1>7. CASE Park
  BY <1>7, <1>c
     DEF Park, Untried, Expired, Config, TypeOK, InFlight, PCs, Vias, Answers
<1>8. CASE PickNone
  BY <1>8, <1>c
     DEF PickNone, NoLane, Respond, Config, TypeOK, InFlight, PCs, Vias,
         Answers
<1>9. CASE ParkedPermit
  BY <1>9, <1>c
     DEF ParkedPermit, Take, Config, TypeOK, InFlight, PCs, Vias, Answers
<1>10. CASE ParkedTimeout
  BY <1>10, <1>c
     DEF ParkedTimeout, NoLane, Respond, Config, TypeOK, InFlight, PCs, Vias,
         Answers
<1>11. CASE Unsendable
  BY <1>11, <1>c
     DEF Unsendable, HopUnsendable, OnceUnsendable, Respond, Config, TypeOK,
         InFlight, PCs, Vias, Answers
<1>12. CASE Send
  BY <1>12, SendLog DEF Send, NewAttempt, TypeOK, InFlight, PCs, Vias, Answers
<1>13. CASE TransportError
  <2>1. log' \in Seq(Attempt)
    BY <1>13, <1>e DEF TransportError, AfterNoResponse, NextHop, Respond,
                       Outcomes, Records
  <2> QED
    BY <1>13, <2>1, <1>c
       DEF TransportError, AfterNoResponse, NextHop, Respond, Config, TypeOK,
           InFlight, PCs,
           Vias, Answers
<1>14. CASE Upstream5xx
  <2>1. log' \in Seq(Attempt)
    BY <1>14, <1>e DEF Upstream5xx, NextHop, Outcomes, Records
  <2> QED
    BY <1>14, <2>1, <1>c
       DEF Upstream5xx, NextHop, Config, TypeOK, InFlight, PCs, Vias,
           Answers
<1>15. CASE UpstreamAuth
  <2>1. log' \in Seq(Attempt)
    BY <1>15, <1>e DEF UpstreamAuth, Respond, Outcomes, Records
  <2> QED
    BY <1>15, <2>1, <1>c
       DEF UpstreamAuth, Respond, Config, TypeOK, InFlight, PCs, Vias,
           Answers
<1>16. CASE ClientFault
  <2>1. log' \in Seq(Attempt)
    BY <1>16, <1>e DEF ClientFault, Respond, Outcomes, Records
  <2> QED
    BY <1>16, <2>1, <1>c
       DEF ClientFault, Respond, Config, TypeOK, InFlight, PCs, Vias,
           Answers
<1>17. CASE ContextLength
  <2>1. log' \in Seq(Attempt)
    BY <1>17, <1>e DEF ContextLength, NextHop, NoLarger, Outcomes, Records
  <2> QED
    BY <1>17, <2>1, <1>c
       DEF ContextLength, NextHop, NoLarger, Config, TypeOK, InFlight, PCs,
           Vias, Answers
<1>18. CASE DegradedNon2xx
  <2>1. log' \in Seq(Attempt)
    BY <1>18, <1>e DEF DegradedNon2xx, Respond, Outcomes, Records
  <2> QED
    BY <1>18, <2>1, <1>c
       DEF DegradedNon2xx, Respond, Config, TypeOK, InFlight, PCs, Vias,
           Answers
<1>19. CASE Success
  <2>1. log' \in Seq(Attempt)
    BY <1>19, <1>e DEF Success, Delivered, BodyFailed, Undeliverable, Respond,
                       Outcomes, Records
  <2> QED
    BY <1>19, <2>1, <1>c
       DEF Success, Delivered, BodyFailed, Undeliverable, Respond, Config,
           TypeOK, InFlight, PCs, Vias, Answers
<1>20. CASE Status503
  BY <1>20, <1>c
     DEF Status503, Respond, Config, TypeOK, InFlight, PCs, Vias, Answers
<1>21. CASE FallbackPool
  BY <1>21, <1>c
     DEF FallbackPool, EnterFallback, MayEnter, Respond, Config, TypeOK,
         InFlight, PCs, Vias, Answers
<1>22. CASE LeastBad
  BY <1>22, <1>c
     DEF LeastBad, Respond, Config, TypeOK, InFlight, PCs, Vias, Answers
<1>23. CASE Tick
  BY <1>23, <1>c
     DEF Tick, Expired, Config, TypeOK, InFlight, PCs, Vias, Answers
<1>24. CASE UNCHANGED vars
  BY <1>24, <1>c DEF vars, Config, TypeOK, InFlight, PCs, Vias, Answers
<1> QED
  BY <1>1, <1>2, <1>3, <1>4, <1>5, <1>6, <1>7, <1>8, <1>9, <1>10, <1>11,
     <1>12, <1>13, <1>14, <1>15, <1>16, <1>17, <1>18, <1>19, <1>20, <1>21,
     <1>22, <1>23, <1>24, <1>25
     DEF Next, Walk, Done

\* Every variable keeps its type: in particular the log records well-formed
\* attempts only.
THEOREM TypeCorrect == Spec => []TypeOK
<1>1. Init => TypeInv
  BY TypeInit
<1>2. TypeInv /\ [Next]_vars => TypeInv'
  BY TypeStep
<1>3. TypeInv => TypeOK
  BY DEF TypeInv
<1> QED
  BY <1>1, <1>2, <1>3, PTL DEF Spec

-----------------------------------------------------------------------------
(* What the steps of the walk do to the log: send one attempt, or keep them *)

\* Only a send adds an attempt to the log.
LEMMA LogFrame ==
  ASSUME TypeInv, [Next]_vars
  PROVE  Send \/ SameAttempts
<1> USE DEF TypeInv
<1>e. ASSUME NEW o \in Outcomes, NEW w \in Records, Ended(o, w), pc = "sent"
      PROVE  SameAttempts
  BY <1>e, EndedLog DEF TypeOK, InFlight
<1>1. CASE TransportError
  BY <1>1, <1>e DEF TransportError, Outcomes, Records
<1>2. CASE Upstream5xx
  BY <1>2, <1>e DEF Upstream5xx, Outcomes, Records
<1>3. CASE UpstreamAuth
  BY <1>3, <1>e DEF UpstreamAuth, Outcomes, Records
<1>4. CASE ClientFault
  BY <1>4, <1>e DEF ClientFault, Outcomes, Records
<1>5. CASE ContextLength
  BY <1>5, <1>e DEF ContextLength, Outcomes, Records
<1>6. CASE DegradedNon2xx
  BY <1>6, <1>e DEF DegradedNon2xx, Outcomes, Records
<1>7. CASE Success
  BY <1>7, <1>e DEF Success, Delivered, BodyFailed, Undeliverable, Outcomes,
                    Records
<1>8. CASE UNCHANGED log
  BY <1>8 DEF SameAttempts
<1> QED
  BY <1>1, <1>2, <1>3, <1>4, <1>5, <1>6, <1>7, <1>8
     DEF Next, Walk, Done, vars, AclStep, Gates, ApplyRestrict, EnterLoop,
         LoopHead, PickSticky, PickLane, Park, PickNone, ParkedPermit, ParkedTimeout,
         Unsendable, Status503, FallbackPool, LeastBad, Tick

(***************************************************************************)
(* The pools allowed to the key: the chain walked at ingress is closed     *)
(* under fallback, so the exhaustion handlers never leave it.              *)
(***************************************************************************)
Chain == walked \union {aclAt}

AclInv ==
    /\ AclHolds
    /\ walked \subseteq conf.allowed
    /\ pool \in Chain
    /\ \A p \in walked :
          conf.onExhausted[p] = "fallback_pool" => conf.fallback[p] \in Chain
    /\ pc \notin {"acl", "done"} =>
          /\ aclAt \in conf.allowed
          /\ aclAt \in walked \/ conf.onExhausted[aclAt] # "fallback_pool"

\* Every step keeps the attempts within the pools that the key may use.
LEMMA AclPreserved == TypeInv /\ AclInv /\ [Next]_vars => AclInv'
<1> SUFFICES ASSUME TypeInv, AclInv, [Next]_vars PROVE AclInv'
  OBVIOUS
<1> USE DEF TypeInv
<1>c. conf \in Config /\ conf' = conf
  BY ConfigsAssumption
     DEF TypeOK, Next, Walk, Done, vars, AclStep, Gates, ApplyRestrict,
         EnterLoop, LoopHead, PickSticky, PickLane, Park, PickNone, ParkedPermit,
         ParkedTimeout, Unsendable, Send, TransportError, Upstream5xx,
         UpstreamAuth, ClientFault, ContextLength, DegradedNon2xx, Success,
         Status503, FallbackPool, LeastBad, Tick
<1>f. pc \notin {"picked", "sticky"} => SameAttempts
  BY LogFrame DEF Send
<1>s. Send => /\ Len(log') = Len(log) + 1
              /\ \A i \in 1..Len(log) : log'[i] = log[i]
              /\ log'[Len(log) + 1] =
                   [pool |-> pool, lane |-> lane, via |-> via, at |-> now,
                    sticky |-> pc = "sticky", outcome |-> "pending", recorded |-> "none"]
  BY SendLog
<1>l. Len(log) \in Nat /\ DOMAIN log = 1..Len(log)
  BY DEF TypeOK
<1>m. Len(log') \in Nat /\ DOMAIN log' = 1..Len(log')
  BY TypeStep DEF TypeOK
<1>1. CASE AclStep
  BY <1>1, <1>c, <1>f, <1>l, <1>m
     DEF AclStep, Respond, AclInv, AclHolds, Chain, SameAttempts
<1>2. CASE Gates
  BY <1>2, <1>c, <1>f, <1>l, <1>m
     DEF Gates, Respond, AclInv, AclHolds, Chain, SameAttempts
<1>3. CASE ApplyRestrict
  BY <1>3, <1>c, <1>f, <1>l, <1>m
     DEF ApplyRestrict, Kept, Binding, Respond, AclInv, AclHolds, Chain,
         SameAttempts
<1>4. CASE EnterLoop
  BY <1>4, <1>c, <1>f, <1>l, <1>m
     DEF EnterLoop, AclInv, AclHolds, Chain, SameAttempts
<1>5. CASE LoopHead
  BY <1>5, <1>c, <1>f, <1>l, <1>m
     DEF LoopHead, Respond, Expired, AclInv, AclHolds, Chain, SameAttempts
<1>6. CASE PickLane
  BY <1>6, <1>c, <1>f, <1>l, <1>m
     DEF PickLane, Take, Untried, Expired, AclInv, AclHolds, Chain,
         SameAttempts
<1>25. CASE PickSticky
  BY <1>25, <1>c, <1>f, <1>l, <1>m
     DEF PickSticky, Untried, AclInv, AclHolds, Chain,
         SameAttempts
<1>7. CASE Park
  BY <1>7, <1>c, <1>f, <1>l, <1>m
     DEF Park, Untried, Expired, AclInv, AclHolds, Chain, SameAttempts
<1>8. CASE PickNone
  BY <1>8, <1>c, <1>f, <1>l, <1>m
     DEF PickNone, NoLane, Respond, AclInv, AclHolds, Chain, SameAttempts
<1>9. CASE ParkedPermit
  BY <1>9, <1>c, <1>f, <1>l, <1>m
     DEF ParkedPermit, Take, AclInv, AclHolds, Chain, SameAttempts
<1>10. CASE ParkedTimeout
  BY <1>10, <1>c, <1>f, <1>l, <1>m
     DEF ParkedTimeout, NoLane, Respond, AclInv, AclHolds, Chain,
         SameAttempts
<1>11. CASE Unsendable
  BY <1>11, <1>c, <1>f, <1>l, <1>m
     DEF Unsendable, HopUnsendable, OnceUnsendable, Respond, AclInv, AclHolds,
         Chain, SameAttempts
<1>12. CASE Send
  BY <1>12, <1>c, <1>s, <1>l, <1>m DEF Send, NewAttempt, AclInv, AclHolds,
         Chain
<1>13. CASE TransportError
  BY <1>13, <1>c, <1>f, <1>l, <1>m
     DEF TransportError, AfterNoResponse, NextHop, Respond, AclInv, AclHolds,
         Chain,
         SameAttempts
<1>14. CASE Upstream5xx
  BY <1>14, <1>c, <1>f, <1>l, <1>m
     DEF Upstream5xx, NextHop, AclInv, AclHolds, Chain, SameAttempts
<1>15. CASE UpstreamAuth
  BY <1>15, <1>c, <1>f, <1>l, <1>m
     DEF UpstreamAuth, Respond, AclInv, AclHolds, Chain, SameAttempts
<1>16. CASE ClientFault
  BY <1>16, <1>c, <1>f, <1>l, <1>m
     DEF ClientFault, Respond, AclInv, AclHolds, Chain, SameAttempts
<1>17. CASE ContextLength
  BY <1>17, <1>c, <1>f, <1>l, <1>m
     DEF ContextLength, NextHop, NoLarger, AclInv, AclHolds, Chain,
         SameAttempts
<1>18. CASE DegradedNon2xx
  BY <1>18, <1>c, <1>f, <1>l, <1>m
     DEF DegradedNon2xx, Respond, AclInv, AclHolds, Chain, SameAttempts
<1>19. CASE Success
  BY <1>19, <1>c, <1>f, <1>l, <1>m
     DEF Success, Delivered, BodyFailed, Undeliverable, Respond, AclInv,
         AclHolds, Chain, SameAttempts
<1>20. CASE Status503
  BY <1>20, <1>c, <1>f, <1>l, <1>m
     DEF Status503, Respond, AclInv, AclHolds, Chain, SameAttempts
<1>21. CASE FallbackPool
  BY <1>21, <1>c, <1>f, <1>l, <1>m
     DEF FallbackPool, EnterFallback, MayEnter, Respond, AclInv, AclHolds,
         Chain, SameAttempts
<1>22. CASE LeastBad
  BY <1>22, <1>c, <1>f, <1>l, <1>m
     DEF LeastBad, Respond, AclInv, AclHolds, Chain, SameAttempts
<1>23. CASE Tick
  BY <1>23, <1>c, <1>f, <1>l, <1>m
     DEF Tick, Expired, AclInv, AclHolds, Chain, SameAttempts
<1>24. CASE UNCHANGED vars
  BY <1>24, <1>c, <1>f, <1>l, <1>m
     DEF vars, AclInv, AclHolds, Chain, SameAttempts
<1> QED
  BY <1>1, <1>2, <1>3, <1>4, <1>5, <1>6, <1>7, <1>8, <1>9, <1>10, <1>11,
     <1>12, <1>13, <1>14, <1>15, <1>16, <1>17, <1>18, <1>19, <1>20, <1>21,
     <1>22, <1>23, <1>24, <1>25
     DEF Next, Walk, Done

\* No attempt of any request goes to a pool its key may not use: the ACL walk
\* at ingress covers every pool the exhaustion handlers can reach.
THEOREM AclRespected == Spec => []AclHolds
<1>1. Init => TypeInv /\ AclInv
  BY TypeInit DEF Init, AclInv, AclHolds, Chain, SameAttempts
<1>2. TypeInv /\ AclInv /\ [Next]_vars => (TypeInv /\ AclInv)'
  BY TypeStep, AclPreserved
<1>3. AclInv => AclHolds
  BY DEF AclInv
<1> QED
  BY <1>1, <1>2, <1>3, PTL DEF Spec

(***************************************************************************)
(* Restricts: every candidate satisfies the binding restricts applied so   *)
(* far, all of them are applied before a pool is walked, and the lane in   *)
(* hand is a candidate.                                                    *)
(***************************************************************************)
Satisfies(l, j) == conf.tags[pool][l] \cap restricts[j].tags # {}

RestrictInv ==
    /\ RestrictHolds
    /\ pc \in {"acl", "gates"} => Len(log) = 0 /\ k = 1
    /\ pc \notin {"acl", "gates", "done"} =>
          \A j \in DOMAIN restricts :
             (j < k /\ Binding(restricts[j])) => \A l \in cands : Satisfies(l, j)
    /\ pc \notin {"acl", "gates", "restrict", "done"} => k > Len(restricts)
    /\ pc \in {"parked", "picked", "sticky", "sent"} => lane \in cands

\* Every step keeps the attempts within what the hook restricted them to.
LEMMA RestrictPreserved == TypeInv /\ RestrictInv /\ [Next]_vars => RestrictInv'
<1> SUFFICES ASSUME TypeInv, RestrictInv, [Next]_vars PROVE RestrictInv'
  OBVIOUS
<1> USE DEF TypeInv
<1>c. conf \in Config /\ conf' = conf
  BY ConfigsAssumption
     DEF TypeOK, Next, Walk, Done, vars, AclStep, Gates, ApplyRestrict,
         EnterLoop, LoopHead, PickSticky, PickLane, Park, PickNone, ParkedPermit,
         ParkedTimeout, Unsendable, Send, TransportError, Upstream5xx,
         UpstreamAuth, ClientFault, ContextLength, DegradedNon2xx, Success,
         Status503, FallbackPool, LeastBad, Tick
<1>f. pc \notin {"picked", "sticky"} => SameAttempts
  BY LogFrame DEF Send
<1>s. Send => /\ Len(log') = Len(log) + 1
              /\ \A i \in 1..Len(log) : log'[i] = log[i]
              /\ log'[Len(log) + 1] =
                   [pool |-> pool, lane |-> lane, via |-> via, at |-> now,
                    sticky |-> pc = "sticky", outcome |-> "pending", recorded |-> "none"]
  BY SendLog
<1>l. Len(log) \in Nat /\ DOMAIN log = 1..Len(log)
  BY DEF TypeOK
<1>m. Len(log') \in Nat /\ DOMAIN log' = 1..Len(log')
  BY TypeStep DEF TypeOK
<1>a. ASSUME pc = "sent", pc' \in {"head", "done"}, SameAttempts,
             UNCHANGED <<pool, restricts, k, cands, lane>>
      PROVE  RestrictInv'
  BY <1>a, <1>c, <1>l, <1>m DEF RestrictInv, RestrictHolds, Satisfies, SameAttempts, TypeOK
<1>1. CASE AclStep
  BY <1>1, <1>c, <1>f, <1>l, <1>m
     DEF AclStep, Respond, RestrictInv, RestrictHolds, Satisfies,
         SameAttempts, TypeOK
<1>2. CASE Gates
  <2>1. \A j \in DOMAIN restricts' : j \in Nat \ {0}
    BY TypeStep DEF TypeOK
  <2>2. RestrictHolds'
    BY <1>2, <1>l DEF Gates, RestrictInv, RestrictHolds
  <2> QED
    BY <1>2, <2>1, <2>2 DEF Gates, Respond, RestrictInv, TypeOK
<1>3. CASE ApplyRestrict
  BY <1>3, <1>c, <1>f, <1>l, <1>m
     DEF ApplyRestrict, Kept, Binding, Respond, RestrictInv, RestrictHolds,
         Satisfies, SameAttempts, TypeOK
<1>4. CASE EnterLoop
  BY <1>4, <1>c, <1>f, <1>l, <1>m
     DEF EnterLoop, RestrictInv, RestrictHolds, Satisfies, SameAttempts,
         TypeOK
<1>5. CASE LoopHead
  BY <1>5, <1>c, <1>f, <1>l, <1>m
     DEF LoopHead, Respond, Expired, RestrictInv, RestrictHolds, Satisfies,
         SameAttempts, TypeOK
<1>6. CASE PickLane
  BY <1>6, <1>c, <1>f, <1>l, <1>m
     DEF PickLane, Take, Untried, Expired, RestrictInv, RestrictHolds,
         Satisfies, SameAttempts, TypeOK
<1>25. CASE PickSticky
  BY <1>25, <1>c, <1>f, <1>l, <1>m
     DEF PickSticky, Untried, RestrictInv, RestrictHolds,
         Satisfies, SameAttempts, TypeOK
<1>7. CASE Park
  BY <1>7, <1>c, <1>f, <1>l, <1>m
     DEF Park, Untried, Expired, RestrictInv, RestrictHolds, Satisfies,
         SameAttempts, TypeOK
<1>8. CASE PickNone
  BY <1>8, <1>c, <1>f, <1>l, <1>m
     DEF PickNone, NoLane, Respond, RestrictInv, RestrictHolds, Satisfies,
         SameAttempts, TypeOK
<1>9. CASE ParkedPermit
  BY <1>9, <1>c, <1>f, <1>l, <1>m
     DEF ParkedPermit, Take, RestrictInv, RestrictHolds, Satisfies,
         SameAttempts, TypeOK
<1>10. CASE ParkedTimeout
  BY <1>10, <1>c, <1>f, <1>l, <1>m
     DEF ParkedTimeout, NoLane, Respond, RestrictInv, RestrictHolds,
         Satisfies, SameAttempts, TypeOK
<1>11. CASE Unsendable
  BY <1>11, <1>c, <1>f, <1>l, <1>m
     DEF Unsendable, HopUnsendable, OnceUnsendable, Respond, RestrictInv,
         RestrictHolds, Satisfies,
         SameAttempts, TypeOK
<1>12. CASE Send
  <2>1. ASSUME NEW i \in 1..(Len(log) + 1), NEW j \in DOMAIN restricts,
               Binding(restricts[j])
        PROVE  conf.tags[log'[i].pool][log'[i].lane] \cap restricts[j].tags # {}
    <3>1. CASE i \in 1..Len(log)
      BY <1>12, <1>l, <1>s, <2>1, <3>1 DEF RestrictInv, RestrictHolds
    <3>2. CASE i = Len(log) + 1
      <4>1. j < k
        BY <1>12 DEF Send, NewAttempt, RestrictInv, TypeOK
      <4> QED
        BY <1>12, <1>s, <2>1, <3>2, <4>1 DEF Send, NewAttempt, RestrictInv,
               Satisfies
    <3> QED
      BY <1>l, <2>1, <3>1, <3>2
  <2>2. RestrictHolds'
    BY <1>12, <1>c, <1>m, <1>s, <2>1 DEF Send, NewAttempt, RestrictHolds
  <2> QED
    BY <1>12, <1>c, <2>2 DEF Send, NewAttempt, RestrictInv, Satisfies
<1>13. CASE TransportError
  <2>1. /\ pc = "sent" /\ pc' \in {"head", "done"} /\ SameAttempts
        /\ UNCHANGED <<pool, restricts, k, cands, lane>>
    BY <1>13, <1>f DEF TransportError, AfterNoResponse, NextHop, Respond
  <2> QED
    BY <1>a, <2>1
<1>14. CASE Upstream5xx
  <2>1. /\ pc = "sent" /\ pc' \in {"head", "done"} /\ SameAttempts
        /\ UNCHANGED <<pool, restricts, k, cands, lane>>
    BY <1>14, <1>f DEF Upstream5xx, NextHop
  <2> QED
    BY <1>a, <2>1
<1>15. CASE UpstreamAuth
  <2>1. /\ pc = "sent" /\ pc' \in {"head", "done"} /\ SameAttempts
        /\ UNCHANGED <<pool, restricts, k, cands, lane>>
    BY <1>15, <1>f DEF UpstreamAuth, Respond
  <2> QED
    BY <1>a, <2>1
<1>16. CASE ClientFault
  <2>1. /\ pc = "sent" /\ pc' \in {"head", "done"} /\ SameAttempts
        /\ UNCHANGED <<pool, restricts, k, cands, lane>>
    BY <1>16, <1>f DEF ClientFault, Respond
  <2> QED
    BY <1>a, <2>1
<1>17. CASE ContextLength
  <2>1. /\ pc = "sent" /\ pc' \in {"head", "done"} /\ SameAttempts
        /\ UNCHANGED <<pool, restricts, k, cands, lane>>
    BY <1>17, <1>f DEF ContextLength, NextHop
  <2> QED
    BY <1>a, <2>1
<1>18. CASE DegradedNon2xx
  <2>1. /\ pc = "sent" /\ pc' \in {"head", "done"} /\ SameAttempts
        /\ UNCHANGED <<pool, restricts, k, cands, lane>>
    BY <1>18, <1>f DEF DegradedNon2xx, Respond
  <2> QED
    BY <1>a, <2>1
<1>19. CASE Success
  <2>1. /\ pc = "sent" /\ pc' \in {"head", "done"} /\ SameAttempts
        /\ UNCHANGED <<pool, restricts, k, cands, lane>>
    BY <1>19, <1>f DEF Success, Delivered, BodyFailed, Undeliverable, Respond
  <2> QED
    BY <1>a, <2>1
<1>20. CASE Status503
  BY <1>20, <1>c, <1>f, <1>l, <1>m
     DEF Status503, Respond, RestrictInv, RestrictHolds, Satisfies,
         SameAttempts, TypeOK
<1>21. CASE FallbackPool
  BY <1>21, <1>c, <1>f, <1>l, <1>m
     DEF FallbackPool, EnterFallback, MayEnter, Respond, RestrictInv,
         RestrictHolds, Satisfies, SameAttempts, TypeOK
<1>22. CASE LeastBad
  BY <1>22, <1>c, <1>f, <1>l, <1>m
     DEF LeastBad, Respond, RestrictInv, RestrictHolds, Satisfies,
         SameAttempts, TypeOK
<1>23. CASE Tick
  BY <1>23, <1>c, <1>f, <1>l, <1>m
     DEF Tick, Expired, RestrictInv, RestrictHolds, Satisfies, SameAttempts,
         TypeOK
<1>24. CASE UNCHANGED vars
  BY <1>24, <1>c, <1>f, <1>l, <1>m
     DEF vars, RestrictInv, RestrictHolds, Satisfies, SameAttempts, TypeOK
<1> QED
  BY <1>1, <1>2, <1>3, <1>4, <1>5, <1>6, <1>7, <1>8, <1>9, <1>10, <1>11,
     <1>12, <1>13, <1>14, <1>15, <1>16, <1>17, <1>18, <1>19, <1>20, <1>21,
     <1>22, <1>23, <1>24, <1>25
     DEF Next, Walk, Done

\* A binding restrict holds for every attempt of every request, on whatever
\* pool the request spilled into and on the least-bad path too.
THEOREM RestrictPersists == Spec => []RestrictHolds
<1>1. Init => TypeInv /\ RestrictInv
  BY TypeInit
     DEF Init, RestrictInv, RestrictHolds, Satisfies, SameAttempts, TypeOK
<1>2. TypeInv /\ RestrictInv /\ [Next]_vars => (TypeInv /\ RestrictInv)'
  BY TypeStep, RestrictPreserved
<1>3. RestrictInv => RestrictHolds
  BY DEF RestrictInv
<1> QED
  BY <1>1, <1>2, <1>3, PTL DEF Spec

(***************************************************************************)
(* Exclusion: every lane tried by a loop is excluded, and the lane in hand *)
(* was not tried before.                                                   *)
(***************************************************************************)
Tried == {log[i].lane : i \in {n \in 1..Len(log) : log[n].via # "least_bad"}}

OnceInv ==
    /\ NoLaneTwice
    /\ pc \in {"acl", "gates"} => Len(log) = 0
    /\ Tried \subseteq excluded
    /\ pc = "parked" => lane \notin excluded
    /\ (pc \in {"picked", "sticky"} /\ via # "least_bad") =>
          lane \in excluded /\ lane \notin Tried

\* Every step keeps the attempts of a walk apart.
LEMMA OncePreserved == TypeInv /\ OnceInv /\ [Next]_vars => OnceInv'
<1> SUFFICES ASSUME TypeInv, OnceInv, [Next]_vars PROVE OnceInv'
  OBVIOUS
<1> USE DEF TypeInv
<1>c. conf \in Config /\ conf' = conf
  BY ConfigsAssumption
     DEF TypeOK, Next, Walk, Done, vars, AclStep, Gates, ApplyRestrict,
         EnterLoop, LoopHead, PickSticky, PickLane, Park, PickNone, ParkedPermit,
         ParkedTimeout, Unsendable, Send, TransportError, Upstream5xx,
         UpstreamAuth, ClientFault, ContextLength, DegradedNon2xx, Success,
         Status503, FallbackPool, LeastBad, Tick
<1>f. pc \notin {"picked", "sticky"} => SameAttempts
  BY LogFrame DEF Send
<1>s. Send => /\ Len(log') = Len(log) + 1
              /\ \A i \in 1..Len(log) : log'[i] = log[i]
              /\ log'[Len(log) + 1] =
                   [pool |-> pool, lane |-> lane, via |-> via, at |-> now,
                    sticky |-> pc = "sticky", outcome |-> "pending", recorded |-> "none"]
  BY SendLog
<1>l. Len(log) \in Nat /\ DOMAIN log = 1..Len(log)
  BY DEF TypeOK
<1>m. Len(log') \in Nat /\ DOMAIN log' = 1..Len(log')
  BY TypeStep DEF TypeOK
<1>1. CASE AclStep
  BY <1>1, <1>c, <1>f, <1>l, <1>m
     DEF AclStep, Respond, OnceInv, NoLaneTwice, Tried, SameAttempts
<1>2. CASE Gates
  BY <1>2, <1>c, <1>f, <1>l, <1>m
     DEF Gates, Respond, OnceInv, NoLaneTwice, Tried, SameAttempts
<1>3. CASE ApplyRestrict
  BY <1>3, <1>c, <1>f, <1>l, <1>m
     DEF ApplyRestrict, Kept, Binding, Respond, OnceInv, NoLaneTwice, Tried,
         SameAttempts
<1>4. CASE EnterLoop
  BY <1>4, <1>c, <1>f, <1>l, <1>m
     DEF EnterLoop, OnceInv, NoLaneTwice, Tried, SameAttempts
<1>5. CASE LoopHead
  BY <1>5, <1>c, <1>f, <1>l, <1>m
     DEF LoopHead, Respond, Expired, OnceInv, NoLaneTwice, Tried,
         SameAttempts
<1>6. CASE PickLane
  BY <1>6, <1>c, <1>f, <1>l, <1>m
     DEF PickLane, Take, Untried, Expired, OnceInv, NoLaneTwice, Tried,
         SameAttempts
<1>25. CASE PickSticky
  BY <1>25, <1>c, <1>f, <1>l, <1>m
     DEF PickSticky, Untried, OnceInv, NoLaneTwice, Tried,
         SameAttempts
<1>7. CASE Park
  BY <1>7, <1>c, <1>f, <1>l, <1>m
     DEF Park, Untried, Expired, OnceInv, NoLaneTwice, Tried, SameAttempts
<1>8. CASE PickNone
  BY <1>8, <1>c, <1>f, <1>l, <1>m
     DEF PickNone, NoLane, Respond, OnceInv, NoLaneTwice, Tried, SameAttempts
<1>9. CASE ParkedPermit
  BY <1>9, <1>c, <1>f, <1>l, <1>m
     DEF ParkedPermit, Take, OnceInv, NoLaneTwice, Tried, SameAttempts
<1>10. CASE ParkedTimeout
  BY <1>10, <1>c, <1>f, <1>l, <1>m
     DEF ParkedTimeout, NoLane, Respond, OnceInv, NoLaneTwice, Tried,
         SameAttempts
<1>11. CASE Unsendable
  BY <1>11, <1>c, <1>f, <1>l, <1>m
     DEF Unsendable, HopUnsendable, OnceUnsendable, Respond, OnceInv,
         NoLaneTwice, Tried, SameAttempts
<1>12. CASE Send
  BY <1>12, <1>c, <1>s, <1>l, <1>m DEF Send, NewAttempt, OnceInv, NoLaneTwice,
         Tried
<1>13. CASE TransportError
  BY <1>13, <1>c, <1>f, <1>l, <1>m
     DEF TransportError, AfterNoResponse, NextHop, Respond, OnceInv,
         NoLaneTwice, Tried,
         SameAttempts
<1>14. CASE Upstream5xx
  BY <1>14, <1>c, <1>f, <1>l, <1>m
     DEF Upstream5xx, NextHop, OnceInv, NoLaneTwice, Tried, SameAttempts
<1>15. CASE UpstreamAuth
  BY <1>15, <1>c, <1>f, <1>l, <1>m
     DEF UpstreamAuth, Respond, OnceInv, NoLaneTwice, Tried, SameAttempts
<1>16. CASE ClientFault
  BY <1>16, <1>c, <1>f, <1>l, <1>m
     DEF ClientFault, Respond, OnceInv, NoLaneTwice, Tried, SameAttempts
<1>17. CASE ContextLength
  BY <1>17, <1>c, <1>f, <1>l, <1>m
     DEF ContextLength, NextHop, NoLarger, OnceInv, NoLaneTwice, Tried,
         SameAttempts
<1>18. CASE DegradedNon2xx
  BY <1>18, <1>c, <1>f, <1>l, <1>m
     DEF DegradedNon2xx, Respond, OnceInv, NoLaneTwice, Tried, SameAttempts
<1>19. CASE Success
  BY <1>19, <1>c, <1>f, <1>l, <1>m
     DEF Success, Delivered, BodyFailed, Undeliverable, Respond, OnceInv,
         NoLaneTwice, Tried, SameAttempts
<1>20. CASE Status503
  BY <1>20, <1>c, <1>f, <1>l, <1>m
     DEF Status503, Respond, OnceInv, NoLaneTwice, Tried, SameAttempts
<1>21. CASE FallbackPool
  BY <1>21, <1>c, <1>f, <1>l, <1>m
     DEF FallbackPool, EnterFallback, MayEnter, Respond, OnceInv,
         NoLaneTwice, Tried, SameAttempts
<1>22. CASE LeastBad
  BY <1>22, <1>c, <1>f, <1>l, <1>m
     DEF LeastBad, Respond, OnceInv, NoLaneTwice, Tried, SameAttempts
<1>23. CASE Tick
  BY <1>23, <1>c, <1>f, <1>l, <1>m
     DEF Tick, Expired, OnceInv, NoLaneTwice, Tried, SameAttempts
<1>24. CASE UNCHANGED vars
  BY <1>24, <1>c, <1>f, <1>l, <1>m
     DEF vars, OnceInv, NoLaneTwice, Tried, SameAttempts
<1> QED
  BY <1>1, <1>2, <1>3, <1>4, <1>5, <1>6, <1>7, <1>8, <1>9, <1>10, <1>11,
     <1>12, <1>13, <1>14, <1>15, <1>16, <1>17, <1>18, <1>19, <1>20, <1>21,
     <1>22, <1>23, <1>24, <1>25
     DEF Next, Walk, Done

\* The failover loop and the fallback loops never try a lane twice for the
\* same request, even when their pools share members.
THEOREM LanesTriedOnce == Spec => []NoLaneTwice
<1>1. Init => TypeInv /\ OnceInv
  BY TypeInit DEF Init, OnceInv, NoLaneTwice, Tried, SameAttempts
<1>2. TypeInv /\ OnceInv /\ [Next]_vars => (TypeInv /\ OnceInv)'
  BY TypeStep, OncePreserved
<1>3. OnceInv => NoLaneTwice
  BY DEF OnceInv
<1> QED
  BY <1>1, <1>2, <1>3, PTL DEF Spec

(***************************************************************************)
(* Deadline: an iteration begins only before it, so whatever was sent      *)
(* before a lane is sought, waited for or in hand was sent in time.        *)
(***************************************************************************)
DeadlineInv ==
    /\ DeadlineStopsWalk
    /\ \A i \in DOMAIN log : log[i].at <= now
    /\ pc = "parked" => now <= conf.deadline
    /\ (pc = "picked" /\ via # "least_bad") => now <= conf.deadline
    /\ (pc \in {"picking", "parked", "picked", "sticky"} /\ via # "least_bad") =>
          \A i \in DOMAIN log : log[i].via # "least_bad" => log[i].at < conf.deadline

\* When the attempts were sent.
LEMMA LogTimes ==
  ASSUME log \in Seq(Attempt)
  PROVE  \A i \in 1..Len(log) : log[i].at \in Nat
<1>1. \A i \in 1..Len(log) : log[i] \in Attempt
  OBVIOUS
<1> QED
  BY <1>1 DEF Attempt

\* A step that sends nothing keeps the invariant if the lane it seeks, waits for
\* or takes is allowed by the deadline.
LEMMA DeadlineFrame ==
  ASSUME TypeInv, TypeInv', DeadlineInv, SameAttempts, conf' = conf, now <= now',
         pc' = "parked" => now' <= conf.deadline,
         pc' = "picked" /\ via' # "least_bad" => now' <= conf.deadline,
         pc' \in {"picking", "parked", "picked", "sticky"} /\ via' # "least_bad" =>
            \A i \in DOMAIN log : log[i].via # "least_bad" => log[i].at < conf.deadline
  PROVE  DeadlineInv'
<1>1. /\ DOMAIN log = 1..Len(log) /\ DOMAIN log' = 1..Len(log)
      /\ Len(log) \in Nat /\ now \in Nat /\ now' \in Nat
  BY DEF TypeInv, TypeOK, SameAttempts
<1>2. \A i \in 1..Len(log) : log[i].at \in Nat
  BY LogTimes DEF TypeInv, TypeOK
<1>3. \A i \in DOMAIN log' : log'[i].at <= now'
  BY <1>1, <1>2 DEF DeadlineInv, SameAttempts
<1>4. DeadlineStopsWalk'
  BY <1>1 DEF DeadlineInv, DeadlineStopsWalk, SameAttempts
<1>5. pc' \in {"picking", "parked", "picked", "sticky"} /\ via' # "least_bad" =>
        \A i \in DOMAIN log' : log'[i].via # "least_bad" => log'[i].at < conf'.deadline
  BY <1>1 DEF SameAttempts
<1> QED
  BY <1>3, <1>4, <1>5 DEF DeadlineInv

\* Every step keeps the attempts within the deadline.
LEMMA DeadlinePreserved == TypeInv /\ DeadlineInv /\ [Next]_vars => DeadlineInv'
<1> SUFFICES ASSUME TypeInv, DeadlineInv, [Next]_vars PROVE DeadlineInv'
  OBVIOUS
<1>t. TypeInv'
  BY TypeStep
<1>c. conf \in Config /\ conf' = conf
  BY ConfigsAssumption
     DEF TypeInv, TypeOK, Next, Walk, Done, vars, AclStep, Gates, ApplyRestrict,
         EnterLoop, LoopHead, PickSticky, PickLane, Park, PickNone, ParkedPermit,
         ParkedTimeout, Unsendable, Send, TransportError, Upstream5xx,
         UpstreamAuth, ClientFault, ContextLength, DegradedNon2xx, Success,
         Status503, FallbackPool, LeastBad, Tick
<1>d. conf.deadline \in Nat /\ now \in Nat
  BY <1>c DEF Config, TypeInv, TypeOK
<1>f. ~Send => SameAttempts
  BY LogFrame DEF TypeInv
<1>1. CASE \/ AclStep \/ Gates \/ ApplyRestrict \/ EnterLoop \/ PickNone
           \/ ParkedTimeout \/ Unsendable \/ Status503 \/ FallbackPool
  <2>1. now' = now /\ pc' \in {"acl", "gates", "restrict", "head", "exhausted", "done"}
    BY <1>1 DEF AclStep, Gates, ApplyRestrict, EnterLoop, PickNone, ParkedTimeout,
         NoLane, Unsendable, HopUnsendable, OnceUnsendable, Status503, FallbackPool,
         EnterFallback, Respond
  <2>2. ~Send
    BY <2>1 DEF Send
  <2> QED
    BY <1>c, <1>d, <1>f, <1>t, <2>1, <2>2, DeadlineFrame
<1>2. CASE \/ TransportError \/ Upstream5xx \/ UpstreamAuth \/ ClientFault
           \/ ContextLength \/ DegradedNon2xx \/ Success
  <2>1. now' = now /\ pc' \in {"head", "done"}
    BY <1>2 DEF TransportError, AfterNoResponse, NextHop, Upstream5xx, UpstreamAuth,
         ClientFault, ContextLength, DegradedNon2xx, Success, Delivered, BodyFailed,
         Undeliverable, Respond
  <2>2. ~Send
    BY <2>1 DEF Send
  <2> QED
    BY <1>c, <1>d, <1>f, <1>t, <2>1, <2>2, DeadlineFrame
<1>3. CASE LoopHead
  <2>1. now' = now /\ via' = via /\ pc' \in {"exhausted", "picking", "done"} /\ ~Send
    BY <1>3 DEF LoopHead, Respond, Send
  <2>2. pc' = "picking" => \A i \in DOMAIN log : log[i].at < conf.deadline
    <3>1. \A i \in DOMAIN log : log[i].at \in Nat
      BY LogTimes DEF TypeInv, TypeOK
    <3> QED
      BY <1>3, <1>d, <3>1 DEF LoopHead, Respond, Expired, DeadlineInv
  <2> QED
    BY <1>c, <1>d, <1>f, <1>t, <2>1, <2>2, DeadlineFrame
<1>4. CASE PickSticky \/ PickLane \/ Park \/ ParkedPermit
  <2>1. /\ now' = now /\ via' = via /\ ~Send
        /\ pc \in {"picking", "parked"} /\ pc' \in {"sticky", "picked", "parked"}
    BY <1>4 DEF PickSticky, PickLane, Park, ParkedPermit, Take, Send
  <2>2. pc' \in {"picked", "parked"} => now <= conf.deadline
    BY <1>4, <1>d DEF PickSticky, PickLane, Park, ParkedPermit, Take, Expired, DeadlineInv
  <2> QED
    BY <1>c, <1>d, <1>f, <1>t, <2>1, <2>2, DeadlineFrame DEF DeadlineInv
<1>5. CASE LeastBad
  <2>1. now' = now /\ pc' \in {"picked", "done"} /\ (pc' = "picked" => via' = "least_bad")
    BY <1>5 DEF LeastBad, Respond
  <2>2. ~Send
    BY <2>1 DEF Send
  <2> QED
    BY <1>c, <1>d, <1>f, <1>t, <2>1, <2>2, DeadlineFrame
<1>6. CASE Tick
  <2>1. now' = now + 1 /\ pc' = pc /\ via' = via /\ ~Send /\ pc # "picked"
    BY <1>6 DEF Tick, Send
  <2>2. pc = "parked" => now + 1 <= conf.deadline
    BY <1>6, <1>d DEF Tick, Expired
  <2> QED
    BY <1>c, <1>d, <1>f, <1>t, <2>1, <2>2, DeadlineFrame DEF DeadlineInv
<1>7. CASE UNCHANGED vars
  <2>1. now' = now /\ pc' = pc /\ via' = via /\ ~Send
    BY <1>7 DEF vars, Send
  <2> QED
    BY <1>c, <1>d, <1>f, <1>t, <2>1, DeadlineFrame DEF DeadlineInv
<1>8. CASE Send
  <2> DEFINE n == Len(log) + 1
  <2>1. /\ n \in Nat /\ DOMAIN log = 1..Len(log) /\ DOMAIN log' = 1..n
        /\ Len(log) \in Nat /\ \A i \in 1..Len(log) : log[i].at \in Nat
    BY <1>8, SendLog, LogTimes DEF TypeInv, TypeOK
  <2>2. /\ \A i \in 1..Len(log) : log'[i] = log[i]
        /\ log'[n].at = now /\ log'[n].via = via /\ log'[n].sticky = (pc = "sticky")
    BY <1>8, SendLog DEF TypeInv
  <2>3. now' = now /\ pc' = "sent" /\ via' = via /\ pc \in {"picked", "sticky"}
    BY <1>8 DEF Send
  <2>4. via # "least_bad" =>
          \A i \in 1..Len(log) : log[i].via # "least_bad" => log[i].at < conf.deadline
    BY <2>1, <2>3 DEF DeadlineInv
  <2>5. pc # "sticky" /\ via # "least_bad" => now <= conf.deadline
    BY <2>3 DEF DeadlineInv
  <2>6. \A i \in 1..n : i = n \/ i \in 1..Len(log)
    BY <2>1
  <2> HIDE DEF n
  <2>7. \A i \in DOMAIN log' : log'[i].at <= now'
    BY <1>d, <2>1, <2>2, <2>3, <2>6 DEF DeadlineInv
  <2>8. ASSUME NEW i \in 1..n, log'[i].via # "least_bad"
        PROVE  /\ log'[i].at > conf.deadline => log'[i].sticky
               /\ log'[i].at >= conf.deadline =>
                    \A j \in 1..n : j > i => log'[j].via = "least_bad"
    <3>1. CASE i = n
      <4>1. log'[i].at > conf.deadline => pc = "sticky"
        BY <1>d, <2>2, <2>5, <2>8, <3>1
      <4>2. pc = "sticky" => log'[i].sticky
        BY <2>2, <3>1
      <4>3. \A j \in 1..n : ~(j > i)
        BY <2>1, <3>1
      <4> QED
        BY <4>1, <4>2, <4>3
    <3>2. CASE i \in 1..Len(log)
      <4>1. log[i].via # "least_bad" /\ log'[i] = log[i]
        BY <2>2, <2>8, <3>2
      <4>2. /\ log[i].at > conf.deadline => log[i].sticky
            /\ log[i].at >= conf.deadline =>
                 \A j \in 1..Len(log) : j > i => log[j].via = "least_bad"
        BY <2>1, <3>2, <4>1 DEF DeadlineInv, DeadlineStopsWalk
      <4>3. log[i].at >= conf.deadline => via = "least_bad"
        BY <1>d, <2>1, <2>4, <3>2, <4>1
      <4> QED
        BY <2>2, <2>6, <4>1, <4>2, <4>3
    <3> QED
      BY <2>6, <3>1, <3>2
  <2>9. DeadlineStopsWalk'
    BY <1>c, <2>1, <2>8 DEF DeadlineStopsWalk
  <2> QED
    BY <2>3, <2>7, <2>9 DEF DeadlineInv
<1> QED
  BY <1>1, <1>2, <1>3, <1>4, <1>5, <1>6, <1>7, <1>8 DEF Next, Walk, Done

\* Neither loop starts an attempt after the deadline except on a sticky lane,
\* and an attempt at the deadline or later is the last of the walk (the checks
\* of the loop heads, of pick_among and of handle_fallback_pool).
THEOREM DeadlineRespected == Spec => []DeadlineStopsWalk
<1>1. Init => TypeInv /\ DeadlineInv
  BY TypeInit
     DEF Init, DeadlineInv, DeadlineStopsWalk, SameAttempts, TypeOK, Config
<1>2. TypeInv /\ DeadlineInv /\ [Next]_vars => (TypeInv /\ DeadlineInv)'
  BY TypeStep, DeadlinePreserved
<1>3. DeadlineInv => DeadlineStopsWalk
  BY DEF DeadlineInv
<1> QED
  BY <1>1, <1>2, <1>3, PTL DEF Spec

(***************************************************************************)
(* Context length: while the main loop runs, the candidates no larger than *)
(* a lane that rejected the request are excluded.                          *)
(***************************************************************************)
Fits(c, l) ==
    (conf.contextMax[l] # 0 /\ conf.contextMax[c] # 0)
        => conf.contextMax[c] > conf.contextMax[l]

ContextInv ==
    /\ ContextRespected
    /\ pc \in {"acl", "gates"} => Len(log) = 0
    /\ pc = "parked" => lane \in cands \ excluded
    /\ via = "main" =>
          \A i \in 1..Len(log) : log[i].outcome = "context_length" =>
             /\ \A c \in cands \ excluded : Fits(c, log[i].lane)
             /\ pc \in {"picked", "sticky"} => Fits(lane, log[i].lane)

\* Every step keeps what was learnt of the context window.
LEMMA ContextPreserved == TypeInv /\ ContextInv /\ [Next]_vars => ContextInv'
<1> SUFFICES ASSUME TypeInv, ContextInv, [Next]_vars PROVE ContextInv'
  OBVIOUS
<1> USE DEF TypeInv
<1>c. conf \in Config /\ conf' = conf
  BY ConfigsAssumption
     DEF TypeOK, Next, Walk, Done, vars, AclStep, Gates, ApplyRestrict,
         EnterLoop, LoopHead, PickSticky, PickLane, Park, PickNone, ParkedPermit,
         ParkedTimeout, Unsendable, Send, TransportError, Upstream5xx,
         UpstreamAuth, ClientFault, ContextLength, DegradedNon2xx, Success,
         Status503, FallbackPool, LeastBad, Tick
<1>f. pc \notin {"picked", "sticky"} => SameAttempts
  BY LogFrame DEF Send
<1>s. Send => /\ Len(log') = Len(log) + 1
              /\ \A i \in 1..Len(log) : log'[i] = log[i]
              /\ log'[Len(log) + 1] =
                   [pool |-> pool, lane |-> lane, via |-> via, at |-> now,
                    sticky |-> pc = "sticky", outcome |-> "pending", recorded |-> "none"]
  BY SendLog
<1>l. Len(log) \in Nat /\ DOMAIN log = 1..Len(log)
  BY DEF TypeOK
<1>m. Len(log') \in Nat /\ DOMAIN log' = 1..Len(log')
  BY TypeStep DEF TypeOK
<1>e. ASSUME NEW o \in Outcomes, NEW w \in Records, Ended(o, w), pc = "sent"
      PROVE  log'[Len(log)].outcome = o
  BY <1>e, EndedLog DEF TypeOK, InFlight
<1>n. pc = "sent" => Len(log) > 0 /\ log[Len(log)].lane = lane
  BY DEF InFlight
<1>1. CASE AclStep
  BY <1>1, <1>c, <1>f, <1>l, <1>m
     DEF AclStep, Respond, ContextInv, ContextRespected, Fits, SameAttempts,
         TypeOK, Config, InFlight
<1>2. CASE Gates
  BY <1>2, <1>c, <1>f, <1>l, <1>m
     DEF Gates, Respond, ContextInv, ContextRespected, Fits, SameAttempts,
         TypeOK, Config, InFlight
<1>3. CASE ApplyRestrict
  BY <1>3, <1>c, <1>f, <1>l, <1>m
     DEF ApplyRestrict, Kept, Binding, Respond, ContextInv, ContextRespected,
         Fits, SameAttempts, TypeOK, Config, InFlight
<1>4. CASE EnterLoop
  BY <1>4, <1>c, <1>f, <1>l, <1>m
     DEF EnterLoop, ContextInv, ContextRespected, Fits, SameAttempts, TypeOK,
         Config, InFlight
<1>5. CASE LoopHead
  BY <1>5, <1>c, <1>f, <1>l, <1>m
     DEF LoopHead, Respond, Expired, ContextInv, ContextRespected, Fits,
         SameAttempts, TypeOK, Config, InFlight
<1>6. CASE PickLane
  BY <1>6, <1>c, <1>f, <1>l, <1>m
     DEF PickLane, Take, Untried, Expired, ContextInv, ContextRespected,
         Fits, SameAttempts, TypeOK, Config, InFlight
<1>25. CASE PickSticky
  BY <1>25, <1>c, <1>f, <1>l, <1>m
     DEF PickSticky, Untried, ContextInv, ContextRespected,
         Fits, SameAttempts, TypeOK, Config, InFlight
<1>7. CASE Park
  BY <1>7, <1>c, <1>f, <1>l, <1>m
     DEF Park, Untried, Expired, ContextInv, ContextRespected, Fits,
         SameAttempts, TypeOK, Config, InFlight
<1>8. CASE PickNone
  BY <1>8, <1>c, <1>f, <1>l, <1>m
     DEF PickNone, NoLane, Respond, ContextInv, ContextRespected, Fits,
         SameAttempts, TypeOK, Config, InFlight
<1>9. CASE ParkedPermit
  BY <1>9, <1>c, <1>f, <1>l, <1>m
     DEF ParkedPermit, Take, ContextInv, ContextRespected, Fits,
         SameAttempts, TypeOK, Config, InFlight
<1>10. CASE ParkedTimeout
  BY <1>10, <1>c, <1>f, <1>l, <1>m
     DEF ParkedTimeout, NoLane, Respond, ContextInv, ContextRespected, Fits,
         SameAttempts, TypeOK, Config, InFlight
<1>11. CASE Unsendable
  BY <1>11, <1>c, <1>f, <1>l, <1>m
     DEF Unsendable, HopUnsendable, OnceUnsendable, Respond, ContextInv,
         ContextRespected, Fits,
         SameAttempts, TypeOK, Config, InFlight
<1>12. CASE Send
  <2>1. ContextRespected'
    <3> SUFFICES ASSUME NEW i \in 1..(Len(log) + 1), NEW j \in 1..(Len(log) + 1),
                        i < j, log'[i].outcome = "context_length",
                        log'[j].via = "main",
                        conf.contextMax[log'[i].lane] # 0,
                        conf.contextMax[log'[j].lane] # 0
                 PROVE  conf.contextMax[log'[j].lane] > conf.contextMax[log'[i].lane]
      BY <1>12, <1>c, <1>m, <1>s DEF ContextRespected
    <3>1. i \in 1..Len(log) /\ log'[i] = log[i]
      BY <1>12, <1>l, <1>s
    <3>2. CASE j = Len(log) + 1
      BY <1>12, <1>s, <3>1, <3>2 DEF ContextInv, Fits, Send, NewAttempt
    <3>3. CASE j \in 1..Len(log)
      BY <1>12, <1>l, <1>s, <3>1, <3>3 DEF ContextInv, ContextRespected
    <3> QED
      BY <1>l, <3>2, <3>3
  <2>2. \A i \in 1..Len(log') : log'[i].outcome = "context_length" =>
          i \in 1..Len(log) /\ log'[i] = log[i]
    BY <1>12, <1>l, <1>s
  <2> QED
    BY <1>12, <1>c, <2>1, <2>2 DEF Send, NewAttempt, ContextInv, Fits
<1>13. CASE TransportError
  <2>1. log'[Len(log)].outcome # "context_length" \/ via' # "main"
    BY <1>13, <1>e DEF TransportError, Outcomes, Records
  <2>2. ContextRespected'
    BY <1>13, <1>c, <1>f, <1>l, <1>m
       DEF TransportError, ContextInv, ContextRespected, SameAttempts
  <2> QED
    BY <1>13, <1>c, <1>f, <1>l, <1>m, <2>1, <2>2
       DEF TransportError, AfterNoResponse, NextHop, Respond, ContextInv,
           Fits, SameAttempts
<1>14. CASE Upstream5xx
  <2>1. log'[Len(log)].outcome # "context_length" \/ via' # "main"
    BY <1>14, <1>e DEF Upstream5xx, Outcomes, Records
  <2>2. ContextRespected'
    BY <1>14, <1>c, <1>f, <1>l, <1>m
       DEF Upstream5xx, ContextInv, ContextRespected, SameAttempts
  <2> QED
    BY <1>14, <1>c, <1>f, <1>l, <1>m, <2>1, <2>2
       DEF Upstream5xx, NextHop, ContextInv, Fits, SameAttempts
<1>15. CASE UpstreamAuth
  <2>1. log'[Len(log)].outcome # "context_length" \/ via' # "main"
    BY <1>15, <1>e DEF UpstreamAuth, Outcomes, Records
  <2>2. ContextRespected'
    BY <1>15, <1>c, <1>f, <1>l, <1>m
       DEF UpstreamAuth, ContextInv, ContextRespected, SameAttempts
  <2> QED
    BY <1>15, <1>c, <1>f, <1>l, <1>m, <2>1, <2>2
       DEF UpstreamAuth, Respond, ContextInv, Fits, SameAttempts
<1>16. CASE ClientFault
  <2>1. log'[Len(log)].outcome # "context_length" \/ via' # "main"
    BY <1>16, <1>e DEF ClientFault, Outcomes, Records
  <2>2. ContextRespected'
    BY <1>16, <1>c, <1>f, <1>l, <1>m
       DEF ClientFault, ContextInv, ContextRespected, SameAttempts
  <2> QED
    BY <1>16, <1>c, <1>f, <1>l, <1>m, <2>1, <2>2
       DEF ClientFault, Respond, ContextInv, Fits, SameAttempts
<1>17. CASE ContextLength
  <2>1. /\ Len(log') = Len(log) /\ cands' = cands /\ lane' = lane
        /\ \A i \in 1..Len(log) : log'[i].lane = log[i].lane /\ log'[i].via = log[i].via
        /\ \A i \in 1..Len(log) : i < Len(log) => log'[i].outcome = log[i].outcome
    BY <1>17, <1>f DEF ContextLength, SameAttempts
  <2>2. ContextRespected'
    BY <1>c, <1>l, <1>m, <2>1 DEF ContextInv, ContextRespected
  <2>3. \A c \in cands' \ excluded' : c \in cands \ excluded /\ Fits(c, lane)
    BY <1>17, <1>c DEF ContextLength, NoLarger, Fits, TypeOK, Config
  <2>4. ASSUME NEW i \in 1..Len(log), log'[i].outcome = "context_length",
               NEW c \in cands' \ excluded'
        PROVE  Fits(c, log'[i].lane)
    <3>1. CASE i = Len(log)
      BY <1>c, <1>n, <2>1, <2>3, <3>1, <1>17 DEF Fits, ContextLength
    <3>2. CASE i # Len(log)
      <4>1. log'[i].outcome = log[i].outcome
        BY <2>1, <3>2 DEF TypeOK
      <4> QED
        BY <2>1, <2>3, <2>4, <4>1, <1>17 DEF ContextInv, Fits, ContextLength
    <3> QED
      BY <3>1, <3>2
  <2> QED
    BY <1>17, <1>c, <1>l, <2>1, <2>2, <2>4
       DEF ContextLength, NextHop, ContextInv, Fits
<1>18. CASE DegradedNon2xx
  <2>1. log'[Len(log)].outcome # "context_length" \/ via' # "main"
    BY <1>18, <1>e DEF DegradedNon2xx, Outcomes, Records
  <2>2. ContextRespected'
    BY <1>18, <1>c, <1>f, <1>l, <1>m
       DEF DegradedNon2xx, ContextInv, ContextRespected, SameAttempts
  <2> QED
    BY <1>18, <1>c, <1>f, <1>l, <1>m, <2>1, <2>2
       DEF DegradedNon2xx, Respond, ContextInv, Fits, SameAttempts
<1>19. CASE Success
  <2>1. log'[Len(log)].outcome # "context_length" \/ via' # "main"
    BY <1>19, <1>e DEF Success, Delivered, BodyFailed, Undeliverable,
                       Outcomes, Records
  <2>2. ContextRespected'
    BY <1>19, <1>c, <1>f, <1>l, <1>m
       DEF Success, Delivered, BodyFailed, Undeliverable, ContextInv,
           ContextRespected, SameAttempts
  <2> QED
    BY <1>19, <1>c, <1>f, <1>l, <1>m, <2>1, <2>2
       DEF Success, Delivered, BodyFailed, Undeliverable, Respond, ContextInv,
           Fits, SameAttempts
<1>20. CASE Status503
  BY <1>20, <1>c, <1>f, <1>l, <1>m
     DEF Status503, Respond, ContextInv, ContextRespected, Fits,
         SameAttempts, TypeOK, Config, InFlight
<1>21. CASE FallbackPool
  BY <1>21, <1>c, <1>f, <1>l, <1>m
     DEF FallbackPool, EnterFallback, MayEnter, Respond, ContextInv,
         ContextRespected, Fits, SameAttempts, TypeOK, Config, InFlight
<1>22. CASE LeastBad
  BY <1>22, <1>c, <1>f, <1>l, <1>m
     DEF LeastBad, Respond, ContextInv, ContextRespected, Fits, SameAttempts,
         TypeOK, Config, InFlight
<1>23. CASE Tick
  BY <1>23, <1>c, <1>f, <1>l, <1>m
     DEF Tick, Expired, ContextInv, ContextRespected, Fits, SameAttempts,
         TypeOK, Config, InFlight
<1>24. CASE UNCHANGED vars
  BY <1>24, <1>c, <1>f, <1>l, <1>m
     DEF vars, ContextInv, ContextRespected, Fits, SameAttempts, TypeOK,
         Config, InFlight
<1> QED
  BY <1>1, <1>2, <1>3, <1>4, <1>5, <1>6, <1>7, <1>8, <1>9, <1>10, <1>11,
     <1>12, <1>13, <1>14, <1>15, <1>16, <1>17, <1>18, <1>19, <1>20, <1>21,
     <1>22, <1>23, <1>24, <1>25
     DEF Next, Walk, Done

\* After a context-length rejection the main loop only tries members that are
\* larger than every lane that rejected the request, or of unknown size.
THEOREM ContextLengthRespected == Spec => []ContextRespected
<1>1. Init => TypeInv /\ ContextInv
  BY TypeInit
     DEF Init, ContextInv, ContextRespected, Fits, SameAttempts, TypeOK,
         Config, InFlight
<1>2. TypeInv /\ ContextInv /\ [Next]_vars => (TypeInv /\ ContextInv)'
  BY TypeStep, ContextPreserved
<1>3. ContextInv => ContextRespected
  BY DEF ContextInv
<1> QED
  BY <1>1, <1>2, <1>3, PTL DEF Spec

=============================================================================
