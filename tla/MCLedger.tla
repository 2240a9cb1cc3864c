------------------------------ MODULE MCLedger ------------------------------
(***************************************************************************)
(* Small instances of Ledger: key A in a team under an org, key B in the   *)
(* org, and a key C in a group of its own without a concurrency cap.       *)
(***************************************************************************)
EXTENDS Ledger

CONSTANTS r1, r2, r3, r4, r5, keyA, keyB, keyC, month, budget, window,
          team, org, big, small

MCRequests == {r1, r2, r3, r4, r5}
MCBuckets  == {keyA, keyB, keyC, month, budget, window}
MCGroups   == {team, org}
MCPools    == {big, small}

MCChain ==
  [r \in MCRequests |-> CASE r \in {r1, r2} -> <<keyA, month, budget>>
                          [] r = r3         -> <<keyB, month, budget>>
                          [] OTHER          -> <<keyC, window>>]

MCGauges ==
  [r \in MCRequests |-> CASE r \in {r1, r2} -> <<team, org>>
                          [] r = r3         -> <<org>>
                          [] OTHER          -> <<>>]

MCAsked == [r \in MCRequests |-> big]

MCAllowed == [r \in MCRequests |-> MCPools]

Uncapped == [requests |-> None, tokens |-> None, budget |-> None, period |-> 0,
             pool |-> None, downgrade |-> None]

\* A key's own bucket has no limits.  The month is as long as the sweep's horizon,
\* the other windows are two ticks long; the budget is for the pool big, and
\* downgrades.
MCLimit ==
  [b \in MCBuckets |->
     CASE b = month -> [Uncapped EXCEPT !.requests = 2, !.period = 3]
       [] b = budget -> [Uncapped EXCEPT !.budget = 2, !.tokens = 1, !.period = 2,
                                         !.pool = big, !.downgrade = small]
       [] b = window -> [Uncapped EXCEPT !.requests = 1, !.period = 2]
       [] OTHER -> Uncapped]

\* The chains of A and B meet the shards in opposite orders.
MCShard == [b \in MCBuckets |-> IF b \in {keyA, budget} THEN 1 ELSE 0]

MCConcurrentCap == [x \in MCGroups |-> IF x = team THEN 1 ELSE 2]

MCUsage == [r \in MCRequests |-> IF r \in {r1, r4} THEN {1} ELSE {0}]

\* Three admissions race; requests come, are flushed and the process crashes or
\* is stopped in good order.
Racing   == [arrive |-> {r1, r2, r3}, until |-> 4, flush |-> FALSE, faults |-> {},
             stops |-> {}]
Crashing == [arrive |-> {r4, r5}, until |-> 4, flush |-> TRUE,
             faults |-> {"error"}, stops |-> {"crash"}]
Stopping == [arrive |-> {r4, r5}, until |-> 4, flush |-> TRUE, faults |-> {},
             stops |-> {"graceful"}]

Aging    == [arrive |-> {r4, r5}, until |-> 5, flush |-> FALSE, faults |-> {},
             stops |-> {}]

Losing   == [arrive |-> {r4, r5}, until |-> 3, flush |-> TRUE, faults |-> {"lost"},
             stops |-> {"crash"}]

AllScenarios == {Racing, Crashing, Losing, Stopping, Aging}
=============================================================================
