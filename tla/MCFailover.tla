----------------------------- MODULE MCFailover -----------------------------
(***************************************************************************)
(* Small configurations for Failover: three lanes, two of them of the same *)
(* context size, and up to three pools that share members.                 *)
(***************************************************************************)
EXTENDS Failover, TLC

CONSTANTS a, b, c, P, Q, R, baa

MCLanes == {a, b, c}
MCPools == {P, Q, R}
MCTags == {baa}

Base ==
    [known |-> Pools, allowed |-> Pools,
     members |-> [p \in Pools |-> IF p = P THEN {a, b, c} ELSE {b, c}],
     tags |-> [p \in Pools |-> [l \in Lanes |-> {}]],
     exclusions |-> [p \in Pools |-> {}],
     onExhausted |-> [p \in Pools |-> "status_503"],
     fallback |-> [p \in Pools |-> IF p = P THEN Q ELSE P],
     contextMax |-> [l \in Lanes |-> IF l = c THEN 2 ELSE 1],
     maxHops |-> 1, deadline |-> 2, passthrough |-> FALSE,
     session |-> FALSE]

Abstains == [verb |-> "abstain", tags |-> {}, required |-> FALSE]
Rejects == [verb |-> "reject", tags |-> {}, required |-> FALSE]
Requires == [verb |-> "restrict", tags |-> {baa}, required |-> TRUE]
Advises == [verb |-> "restrict", tags |-> {baa}, required |-> FALSE]

SomeGates == {<<>>, <<Requires>>, <<Advises, Requires>>, <<Abstains, Rejects>>}

\* What each of the three pools has.
For(p, q, r) == P :> p @@ Q :> q @@ R :> r

\* Validated configurations: P spills to Q, Q ends the chain.
WalkConfigs ==
    {[Base EXCEPT !.known = {P, Q}, !.allowed = al,
                  !.onExhausted = For(mp, mq, "status_503"),
                  !.tags = For(tg, tq, [l \in Lanes |-> {}]),
                  !.exclusions = For(ex, {}, {})] :
        al \in {{P}, {P, Q}}, mp \in Modes, mq \in {"status_503", "least_bad"},
        tg \in {[l \in Lanes |-> IF l = a THEN {baa} ELSE {}]},
        tq \in {[l \in Lanes |-> {}], [l \in Lanes |-> IF l = b THEN {baa} ELSE {}]},
        ex \in {{}, {b}}}

\* Three pools pointing anywhere, known or not: what validation rejects, so
\* that termination rests on the runtime guard alone.
LoopConfigs ==
    {[Base EXCEPT !.known = kn, !.fallback = fb, !.deadline = 3,
                  !.onExhausted = [p \in Pools |-> "fallback_pool"],
                  !.members = [p \in Pools |-> {a}]] :
        kn \in {Pools, {P, Q}}, fb \in [Pools -> Pools]}

Passthrough == {[Base EXCEPT !.passthrough = TRUE, !.maxHops = 2]}

\* A session's request, whatever its pool does when it is exhausted.
Sessions ==
    {[Base EXCEPT !.known = {P, Q}, !.session = TRUE,
                  !.onExhausted = For(mp, "status_503", "status_503")] : mp \in Modes}

MCConfigs == WalkConfigs \union Passthrough \union LoopConfigs \union Sessions
=============================================================================
