------------------------------ MODULE Failover ------------------------------
(***************************************************************************)
(* One request walking the forwarding engine: the virtual key's pool ACL   *)
(* (ingress/mod.rs), the gates' reconcile, the failover loop of            *)
(* forward_with_pool_parsed_inner (proxy/engine/mod.rs) and the exhaustion *)
(* handlers of proxy/engine/walk.rs, with the RequestCtx they share        *)
(* (proxy/select.rs): deadline, excluded lanes, visited pools, restricts.  *)
(*                                                                         *)
(* The breaker store is the environment here (module LaneBreaker models    *)
(* it): other requests trip and recover cells at any moment, so which      *)
(* eligible lane pick_among returns, whether it has to park for a permit   *)
(* and whether it finds none at all is a free choice.  The routing         *)
(* policy's order and SWRR only choose among the same lanes; affinity does *)
(* too, but it is asked before pick_among looks at the deadline.           *)
(* So is the answer of the upstream.  Both retry loops of the code are     *)
(* steps here: one per restrict, one per attempt, one per pool.            *)
(***************************************************************************)
EXTENDS Naturals, Sequences, FiniteSets

CONSTANTS
    Lanes,        \* indices of App::lanes
    Pools,        \* pool names
    Tags,         \* member tags
    Configs,      \* the configurations a request may meet: a subset of Config
    GateReplies   \* what the chain of gates and the routing policy may answer

VARIABLES
    conf,       \* the App snapshot the request holds (an Arc: never reloaded under it)
    now,        \* seconds since RequestCtx::new
    pc,         \* where the request is
    via,        \* which of the three dispatching paths is walking
    pool,       \* the pool being walked
    aclAt,      \* fallback_pools_authorized: the pool under the cursor
    walked,     \* fallback_pools_authorized: its own visited set
    restricts,  \* the gates' outcomes; RequestCtx::active_restricts are those that restrict
    k,          \* the restrict applied next
    cands,      \* candidate lanes of the current pool
    excluded,   \* RequestCtx::excluded
    visited,    \* RequestCtx::visited_pools
    hop,        \* the failover loop's `attempt`
    lane,       \* the lane in hand while "parked", "picked", "sticky" or "sent"
    log,        \* history: every upstream attempt sent
    answer      \* what the client got

vars == <<conf, now, pc, via, pool, aclAt, walked, restricts, k, cands,
          excluded, visited, hop, lane, log, answer>>

Modes == {"status_503", "least_bad", "fallback_pool"}
Vias == {"main", "fallback", "least_bad"}
Outcomes == {"pending", "transport", "transient", "billing", "auth",
             "client_fault", "context_length", "success", "body_failed"}
Records == {"none", "failure", "hard_down", "success"}
Answers == {"none", "forbidden", "gate_rejected", "timeout", "unavailable",
            "error", "relayed", "auth_error", "served"}
PCs == {"acl", "gates", "restrict", "head", "picking", "parked", "picked",
        "sticky", "sent", "exhausted", "done"}

\* contextMax[l] = 0: the lane declares none.  known: the pools that exist.
\* session: the request carries an affinity key.
Config ==
    [known : SUBSET Pools, allowed : SUBSET Pools,
     members : [Pools -> SUBSET Lanes],
     tags : [Pools -> [Lanes -> SUBSET Tags]],
     exclusions : [Pools -> SUBSET Lanes],
     onExhausted : [Pools -> Modes],
     fallback : [Pools -> Pools],
     contextMax : [Lanes -> Nat],
     maxHops : Nat, deadline : Nat \ {0}, passthrough : BOOLEAN,
     session : BOOLEAN]

\* One gate's (or the policy's) outcome, as the reconcile tells them apart.
Reply == [verb : {"abstain", "reject", "restrict"}, tags : SUBSET Tags,
          required : BOOLEAN]

Attempt == [pool : Pools, lane : Lanes, via : Vias, at : Nat, sticky : BOOLEAN,
            outcome : Outcomes, recorded : Records]

ASSUME LanesAssumption == Lanes # {}
ASSUME ConfigsAssumption == Configs \subseteq Config
ASSUME RepliesAssumption == GateReplies \subseteq Seq(Reply)

TypeOK ==
    /\ conf \in Configs
    /\ now \in Nat
    /\ pc \in PCs
    /\ via \in Vias
    /\ pool \in Pools
    /\ aclAt \in Pools
    /\ walked \in SUBSET Pools
    /\ restricts \in Seq(Reply)
    /\ k \in Nat \ {0}
    /\ cands \in SUBSET Lanes
    /\ excluded \in SUBSET Lanes
    /\ visited \in SUBSET Pools
    /\ hop \in Nat
    /\ lane \in Lanes
    /\ log \in Seq(Attempt)
    /\ answer \in Answers

-----------------------------------------------------------------------------
Expired == now >= conf.deadline

\* Every `return` of the walk.
Respond(a) ==
    /\ answer' = a
    /\ pc' = "done"

Init ==
    /\ conf \in Configs
    /\ pool \in conf.known
    /\ aclAt = pool
    /\ lane = CHOOSE l \in Lanes : TRUE
    /\ now = 0
    /\ pc = "acl"
    /\ via = "main"
    /\ walked = {}
    /\ restricts = <<>>
    /\ k = 1
    /\ cands = {}
    /\ excluded = {}
    /\ visited = {}
    /\ hop = 0
    /\ log = <<>>
    /\ answer = "none"

\* Mutant of AclStep: only the requested pool is checked.
AclStep_RequestedOnly ==
    /\ pc = "acl"
    /\ IF pool \in conf.allowed
         THEN pc' = "gates" /\ UNCHANGED answer
         ELSE Respond("forbidden")
    /\ UNCHANGED <<conf, now, via, pool, aclAt, walked, restricts, k, cands,
                   excluded, visited, hop, lane, log>>

\* pool_authorized on the requested pool, then fallback_pools_authorized: one
\* step per pool of the chain, under the same cycle guard as the walk itself.
AclStep ==
    /\ pc = "acl"
    /\ \/ /\ aclAt \notin conf.allowed
          /\ Respond("forbidden")
          /\ UNCHANGED <<aclAt, walked>>
       \/ /\ aclAt \in conf.allowed
          /\ aclAt \notin walked
          /\ conf.onExhausted[aclAt] = "fallback_pool"
          /\ walked' = walked \union {aclAt}
          /\ aclAt' = conf.fallback[aclAt]
          /\ UNCHANGED <<pc, answer>>
       \/ /\ aclAt \in conf.allowed
          /\ aclAt \in walked \/ conf.onExhausted[aclAt] # "fallback_pool"
          /\ pc' = "gates"
          /\ UNCHANGED <<aclAt, walked, answer>>
    /\ UNCHANGED <<conf, now, via, pool, restricts, k, cands, excluded,
                   visited, hop, lane, log>>

\* RequestCtx::new, the pool's exclusions, then reconcile 1: any reject wins.
Gates ==
    /\ pc = "gates"
    /\ cands' = conf.members[pool]
    /\ excluded' = conf.members[pool] \cap conf.exclusions[pool]
    /\ \E replies \in GateReplies :
          \/ /\ \E i \in DOMAIN replies : replies[i].verb = "reject"
             /\ Respond("gate_rejected")
             /\ UNCHANGED restricts
          \/ /\ \A i \in DOMAIN replies : replies[i].verb # "reject"
             /\ restricts' = replies
             /\ pc' = "restrict"
             /\ UNCHANGED answer
    /\ UNCHANGED <<conf, now, via, pool, aclAt, walked, k, visited, hop, lane,
                   log>>

\* A restrict that fails closed when it leaves no candidate.
Binding(r) == r.verb = "restrict" /\ r.required

\* The candidates that outcome k leaves in the current pool.
Kept ==
    {l \in cands : restricts[k].verb = "restrict" =>
                       conf.tags[pool][l] \cap restricts[k].tags # {}}

\* Reconcile 2 on the requested pool, RequestCtx::enforce_restricts on a
\* fallback pool: the candidates shrink, the restrict is skipped (on_empty:
\* weighted), or the request fails closed.
ApplyRestrict ==
    /\ pc = "restrict"
    /\ k <= Len(restricts)
    /\ \/ /\ Kept # {}
          /\ cands' = Kept
          /\ k' = k + 1
          /\ UNCHANGED <<pc, answer>>
       \/ /\ Kept = {}
          /\ ~Binding(restricts[k])
          /\ k' = k + 1
          /\ UNCHANGED <<cands, pc, answer>>
       \/ /\ Kept = {}
          /\ Binding(restricts[k])
          /\ Respond("gate_rejected")
          /\ UNCHANGED <<cands, k>>
    /\ UNCHANGED <<conf, now, via, pool, aclAt, walked, restricts, excluded,
                   visited, hop, lane, log>>

\* All restricts applied: a fallback pool is marked visited before its loop.
EnterLoop ==
    /\ pc = "restrict"
    /\ k > Len(restricts)
    /\ pc' = "head"
    /\ visited' = IF via = "fallback" THEN visited \union {pool} ELSE visited
    /\ UNCHANGED <<conf, now, via, pool, aclAt, walked, restricts, k, cands,
                   excluded, hop, lane, log, answer>>

\* `for attempt in 0..=max_cap` bounds the main loop only; both loops check
\* the deadline before they pick.
LoopHead ==
    /\ pc = "head"
    /\ \/ /\ via = "main" /\ hop > conf.maxHops
          /\ pc' = "exhausted"
          /\ UNCHANGED answer
       \/ /\ via = "main" => hop <= conf.maxHops
          /\ Expired
          /\ Respond("timeout")
       \/ /\ via = "main" => hop <= conf.maxHops
          /\ ~Expired
          /\ pc' = "picking"
          /\ UNCHANGED answer
    /\ UNCHANGED <<conf, now, via, pool, aclAt, walked, restricts, k, cands,
                   excluded, visited, hop, lane, log>>

-----------------------------------------------------------------------------
(* pick_among *)

Untried == cands \ excluded

\* Mutant of Take: the picked lane is not excluded.
Take_Forgets(l) ==
    /\ pc' = "picked"
    /\ lane' = l
    /\ UNCHANGED <<excluded, answer>>

\* A lane and its permit are in hand; the caller excludes the lane.
Take(l) ==
    /\ pc' = "picked"
    /\ lane' = l
    /\ excluded' = excluded \union {l}
    /\ UNCHANGED answer

\* pick_among returned None: no lane admissible, or the deadline passed.
NoLane ==
    /\ IF via = "main" /\ cands = {}
         THEN Respond("unavailable")
         ELSE pc' = "exhausted" /\ UNCHANGED answer
    /\ UNCHANGED <<lane, excluded>>

\* The sticky lane of a session, on the main loop only, is taken before the
\* deadline guard.
PickSticky ==
    /\ pc = "picking"
    /\ conf.session /\ via = "main"
    /\ lane' \in Untried
    /\ pc' = "sticky"
    /\ excluded' = excluded \union {lane'}
    /\ UNCHANGED <<conf, now, via, pool, aclAt, walked, restricts, k, cands,
                   visited, hop, log, answer>>

\* Mutant of PickLane: no deadline guard inside pick_among.
PickLane_Late ==
    /\ pc = "picking"
    /\ \E l \in Untried : Take(l)
    /\ UNCHANGED <<conf, now, via, pool, aclAt, walked, restricts, k, cands,
                   visited, hop, log>>

PickLane ==
    /\ pc = "picking"
    /\ ~Expired
    /\ \E l \in Untried : Take(l)
    /\ UNCHANGED <<conf, now, via, pool, aclAt, walked, restricts, k, cands,
                   visited, hop, log>>

\* The lane is admitted but its semaphore is saturated.
Park ==
    /\ pc = "picking"
    /\ ~Expired
    /\ lane' \in Untried
    /\ pc' = "parked"
    /\ UNCHANGED <<conf, now, via, pool, aclAt, walked, restricts, k, cands,
                   excluded, visited, hop, log, answer>>

PickNone ==
    /\ pc = "picking"
    /\ NoLane
    /\ UNCHANGED <<conf, now, via, pool, aclAt, walked, restricts, k, cands,
                   visited, hop, log>>

ParkedPermit ==
    /\ pc = "parked"
    /\ Take(lane)
    /\ UNCHANGED <<conf, now, via, pool, aclAt, walked, restricts, k, cands,
                   visited, hop, log>>

ParkedTimeout ==
    /\ pc = "parked"
    /\ Expired
    /\ NoLane
    /\ UNCHANGED <<conf, now, via, pool, aclAt, walked, restricts, k, cands,
                   visited, hop, log>>

-----------------------------------------------------------------------------
(* One attempt: the main loop's body, or forward_once on the degraded paths *)

\* A hop of the main loop whose re-parse, translation or path resolution fails.
HopUnsendable == via = "main" /\ Respond("error")

\* The same bail-outs of forward_once, which answer instead of trying another lane.
OnceUnsendable == via # "main" /\ Respond("error")

Unsendable ==
    /\ pc \in {"picked", "sticky"}
    /\ HopUnsendable \/ OnceUnsendable
    /\ UNCHANGED <<conf, now, via, pool, aclAt, walked, restricts, k, cands,
                   excluded, visited, hop, lane, log>>

\* The request on its way to the lane in hand, not answered yet.
NewAttempt == [pool |-> pool, lane |-> lane, via |-> via, at |-> now,
               sticky |-> pc = "sticky",
               outcome |-> "pending", recorded |-> "none"]

Send ==
    /\ pc \in {"picked", "sticky"}
    /\ pc' = "sent"
    /\ log' = Append(log, NewAttempt)
    /\ UNCHANGED <<conf, now, via, pool, aclAt, walked, restricts, k, cands,
                   excluded, visited, hop, lane, answer>>

\* The attempt in flight ended with outcome o; the store recorded w.
Ended(o, w) ==
    log' = [log EXCEPT ![Len(log)].outcome = o, ![Len(log)].recorded = w]

\* `continue`: the loop tries another lane.
NextHop ==
    /\ pc' = "head"
    /\ hop' = IF via = "main" THEN hop + 1 ELSE hop
    /\ UNCHANGED answer

\* forward_once's Err(()): the fallback loop tries another member, the least-bad
\* attempt has none.
AfterNoResponse ==
    \/ /\ via = "least_bad"
       /\ Respond("unavailable")
       /\ UNCHANGED hop
    \/ /\ via # "least_bad"
       /\ NextHop

\* No response: connect error, transport timeout or attempt_timeout_ms.
TransportError ==
    /\ pc = "sent"
    /\ Ended("transport", "failure")
    /\ AfterNoResponse
    /\ UNCHANGED <<conf, now, via, pool, aclAt, walked, restricts, k, cands,
                   excluded, visited, lane>>

\* Main loop: a transient disposition, or a billing hard-down, fails over.
Upstream5xx ==
    /\ pc = "sent"
    /\ via = "main"
    /\ \/ Ended("transient", "failure")
       \/ Ended("billing", "hard_down")
    /\ NextHop
    /\ UNCHANGED <<conf, now, via, pool, aclAt, walked, restricts, k, cands,
                   excluded, visited, lane>>

\* Main loop: 401/403 is the caller's own key under passthrough; otherwise, or
\* when error_map maps the answer to auth, the lane goes down and the request
\* ends.
UpstreamAuth ==
    /\ pc = "sent"
    /\ via = "main"
    /\ \/ conf.passthrough /\ Ended("auth", "none") /\ Respond("relayed")
       \/ Ended("auth", "hard_down") /\ Respond("auth_error")
    /\ UNCHANGED <<conf, now, via, pool, aclAt, walked, restricts, k, cands,
                   excluded, visited, hop, lane>>

ClientFault ==
    /\ pc = "sent"
    /\ via = "main"
    /\ Ended("client_fault", "none")
    /\ Respond("relayed")
    /\ UNCHANGED <<conf, now, via, pool, aclAt, walked, restricts, k, cands,
                   excluded, visited, hop, lane>>

\* Mutant of NoLarger: members of the same size stay candidates.
NoLarger_Smaller(l) ==
    {c \in cands : /\ conf.contextMax[l] # 0
                   /\ conf.contextMax[c] # 0
                   /\ conf.contextMax[c] < conf.contextMax[l]}

\* The candidates known not to be larger than lane l; none if l declares none.
NoLarger(l) ==
    {c \in cands : /\ conf.contextMax[l] # 0
                   /\ conf.contextMax[c] # 0
                   /\ conf.contextMax[c] <= conf.contextMax[l]}

ContextLength ==
    /\ pc = "sent"
    /\ via = "main"
    /\ excluded' = excluded \union NoLarger(lane)
    /\ Ended("context_length", "none")
    /\ NextHop
    /\ UNCHANGED <<conf, now, via, pool, aclAt, walked, restricts, k, cands,
                   visited, lane>>

\* Degraded paths: any non-2xx is recorded as a transient failure and relayed.
DegradedNon2xx ==
    /\ pc = "sent"
    /\ via # "main"
    /\ \E o \in {"transient", "billing", "auth", "client_fault",
                 "context_length"} : Ended(o, "failure")
    /\ Respond("relayed")
    /\ UNCHANGED <<conf, now, via, pool, aclAt, walked, restricts, k, cands,
                   excluded, visited, hop, lane>>

\* A stream, a verbatim relay, or a buffered body that translates.
Delivered == Ended("success", "success") /\ Respond("served")

\* A buffered body dies in transfer: the success on the headers is compensated.
BodyFailed == Ended("body_failed", "failure") /\ Respond("error")

\* A buffered body over our cap, or not translatable: the lane's success stands.
Undeliverable == Ended("success", "success") /\ Respond("error")

\* A 2xx.
Success ==
    /\ pc = "sent"
    /\ Delivered \/ BodyFailed \/ Undeliverable
    /\ UNCHANGED <<conf, now, via, pool, aclAt, walked, restricts, k, cands,
                   excluded, visited, hop, lane>>

-----------------------------------------------------------------------------
(* handle_exhaustion_for_pool.  Each mode marks the pool visited first. *)

Status503 ==
    /\ pc = "exhausted"
    /\ conf.onExhausted[pool] = "status_503"
    /\ visited' = visited \union {pool}
    /\ Respond("unavailable")
    /\ UNCHANGED <<conf, now, via, pool, aclAt, walked, restricts, k, cands,
                   excluded, hop, lane, log>>

\* Mutant of MayEnter: no loop guard.
MayEnter_Revisits(f) == f \in conf.known

\* The guards of handle_fallback_pool once the deadline is known to hold.
MayEnter(f) == f \notin visited \union {pool} /\ f \in conf.known

\* Mutant of EnterFallback: the restricts are not enforced on the new pool.
EnterFallback_Unrestricted(f) ==
    /\ via' = "fallback"
    /\ pool' = f
    /\ cands' = conf.members[f]
    /\ k' = Len(restricts) + 1
    /\ pc' = "restrict"

\* The fallback pool's own full membership, every restrict still to apply.
EnterFallback(f) ==
    /\ via' = "fallback"
    /\ pool' = f
    /\ cands' = conf.members[f]
    /\ k' = 1
    /\ pc' = "restrict"

FallbackPool ==
    /\ pc = "exhausted"
    /\ conf.onExhausted[pool] = "fallback_pool"
    /\ visited' = visited \union {pool}
    /\ LET f == conf.fallback[pool] IN
          \/ /\ Expired
             /\ Respond("timeout")
             /\ UNCHANGED <<via, pool, cands, k>>
          \/ /\ ~Expired /\ ~MayEnter(f)
             /\ Respond("unavailable")
             /\ UNCHANGED <<via, pool, cands, k>>
          \/ /\ ~Expired /\ MayEnter(f)
             /\ EnterFallback(f)
             /\ UNCHANGED answer
    /\ UNCHANGED <<conf, now, aclAt, walked, restricts, excluded, hop, lane,
                   log>>

\* find_soonest_cooldown over every candidate, then its permit or a 503.
LeastBad ==
    /\ pc = "exhausted"
    /\ conf.onExhausted[pool] = "least_bad"
    /\ visited' = visited \union {pool}
    /\ \/ /\ lane' \in cands
          /\ via' = "least_bad"
          /\ pc' = "picked"
          /\ UNCHANGED answer
       \/ /\ Respond("unavailable")
          /\ UNCHANGED <<lane, via>>
    /\ UNCHANGED <<conf, now, pool, aclAt, walked, restricts, k, cands,
                   excluded, hop, log>>

-----------------------------------------------------------------------------
\* Time passes, at whatever awaits: a parked request's timer fires with the
\* deadline, and nothing awaits between pick_among's return and the send.
Tick ==
    /\ pc \notin {"acl", "picked", "sticky", "done"}
    /\ now <= conf.deadline
    /\ pc = "parked" => ~Expired
    /\ now' = now + 1
    /\ UNCHANGED <<conf, pc, via, pool, aclAt, walked, restricts, k, cands,
                   excluded, visited, hop, lane, log, answer>>

\* The request has been answered; nothing is left to do.
Done ==
    /\ pc = "done"
    /\ UNCHANGED vars

Walk ==
    \/ AclStep \/ Gates \/ ApplyRestrict \/ EnterLoop \/ LoopHead
    \/ PickSticky \/ PickLane \/ Park \/ PickNone \/ ParkedPermit \/ ParkedTimeout
    \/ Unsendable \/ Send \/ TransportError \/ Upstream5xx \/ UpstreamAuth
    \/ ClientFault \/ ContextLength \/ DegradedNon2xx \/ Success
    \/ Status503 \/ FallbackPool \/ LeastBad

Next == Walk \/ Tick \/ Done

Spec == Init /\ [][Next]_vars

(***************************************************************************)
(* The executor polls a runnable request; the upstream answers or one of   *)
(* its timeouts fires (req.timeout, attempt_timeout_ms, the client's 300 s *)
(* ceiling).  The clock has to run only where a request waits for it, so   *)
(* that a parked request's timer fires: the walk ends without the deadline.*)
(***************************************************************************)
FairSpec == Spec /\ WF_vars(Walk) /\ WF_vars(pc = "parked" /\ Tick)

-----------------------------------------------------------------------------
(* Properties *)

\* A required restrict holds for every attempt, on every pool the request
\* spills into, the least-bad last resort included: gate restrictions persist
\* across failover and enforce_restricts fails closed.
RestrictHolds ==
    \A i \in DOMAIN log, j \in DOMAIN restricts :
        Binding(restricts[j]) =>
            conf.tags[log[i].pool][log[i].lane] \cap restricts[j].tags # {}

\* A key is never served by a pool outside its allowed_pools: the chain
\* fallback_pools_authorized walks at ingress covers every pool the exhaustion
\* handlers can reach.
AclHolds == \A i \in DOMAIN log : log[i].pool \in conf.allowed

\* The failover loop and the fallback loops share one exclusion set: no lane is
\* tried twice, even when pools share members.
NoLaneTwice ==
    \A i, j \in DOMAIN log :
        (i # j /\ log[i].via # "least_bad" /\ log[j].via # "least_bad")
            => log[i].lane # log[j].lane

\* After a context-length rejection the loop never tries a member known to be
\* no larger than any lane that rejected the request.
ContextRespected ==
    \A i, j \in DOMAIN log :
        LET had == conf.contextMax[log[i].lane]
            has == conf.contextMax[log[j].lane]
        IN (i < j /\ log[i].outcome = "context_length"
                  /\ log[j].via = "main" /\ had # 0 /\ has # 0) => has > had

\* Neither loop starts an attempt after the deadline second, except on a
\* session's sticky lane, which pick_among takes before it looks at the clock;
\* and an attempt that starts when the deadline has come is the last of the
\* walk, for the loop heads, the exhaustion handlers and the parked timer leave
\* no other gap.
DeadlineStopsWalk ==
    \A i \in DOMAIN log : log[i].via # "least_bad" =>
        /\ log[i].at > conf.deadline => log[i].sticky
        /\ log[i].at >= conf.deadline =>
              \A j \in DOMAIN log : j > i => log[j].via = "least_bad"

\* Every request is answered, whatever the upstreams do and however the
\* fallback pools point at each other (the visited_pools guard).
Answered == <>(pc = "done")

=============================================================================
