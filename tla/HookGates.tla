------------------------------ MODULE HookGates ------------------------------
(***************************************************************************)
(* What a gate decides on one request, from what the hooks behind it send  *)
(* back: the parsing of a reply, the deadline and the chain of fallbacks,  *)
(* and the outcome the failover engine reconciles with the other gates'.   *)
(*                                                                         *)
(* A reply is "down" (an error, a panic across the boundary, the wrong     *)
(* variant, no answer by the deadline), "garbage" (a value the reply type  *)
(* does not accept: an order that is no list, say) or "ok" with its        *)
(* fields.  A reject is there unless it is absent, null or false, and so   *)
(* is a restrict; a status that is no status is -1, tags that are no tags  *)
(* are none.                                                               *)
(***************************************************************************)
EXTENDS Config

DownReply == [sent |-> "down", reject |-> FALSE, status |-> -1, restrict |-> FALSE,
              tags |-> {}, abstain |-> FALSE, order |-> <<>>]
EmptyReply == [DownReply EXCEPT !.sent = "ok"]

Abstain == [verb |-> "abstain", status |-> 0, tags |-> {}, order |-> <<>>]
Failed == [Abstain EXCEPT !.verb = "failed"]
-----------------------------------------------------------------------------
(***************************************************************************)
(* One hook's reply.                                                       *)
(***************************************************************************)
REJECT_STATUS_DEFAULT == 403

clamp_reject_status(status) ==
    IF status \in 400 .. 499 THEN status ELSE REJECT_STATUS_DEFAULT

\* An order of candidates: the unknown are dropped, the repeated are kept once.
Rank(order, x, valid) == IF x \in valid \ Range(order) THEN Append(order, x) ELSE order
Ranked(raw, valid) ==
    LET ranked[n \in 0 .. Len(raw)] ==
            IF n = 0 THEN <<>> ELSE Rank(ranked[n - 1], raw[n], valid)
    IN  ranked[Len(raw)]
from_ranked(raw, valid) ==
    LET order == Ranked(raw, valid)
    IN  IF order = <<>> THEN Abstain ELSE [Abstain EXCEPT !.verb = "prefer", !.order = order]

normalize_OrderFirst(reply, valid) ==
    IF reply.order # <<>> THEN from_ranked(reply.order, valid)
    ELSE IF reply.reject
    THEN [Abstain EXCEPT !.verb = "reject", !.status = clamp_reject_status(reply.status)]
    ELSE IF reply.restrict THEN [Abstain EXCEPT !.verb = "restrict", !.tags = reply.tags]
    ELSE Abstain

\* A reject wins over a restrict, a restrict over an abstention, that over an order.
normalize(reply, valid) ==
    IF reply.reject
    THEN [Abstain EXCEPT !.verb = "reject", !.status = clamp_reject_status(reply.status)]
    ELSE IF reply.restrict THEN [Abstain EXCEPT !.verb = "restrict", !.tags = reply.tags]
    ELSE IF reply.abstain THEN Abstain
    ELSE from_ranked(reply.order, valid)

\* A reply that does not parse is no opinion; a call that fails is an error.
decide(reply, valid) ==
    CASE reply.sent = "down" -> Failed
      [] reply.sent = "garbage" -> Abstain
      [] reply.sent = "ok" -> normalize(reply, valid)
-----------------------------------------------------------------------------
(***************************************************************************)
(* The gate's outcome: an order, the weighted choice, a restriction, a     *)
(* rejection by the hook (4xx) or for want of one (503).                   *)
(***************************************************************************)
Weighted == [kind |-> "weighted", status |-> 0, tags |-> {}, order |-> <<>>, by |-> None]

map_decision(d, by, valid) ==
    CASE d.verb = "prefer" ->
           LET o == from_ranked(d.order, valid)
           IN  IF o = Abstain THEN Weighted
               ELSE [Weighted EXCEPT !.kind = "order", !.order = o.order, !.by = by]
      [] d.verb = "abstain" -> Weighted
      [] d.verb = "reject" ->
           [Weighted EXCEPT !.kind = "reject_request", !.by = by,
                            !.status = clamp_reject_status(d.status)]
      [] d.verb = "restrict" -> [Weighted EXCEPT !.kind = "restrict", !.tags = d.tags, !.by = by]

\* The terminal of the chain, when nobody answered.
coerce_on_error(terminal, cands, by) ==
    CASE terminal = "weighted" -> Weighted
      [] terminal = "reject" -> [Weighted EXCEPT !.kind = "reject", !.status = 503]
      [] terminal = "first" -> [Weighted EXCEPT !.kind = "order", !.order = cands, !.by = by]

\* The first fallback that answers decides, as the gate itself would have.
run_on_error_chain(gate, cands, replies) ==
    LET answered == {i \in DOMAIN gate.chain :
                        decide(replies[gate.chain[i]], Range(cands)) # Failed}
    IN  IF answered = {} THEN coerce_on_error(gate.on_error, cands, gate.hook)
        ELSE LET h == gate.chain[CHOOSE i \in answered : \A j \in answered : i <= j]
             IN  map_decision(decide(replies[h], Range(cands)), h, Range(cands))

decide_policy_order(gate, cands, replies) ==
    LET d == decide(replies[gate.hook], Range(cands))
    IN  IF cands = <<>> THEN Weighted
        ELSE IF d = Failed THEN run_on_error_chain(gate, cands, replies)
        ELSE map_decision(d, gate.hook, Range(cands))
=============================================================================
