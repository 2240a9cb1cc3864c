---------------------------- MODULE StoreContract ----------------------------
(***************************************************************************)
(* What the `Store` trait promises the gateway, whichever backend stands   *)
(* behind it: a call takes effect at one instant between its invocation    *)
(* and its answer, the whole of it or nothing; a call that was answered    *)
(* with success has taken effect; one that failed may have; and a call     *)
(* that adds takes effect once at most, however often it is sent.          *)
(*                                                                         *)
(* A key's usage is what get_usage answers, which is never below zero, and *)
(* what is owed: refunds past zero that a backend remembers.  The trait's  *)
(* floor leaves nothing owed; a backend that floors when it reads only     *)
(* does, and the charges that follow pay it before they are seen.          *)
(***************************************************************************)
EXTENDS Integers

CONSTANTS Nodes,    \* processes that share the store
          Keys,     \* ids of virtual keys, which are ids of usage buckets too
          Seqs,     \* sequence numbers of the audit log
          Ops,      \* the methods that are called
          Nil

VARIABLES data,     \* what the store holds
          call      \* the call each process is in

Grants == {"all", "none", "some"}      \* allowed_pools: None, Some([]), Some([..])

Charge == [req |-> 1, tok |-> 1]
Refund == [req |-> 0, tok |-> -1]
Deltas == {Charge, Refund}

Calls ==
  {c \in [op : {"put_key", "mint"}, key : Keys, grant : Grants]
         \cup [op : {"delete_key", "add_metering", "add_denylist"}, key : Keys]
         \cup [op : {"add_usage", "put_usage"}, key : Keys, by : Deltas]
         \cup [op : {"append_audit"}, seq : Seqs, digest : Nodes] :
     /\ c.op \in Ops
     /\ c.op = "put_usage" => c.by = Charge}

\* A second effect of the same call changes nothing that the first did not.
Idempotent(c) == c.op \notin {"add_usage", "add_metering"}

Empty ==
  [keys |-> [k \in Keys |-> Nil], creds |-> {}, listed |-> {}, usage |-> [k \in Keys |-> Nil],
   metering |-> [k \in Keys |-> 0], audit |-> {}, denied |-> {}]

Floored(i) == IF i < 0 THEN 0 ELSE i

Zero == [req |-> 0, tok |-> 0]

(***************************************************************************)
(* What is read is the sum, floored at zero.  What the floor cuts off is   *)
(* forgotten, or it is owed.                                               *)
(***************************************************************************)
Accumulated(u, by) ==
  LET old  == IF u = Nil THEN [read |-> Zero, owed |-> Zero] ELSE u
      sum  == [f \in {"req", "tok"} |-> old.read[f] - old.owed[f] + by[f]]
      read == [f \in {"req", "tok"} |-> Floored(sum[f])]
      owed == [f \in {"req", "tok"} |-> Floored(-sum[f])]
  IN  {[read |-> read, owed |-> Zero], [read |-> read, owed |-> owed]}

(***************************************************************************)
(* A deletion takes the key, and of its credential and its usage record    *)
(* what was there all the time the call lasted; what came or went          *)
(* meanwhile it may take or leave.  A credential that is left is no longer *)
(* listed as the key's own, and no later deletion has to find it.          *)
(***************************************************************************)
Effects(d, c, had) ==
  CASE c.op = "put_key"      -> {[d EXCEPT !.keys[c.key] = c.grant]}
    [] c.op = "mint"         -> {[d EXCEPT !.keys[c.key] = c.grant, !.creds = @ \cup {c.key},
                                           !.listed = @ \cup {c.key}]}
    [] c.op = "delete_key"   -> {[d EXCEPT !.keys[c.key] = Nil, !.listed = @ \ {c.key},
                                           !.usage[c.key] = u, !.creds = cs] :
                                   u  \in {Nil} \cup
                                           (IF "usage" \in had THEN {} ELSE {d.usage[c.key]}),
                                   cs \in {d.creds \ {c.key}} \cup
                                           (IF "credential" \in had THEN {} ELSE {d.creds})}
    [] c.op = "add_usage"    -> {[d EXCEPT !.usage[c.key] = u] :
                                   u \in Accumulated(d.usage[c.key], c.by)}
    [] c.op = "put_usage"    -> {[d EXCEPT !.usage[c.key] = [read |-> c.by, owed |-> Zero]]}
    [] c.op = "add_metering" -> {[d EXCEPT !.metering[c.key] = @ + 1]}
    [] c.op = "add_denylist" -> {[d EXCEPT !.denied = @ \cup {c.key}]}
    [] c.op = "append_audit" -> {[d EXCEPT !.audit = {r \in @ : r.seq # c.seq}
                                                      \cup {[seq |-> c.seq, digest |-> c.digest]}]}

Idle == [is |-> "idle"]
Answered == [is |-> "answered"]    \* idle, and the last call was answered Ok

\* A call, before it takes effect and after, with what it has found all along.
Busy(is, c, had) == [is |-> is, call |-> c, had |-> had]

InCall(p) == p.is \in {"invoked", "taken"}

\* What a deletion finds, of the things that it has to take.
Found(d, c) ==
  IF c.op # "delete_key" THEN {}
  ELSE {x \in {"usage", "credential"} :
          IF x = "usage" THEN d.usage[c.key] # Nil ELSE c.key \in d.listed}

Watched(cs, d) ==
  [n \in Nodes |-> IF InCall(cs[n])
                   THEN Busy(cs[n].is, cs[n].call, cs[n].had \cap Found(d, cs[n].call))
                   ELSE cs[n]]

Invoke(n, c) ==
  /\ call[n] \in {Idle, Answered}
  /\ call' = [call EXCEPT ![n] = Busy("invoked", c, Found(data, c))]
  /\ UNCHANGED data

Take(n) ==
  /\ InCall(call[n])
  /\ call[n].is = "taken" => Idempotent(call[n].call)
  /\ data' \in Effects(data, call[n].call, call[n].had)
  /\ call' = Watched([call EXCEPT ![n] = Busy("taken", @.call, @.had)], data')

\* Ok is an answer to a call that took effect.
Answer(n) ==
  /\ call[n].is = "taken"
  /\ call' = [call EXCEPT ![n] = Answered]
  /\ UNCHANGED data

\* An error, or the end of the process, says nothing of the effect.
Leave(n) ==
  /\ call[n] # Idle
  /\ call' = [call EXCEPT ![n] = Idle]
  /\ UNCHANGED data

Init == data = Empty /\ call = [n \in Nodes |-> Idle]

Next == \E n \in Nodes :
  (\E c \in Calls : Invoke(n, c)) \/ Take(n) \/ Answer(n) \/ Leave(n)

Spec == Init /\ [][Next]_<<data, call>>
=============================================================================
