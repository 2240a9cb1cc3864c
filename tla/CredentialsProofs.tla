-------------------------- MODULE CredentialsProofs --------------------------
(***************************************************************************)
(* Proofs about Credentials, for any keys, operations, headers, cap and    *)
(* number of faults: the gate keeps a read current, a revocation is final, *)
(* the caches follow the store, and mints are bounded.                     *)
(***************************************************************************)
EXTENDS Credentials, FiniteSetTheorems, TLAPS

-----------------------------------------------------------------------------
(* The inductive invariants *)

\* The operations that hold the gate, what is left of one after its write to
\* the rows, and where an operation of each kind can be.
GateKinds == {"update", "rotate", "delete"}
After     == {"put", "listed", "joined", "swapped"}
Held      == {"gated", "read", "denied", "deleting"} \cup After
Phases(kind) ==
  {"idle", "done"} \cup
    CASE kind = "create" -> {"reserved", "counted"} \cup After
      [] kind = "revoke" -> {"denying", "denied"}
      [] kind = "delete" -> {"queued", "gated", "read", "denied", "deleting"} \cup After
      [] OTHER           -> {"queued", "gated", "read"} \cup After
Stages == {"idle", "done", "reserved", "counted", "queued", "gated", "read", "denying",
           "denied", "deleting"} \cup After

Auths == [pc : {"idle", "lookup", "admitted"}, key : Keys \cup {None},
          carrier : {"token", "secret", "aws"}, gen : 0 .. MaxGen,
          revoked : BOOLEAN, deleted : BOOLEAN]

\* The types of the state.
TypeOK ==
  /\ rows \in Rows /\ creds \in SUBSET Keys /\ denied \in SUBSET Keys
  /\ cache \in Rows /\ awsCache \in Rows /\ deny \in SUBSET Keys
  /\ gate \in Ops \cup {None}
  /\ idem \in [Slot -> Entry]
  /\ req \in [Ops -> Request]
  /\ pc \in [Ops -> Stages]
  /\ read \in [Ops -> Row \cup {None}]
  /\ load \in [Ops -> Rows \cup {None}]
  /\ join \in [Ops -> Rows \cup {None}]
  /\ gen \in 0 .. MaxGen
  /\ dropped \in SUBSET Ops
  /\ faults \in Nat
  /\ auth \in Auths
  /\ drawn \in SUBSET Keys /\ issued \in SUBSET Keys
  /\ revoked \in SUBSET Keys /\ deleted \in SUBSET Keys
  /\ answer \in [Ops -> Body \cup {None}]
  /\ era \in [Slot -> Nat] /\ win \in [Ops -> Nat]
  /\ slow \in SUBSET Slot
  /\ overtaken \in BOOLEAN /\ blind \in BOOLEAN
  /\ crowded \in SUBSET Ops /\ uncounted \in SUBSET Keys

\* Where an operation can be, what it names and loads there, and that it holds
\* the gate from its lookup to the end of its refresh.
PhaseInv ==
  \A o \in Ops :
    /\ pc[o] \in Phases(req[o].kind)
    /\ pc[o] \notin {"idle", "done", "reserved", "counted"} => req[o].key \in Keys
    /\ load[o] # None <=> pc[o] \in {"listed", "joined"}
    /\ pc[o] = "joined" => join[o] # None
    /\ pc[o] \in Held /\ req[o].kind \in GateKinds => gate = o

\* Every row was drawn, and so was every credential; the row a writer has read
\* is that of the store, and a rotation keeps the one it has written.
RowInv ==
  /\ Bound \subseteq drawn /\ creds \subseteq drawn
  /\ ReadIsCurrent
  /\ \A o \in Ops : pc[o] \in After /\ req[o].kind = "rotate" => read[o] # None

\* What was denied, revoked and deleted so far.
FinalInv ==
  /\ deleted \subseteq drawn
  /\ revoked \subseteq denied
  /\ blind \/ revoked \subseteq deny
  /\ DeletedStaysDeleted
  /\ \A o \in Ops :
       /\ pc[o] = "denied" => req[o].key \in denied
       /\ req[o].kind = "delete" /\ pc[o] \in {"deleting"} \cup After =>
            req[o].key \in drawn /\ req[o].key \in denied /\ req[o].key \in deny
       /\ req[o].kind = "delete" /\ pc[o] \in After =>
            rows[req[o].key] = None /\ req[o].key \notin creds

Joined == [k \in Keys |-> IF k \in creds THEN rows[k] ELSE None]

\* While no refresh was overtaken, what one has listed is what is in the store,
\* and the caches have no key whose deletion was refreshed.
CacheInv ==
  ~ overtaken =>
    /\ \A o \in Ops : pc[o] \in {"listed", "joined"} => load[o] = rows
    /\ \A o \in Ops : pc[o] = "joined" => join[o] = Joined
    /\ \A k \in deleted : cache[k] = None /\ awsCache[k] = None
    /\ \A o \in Ops : req[o].kind = "delete" /\ pc[o] = "swapped" =>
         cache[req[o].key] = None /\ awsCache[req[o].key] = None
    /\ (\A o \in Ops : pc[o] \notin {"put", "listed", "joined"}) => cache = rows /\ awsCache = Joined

\* What was known of the key of the request in flight when it arrived.
AuthInv ==
  /\ auth.pc # "idle" => auth.key \in Keys
  /\ auth.pc # "idle" /\ auth.deleted => auth.key \in deleted
  /\ auth.pc # "idle" /\ auth.carrier = "token" /\ auth.revoked => blind
  /\ auth.pc = "admitted" /\ auth.deleted => overtaken

\* The operations that an Idempotency-Key is about, while no window passed
\* under one that was pending, and those that are to settle their slot.
Keyed(o) ==
  /\ req[o].kind \in {"create", "rotate"}
  /\ req[o].idem # None
  /\ SlotOf(o) \notin slow

Settles(o) == Keyed(o) /\ pc[o] \notin {"idle", "done"} /\ o \notin dropped

\* A slot is pending for the one operation that is to settle it, and is done
\* with the answer that was given in its window.
SlotInv ==
  /\ \A s \in Slot : idem[s].state = "pending" => idem[s].body = None /\ (idem[s].aged => s \in slow)
  /\ \A o \in Ops :
       /\ pc[o] # "done" => answer[o] = None
       /\ req[o].kind \notin {"create", "rotate"} => req[o].idem = None
       /\ Keyed(o) => win[o] <= era[SlotOf(o)]
       /\ Settles(o) => idem[SlotOf(o)].state = "pending" /\ win[o] = era[SlotOf(o)]
       /\ Keyed(o) /\ answer[o] # None /\ win[o] = era[SlotOf(o)] =>
            idem[SlotOf(o)].state = "done" /\ idem[SlotOf(o)].body = answer[o]
  /\ \A o, p \in Ops : Settles(o) /\ Settles(p) /\ SlotOf(o) = SlotOf(p) => o = p
  /\ IdempotentAnswers

\* The keys of the group that were counted are no more than the cap, and a mint
\* that was counted and that no other overtook has room.
Counted == Members \ uncounted

CapInv ==
  /\ CapHolds
  /\ \A o \in Ops : pc[o] = "counted" /\ req[o].mint.group /\ o \notin crowded =>
       Cardinality(Counted) < Cap

IInv ==
  /\ TypeOK
  /\ PhaseInv
  /\ RowInv
  /\ FinalInv
  /\ CacheInv
  /\ AuthInv
  /\ SlotInv
  /\ CapInv

-----------------------------------------------------------------------------
(* Types *)

\* The entries the idempotency cache is given.
LEMMA EntryTypes ==
  /\ Free \in Entry
  /\ [state |-> "pending", body |-> None, aged |-> FALSE] \in Entry
  /\ \A b \in Body \cup {None} : [state |-> "done", body |-> b, aged |-> FALSE] \in Entry
  /\ \A e \in Entry : [e EXCEPT !.aged = TRUE] \in Entry
<1> DEFINE no == FALSE
           yes == TRUE
<1>1. no \in BOOLEAN /\ yes \in BOOLEAN
  OBVIOUS
<1> HIDE DEF no, yes
<1>2. [state |-> "free", body |-> None, aged |-> no] \in Entry
  BY <1>1 DEF Entry
<1>3. [state |-> "pending", body |-> None, aged |-> no] \in Entry
  BY <1>1 DEF Entry
<1>4. \A b \in Body \cup {None} : [state |-> "done", body |-> b, aged |-> no] \in Entry
  BY <1>1 DEF Entry
<1>5. \A e \in Entry : [e EXCEPT !.aged = yes] \in Entry
  BY <1>1 DEF Entry
<1> QED BY <1>2, <1>3, <1>4, <1>5, Zenon DEF no, yes, Free

\* A request, from its fields.
LEMMA RequestType ==
  ASSUME NEW kind \in {"create", "update", "rotate", "revoke", "delete"},
         NEW k \in Keys \cup {None}, NEW i \in IdemKeys \cup {None}, NEW m \in Mint,
         NEW p \in Patch, NEW t \in ETag \cup {None}
  PROVE  [kind |-> kind, key |-> k, idem |-> i, mint |-> m, patch |-> p, tag |-> t] \in Request
BY DEF Request

\* What is asked for when nothing is.
LEMMA NothingTypes == NoMint \in Mint /\ NoPatch \in Patch
<1> DEFINE no == FALSE
<1>1. no \in BOOLEAN
  OBVIOUS
<1>2. NoMint = [aws |-> no, group |-> no]
  BY Zenon DEF NoMint
<1> HIDE DEF no
<1>3. NoMint \in Mint
  BY <1>1, <1>2 DEF Mint
<1>4. NoPatch \in Patch
  BY DEF NoPatch, Patch
<1> QED BY <1>3, <1>4

\* An idle slot's request.
LEMMA IdleType ==
  /\ Idle = [kind |-> "create", key |-> None, idem |-> None, mint |-> NoMint,
             patch |-> NoPatch, tag |-> None]
  /\ Idle \in Request /\ Idle.kind = "create" /\ Idle.key = None /\ Idle.idem = None
<1>1. Idle \in Request
  BY NothingTypes, RequestType DEF Idle
<1> QED BY <1>1 DEF Idle

\* What create_key is asked.
LEMMA CreateRequest ==
  ASSUME NEW i \in IdemKeys \cup {None}, NEW m \in Mint
  PROVE  LET r == [Idle EXCEPT !.kind = "create", !.idem = i, !.mint = m]
         IN  /\ r \in Request
             /\ r.kind = "create" /\ r.key = None /\ r.idem = i
BY IdleType DEF Request

\* What the operations that take the gate are asked.
LEMMA GateRequest ==
  ASSUME NEW kind \in GateKinds, NEW k \in Keys, NEW i \in IdemKeys \cup {None},
         NEW p \in Patch, NEW t \in ETag \cup {None}
  PROVE  LET r == [Idle EXCEPT !.kind = kind, !.key = k, !.idem = i, !.patch = p, !.tag = t]
         IN  /\ r \in Request
             /\ r.kind = kind /\ r.key = k /\ r.idem = i
BY IdleType DEF Request, GateKinds

\* What a revocation is asked.
LEMMA RevokeRequest ==
  ASSUME NEW k \in Keys
  PROVE  LET r == [Idle EXCEPT !.kind = "revoke", !.key = k]
         IN  /\ r \in Request
             /\ r.kind = "revoke" /\ r.key = k /\ r.idem = None
BY IdleType DEF Request

\* No request in flight.
LEMMA NoAuthType == NoAuth \in Auths /\ NoAuth.pc = "idle"
<1> DEFINE no == FALSE
<1>1. no \in BOOLEAN /\ 0 \in 0 .. MaxGen
  BY CredentialsAssumption
<1>2. NoAuth = [pc |-> "idle", key |-> None, carrier |-> "token", gen |-> 0, revoked |-> no,
                deleted |-> no]
  BY Zenon DEF NoAuth
<1> HIDE DEF no
<1> QED BY <1>1, <1>2 DEF Auths

\* A slot is of the header and, for a rotation, of the key.
LEMMA SlotType ==
  ASSUME TypeOK, NEW o \in Ops
  PROVE  /\ SlotOf(o) \in Slot
         /\ SlotOf(o)[1] = req[o].idem
<1>1. req[o].idem \in IdemKeys \cup {None} /\ req[o].key \in Keys \cup {None}
  BY DEF TypeOK, Request
<1> QED BY <1>1 DEF SlotOf, Slot

\* A row that a PATCH or a rotation writes back, and one that a mint writes.
LEMMA RowTypes ==
  /\ \A r \in Row, p \in Patch :
       /\ Set(r.enabled, p.enabled) \in BOOLEAN /\ Set(r.group, p.group) \in BOOLEAN
       /\ [r EXCEPT !.enabled = Set(r.enabled, p.enabled), !.group = Set(r.group, p.group)] \in Row
  /\ \A r \in Row, h \in 0 .. MaxGen : [r EXCEPT !.hash = h] \in Row
  /\ \A g \in BOOLEAN : NewRow(g) \in Row /\ NewRow(g).group = g
<1>1. ASSUME NEW r \in Row, NEW p \in Patch
      PROVE  Set(r.enabled, p.enabled) \in BOOLEAN /\ Set(r.group, p.group) \in BOOLEAN
  BY Zenon DEF Row, Patch, Set
<1>2. ASSUME NEW r \in Row, NEW e \in BOOLEAN, NEW g \in BOOLEAN
      PROVE  [r EXCEPT !.enabled = e, !.group = g] \in Row
  BY DEF Row
<1>3. \A r \in Row, h \in 0 .. MaxGen : [r EXCEPT !.hash = h] \in Row
  BY DEF Row
<1> DEFINE yes == TRUE
<1>4. yes \in BOOLEAN /\ 0 \in 0 .. MaxGen
  BY CredentialsAssumption
<1> HIDE DEF yes
<1>5. \A g \in BOOLEAN : /\ [enabled |-> yes, group |-> g, hash |-> 0] \in Row
                        /\ [enabled |-> yes, group |-> g, hash |-> 0].group = g
  BY <1>4 DEF Row
<1>6. \A g \in BOOLEAN : NewRow(g) \in Row /\ NewRow(g).group = g
  BY <1>5, Zenon DEF yes, NewRow
<1> QED BY <1>1, <1>2, <1>3, <1>6

\* The idempotency cache after a sweep, a release and a commit.
LEMMA IdemTypes ==
  ASSUME TypeOK, NEW o \in Ops
  PROVE  /\ Swept \in [Slot -> Entry]
         /\ Release(o) \in [Slot -> Entry]
         /\ \A b \in Body \cup {None} : Commit(o, b) \in [Slot -> Entry]
<1>1. idem \in [Slot -> Entry] /\ SlotOf(o) \in Slot
  BY SlotType DEF TypeOK
<1>2. Swept \in [Slot -> Entry]
  BY <1>1, EntryTypes DEF Swept
<1>3. Release(o) \in [Slot -> Entry]
  BY <1>1, EntryTypes DEF Release
<1>4. \A b \in Body \cup {None} : Commit(o, b) \in [Slot -> Entry]
  BY <1>1, EntryTypes DEF Commit
<1> QED BY <1>2, <1>3, <1>4

\* A handler that ends without its answer.
LEMMA EndTypes ==
  ASSUME TypeOK, NEW o \in Ops, End(o)
  PROVE  /\ pc' \in [Ops -> Stages] /\ idem' \in [Slot -> Entry] /\ gate' \in Ops \cup {None}
         /\ read' \in [Ops -> Row \cup {None}]
         /\ load' \in [Ops -> Rows \cup {None}] /\ join' \in [Ops -> Rows \cup {None}]
BY IdemTypes DEF End, TypeOK, Stages

\* The start of an operation: a replay of an answer, or a reservation.
LEMMA BeginTypes ==
  ASSUME TypeOK, NEW o \in Ops, NEW r \in Request, NEW s \in Slot,
         NEW next \in {"reserved", "queued"},
         Replay(o, r, s) \/ Reserve(o, r, s, next)
  PROVE  /\ pc' \in [Ops -> Stages] /\ idem' \in [Slot -> Entry] /\ req' \in [Ops -> Request]
         /\ answer' \in [Ops -> Body \cup {None}] /\ era' \in [Slot -> Nat]
         /\ win' \in [Ops -> Nat]
<1>1. Swept \in [Slot -> Entry] /\ Swept[s].body \in Body \cup {None}
  BY IdemTypes DEF Entry
<1>2. era' \in [Slot -> Nat]
  BY DEF TypeOK, Replay, Reserve, Sweep
<1>3. CASE Replay(o, r, s)
  BY <1>1, <1>2, <1>3 DEF TypeOK, Replay, Stages
<1>4. CASE Reserve(o, r, s, next)
  <2>1. idem' \in [Slot -> Entry]
    BY <1>1, <1>4, EntryTypes DEF TypeOK, Reserve
  <2> QED BY <1>2, <1>4, <2>1 DEF TypeOK, Reserve, Stages
<1> QED BY <1>3, <1>4

\* create_key begins.
LEMMA CreateBeginTypes ==
  ASSUME TypeOK, NEW o \in Ops, NEW i \in IdemKeys \cup {None}, NEW m \in Mint,
         CreateBegin(o, i, m)
  PROVE  TypeOK'
<1> DEFINE r == [Idle EXCEPT !.kind = "create", !.idem = i, !.mint = m]
<1>1. r \in Request /\ <<i, None>> \in Slot
  BY CreateRequest DEF Slot
<1>2. Replay(o, r, <<i, None>>) \/ Reserve(o, r, <<i, None>>, "reserved")
  BY DEF CreateBegin
<1> HIDE DEF r
<1> QED BY <1>1, <1>2, BeginTypes DEF CreateBegin, TypeOK, store, group

\* An operation that takes the gate begins.
LEMMA GateBeginTypes ==
  ASSUME TypeOK, NEW o \in Ops, NEW kind \in GateKinds, NEW k \in Keys,
         NEW i \in IdemKeys \cup {None}, NEW p \in Patch, NEW t \in ETag \cup {None},
         GateBegin(o, kind, k, i, p, t)
  PROVE  TypeOK'
<1> DEFINE r == [Idle EXCEPT !.kind = kind, !.key = k, !.idem = i, !.patch = p, !.tag = t]
           s == IF kind = "rotate" THEN <<i, k>> ELSE <<None, None>>
<1>1. r \in Request /\ s \in Slot
  BY GateRequest DEF Slot
<1>2. Replay(o, r, s) \/ Reserve(o, r, s, "queued")
  BY DEF GateBegin
<1> HIDE DEF r, s
<1> QED BY <1>1, <1>2, BeginTypes DEF GateBegin, TypeOK, store, group

\* What a rotation that has written its row hands out.
LEMMA RotateBody ==
  ASSUME TypeOK, RowInv, NEW o \in Ops, pc[o] = "swapped", req[o].kind = "rotate"
  PROVE  read[o].hash \in Body
<1>1. read[o] \in Row
  BY DEF RowInv, After, TypeOK
<1> QED BY <1>1 DEF Row, Body

\* The operations of the admin API keep the types.
LEMMA OpTypes ==
  ASSUME TypeOK, PhaseInv, RowInv, NEW o \in Ops,
         \/ CreateInvalid(o) \/ CreateCount(o) \/ CreateAnswer(o)
         \/ \E k \in Keys : CreatePut(o, k) \/ RevokeBegin(o, k)
         \/ GateTake(o) \/ GateRead(o) \/ UpdatePut(o) \/ RotatePut(o) \/ GateAnswer(o)
         \/ DenyStore(o) \/ DenyMemory(o) \/ DeleteRow(o)
         \/ RefreshKeys(o) \/ RefreshCreds(o) \/ RefreshSwap(o)
         \/ StoreError(o) \/ ClientDrops(o)
  PROVE  TypeOK'
<1> USE DEF store, memory, task, hist, group
<1>1. CASE CreateInvalid(o)
  BY <1>1, EndTypes DEF CreateInvalid, TypeOK
<1>2. CASE CreateCount(o)
  BY <1>2, EndTypes DEF CreateCount, TypeOK, Stages
<1>3. CASE CreateAnswer(o)
  <2>1. req[o].key \in Keys /\ req[o].key \in Body
    BY <1>3 DEF CreateAnswer, PhaseInv, Body
  <2>2. Commit(o, req[o].key) \in [Slot -> Entry]
    BY <2>1, IdemTypes
  <2>3. idem' \in [Slot -> Entry] /\ pc' \in [Ops -> Stages]
        /\ issued' \in SUBSET Keys /\ answer' \in [Ops -> Body \cup {None}]
    BY <1>3, <2>1, <2>2 DEF CreateAnswer, TypeOK, Stages
  <2> QED BY <1>3, <2>3 DEF CreateAnswer, TypeOK
<1>4. ASSUME NEW k \in Keys, CreatePut(o, k) PROVE TypeOK'
  <2>1. rows' \in Rows
    <3>1. req[o].mint.group \in BOOLEAN
      BY DEF TypeOK, Request, Mint
    <3>2. NewRow(req[o].mint.group) \in Row
      BY <3>1, RowTypes
    <3> QED BY <1>4, <3>2 DEF CreatePut, TypeOK, Rows
  <2>2. req' \in [Ops -> Request]
    <3>1. req \in [Ops -> Request]
      BY DEF TypeOK
    <3>2. [req[o] EXCEPT !.key = k] \in Request
      BY <3>1 DEF Request
    <3>3. req' = [req EXCEPT ![o] = [req[o] EXCEPT !.key = k]]
      BY <1>4 DEF CreatePut
    <3> QED BY <3>1, <3>2, <3>3
  <2>3. overtaken' \in BOOLEAN
    BY <1>4 DEF CreatePut
  <2> QED BY <1>4, <2>1, <2>2, <2>3 DEF CreatePut, TypeOK, Stages, After
<1>5. ASSUME NEW k \in Keys, RevokeBegin(o, k) PROVE TypeOK'
  <2> DEFINE r == [Idle EXCEPT !.kind = "revoke", !.key = k]
  <2>1. r \in Request /\ req' = [req EXCEPT ![o] = r]
    BY <1>5, RevokeRequest DEF RevokeBegin
  <2> HIDE DEF r
  <2> QED BY <1>5, <2>1 DEF RevokeBegin, TypeOK, Stages
<1>6. CASE GateTake(o)
  BY <1>6 DEF GateTake, TypeOK, Stages
<1>7. CASE GateRead(o)
  <2>1. CASE End(o)
    BY <1>7, <2>1, EndTypes DEF GateRead, TypeOK
  <2>2. CASE ~ End(o)
    <3>1. rows[req[o].key] \in Row \cup {None}
      BY <1>7 DEF GateRead, PhaseInv, TypeOK, Rows
    <3> QED BY <1>7, <2>2, <3>1 DEF GateRead, TypeOK, Stages
  <2> QED BY <2>1, <2>2
<1>8. CASE UpdatePut(o)
  <2>1. read[o] \in Row /\ req[o].patch \in Patch /\ req[o].key \in Keys
    BY <1>8 DEF UpdatePut, TypeOK, Request, PhaseInv, RowInv, ReadIsCurrent, Writing
  <2> DEFINE row == [read[o] EXCEPT !.enabled = Set(read[o].enabled, req[o].patch.enabled),
                                    !.group = Set(read[o].group, req[o].patch.group)]
  <2>2. row \in Row /\ PutBack(o, row)
    BY <1>8, <2>1, RowTypes DEF UpdatePut
  <2>5. uncounted' \in SUBSET Keys
    BY <1>8, <2>1 DEF UpdatePut, TypeOK
  <2> HIDE DEF row
  <2>3. rows' \in Rows
    BY <2>1, <2>2 DEF PutBack, TypeOK, Rows
  <2>4. overtaken' \in BOOLEAN
    BY <2>2 DEF PutBack
  <2> QED BY <1>8, <2>2, <2>3, <2>4, <2>5 DEF UpdatePut, PutBack, TypeOK, Stages, After
<1>9. CASE RotatePut(o)
  <2>1. read[o] \in Row /\ req[o].key \in Keys
    BY <1>9 DEF RotatePut, TypeOK, PhaseInv, RowInv, ReadIsCurrent, Writing
  <2>2. gen + 1 \in 0 .. MaxGen
    BY <1>9, CredentialsAssumption DEF RotatePut, TypeOK
  <2> DEFINE row == [read[o] EXCEPT !.hash = gen + 1]
  <2>3. row \in Row /\ PutBack(o, row)
    BY <1>9, <2>1, <2>2, RowTypes DEF RotatePut
  <2> HIDE DEF row
  <2>4. rows' \in Rows
    BY <2>1, <2>3 DEF PutBack, TypeOK, Rows
  <2>5. overtaken' \in BOOLEAN
    BY <2>3 DEF PutBack
  <2> QED BY <1>9, <2>2, <2>3, <2>4, <2>5 DEF RotatePut, PutBack, TypeOK, Stages, After
<1>10. CASE GateAnswer(o)
  <2>1. req[o].key \in Keys /\ (req[o].kind = "rotate" => read[o].hash \in Body)
    BY <1>10, RotateBody DEF GateAnswer, PhaseInv
  <2>2. req[o].kind = "rotate" => Commit(o, read[o].hash) \in [Slot -> Entry]
    BY <2>1, IdemTypes
  <2>3. idem' \in [Slot -> Entry] /\ pc' \in [Ops -> Stages]
        /\ deleted' \in SUBSET Keys /\ answer' \in [Ops -> Body \cup {None}]
        /\ read' \in [Ops -> Row \cup {None}]
    BY <1>10, <2>1, <2>2 DEF GateAnswer, TypeOK, Stages
  <2> QED BY <1>10, <2>3 DEF GateAnswer, TypeOK
<1>11. CASE DenyStore(o)
  BY <1>11 DEF DenyStore, TypeOK, PhaseInv, Stages
<1>12. CASE DenyMemory(o)
  BY <1>12 DEF DenyMemory, TypeOK, PhaseInv, Stages
<1>13. CASE DeleteRow(o)
  <2>1. overtaken' \in BOOLEAN
    BY <1>13 DEF DeleteRow
  <2> QED BY <1>13, <2>1 DEF DeleteRow, TypeOK, Rows, Stages, After
<1>14. CASE RefreshKeys(o)
  BY <1>14 DEF RefreshKeys, TypeOK, Stages, After
<1>15. CASE RefreshCreds(o)
  <2>1. load[o] \in Rows
    BY <1>15 DEF RefreshCreds, PhaseInv, TypeOK
  <2>2. [k \in Keys |-> IF k \in creds THEN load[o][k] ELSE None] \in Rows
    BY <2>1 DEF Rows
  <2> QED BY <1>15, <2>2 DEF RefreshCreds, TypeOK, Stages, After
<1>16. CASE RefreshSwap(o)
  BY <1>16 DEF RefreshSwap, PhaseInv, TypeOK, Stages, After
<1>17. CASE StoreError(o)
  <2>1. overtaken' \in BOOLEAN
    BY <1>17 DEF StoreError
  <2> QED BY <1>17, <2>1, EndTypes DEF StoreError, Fault, TypeOK
<1>18. CASE ClientDrops(o)
  BY <1>18, IdemTypes DEF ClientDrops, Fault, TypeOK, Stages
<1> QED BY <1>1, <1>2, <1>3, <1>4, <1>5, <1>6, <1>7, <1>8, <1>9, <1>10, <1>11, <1>12, <1>13,
           <1>14, <1>15, <1>16, <1>17, <1>18

\* The windows, the restarts and the requests keep the types.
LEMMA OtherTypes ==
  ASSUME TypeOK,
         \/ \E s \in Slot : IdemAges(s)
         \/ \E failed \in BOOLEAN : Restart(failed)
         \/ \E k \in Keys, c \in {"token", "secret", "aws"}, g \in 0 .. MaxGen : AuthBegin(k, c, g)
         \/ AuthLookup \/ AuthEnd
         \/ UNCHANGED vars
  PROVE  TypeOK'
<1> USE DEF store, memory, task, hist, group
<1>1. ASSUME NEW s \in Slot, IdemAges(s) PROVE TypeOK'
  <2>1. [idem[s] EXCEPT !.aged = TRUE] \in Entry
    BY EntryTypes DEF TypeOK
  <2>2. idem' = [idem EXCEPT ![s] = [idem[s] EXCEPT !.aged = TRUE]]
    BY <1>1 DEF IdemAges
  <2>3. idem' \in [Slot -> Entry]
    BY <2>1, <2>2 DEF TypeOK
  <2> QED BY <1>1, <2>3 DEF IdemAges, Fault, TypeOK
<1>2. ASSUME NEW failed \in BOOLEAN, Restart(failed) PROVE TypeOK'
  <2>1. awsCache' \in Rows /\ cache' \in Rows /\ deny' \in SUBSET Keys
    BY <1>2 DEF Restart, TypeOK, Rows, list_denylist
  <2>2. idem' \in [Slot -> Entry] /\ era' \in [Slot -> Nat]
    BY <1>2, EntryTypes DEF Restart, TypeOK
  <2>3. pc' \in [Ops -> Stages] /\ faults' \in Nat
    BY <1>2 DEF Restart, Fault, TypeOK, Stages
  <2>4. overtaken' \in BOOLEAN /\ blind' \in BOOLEAN
    BY <1>2 DEF Restart
  <2> QED BY <1>2, <2>1, <2>2, <2>3, <2>4, NoAuthType DEF Restart, TypeOK
<1>3. ASSUME NEW k \in Keys, NEW c \in {"token", "secret", "aws"}, NEW g \in 0 .. MaxGen,
             AuthBegin(k, c, g)
      PROVE  TypeOK'
  <2> DEFINE r == k \in revoked
             d == k \in deleted
  <2>1. r \in BOOLEAN /\ d \in BOOLEAN
    OBVIOUS
  <2>2. auth' = [pc |-> "lookup", key |-> k, carrier |-> c, gen |-> g, revoked |-> r,
                 deleted |-> d]
    BY <1>3 DEF AuthBegin
  <2> HIDE DEF r, d
  <2>3. auth' \in Auths
    BY <2>1, <2>2 DEF Auths
  <2> QED BY <1>3, <2>3 DEF AuthBegin, TypeOK
<1>4. CASE AuthLookup \/ AuthEnd
  <2>1. auth' \in Auths
    BY <1>4, NoAuthType DEF AuthLookup, AuthEnd, TypeOK, Auths
  <2> QED BY <1>4, <2>1 DEF AuthLookup, AuthEnd, TypeOK
<1>5. CASE UNCHANGED vars
  BY <1>5 DEF vars, TypeOK
<1> QED BY <1>1, <1>2, <1>3, <1>4, <1>5
-----------------------------------------------------------------------------
(* The gate *)

\* The start of an operation, whichever it is: it names a key unless it is a
\* mint, and holds nothing yet.
Begins(o) ==
  \E r \in Request, next \in {"reserved", "queued", "denying", "done"} :
    /\ pc[o] = "idle"
    /\ pc' = [pc EXCEPT ![o] = next]
    /\ req' = [req EXCEPT ![o] = r]
    /\ next \in Phases(r.kind)
    /\ next \in {"queued", "denying"} => r.key \in Keys
    /\ UNCHANGED <<store, cache, awsCache, deny, gate, read, load, join, dropped, gen, faults,
                   auth, drawn, issued, revoked, deleted, slow, overtaken, blind, group>>

\* create_key begins.
LEMMA CreateBegins ==
  ASSUME NEW o \in Ops, NEW i \in IdemKeys \cup {None}, NEW m \in Mint, CreateBegin(o, i, m)
  PROVE  Begins(o)
<1> DEFINE r == [Idle EXCEPT !.kind = "create", !.idem = i, !.mint = m]
<1>1. r \in Request /\ r.kind = "create"
  BY CreateRequest
<1>2. Replay(o, r, <<i, None>>) \/ Reserve(o, r, <<i, None>>, "reserved")
  BY DEF CreateBegin
<1> HIDE DEF r
<1>3. \E x \in {"done", "reserved"} : pc' = [pc EXCEPT ![o] = x]
  BY <1>2 DEF Replay, Reserve
<1>4. req' = [req EXCEPT ![o] = r]
  BY <1>2 DEF Replay, Reserve
<1> QED BY <1>1, <1>3, <1>4 DEF Begins, CreateBegin, Phases

\* An update, a rotation or a deletion begins.
LEMMA GateBegins ==
  ASSUME NEW o \in Ops, NEW kind \in GateKinds, NEW k \in Keys,
         NEW i \in IdemKeys \cup {None}, NEW p \in Patch, NEW t \in ETag \cup {None},
         GateBegin(o, kind, k, i, p, t)
  PROVE  Begins(o)
<1> DEFINE r == [Idle EXCEPT !.kind = kind, !.key = k, !.idem = i, !.patch = p, !.tag = t]
           s == IF kind = "rotate" THEN <<i, k>> ELSE <<None, None>>
<1>1. r \in Request /\ r.kind = kind /\ r.key = k
  BY IdleType DEF Request, GateKinds
<1>2. Replay(o, r, s) \/ Reserve(o, r, s, "queued")
  BY DEF GateBegin
<1> HIDE DEF r, s
<1>3. \E x \in {"done", "queued"} : pc' = [pc EXCEPT ![o] = x]
  BY <1>2 DEF Replay, Reserve
<1>4. req' = [req EXCEPT ![o] = r]
  BY <1>2 DEF Replay, Reserve
<1> QED BY <1>1, <1>3, <1>4 DEF Begins, GateBegin, Phases, GateKinds

\* A revocation begins.
LEMMA RevokeBegins ==
  ASSUME NEW o \in Ops, NEW k \in Keys, RevokeBegin(o, k)
  PROVE  Begins(o)
<1> DEFINE r == [Idle EXCEPT !.kind = "revoke", !.key = k]
           x == IF rows[k] = None THEN "done" ELSE "denying"
<1>1. r \in Request /\ r.kind = "revoke" /\ r.key = k
  BY RevokeRequest
<1>2. req' = [req EXCEPT ![o] = r] /\ pc' = [pc EXCEPT ![o] = x] /\ x \in {"done", "denying"}
  BY DEF RevokeBegin
<1> HIDE DEF r, x
<1> QED BY <1>1, <1>2 DEF Begins, RevokeBegin, Phases, store, memory, hist

\* An operation that ends without its answer: it lets go of the gate, and a
\* refresh that it leaves undone is an overtaken one.
Ends(o) ==
  /\ pc[o] \notin {"idle", "done", "joined", "swapped"}
  /\ pc' = [pc EXCEPT ![o] = "done"]
  /\ gate' = IF gate = o THEN None ELSE gate
  /\ read' = [read EXCEPT ![o] = None]
  /\ load' = [load EXCEPT ![o] = None]
  /\ join' = [join EXCEPT ![o] = None]
  /\ pc[o] \in {"put", "listed"} => overtaken'
  /\ overtaken => overtaken'
  /\ UNCHANGED <<store, cache, awsCache, deny, req, dropped, gen, auth, drawn, issued, revoked,
                 deleted, slow, blind, group>>

\* What an operation does between its start and its end, but for the slot of
\* its header.
Moves(o) ==
  \/ CreateCount(o) /\ pc' = [pc EXCEPT ![o] = "counted"] /\ UNCHANGED <<gate, read, load, join>>
  \/ \E k \in Keys : CreatePut(o, k)
  \/ CreateAnswer(o)
  \/ GateTake(o)
  \/ /\ GateRead(o) /\ pc' = [pc EXCEPT ![o] = "read"] /\ rows[req[o].key] # None
     /\ read' = [read EXCEPT ![o] = rows[req[o].key]] /\ UNCHANGED <<gate, load, join>>
  \/ UpdatePut(o) \/ RotatePut(o) \/ GateAnswer(o)
  \/ DenyStore(o) \/ DenyMemory(o) \/ DeleteRow(o)
  \/ RefreshKeys(o) \/ RefreshCreds(o) \/ RefreshSwap(o)
  \/ ClientDrops(o)

\* The steps of an operation: it begins, moves or ends.
OpStep(o) ==
  \/ \E i \in IdemKeys \cup {None}, m \in Mint : CreateBegin(o, i, m)
  \/ CreateInvalid(o) \/ CreateCount(o) \/ CreateAnswer(o)
  \/ \E k \in Keys : CreatePut(o, k)
  \/ \E k \in Keys :
       \/ \E p \in Patch, t \in ETag \cup {None} : GateBegin(o, "update", k, None, p, t)
       \/ \E i \in IdemKeys \cup {None} : GateBegin(o, "rotate", k, i, NoPatch, None)
       \/ \E t \in ETag \cup {None} : GateBegin(o, "delete", k, None, NoPatch, t)
       \/ RevokeBegin(o, k)
  \/ GateTake(o) \/ GateRead(o) \/ UpdatePut(o) \/ RotatePut(o) \/ GateAnswer(o)
  \/ DenyStore(o) \/ DenyMemory(o) \/ DeleteRow(o)
  \/ RefreshKeys(o) \/ RefreshCreds(o) \/ RefreshSwap(o)
  \/ StoreError(o) \/ ClientDrops(o)

\* Those are all.
LEMMA OpSteps ==
  ASSUME TypeOK, PhaseInv, NEW o \in Ops, OpStep(o)
  PROVE  Begins(o) \/ Moves(o) \/ Ends(o)
<1> USE DEF store, memory, task, hist, group
<1>1. ASSUME NEW i \in IdemKeys \cup {None}, NEW m \in Mint, CreateBegin(o, i, m)
      PROVE  Begins(o)
  BY <1>1, CreateBegins
<1>2. ASSUME NEW k \in Keys, NEW p \in Patch, NEW t \in ETag \cup {None},
             GateBegin(o, "update", k, None, p, t)
      PROVE  Begins(o)
  BY <1>2, GateBegins DEF GateKinds
<1>3. ASSUME NEW k \in Keys, NEW i \in IdemKeys \cup {None}, GateBegin(o, "rotate", k, i, NoPatch, None)
      PROVE  Begins(o)
  BY <1>3, GateBegins, NothingTypes DEF GateKinds
<1>4. ASSUME NEW k \in Keys, NEW t \in ETag \cup {None}, GateBegin(o, "delete", k, None, NoPatch, t)
      PROVE  Begins(o)
  BY <1>4, GateBegins, NothingTypes DEF GateKinds
<1>5. ASSUME NEW k \in Keys, RevokeBegin(o, k)
      PROVE  Begins(o)
  BY <1>5, RevokeBegins
<1>6. CASE CreateInvalid(o)
  BY <1>6 DEF CreateInvalid, End, Ends
<1>7. CASE CreateCount(o)
  BY <1>7 DEF CreateCount, End, Ends, Moves
<1>8. CASE GateRead(o)
  BY <1>8 DEF GateRead, End, Ends, Moves
<1>9. CASE StoreError(o)
  BY <1>9 DEF StoreError, AtStore, End, Ends
<1>10. CASE \/ CreateAnswer(o) \/ GateTake(o) \/ UpdatePut(o) \/ RotatePut(o) \/ GateAnswer(o)
            \/ DenyStore(o) \/ DenyMemory(o) \/ DeleteRow(o)
            \/ RefreshKeys(o) \/ RefreshCreds(o) \/ RefreshSwap(o) \/ ClientDrops(o)
            \/ \E k \in Keys : CreatePut(o, k)
  BY <1>10 DEF Moves
<1> QED BY <1>1, <1>2, <1>3, <1>4, <1>5, <1>6, <1>7, <1>8, <1>9, <1>10 DEF OpStep

\* An operation that begins or ends keeps its stage, its key and the gate.
LEMMA PhaseEnds ==
  ASSUME TypeOK, PhaseInv, NEW o \in Ops, Begins(o) \/ Ends(o)
  PROVE  PhaseInv'
<1>1. CASE Begins(o)
  BY <1>1 DEF Begins, PhaseInv, TypeOK, Held, After
<1>2. CASE Ends(o)
  BY <1>2 DEF Ends, PhaseInv, TypeOK, Held, After, Phases
<1> QED BY <1>1, <1>2

\* An operation that moves keeps its stage, its key and the gate.
LEMMA PhaseMoves ==
  ASSUME TypeOK, PhaseInv, NEW o \in Ops, Moves(o)
  PROVE  PhaseInv'
<1> USE DEF store, memory, task, hist, group
<1>1. CASE CreateCount(o) /\ pc' = [pc EXCEPT ![o] = "counted"] /\ UNCHANGED <<gate, read, load, join>>
  BY <1>1 DEF CreateCount, PhaseInv, TypeOK, Held, After, Phases
<1>2. ASSUME NEW k \in Keys, CreatePut(o, k) PROVE PhaseInv'
  BY <1>2 DEF CreatePut, PhaseInv, TypeOK, Request, Held, After, Phases, GateKinds
<1>3. CASE CreateAnswer(o)
  BY <1>3 DEF CreateAnswer, PhaseInv, TypeOK, Held, After, Phases
<1>4. CASE GateTake(o)
  BY <1>4, CredentialsAssumption DEF GateTake, PhaseInv, TypeOK, Held, After, Phases
<1>5. CASE /\ GateRead(o) /\ pc' = [pc EXCEPT ![o] = "read"] /\ rows[req[o].key] # None
           /\ UNCHANGED <<gate, load, join>>
  BY <1>5 DEF GateRead, PhaseInv, TypeOK, Held, After, Phases
<1>6. CASE UpdatePut(o) \/ RotatePut(o)
  BY <1>6 DEF UpdatePut, RotatePut, PutBack, PhaseInv, TypeOK, Held, After, Phases
<1>7. CASE GateAnswer(o)
  <2>1. req[o].kind \in GateKinds
    BY <1>7 DEF GateAnswer, PhaseInv, TypeOK, Request, Phases, After, GateKinds
  <2>2. gate = o /\ load[o] = None
    BY <1>7, <2>1 DEF GateAnswer, PhaseInv, Held, After
  <2>3. \A p \in Ops \ {o} : ~ (pc[p] \in Held /\ req[p].kind \in GateKinds)
    BY <2>2 DEF PhaseInv
  <2>4. pc' = [pc EXCEPT ![o] = "done"] /\ UNCHANGED <<req, load, join>>
    BY <1>7 DEF GateAnswer
  <2> QED BY <2>2, <2>3, <2>4 DEF PhaseInv, TypeOK, Held, After, Phases
<1>8. CASE DenyStore(o)
  <2>1. /\ req[o].kind \in {"revoke", "delete"} /\ req[o].key \in Keys /\ load[o] = None
        /\ req[o].kind = "delete" => gate = o
    BY <1>8 DEF DenyStore, PhaseInv, TypeOK, Request, Phases, After, Held, GateKinds
  <2>2. pc' = [pc EXCEPT ![o] = "denied"] /\ UNCHANGED <<req, load, join, gate>>
    BY <1>8 DEF DenyStore
  <2> QED BY <2>1, <2>2 DEF PhaseInv, TypeOK, Held, After, Phases, GateKinds
<1>9. CASE DenyMemory(o)
  BY <1>9 DEF DenyMemory, PhaseInv, TypeOK, Held, After, Phases
<1>10. CASE DeleteRow(o)
  BY <1>10 DEF DeleteRow, PhaseInv, TypeOK, Held, After, Phases
<1>11. CASE RefreshKeys(o)
  BY <1>11, CredentialsAssumption DEF RefreshKeys, PhaseInv, TypeOK, Held, After, Phases
<1>12. CASE RefreshCreds(o)
  <2> DEFINE j == [k \in Keys |-> IF k \in creds THEN load[o][k] ELSE None]
  <2>1. load[o] \in Rows /\ req[o].key \in Keys /\ "joined" \in Phases(req[o].kind)
    BY <1>12 DEF RefreshCreds, PhaseInv, TypeOK, Phases, After
  <2>2. j \in Rows /\ j # None
    BY <2>1, CredentialsAssumption DEF Rows
  <2>3. /\ pc' = [pc EXCEPT ![o] = "joined"] /\ join' = [join EXCEPT ![o] = j]
        /\ UNCHANGED <<req, load, gate>> /\ pc[o] = "listed"
    BY <1>12 DEF RefreshCreds
  <2> HIDE DEF j
  <2> QED BY <2>1, <2>2, <2>3 DEF PhaseInv, TypeOK, Held, After
<1>13. CASE RefreshSwap(o)
  BY <1>13 DEF RefreshSwap, PhaseInv, TypeOK, Held, After, Phases
<1>14. CASE ClientDrops(o)
  BY <1>14 DEF ClientDrops, PhaseInv, TypeOK, Held, After, Phases
<1> QED BY <1>1, <1>2, <1>3, <1>4, <1>5, <1>6, <1>7, <1>8, <1>9, <1>10, <1>11, <1>12, <1>13, <1>14
        DEF Moves

\* One operation at most is past its lookup and not at its end.
LEMMA OneHolder ==
  ASSUME PhaseInv, NEW o \in Ops, pc[o] \in Held, req[o].kind \in GateKinds,
         NEW p \in Ops, p # o, pc[p] \in Held
  PROVE  req[p].kind \notin GateKinds
BY DEF PhaseInv

\* A writer is one, and names a key.
LEMMA WriterHolds ==
  ASSUME TypeOK, PhaseInv, NEW o \in Writing
  PROVE  o \in Ops /\ pc[o] \in Held /\ req[o].kind \in GateKinds /\ req[o].key \in Keys
<1>1. o \in Ops /\ pc[o] \in {"read", "deleting", "denied"} /\ (pc[o] = "denied" => req[o].kind = "delete")
  BY DEF Writing
<1>2. pc[o] \in Phases(req[o].kind) /\ req[o].kind \in {"create", "update", "rotate", "revoke", "delete"}
  BY <1>1 DEF PhaseInv, TypeOK, Request
<1> QED BY <1>1, <1>2 DEF PhaseInv, Phases, Held, After, GateKinds

\* An operation that begins or ends writes no row.
LEMMA RowEnds ==
  ASSUME TypeOK, RowInv, NEW o \in Ops, Begins(o) \/ Ends(o)
  PROVE  RowInv'
<1>1. UNCHANGED <<rows, creds, drawn>>
  BY DEF Begins, Ends, store
<1>2. \A p \in Ops \ {o} : pc'[p] = pc[p] /\ req'[p] = req[p] /\ read'[p] = read[p]
  BY DEF Begins, Ends, TypeOK
<1>3. pc'[o] \in {"reserved", "queued", "denying", "done"}
  BY DEF Begins, Ends, TypeOK
<1> QED BY <1>1, <1>2, <1>3 DEF RowInv, ReadIsCurrent, Writing, Bound, After

\* A move that writes no row and reads none.
LEMMA RowStill ==
  ASSUME RowInv, NEW o \in Ops, UNCHANGED <<rows, creds, drawn>>,
         \A p \in Ops \ {o} : pc'[p] = pc[p] /\ req'[p] = req[p] /\ read'[p] = read[p],
         o \in Writing' => o \in Writing /\ req'[o] = req[o] /\ read'[o] = read[o],
         \/ pc'[o] \notin After
         \/ pc[o] \in After /\ req'[o] = req[o] /\ read'[o] = read[o]
  PROVE  RowInv'
BY DEF RowInv, ReadIsCurrent, Writing, Bound

\* The holder of the gate writes the row it has read: no other has read one.
LEMMA RowWritten ==
  ASSUME TypeOK, PhaseInv, RowInv, NEW o \in Writing, NEW row,
         rows' = [rows EXCEPT ![req[o].key] = row], creds' \subseteq creds, drawn' = drawn,
         pc' = [pc EXCEPT ![o] = "put"], UNCHANGED req,
         \A p \in Ops \ {o} : read'[p] = read[p],
         req[o].kind = "rotate" => read'[o] # None
  PROVE  RowInv'
<1>1. o \in Ops /\ pc[o] \in Held /\ req[o].kind \in GateKinds /\ req[o].key \in Keys
  BY WriterHolds
<1>2. req[o].key \in drawn
  BY <1>1 DEF RowInv, ReadIsCurrent, Bound
<1>3. Writing' = {}
  <2> SUFFICES ASSUME NEW p \in Writing' PROVE FALSE
    OBVIOUS
  <2>1. p \in Ops /\ p # o
    BY <1>1 DEF Writing, TypeOK
  <2>2. p \in Writing
    BY <1>1, <2>1 DEF Writing, TypeOK
  <2> QED BY <1>1, <2>1, <2>2, WriterHolds, OneHolder
<1>4. Bound' \subseteq Bound \cup {req[o].key}
  BY <1>1 DEF Bound, TypeOK, Rows
<1>5. \A p \in Ops : pc'[p] \in After /\ req'[p].kind = "rotate" => read'[p] # None
  BY <1>1 DEF RowInv, TypeOK
<1> QED BY <1>2, <1>3, <1>4, <1>5 DEF RowInv, ReadIsCurrent

\* A mint writes a row of a new key, which no operation has read.
LEMMA RowMinted ==
  ASSUME TypeOK, PhaseInv, RowInv, NEW o \in Ops, NEW k \in Keys, CreatePut(o, k)
  PROVE  RowInv'
<1>1. /\ pc[o] = "counted" /\ k \notin drawn /\ drawn' = drawn \cup {k}
      /\ rows' = [rows EXCEPT ![k] = NewRow(req[o].mint.group)]
      /\ creds' \subseteq creds \cup {k}
      /\ pc' = [pc EXCEPT ![o] = "put"] /\ read' = read
      /\ \A p \in Ops \ {o} : req'[p] = req[p]
  BY DEF CreatePut, TypeOK
<1>2. Bound' \subseteq Bound \cup {k}
  BY <1>1 DEF Bound, TypeOK, Rows
<1>3. ASSUME NEW p \in Writing' PROVE rows'[req'[p].key] = read'[p] /\ read'[p] # None
  <2>1. p \in Ops /\ p # o
    BY <1>1, <1>3 DEF Writing, TypeOK
  <2>2. p \in Writing /\ req'[p] = req[p]
    BY <1>1, <2>1 DEF Writing, TypeOK
  <2>3. req[p].key \in Keys /\ rows[req[p].key] = read[p] /\ read[p] # None
    BY <2>2, WriterHolds DEF RowInv, ReadIsCurrent
  <2>4. req[p].key \in drawn
    BY <2>3 DEF RowInv, Bound
  <2> QED BY <1>1, <2>2, <2>3, <2>4 DEF TypeOK, Rows
<1>4. req'[o].kind = "create"
  BY <1>1 DEF CreatePut, PhaseInv, Phases, After, TypeOK, Request
<1>5. \A p \in Ops : pc'[p] \in After /\ req'[p].kind = "rotate" => read'[p] # None
  BY <1>1, <1>4 DEF RowInv, TypeOK
<1> QED BY <1>1, <1>2, <1>3, <1>5 DEF RowInv, ReadIsCurrent

\* The gate keeps the row that was read current.
LEMMA RowMoves ==
  ASSUME TypeOK, PhaseInv, RowInv, NEW o \in Ops, Moves(o)
  PROVE  RowInv'
<1> USE DEF store, memory, task, hist, group
<1>1. CASE /\ GateRead(o) /\ pc' = [pc EXCEPT ![o] = "read"] /\ rows[req[o].key] # None
           /\ read' = [read EXCEPT ![o] = rows[req[o].key]] /\ UNCHANGED <<gate, load, join>>
  BY <1>1 DEF GateRead, RowInv, ReadIsCurrent, Writing, Bound, TypeOK, After
<1>2. ASSUME NEW k \in Keys, CreatePut(o, k) PROVE RowInv'
  BY <1>2, RowMinted
<1>3. CASE UpdatePut(o)
  BY <1>3, RowWritten DEF UpdatePut, PutBack, Writing, TypeOK
<1>4. CASE RotatePut(o)
  <2> DEFINE row == [read[o] EXCEPT !.hash = gen + 1]
  <2>1. o \in Writing /\ PutBack(o, row)
    BY <1>4 DEF RotatePut, Writing
  <2>2. read[o] \in Row /\ gen + 1 \in 0 .. MaxGen
    BY <1>4, <2>1, CredentialsAssumption DEF RotatePut, TypeOK, RowInv, ReadIsCurrent
  <2>3. row # None
    <3>1. row \in Row
      BY <2>2, RowTypes
    <3> HIDE DEF row
    <3> QED BY <3>1, CredentialsAssumption
  <2> HIDE DEF row
  <2> QED BY <2>1, <2>3, RowWritten DEF PutBack, TypeOK
<1>5. CASE DeleteRow(o)
  <2>1. o \in Writing /\ req[o].kind = "delete"
    BY <1>5 DEF DeleteRow, Writing, PhaseInv, Phases, After, TypeOK, Request
  <2> QED BY <1>5, <2>1, RowWritten DEF DeleteRow
<1>6. CASE DenyStore(o)
  <2>1. o \in Writing' => o \in Writing
    BY <1>6 DEF DenyStore, Writing, TypeOK, PhaseInv, Phases, After
  <2> QED BY <1>6, <2>1, RowStill DEF DenyStore, TypeOK, After
<1>7. CASE DenyMemory(o)
  BY <1>7, RowStill DEF DenyMemory, Writing, TypeOK, After
<1>8. CASE \/ CreateCount(o) /\ pc' = [pc EXCEPT ![o] = "counted"] /\ UNCHANGED <<gate, read, load, join>>
           \/ CreateAnswer(o) \/ GateTake(o) \/ GateAnswer(o)
  BY <1>8, RowStill DEF CreateCount, CreateAnswer, GateTake, GateAnswer, Writing, TypeOK, After
<1>9. CASE RefreshKeys(o) \/ RefreshCreds(o) \/ RefreshSwap(o)
  BY <1>9, RowStill DEF RefreshKeys, RefreshCreds, RefreshSwap, Writing, TypeOK, After
<1>10. CASE ClientDrops(o)
  BY <1>10, RowStill DEF ClientDrops, Writing, TypeOK, After
<1> QED BY <1>1, <1>2, <1>3, <1>4, <1>5, <1>6, <1>7, <1>8, <1>9, <1>10 DEF Moves
-----------------------------------------------------------------------------
(* Revocations and deletions *)

\* A step that changes neither the rows nor the lists, and takes no operation
\* to a stage of which something is said.
LEMMA FinalStill ==
  ASSUME FinalInv, NEW o \in Ops,
         UNCHANGED <<rows, creds, denied, deny, drawn, revoked, deleted, blind>>,
         \A p \in Ops \ {o} : pc'[p] = pc[p] /\ req'[p] = req[p],
         \/ pc'[o] \notin {"denied", "deleting"} \cup After
         \/ req'[o].kind # "delete" /\ pc'[o] # "denied"
         \/ req'[o] = req[o] /\ pc[o] \in After /\ pc'[o] \in After
         \/ req'[o] = req[o] /\ pc'[o] = pc[o]
  PROVE  FinalInv'
BY DEF FinalInv, DeletedStaysDeleted, After

\* An operation that begins or ends revokes and deletes nothing.
LEMMA FinalEnds ==
  ASSUME TypeOK, FinalInv, NEW o \in Ops, Begins(o) \/ Ends(o)
  PROVE  FinalInv'
BY FinalStill DEF Begins, Ends, TypeOK, store, After

\* A write back of a row that was read: not one that was deleted.
LEMMA FinalWritten ==
  ASSUME TypeOK, PhaseInv, RowInv, FinalInv, NEW o \in Writing, req[o].kind # "delete", NEW row,
         rows' = [rows EXCEPT ![req[o].key] = row], pc' = [pc EXCEPT ![o] = "put"],
         UNCHANGED <<creds, denied, deny, drawn, revoked, deleted, blind, req>>
  PROVE  FinalInv'
<1>1. o \in Ops /\ pc[o] \in Held /\ req[o].kind \in GateKinds /\ req[o].key \in Keys
  BY WriterHolds
<1>2. rows[req[o].key] # None
  BY DEF RowInv, ReadIsCurrent
<1>3. DeletedStaysDeleted'
  BY <1>1, <1>2 DEF FinalInv, DeletedStaysDeleted, TypeOK, Rows
<1>4. ASSUME NEW p \in Ops, req[p].kind = "delete", pc'[p] \in After
      PROVE  rows'[req[p].key] = None /\ req[p].key \notin creds
  <2>1. p # o /\ pc'[p] = pc[p]
    BY <1>1, <1>4 DEF TypeOK
  <2>2. FALSE
    BY <1>1, <1>4, <2>1, OneHolder DEF Held, GateKinds
  <2> QED BY <2>2
<1>5. \A p \in Ops : pc'[p] \in {"denied", "deleting"} => pc[p] = pc'[p]
  BY <1>1 DEF TypeOK
<1>6. \A p \in Ops : req[p].kind = "delete" /\ pc'[p] \in After => pc[p] \in After
  BY <1>1 DEF TypeOK
<1> QED BY <1>3, <1>4, <1>5, <1>6 DEF FinalInv

\* A mint draws a key that was neither revoked nor deleted.
LEMMA FinalMinted ==
  ASSUME TypeOK, PhaseInv, FinalInv, NEW o \in Ops, NEW k \in Keys, CreatePut(o, k)
  PROVE  FinalInv'
<1>1. /\ pc[o] = "counted" /\ k \notin drawn /\ drawn' = drawn \cup {k}
      /\ rows' = [rows EXCEPT ![k] = NewRow(req[o].mint.group)]
      /\ creds' \subseteq creds \cup {k}
      /\ pc' = [pc EXCEPT ![o] = "put"]
      /\ UNCHANGED <<denied, deny, revoked, deleted, blind>>
      /\ \A p \in Ops \ {o} : req'[p] = req[p]
  BY DEF CreatePut, TypeOK, memory
<1>2. req[o].kind = "create" /\ req'[o].kind = "create"
  BY <1>1 DEF CreatePut, PhaseInv, Phases, After, TypeOK, Request
<1>3. DeletedStaysDeleted'
  BY <1>1 DEF FinalInv, DeletedStaysDeleted, TypeOK, Rows
<1>4. ASSUME NEW p \in Ops, p # o, req[p].kind = "delete", pc[p] \in After
      PROVE  rows'[req[p].key] = None /\ req[p].key \notin creds'
  <2>1. req[p].key \in Keys /\ req[p].key \in drawn
    BY <1>4 DEF FinalInv, PhaseInv, After
  <2>2. rows[req[p].key] = None /\ req[p].key \notin creds
    BY <1>4 DEF FinalInv
  <2> QED BY <1>1, <2>1, <2>2 DEF TypeOK, Rows
<1>5. \A p \in Ops \ {o} : pc'[p] = pc[p] /\ req'[p] = req[p]
  BY <1>1 DEF TypeOK
<1>6. pc'[o] = "put"
  BY <1>1 DEF TypeOK
<1> QED BY <1>1, <1>2, <1>3, <1>4, <1>5, <1>6 DEF FinalInv

\* Revocations and deletions stay what they are.
LEMMA FinalMoves ==
  ASSUME TypeOK, PhaseInv, RowInv, FinalInv, NEW o \in Ops, Moves(o)
  PROVE  FinalInv'
<1> USE DEF store, memory, task, hist, group
<1>1. CASE GateRead(o) /\ pc' = [pc EXCEPT ![o] = "read"]
  BY <1>1, FinalStill DEF GateRead, TypeOK, After
<1>2. ASSUME NEW k \in Keys, CreatePut(o, k) PROVE FinalInv'
  BY <1>2, FinalMinted
<1>3. CASE UpdatePut(o)
  BY <1>3, FinalWritten DEF UpdatePut, PutBack, Writing
<1>4. CASE RotatePut(o)
  BY <1>4, FinalWritten DEF RotatePut, PutBack, Writing
<1>5. CASE DeleteRow(o)
  <2>1. req[o].kind = "delete" /\ req[o].key \in Keys
    BY <1>5 DEF DeleteRow, PhaseInv, Phases, After, TypeOK, Request
  <2>2. /\ rows' = [rows EXCEPT ![req[o].key] = None] /\ creds' = creds \ {req[o].key}
        /\ pc' = [pc EXCEPT ![o] = "put"] /\ pc[o] = "deleting"
        /\ UNCHANGED <<denied, deny, drawn, revoked, deleted, blind, req>>
    BY <1>5 DEF DeleteRow
  <2>3. DeletedStaysDeleted'
    BY <2>1, <2>2 DEF FinalInv, DeletedStaysDeleted, TypeOK, Rows
  <2>4. rows'[req[o].key] = None /\ req[o].key \notin creds'
    BY <2>1, <2>2 DEF TypeOK, Rows
  <2>5. \A k \in Keys : rows[k] = None => rows'[k] = None
    BY <2>1, <2>2 DEF TypeOK, Rows
  <2>6. \A p \in Ops \ {o} : pc'[p] = pc[p]
    BY <2>2 DEF TypeOK
  <2>7. \A p \in Ops : pc[p] \in After => req[p].key \in Keys
    BY DEF PhaseInv, After
  <2>8. pc'[o] = "put"
    BY <2>2 DEF TypeOK
  <2> QED BY <2>1, <2>2, <2>3, <2>4, <2>5, <2>6, <2>7, <2>8 DEF FinalInv, After
<1>6. CASE DenyStore(o)
  <2>1. /\ denied' = denied \cup {req[o].key} /\ pc' = [pc EXCEPT ![o] = "denied"]
        /\ UNCHANGED <<rows, creds, deny, drawn, revoked, deleted, blind, req>>
    BY <1>6 DEF DenyStore
  <2> QED BY <2>1 DEF FinalInv, DeletedStaysDeleted, TypeOK, After
<1>7. CASE DenyMemory(o)
  <2>1. /\ deny' = deny \cup {req[o].key} /\ revoked' = revoked \cup {req[o].key}
        /\ pc[o] = "denied"
        /\ pc' = [pc EXCEPT ![o] = IF req[o].kind = "delete" THEN "deleting" ELSE "done"]
        /\ UNCHANGED <<rows, creds, denied, drawn, deleted, blind, req>>
    BY <1>7 DEF DenyMemory
  <2>2. req[o].key \in denied
    BY <2>1 DEF FinalInv
  <2>3. req[o].kind = "delete" => req[o].key \in drawn
    <3>1. SUFFICES ASSUME req[o].kind = "delete" PROVE req[o].key \in drawn
      OBVIOUS
    <3>2. o \in Writing
      BY <2>1, <3>1 DEF Writing
    <3>3. req[o].key \in Keys /\ rows[req[o].key] # None
      BY <3>2, WriterHolds DEF RowInv, ReadIsCurrent
    <3> QED BY <3>3 DEF RowInv, Bound
  <2>4. pc'[o] \in {"deleting", "done"} /\ (pc'[o] = "deleting" => req[o].kind = "delete")
    BY <2>1 DEF TypeOK
  <2>5. \A p \in Ops \ {o} : pc'[p] = pc[p]
    BY <2>1 DEF TypeOK
  <2> QED BY <2>1, <2>2, <2>3, <2>4, <2>5 DEF FinalInv, DeletedStaysDeleted, After
<1>8. CASE GateAnswer(o)
  <2>1. /\ deleted' = IF req[o].kind = "delete" THEN deleted \cup {req[o].key} ELSE deleted
        /\ pc[o] = "swapped" /\ pc' = [pc EXCEPT ![o] = "done"]
        /\ UNCHANGED <<rows, creds, denied, deny, drawn, revoked, blind, req>>
    BY <1>8 DEF GateAnswer
  <2>2. pc'[o] = "done" /\ \A p \in Ops \ {o} : pc'[p] = pc[p]
    BY <2>1 DEF TypeOK
  <2>3. \A k \in deleted' \ deleted : k \in drawn /\ k \in denied /\ k \in deny
                                     /\ rows[k] = None /\ k \notin creds
    BY <2>1 DEF FinalInv, After
  <2> QED BY <2>1, <2>2, <2>3 DEF FinalInv, DeletedStaysDeleted, After
<1>9. CASE CreateCount(o) /\ pc' = [pc EXCEPT ![o] = "counted"]
  BY <1>9, FinalStill DEF CreateCount, TypeOK, After
<1>10. CASE CreateAnswer(o) \/ GateTake(o)
  BY <1>10, FinalStill DEF CreateAnswer, GateTake, TypeOK, After
<1>11. CASE RefreshKeys(o) \/ RefreshCreds(o) \/ RefreshSwap(o)
  BY <1>11, FinalStill DEF RefreshKeys, RefreshCreds, RefreshSwap, TypeOK, After
<1>12. CASE ClientDrops(o)
  BY <1>12, FinalStill DEF ClientDrops, TypeOK, After
<1> QED BY <1>1, <1>2, <1>3, <1>4, <1>5, <1>6, <1>7, <1>8, <1>9, <1>10, <1>11, <1>12 DEF Moves
-----------------------------------------------------------------------------
(* The caches *)

\* A step that lists nothing and leaves the rows and the caches alone.
LEMMA CacheStill ==
  ASSUME CacheInv, NEW o \in Ops,
         UNCHANGED <<rows, creds, cache, awsCache, deleted>>,
         overtaken => overtaken',
         \A p \in Ops \ {o} : /\ pc'[p] = pc[p] /\ req'[p] = req[p]
                              /\ load'[p] = load[p] /\ join'[p] = join[p],
         \/ /\ pc[o] \notin {"put", "listed", "joined"} \/ overtaken'
            /\ pc'[o] \notin {"listed", "joined", "swapped"}
         \/ pc'[o] = pc[o] /\ req'[o] = req[o] /\ load'[o] = load[o] /\ join'[o] = join[o]
  PROVE  CacheInv'
BY DEF CacheInv, Joined

\* A write to the store under which no refresh is on its way.
LEMMA CacheDirty ==
  ASSUME CacheInv, NEW o \in Ops, pc'[o] = "put", pc[o] # "swapped",
         ~ overtaken' => ~ overtaken,
         ~ overtaken' => \A p \in Ops \ {o} : pc[p] \notin {"listed", "joined"},
         \A p \in Ops \ {o} : pc'[p] = pc[p] /\ req'[p] = req[p],
         UNCHANGED <<cache, awsCache, deleted>>
  PROVE  CacheInv'
BY DEF CacheInv

\* The caches, when an operation begins and when it ends without its answer.
LEMMA CacheEnds ==
  ASSUME TypeOK, CacheInv, NEW o \in Ops, Begins(o) \/ Ends(o)
  PROVE  CacheInv'
<1>1. CASE Begins(o)
  BY <1>1, CacheStill DEF Begins, TypeOK, store
<1>2. CASE Ends(o)
  BY <1>2, CacheStill DEF Ends, TypeOK, store
<1> QED BY <1>1, <1>2

\* A writer that holds the gate overtakes no refresh but a mint's.
LEMMA NoRefresh ==
  ASSUME TypeOK, PhaseInv, NEW o \in Writing,
         ~ \E p \in Ops : req[p].kind = "create" /\ load[p] # None,
         NEW p \in Ops, p # o
  PROVE  pc[p] \notin {"listed", "joined"}
<1>1. o \in Ops /\ pc[o] \in Held /\ req[o].kind \in GateKinds
  BY WriterHolds
<1> SUFFICES ASSUME pc[p] \in {"listed", "joined"} PROVE FALSE
  OBVIOUS
<1>2. load[p] # None /\ pc[p] \in Held
  BY DEF PhaseInv, Held, After
<1>3. req[p].kind \in GateKinds
  BY <1>2 DEF PhaseInv, Phases, After, TypeOK, Request, GateKinds
<1> QED BY <1>1, <1>2, <1>3, OneHolder

\* The caches follow the store.
LEMMA CacheMoves ==
  ASSUME TypeOK, PhaseInv, FinalInv, CacheInv, NEW o \in Ops, Moves(o)
  PROVE  CacheInv'
<1> USE DEF store, memory, task, hist, group
<1>1. CASE GateRead(o) /\ pc' = [pc EXCEPT ![o] = "read"] /\ UNCHANGED <<gate, load, join>>
  BY <1>1, CacheStill DEF GateRead, TypeOK
<1>2. ASSUME NEW k \in Keys, CreatePut(o, k) PROVE CacheInv'
  <2>1. ~ overtaken' => ~ overtaken /\ \A p \in Ops \ {o} : load[p] = None
    BY <1>2 DEF CreatePut
  <2>2. ~ overtaken' => \A p \in Ops \ {o} : pc[p] \notin {"listed", "joined"}
    BY <2>1 DEF PhaseInv
  <2> QED BY <1>2, <2>1, <2>2, CacheDirty DEF CreatePut, TypeOK
<1>3. ASSUME NEW row, o \in Writing, PutBack(o, row) PROVE CacheInv'
  <2>1. ~ overtaken' => ~ overtaken /\ ~ \E p \in Ops : req[p].kind = "create" /\ load[p] # None
    BY <1>3 DEF PutBack
  <2>2. ~ overtaken' => \A p \in Ops \ {o} : pc[p] \notin {"listed", "joined"}
    BY <1>3, <2>1, NoRefresh
  <2>3. pc' = [pc EXCEPT ![o] = "put"] /\ UNCHANGED <<cache, awsCache, deleted, req>>
    BY <1>3 DEF PutBack
  <2>4. pc[o] # "swapped"
    BY <1>3 DEF Writing
  <2> QED BY <2>1, <2>2, <2>3, <2>4, CacheDirty DEF TypeOK
<1>4. CASE UpdatePut(o) \/ RotatePut(o)
  BY <1>3, <1>4 DEF UpdatePut, RotatePut, Writing
<1>5. CASE DeleteRow(o)
  <2>1. ~ overtaken' => ~ overtaken /\ ~ \E p \in Ops : req[p].kind = "create" /\ load[p] # None
    BY <1>5 DEF DeleteRow
  <2>2. ~ overtaken' => \A p \in Ops \ {o} : pc[p] \notin {"listed", "joined"}
    BY <1>5, <2>1, NoRefresh DEF DeleteRow, Writing
  <2> QED BY <1>5, <2>1, <2>2, CacheDirty DEF DeleteRow, TypeOK
<1>6. CASE DenyStore(o) \/ DenyMemory(o)
  BY <1>6, CacheStill DEF DenyStore, DenyMemory, TypeOK
<1>7. CASE RefreshKeys(o)
  BY <1>7 DEF RefreshKeys, CacheInv, TypeOK, Joined
<1>8. CASE RefreshCreds(o)
  <2> SUFFICES ASSUME ~ overtaken' PROVE CacheInv'
    BY DEF CacheInv
  <2>1. /\ pc[o] = "listed" /\ pc' = [pc EXCEPT ![o] = "joined"]
        /\ join' = [join EXCEPT ![o] = [k \in Keys |-> IF k \in creds THEN load[o][k] ELSE None]]
        /\ UNCHANGED <<rows, creds, cache, awsCache, load, deleted, req, overtaken>>
    BY <1>8 DEF RefreshCreds
  <2>2. join'[o] = Joined
    BY <2>1 DEF CacheInv, Joined, TypeOK
  <2>3. Joined' = Joined
    BY <2>1 DEF Joined
  <2>4. pc'[o] = "joined" /\ \A p \in Ops \ {o} : pc'[p] = pc[p] /\ join'[p] = join[p]
    BY <2>1 DEF TypeOK
  <2> QED BY <2>1, <2>2, <2>3, <2>4 DEF CacheInv
<1>9. CASE RefreshSwap(o)
  <2> SUFFICES ASSUME ~ overtaken' PROVE CacheInv'
    BY DEF CacheInv
  <2>1. /\ pc[o] = "joined" /\ pc' = [pc EXCEPT ![o] = "swapped"]
        /\ cache' = load[o] /\ awsCache' = join[o]
        /\ load' = [load EXCEPT ![o] = None] /\ join' = [join EXCEPT ![o] = None]
        /\ UNCHANGED <<rows, creds, deleted, req, overtaken>>
    BY <1>9 DEF RefreshSwap
  <2>2. cache' = rows /\ awsCache' = Joined
    BY <2>1 DEF CacheInv
  <2>3. Joined' = Joined /\ \A k \in Keys : rows[k] = None => Joined[k] = None
    BY <2>1 DEF Joined
  <2>4. \A k \in deleted : k \in Keys /\ rows[k] = None
    BY DEF FinalInv, DeletedStaysDeleted, TypeOK
  <2>5. pc'[o] = "swapped" /\ \A p \in Ops \ {o} : pc'[p] = pc[p] /\ join'[p] = join[p] /\ load'[p] = load[p]
    BY <2>1 DEF TypeOK
  <2>6. \A p \in Ops : req[p].kind = "delete" /\ pc'[p] = "swapped" =>
          req[p].key \in Keys /\ rows[req[p].key] = None
    BY <2>1, <2>5 DEF FinalInv, PhaseInv, After
  <2> QED BY <2>1, <2>2, <2>3, <2>4, <2>5, <2>6 DEF CacheInv
<1>10. CASE GateAnswer(o)
  <2>1. /\ deleted' = IF req[o].kind = "delete" THEN deleted \cup {req[o].key} ELSE deleted
        /\ pc[o] = "swapped" /\ pc' = [pc EXCEPT ![o] = "done"]
        /\ UNCHANGED <<rows, creds, cache, awsCache, load, join, req, overtaken>>
    BY <1>10 DEF GateAnswer
  <2>2. pc'[o] = "done" /\ \A p \in Ops \ {o} : pc'[p] = pc[p]
    BY <2>1 DEF TypeOK
  <2>3. Joined' = Joined
    BY <2>1 DEF Joined
  <2> QED BY <2>1, <2>2, <2>3 DEF CacheInv
<1>11. CASE CreateCount(o) /\ pc' = [pc EXCEPT ![o] = "counted"] /\ UNCHANGED <<gate, read, load, join>>
  BY <1>11, CacheStill DEF CreateCount, TypeOK
<1>12. CASE CreateAnswer(o) \/ GateTake(o)
  BY <1>12, CacheStill DEF CreateAnswer, GateTake, TypeOK
<1>13. CASE ClientDrops(o)
  BY <1>13, CacheStill DEF ClientDrops, TypeOK
<1> QED BY <1>1, <1>2, <1>4, <1>5, <1>6, <1>7, <1>8, <1>9, <1>10, <1>11, <1>12, <1>13 DEF Moves

\* What was known of the key of the request in flight stays true of it.
LEMMA AuthOps ==
  ASSUME TypeOK, AuthInv, NEW o \in Ops, Begins(o) \/ Ends(o) \/ Moves(o)
  PROVE  AuthInv'
<1> DEFINE Still == auth' = auth /\ blind' = blind /\ deleted \subseteq deleted' /\ (overtaken => overtaken')
<1> USE DEF store, memory, task, hist, group
<1>1. CASE Begins(o) \/ Ends(o)
  <2>1. Still
    BY <1>1 DEF Begins, Ends
  <2> QED BY <2>1 DEF AuthInv
<1>2. CASE Moves(o)
  <2>1. ASSUME NEW k \in Keys, CreatePut(o, k) PROVE Still
    BY <2>1 DEF CreatePut
  <2>2. ASSUME CreateCount(o) \/ CreateAnswer(o) \/ GateTake(o) \/ GateRead(o) PROVE Still
    BY <2>2 DEF CreateCount, CreateAnswer, GateTake, GateRead
  <2>3. ASSUME UpdatePut(o) \/ RotatePut(o) PROVE Still
    BY <2>3 DEF UpdatePut, RotatePut, PutBack
  <2>4. ASSUME DeleteRow(o) PROVE Still
    BY <2>4 DEF DeleteRow
  <2>5. ASSUME GateAnswer(o) \/ DenyStore(o) \/ DenyMemory(o) PROVE Still
    BY <2>5 DEF GateAnswer, DenyStore, DenyMemory
  <2>6. ASSUME RefreshKeys(o) \/ RefreshCreds(o) \/ RefreshSwap(o) \/ ClientDrops(o) PROVE Still
    BY <2>6 DEF RefreshKeys, RefreshCreds, RefreshSwap, ClientDrops
  <2>7. Still
    BY <1>2, <2>1, <2>2, <2>3, <2>4, <2>5, <2>6 DEF Moves
  <2> QED BY <2>7 DEF AuthInv
<1> QED BY <1>1, <1>2
-----------------------------------------------------------------------------
(* Restarts, requests and windows *)

-----------------------------------------------------------------------------
(* The slots of the Idempotency-Key header *)

\* A step that leaves the slots alone, and no operation nearer to an answer.
LEMMA SlotStill ==
  ASSUME TypeOK, SlotInv,
         UNCHANGED <<idem, era, win, slow, answer, dropped>>,
         \A p \in Ops : /\ req'[p].kind = req[p].kind /\ req'[p].idem = req[p].idem
                        /\ SlotOf(p)' = SlotOf(p)
                        /\ pc'[p] \notin {"idle", "done"} => pc[p] \notin {"idle", "done"}
                        /\ pc'[p] # "done" => pc[p] # "done"
  PROVE  SlotInv'
<1>1. \A p \in Ops : (Keyed(p)' <=> Keyed(p)) /\ (Settles(p)' => Settles(p))
  BY DEF Keyed, Settles
<1>2. IdempotentAnswers'
  BY SlotType DEF SlotInv, IdempotentAnswers
<1> QED BY <1>1, <1>2 DEF SlotInv

\* An operation that lets its reservation go.
LEMMA SlotFreed ==
  ASSUME TypeOK, SlotInv, NEW o \in Ops, pc[o] \notin {"idle", "done"}, o \notin dropped,
         UNCHANGED <<era, win, slow, answer, req>>,
         idem' = Release(o), dropped \subseteq dropped',
         pc' = [pc EXCEPT ![o] = "done"] \/ (pc' = pc /\ o \in dropped')
  PROVE  SlotInv'
<1>1. \A p \in Ops : /\ SlotOf(p)' = SlotOf(p) /\ SlotOf(p) \in Slot
                     /\ SlotOf(p)[1] = req[p].idem
                     /\ Keyed(p)' <=> Keyed(p)
                     /\ Settles(p)' => Settles(p) /\ p # o
                     /\ pc'[p] # "done" => pc[p] # "done"
  BY SlotType DEF SlotOf, Keyed, Settles, TypeOK
<1>2. IdempotentAnswers'
  BY <1>1 DEF SlotInv, IdempotentAnswers
<1>3. CASE idem' = idem
  BY <1>1, <1>2, <1>3 DEF SlotInv
<1>4. CASE idem' # idem
  <2>1. /\ req[o].idem # None /\ idem' = [idem EXCEPT ![SlotOf(o)] = Free]
        /\ req[o].kind \in {"create", "rotate"}
    BY <1>1, <1>4 DEF Release, SlotInv
  <2>2. \A s \in Slot : s # SlotOf(o) => idem'[s] = idem[s]
    BY <1>1, <2>1 DEF TypeOK
  <2>3. idem'[SlotOf(o)].state = "free"
    BY <1>1, <2>1 DEF TypeOK, Free
  <2>4. ASSUME NEW p \in Ops, Keyed(p), SlotOf(p) = SlotOf(o)
        PROVE  Settles(o) /\ (Settles(p) => p = o) /\ ~ (answer[p] # None /\ win[p] = era[SlotOf(p)])
    <3>1. Settles(o)
      BY <2>1, <2>4 DEF Keyed, Settles
    <3> QED BY <3>1, <2>4 DEF SlotInv
  <2>5. ASSUME NEW s \in Slot, idem'[s].state = "pending"
        PROVE  idem'[s].body = None /\ (idem'[s].aged => s \in slow')
    BY <2>2, <2>3, <2>5 DEF SlotInv
  <2>6. ASSUME NEW p \in Ops
        PROVE  /\ pc'[p] # "done" => answer'[p] = None
               /\ req'[p].kind \notin {"create", "rotate"} => req'[p].idem = None
               /\ Keyed(p)' => win'[p] <= era'[SlotOf(p)']
    BY <1>1 DEF SlotInv
  <2>7. ASSUME NEW p \in Ops, Settles(p)'
        PROVE  idem'[SlotOf(p)'].state = "pending" /\ win'[p] = era'[SlotOf(p)']
    <3>1. Settles(p) /\ p # o /\ Keyed(p)
      BY <1>1, <2>7 DEF Settles
    <3> QED BY <1>1, <2>2, <2>4, <3>1 DEF SlotInv
  <2>8. ASSUME NEW p \in Ops, Keyed(p)', answer'[p] # None, win'[p] = era'[SlotOf(p)']
        PROVE  idem'[SlotOf(p)'].state = "done" /\ idem'[SlotOf(p)'].body = answer'[p]
    BY <1>1, <2>2, <2>4, <2>8 DEF SlotInv
  <2>9. ASSUME NEW p \in Ops, NEW q \in Ops, Settles(p)', Settles(q)', SlotOf(p)' = SlotOf(q)'
        PROVE  p = q
    BY <1>1, <2>9 DEF SlotInv
  <2> QED BY <1>2, <2>5, <2>6, <2>7, <2>8, <2>9 DEF SlotInv
<1> QED BY <1>3, <1>4

\* An operation that answers, and commits its answer.
LEMMA SlotAnswered ==
  ASSUME TypeOK, SlotInv, NEW o \in Ops, pc[o] \notin {"idle", "done"}, o \notin dropped,
         NEW b \in Body, req[o].kind \in {"create", "rotate"},
         UNCHANGED <<era, win, slow, req, dropped>>,
         pc' = [pc EXCEPT ![o] = "done"],
         answer' = [answer EXCEPT ![o] = b],
         idem' = Commit(o, b)
  PROVE  SlotInv'
<1>1. \A p \in Ops : /\ SlotOf(p)' = SlotOf(p) /\ SlotOf(p) \in Slot
                     /\ SlotOf(p)[1] = req[p].idem
                     /\ Keyed(p)' <=> Keyed(p)
                     /\ Settles(p)' => Settles(p) /\ p # o
                     /\ pc'[p] # "done" => pc[p] # "done" /\ p # o
                     /\ p # o => answer'[p] = answer[p]
  BY SlotType DEF SlotOf, Keyed, Settles, TypeOK
<1>2. answer'[o] = b
  BY DEF TypeOK
<1>3. Keyed(o) => Settles(o)
  BY DEF Settles
<1>4. ASSUME NEW p \in Ops, p # o, Keyed(o), Keyed(p), SlotOf(p) = SlotOf(o)
      PROVE  ~ Settles(p) /\ ~ (answer[p] # None /\ win[p] = era[SlotOf(p)])
  BY <1>3, <1>4 DEF SlotInv
<1>5. IdempotentAnswers'
  <2> SUFFICES ASSUME NEW p \in Ops, NEW q \in Ops, answer'[p] # None, answer'[q] # None,
                      {req[p].kind, req[q].kind} \subseteq {"create", "rotate"},
                      SlotOf(p) = SlotOf(q), req[p].idem # None, SlotOf(p) \notin slow,
                      win[p] = win[q]
               PROVE  answer'[p] = answer'[q]
    BY <1>1 DEF IdempotentAnswers
  <2>1. Keyed(p) /\ Keyed(q)
    BY <1>1 DEF Keyed
  <2>2. CASE p # o /\ q # o
    BY <1>1, <2>2 DEF SlotInv, IdempotentAnswers
  <2>3. Keyed(o) => win[o] = era[SlotOf(o)]
    BY <1>3 DEF SlotInv
  <2> QED BY <1>1, <1>4, <2>1, <2>2, <2>3
<1>6. CASE idem' = idem
  <2>1. ~ Keyed(o)
    <3>1. Keyed(o) => idem' # idem
      <4> SUFFICES ASSUME Keyed(o) PROVE idem' # idem
        OBVIOUS
      <4>1. idem'[SlotOf(o)].state = "done" /\ idem[SlotOf(o)].state = "pending"
        BY <1>1, <1>3 DEF Commit, Keyed, TypeOK, SlotInv
      <4> QED BY <4>1
    <3> QED BY <1>6, <3>1
  <2> QED BY <1>1, <1>5, <1>6, <2>1 DEF SlotInv
<1>7. CASE idem' # idem
  <2> DEFINE e == [state |-> "done", body |-> b, aged |-> FALSE]
  <2>1. idem' = [idem EXCEPT ![SlotOf(o)] = e]
    BY <1>7 DEF Commit
  <2>2. e.state = "done" /\ e.body = b
    OBVIOUS
  <2> HIDE DEF e
  <2>3. \A s \in Slot : s # SlotOf(o) => idem'[s] = idem[s]
    BY <1>1, <2>1 DEF TypeOK
  <2>4. idem'[SlotOf(o)].state = "done" /\ idem'[SlotOf(o)].body = b
    BY <1>1, <2>1, <2>2 DEF TypeOK
  <2>5. ASSUME NEW p \in Ops, Keyed(p), SlotOf(p) = SlotOf(o)
        PROVE  Keyed(o)
    <3>1. req[o].idem # None /\ SlotOf(o) \notin slow
      BY <1>1, <2>5 DEF Keyed
    <3> QED BY <3>1 DEF Keyed
  <2>6. ASSUME NEW s \in Slot, idem'[s].state = "pending"
        PROVE  idem'[s].body = None /\ (idem'[s].aged => s \in slow')
    BY <2>3, <2>4, <2>6 DEF SlotInv
  <2>7. ASSUME NEW p \in Ops
        PROVE  /\ pc'[p] # "done" => answer'[p] = None
               /\ req'[p].kind \notin {"create", "rotate"} => req'[p].idem = None
               /\ Keyed(p)' => win'[p] <= era'[SlotOf(p)']
    BY <1>1 DEF SlotInv
  <2>8. ASSUME NEW p \in Ops, Settles(p)'
        PROVE  idem'[SlotOf(p)'].state = "pending" /\ win'[p] = era'[SlotOf(p)']
    <3>1. Settles(p) /\ p # o /\ Keyed(p)
      BY <1>1, <2>8 DEF Settles
    <3> QED BY <1>1, <1>4, <2>3, <2>5, <3>1 DEF SlotInv
  <2>9. ASSUME NEW p \in Ops, Keyed(p)', answer'[p] # None, win'[p] = era'[SlotOf(p)']
        PROVE  idem'[SlotOf(p)'].state = "done" /\ idem'[SlotOf(p)'].body = answer'[p]
    <3>1. CASE p = o
      BY <1>1, <1>2, <2>4, <3>1
    <3>2. CASE p # o
      BY <1>1, <1>4, <2>3, <2>5, <2>9, <3>2 DEF SlotInv
    <3> QED BY <3>1, <3>2
  <2>10. ASSUME NEW p \in Ops, NEW q \in Ops, Settles(p)', Settles(q)', SlotOf(p)' = SlotOf(q)'
         PROVE  p = q
    BY <1>1, <2>10 DEF SlotInv
  <2> QED BY <1>5, <2>6, <2>7, <2>8, <2>9, <2>10 DEF SlotInv
<1> QED BY <1>6, <1>7

\* A use of the cache sweeps it: the windows that have passed begin anew, and no
\* operation is to settle a slot whose window passed.
LEMMA SlotSwept ==
  ASSUME TypeOK, SlotInv, Sweep, NEW p \in Ops, Keyed(p)
  PROVE  /\ SlotOf(p) \in Slot
         /\ win[p] <= era'[SlotOf(p)]
         /\ Settles(p) => /\ Swept[SlotOf(p)] = idem[SlotOf(p)] /\ ~ idem[SlotOf(p)].aged
                          /\ era'[SlotOf(p)] = era[SlotOf(p)]
         /\ win[p] = era'[SlotOf(p)] => /\ Swept[SlotOf(p)] = idem[SlotOf(p)]
                                        /\ era'[SlotOf(p)] = era[SlotOf(p)]
<1>1. SlotOf(p) \in Slot
  BY SlotType
<1>2. win[p] <= era[SlotOf(p)] /\ win[p] \in Nat /\ era[SlotOf(p)] \in Nat
  BY <1>1 DEF SlotInv, TypeOK
<1>3. era'[SlotOf(p)] = IF idem[SlotOf(p)].aged THEN era[SlotOf(p)] + 1 ELSE era[SlotOf(p)]
  BY <1>1 DEF Sweep
<1>4. ~ idem[SlotOf(p)].aged => Swept[SlotOf(p)] = idem[SlotOf(p)]
  BY <1>1 DEF Swept
<1>5. Settles(p) => ~ idem[SlotOf(p)].aged
  BY <1>1 DEF SlotInv, Keyed
<1> QED BY <1>1, <1>2, <1>3, <1>4, <1>5

\* A swept slot has not passed its window.
LEMMA SweptFresh ==
  ASSUME TypeOK, SlotInv, NEW s \in Slot, Swept[s].state # "free"
  PROVE  Swept[s] = idem[s] /\ ~ idem[s].aged
BY DEF Swept, Free

\* An operation begins: a replay answers what the window's operation answered,
\* and a reservation finds no operation that is to settle the slot.
LEMMA SlotBegun ==
  ASSUME TypeOK, SlotInv, NEW o \in Ops, NEW r \in Request, NEW s \in Slot,
         NEW next \in {"reserved", "queued"},
         s = <<r.idem, IF r.kind = "rotate" THEN r.key ELSE None>>,
         r.kind \notin {"create", "rotate"} => r.idem = None,
         pc[o] = "idle",
         Replay(o, r, s) \/ Reserve(o, r, s, next),
         UNCHANGED <<slow, dropped>>
  PROVE  SlotInv'
<1>1. /\ req' = [req EXCEPT ![o] = r] /\ win' = [win EXCEPT ![o] = era'[s]]
      /\ \E x \in {"done", "reserved", "queued"} : pc' = [pc EXCEPT ![o] = x]
  BY DEF Replay, Reserve
<1>2. SlotOf(o)' = s /\ SlotOf(o)'[1] = r.idem /\ win'[o] = era'[s] /\ req'[o] = r
  BY <1>1 DEF SlotOf, TypeOK
<1>3. ASSUME NEW p \in Ops, p # o
      PROVE  /\ SlotOf(p)' = SlotOf(p) /\ SlotOf(p) \in Slot /\ SlotOf(p)[1] = req[p].idem
             /\ Keyed(p)' <=> Keyed(p)
             /\ Settles(p)' <=> Settles(p)
             /\ pc'[p] = pc[p] /\ win'[p] = win[p] /\ req'[p] = req[p]
  BY <1>1, <1>3, SlotType DEF SlotOf, Keyed, Settles, TypeOK
<1>4. ASSUME NEW p \in Ops, Keyed(p) PROVE s[1] = None => SlotOf(p) # s
  BY <1>4, SlotType DEF Keyed
<1>5. req'[o].kind \notin {"create", "rotate"} => req'[o].idem = None
  BY <1>2
<1>6. CASE Replay(o, r, s)
  <2>1. /\ Swept[s].state # "free" /\ answer' = [answer EXCEPT ![o] = Swept[s].body]
        /\ pc' = [pc EXCEPT ![o] = "done"] /\ idem' = Swept /\ Sweep
    BY <1>6 DEF Replay
  <2>2. Swept[s] = idem[s] /\ ~ idem[s].aged /\ era'[s] = era[s]
    BY <2>1, SweptFresh DEF Sweep
  <2>3. ASSUME NEW t \in Slot, idem'[t].state = "pending"
        PROVE  idem'[t].body = None /\ (idem'[t].aged => t \in slow')
    <3>1. idem'[t] = idem[t]
      BY <2>1, <2>3, SweptFresh
    <3> QED BY <2>3, <3>1 DEF SlotInv
  <2>4. pc'[o] = "done" /\ answer'[o] = idem[s].body /\ ~ Settles(o)'
    BY <2>1, <2>2 DEF TypeOK, Settles
  <2>5. answer'[o] # None => idem[s].state = "done"
    BY <2>1, <2>2, <2>4 DEF SlotInv, TypeOK, Entry
  <2>6. \A p \in Ops : p # o => answer'[p] = answer[p]
    BY <2>1 DEF TypeOK
  <2>7. ASSUME NEW p \in Ops, p # o
        PROVE  /\ Keyed(p)' => win'[p] <= era'[SlotOf(p)']
               /\ Settles(p)' => idem'[SlotOf(p)'].state = "pending" /\ win'[p] = era'[SlotOf(p)']
               /\ Keyed(p)' /\ answer'[p] # None /\ win'[p] = era'[SlotOf(p)'] =>
                    idem'[SlotOf(p)'].state = "done" /\ idem'[SlotOf(p)'].body = answer'[p]
    <3> SUFFICES ASSUME Keyed(p)
                 PROVE  /\ win[p] <= era'[SlotOf(p)]
                        /\ Settles(p) => Swept[SlotOf(p)].state = "pending" /\ win[p] = era'[SlotOf(p)]
                        /\ answer[p] # None /\ win[p] = era'[SlotOf(p)] =>
                             Swept[SlotOf(p)].state = "done" /\ Swept[SlotOf(p)].body = answer[p]
      BY <1>3, <2>1, <2>6, <2>7 DEF Settles
    <3> QED BY <2>1, SlotSwept DEF SlotInv
  <2>8. /\ win'[o] <= era'[SlotOf(o)']
        /\ answer'[o] # None => idem'[SlotOf(o)'].state = "done" /\ idem'[SlotOf(o)'].body = answer'[o]
    <3>1. era'[s] \in Nat
      BY <2>2 DEF TypeOK
    <3> QED BY <1>2, <2>1, <2>2, <2>4, <2>5, <3>1
  <2>9. IdempotentAnswers'
    <3>1. ASSUME NEW p \in Ops, p # o, answer[p] # None, answer'[o] # None, Keyed(p),
                 SlotOf(p) = s, win[p] = win'[o]
          PROVE  answer[p] = answer'[o]
      BY <1>2, <2>2, <2>4, <3>1 DEF SlotInv
    <3> SUFFICES ASSUME NEW p \in Ops, NEW q \in Ops, answer'[p] # None, answer'[q] # None,
                        {req'[p].kind, req'[q].kind} \subseteq {"create", "rotate"},
                        SlotOf(p)' = SlotOf(q)', SlotOf(p)'[1] # None, SlotOf(p)' \notin slow,
                        win'[p] = win'[q]
                 PROVE  answer'[p] = answer'[q]
      BY DEF IdempotentAnswers
    <3>2. CASE p # o /\ q # o
      BY <1>3, <2>6, <3>2 DEF SlotInv, IdempotentAnswers
    <3>3. CASE p = o /\ q # o
      BY <1>2, <1>3, <2>6, <3>1, <3>3 DEF Keyed
    <3>4. CASE p # o /\ q = o
      BY <1>2, <1>3, <2>6, <3>1, <3>4 DEF Keyed
    <3> QED BY <3>2, <3>3, <3>4
  <2>10. \A p \in Ops : /\ pc'[p] # "done" => answer'[p] = None
                        /\ req'[p].kind \notin {"create", "rotate"} => req'[p].idem = None
    BY <1>3, <1>5, <2>4, <2>6 DEF SlotInv
  <2>11. \A p, q \in Ops : Settles(p)' /\ Settles(q)' /\ SlotOf(p)' = SlotOf(q)' => p = q
    BY <1>3, <2>4 DEF SlotInv
  <2> QED BY <2>3, <2>4, <2>7, <2>8, <2>9, <2>10, <2>11 DEF SlotInv
<1>7. CASE Reserve(o, r, s, next)
  <2>1. /\ Swept[s].state = "free" /\ UNCHANGED answer /\ pc' = [pc EXCEPT ![o] = next]
    BY <1>7 DEF Reserve
  <2>2. answer'[o] = None /\ answer[o] = None
    BY <2>1 DEF SlotInv
  <2>3. IdempotentAnswers'
    BY <1>3, <2>1, <2>2 DEF SlotInv, IdempotentAnswers
  <2>4. \A p \in Ops : /\ pc'[p] # "done" => answer'[p] = None
                       /\ req'[p].kind \notin {"create", "rotate"} => req'[p].idem = None
    BY <1>3, <1>5, <2>1, <2>2 DEF SlotInv
  <2>5. CASE s[1] = None
    <3>1. UNCHANGED <<idem, era>>
      BY <1>7, <2>5 DEF Reserve
    <3>2. ~ Keyed(o)' /\ ~ Settles(o)'
      BY <1>2, <2>5 DEF Keyed, Settles
    <3>3. \A p \in Ops : Keyed(p)' => p # o /\ Keyed(p) /\ SlotOf(p)' = SlotOf(p)
      BY <1>3, <3>2
    <3>4. \A p \in Ops : Settles(p)' => p # o /\ Settles(p) /\ SlotOf(p)' = SlotOf(p)
      BY <1>3, <3>2
    <3> QED BY <1>3, <2>1, <2>3, <2>4, <3>1, <3>3, <3>4 DEF SlotInv
  <2>6. CASE s[1] # None
    <3> DEFINE e == [state |-> "pending", body |-> None, aged |-> FALSE]
    <3>1. idem' = [Swept EXCEPT ![s] = e] /\ Sweep
      BY <1>7, <2>6 DEF Reserve
    <3>2. e.state = "pending" /\ e.body = None /\ ~ e.aged
      BY Zenon
    <3> HIDE DEF e
    <3>3. idem'[s] = e /\ \A t \in Slot : t # s => idem'[t] = Swept[t]
      BY <3>1 DEF Swept
    <3>4. ASSUME NEW t \in Slot, idem'[t].state = "pending"
          PROVE  idem'[t].body = None /\ (idem'[t].aged => t \in slow')
      <4>1. CASE t = s
        BY <3>2, <3>3, <4>1
      <4>2. CASE t # s
        <5>1. idem'[t] = idem[t]
          BY <3>3, <3>4, <4>2, SweptFresh
        <5> QED BY <3>4, <5>1 DEF SlotInv
      <4> QED BY <4>1, <4>2
    <3>5. ASSUME NEW p \in Ops, Keyed(p), SlotOf(p) = s
          PROVE  ~ Settles(p) /\ (answer[p] # None => win[p] # era'[s])
      BY <2>1, <3>1, <3>5, SlotSwept DEF SlotInv
    <3>6. ASSUME NEW p \in Ops, p # o
          PROVE  /\ Keyed(p)' => win'[p] <= era'[SlotOf(p)']
                 /\ Settles(p)' => /\ idem'[SlotOf(p)'].state = "pending" /\ SlotOf(p)' # s
                                   /\ win'[p] = era'[SlotOf(p)']
                 /\ Keyed(p)' /\ answer'[p] # None /\ win'[p] = era'[SlotOf(p)'] =>
                      idem'[SlotOf(p)'].state = "done" /\ idem'[SlotOf(p)'].body = answer'[p]
      <4> SUFFICES ASSUME Keyed(p)
                   PROVE  /\ win[p] <= era'[SlotOf(p)]
                          /\ Settles(p) => /\ idem'[SlotOf(p)].state = "pending" /\ SlotOf(p) # s
                                           /\ win[p] = era'[SlotOf(p)]
                          /\ answer[p] # None /\ win[p] = era'[SlotOf(p)] =>
                               idem'[SlotOf(p)].state = "done" /\ idem'[SlotOf(p)].body = answer[p]
        BY <1>3, <2>1, <3>6 DEF Settles
      <4>1. SlotOf(p) # s => idem'[SlotOf(p)] = Swept[SlotOf(p)]
        BY <3>1, <3>3, SlotSwept
      <4> QED BY <3>1, <3>5, <4>1, SlotSwept DEF SlotInv
    <3>7. win'[o] <= era'[SlotOf(o)'] /\ idem'[SlotOf(o)'].state = "pending"
      <4>1. era'[s] \in Nat
        BY <3>1 DEF Sweep, TypeOK
      <4> QED BY <1>2, <3>2, <3>3, <4>1
    <3>8. \A p, q \in Ops : Settles(p)' /\ Settles(q)' /\ SlotOf(p)' = SlotOf(q)' => p = q
      BY <1>2, <1>3, <3>6 DEF SlotInv
    <3> QED BY <1>2, <2>2, <2>3, <2>4, <3>4, <3>6, <3>7, <3>8 DEF SlotInv
  <2> QED BY <2>5, <2>6
<1> QED BY <1>6, <1>7

\* A handler that ends without its answer, and a client that goes.
LEMMA SlotEnds ==
  ASSUME TypeOK, SlotInv, NEW o \in Ops, pc[o] \notin {"idle", "done"}, End(o),
         UNCHANGED <<era, win, slow, answer, req, dropped>>
  PROVE  SlotInv'
<1>1. CASE o \in dropped
  <2>1. idem' = idem /\ pc' = [pc EXCEPT ![o] = "done"]
    BY <1>1 DEF End
  <2> QED BY <2>1, SlotStill DEF SlotOf, TypeOK
<1>2. CASE o \notin dropped
  BY <1>2, SlotFreed DEF End
<1> QED BY <1>1, <1>2

\* The slots, when an operation takes a step after its start.
LEMMA SlotMoves ==
  ASSUME TypeOK, PhaseInv, RowInv, SlotInv, NEW o \in Ops,
         \/ CreateInvalid(o) \/ CreateCount(o) \/ CreateAnswer(o)
         \/ \E k \in Keys : CreatePut(o, k) \/ RevokeBegin(o, k)
         \/ GateTake(o) \/ GateRead(o) \/ UpdatePut(o) \/ RotatePut(o) \/ GateAnswer(o)
         \/ DenyStore(o) \/ DenyMemory(o) \/ DeleteRow(o)
         \/ RefreshKeys(o) \/ RefreshCreds(o) \/ RefreshSwap(o)
         \/ StoreError(o) \/ ClientDrops(o)
  PROVE  SlotInv'
<1> USE DEF store, memory, task, hist, group
<1>1. CASE CreateInvalid(o) \/ StoreError(o)
  BY <1>1, SlotEnds DEF CreateInvalid, StoreError, AtStore
<1>2. CASE CreateCount(o)
  <2>1. CASE End(o)
    BY <1>2, <2>1, SlotEnds DEF CreateCount
  <2>2. CASE pc' = [pc EXCEPT ![o] = "counted"] /\ UNCHANGED idem
    BY <1>2, <2>2, SlotStill DEF CreateCount, SlotOf, TypeOK
  <2> QED BY <1>2, <2>1, <2>2 DEF CreateCount
<1>3. CASE GateRead(o)
  <2>1. CASE End(o)
    BY <1>3, <2>1, SlotEnds DEF GateRead
  <2>2. CASE pc' = [pc EXCEPT ![o] = "read"] /\ UNCHANGED idem
    BY <1>3, <2>2, SlotStill DEF GateRead, SlotOf, TypeOK
  <2> QED BY <1>3, <2>1, <2>2 DEF GateRead
<1>4. CASE CreateAnswer(o)
  <2>1. CASE o \in dropped
    BY <1>4, <2>1, SlotStill DEF CreateAnswer, SlotOf, TypeOK
  <2>2. CASE o \notin dropped
    <3>1. req[o].key \in Body
      BY <1>4 DEF CreateAnswer, PhaseInv, Body
    <3> QED BY <1>4, <2>2, <3>1, SlotAnswered DEF CreateAnswer
  <2> QED BY <2>1, <2>2
<1>5. CASE GateAnswer(o)
  <2>1. CASE o \in dropped \/ req[o].kind # "rotate"
    <3>1. UNCHANGED <<idem, answer>>
      BY <1>5, <2>1 DEF GateAnswer, TypeOK
    <3> QED BY <1>5, <3>1, SlotStill DEF GateAnswer, SlotOf, TypeOK
  <2>2. CASE o \notin dropped /\ req[o].kind = "rotate"
    <3>1. read[o].hash \in Body
      BY <1>5, <2>2, RotateBody DEF GateAnswer
    <3> QED BY <1>5, <2>2, <3>1, SlotAnswered DEF GateAnswer
  <2> QED BY <2>1, <2>2
<1>6. ASSUME NEW k \in Keys, CreatePut(o, k) PROVE SlotInv'
  <2>1. req' = [req EXCEPT ![o].key = k] /\ pc' = [pc EXCEPT ![o] = "put"] /\ pc[o] = "counted"
    BY <1>6 DEF CreatePut
  <2>2. req[o].kind = "create"
    BY <2>1 DEF PhaseInv, Phases, After, TypeOK, Request
  <2>3. \A p \in Ops : /\ req'[p].kind = req[p].kind /\ req'[p].idem = req[p].idem
                       /\ p # o => req'[p].key = req[p].key
    BY <2>1 DEF TypeOK, Request
  <2>4. \A p \in Ops : SlotOf(p)' = SlotOf(p)
    BY <2>2, <2>3 DEF SlotOf
  <2> QED BY <1>6, <2>1, <2>3, <2>4, SlotStill DEF CreatePut, TypeOK
<1>7. ASSUME NEW k \in Keys, RevokeBegin(o, k) PROVE SlotInv'
  <2> DEFINE r == [Idle EXCEPT !.kind = "revoke", !.key = k]
             x == IF rows[k] = None THEN "done" ELSE "denying"
  <2>1. r.kind = "revoke" /\ r.idem = None
    BY IdleType DEF Request
  <2>2. /\ pc[o] = "idle" /\ req' = [req EXCEPT ![o] = r] /\ pc' = [pc EXCEPT ![o] = x]
        /\ UNCHANGED <<idem, era, win, slow, answer, dropped>>
    BY <1>7 DEF RevokeBegin
  <2> HIDE DEF r, x
  <2>3. ~ Keyed(o)' /\ ~ Settles(o)' /\ answer[o] = None
    BY <2>1, <2>2 DEF Keyed, Settles, TypeOK, SlotInv
  <2>4. \A p \in Ops : p # o => /\ SlotOf(p)' = SlotOf(p) /\ (Keyed(p)' <=> Keyed(p))
                                /\ (Settles(p)' <=> Settles(p))
                                /\ pc'[p] = pc[p] /\ req'[p] = req[p]
    BY <2>2 DEF SlotOf, Keyed, Settles, TypeOK
  <2>5. IdempotentAnswers'
    BY <2>2, <2>3, <2>4 DEF SlotInv, IdempotentAnswers
  <2>6. req'[o].kind = "revoke" /\ req'[o].idem = None
    BY <2>1, <2>2 DEF TypeOK
  <2> QED BY <2>2, <2>3, <2>4, <2>5, <2>6 DEF SlotInv
<1>8. CASE ClientDrops(o)
  <2>1. /\ pc[o] \notin {"idle", "done"} /\ o \notin dropped /\ dropped' = dropped \cup {o}
        /\ idem' = Release(o) /\ UNCHANGED <<era, win, slow, answer, req>>
        /\ pc' = [pc EXCEPT ![o] = "done"] \/ pc' = pc
    BY <1>8 DEF ClientDrops
  <2> QED BY <2>1, SlotFreed
<1>9. CASE \/ GateTake(o) \/ UpdatePut(o) \/ RotatePut(o) \/ DenyStore(o) \/ DeleteRow(o)
           \/ RefreshKeys(o) \/ RefreshCreds(o) \/ RefreshSwap(o) \/ DenyMemory(o)
  <2>1. /\ UNCHANGED <<idem, era, win, slow, answer, dropped, req>>
        /\ \E x \in Stages : pc' = [pc EXCEPT ![o] = x]
        /\ pc[o] \notin {"idle", "done"}
    BY <1>9 DEF GateTake, UpdatePut, RotatePut, PutBack, DenyStore, DeleteRow, RefreshKeys,
                RefreshCreds, RefreshSwap, DenyMemory, Stages, After
  <2> QED BY <2>1, SlotStill DEF SlotOf, TypeOK
<1> QED BY <1>1, <1>2, <1>3, <1>4, <1>5, <1>6, <1>7, <1>8, <1>9

\* The slots, when an operation begins.
LEMMA SlotBegins ==
  ASSUME TypeOK, SlotInv, NEW o \in Ops,
         \/ \E i \in IdemKeys \cup {None}, m \in Mint : CreateBegin(o, i, m)
         \/ \E kind \in GateKinds, k \in Keys, i \in IdemKeys \cup {None}, p \in Patch,
               t \in ETag \cup {None} :
              GateBegin(o, kind, k, i, p, t) /\ (kind # "rotate" => i = None)
  PROVE  SlotInv'
<1>1. ASSUME NEW i \in IdemKeys \cup {None}, NEW m \in Mint, CreateBegin(o, i, m)
      PROVE  SlotInv'
  <2> DEFINE r == [Idle EXCEPT !.kind = "create", !.idem = i, !.mint = m]
             s == <<i, None>>
  <2>1. r \in Request /\ r.kind = "create" /\ r.idem = i
    BY CreateRequest
  <2>2. s \in Slot /\ s = <<i, None>>
    BY DEF Slot
  <2>3. /\ pc[o] = "idle" /\ (Replay(o, r, s) \/ Reserve(o, r, s, "reserved"))
        /\ UNCHANGED <<slow, dropped>>
    BY <1>1 DEF CreateBegin
  <2> HIDE DEF r, s
  <2> QED BY <2>1, <2>2, <2>3, SlotBegun
<1>2. ASSUME NEW kind \in GateKinds, NEW k \in Keys, NEW i \in IdemKeys \cup {None},
             NEW p \in Patch, NEW t \in ETag \cup {None}, GateBegin(o, kind, k, i, p, t),
             kind # "rotate" => i = None
      PROVE  SlotInv'
  <2> DEFINE r == [Idle EXCEPT !.kind = kind, !.key = k, !.idem = i, !.patch = p, !.tag = t]
             s == IF kind = "rotate" THEN <<i, k>> ELSE <<None, None>>
  <2>1. r \in Request /\ r.kind = kind /\ r.idem = i /\ r.key = k
    BY IdleType DEF Request, GateKinds
  <2>2. s \in Slot /\ s = <<i, IF kind = "rotate" THEN k ELSE None>>
    BY <1>2 DEF Slot
  <2>3. /\ pc[o] = "idle" /\ (Replay(o, r, s) \/ Reserve(o, r, s, "queued"))
        /\ UNCHANGED <<slow, dropped>>
    BY <1>2 DEF GateBegin
  <2>4. r.kind \notin {"create", "rotate"} => r.idem = None
    BY <1>2, <2>1
  <2> HIDE DEF r, s
  <2> QED BY <2>1, <2>2, <2>3, <2>4, SlotBegun
<1> QED BY <1>1, <1>2

\* The slots, when an entry passes its window.
LEMMA SlotAges ==
  ASSUME TypeOK, SlotInv, NEW s \in Slot, IdemAges(s)
  PROVE  SlotInv'
<1>1. /\ idem' = [idem EXCEPT ![s].aged = TRUE]
      /\ slow' = IF idem[s].state = "pending" THEN slow \cup {s} ELSE slow
      /\ UNCHANGED <<era, win, answer, dropped, req, pc>>
  BY DEF IdemAges, task
<1>2. \A t \in Slot : idem'[t].state = idem[t].state /\ idem'[t].body = idem[t].body
  BY <1>1 DEF TypeOK, Entry
<1>3. \A t \in Slot : t # s => idem'[t] = idem[t]
  BY <1>1 DEF TypeOK
<1>4. \A p \in Ops : /\ SlotOf(p)' = SlotOf(p) /\ SlotOf(p) \in Slot
                     /\ Keyed(p)' => Keyed(p)
                     /\ Settles(p)' => Settles(p)
  BY <1>1, SlotType DEF SlotOf, Keyed, Settles
<1>5. IdempotentAnswers'
  BY <1>1, <1>4 DEF SlotInv, IdempotentAnswers
<1>6. ASSUME NEW t \in Slot, idem'[t].state = "pending"
      PROVE  idem'[t].body = None /\ (idem'[t].aged => t \in slow')
  BY <1>1, <1>2, <1>3, <1>6 DEF SlotInv
<1> QED BY <1>1, <1>2, <1>4, <1>5, <1>6 DEF SlotInv

\* A restart empties the slots and begins every window anew.
LEMMA SlotRestarts ==
  ASSUME TypeOK, SlotInv, NEW failed \in BOOLEAN, Restart(failed)
  PROVE  SlotInv'
<1>1. /\ idem' = [s \in Slot |-> Free] /\ era' = [s \in Slot |-> era[s] + 1]
      /\ pc' = [o \in Ops |-> IF pc[o] = "idle" THEN "idle" ELSE "done"]
      /\ UNCHANGED <<win, answer, dropped, req, slow>>
  BY DEF Restart
<1>2. \A s \in Slot : idem'[s].state = "free"
  BY <1>1 DEF Free
<1>3. ASSUME NEW p \in Ops
      PROVE  /\ SlotOf(p)' = SlotOf(p) /\ (Keyed(p)' <=> Keyed(p)) /\ ~ Settles(p)'
             /\ pc'[p] # "done" => pc[p] # "done"
             /\ Keyed(p) => win[p] < era'[SlotOf(p)]
  <2>1. SlotOf(p)' = SlotOf(p) /\ (Keyed(p)' <=> Keyed(p)) /\ ~ Settles(p)'
    BY <1>1 DEF SlotOf, Keyed, Settles
  <2>2. Keyed(p) => win[p] < era'[SlotOf(p)]
    <3>1. SlotOf(p) \in Slot /\ era[SlotOf(p)] \in Nat /\ win[p] \in Nat
      BY SlotType DEF TypeOK
    <3>2. Keyed(p) => win[p] <= era[SlotOf(p)]
      BY DEF SlotInv
    <3> QED BY <1>1, <3>1, <3>2
  <2>3. pc'[p] # "done" => pc[p] # "done"
    BY <1>1
  <2> QED BY <2>1, <2>2, <2>3
<1>4. IdempotentAnswers'
  <2>1. UNCHANGED <<answer, req, win, slow>> /\ \A p \in Ops : SlotOf(p)' = SlotOf(p)
    BY <1>1, <1>3
  <2> QED BY <2>1 DEF SlotInv, IdempotentAnswers
<1>5. \A p \in Ops : Keyed(p)' => win'[p] <= era'[SlotOf(p)'] /\ win'[p] # era'[SlotOf(p)']
  <2> SUFFICES ASSUME NEW p \in Ops, Keyed(p)
               PROVE  win[p] <= era'[SlotOf(p)] /\ win[p] # era'[SlotOf(p)]
    BY <1>1, <1>3
  <2>1. SlotOf(p) \in Slot /\ era'[SlotOf(p)] \in Nat /\ win[p] \in Nat
    BY <1>1, SlotType DEF TypeOK
  <2> QED BY <1>3, <2>1
<1> QED BY <1>1, <1>2, <1>3, <1>4, <1>5 DEF SlotInv

-----------------------------------------------------------------------------
(* The cap on keys *)

\* A step under which no key of the group is counted anew, and no mint.
LEMMA CapStill ==
  ASSUME CapInv, Counted' \subseteq Counted, crowded \subseteq crowded',
         \A p \in Ops : pc'[p] = "counted" => pc[p] = "counted" /\ req'[p] = req[p]
  PROVE  CapInv'
<1>1. IsFiniteSet(Counted) /\ Cardinality(Counted) \in Nat
  <2>1. Counted \in SUBSET Keys
    BY DEF Counted, Members, Bound
  <2> QED BY <2>1, FS_Subset, FS_CardinalityType, CredentialsAssumption
<1>2. Cardinality(Counted') <= Cardinality(Counted) /\ Cardinality(Counted') \in Nat
  BY <1>1, FS_Subset, FS_CardinalityType
<1>3. Cardinality(Counted) <= Cap
  BY DEF CapInv, CapHolds, Counted
<1>4. CapHolds'
  BY <1>1, <1>2, <1>3, CredentialsAssumption DEF CapHolds, Counted
<1>5. ASSUME NEW p \in Ops, pc'[p] = "counted", req'[p].mint.group, p \notin crowded'
      PROVE  Cardinality(Counted') < Cap
  <2>1. Cardinality(Counted) < Cap
    BY <1>5 DEF CapInv
  <2> HIDE DEF Counted
  <2> QED BY <1>1, <1>2, <2>1, CredentialsAssumption
<1> QED BY <1>4, <1>5 DEF CapInv

\* A mint is counted: there is room for it.
LEMMA CapCounted ==
  ASSUME TypeOK, CapInv, NEW o \in Ops, CreateCount(o), pc' = [pc EXCEPT ![o] = "counted"]
  PROVE  CapInv'
<1>1. /\ UNCHANGED <<rows, req, crowded, uncounted>>
      /\ ~ (req[o].mint.group /\ Cardinality(Members) >= Cap)
  BY DEF CreateCount, End, TypeOK, store, hist, group
<1>2. Counted' = Counted
  BY <1>1 DEF Counted, Members, Bound
<1>3. IsFiniteSet(Members) /\ Cardinality(Members) \in Nat
  <2>1. Members \in SUBSET Keys
    BY DEF Members, Bound
  <2> QED BY <2>1, FS_Subset, FS_CardinalityType, CredentialsAssumption
<1>4. Cardinality(Counted) <= Cardinality(Members) /\ Cardinality(Counted) \in Nat
  BY <1>3, FS_Subset, FS_CardinalityType DEF Counted
<1>5. req[o].mint.group => Cardinality(Counted) < Cap
  BY <1>1, <1>3, <1>4, CredentialsAssumption
<1>6. CapHolds'
  <2>1. Cardinality(Counted) <= Cap
    BY DEF CapInv, CapHolds, Counted
  <2> QED BY <1>2, <2>1 DEF CapHolds, Counted
<1>7. \A p \in Ops : pc'[p] = "counted" => p = o \/ pc[p] = "counted"
  BY DEF TypeOK
<1> QED BY <1>1, <1>2, <1>5, <1>6, <1>7 DEF CapInv

\* A mint writes its row: it had room, or another one overtook it.
LEMMA CapMinted ==
  ASSUME TypeOK, CapInv, NEW o \in Ops, NEW k \in Keys, CreatePut(o, k)
  PROVE  CapInv'
<1> DEFINE g == req[o].mint.group
<1>1. /\ pc[o] = "counted" /\ pc' = [pc EXCEPT ![o] = "put"]
      /\ rows' = [rows EXCEPT ![k] = NewRow(g)]
      /\ crowded' = (crowded \cup {p \in Ops : pc[p] = "counted"}) \ {o}
      /\ uncounted' = IF o \in crowded THEN uncounted \cup {k} ELSE uncounted
  BY DEF CreatePut
<1>2. g \in BOOLEAN
  BY DEF TypeOK, Request, Mint
<1>3. NewRow(g) \in Row /\ NewRow(g).group = g
  BY <1>2, RowTypes
<1> HIDE DEF g
<1>4. Members' \subseteq Members \cup {k} /\ (k \in Members' => g)
  BY <1>1, <1>3 DEF Members, Bound, TypeOK, Rows
<1>5. \A p \in Ops : pc'[p] = "counted" => p \in crowded'
  BY <1>1 DEF TypeOK
<1>6. IsFiniteSet(Counted) /\ Cardinality(Counted) \in Nat /\ Cardinality(Counted) <= Cap
  <2>1. Counted \in SUBSET Keys
    BY DEF Counted, Members, Bound
  <2>2. Cardinality(Counted) <= Cap
    BY DEF CapInv, CapHolds, Counted
  <2> QED BY <2>1, <2>2, FS_Subset, FS_CardinalityType, CredentialsAssumption
<1>7. CASE Counted' \subseteq Counted
  <2>1. Cardinality(Counted') <= Cardinality(Counted) /\ Cardinality(Counted') \in Nat
    BY <1>6, <1>7, FS_Subset, FS_CardinalityType
  <2>2. Cardinality(Counted') <= Cap
    BY <1>6, <2>1, CredentialsAssumption
  <2> QED BY <1>5, <2>2 DEF CapInv, CapHolds, Counted
<1>8. CASE ~ (Counted' \subseteq Counted)
  <2>1. o \notin crowded /\ g /\ Counted' \subseteq Counted \cup {k}
    BY <1>1, <1>4, <1>8 DEF Counted
  <2>2. Cardinality(Counted) < Cap
    BY <1>1, <2>1 DEF CapInv, g
  <2>3. /\ IsFiniteSet(Counted \cup {k}) /\ Cardinality(Counted \cup {k}) \in Nat
        /\ Cardinality(Counted \cup {k}) <= Cardinality(Counted) + 1
    <3>1. CASE k \in Counted
      <4>1. Counted \cup {k} = Counted
        BY <3>1
      <4> QED BY <1>6, <4>1
    <3>2. CASE k \notin Counted
      <4> DEFINE C == Counted
      <4>1. IsFiniteSet(C) /\ k \notin C /\ Cardinality(C) \in Nat
        BY <1>6, <3>2
      <4> HIDE DEF C
      <4>2. IsFiniteSet(C \cup {k}) /\ Cardinality(C \cup {k}) = Cardinality(C) + 1
        BY <4>1, FS_AddElement
      <4> QED BY <4>1, <4>2 DEF C
    <3> QED BY <3>1, <3>2
  <2>4. Cardinality(Counted') <= Cardinality(Counted \cup {k}) /\ Cardinality(Counted') \in Nat
    BY <2>1, <2>3, FS_Subset, FS_CardinalityType
  <2>5. Cardinality(Counted') <= Cap
    BY <1>6, <2>2, <2>3, <2>4, CredentialsAssumption
  <2> QED BY <1>5, <2>5 DEF CapInv, CapHolds, Counted
<1> QED BY <1>7, <1>8

\* The keys of the group, when an operation takes a step.
LEMMA CapOps ==
  ASSUME TypeOK, PhaseInv, RowInv, CapInv, NEW o \in Ops,
         Begins(o) \/ Moves(o) \/ Ends(o)
  PROVE  CapInv'
<1> USE DEF store, memory, task, hist, group
<1>1. CASE Begins(o) \/ Ends(o)
  <2>1. /\ UNCHANGED <<rows, crowded, uncounted>>
        /\ \A p \in Ops : pc'[p] = "counted" => pc[p] = "counted" /\ req'[p] = req[p]
    BY <1>1 DEF Begins, Ends, TypeOK
  <2>2. Counted' = Counted
    BY <2>1 DEF Counted, Members, Bound
  <2> QED BY <2>1, <2>2, CapStill
<1>2. CASE CreateCount(o) /\ pc' = [pc EXCEPT ![o] = "counted"]
  BY <1>2, CapCounted
<1>3. CASE \E k \in Keys : CreatePut(o, k)
  BY <1>3, CapMinted
<1>4. ASSUME NEW row, o \in Writing, PutBack(o, row), uncounted \subseteq uncounted',
             row.group /\ ~ read[o].group => req[o].key \in uncounted'
      PROVE  CapInv'
  <2>1. /\ req[o].key \in Keys /\ rows[req[o].key] = read[o] /\ read[o] # None
        /\ rows' = [rows EXCEPT ![req[o].key] = row]
    BY <1>4, WriterHolds DEF RowInv, ReadIsCurrent, PutBack
  <2>2. Counted' \subseteq Counted
    BY <1>4, <2>1 DEF Counted, Members, Bound, TypeOK, Rows
  <2>3. pc' = [pc EXCEPT ![o] = "put"] /\ UNCHANGED <<req, crowded>>
    BY <1>4 DEF PutBack
  <2> QED BY <2>2, <2>3, CapStill DEF TypeOK
<1>5. CASE DeleteRow(o)
  <2>1. Counted' \subseteq Counted
    BY <1>5 DEF DeleteRow, Counted, Members, Bound, TypeOK, Rows
  <2>2. pc' = [pc EXCEPT ![o] = "put"] /\ UNCHANGED <<req, crowded>>
    BY <1>5 DEF DeleteRow
  <2> QED BY <2>1, <2>2, CapStill DEF TypeOK
<1>6. CASE \/ CreateAnswer(o) \/ GateTake(o) \/ GateAnswer(o) \/ DenyStore(o) \/ DenyMemory(o)
           \/ RefreshKeys(o) \/ RefreshCreds(o) \/ RefreshSwap(o)
           \/ ClientDrops(o) \/ (GateRead(o) /\ pc' = [pc EXCEPT ![o] = "read"])
  <2>1. /\ UNCHANGED <<rows, req, crowded, uncounted>>
        /\ pc' = pc \/ \E x \in Stages \ {"counted"} : pc' = [pc EXCEPT ![o] = x]
    BY <1>6 DEF CreateAnswer, GateTake, GateAnswer, DenyStore, DenyMemory, RefreshKeys,
                RefreshCreds, RefreshSwap, ClientDrops, GateRead, Stages, After
  <2>2. Counted' = Counted
    BY <2>1 DEF Counted, Members, Bound
  <2> QED BY <2>1, <2>2, CapStill DEF TypeOK
<1>7. CASE UpdatePut(o)
  <2> DEFINE row == [read[o] EXCEPT !.enabled = Set(read[o].enabled, req[o].patch.enabled),
                                    !.group = Set(read[o].group, req[o].patch.group)]
  <2>1. /\ o \in Writing /\ PutBack(o, row)
        /\ uncounted' = IF row.group /\ ~ read[o].group THEN uncounted \cup {req[o].key} ELSE uncounted
    BY <1>7 DEF UpdatePut, Writing
  <2> HIDE DEF row
  <2> QED BY <1>4, <2>1
<1>8. CASE RotatePut(o)
  <2> DEFINE row == [read[o] EXCEPT !.hash = gen + 1]
  <2>1. o \in Writing /\ PutBack(o, row) /\ uncounted' = uncounted
    BY <1>8 DEF RotatePut, Writing
  <2>2. read[o] \in Row
    BY <2>1 DEF RowInv, ReadIsCurrent, TypeOK, Writing
  <2>3. row.group = read[o].group
    BY <2>2 DEF Row
  <2> HIDE DEF row
  <2> QED BY <1>4, <2>1, <2>3
<1> QED BY <1>1, <1>2, <1>3, <1>5, <1>6, <1>7, <1>8 DEF Moves

\* A restart begins again from the store.
LEMMA RestartKeeps ==
  ASSUME IInv, NEW failed \in BOOLEAN, Restart(failed)
  PROVE  IInv'
<1>1. /\ cache' = rows /\ awsCache' = Joined
      /\ blind' = failed
      /\ deny' = IF failed THEN {} ELSE denied
      /\ UNCHANGED <<rows, creds, denied, req, drawn, revoked, deleted, crowded, uncounted>>
      /\ load' = [o \in Ops |-> None]
      /\ auth' = NoAuth
  BY DEF Restart, store, list_denylist, Joined, group
<1>2. \A o \in Ops : pc'[o] \in {"idle", "done"} /\ load'[o] = None
  BY <1>1 DEF Restart
<1>3. TypeOK'
  BY OtherTypes DEF IInv
<1>4. PhaseInv'
  BY <1>1, <1>2 DEF PhaseInv, Phases, Held, After
<1>5. RowInv'
  BY <1>1, <1>2 DEF IInv, RowInv, ReadIsCurrent, Writing, Bound, After
<1>6. FinalInv'
  <2>1. blind' \/ deny' = denied
    BY <1>1
  <2> QED BY <1>1, <1>2, <2>1 DEF IInv, FinalInv, DeletedStaysDeleted, After
<1>7. CacheInv'
  <2>1. Joined' = Joined
    BY <1>1 DEF Joined
  <2>2. \A k \in deleted : rows[k] = None /\ Joined[k] = None
    BY DEF IInv, FinalInv, DeletedStaysDeleted, TypeOK, Joined
  <2> QED BY <1>1, <1>2, <2>1, <2>2 DEF CacheInv
<1>8. AuthInv'
  BY <1>1, NoAuthType DEF AuthInv
<1>9. SlotInv'
  BY SlotRestarts DEF IInv
<1>10. CapInv'
  <2>1. Counted' = Counted
    BY <1>1 DEF Counted, Members, Bound
  <2> QED BY <1>1, <1>2, <2>1, CapStill DEF IInv
<1> QED BY <1>3, <1>4, <1>5, <1>6, <1>7, <1>8, <1>9, <1>10 DEF IInv

\* A request and a window change neither the store nor an operation.
LEMMA RequestKeeps ==
  ASSUME IInv,
         \/ \E s \in Slot : IdemAges(s)
         \/ \E k \in Keys, c \in {"token", "secret", "aws"}, g \in 0 .. MaxGen : AuthBegin(k, c, g)
         \/ AuthLookup \/ AuthEnd
         \/ UNCHANGED vars
  PROVE  IInv'
<1>1. UNCHANGED <<rows, creds, denied, cache, awsCache, deny, gate, req, pc, read, load, join, drawn,
                  revoked, deleted, overtaken, blind, crowded, uncounted>>
  BY DEF IdemAges, AuthBegin, AuthLookup, AuthEnd, vars, store, memory, task, hist, group
<1>2. TypeOK'
  BY OtherTypes DEF IInv
<1>3. PhaseInv' /\ RowInv' /\ FinalInv' /\ CacheInv'
  BY <1>1 DEF IInv, PhaseInv, RowInv, ReadIsCurrent, Writing, Bound, FinalInv, DeletedStaysDeleted,
              CacheInv, Joined
<1>4. AuthInv'
  <2>1. CASE auth' = auth
    BY <1>1, <2>1 DEF IInv, AuthInv
  <2>2. CASE auth' = NoAuth
    BY <2>2, NoAuthType DEF AuthInv
  <2>3. ASSUME NEW k \in Keys, NEW c \in {"token", "secret", "aws"}, NEW g \in 0 .. MaxGen,
               AuthBegin(k, c, g)
        PROVE  AuthInv'
    <3> DEFINE r == k \in revoked
               d == k \in deleted
    <3>1. auth' = [pc |-> "lookup", key |-> k, carrier |-> c, gen |-> g, revoked |-> r,
                   deleted |-> d]
      BY <2>3 DEF AuthBegin
    <3>2. c = "token" /\ r => blind
      BY <2>3 DEF AuthBegin, IInv, FinalInv
    <3>3. d => k \in deleted
      OBVIOUS
    <3> HIDE DEF r, d
    <3>4. /\ auth'.pc = "lookup" /\ auth'.key = k /\ auth'.carrier = c /\ auth'.revoked = r
          /\ auth'.deleted = d
      BY <3>1
    <3> QED BY <1>1, <3>2, <3>3, <3>4 DEF AuthInv
  <2>4. CASE AuthLookup /\ auth' # NoAuth
    <3>1. auth.pc = "lookup" /\ Resolved # None /\ auth' = [auth EXCEPT !.pc = "admitted"]
      BY <2>4 DEF AuthLookup
    <3>2. /\ auth'.pc = "admitted" /\ auth'.key = auth.key /\ auth'.carrier = auth.carrier
          /\ auth'.revoked = auth.revoked /\ auth'.deleted = auth.deleted
      BY <3>1 DEF IInv, TypeOK, Auths
    <3>3. auth.deleted => overtaken
      <4> SUFFICES ASSUME auth.deleted, ~ overtaken PROVE FALSE
        OBVIOUS
      <4>1. auth.key \in deleted
        BY <3>1 DEF IInv, AuthInv
      <4>2. cache[auth.key] = None /\ awsCache[auth.key] = None
        BY <4>1 DEF IInv, CacheInv
      <4>3. auth.carrier \in {"token", "secret", "aws"}
        BY DEF IInv, TypeOK, Auths
      <4> QED BY <3>1, <4>2, <4>3 DEF Resolved
    <3> QED BY <1>1, <3>1, <3>2, <3>3 DEF IInv, AuthInv
  <2>5. \/ auth' = auth \/ auth' = NoAuth \/ AuthLookup
        \/ \E k \in Keys, c \in {"token", "secret", "aws"}, g \in 0 .. MaxGen : AuthBegin(k, c, g)
    BY DEF IdemAges, AuthEnd, vars
  <2> QED BY <2>1, <2>2, <2>3, <2>4, <2>5
<1>5. SlotInv'
  <2>1. CASE \E s \in Slot : IdemAges(s)
    BY <2>1, SlotAges DEF IInv
  <2>2. CASE UNCHANGED <<idem, era, win, slow, answer, dropped>>
    BY <1>1, <2>2, SlotStill DEF IInv, SlotOf
  <2>3. \/ \E s \in Slot : IdemAges(s)
        \/ UNCHANGED <<idem, era, win, slow, answer, dropped>>
    BY DEF AuthBegin, AuthLookup, AuthEnd, vars, memory, task, hist
  <2> QED BY <2>1, <2>2, <2>3
<1>6. CapInv'
  <2>1. Counted' = Counted
    BY <1>1 DEF Counted, Members, Bound
  <2> QED BY <1>1, <2>1, CapStill DEF IInv
<1> QED BY <1>2, <1>3, <1>4, <1>5, <1>6 DEF IInv

\* The first boot.
LEMMA InitKeeps == Init => IInv
<1> SUFFICES ASSUME Init PROVE IInv
  OBVIOUS
<1>1. rows \in Rows /\ creds \in SUBSET Keys /\ creds \subseteq Bound
  <2> DEFINE yes == TRUE
             no == FALSE
  <2>1. yes \in BOOLEAN /\ no \in BOOLEAN /\ rows \in [Keys -> {None, NewRow(yes), NewRow(no)}]
    BY Zenon DEF Init
  <2> HIDE DEF yes, no
  <2>2. rows \in Rows
    BY <2>1, RowTypes DEF Rows
  <2> QED BY <2>2 DEF Init, Bound
<1>2. awsCache = Joined /\ awsCache \in Rows
  BY <1>1 DEF Init, Joined, Rows
<1>3. idem \in [Slot -> Entry] /\ req \in [Ops -> Request] /\ pc \in [Ops -> Stages]
  BY EntryTypes, IdleType DEF Init, Stages
<1>4. overtaken \in BOOLEAN /\ blind \in BOOLEAN /\ gen \in 0 .. MaxGen
  <2>1. overtaken \in BOOLEAN /\ blind \in BOOLEAN
    BY Zenon DEF Init
  <2>2. gen = 0
    BY Zenon DEF Init
  <2> QED BY <2>1, <2>2, CredentialsAssumption
<1>5. TypeOK
  <2>1. Bound \in SUBSET Keys
    BY DEF Bound
  <2>2. /\ denied \in SUBSET Keys /\ cache \in Rows /\ deny \in SUBSET Keys
        /\ gate \in Ops \cup {None}
    BY <1>1, Zenon DEF Init
  <2>3. /\ read \in [Ops -> Row \cup {None}] /\ load \in [Ops -> Rows \cup {None}]
        /\ join \in [Ops -> Rows \cup {None}] /\ answer \in [Ops -> Body \cup {None}]
    BY Zenon DEF Init
  <2>4. /\ faults \in Nat /\ dropped \in SUBSET Ops /\ slow \in SUBSET Slot
        /\ crowded \in SUBSET Ops /\ uncounted \in SUBSET Keys
    <3>1. faults = 0 /\ dropped = {} /\ slow = {} /\ crowded = {} /\ uncounted = {}
      BY Zenon DEF Init
    <3> QED BY <3>1
  <2>5. auth \in Auths
    BY NoAuthType DEF Init
  <2>6. /\ drawn \in SUBSET Keys /\ issued \in SUBSET Keys
        /\ revoked \in SUBSET Keys /\ deleted \in SUBSET Keys
    BY <2>1, Zenon DEF Init
  <2>7. era \in [Slot -> Nat] /\ win \in [Ops -> Nat]
    <3>1. era = [s \in Slot |-> 0] /\ win = [o \in Ops |-> 0]
      BY Zenon DEF Init
    <3> QED BY <3>1
  <2> QED BY <1>1, <1>2, <1>3, <1>4, <2>2, <2>3, <2>4, <2>5, <2>6, <2>7, Zenon DEF TypeOK
<1>6. PhaseInv
  BY DEF Init, PhaseInv, Phases, Held, After
<1>7. RowInv
  BY <1>1 DEF Init, RowInv, ReadIsCurrent, Writing, After
<1>8. FinalInv
  BY DEF Init, FinalInv, DeletedStaysDeleted, After
<1>9. CacheInv
  BY <1>2 DEF Init, CacheInv
<1>10. AuthInv
  BY NoAuthType DEF Init, AuthInv
<1>11. SlotInv
  <2>1. /\ answer = [o \in Ops |-> None] /\ pc = [o \in Ops |-> "idle"]
        /\ idem = [s \in Slot |-> Free] /\ req = [o \in Ops |-> Idle]
    BY Zenon DEF Init
  <2>2. \A s \in Slot : idem[s].state # "pending"
    BY <2>1 DEF Free
  <2>3. \A o \in Ops : /\ answer[o] = None /\ ~ Settles(o)
                       /\ req[o].idem = None /\ ~ Keyed(o)
    BY <2>1, IdleType DEF Settles, Keyed
  <2> QED BY <2>2, <2>3 DEF SlotInv, IdempotentAnswers
<1>12. CapInv
  <2>1. Cardinality(Members) <= Cap /\ uncounted = {} /\ pc = [o \in Ops |-> "idle"]
    BY Zenon DEF Init
  <2>2. Members \ uncounted = Members
    BY <2>1
  <2> QED BY <2>1, <2>2 DEF CapInv, CapHolds
<1> QED BY <1>5, <1>6, <1>7, <1>8, <1>9, <1>10, <1>11, <1>12 DEF IInv

\* An operation's step keeps the invariant.
LEMMA OpKeeps ==
  ASSUME IInv, NEW o \in Ops, OpStep(o)
  PROVE  IInv'
<1>1. Begins(o) \/ Moves(o) \/ Ends(o)
  BY OpSteps DEF IInv
<1>2. PhaseInv' /\ RowInv' /\ FinalInv' /\ CacheInv' /\ AuthInv'
  BY <1>1, PhaseEnds, PhaseMoves, RowEnds, RowMoves, FinalEnds, FinalMoves, CacheEnds, CacheMoves,
     AuthOps DEF IInv
<1>3. CapInv'
  BY <1>1, CapOps DEF IInv
<1>4. TypeOK' /\ SlotInv'
  <2>1. ASSUME NEW i \in IdemKeys \cup {None}, NEW m \in Mint, CreateBegin(o, i, m)
        PROVE  TypeOK' /\ SlotInv'
    BY <2>1, CreateBeginTypes, SlotBegins DEF IInv
  <2>2. ASSUME NEW kind \in GateKinds, NEW k \in Keys, NEW i \in IdemKeys \cup {None},
               NEW p \in Patch, NEW t \in ETag \cup {None}, GateBegin(o, kind, k, i, p, t),
               kind # "rotate" => i = None
        PROVE  TypeOK' /\ SlotInv'
    BY <2>2, GateBeginTypes, SlotBegins DEF IInv
  <2>3. CASE /\ ~ \E i \in IdemKeys \cup {None}, m \in Mint : CreateBegin(o, i, m)
             /\ ~ \E kind \in GateKinds, k \in Keys, i \in IdemKeys \cup {None}, p \in Patch,
                     t \in ETag \cup {None} :
                    GateBegin(o, kind, k, i, p, t) /\ (kind # "rotate" => i = None)
    <3>1. \/ CreateInvalid(o) \/ CreateCount(o) \/ CreateAnswer(o)
          \/ \E k \in Keys : CreatePut(o, k) \/ RevokeBegin(o, k)
          \/ GateTake(o) \/ GateRead(o) \/ UpdatePut(o) \/ RotatePut(o) \/ GateAnswer(o)
          \/ DenyStore(o) \/ DenyMemory(o) \/ DeleteRow(o)
          \/ RefreshKeys(o) \/ RefreshCreds(o) \/ RefreshSwap(o)
          \/ StoreError(o) \/ ClientDrops(o)
      <4>1. \A k \in Keys :
              /\ \A p \in Patch, t \in ETag \cup {None} : ~ GateBegin(o, "update", k, None, p, t)
              /\ \A i \in IdemKeys \cup {None} : ~ GateBegin(o, "rotate", k, i, NoPatch, None)
              /\ \A t \in ETag \cup {None} : ~ GateBegin(o, "delete", k, None, NoPatch, t)
        BY <2>3, NothingTypes DEF GateKinds
      <4> QED BY <2>3, <4>1, Zenon DEF OpStep
    <3> QED BY <3>1, OpTypes, SlotMoves DEF IInv
  <2> QED BY <2>1, <2>2, <2>3
<1> QED BY <1>2, <1>3, <1>4 DEF IInv

\* Every step keeps the invariant.
LEMMA NextKeeps == IInv /\ [Next]_vars => IInv'
<1> SUFFICES ASSUME IInv, [Next]_vars PROVE IInv'
  OBVIOUS
<1>1. ASSUME NEW o \in Ops, OpStep(o) PROVE IInv'
  BY <1>1, OpKeeps
<1>2. ASSUME NEW failed \in BOOLEAN, Restart(failed) PROVE IInv'
  BY <1>2, RestartKeeps
<1>3. CASE \/ \E s \in Slot : IdemAges(s)
           \/ \E k \in Keys, c \in {"token", "secret", "aws"}, g \in 0 .. MaxGen : AuthBegin(k, c, g)
           \/ AuthLookup \/ AuthEnd
           \/ UNCHANGED vars
  BY <1>3, RequestKeeps
<1>4. Next => \/ \E o \in Ops : OpStep(o)
              \/ \E failed \in BOOLEAN : Restart(failed)
              \/ \E s \in Slot : IdemAges(s)
              \/ \E k \in Keys, c \in {"token", "secret", "aws"}, g \in 0 .. MaxGen : AuthBegin(k, c, g)
              \/ AuthLookup \/ AuthEnd
  BY CredentialsAssumption, Zenon DEF Next, OpStep
<1> QED BY <1>1, <1>2, <1>3, <1>4

\* The invariant holds throughout.
LEMMA Invariant == Spec => []IInv
BY InitKeeps, NextKeeps, PTL DEF Spec

-----------------------------------------------------------------------------
(* The theorems *)

\* The state of the keys, their caches and the operations keeps its type.
THEOREM TypeCorrect == Spec => []TypeOK
<1>1. IInv => TypeOK
  BY DEF IInv
<1> QED BY <1>1, Invariant, PTL

\* The row that an update, a rotation or a deletion has looked up is the row of
\* the store until it writes: EXISTENCE_GATE is held from get_key to the end of
\* the refresh, whichever store calls fail and whichever clients leave.
THEOREM GateKeepsReadsCurrent == Spec => []ReadIsCurrent
<1>1. IInv => ReadIsCurrent
  BY DEF IInv, RowInv
<1> QED BY <1>1, Invariant, PTL

\* An answered deletion leaves no row, no credential and a denied subject behind,
\* and no request that comes after an answered revocation or deletion is
\* admitted, but for a boot that could not read the list and a refresh that was
\* overtaken (delete_key, revoke_subject, verify_token).
THEOREM RevocationsAreFinal == Spec => []RevocationIsFinal
<1>1. IInv => RevocationIsFinal
  BY DEF IInv, FinalInv, AuthInv, RevocationIsFinal, NoAdmissionAfterRevoke
<1> QED BY <1>1, Invariant, PTL

\* Once no write is on its way to its refresh, both caches are what a restart
\* would build, unless a refresh failed or was overtaken (refresh).
THEOREM CachesFollowStore == Spec => []CacheFollowsStore
<1>1. IInv => CacheFollowsStore
  BY DEF IInv, CacheInv, CacheFollowsStore, Joined
<1> QED BY <1>1, Invariant, PTL

\* Two requests with one Idempotency-Key in one window are handed one token or
\* secret, unless the window passed under a pending operation, and only a key
\* whose mint another one overtook, or that an update bound to its group, is above
\* the cap (idempotency reserve and settle, create_key, rotate_key, update_key).
THEOREM MintingIsBounded == Spec => []MintsAreBounded
<1>1. IInv => MintsAreBounded
  BY DEF IInv, SlotInv, CapInv, MintsAreBounded
<1> QED BY <1>1, Invariant, PTL
=============================================================================
