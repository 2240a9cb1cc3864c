----------------------------- MODULE Credentials -----------------------------
(***************************************************************************)
(* Virtual keys: the rows of the store, the caches the request path reads, *)
(* the revocation list, the gate that serialises the operations which look *)
(* a row up and write it back, and the idempotency cache of the two        *)
(* operations that hand out a secret.                                      *)
(*                                                                         *)
(* An operation of the admin API is a handler (which its client may drop)  *)
(* and a blocking task (which then runs to its end).  Every store call is  *)
(* a step of its own and may fail.  A request of the data plane reads the  *)
(* revocation list and the cache in two steps.  The process may crash at   *)
(* any point; the store survives.                                          *)
(***************************************************************************)
EXTENDS Naturals, FiniteSets

CONSTANTS Keys,         \* key ids, drawn at random by a mint and never reused
          Ops,          \* slots for operations of the admin API
          IdemKeys,     \* values of the Idempotency-Key header
          None,         \* no key, no operation, no header, no row
          Cap,          \* limits.max_keys_per_principal
          Mints,        \* what a creation may ask for
          Patches,      \* what an update may set
          Tags,         \* the If-Match headers of updates and deletions
          MaxBoot,      \* bound: keys in the store at the first boot
          MaxGen,       \* bound: secrets ever drawn by a rotation
          MaxFaults     \* bound: failed store calls, drops, crashes, expiries

\* The cap is counted for one group at a time: a key is bound to that group, or to
\* another or to none.  Hash 0 is binding:<id>, the others a rotation's secrets.
Row  == [enabled : BOOLEAN, group : BOOLEAN, hash : 0 .. MaxGen]
Rows == [Keys -> Row \cup {None}]

Mint  == [aws : BOOLEAN, group : BOOLEAN]
Patch == [enabled : BOOLEAN \cup {None}, group : BOOLEAN \cup {None}]
ETag  == [enabled : BOOLEAN, group : BOOLEAN]

ASSUME CredentialsAssumption ==
  /\ IsFiniteSet(Keys) /\ IsFiniteSet(Ops) /\ Ops # {}
  /\ Cap \in Nat \ {0} /\ MaxBoot \in Nat /\ MaxGen \in Nat /\ MaxFaults \in Nat
  /\ Mints \subseteq Mint /\ Patches \subseteq Patch /\ Tags \subseteq ETag \cup {None}
  /\ None \notin Keys \cup Ops \cup IdemKeys \cup Row \cup Rows \cup ETag \cup BOOLEAN \cup Nat

VARIABLES rows,      \* store: virtual_keys
          creds,     \* store: keys with a row in aws_credentials
          denied,    \* store: the denylist
          cache,     \* GovCaches.by_hash, by key id
          awsCache,  \* GovCaches.by_access_key_id, by key id
          deny,      \* GovState.denylist
          gate,      \* holder of EXISTENCE_GATE
          idem,      \* App.idempotency_cache
          req,       \* what each operation was asked
          pc,        \* where each operation is
          read,      \* the row an operation has read
          load,      \* the rows a refresh has listed
          join,      \* the credentials it has joined to them
          gen,       \* secrets drawn so far
          dropped,   \* operations whose client has gone
          faults,
          auth       \* the request that is being authenticated

(***************************************************************************)
(* What the properties compare with: the ids ever drawn, the tokens handed *)
(* out, the revocations and deletions that were answered, what each        *)
(* operation answered, the windows of the idempotency slots and the slots  *)
(* whose window passed under a pending operation, whether a refresh failed *)
(* or a mint's refresh overlapped another write, whether the last boot     *)
(* could not read the revocation list, the mints that another one overtook *)
(* since their count, and the keys that are in the group past its count:   *)
(* those of such mints, and those that an update bound to it.              *)
(***************************************************************************)
VARIABLES drawn, issued, revoked, deleted, answer, era, win, slow, overtaken, blind,
          crowded, uncounted

store  == <<rows, creds, denied>>
memory == <<cache, awsCache, deny, gate, idem>>
task   == <<req, pc, read, load, join, dropped>>
group  == <<crowded, uncounted>>
hist   == <<drawn, issued, revoked, deleted, answer, era, win, slow, overtaken,
            blind, group>>
vars   == <<store, memory, task, gen, faults, auth, hist>>

-----------------------------------------------------------------------------
Slot  == (IdemKeys \cup {None}) \X (Keys \cup {None})
\* The body of an answer is what it hands out: a mint the token of its key, a
\* rotation the secret it drew.
Body  == Keys \cup 0 .. MaxGen
Entry == [state : {"free", "pending", "done"}, body : Body \cup {None}, aged : BOOLEAN]
Free  == [state |-> "free", body |-> None, aged |-> FALSE]

Request == [kind : {"create", "update", "rotate", "revoke", "delete"},
            key : Keys \cup {None}, idem : IdemKeys \cup {None},
            mint : Mint, patch : Patch, tag : ETag \cup {None}]
NoMint  == [aws |-> FALSE, group |-> FALSE]
NoPatch == [enabled |-> None, group |-> None]
Idle    == [kind |-> "create", key |-> None, idem |-> None, mint |-> NoMint,
            patch |-> NoPatch, tag |-> None]
NoAuth  == [pc |-> "idle", key |-> None, carrier |-> "token", gen |-> 0,
            revoked |-> FALSE, deleted |-> FALSE]

\* The idempotency slot of an operation: a mint's is scoped by the header alone,
\* a rotation's by the key as well.
SlotOf(o) == <<req[o].idem, IF req[o].kind = "rotate" THEN req[o].key ELSE None>>

Bound == {k \in Keys : rows[k] # None}

\* The keys of the group.
Members == {k \in Bound : rows[k].group}

NewRow(g) == [enabled |-> TRUE, group |-> g, hash |-> 0]

Init ==
  /\ rows \in [Keys -> {None, NewRow(TRUE), NewRow(FALSE)}]
  /\ Cardinality(Members) <= Cap /\ Cardinality(Bound) <= MaxBoot
  /\ creds \in {{}, Bound}
  /\ denied = {}
  /\ cache = rows
  /\ awsCache = [k \in Keys |-> IF k \in creds THEN rows[k] ELSE None]
  /\ deny = {}
  /\ gate = None
  /\ idem = [s \in Slot |-> Free]
  /\ req = [o \in Ops |-> Idle]
  /\ pc = [o \in Ops |-> "idle"]
  /\ read = [o \in Ops |-> None]
  /\ load = [o \in Ops |-> None]
  /\ join = [o \in Ops |-> None]
  /\ gen = 0
  /\ dropped = {}
  /\ faults = 0
  /\ auth = NoAuth
  /\ drawn = Bound
  /\ issued = Bound
  /\ revoked = {}
  /\ deleted = {}
  /\ answer = [o \in Ops |-> None]
  /\ era = [s \in Slot |-> 0]
  /\ win = [o \in Ops |-> 0]
  /\ slow = {}
  /\ overtaken = FALSE
  /\ blind = FALSE
  /\ crowded = {}
  /\ uncounted = {}

-----------------------------------------------------------------------------
(***************************************************************************)
(* The idempotency cache.  A use sweeps the entries past their window,     *)
(* then replays a finished answer, refuses while another is in flight, or  *)
(* reserves.  The reservation is a guard: dropped before the commit, it    *)
(* frees the slot, whoever reserved it.                                    *)
(***************************************************************************)
Swept == [s \in Slot |-> IF idem[s].aged THEN Free ELSE idem[s]]

Sweep ==
  era' = [s \in Slot |-> IF idem[s].aged THEN era[s] + 1 ELSE era[s]]

Release(o) ==
  IF SlotOf(o)[1] # None /\ idem[SlotOf(o)].state = "pending"
  THEN [idem EXCEPT ![SlotOf(o)] = Free] ELSE idem

Commit(o, b) ==
  IF SlotOf(o)[1] = None THEN idem
  ELSE [idem EXCEPT ![SlotOf(o)] = [state |-> "done", body |-> b, aged |-> FALSE]]

\* A handler that ends without its answer: its guard goes.
End(o) ==
  /\ pc' = [pc EXCEPT ![o] = "done"]
  /\ idem' = IF o \in dropped THEN idem ELSE Release(o)
  /\ gate' = IF gate = o THEN None ELSE gate
  /\ read' = [read EXCEPT ![o] = None]
  /\ load' = [load EXCEPT ![o] = None]
  /\ join' = [join EXCEPT ![o] = None]

\* A request with an Idempotency-Key that is not the first of its window.
Replay(o, r, s) ==
  /\ Swept[s].state # "free"
  /\ answer' = [answer EXCEPT ![o] = Swept[s].body]
  /\ pc' = [pc EXCEPT ![o] = "done"]
  /\ idem' = Swept /\ Sweep
  /\ req' = [req EXCEPT ![o] = r]
  /\ win' = [win EXCEPT ![o] = era'[s]]

Reserve_AfterTheMint(o, r, s, next) ==
  /\ Swept[s].state = "free"
  /\ idem' = IF s[1] = None THEN idem ELSE Swept
  /\ IF s[1] = None THEN UNCHANGED era ELSE Sweep
  /\ pc' = [pc EXCEPT ![o] = next]
  /\ req' = [req EXCEPT ![o] = r]
  /\ win' = [win EXCEPT ![o] = era'[s]]
  /\ UNCHANGED answer

Reserve(o, r, s, next) ==
  /\ Swept[s].state = "free"
  /\ idem' = IF s[1] = None THEN idem
             ELSE [Swept EXCEPT ![s] = [state |-> "pending", body |-> None, aged |-> FALSE]]
  /\ IF s[1] = None THEN UNCHANGED era ELSE Sweep
  /\ pc' = [pc EXCEPT ![o] = next]
  /\ req' = [req EXCEPT ![o] = r]
  /\ win' = [win EXCEPT ![o] = era'[s]]
  /\ UNCHANGED answer

-----------------------------------------------------------------------------
(***************************************************************************)
(* Mint: create_key in the admin API and mint_signed in the ledger's       *)
(* state.  It takes no gate.                                               *)
(***************************************************************************)
CreateBegin(o, i, m) ==
  LET r == [Idle EXCEPT !.kind = "create", !.idem = i, !.mint = m] IN
  /\ pc[o] = "idle"
  /\ Replay(o, r, <<i, None>>) \/ Reserve(o, r, <<i, None>>, "reserved")
  /\ UNCHANGED <<store, cache, awsCache, deny, gate, read, load, join, dropped, gen,
                 faults, auth, drawn, issued, revoked, deleted, slow,
                 overtaken, blind, group>>

\* A body that does not parse or validate, a group that does not resolve.
CreateInvalid(o) ==
  /\ pc[o] = "reserved"
  /\ o \notin dropped
  /\ End(o)
  /\ UNCHANGED <<store, cache, awsCache, deny, req, dropped, gen, faults, auth, hist>>

\* The anti-sprawl cap, counted before the mint over the keys of the group that
\* the new one is to be bound to, if any.
CreateCount(o) ==
  /\ pc[o] = "reserved"
  /\ o \notin dropped
  /\ IF req[o].mint.group /\ Cardinality(Members) >= Cap
     THEN End(o)
     ELSE /\ pc' = [pc EXCEPT ![o] = "counted"]
          /\ UNCHANGED <<idem, gate, read, load, join>>
  /\ UNCHANGED <<store, cache, awsCache, deny, req, dropped, gen, faults, auth, hist>>

\* put_key, or both rows in one transaction.
CreatePut(o, k) ==
  /\ pc[o] = "counted"
  /\ k \notin drawn
  /\ rows' = [rows EXCEPT ![k] = NewRow(req[o].mint.group)]
  /\ creds' = IF req[o].mint.aws THEN creds \cup {k} ELSE creds
  /\ req' = [req EXCEPT ![o].key = k]
  /\ drawn' = drawn \cup {k}
  /\ pc' = [pc EXCEPT ![o] = "put"]
  /\ overtaken' = (overtaken \/ \E p \in Ops \ {o} : load[p] # None)
  /\ crowded' = (crowded \cup {p \in Ops : pc[p] = "counted"}) \ {o}
  /\ uncounted' = IF o \in crowded THEN uncounted \cup {k} ELSE uncounted
  /\ UNCHANGED <<denied, memory, read, load, join, dropped, gen, faults, auth,
                 issued, revoked, deleted, answer, era, win, slow, blind>>

CreateAnswer(o) ==
  /\ pc[o] = "swapped"
  /\ req[o].kind = "create"
  /\ pc' = [pc EXCEPT ![o] = "done"]
  /\ IF o \in dropped
     THEN UNCHANGED <<idem, issued, answer>>
     ELSE /\ idem' = Commit(o, req[o].key)
          /\ issued' = issued \cup {req[o].key}
          /\ answer' = [answer EXCEPT ![o] = req[o].key]
  /\ UNCHANGED <<store, cache, awsCache, deny, gate, req, read, load, join, dropped,
                 gen, faults, auth, drawn, revoked, deleted, era, win, slow, overtaken, blind, group>>

-----------------------------------------------------------------------------
(***************************************************************************)
(* The operations that look a row up and write it back hold the gate from  *)
(* the lookup to the end of the refresh.                                   *)
(***************************************************************************)
GateBegin(o, kind, k, i, p, t) ==
  LET r == [Idle EXCEPT !.kind = kind, !.key = k, !.idem = i, !.patch = p, !.tag = t]
      s == IF kind = "rotate" THEN <<i, k>> ELSE <<None, None>> IN
  /\ pc[o] = "idle"
  /\ Replay(o, r, s) \/ Reserve(o, r, s, "queued")
  /\ UNCHANGED <<store, cache, awsCache, deny, gate, read, load, join, dropped, gen,
                 faults, auth, drawn, issued, revoked, deleted, slow,
                 overtaken, blind, group>>

GateTake_PerOperation(o) ==
  /\ pc[o] = "queued"
  /\ gate' = o
  /\ pc' = [pc EXCEPT ![o] = "gated"]
  /\ UNCHANGED <<store, cache, awsCache, deny, idem, req, read, load, join, dropped,
                 gen, faults, auth, hist>>

GateTake(o) ==
  /\ pc[o] = "queued"
  /\ gate = None
  /\ gate' = o
  /\ pc' = [pc EXCEPT ![o] = "gated"]
  /\ UNCHANGED <<store, cache, awsCache, deny, idem, req, read, load, join, dropped,
                 gen, faults, auth, hist>>

\* key_etag digests what a PATCH can change.
TagOf(row) == [enabled |-> row.enabled, group |-> row.group]

\* get_key and the If-Match compare.
GateRead(o) ==
  LET row == rows[req[o].key] IN
  /\ pc[o] = "gated"
  /\ IF row = None \/ (req[o].tag # None /\ req[o].tag # TagOf(row))
     THEN End(o)
     ELSE /\ read' = [read EXCEPT ![o] = row]
          /\ pc' = [pc EXCEPT ![o] = "read"]
          /\ UNCHANGED <<idem, gate, load, join>>
  /\ UNCHANGED <<store, cache, awsCache, deny, req, dropped, gen, faults, auth, hist>>

\* put_key is an upsert: it would bring a deleted row back.
PutBack(o, row) ==
  /\ rows' = [rows EXCEPT ![req[o].key] = row]
  /\ read' = [read EXCEPT ![o] = row]
  /\ pc' = [pc EXCEPT ![o] = "put"]
  /\ overtaken' = (overtaken \/ \E p \in Ops : req[p].kind = "create" /\ load[p] # None)
  /\ UNCHANGED <<creds, denied, memory, req, load, join, dropped, faults, auth,
                 drawn, issued, revoked, deleted, answer, era, win, slow, blind, crowded>>

Set(old, new) == IF new = None THEN old ELSE new

\* The fields that the PATCH carries.  A group that it names exists; its keys are
\* not counted.
UpdatePut(o) ==
  LET row == read[o]
      patch == req[o].patch
      new == [row EXCEPT !.enabled = Set(row.enabled, patch.enabled),
                         !.group = Set(row.group, patch.group)] IN
  /\ pc[o] = "read"
  /\ req[o].kind = "update"
  /\ PutBack(o, new)
  /\ uncounted' = IF new.group /\ ~row.group THEN uncounted \cup {req[o].key} ELSE uncounted
  /\ UNCHANGED gen

RotatePut(o) ==
  /\ pc[o] = "read"
  /\ req[o].kind = "rotate"
  /\ gen < MaxGen
  /\ gen' = gen + 1
  /\ PutBack(o, [read[o] EXCEPT !.hash = gen + 1])
  /\ UNCHANGED uncounted

GateAnswer(o) ==
  /\ pc[o] = "swapped"
  /\ req[o].kind # "create"
  /\ pc' = [pc EXCEPT ![o] = "done"]
  /\ gate' = None
  /\ read' = [read EXCEPT ![o] = None]
  /\ deleted' = IF req[o].kind = "delete" THEN deleted \cup {req[o].key} ELSE deleted
  /\ IF o \in dropped
     THEN UNCHANGED <<idem, answer>>
     ELSE /\ idem' = IF req[o].kind = "rotate" THEN Commit(o, read[o].hash) ELSE idem
          /\ answer' = [answer EXCEPT ![o] = IF req[o].kind = "rotate" THEN read[o].hash ELSE @]
  /\ UNCHANGED <<store, cache, awsCache, deny, req, load, join, dropped, gen, faults,
                 auth, drawn, issued, revoked, era, win, slow, overtaken, blind, group>>

(***************************************************************************)
(* Revocation: the durable list first, then the set the request path       *)
(* reads.  A deletion revokes before it deletes.                           *)
(***************************************************************************)
RevokeBegin(o, k) ==
  /\ pc[o] = "idle"
  /\ req' = [req EXCEPT ![o] = [Idle EXCEPT !.kind = "revoke", !.key = k]]
  /\ pc' = [pc EXCEPT ![o] = IF rows[k] = None THEN "done" ELSE "denying"]
  /\ UNCHANGED <<store, memory, read, load, join, dropped, gen, faults, auth, hist>>

DenyStore_MemoryOnly(o) ==
  /\ pc[o] = "denying" \/ (pc[o] = "read" /\ req[o].kind = "delete")
  /\ pc' = [pc EXCEPT ![o] = "denied"]
  /\ UNCHANGED <<store, memory, req, read, load, join, dropped, gen, faults, auth, hist>>

DenyStore(o) ==
  /\ pc[o] = "denying" \/ (pc[o] = "read" /\ req[o].kind = "delete")
  /\ denied' = denied \cup {req[o].key}
  /\ pc' = [pc EXCEPT ![o] = "denied"]
  /\ UNCHANGED <<rows, creds, memory, req, read, load, join, dropped, gen, faults,
                 auth, hist>>

DenyMemory(o) ==
  /\ pc[o] = "denied"
  /\ deny' = deny \cup {req[o].key}
  /\ revoked' = revoked \cup {req[o].key}
  /\ pc' = [pc EXCEPT ![o] = IF req[o].kind = "delete" THEN "deleting" ELSE "done"]
  /\ UNCHANGED <<store, cache, awsCache, gate, idem, req, read, load, join, dropped,
                 gen, faults, auth, drawn, issued, deleted, answer, era, win,
                 slow, overtaken, blind, group>>

DeleteRow(o) ==
  /\ pc[o] = "deleting"
  /\ rows' = [rows EXCEPT ![req[o].key] = None]
  /\ creds' = creds \ {req[o].key}
  /\ pc' = [pc EXCEPT ![o] = "put"]
  /\ overtaken' = (overtaken \/ \E p \in Ops : req[p].kind = "create" /\ load[p] # None)
  /\ UNCHANGED <<denied, memory, req, read, load, join, dropped, gen, faults, auth,
                 drawn, issued, revoked, deleted, answer, era, win, slow, blind,
                 group>>

-----------------------------------------------------------------------------
(***************************************************************************)
(* refresh: list the keys, list the credentials and join them to the keys  *)
(* just listed, then swap both indices under one lock.                     *)
(***************************************************************************)
RefreshKeys(o) ==
  /\ pc[o] = "put"
  /\ load' = [load EXCEPT ![o] = rows]
  /\ pc' = [pc EXCEPT ![o] = "listed"]
  /\ UNCHANGED <<store, memory, req, read, join, dropped, gen, faults, auth, hist>>

RefreshCreds_AgainstCache(o) ==
  /\ pc[o] = "listed"
  /\ join' = [join EXCEPT ![o] = [k \in Keys |-> IF k \in creds THEN cache[k] ELSE None]]
  /\ pc' = [pc EXCEPT ![o] = "joined"]
  /\ UNCHANGED <<store, memory, req, read, load, dropped, gen, faults, auth, hist>>

RefreshCreds(o) ==
  /\ pc[o] = "listed"
  /\ join' = [join EXCEPT ![o] = [k \in Keys |-> IF k \in creds THEN load[o][k] ELSE None]]
  /\ pc' = [pc EXCEPT ![o] = "joined"]
  /\ UNCHANGED <<store, memory, req, read, load, dropped, gen, faults, auth, hist>>

RefreshSwap(o) ==
  /\ pc[o] = "joined"
  /\ cache' = load[o]
  /\ awsCache' = join[o]
  /\ load' = [load EXCEPT ![o] = None]
  /\ join' = [join EXCEPT ![o] = None]
  /\ pc' = [pc EXCEPT ![o] = "swapped"]
  /\ UNCHANGED <<store, deny, gate, idem, req, read, dropped, gen, faults, auth, hist>>

-----------------------------------------------------------------------------
(***************************************************************************)
(* Faults.  A store call fails and its operation ends with what it has     *)
(* done so far; a client goes away; an idempotency entry passes its        *)
(* window; the process is killed and starts again from the store.          *)
(***************************************************************************)
Fault == faults < MaxFaults /\ faults' = faults + 1

AtStore == {"reserved", "counted", "gated", "read", "denying", "put", "listed", "deleting"}

StoreError(o) ==
  /\ Fault
  /\ pc[o] \in AtStore
  /\ pc[o] = "reserved" => o \notin dropped
  /\ End(o)
  /\ overtaken' = (overtaken \/ pc[o] \in {"put", "listed"})
  /\ UNCHANGED <<store, cache, awsCache, deny, req, dropped, gen, auth,
                 drawn, issued, revoked, deleted, answer, era, win, slow, blind,
                 group>>

\* The reservation goes with the handler; a task that was not started is not run.
ClientDrops(o) ==
  /\ Fault
  /\ pc[o] \notin {"idle", "done"}
  /\ o \notin dropped
  /\ dropped' = dropped \cup {o}
  /\ idem' = Release(o)
  /\ pc' = IF pc[o] = "reserved" THEN [pc EXCEPT ![o] = "done"] ELSE pc
  /\ UNCHANGED <<store, cache, awsCache, deny, gate, req, read, load, join, gen, auth,
                 hist>>

IdemAges(s) ==
  /\ Fault
  /\ idem[s].state # "free" /\ ~idem[s].aged
  /\ idem' = [idem EXCEPT ![s].aged = TRUE]
  /\ slow' = IF idem[s].state = "pending" THEN slow \cup {s} ELSE slow
  /\ UNCHANGED <<store, cache, awsCache, deny, gate, task, gen, auth,
                 drawn, issued, revoked, deleted, answer, era, win, overtaken, blind,
                 group>>

\* What the boot learns of the revocation list: the store's wrapper answers an
\* empty list when its call fails, and the boot goes on.
list_denylist(failed) == IF failed THEN {} ELSE denied

Restart(failed) ==
  /\ Fault
  /\ cache' = rows
  /\ awsCache' = [k \in Keys |-> IF k \in creds THEN rows[k] ELSE None]
  /\ deny' = list_denylist(failed)
  /\ blind' = failed
  /\ gate' = None
  /\ idem' = [s \in Slot |-> Free]
  /\ era' = [s \in Slot |-> era[s] + 1]
  /\ pc' = [o \in Ops |-> IF pc[o] = "idle" THEN "idle" ELSE "done"]
  /\ read' = [o \in Ops |-> None]
  /\ load' = [o \in Ops |-> None]
  /\ join' = [o \in Ops |-> None]
  /\ auth' = NoAuth
  /\ overtaken' = FALSE
  /\ UNCHANGED <<store, req, dropped, gen, drawn, issued, revoked, deleted, answer, win,
                 slow, group>>

-----------------------------------------------------------------------------
(***************************************************************************)
(* The request path.  A signed token is checked against the revocation     *)
(* list, then its subject is looked up; the secret of a rotated key and an *)
(* AWS credential are looked up only.  A refusal leaves nothing behind.    *)
(***************************************************************************)
AuthBegin(k, c, g) ==
  /\ auth.pc = "idle"
  /\ k \in issued
  /\ c = "secret" <=> g > 0
  /\ g <= gen
  /\ c = "token" => k \notin deny
  /\ auth' = [pc |-> "lookup", key |-> k, carrier |-> c, gen |-> g,
              revoked |-> k \in revoked, deleted |-> k \in deleted]
  /\ UNCHANGED <<store, memory, task, gen, faults, hist>>

Resolved ==
  CASE auth.carrier = "token"  -> cache[auth.key]
    [] auth.carrier = "secret" ->
         IF cache[auth.key] # None /\ cache[auth.key].hash = auth.gen
         THEN cache[auth.key] ELSE None
    [] auth.carrier = "aws"    -> awsCache[auth.key]

AuthLookup ==
  /\ auth.pc = "lookup"
  /\ auth' = IF Resolved # None /\ Resolved.enabled
             THEN [auth EXCEPT !.pc = "admitted"] ELSE NoAuth
  /\ UNCHANGED <<store, memory, task, gen, faults, hist>>

AuthEnd ==
  /\ auth.pc = "admitted"
  /\ auth' = NoAuth
  /\ UNCHANGED <<store, memory, task, gen, faults, hist>>

-----------------------------------------------------------------------------
Next ==
  \/ \E o \in Ops :
       \/ \E i \in IdemKeys \cup {None}, m \in Mints : CreateBegin(o, i, m)
       \/ CreateInvalid(o) \/ CreateCount(o) \/ CreateAnswer(o)
       \/ \E k \in Keys : CreatePut(o, k)
       \/ \E k \in Keys :
            \/ \E p \in Patches, t \in Tags : GateBegin(o, "update", k, None, p, t)
            \/ \E i \in IdemKeys \cup {None} : GateBegin(o, "rotate", k, i, NoPatch, None)
            \/ \E t \in Tags : GateBegin(o, "delete", k, None, NoPatch, t)
            \/ RevokeBegin(o, k)
       \/ GateTake(o) \/ GateRead(o) \/ UpdatePut(o) \/ RotatePut(o) \/ GateAnswer(o)
       \/ DenyStore(o) \/ DenyMemory(o) \/ DeleteRow(o)
       \/ RefreshKeys(o) \/ RefreshCreds(o) \/ RefreshSwap(o)
       \/ StoreError(o) \/ ClientDrops(o)
  \/ \E s \in Slot : IdemAges(s)
  \/ \E failed \in BOOLEAN : Restart(failed)
  \/ \E k \in Keys, c \in {"token", "secret", "aws"}, g \in 0 .. MaxGen : AuthBegin(k, c, g)
  \/ AuthLookup \/ AuthEnd

Spec == Init /\ [][Next]_vars

-----------------------------------------------------------------------------

\* The operations between their lookup and the end of their write.
Writing == {o \in Ops : pc[o] \in {"read", "deleting"}
                        \/ (pc[o] = "denied" /\ req[o].kind = "delete")}

(***************************************************************************)
(* What the gate is for: the row an update, a rotation or a deletion has   *)
(* looked up is still the row of the store when it writes, whatever the    *)
(* other operations, failed store calls and departed clients did between.  *)
(***************************************************************************)
ReadIsCurrent == \A o \in Writing : rows[req[o].key] = read[o] /\ read[o] # None

(***************************************************************************)
(* A deletion that has been answered is final: no upsert of an operation   *)
(* that was under way, and no restart, brings the row back, and the        *)
(* subject of its tokens stays on the store's revocation list, and on the  *)
(* one in memory unless the boot could not read it.                        *)
(***************************************************************************)
DeletedStaysDeleted ==
  \A k \in deleted :
    rows[k] = None /\ k \notin creds /\ k \in denied /\ (k \in deny \/ blind)

(***************************************************************************)
(* A token whose revocation was answered before its request arrived is not *)
(* admitted, across restarts too, unless the boot could not read the list. *)
(* A deleted key is not admitted by any carrier unless a refresh was       *)
(* overtaken: the caches are all that stops the secret of a rotated key or *)
(* an AWS credential.                                                      *)
(***************************************************************************)
NoAdmissionAfterRevoke ==
  auth.pc = "admitted" =>
    /\ auth.carrier = "token" /\ auth.revoked => blind
    /\ auth.deleted => overtaken

(***************************************************************************)
(* A revocation or a deletion that was answered is final, for the store    *)
(* and for the requests that come after it (delete_key, revoke_subject,    *)
(* verify_token).                                                          *)
(***************************************************************************)
RevocationIsFinal == DeletedStaysDeleted /\ NoAdmissionAfterRevoke

(***************************************************************************)
(* What the constructor of the ledger's state says of the list it reads at *)
(* boot: a restart resumes with every revoked subject still denied.        *)
(***************************************************************************)
RevocationSurvivesRestart == revoked \subseteq deny

(***************************************************************************)
(* With no write between its store call and its refresh, both caches are   *)
(* what a restart would build from the store, unless a refresh failed or   *)
(* was overtaken.                                                          *)
(***************************************************************************)
CacheFollowsStore ==
  (~overtaken /\ \A o \in Ops : pc[o] \notin {"put", "listed", "joined"}) =>
    /\ cache = rows
    /\ awsCache = [k \in Keys |-> IF k \in creds THEN rows[k] ELSE None]

(***************************************************************************)
(* Two requests with the same Idempotency-Key in one window that are both  *)
(* answered are handed the same token or secret, unless the window passed  *)
(* under a pending operation.                                              *)
(***************************************************************************)
IdempotentAnswers ==
  \A o, p \in Ops :
    (/\ answer[o] # None /\ answer[p] # None
     /\ {req[o].kind, req[p].kind} \subseteq {"create", "rotate"}
     /\ SlotOf(o) = SlotOf(p) /\ SlotOf(o)[1] # None /\ SlotOf(o) \notin slow
     /\ win[o] = win[p])
    => answer[o] = answer[p]

(***************************************************************************)
(* The cap is counted before the mint and without the gate, and an update  *)
(* does not count: only a key whose mint another one overtook between its  *)
(* count and its row, or that an update bound to the group, is above it.   *)
(***************************************************************************)
CapHolds == Cardinality(Members \ uncounted) <= Cap

(***************************************************************************)
(* What overlapping creations, rotations and retries may mint: one token   *)
(* or secret for one Idempotency-Key, and no more keys of a group than the *)
(* cap, but for what the count does not see (create_key, rotate_key, the   *)
(* idempotency reservation, update_key).                                   *)
(***************************************************************************)
MintsAreBounded == IdempotentAnswers /\ CapHolds
=============================================================================
