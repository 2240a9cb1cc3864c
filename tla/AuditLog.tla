------------------------------- MODULE AuditLog -------------------------------
(***************************************************************************)
(* The admin audit log: a ring in memory whose entries are chained by      *)
(* their hashes, written through to the store under a lock of its own, one *)
(* entry at a time and from the first that is not known to be there; saved *)
(* with the state file; and read back when the process starts, from the    *)
(* store if that has any, from the file otherwise.                         *)
(***************************************************************************)
EXTENDS Integers, Sequences, FiniteSets, FiniteSetsExt, SequencesExt

CONSTANTS Procs,          \* processes that share the store
          Recorders,      \* admin requests in flight, for each process
          Nil,
          RingSize,       \* MAX_AUDIT_ENTRIES
          MaxRecords,     \* bound: entries ever recorded
          MaxFaults,      \* bound: failed appends, crashes
          MaxUnread       \* bound: starts at which the store cannot be read

ASSUME AuditAssumption ==
  /\ IsFiniteSet(Procs) /\ IsFiniteSet(Recorders)
  /\ RingSize \in Nat \ {0} /\ MaxRecords \in Nat /\ MaxFaults \in Nat /\ MaxUnread \in Nat
  /\ Nil \notin Recorders \cup [seq : Nat, hash : Nat, prev : Nat]

VARIABLES up,        \* processes that run
          ring,      \* AuditLog.entries
          seq,       \* AuditLog.seq, the next number
          high,      \* AuditLog.durable_high
          lock,      \* holder of AuditLog.durable_lock
          task,      \* where each recorder is
          file,      \* the audit entries of the state file
          table,     \* the audit log of the store
          made,      \* entries recorded so far; the hash of an entry is its number
          faults, unread,
          overrun    \* whether an entry left the ring before it was written through

memory == <<up, ring, seq, high, lock, task>>
vars   == <<memory, file, table, made, faults, unread, overrun>>

Rest == [at |-> "idle"]

Init ==
  /\ up = [p \in Procs |-> FALSE]
  /\ ring = [p \in Procs |-> <<>>]
  /\ seq = [p \in Procs |-> 1]
  /\ high = [p \in Procs |-> 0]
  /\ lock = [p \in Procs |-> Nil]
  /\ task = [p \in Procs |-> [r \in Recorders |-> Rest]]
  /\ file = [p \in Procs |-> <<>>]
  /\ table = [s \in 1 .. MaxRecords |-> Nil]
  /\ made = 0 /\ faults = 0 /\ unread = 0 /\ overrun = FALSE

Numbers(entries) == {entries[i].seq : i \in DOMAIN entries}

MaxOr0(S) == IF S = {} THEN 0 ELSE Max(S)

-----------------------------------------------------------------------------
\* The newest records of the store, oldest first.
list_audit_tail ==
  LET held == {s \in DOMAIN table : table[s] # Nil}
      tail == {s \in held : Cardinality({t \in held : t > s}) < RingSize}
  IN  [i \in 1 .. Cardinality(tail) |->
         table[CHOOSE s \in tail : Cardinality({t \in tail : t < s}) = i - 1]]

\* Each entry names the one before it.
Linked(entries) ==
  \A i \in 2 .. Len(entries) : entries[i].prev = entries[i - 1].hash

\* `load`: the ring of the state file, unless that is corrupt or too old; the
\* number is only ever raised.
Loaded(p, from) ==
  \E entries \in {file[p], <<>>} :
    /\ ring' = [ring EXCEPT ![p] = entries]
    /\ seq' = [seq EXCEPT ![p] = Max({from, MaxOr0(Numbers(entries)) + 1})]

\* The number and the watermark are raised before the chain is verified.
restore_from_store(p) ==
  LET records == list_audit_tail
      newest  == MaxOr0(Numbers(records))
  IN  /\ high' = [high EXCEPT ![p] = newest]
      /\ IF records # <<>> /\ Linked(records)
         THEN /\ ring' = [ring EXCEPT ![p] = records]
              /\ seq' = [seq EXCEPT ![p] = newest + 1]
         ELSE Loaded(p, newest + 1)

Start(p) ==
  /\ ~up[p]
  /\ up' = [up EXCEPT ![p] = TRUE]
  /\ \/ restore_from_store(p) /\ UNCHANGED unread
     \/ /\ unread < MaxUnread                       \* the store cannot be read
        /\ Loaded(p, 1) /\ high' = [high EXCEPT ![p] = 0]
        /\ unread' = unread + 1
  /\ UNCHANGED <<lock, task, file, table, made, faults, overrun>>

-----------------------------------------------------------------------------
\* The first part of `record_by`, under the lock of the entries.
Pushed(q, e) == IF Len(q) >= RingSize THEN Append(Tail(q), e) ELSE Append(q, e)

record_by(p, r) ==
  /\ up[p] /\ task[p][r] = Rest /\ made < MaxRecords /\ seq[p] <= MaxRecords
  /\ LET q == ring[p]
         e == [seq |-> seq[p], hash |-> made + 1,
               prev |-> IF q = <<>> THEN 0 ELSE Last(q).hash]
     IN  /\ ring' = [ring EXCEPT ![p] = Pushed(q, e)]
         /\ overrun' = (overrun \/ (Len(q) >= RingSize /\ table[Head(q).seq] # Head(q)))
         /\ task' = [task EXCEPT ![p][r] = [at |-> "queued", upto |-> e.seq]]
  /\ seq' = [seq EXCEPT ![p] = @ + 1]
  /\ made' = made + 1
  /\ UNCHANGED <<up, high, lock, file, table, faults, unread>>

FirstMissing_OwnEntry(p, r) == task[p][r].upto

FirstMissing(p, r) == high[p] + 1

\* `durable_write_through`: the lock, and the first entry to catch up from.
BeginCatchUp(p, r) ==
  /\ task[p][r].at = "queued"
  /\ lock[p] = Nil
  /\ lock' = [lock EXCEPT ![p] = r]
  /\ task' = [task EXCEPT ![p][r] = [at |-> "writing", upto |-> @.upto, from |-> FirstMissing(p, r)]]
  /\ UNCHANGED <<up, ring, seq, high, file, table, made, faults, unread, overrun>>

Writing(p, r) == task[p][r].at = "writing"

Leave(p, r) ==
  /\ task' = [task EXCEPT ![p][r] = Rest]
  /\ lock' = [lock EXCEPT ![p] = Nil]

EndCatchUp(p, r) ==
  /\ Writing(p, r) /\ task[p][r].from > task[p][r].upto
  /\ Leave(p, r)
  /\ UNCHANGED <<up, ring, seq, high, file, table, made, faults, unread, overrun>>

InRing(p, s) == {i \in DOMAIN ring[p] : ring[p][i].seq = s}

\* An entry that has left the ring cannot be caught up.
SkipPruned(p, r) ==
  /\ Writing(p, r) /\ task[p][r].from <= task[p][r].upto
  /\ InRing(p, task[p][r].from) = {}
  /\ task' = [task EXCEPT ![p][r].from = @ + 1]
  /\ UNCHANGED <<up, ring, seq, high, lock, file, table, made, faults, unread, overrun>>

Written(p, s) == [table EXCEPT ![s] = ring[p][CHOOSE i \in InRing(p, s) : TRUE]]

AppendAudit(p, r) ==
  LET s == task[p][r].from IN
  /\ Writing(p, r) /\ s <= task[p][r].upto /\ InRing(p, s) # {}
  /\ table' = Written(p, s)
  /\ high' = [high EXCEPT ![p] = IF s > @ THEN s ELSE @]
  /\ task' = [task EXCEPT ![p][r].from = @ + 1]
  /\ UNCHANGED <<up, ring, seq, lock, file, made, faults, unread, overrun>>

\* The store fails, or has written the record and the answer is lost.
AppendFails(p, r) ==
  LET s == task[p][r].from IN
  /\ Writing(p, r) /\ s <= task[p][r].upto /\ InRing(p, s) # {} /\ faults < MaxFaults
  /\ table' \in {table, Written(p, s)}
  /\ faults' = faults + 1
  /\ Leave(p, r)
  /\ UNCHANGED <<up, ring, seq, high, file, made, unread, overrun>>

-----------------------------------------------------------------------------
Snapshot(p) ==
  /\ up[p] /\ file[p] # ring[p]
  /\ file' = [file EXCEPT ![p] = ring[p]]
  /\ UNCHANGED <<memory, table, made, faults, unread, overrun>>

Crash(p) ==
  /\ up[p] /\ faults < MaxFaults
  /\ up' = [up EXCEPT ![p] = FALSE]
  /\ ring' = [ring EXCEPT ![p] = <<>>]
  /\ seq' = [seq EXCEPT ![p] = 1]
  /\ high' = [high EXCEPT ![p] = 0]
  /\ lock' = [lock EXCEPT ![p] = Nil]
  /\ task' = [task EXCEPT ![p] = [r \in Recorders |-> Rest]]
  /\ faults' = faults + 1
  /\ UNCHANGED <<file, table, made, unread, overrun>>

Next ==
  \E p \in Procs :
    \/ Start(p) \/ Snapshot(p) \/ Crash(p)
    \/ \E r \in Recorders :
         \/ record_by(p, r) \/ BeginCatchUp(p, r) \/ EndCatchUp(p, r)
         \/ SkipPruned(p, r) \/ AppendAudit(p, r) \/ AppendFails(p, r)

Spec == Init /\ [][Next]_vars

-----------------------------------------------------------------------------
(***************************************************************************)
(* What the store has of the log is never rewritten: the record under a    *)
(* number stays the record it was, whatever fails and however often the    *)
(* process starts, as long as each start could read the store (audit.rs    *)
(* restore_from_store, load).                                              *)
(***************************************************************************)
NeverRewritten ==
  unread = 0 => \A s \in DOMAIN table : table[s] # Nil => table'[s] = table[s]

(***************************************************************************)
(* The log of the store is one chain without a hole, so that the next      *)
(* start accepts it, as long as no outage of the store outlasted the ring  *)
(* and each start could read the store: recorders that overtake each other *)
(* and appends that fail leave none (audit.rs durable_write_through).      *)
(***************************************************************************)
ChainRestorable ==
  ~overrun /\ unread = 0 =>
    \A s \in 2 .. MaxRecords :
      table[s] # Nil => table[s - 1] # Nil /\ table[s].prev = table[s - 1].hash

(***************************************************************************)
(* Every step keeps what the durable log has and leaves a log that can be  *)
(* taken up again (restore_from_store, durable_write_through).             *)
(***************************************************************************)
LogIsKept == [][NeverRewritten /\ ChainRestorable']_vars
=============================================================================
