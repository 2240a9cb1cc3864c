------------------------------ MODULE SqlTables ------------------------------
(***************************************************************************)
(* The tables of the two SQL backends and what a statement does to them.   *)
(* A method of a backend is a sequence of sections: the statements of a    *)
(* section commit together.                                                *)
(***************************************************************************)
EXTENDS Integers, Sequences

CONSTANTS Keys, Seqs, Nil

SCHEMA_VERSION == 4

Tables == {"virtual_keys", "aws_credentials", "usage_windows", "usage_ledger",
           "usage_metering", "audit_log", "denylist"}

NoRows ==
  [t \in Tables |-> [r \in IF t = "audit_log" THEN Seqs ELSE Keys |-> Nil]]

(***************************************************************************)
(* A database: its rows, the version it is stamped with, and the shape of  *)
(* its tables ("none", "old" or "new"): of virtual_keys, by which a        *)
(* database that predates the version is told from a fresh one, and of the *)
(* others.  Only tables of the new shape take the statements of this build.*)
(***************************************************************************)
Database(keys, others, version) ==
  [rows |-> NoRows, shape |-> [keys |-> keys, others |-> others], version |-> version]

Current(db) == db.shape = [keys |-> "new", others |-> "new"]

Transaction(stmts) == <<stmts>>
Autocommit(stmts)  == [i \in DOMAIN stmts |-> <<stmts[i]>>]

Upsert(t, row, val) == [do |-> "upsert", table |-> t, row |-> row, val |-> val]
Delete(t, row)      == [do |-> "delete", table |-> t, row |-> row]
Add(t, row, val)    == [do |-> "add", table |-> t, row |-> row, val |-> val]
ReadVersion         == [do |-> "version"]
HasLegacy           == [do |-> "legacy?"]
DropKeys            == [do |-> "drop", of |-> "keys"]
DropOthers          == [do |-> "drop", of |-> "others"]
CreateTables        == [do |-> "create"]
StampVersion        == [do |-> "stamp"]

\* MAX(0, column + delta), on a row that may have to be inserted.
Sum(old, by) ==
  LET s == (IF old = Nil THEN 0 ELSE old) + by IN IF s < 0 THEN 0 ELSE s

\* CREATE TABLE IF NOT EXISTS leaves a table of the same name as it is.
Created(shape) == [g \in DOMAIN shape |-> IF shape[g] = "none" THEN "new" ELSE shape[g]]

\* One statement, on the database and on what the caller has read.
Exec(st, s) ==
  CASE s.do = "upsert"  -> [st EXCEPT !.db.rows[s.table][s.row] = s.val]
    [] s.do = "delete"  -> [st EXCEPT !.db.rows[s.table][s.row] = Nil]
    [] s.do = "add"     -> [st EXCEPT !.db.rows[s.table][s.row] = Sum(@, s.val)]
    [] s.do = "version" -> [st EXCEPT !.got.marker = st.db.version]
    [] s.do = "legacy?" -> [st EXCEPT !.got.legacy =
                              IF st.got.marker < SCHEMA_VERSION /\ st.db.shape.keys # "none"
                              THEN {"virtual_keys"} ELSE {}]
    [] s.do = "drop"    -> IF st.got.legacy # {}
                           THEN [st EXCEPT !.db.rows = NoRows, !.db.shape[s.of] = "none"]
                           ELSE st
    [] s.do = "create"  -> [st EXCEPT !.db.shape = Created(@)]
    [] s.do = "stamp"   -> [st EXCEPT !.db.version = SCHEMA_VERSION]

\* The statements of a section, one after the other.
Run(st, stmts) ==
  LET after[i \in 0..Len(stmts)] == IF i = 0 THEN st ELSE Exec(after[i - 1], stmts[i])
  IN  after[Len(stmts)]
=============================================================================
