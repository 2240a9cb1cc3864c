----------------------------- MODULE SqliteStore -----------------------------
(***************************************************************************)
(* The methods of `SqliteStore`: one connection behind a mutex, so that a  *)
(* section is also all that another thread of the process can see.         *)
(***************************************************************************)
EXTENDS SqlTables

\* NULL is an omitted grant, '[]' an explicit empty one.
pools_to_storage(grant) ==
  CASE grant = "all" -> "NULL" [] grant = "none" -> "[]" [] grant = "some" -> "[p]"

pools_from_storage(stored) ==
  CASE stored = "NULL" -> "all" [] stored = "[]" -> "none" [] stored = "[p]" -> "some"

(***************************************************************************)
(* The statements of a migration are not in a transaction: a crash leaves  *)
(* what was done, half of the drops included.                              *)
(***************************************************************************)
migrate ==
  Autocommit(<<ReadVersion, HasLegacy, DropKeys, DropOthers, CreateTables, StampVersion>>)

put_key_inner(c) == Upsert("virtual_keys", c.key, pools_to_storage(c.grant))

put_aws_credential_inner(c) == Upsert("aws_credentials", c.key, "secret")

put_key(c) == Autocommit(<<put_key_inner(c)>>)

put_key_with_aws_credential(c) ==
  Transaction(<<put_key_inner(c), put_aws_credential_inner(c)>>)

delete_key(c) ==
  Transaction(<<Delete("virtual_keys", c.key), Delete("usage_windows", c.key),
                Delete("usage_ledger", c.key), Delete("aws_credentials", c.key)>>)

put_usage_inner(c) ==
  Transaction(<<Delete("usage_ledger", c.key),
                Upsert("usage_windows", c.key, c.by.req),
                Upsert("usage_ledger", c.key, c.by.tok)>>)

add_usage_inner(c) ==
  Transaction(<<Add("usage_windows", c.key, c.by.req),
                Add("usage_ledger", c.key, c.by.tok)>>)

add_metering_inner(c) == Autocommit(<<Add("usage_metering", c.key, 1)>>)

append_audit(c) == Autocommit(<<Upsert("audit_log", c.seq, c.digest)>>)

add_denylist(c) == Autocommit(<<Upsert("denylist", c.key, "denied")>>)

Program(c) ==
  CASE c.op = "open"         -> migrate
    [] c.op = "put_key"      -> put_key(c)
    [] c.op = "mint"         -> put_key_with_aws_credential(c)
    [] c.op = "delete_key"   -> delete_key(c)
    [] c.op = "put_usage"    -> put_usage_inner(c)
    [] c.op = "add_usage"    -> add_usage_inner(c)
    [] c.op = "add_metering" -> add_metering_inner(c)
    [] c.op = "append_audit" -> append_audit(c)
    [] c.op = "add_denylist" -> add_denylist(c)

(***************************************************************************)
(* What the reading methods make of the tables.                            *)
(***************************************************************************)
row_to_key(rows, k) ==
  IF rows["virtual_keys"][k] = Nil THEN Nil ELSE pools_from_storage(rows["virtual_keys"][k])

list_aws_credentials(rows) == {k \in Keys : rows["aws_credentials"][k] # Nil}

\* No row counts nothing, and a counter below zero is read as zero.
u(v) == IF v = Nil \/ v < 0 THEN 0 ELSE v

get_usage_inner(rows, k) ==
  [req |-> u(rows["usage_windows"][k]), tok |-> u(rows["usage_ledger"][k])]

\* The writes floor every counter: nothing is owed.
Usage(rows, k) ==
  IF rows["usage_windows"][k] = Nil THEN Nil
  ELSE [read |-> get_usage_inner(rows, k), owed |-> [req |-> 0, tok |-> 0]]

list_metering_inner(rows, k) ==
  IF rows["usage_metering"][k] = Nil THEN 0 ELSE rows["usage_metering"][k]

list_audit(rows) ==
  {[seq |-> s, digest |-> rows["audit_log"][s]] : s \in {x \in Seqs : rows["audit_log"][x] # Nil}}

list_denylist(rows) == {k \in Keys : rows["denylist"][k] # Nil}

View(db) ==
  [keys     |-> [k \in Keys |-> row_to_key(db.rows, k)],
   creds    |-> list_aws_credentials(db.rows),
   listed   |-> list_aws_credentials(db.rows),
   usage    |-> [k \in Keys |-> Usage(db.rows, k)],
   metering |-> [k \in Keys |-> list_metering_inner(db.rows, k)],
   audit    |-> list_audit(db.rows),
   denied   |-> list_denylist(db.rows)]
=============================================================================
