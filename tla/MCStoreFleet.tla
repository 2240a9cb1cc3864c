----------------------------- MODULE MCStoreFleet -----------------------------
EXTENDS StoreFleet, TLC

MCOps == {"put_key", "mint", "delete_key", "add_usage", "add_metering", "put_usage",
          "add_denylist", "append_audit"}
Symmetry == Permutations(Nodes)
MCBackends == {"sqlite", "postgres", "redis"}
=============================================================================
