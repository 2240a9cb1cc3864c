--------------------------- MODULE MCControlPlane ---------------------------
(* Small instances of ControlPlane. *)
EXTENDS ControlPlane, TLC

plain == [grants |-> "blind", global |-> FALSE, default |-> FALSE, set |-> 0]
gate == [plain EXCEPT !.grants = "seeing", !.global = TRUE]
top == [parent |-> NoName]

TwoCfgs == {plain, gate}

\* The file has hook b, wired, and group g; the second edition has hook x, a
\* name the API may have used before, in the place of b, and no group.  What
\* resolve makes of a file never says global or default.
FileOne ==
    [hooks |-> ("b" :> [gate EXCEPT !.global = FALSE]), globals |-> {"b"},
     groups |-> ("g" :> top), root |-> 1, pins |-> 0]
FileTwo == [FileOne EXCEPT !.hooks = ("x" :> plain), !.globals = {}, !.groups = Empty]
OneEdit == {FileTwo}
OneBody == {[FileOne EXCEPT !.groups = ("t" :> top)]}
=============================================================================
