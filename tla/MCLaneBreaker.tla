--------------------------- MODULE MCLaneBreaker ---------------------------
(* Small instances of LaneBreaker, given by the configurations. *)
EXTENDS LaneBreaker

=============================================================================
