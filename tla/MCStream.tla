------------------------------ MODULE MCStream ------------------------------
(***************************************************************************)
(* Every pair of protocols, each of them relayed to itself, the Gemini     *)
(* array form, and a plain body.                                           *)
(***************************************************************************)
EXTENDS StreamRelay

Route(i, e, mode, include, array, spent) ==
  [ingress |-> i, egress |-> e, mode |-> mode, include |-> include,
   array |-> array, spent |-> spent]

MCRoutes ==
  {Route(i, e, "cross", include, array, TRUE) :
      i \in Protocols, e \in Protocols, include \in BOOLEAN, array \in BOOLEAN}
  \cup {Route(p, p, "same", include, FALSE, TRUE) : p \in Protocols, include \in BOOLEAN}
  \cup {Route("openai", "openai", "plain", FALSE, FALSE, spent) : spent \in BOOLEAN}

Sensible(r) ==
  /\ r.mode = "cross" => r.ingress # r.egress
  /\ r.include => r.ingress = "openai"
  /\ r.array => r.ingress = "gemini"

AllRoutes == {r \in MCRoutes : Sensible(r)}
=============================================================================
