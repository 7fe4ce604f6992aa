----------------------------- MODULE MCNetwork ------------------------------
(***************************************************************************)
(* Small instances of the transports: two processes with the same client   *)
(* id and one with another; a short message, a longer one and a short one. *)
(***************************************************************************)
EXTENDS Network, TLC
CONSTANTS a1, a2, b

Ids            == (a1 :> 1) @@ (a2 :> 1) @@ (b :> 2)
OneCall        == (a1 :> 1) @@ (a2 :> 0) @@ (b :> 1)
ShortLongShort == <<1, 2, 1>>
=============================================================================
