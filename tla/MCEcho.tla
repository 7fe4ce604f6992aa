------------------------------- MODULE MCEcho -------------------------------
(***************************************************************************)
(* Small instances of the echo service.                                    *)
(***************************************************************************)
EXTENDS Echo, TLC
CONSTANTS a1, a2, b

(* a2 is started with the client id of a1, after a1 has ended. *)
Restarted == (a1 :> "a") @@ (a2 :> "a") @@ (b :> "b")

(* Two threads of a2 share a stream. *)
TwoCallsOfA2 == (a1 :> 0) @@ (a2 :> 2) @@ (b :> 1)
=============================================================================
