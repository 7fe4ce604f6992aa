------------------------------- MODULE MCAbd --------------------------------
(***************************************************************************)
(* Small instances of the ABD register.  A function c |-> n gives each     *)
(* client c its bound n.                                                   *)
(***************************************************************************)
EXTENDS AbdProperties, TLC
CONSTANTS s1, s2, s3, v1

MajoritySymmetry == Permutations({s2, s3})

(* Clients 1 and 2 run one operation each; only client 2 writes. *)
OneOperation == (1 :> 1) @@ (2 :> 1)
SecondWrites == (1 :> 0) @@ (2 :> 1)

(* Client 1 writes twice, the second time after the first failed or not. *)
FirstWritesTwice == (1 :> 2) @@ (2 :> 0)
FirstRetries     == (1 :> 3) @@ (2 :> 0)

(* The links of client 1 that may break. *)
LinkToLast      == {1} \X {s3}
LinksToMajority == {1} \X {s2, s3}
LinkToSecond    == {1} \X {s2}
=============================================================================
