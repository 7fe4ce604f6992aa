--------------------------- MODULE MCAbdUniverse ----------------------------
(***************************************************************************)
(* Small instances of the ABD register with the views of its clients.      *)
(***************************************************************************)
EXTENDS AbdUniverse, TLC
CONSTANTS s1, s2, s3, v1

MajoritySymmetry == Permutations({s2, s3})

(* Clients 1 and 2 run one operation each; client 2 may write. *)
SecondWrites == (1 :> 0) @@ (2 :> 1)
OneOperation == (1 :> 1) @@ (2 :> 1)

(* The links of client 1 to a majority may break. *)
LinksToMajority == {1} \X {s2, s3}
=============================================================================
