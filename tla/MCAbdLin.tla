------------------------------ MODULE MCAbdLin ------------------------------
(***************************************************************************)
(* Small instances of the ABD register with its linearization queue.       *)
(***************************************************************************)
EXTENDS AbdLin, TLC
CONSTANTS s1, s2, s3, v1

ServerSymmetry   == Permutations({s1, s2, s3})
MajoritySymmetry == Permutations({s2, s3})

(* Each client runs one operation, a read or a write. *)
OneOperation == (1 :> 1) @@ (2 :> 1)

(* Only client 1 writes. *)
FirstWrites == (1 :> 1) @@ (2 :> 0)

(* Client 1 runs operations until it has sent two requests: one, or two    *)
(* that begin with a read of one phase.  Each client writes at most once.  *)
FirstTwice == (1 :> 2) @@ (2 :> 1)

(* The links of client 1 to a majority may break. *)
LinksToMajority == {1} \X {s2, s3}
=============================================================================
