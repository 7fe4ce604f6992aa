----------------------------- MODULE MCLinQueue -----------------------------
(***************************************************************************)
(* A small instance of the linearization queue: two clients, each with the *)
(* choice of two sequence numbers.                                         *)
(***************************************************************************)
EXTENDS LinQueue

CONSTANTS v1, v2

FourTimestamps == [seqno : {1, 2}, client_id : {1, 2}, client_ctr : {0}]
=============================================================================
