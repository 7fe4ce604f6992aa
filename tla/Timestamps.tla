----------------------------- MODULE Timestamps -----------------------------
(***************************************************************************)
(* The logical timestamps that order the writes of the ABD register: a     *)
(* sequence number, ties broken by the writer's id and then by the         *)
(* writer's own counter.  The order is the one Rust derives for the        *)
(* struct, which compares the fields in their order of declaration.        *)
(***************************************************************************)
EXTENDS Integers

Timestamp == [seqno : Nat, client_id : Nat, client_ctr : Nat]

TsDefault == [seqno |-> 0, client_id |-> 0, client_ctr |-> 0]

TsLt(a, b) ==
  \/ a.seqno < b.seqno
  \/ a.seqno = b.seqno /\ a.client_id < b.client_id
  \/ a.seqno = b.seqno /\ a.client_id = b.client_id /\ a.client_ctr < b.client_ctr

TsLe(a, b) == TsLt(a, b) \/ a = b

TsMax(a, b) == IF TsLt(a, b) THEN b ELSE a
=============================================================================
