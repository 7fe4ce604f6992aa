---------------------------- MODULE TimestampCmp ----------------------------
(***************************************************************************)
(* How two timestamps compare: the comparison Rust derives for the struct, *)
(* which runs, and the two specifications the proofs of the code rely on   *)
(* instead of it.                                                          *)
(***************************************************************************)
EXTENDS Timestamps, Sequences

Fields == <<"seqno", "client_id", "client_ctr">>

(* derive(Ord): the first field that differs decides. *)
Cmp(x, y) ==
  IF x = y THEN "Equal"
  ELSE LET i == CHOOSE i \in DOMAIN Fields :
                  /\ x[Fields[i]] # y[Fields[i]]
                  /\ \A j \in 1..i-1 : x[Fields[j]] = y[Fields[j]]
       IN  IF x[Fields[i]] < y[Fields[i]] THEN "Less" ELSE "Greater"

PartialCmpSpec(x, y) ==
  IF /\ x.seqno = y.seqno
     /\ x.client_id = y.client_id
     /\ x.client_ctr = y.client_ctr THEN "Equal"
  ELSE IF TsLt(x, y) THEN "Less" ELSE "Greater"

CmpSpec(x, y) ==
  IF x.seqno = y.seqno /\ x.client_id = y.client_id THEN "Equal"
  ELSE IF TsLt(x, y) THEN "Less" ELSE "Greater"
=============================================================================
