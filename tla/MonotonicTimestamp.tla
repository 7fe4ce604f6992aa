------------------------- MODULE MonotonicTimestamp -------------------------
(***************************************************************************)
(* The resource algebra of a replica's timestamp.  The replica and the     *)
(* state shared by all hold half a right to advance it each; everybody     *)
(* else holds lower bounds.  op joins two resources and is invalid if they *)
(* cannot exist together.                                                  *)
(***************************************************************************)
EXTENDS Timestamps

LowerBound(t)         == [right |-> "none", timestamp |-> t]
HalfRightToAdvance(t) == [right |-> "half", timestamp |-> t]
FullRightToAdvance(t) == [right |-> "full", timestamp |-> t]
Invalid               == [right |-> "invalid", timestamp |-> TsDefault]

Valid    == [right : {"none", "half", "full"}, timestamp : Timestamp]
Resource == Valid \cup {Invalid}

valid(a) == a # Invalid

unit == LowerBound(TsDefault)

(* Bound l and the right r, half or full, to advance the timestamp. *)
Below(l, r) == IF TsLe(l.timestamp, r.timestamp) THEN r ELSE Invalid

op(a, b) ==
  CASE a.right = "none" /\ b.right = "none" -> LowerBound(TsMax(b.timestamp, a.timestamp))
    [] a.right = "none" /\ b.right \in {"half", "full"} -> Below(a, b)
    [] a.right \in {"half", "full"} /\ b.right = "none" -> Below(b, a)
    [] a.right = "half" /\ b = a -> FullRightToAdvance(a.timestamp)
    [] OTHER -> Invalid

-----------------------------------------------------------------------------
(* What a holder may do with a resource: no frame f that is valid with     *)
(* what it gives up is invalid with what it gets.                          *)
Updates(a, b) == \A f \in Resource : valid(op(a, f)) => valid(op(b, f))

split(a)               == HalfRightToAdvance(a.timestamp)
advance(a, t)          == [a EXCEPT !.timestamp = t]
extract_lower_bound(a) == LowerBound(a.timestamp)
weaken(a, t)           == LowerBound(t)
=============================================================================
