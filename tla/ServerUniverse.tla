--------------------------- MODULE ServerUniverse ---------------------------
(***************************************************************************)
(* Views of the replicas: a function from replicas to timestamps, either   *)
(* what the replicas hold or lower bounds of it.  A view tells what every  *)
(* quorum must know.                                                       *)
(***************************************************************************)
EXTENDS Timestamps, FiniteSets

valid_quorum(u, q) ==
  /\ q # {}
  /\ q \subseteq DOMAIN u
  /\ 2 * Cardinality(q) > Cardinality(DOMAIN u)

quorum_vals(u, q) == {u[s] : s \in q}

(* The greatest timestamp of the quorum. *)
quorum_timestamp(u, q) ==
  CHOOSE t \in quorum_vals(u, q) : \A x \in quorum_vals(u, q) : TsLe(x, t)

unanimous_quorum(u, q, lb) == \A s \in q : TsLe(lb, u[s])

(* Every quorum knows of a timestamp no less than min. *)
QuorumsReach(u, min) ==
  \A q \in SUBSET DOMAIN u :
    valid_quorum(u, q) => TsLe(min, quorum_timestamp(u, q))

leq(u, w) ==
  /\ DOMAIN u = DOMAIN w
  /\ \A s \in DOMAIN u : TsLe(u[s], w[s])

(* Mutation: a bound of one replica is taken for a bound of all. *)
tracked_update_all(u, s, lb) == [x \in DOMAIN u |-> TsMax(u[x], lb)]

(* A bound of replica s replaces what was known of it. *)
tracked_update_lb(u, s, lb) == [u EXCEPT ![s] = lb]
=============================================================================
