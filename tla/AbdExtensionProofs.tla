------------------------- MODULE AbdExtensionProofs -------------------------
(***************************************************************************)
(* Two modules run the register beside something else.  AbdUniverse adds   *)
(* what a client knows: what it deduces from replies is true of the        *)
(* replicas and of every quorum.  AbdExample adds processes that end and   *)
(* servers that forget: what goes wrong is their doing.  For any number of *)
(* servers, clients, requests and restarts.                                *)
(***************************************************************************)
EXTENDS AbdUniverse, AbdExample, AbdProofs

-----------------------------------------------------------------------------
(***************************************************************************)
(* AbdUniverse: the laws of the resource algebra, the lemmas about quorums *)
(* and views, the invariant of the requests and responses under way, and   *)
(* what a client concludes.                                                *)
(***************************************************************************)

(***************************************************************************)
(* The resource algebra of a replica's timestamp.                          *)
(***************************************************************************)
LEMMA ResourceKinds ==
  ASSUME NEW a \in Resource
  PROVE  /\ a.timestamp \in Timestamp
         /\ a.right \in {"none", "half", "full", "invalid"}
         /\ a.right = "invalid" <=> a = Invalid
         /\ a.right = "none" => a = LowerBound(a.timestamp)
         /\ a.right = "half" => a = HalfRightToAdvance(a.timestamp)
         /\ a.right = "full" => a = FullRightToAdvance(a.timestamp)
BY TsDefaultType
   DEF Resource, Valid, Invalid, LowerBound, HalfRightToAdvance, FullRightToAdvance

LEMMA OpType ==
  ASSUME NEW a \in Resource, NEW b \in Resource
  PROVE  op(a, b) \in Resource
BY ResourceKinds, TsDefaultType
   DEF op, Below, Resource, Valid, Invalid, LowerBound, FullRightToAdvance, TsMax

(* Two resources that can exist together can each exist. *)
THEOREM OpValid ==
  ASSUME NEW a \in Resource, NEW b \in Resource, valid(op(a, b))
  PROVE  valid(a) /\ valid(b)
BY DEF op, valid, Invalid

LEMMA TsMaxCommutes ==
  ASSUME NEW a \in Timestamp, NEW b \in Timestamp
  PROVE  TsMax(a, b) = TsMax(b, a)
BY TsTotal DEF TsMax, TsLe

(* Resources are joined in any order. *)
THEOREM OpCommutes ==
  ASSUME NEW a \in Resource, NEW b \in Resource
  PROVE  op(a, b) = op(b, a)
<1>1. TsMax(a.timestamp, b.timestamp) = TsMax(b.timestamp, a.timestamp)
  BY ResourceKinds, TsMaxCommutes
<1> QED
  BY <1>1, ResourceKinds DEF op

LEMMA TsMaxAssociates ==
  ASSUME NEW a \in Timestamp, NEW b \in Timestamp, NEW c \in Timestamp
  PROVE  /\ TsMax(a, TsMax(b, c)) = TsMax(TsMax(a, b), c)
         /\ TsLe(TsMax(a, b), c) <=> TsLe(a, c) /\ TsLe(b, c)
BY TsTotal, TsTransitive DEF TsMax, TsLe

LEMMA OpCases ==
  ASSUME NEW a \in Resource, NEW b \in Resource
  PROVE  /\ a.right = "invalid" \/ b.right = "invalid" => op(a, b) = Invalid
         /\ a.right = "none" /\ b.right = "none"
              => op(a, b) = LowerBound(TsMax(b.timestamp, a.timestamp))
         /\ a.right = "none" /\ b.right \in {"half", "full"} => op(a, b) = Below(a, b)
         /\ a.right \in {"half", "full"} /\ b.right = "none" => op(a, b) = Below(b, a)
         /\ a.right = "half" /\ b.right = "half"
              => op(a, b) = IF a.timestamp = b.timestamp
                            THEN FullRightToAdvance(a.timestamp) ELSE Invalid
         /\ a.right = "full" /\ b.right \in {"half", "full"} => op(a, b) = Invalid
         /\ a.right = "half" /\ b.right = "full" => op(a, b) = Invalid
BY ResourceKinds DEF op, Resource, Valid, Invalid, HalfRightToAdvance

(* Nor does it matter which are joined first. *)
THEOREM OpAssociates ==
  ASSUME NEW a \in Resource, NEW b \in Resource, NEW c \in Resource
  PROVE  op(a, op(b, c)) = op(op(a, b), c)
<1> DEFINE A == a.timestamp
           B == b.timestamp
           C == c.timestamp
<1>1. A \in Timestamp /\ B \in Timestamp /\ C \in Timestamp
  BY ResourceKinds
<1>2. op(a, b) \in Resource /\ op(b, c) \in Resource /\ Invalid \in Resource
  BY OpType, TsDefaultType DEF Resource
<1>3. CASE "invalid" \in {a.right, b.right, c.right}
  BY <1>2, <1>3, OpCases, ResourceKinds DEF Invalid
<1>4. CASE a.right = "none" /\ b.right = "none" /\ c.right = "none"
  BY <1>1, <1>2, <1>4, OpCases, TsMaxAssociates DEF LowerBound
<1>5. CASE a.right = "none" /\ b.right = "none" /\ c.right \in {"half", "full"}
  BY <1>1, <1>2, <1>5, OpCases, TsMaxAssociates DEF LowerBound, Below, Invalid
<1>6. CASE a.right = "none" /\ b.right \in {"half", "full"} /\ c.right = "none"
  BY <1>1, <1>2, <1>6, OpCases DEF Below, Invalid
<1>7. CASE a.right \in {"half", "full"} /\ b.right = "none" /\ c.right = "none"
  BY <1>1, <1>2, <1>7, OpCases, TsMaxAssociates DEF LowerBound, Below, Invalid
<1>8. CASE a.right = "none" /\ b.right \in {"half", "full"} /\ c.right \in {"half", "full"}
  BY <1>1, <1>2, <1>8, OpCases, ResourceKinds DEF Below, Invalid, FullRightToAdvance
<1>9. CASE a.right \in {"half", "full"} /\ b.right = "none" /\ c.right \in {"half", "full"}
  BY <1>1, <1>2, <1>9, OpCases, ResourceKinds DEF Below, Invalid, FullRightToAdvance
<1>10. CASE a.right \in {"half", "full"} /\ b.right \in {"half", "full"} /\ c.right = "none"
  BY <1>1, <1>2, <1>10, OpCases, ResourceKinds DEF Below, Invalid, FullRightToAdvance
<1>11. CASE /\ a.right \in {"half", "full"} /\ b.right \in {"half", "full"}
            /\ c.right \in {"half", "full"}
  BY <1>1, <1>2, <1>11, OpCases, ResourceKinds DEF Invalid, FullRightToAdvance
<1> QED
  BY <1>3, <1>4, <1>5, <1>6, <1>7, <1>8, <1>9, <1>10, <1>11, ResourceKinds

LEMMA ResourceConstructors ==
  ASSUME NEW v \in Timestamp
  PROVE  /\ LowerBound(v) \in Resource
         /\ HalfRightToAdvance(v) \in Resource
         /\ FullRightToAdvance(v) \in Resource
BY DEF LowerBound, HalfRightToAdvance, FullRightToAdvance, Resource, Valid

(* The unit adds nothing to any resource. *)
THEOREM OpUnit ==
  ASSUME NEW a \in Resource
  PROVE  op(a, unit) = a
<1>1. TsLe(TsDefault, a.timestamp) /\ ~ TsLt(a.timestamp, TsDefault)
  BY ResourceKinds, TsDefaultType, TsDefaultLeast, TsTotal DEF TsLe
<1>2. unit \in Resource /\ unit.right = "none" /\ unit.timestamp = TsDefault
  BY TsDefaultType, ResourceConstructors DEF unit, LowerBound
<1>3. TsMax(TsDefault, a.timestamp) = a.timestamp
  BY <1>1 DEF TsMax, TsLe
<1> QED
  BY <1>1, <1>2, <1>3, OpCases, ResourceKinds DEF Below

(* The halves of a right make the right again. *)
THEOREM SplitJoins ==
  ASSUME NEW v \in Timestamp
  PROVE  LET a == FullRightToAdvance(v) IN op(split(a), split(a)) = a
BY DEF op, split, FullRightToAdvance, HalfRightToAdvance

(* Two halves agree, and no bound exceeds a right. *)
THEOREM HalvesAgree ==
  ASSUME NEW v \in Timestamp, NEW w \in Timestamp
  PROVE  /\ valid(op(HalfRightToAdvance(v), HalfRightToAdvance(w))) => v = w
         /\ valid(op(HalfRightToAdvance(v), LowerBound(w))) <=> TsLe(w, v)
         /\ valid(op(FullRightToAdvance(v), LowerBound(w))) <=> TsLe(w, v)
BY DEF op, valid, Below, Invalid, LowerBound, HalfRightToAdvance, FullRightToAdvance

(* Whoever holds the whole right, or both halves, may advance it: nothing  *)
(* that anybody else can hold contradicts the greater timestamp.           *)
THEOREM MayAdvance ==
  ASSUME NEW v \in Timestamp, NEW w \in Timestamp, TsLt(v, w)
  PROVE  LET a == FullRightToAdvance(v) IN Updates(a, advance(a, w))
<1> SUFFICES ASSUME NEW f \in Resource, valid(op(FullRightToAdvance(v), f))
             PROVE  valid(op(FullRightToAdvance(w), f))
  BY DEF Updates, advance, FullRightToAdvance
<1>1. f.right = "none" /\ TsLe(f.timestamp, v)
  BY DEF op, valid, Below, Invalid, FullRightToAdvance
<1>2. TsLe(f.timestamp, w)
  BY <1>1, ResourceKinds, TsTransitive DEF TsLe
<1> QED
  BY <1>1, <1>2 DEF op, valid, Below, Invalid, FullRightToAdvance

(* A bound that is extracted or weakened takes nothing from its source.    *)
THEOREM BoundsAreDuplicable ==
  ASSUME NEW a \in Valid, NEW t \in Timestamp
  PROVE  /\ op(extract_lower_bound(a), a) = a
         /\ a.right = "none" /\ TsLe(t, a.timestamp) => op(weaken(a, t), a) = a
<1>1. a \in Resource /\ a.timestamp \in Timestamp /\ ~ TsLt(a.timestamp, a.timestamp)
  BY TsTotal DEF Resource, Valid
<1>2. extract_lower_bound(a) \in Resource /\ weaken(a, t) \in Resource
  BY <1>1, ResourceConstructors DEF extract_lower_bound, weaken
<1>3. op(extract_lower_bound(a), a) = a
  BY <1>1, <1>2, OpCases, ResourceKinds
     DEF Valid, extract_lower_bound, LowerBound, Below, TsMax, TsLe
<1>4. ASSUME a.right = "none", TsLe(t, a.timestamp) PROVE op(weaken(a, t), a) = a
  <2>1. ~ TsLt(a.timestamp, t)
    BY <1>1, <1>4, TsTotal DEF TsLe
  <2>2. TsMax(a.timestamp, t) = a.timestamp
    BY <2>1 DEF TsMax
  <2> QED
    BY <1>1, <1>2, <1>4, <2>2, OpCases, ResourceKinds DEF weaken, LowerBound
<1> QED
  BY <1>3, <1>4

-----------------------------------------------------------------------------
(***************************************************************************)
(* Views and quorums.                                                      *)
(***************************************************************************)
(* A finite set of timestamps has a greatest one. *)
LEMMA TsGreatest ==
  ASSUME NEW W \in SUBSET Timestamp, W # {}, IsFiniteSet(W)
  PROVE  \E t \in W : \A x \in W : TsLe(x, t)
<1> DEFINE Above(t) == {x \in W : TsLt(t, x)}
           Sizes == {Cardinality(Above(t)) : t \in W}
<1>1. \A t \in W : IsFiniteSet(Above(t)) /\ Cardinality(Above(t)) \in Nat
  BY FS_Subset, FS_CardinalityType
<1>2. PICK n \in Sizes : \A k \in Sizes : n <= k
  <2>1. Sizes \in SUBSET Nat /\ Sizes # {}
    BY <1>1
  <2> HIDE DEF Sizes
  <2> QED
    BY <2>1, NatLeast
<1>3. PICK t \in W : n = Cardinality(Above(t))
  BY <1>2
<1>4. ASSUME NEW x \in W, ~ TsLe(x, t) PROVE FALSE
  <2>1. TsLt(t, x)
    BY <1>4, TsTotal DEF TsLe
  <2>2. Above(x) \subseteq Above(t) /\ x \in Above(t) /\ x \notin Above(x)
    BY <2>1, TsTransitive, TsTotal
  <2>3. Cardinality(Above(x)) < Cardinality(Above(t))
    <3> HIDE DEF Above
    <3>1. Above(x) # Above(t)
      BY <2>2
    <3> QED
      BY <1>1, <2>2, <3>1, FS_Subset, FS_CardinalityType
  <2>4. Cardinality(Above(x)) \in Sizes
    OBVIOUS
  <2> HIDE DEF Above, Sizes
  <2> QED
    BY <1>1, <1>2, <1>3, <2>3, <2>4
<1> QED
  BY <1>4

IsUniverse(u) ==
  /\ IsFiniteSet(DOMAIN u)
  /\ u \in [DOMAIN u -> Timestamp]

(* lemma_quorum_timestamp_is_upper_bound, lemma_quorum_timestamp_witness.  *)
LEMMA QuorumTimestamp ==
  ASSUME NEW u, IsUniverse(u), NEW q, valid_quorum(u, q)
  PROVE  /\ quorum_timestamp(u, q) \in Timestamp
         /\ \E s \in q : quorum_timestamp(u, q) = u[s]
         /\ \A s \in q : TsLe(u[s], quorum_timestamp(u, q))
<1>1. IsFiniteSet(q) /\ q # {} /\ q \subseteq DOMAIN u
  BY FS_Subset DEF IsUniverse, valid_quorum
<1>2. IsFiniteSet(quorum_vals(u, q))
  <2> DEFINE f == [s \in q |-> u[s]]
  <2>1. f \in Surjection(q, quorum_vals(u, q))
    BY DEF quorum_vals, Surjection
  <2> HIDE DEF f
  <2> QED
    BY <1>1, <2>1, FS_Surjection
<1>3. quorum_vals(u, q) \in SUBSET Timestamp /\ quorum_vals(u, q) # {}
  BY <1>1 DEF quorum_vals, IsUniverse
<1>4. \E t \in quorum_vals(u, q) : \A x \in quorum_vals(u, q) : TsLe(x, t)
  BY <1>2, <1>3, TsGreatest
<1>5. /\ quorum_timestamp(u, q) \in quorum_vals(u, q)
      /\ \A x \in quorum_vals(u, q) : TsLe(x, quorum_timestamp(u, q))
  BY <1>4 DEF quorum_timestamp
<1> QED
  BY <1>3, <1>5 DEF quorum_vals

(* Two quorums share a replica: lemma_quorum_intersection. *)
LEMMA UniverseQuorumsIntersect ==
  ASSUME NEW u, IsFiniteSet(DOMAIN u), NEW p, valid_quorum(u, p),
         NEW q, valid_quorum(u, q)
  PROVE  \E s \in p : s \in q
<1> DEFINE D == DOMAIN u
<1>1. /\ p \subseteq D /\ q \subseteq D /\ IsFiniteSet(D)
      /\ 2 * Cardinality(p) > Cardinality(D)
      /\ 2 * Cardinality(q) > Cardinality(D)
  BY DEF valid_quorum
<1> HIDE DEF D
<1>2. /\ Cardinality(p) \in Nat /\ Cardinality(q) \in Nat
      /\ Cardinality(D) \in Nat
  BY <1>1, FS_Subset, FS_CardinalityType
<1>3. Cardinality(p) + Cardinality(q) > Cardinality(D)
  BY <1>1, <1>2
<1>4. p \cap q # {}
  BY <1>1, <1>3, FS_MajoritiesIntersect
<1> QED
  BY <1>4

(* The big quorum lemma: if one quorum is known to hold at least ts, every *)
(* quorum will tell of a timestamp no less than ts.                        *)
THEOREM QuorumLowerBound ==
  ASSUME NEW u, IsUniverse(u), NEW p, valid_quorum(u, p),
         NEW ts \in Timestamp, unanimous_quorum(u, p, ts)
  PROVE  QuorumsReach(u, ts)
<1> SUFFICES ASSUME NEW q \in SUBSET DOMAIN u, valid_quorum(u, q)
             PROVE  TsLe(ts, quorum_timestamp(u, q))
  BY DEF QuorumsReach
<1>1. PICK s \in p : s \in q
  BY UniverseQuorumsIntersect DEF IsUniverse
<1>2. s \in DOMAIN u /\ u[s] \in Timestamp
  BY <1>1 DEF IsUniverse, valid_quorum
<1>3. TsLe(ts, u[s]) /\ TsLe(u[s], quorum_timestamp(u, q))
  BY <1>1, QuorumTimestamp DEF unanimous_quorum
<1> QED
  BY <1>2, <1>3, QuorumTimestamp, TsTransitive

(* What every quorum is known to reach, it reaches when the replicas have  *)
(* gone further: lemma_leq_quorums and lemma_leq_quorum_timestamp.         *)
THEOREM QuorumsKeepReaching ==
  ASSUME NEW u, IsUniverse(u), NEW w, IsUniverse(w), leq(u, w),
         NEW q, valid_quorum(u, q)
  PROVE  /\ valid_quorum(w, q)
         /\ TsLe(quorum_timestamp(u, q), quorum_timestamp(w, q))
         /\ \A min \in Timestamp : QuorumsReach(u, min) => QuorumsReach(w, min)
<1>1. ASSUME NEW p, valid_quorum(u, p)
      PROVE  valid_quorum(w, p) /\ TsLe(quorum_timestamp(u, p), quorum_timestamp(w, p))
  <2>1. valid_quorum(w, p)
    BY <1>1 DEF valid_quorum, leq
  <2>2. PICK s \in p : quorum_timestamp(u, p) = u[s]
    BY <1>1, QuorumTimestamp
  <2>3. s \in DOMAIN u /\ s \in DOMAIN w
    BY <1>1, <2>1 DEF valid_quorum
  <2>4. TsLe(u[s], w[s]) /\ TsLe(w[s], quorum_timestamp(w, p))
    BY <2>1, <2>3, QuorumTimestamp DEF leq
  <2>5. u[s] \in Timestamp /\ w[s] \in Timestamp /\ quorum_timestamp(w, p) \in Timestamp
    BY <2>1, <2>3, QuorumTimestamp DEF IsUniverse
  <2> QED
    BY <2>1, <2>2, <2>4, <2>5, TsTransitive
<1>2. ASSUME NEW min \in Timestamp, QuorumsReach(u, min),
             NEW p \in SUBSET DOMAIN w, valid_quorum(w, p)
      PROVE  TsLe(min, quorum_timestamp(w, p))
  <2>1. p \in SUBSET DOMAIN u /\ valid_quorum(u, p)
    BY <1>2 DEF valid_quorum, leq
  <2>2. /\ TsLe(min, quorum_timestamp(u, p))
        /\ TsLe(quorum_timestamp(u, p), quorum_timestamp(w, p))
    BY <1>1, <1>2, <2>1 DEF QuorumsReach
  <2>3. quorum_timestamp(u, p) \in Timestamp /\ quorum_timestamp(w, p) \in Timestamp
    BY <1>2, <2>1, QuorumTimestamp
  <2> QED
    BY <2>2, <2>3, TsTransitive
<1> QED
  BY <1>1, <1>2 DEF QuorumsReach

-----------------------------------------------------------------------------
(***************************************************************************)
(* The requests and responses under way.                                   *)
(***************************************************************************)
(* View u is one of lower bounds of what the replicas hold. *)
Under(u) ==
  /\ u \in View
  /\ \A s \in Servers : TsLe(u[s], server[s].timestamp)

(* Tags are taken in turn, and the request a client waits on is issued.    *)
IssuedTagged ==
  /\ \A k \in DOMAIN issued : k[2] < request_ctr[k[1]]
  /\ \A c \in Clients : phase[c] # "idle" => Key(request[c]) \in DOMAIN issued

AllUnder ==
  /\ \A c \in Clients : Under(views[c])
  /\ \A k \in DOMAIN issued : Under(issued[k].servers)
  /\ \A b \in bounds : TsLe(b.lb, server[b.response.server].timestamp)

UInv ==
  /\ Inv
  /\ UniTypeOK
  /\ AllUnder
  /\ IssuedTagged
  /\ ProofsAgree
  /\ ResponsesReach

(* The steps by which a client issues a request: it takes a tag, and begins *)
(* with a view that holds no more than the replicas do.                    *)
Issues(c) ==
  \E type, to, timestamp, value, u :
    /\ Broadcast(c, type, to, timestamp, value)
    /\ issue_request_proof(request'[c], u)
    /\ Under(u)
    /\ \E w : Under(w) /\ Knows(c, w)
    /\ \A d \in Clients \ {c} : phase'[d] = phase[d]
    /\ UNCHANGED server

(* The steps by which a client learns, or forgets. *)
Learns(c) ==
  /\ \E w : Under(w) /\ Knows(c, w)
  /\ \A d \in Clients : phase'[d] # "idle" =>
        phase[d] # "idle" /\ request'[d] = request[d]
  /\ responses' \subseteq responses
  /\ UNCHANGED <<server, requests, request_ctr, issued>>

LEMMA UniStepsAreSteps == [UniNext]_univars => [Next]_vars
BY DEF UniNext, UniHandle, UniReadInvoke, UniWriteInvoke, UniDeliver, UniInsertGet,
   UniInsertWriteBack, UniInsertGetTimestamp, UniInsertWrite, UniReadWriteBack,
   UniWriteExecute, UniLeave, Next, Deliver, Advance, univars

(* The request map, the views and the bounds add nothing to what the       *)
(* register does: what is proved of it holds beside them, too.             *)
THEOREM UniIsAbd == UniSpec => Spec
<1>1. UniInit => Init
  BY DEF UniInit
<1> QED
  BY <1>1, UniStepsAreSteps, PTL DEF UniSpec, Spec

LEMMA ExtractUnder == ASSUME TypeOK PROVE Under(extract_lbs)
<1>1. \A s \in Servers : server[s].timestamp \in Timestamp
  BY FieldTypes
<1> QED
  BY <1>1 DEF Under, View, extract_lbs, TsLe

LEMMA NoViewUnder == ASSUME TypeOK PROVE Under(NoView)
<1>1. \A s \in Servers : server[s].timestamp \in Timestamp
  BY FieldTypes
<1> QED
  BY <1>1, TsDefaultType, TsDefaultLeast DEF Under, View, NoView

LEMMA UpdateUnder ==
  ASSUME UInv, NEW c \in Clients, NEW b \in bounds
  PROVE  /\ Under(tracked_update_lb(views[c], b.response.server, b.lb))
         /\ b.response \in Response
<1>1. /\ Under(views[c]) /\ b.lb \in Timestamp /\ b.response \in Response
      /\ TsLe(b.lb, server[b.response.server].timestamp)
  BY DEF UInv, UniTypeOK, Bound, AllUnder
<1> QED
  BY <1>1 DEF Under, View, tracked_update_lb

(* Every step is of one of these kinds. *)
LEMMA UniStepKinds ==
  ASSUME UInv, [UniNext]_univars
  PROVE  \/ \E s \in Servers, r \in requests : UniHandle(s, r)
         \/ \E c \in Clients : Issues(c)
         \/ \E c \in Clients : Learns(c)
         \/ /\ UNCHANGED <<server, requests, responses, phase, request, request_ctr>>
            /\ UNCHANGED known
<1>1. TypeOK
  BY DEF UInv, Inv
<1>2. ASSUME NEW c \in Clients, UniReadInvoke(c) PROVE Issues(c)
  <2>1. /\ Broadcast(c, "Get", Servers, TsDefault, None)
        /\ \A d \in Clients \ {c} : phase'[d] = phase[d]
        /\ UNCHANGED server
    BY <1>1, <1>2, ReadInvokeFrame DEF UniReadInvoke, Others
  <2> QED
    BY <1>1, <1>2, <2>1, ExtractUnder DEF Issues, UniReadInvoke
<1>3. ASSUME NEW c \in Clients, NEW v \in Arguments, UniWriteInvoke(c, v) PROVE Issues(c)
  <2>1. /\ Broadcast(c, "GetTimestamp", Servers, TsDefault, None)
        /\ \A d \in Clients \ {c} : phase'[d] = phase[d]
        /\ UNCHANGED server
    BY <1>1, <1>3, WriteInvokeFrame DEF UniWriteInvoke, Others
  <2> QED
    BY <1>1, <1>3, <2>1, ExtractUnder DEF Issues, UniWriteInvoke
<1>4. ASSUME NEW c \in Clients, UniReadWriteBack(c) PROVE Issues(c)
  <2>1. /\ phase[c] = "get"
        /\ Broadcast(c, "Write", Servers \ agree_with_max[c],
                     max_resp[c].timestamp, max_resp[c].value)
        /\ \A d \in Clients \ {c} : phase'[d] = phase[d]
        /\ UNCHANGED server
    BY <1>1, <1>4, ReadWriteBackFrame DEF UniReadWriteBack, Others
  <2>2. Key(request[c]) \in DOMAIN issued
    BY <2>1 DEF UInv, IssuedTagged
  <2>3. Under(issued[Key(request[c])].servers) /\ Under(views[c])
    BY <2>2 DEF UInv, AllUnder
  <2> QED
    BY <1>4, <2>1, <2>3 DEF Issues, UniReadWriteBack
<1>5. ASSUME NEW c \in Clients, UniWriteExecute(c) PROVE Issues(c)
  <2>1. /\ Broadcast(c, "Write", Servers, ExecTimestamp(c), new_value[c])
        /\ \A d \in Clients \ {c} : phase'[d] = phase[d]
        /\ UNCHANGED server
    BY <1>1, <1>5, WriteExecuteFrame DEF UniWriteExecute, Others
  <2> QED
    BY <1>1, <1>5, <2>1, ExtractUnder DEF Issues, UniWriteExecute
<1>6. ASSUME NEW c \in Clients, NEW b \in bounds, UniDeliver(c, b) PROVE Learns(c)
  <2>1. b.response \in responses /\ Deliver(c, b.response) /\ UNCHANGED issued
    BY <1>6 DEF UniDeliver, UniInsertGet, UniInsertWriteBack, UniInsertGetTimestamp,
       UniInsertWrite, Deliver
  <2>2. /\ responses' \subseteq responses
        /\ UNCHANGED <<server, requests, phase, request, request_ctr>>
    BY <1>1, <2>1, DeliverFrame DEF client
  <2>3. \E w : Under(w) /\ Knows(c, w)
    <3>1. Under(views[c])
      BY DEF UInv, AllUnder
    <3> QED
      BY <1>6, <3>1, UpdateUnder
         DEF UniDeliver, UniInsertGet, UniInsertWriteBack, UniInsertGetTimestamp,
             UniInsertWrite, Raise
  <2> QED
    BY <2>1, <2>2, <2>3 DEF Learns
<1>7. ASSUME NEW c \in Clients, UniLeave(c) PROVE Learns(c)
  <2>1. Leaves(c) /\ Knows(c, NoView) /\ UNCHANGED issued
    BY <1>7 DEF UniLeave, Leaves
  <2>2. /\ phase'[c] = "idle" /\ responses' \subseteq responses
        /\ UNCHANGED <<server, requests, request_ctr>>
        /\ \A d \in Clients \ {c} : phase'[d] = phase[d] /\ request'[d] = request[d]
    BY <1>1, <2>1, LeaveFrame DEF Others
  <2> QED
    BY <1>1, <2>1, <2>2, NoViewUnder DEF Learns
<1>8. ASSUME NEW c \in Clients, NEW s \in Servers, LinkFailure(c, s)
      PROVE  UNCHANGED <<server, requests, responses, phase, request, request_ctr>>
  BY <1>8 DEF LinkFailure, LinkBreaks, LinkRecovers, InsertError, client
<1>9. CASE UNCHANGED univars
  BY <1>9 DEF univars, vars, client
<1> QED
  BY <1>2, <1>3, <1>4, <1>5, <1>6, <1>7, <1>8, <1>9 DEF UniNext

-----------------------------------------------------------------------------
(* What happens to the abstract register meanwhile. *)
LEMMA BelowStep ==
  ASSUME UInv, [UniNext]_univars
  PROVE  /\ TypeOK /\ Inv' /\ TypeOK'
         /\ \A u : Under(u) => \A s \in Servers : TsLe(u[s], server'[s].timestamp)
         /\ \A s \in Servers : \A t \in Timestamp :
              TsLe(t, server[s].timestamp) => TsLe(t, server'[s].timestamp)
<1>1. [Next]_vars
  BY UniStepsAreSteps
<1>2. Inv' /\ TypeOK /\ TypeOK'
  BY <1>1, InvStep DEF UInv, Inv
<1>3. \A s \in Servers : \A t \in Timestamp :
        TsLe(t, server[s].timestamp) => TsLe(t, server'[s].timestamp)
  BY <1>1, <1>2, ServersKeep
<1> QED
  BY <1>2, <1>3 DEF Under, View

LEMMA IssuesFrame ==
  ASSUME UInv, [UniNext]_univars, NEW c \in Clients, Issues(c)
  PROVE  /\ Key(request'[c]) = <<c, request_ctr[c]>>
         /\ Key(request'[c]) \notin DOMAIN issued
         /\ DOMAIN issued' = DOMAIN issued \cup {<<c, request_ctr[c]>>}
         /\ \A k \in DOMAIN issued : issued'[k] = issued[k]
         /\ \E u : /\ Under(u)
                   /\ issued'[<<c, request_ctr[c]>>] =
                        [type |-> request'[c].type, timestamp |-> request'[c].timestamp,
                         value |-> request'[c].value, servers |-> u]
         /\ requests' = requests \cup {request'[c]}
         /\ responses' \subseteq responses
         /\ request_ctr'[c] = request_ctr[c] + 1
         /\ \A d \in Clients \ {c} : /\ phase'[d] = phase[d]
                                     /\ request'[d] = request[d]
                                     /\ request_ctr'[d] = request_ctr[d]
         /\ bounds' = {b \in bounds : b.response \in responses'}
         /\ \E w : Under(w) /\ views' = [views EXCEPT ![c] = w]
         /\ UNCHANGED server
<1>1. TypeOK /\ request_ctr[c] \in Nat
  BY BelowStep, FieldTypes
<1>2. PICK type, to, timestamp, value, u :
        /\ Broadcast(c, type, to, timestamp, value)
        /\ issue_request_proof(request'[c], u)
        /\ Under(u)
        /\ \E w : Under(w) /\ Knows(c, w)
        /\ \A d \in Clients \ {c} : phase'[d] = phase[d]
        /\ UNCHANGED server
  BY DEF Issues
<1>3. /\ request'[c].client = c /\ request'[c].id = request_ctr[c]
      /\ requests' = requests \cup {request'[c]}
      /\ responses' \subseteq responses
      /\ request_ctr'[c] = request_ctr[c] + 1
      /\ \A d \in Clients \ {c} : /\ request'[d] = request[d]
                                  /\ request_ctr'[d] = request_ctr[d]
  BY <1>1, <1>2, BroadcastFrame
<1>4. Key(request'[c]) = <<c, request_ctr[c]>>
  BY <1>3 DEF Key
<1>5. <<c, request_ctr[c]>> \notin DOMAIN issued
  BY <1>1 DEF UInv, IssuedTagged
<1>6. /\ DOMAIN issued' = DOMAIN issued \cup {<<c, request_ctr[c]>>}
      /\ \A k \in DOMAIN issued : issued'[k] = issued[k]
      /\ issued'[<<c, request_ctr[c]>>] =
           [type |-> request'[c].type, timestamp |-> request'[c].timestamp,
            value |-> request'[c].value, servers |-> u]
  BY <1>2, <1>4, <1>5 DEF issue_request_proof
<1> QED
  BY <1>2, <1>3, <1>4, <1>5, <1>6 DEF Knows

-----------------------------------------------------------------------------
(* The inductive step, conjunct by conjunct. *)
LEMMA UniTypeStep ==
  ASSUME UInv, [UniNext]_univars
  PROVE  UniTypeOK'
<1>1. UniTypeOK /\ TypeOK /\ TypeOK'
  BY BelowStep DEF UInv
<1>2. ASSUME NEW s \in Servers, NEW r \in requests, UniHandle(s, r)
      PROVE  UniTypeOK'
  <2>1. Answers(s, r) \subseteq Response
    BY <1>1 DEF Answers, TypeOK
  <2>2. server'[s].timestamp \in Timestamp
    BY <1>1 DEF TypeOK, Register
  <2> QED
    BY <1>1, <1>2, <2>1, <2>2 DEF UniTypeOK, UniHandle, Bound
<1>3. ASSUME NEW c \in Clients, Issues(c) PROVE UniTypeOK'
  <2>1. request_ctr[c] \in Nat /\ request'[c] \in Request
    BY <1>1 DEF TypeOK
  <2>2. <<c, request_ctr[c]>> \in Clients \X Nat
    BY <2>1
  <2>3. issued'[<<c, request_ctr[c]>>] \in IssuedRequest
    <3>1. PICK u : /\ Under(u)
                   /\ issued'[<<c, request_ctr[c]>>] =
                        [type |-> request'[c].type, timestamp |-> request'[c].timestamp,
                         value |-> request'[c].value, servers |-> u]
      BY <1>3, IssuesFrame
    <3>2. /\ request'[c].type \in {"Get", "GetTimestamp", "Write"}
          /\ request'[c].timestamp \in Timestamp /\ request'[c].value \in Values
      BY <2>1 DEF Request
    <3> QED
      BY <3>1, <3>2 DEF IssuedRequest, Under
  <2>4. /\ DOMAIN issued' = DOMAIN issued \cup {<<c, request_ctr[c]>>}
        /\ \A k \in DOMAIN issued : issued'[k] = issued[k]
        /\ bounds' \subseteq bounds
    BY <1>3, IssuesFrame
  <2>5. \A k \in DOMAIN issued' : issued'[k] \in IssuedRequest
    BY <1>1, <2>3, <2>4 DEF UniTypeOK
  <2>6. views' \in [Clients -> View]
    <3>1. PICK w : Under(w) /\ views' = [views EXCEPT ![c] = w]
      BY <1>3, IssuesFrame
    <3> QED
      BY <1>1, <3>1 DEF UniTypeOK, Under
  <2> QED
    BY <1>1, <2>2, <2>4, <2>5, <2>6 DEF UniTypeOK
<1>4. ASSUME NEW c \in Clients, Learns(c) PROVE UniTypeOK'
  BY <1>1, <1>4 DEF UniTypeOK, Learns, Knows, Under
<1>5. CASE UNCHANGED known
  BY <1>1, <1>5 DEF UniTypeOK, known
<1> QED
  BY <1>2, <1>3, <1>4, <1>5, UniStepKinds

LEMMA AllUnderStep ==
  ASSUME UInv, [UniNext]_univars
  PROVE  AllUnder'
<1> DEFINE Still(u) == u \in View /\ \A s \in Servers : TsLe(u[s], server'[s].timestamp)
<1>1. \A u : Under(u) => Still(u)
  BY BelowStep DEF Under
<1>2. /\ \A c \in Clients : Still(views[c])
      /\ \A k \in DOMAIN issued : Still(issued[k].servers)
  BY <1>1 DEF UInv, AllUnder
<1>3. \A b \in bounds : TsLe(b.lb, server'[b.response.server].timestamp)
  <2>1. ASSUME NEW b \in bounds
        PROVE  TsLe(b.lb, server'[b.response.server].timestamp)
    <3>1. /\ b.response.server \in Servers /\ b.lb \in Timestamp
          /\ TsLe(b.lb, server[b.response.server].timestamp)
      BY DEF UInv, UniTypeOK, Bound, Response, AllUnder
    <3> QED
      BY <3>1, BelowStep
  <2> QED
    BY <2>1
<1> SUFFICES /\ \A c \in Clients : Still(views'[c])
             /\ \A k \in DOMAIN issued' : Still(issued'[k].servers)
             /\ \A b \in bounds' : TsLe(b.lb, server'[b.response.server].timestamp)
  BY DEF AllUnder, Under
<1> DEFINE Goal == /\ \A c \in Clients : Still(views'[c])
                   /\ \A k \in DOMAIN issued' : Still(issued'[k].servers)
                   /\ \A b \in bounds' : TsLe(b.lb, server'[b.response.server].timestamp)
<1> HIDE DEF Still
<1>4. ASSUME NEW s \in Servers, NEW r \in requests, UniHandle(s, r)
      PROVE  Goal
  <2>1. \A m \in Answers(s, r) : m.server = s
    BY DEF Answers
  <2>2. ASSUME NEW b \in bounds'
        PROVE  TsLe(b.lb, server'[b.response.server].timestamp)
    BY <1>3, <1>4, <2>1 DEF UniHandle, TsLe
  <2> QED
    BY <1>2, <1>4, <2>2 DEF UniHandle
<1>5. ASSUME NEW c \in Clients, Issues(c) PROVE Goal
  <2>1. \A d \in Clients : Still(views'[d])
    BY <1>1, <1>2, <1>5, IssuesFrame DEF UInv, UniTypeOK
  <2>2. \A k \in DOMAIN issued' : Still(issued'[k].servers)
    <3>1. PICK u : /\ Under(u)
                   /\ issued'[<<c, request_ctr[c]>>] =
                        [type |-> request'[c].type, timestamp |-> request'[c].timestamp,
                         value |-> request'[c].value, servers |-> u]
      BY <1>5, IssuesFrame
    <3>2. Still(issued'[<<c, request_ctr[c]>>].servers)
      BY <1>1, <3>1
    <3>3. /\ DOMAIN issued' = DOMAIN issued \cup {<<c, request_ctr[c]>>}
          /\ \A k \in DOMAIN issued : issued'[k] = issued[k]
      BY <1>5, IssuesFrame
    <3> QED
      BY <1>2, <3>2, <3>3
  <2> QED
    BY <1>3, <1>5, <2>1, <2>2, IssuesFrame
<1>6. ASSUME NEW c \in Clients, Learns(c) PROVE Goal
  BY <1>1, <1>2, <1>3, <1>6 DEF Learns, Knows, UInv, UniTypeOK
<1>7. CASE UNCHANGED known
  BY <1>2, <1>3, <1>7 DEF known
<1> QED
  BY <1>4, <1>5, <1>6, <1>7, UniStepKinds

LEMMA IssuedTaggedStep ==
  ASSUME UInv, [UniNext]_univars
  PROVE  IssuedTagged'
<1>1. IssuedTagged /\ TypeOK /\ \A c \in Clients : request_ctr[c] \in Nat
  BY BelowStep, FieldTypes DEF UInv
<1>2. \A k \in DOMAIN issued : k[1] \in Clients /\ k[2] \in Nat
  BY DEF UInv, UniTypeOK
<1>3. ASSUME NEW s \in Servers, NEW r \in requests, UniHandle(s, r)
      PROVE  IssuedTagged'
  BY <1>1, <1>3, HandleFrame DEF UniHandle, IssuedTagged, client
<1>4. ASSUME NEW c \in Clients, Issues(c) PROVE IssuedTagged'
  <2>1. ASSUME NEW k \in DOMAIN issued' PROVE k[2] < request_ctr'[k[1]]
    <3>1. /\ DOMAIN issued' = DOMAIN issued \cup {<<c, request_ctr[c]>>}
          /\ request_ctr'[c] = request_ctr[c] + 1
          /\ \A d \in Clients \ {c} : request_ctr'[d] = request_ctr[d]
      BY <1>4, IssuesFrame
    <3>2. CASE k = <<c, request_ctr[c]>>
      BY <1>1, <3>1, <3>2
    <3>3. CASE k \in DOMAIN issued
      <4>1. k[1] \in Clients /\ k[2] \in Nat /\ k[2] < request_ctr[k[1]]
        BY <1>1, <1>2, <3>3 DEF IssuedTagged
      <4>2. request_ctr[k[1]] \in Nat
        BY <1>1, <4>1
      <4>3. request_ctr'[k[1]] \in {request_ctr[k[1]], request_ctr[k[1]] + 1}
        <5>1. CASE k[1] = c
          BY <3>1, <5>1
        <5>2. CASE k[1] # c
          BY <3>1, <4>1, <5>2
        <5> QED
          BY <5>1, <5>2
      <4> QED
        BY <4>1, <4>2, <4>3
    <3> QED
      BY <3>1, <3>2, <3>3
  <2>2. \A d \in Clients : phase'[d] # "idle" => Key(request'[d]) \in DOMAIN issued'
    BY <1>1, <1>4, IssuesFrame DEF IssuedTagged
  <2> QED
    BY <2>1, <2>2 DEF IssuedTagged, Key
<1>5. ASSUME NEW c \in Clients, Learns(c) PROVE IssuedTagged'
  BY <1>1, <1>5 DEF Learns, IssuedTagged, Key
<1>6. CASE UNCHANGED <<phase, request, request_ctr>> /\ UNCHANGED known
  BY <1>1, <1>6 DEF IssuedTagged, known, Key
<1> QED
  BY <1>3, <1>4, <1>5, <1>6, UniStepKinds

LEMMA RequestsAfterHandle ==
  ASSUME TypeOK, NEW s \in Servers, NEW r \in requests, Consume(s, r),
         NEW q \in requests'
  PROVE  \E p \in requests : /\ Key(q) = Key(p) /\ q.type = p.type
                             /\ q.timestamp = p.timestamp /\ q.value = p.value
<1>1. r \in Request
  BY DEF TypeOK
<1>2. CASE q \in requests
  BY <1>2
<1>3. CASE q = [r EXCEPT !.to = @ \ {s}]
  BY <1>1, <1>3 DEF Request, Key
<1> QED
  BY <1>2, <1>3 DEF Consume

(* What a replica holds after it handled a write, and that nothing else    *)
(* changes it.                                                             *)
LEMMA HandledHolds ==
  ASSUME TypeOK, NEW s \in Servers, NEW r \in requests, Handle(s, r)
  PROVE  /\ r.type = "Write" => TsLe(r.timestamp, server'[s].timestamp)
         /\ r.type # "Write" => server' = server
<1>1. ASSUME HandleWrite(s, r) PROVE TsLe(r.timestamp, server'[s].timestamp)
  <2>1. server[s].timestamp \in Timestamp /\ r.timestamp \in Timestamp
    BY FieldTypes
  <2> QED
    BY <1>1, <2>1, TsTotal DEF HandleWrite, TypeOK, TsLe
<1> QED
  BY <1>1 DEF Handle, HandleGet, HandleGetTimestamp, HandleWrite

(* Every new response is among the answers, which carry the bound.         *)
LEMMA NewResponses ==
  ASSUME TypeOK, NEW s \in Servers, NEW r \in requests, Handle(s, r),
         NEW m \in responses', m \notin responses
  PROVE  m \in Answers(s, r) /\ m.type = r.type
<1>1. /\ m.client = r.client /\ m.type = r.type /\ m.server = s
      /\ m.type # "Write" => m.timestamp = server[s].timestamp
  BY HandleResponds
<1>2. m.id = r.id
  BY DEF Handle, HandleGet, HandleGetTimestamp, HandleWrite, Respond
<1>3. m.type # "Write" => server' = server
  BY <1>1, HandledHolds
<1> QED
  BY <1>1, <1>2, <1>3 DEF Answers, Key

LEMMA ProofsAgreeStep ==
  ASSUME UInv, [UniNext]_univars
  PROVE  ProofsAgree'
<1>1. ProofsAgree /\ TypeOK
  BY BelowStep DEF UInv
<1>2. ASSUME NEW s \in Servers, NEW r \in requests, UniHandle(s, r)
      PROVE  ProofsAgree'
  <2>1. Handle(s, r) /\ Consume(s, r) /\ UNCHANGED issued /\ bounds \subseteq bounds'
    BY <1>2, HandleFrame DEF UniHandle
  <2>2. ASSUME NEW q \in requests'
        PROVE  /\ Key(q) \in DOMAIN issued
               /\ issued[Key(q)].type = q.type
               /\ issued[Key(q)].timestamp = q.timestamp
               /\ issued[Key(q)].value = q.value
    <3>1. PICK p \in requests : /\ Key(q) = Key(p) /\ q.type = p.type
                                /\ q.timestamp = p.timestamp /\ q.value = p.value
      BY <1>1, <2>1, RequestsAfterHandle
    <3> QED
      BY <1>1, <3>1 DEF ProofsAgree
  <2>3. ASSUME NEW m \in responses'
        PROVE  /\ Key(m) \in DOMAIN issued
               /\ issued[Key(m)].type = m.type
               /\ \E b \in bounds' : b.response = m
    <3>1. CASE m \in responses
      BY <1>1, <2>1, <3>1 DEF ProofsAgree
    <3>2. CASE m \notin responses
      <4>1. m \in Answers(s, r) /\ m.type = r.type
        BY <1>1, <2>1, <3>2, NewResponses
      <4>2. Key(m) = Key(r)
        BY <4>1 DEF Answers
      <4>3. [response |-> m, lb |-> server'[s].timestamp] \in bounds'
        BY <1>2, <4>1 DEF UniHandle
      <4> QED
        BY <1>1, <4>1, <4>2, <4>3 DEF ProofsAgree
    <3> QED
      BY <3>1, <3>2
  <2> QED
    BY <2>1, <2>2, <2>3 DEF ProofsAgree, Key
<1>3. ASSUME NEW c \in Clients, Issues(c) PROVE ProofsAgree'
  <2>1. /\ Key(request'[c]) = <<c, request_ctr[c]>>
        /\ DOMAIN issued' = DOMAIN issued \cup {<<c, request_ctr[c]>>}
        /\ \A k \in DOMAIN issued : issued'[k] = issued[k]
        /\ requests' = requests \cup {request'[c]}
        /\ responses' \subseteq responses
        /\ bounds' = {b \in bounds : b.response \in responses'}
    BY <1>3, IssuesFrame
  <2>2. /\ issued'[Key(request'[c])].type = request'[c].type
        /\ issued'[Key(request'[c])].timestamp = request'[c].timestamp
        /\ issued'[Key(request'[c])].value = request'[c].value
    <3>1. PICK u : /\ Under(u)
                   /\ issued'[<<c, request_ctr[c]>>] =
                        [type |-> request'[c].type, timestamp |-> request'[c].timestamp,
                         value |-> request'[c].value, servers |-> u]
      BY <1>3, IssuesFrame
    <3> QED
      BY <2>1, <3>1
  <2>3. ASSUME NEW q \in requests'
        PROVE  /\ Key(q) \in DOMAIN issued'
               /\ issued'[Key(q)].type = q.type
               /\ issued'[Key(q)].timestamp = q.timestamp
               /\ issued'[Key(q)].value = q.value
    <3>1. CASE q = request'[c]
      BY <2>1, <2>2, <3>1
    <3>2. CASE q \in requests
      BY <1>1, <2>1, <3>2 DEF ProofsAgree
    <3> QED
      BY <2>1, <3>1, <3>2
  <2>4. ASSUME NEW m \in responses'
        PROVE  /\ Key(m) \in DOMAIN issued'
               /\ issued'[Key(m)].type = m.type
               /\ \E b \in bounds' : b.response = m
    BY <1>1, <2>1 DEF ProofsAgree
  <2> QED
    BY <2>3, <2>4 DEF ProofsAgree, Key
<1>4. ASSUME NEW c \in Clients, Learns(c) PROVE ProofsAgree'
  <2>1. /\ UNCHANGED <<requests, issued>> /\ responses' \subseteq responses
        /\ bounds' = {b \in bounds : b.response \in responses'}
    BY <1>4 DEF Learns, Knows
  <2> QED
    BY <1>1, <2>1 DEF ProofsAgree, Key
<1>5. CASE UNCHANGED <<requests, responses>> /\ UNCHANGED known
  BY <1>1, <1>5 DEF ProofsAgree, known, Key
<1> QED
  BY <1>2, <1>3, <1>4, <1>5, UniStepKinds

LEMMA ResponsesReachStep ==
  ASSUME UInv, [UniNext]_univars, ProofsAgree'
  PROVE  ResponsesReach'
<1>1. ProofsAgree /\ ResponsesReach /\ TypeOK
  BY BelowStep DEF UInv
<1>2. ASSUME NEW s \in Servers, NEW r \in requests, UniHandle(s, r)
      PROVE  ResponsesReach'
  <2>1. Handle(s, r) /\ UNCHANGED issued
    BY <1>2 DEF UniHandle
  <2>2. /\ Key(r) \in DOMAIN issued /\ issued[Key(r)].type = r.type
        /\ issued[Key(r)].timestamp = r.timestamp
    BY <1>1 DEF ProofsAgree
  <2>3. TsLe(issued[Key(r)].servers[s], server'[s].timestamp)
    <3>1. Under(issued[Key(r)].servers)
      BY <2>2 DEF UInv, AllUnder
    <3> QED
      BY <3>1, BelowStep
  <2>4. ASSUME NEW m \in Answers(s, r)
        PROVE  /\ Key(m) = Key(r) /\ m.server = s
               /\ m.type = "Write" => TsLe(r.timestamp, server'[s].timestamp)
               /\ m.type # "Write" => m.timestamp = server'[s].timestamp
    <3>1. /\ m \in responses' /\ Key(m) = Key(r) /\ m.server = s
          /\ m.type # "Write" => m.timestamp = server'[s].timestamp
      BY DEF Answers
    <3>2. m.type = r.type
      BY <2>1, <2>2, <3>1 DEF ProofsAgree, Key
    <3> QED
      BY <1>1, <2>1, <3>1, <3>2, HandledHolds
  <2>5. ASSUME NEW b \in bounds'
        PROVE  /\ TsLe(issued[Key(b.response)].servers[b.response.server], b.lb)
               /\ b.response.type = "Write"
                    => TsLe(issued[Key(b.response)].timestamp, b.lb)
               /\ b.response.type # "Write" => b.response.timestamp = b.lb
    <3>1. CASE b \in bounds
      BY <1>1, <3>1 DEF ResponsesReach, server_lower_bound
    <3>2. CASE \E m \in Answers(s, r) :
                 b = [response |-> m, lb |-> server'[s].timestamp]
      BY <2>2, <2>3, <2>4, <3>2
    <3> QED
      BY <1>2, <3>1, <3>2 DEF UniHandle
  <2> QED
    BY <2>1, <2>5 DEF ResponsesReach, server_lower_bound, Key
<1>3. ASSUME bounds' \subseteq {b \in bounds : b.response \in responses},
             \A k \in DOMAIN issued : issued'[k] = issued[k]
      PROVE  ResponsesReach'
  <2>1. \A b \in bounds' : Key(b.response) \in DOMAIN issued
    BY <1>1, <1>3 DEF ProofsAgree
  <2> QED
    BY <1>1, <1>3, <2>1 DEF ResponsesReach, server_lower_bound, Key
<1>4. ASSUME NEW c \in Clients, Issues(c) PROVE ResponsesReach'
  BY <1>3, <1>4, IssuesFrame
<1>5. ASSUME NEW c \in Clients, Learns(c) PROVE ResponsesReach'
  BY <1>3, <1>5 DEF Learns, Knows
<1>6. CASE UNCHANGED known
  BY <1>1, <1>6 DEF ResponsesReach, known, server_lower_bound, Key
<1> QED
  BY <1>2, <1>4, <1>5, <1>6, UniStepKinds

-----------------------------------------------------------------------------
LEMMA UInvInit == UniInit => UInv
<1> SUFFICES ASSUME UniInit PROVE UInv
  OBVIOUS
<1>1. Inv /\ TypeOK
  BY InvInit DEF UniInit, Inv
<1>2. Under(NoView)
  BY <1>1, NoViewUnder
<1>3. /\ DOMAIN issued = {} /\ bounds = {} /\ requests = {} /\ responses = {}
      /\ views = [c \in Clients |-> NoView] /\ \A c \in Clients : phase[c] = "idle"
  BY DEF UniInit, Init
<1> QED
  BY <1>1, <1>2, <1>3 DEF UInv, UniTypeOK, AllUnder, IssuedTagged, ProofsAgree,
     ResponsesReach, Under

(* The invariant that the ghost state of a client rests on. *)
THEOREM UInvCorrect == UniSpec => []UInv
<1>1. UInv /\ [UniNext]_univars => UInv'
  BY BelowStep, UniTypeStep, AllUnderStep, IssuedTaggedStep, ProofsAgreeStep,
     ResponsesReachStep DEF UInv
<1> QED
  BY <1>1, UInvInit, PTL DEF UniSpec

(* The ghost state keeps its types. *)
THEOREM UniTypeCorrect == UniSpec => []UniTypeOK
<1>1. UInv => UniTypeOK
  BY DEF UInv
<1> QED
  BY <1>1, UInvCorrect, PTL

(* Every lower bound that a client, a request or a response carries is     *)
(* valid together with the replica's right to advance its timestamp.       *)
THEOREM BoundsValid == UniSpec => []BoundsAreValid
<1>1. UInv => BoundsAreValid
  <2> SUFFICES ASSUME UInv, NEW s \in Servers, NEW lb \in LowerBounds(s)
               PROVE  valid(op(HalfRightToAdvance(server[s].timestamp), LowerBound(lb)))
    BY DEF BoundsAreValid
  <2>1. lb \in Timestamp /\ TsLe(lb, server[s].timestamp)
    BY DEF LowerBounds, UInv, AllUnder, Under, View, UniTypeOK, Bound
  <2>2. server[s].timestamp \in Timestamp
    BY FieldTypes DEF UInv, Inv
  <2> QED
    BY <2>1, <2>2, HalvesAgree
<1> QED
  BY <1>1, UInvCorrect, PTL

(* No tag stands for two requests, however many operations failed.         *)
THEOREM ProofsCorrect == UniSpec => []ProofsAgree
<1>1. UInv => ProofsAgree
  BY DEF UInv
<1> QED
  BY <1>1, UInvCorrect, PTL

(* A response, however late, vouches for what its client knew when it      *)
(* asked, and for what it asked to be written.                             *)
THEOREM ResponsesCorrect == UniSpec => []ResponsesReach
<1>1. UInv => ResponsesReach
  BY DEF UInv
<1> QED
  BY <1>1, UInvCorrect, PTL

-----------------------------------------------------------------------------
(***************************************************************************)
(* What a client concludes from the replies: the accumulators.             *)
(***************************************************************************)
(* Both the request that a client waits on and the responses that are kept *)
(* for it have the tag under which it was issued; nothing is left over     *)
(* from an operation that ended.                                           *)
CurrentTags ==
  /\ \A c \in Clients :
       /\ phase[c] = "idle" => agree_with_max[c] = {}
       /\ phase[c] # "idle" =>
            /\ request[c].client = c
            /\ issued[Key(request[c])].timestamp = request[c].timestamp
  /\ \A m \in responses : m.id = request[m.client].id

AInv == UInv /\ CurrentTags /\ AccumulatorsKnow

(* Views are universes, and their order is one. *)
LEMMA ViewsAreUniverses ==
  ASSUME NEW u \in View
  PROVE  IsUniverse(u) /\ DOMAIN u = Servers /\ leq(u, u)
BY ServersAssumption DEF View, IsUniverse, leq, TsLe

LEMMA LeqTransitive ==
  ASSUME NEW u \in View, NEW v \in View, NEW w \in View, leq(u, v), leq(v, w)
  PROVE  leq(u, w)
<1>1. /\ DOMAIN u = Servers /\ DOMAIN v = Servers /\ DOMAIN w = Servers
      /\ \A s \in Servers : /\ u[s] \in Timestamp /\ v[s] \in Timestamp
                            /\ w[s] \in Timestamp
  BY DEF View
<1> QED
  BY <1>1, TsTransitive DEF leq

LEMMA ReachKept ==
  ASSUME NEW u \in View, NEW w \in View, leq(u, w), NEW min \in Timestamp,
         QuorumsReach(u, min)
  PROVE  QuorumsReach(w, min)
<1>1. IsUniverse(u) /\ IsUniverse(w) /\ DOMAIN u = Servers
  BY ViewsAreUniverses
<1>2. valid_quorum(u, Servers)
  <2>1. Cardinality(Servers) \in Nat /\ Cardinality(Servers) # 0
    BY ServersAssumption, FS_CardinalityType, FS_EmptySet
  <2> QED
    BY <1>1, <2>1, ServersAssumption DEF valid_quorum
<1> QED
  BY <1>1, <1>2, QuorumsKeepReaching

(* A majority is a majority, in the words of the client and of the view. *)
LEMMA ValidQuorums ==
  ASSUME NEW u \in View, NEW q, valid_quorum(u, q)
  PROVE  q \in Quorums
<1>1. q \in SUBSET Servers /\ 2 * Cardinality(q) > Cardinality(Servers)
  BY DEF valid_quorum, View
<1>2. Cardinality(q) \in Nat /\ Cardinality(Servers) \in Nat
  BY <1>1, ServersAssumption, FS_Subset, FS_CardinalityType
<1>3. Cardinality(q) >= Cardinality(Servers) \div 2 + 1
  BY <1>1, <1>2
<1> QED
  BY <1>1, <1>3 DEF Quorums, IsQuorum, quorum_size

(* What the replicas hold when an operation is invoked reaches whatever    *)
(* was returned by then.                                                   *)
LEMMA ExtractReaches ==
  ASSUME UInv
  PROVE  extract_lbs \in View /\ QuorumsReach(extract_lbs, watermark)
<1>1. extract_lbs \in View /\ watermark \in Timestamp
  BY ExtractUnder DEF UInv, Inv, TypeOK, Under
<1> SUFFICES ASSUME NEW q \in SUBSET DOMAIN extract_lbs, valid_quorum(extract_lbs, q)
             PROVE  TsLe(watermark, quorum_timestamp(extract_lbs, q))
  BY <1>1 DEF QuorumsReach
<1>2. q \in Quorums
  BY <1>1, ValidQuorums
<1>3. PICK s \in q : TsLe(watermark, server[s].timestamp)
  BY <1>2 DEF UInv, Inv, QuorumsCoverWatermark
<1>4. s \in Servers /\ extract_lbs[s] = server[s].timestamp
  BY <1>2, <1>3 DEF Quorums, extract_lbs
<1>5. /\ TsLe(extract_lbs[s], quorum_timestamp(extract_lbs, q))
      /\ quorum_timestamp(extract_lbs, q) \in Timestamp
  BY <1>1, <1>3, ViewsAreUniverses, QuorumTimestamp
<1>6. extract_lbs[s] \in Timestamp
  BY <1>1, <1>4 DEF View
<1> QED
  BY <1>1, <1>3, <1>4, <1>5, <1>6, TsTransitive

(* Raising the bound of one replica raises the view. *)
LEMMA UpdateRaises ==
  ASSUME NEW u \in View, NEW s \in Servers, NEW lb \in Timestamp, TsLe(u[s], lb)
  PROVE  LET w == tracked_update_lb(u, s, lb)
         IN  /\ w \in View /\ leq(u, w) /\ w[s] = lb
             /\ \A x \in Servers \ {s} : w[x] = u[x]
BY DEF View, tracked_update_lb, leq, TsLe

LEMMA RaiseRaises ==
  ASSUME UInv, NEW c \in Clients, NEW s \in Servers, NEW lb \in Timestamp,
         Raise(c, s, lb)
  PROVE  /\ views'[c] \in View /\ leq(views[c], views'[c])
         /\ TsLe(lb, views'[c][s])
         /\ \A x \in Servers \ {s} : views'[c][x] = views[c][x]
         /\ \A d \in Clients \ {c} : views'[d] = views[d]
<1>1. views \in [Clients -> View] /\ views[c] \in View /\ views[c][s] \in Timestamp
  BY DEF UInv, UniTypeOK, View
<1>2. CASE TsLt(views[c][s], lb)
  <2>1. /\ views'[c] = tracked_update_lb(views[c], s, lb)
        /\ \A d \in Clients \ {c} : views'[d] = views[d]
    BY <1>1, <1>2 DEF Raise, Knows
  <2>2. TsLe(views[c][s], lb) /\ TsLe(lb, lb)
    BY <1>2 DEF TsLe
  <2> QED
    BY <1>1, <2>1, <2>2, UpdateRaises
<1>3. CASE ~ TsLt(views[c][s], lb)
  <2>1. views' = views
    BY <1>1, <1>3 DEF Raise, Knows
  <2>2. TsLe(lb, views[c][s])
    BY <1>1, <1>3, TsTotal
  <2> QED
    BY <1>1, <2>1, <2>2, ViewsAreUniverses
<1> QED
  BY <1>2, <1>3

(* What the reply that a client takes tells it. *)
LEMMA ReplyTells ==
  ASSUME AInv, NEW c \in Clients, NEW b \in bounds, b.response \in responses,
         b.response.client = c
  PROVE  /\ b.response.server \in Servers /\ b.lb \in Timestamp
         /\ b.response.timestamp \in Timestamp
         /\ phase[c] # "idle" /\ b.response.type = request[c].type
         /\ Key(request[c]) \in DOMAIN issued
         /\ Began(c) \in View /\ views[c] \in View
         /\ TsLe(Began(c)[b.response.server], b.lb)
         /\ b.response.type = "Write" => TsLe(request[c].timestamp, b.lb)
         /\ b.response.type # "Write" => b.response.timestamp = b.lb
<1> DEFINE m == b.response
<1>1. m \in Response /\ b.lb \in Timestamp
  BY DEF AInv, UInv, UniTypeOK, Bound
<1>2. phase[c] # "idle" /\ m.type = request[c].type
  BY DEF AInv, UInv, Inv, RequestsTagged
<1>3. Key(m) = Key(request[c]) /\ Key(request[c]) \in DOMAIN issued
  BY <1>2 DEF AInv, UInv, CurrentTags, IssuedTagged, Key
<1>4. issued[Key(request[c])].timestamp = request[c].timestamp
  BY <1>2 DEF AInv, CurrentTags
<1>5. /\ TsLe(issued[Key(m)].servers[m.server], b.lb)
      /\ m.type = "Write" => TsLe(issued[Key(m)].timestamp, b.lb)
      /\ m.type # "Write" => m.timestamp = b.lb
  BY DEF AInv, UInv, ResponsesReach, server_lower_bound
<1>6. Under(Began(c)) /\ Under(views[c])
  BY <1>3 DEF AInv, UInv, AllUnder, Began
<1> QED
  BY <1>1, <1>2, <1>3, <1>4, <1>5, <1>6 DEF Response, Began, Under

(* A client about whom nothing changes knows what it knew. *)
LEMMA KnowingKept ==
  ASSUME AInv, NEW d \in Clients,
         phase'[d] = phase[d], request'[d] = request[d], min_ts'[d] = min_ts[d],
         max_resp'[d] = max_resp[d], agree_with_max'[d] = agree_with_max[d],
         replies'[d] = replies[d], views'[d] = views[d],
         \A k \in DOMAIN issued : issued'[k] = issued[k]
  PROVE  Knowing(d)'
<1>1. CASE phase[d] = "idle"
  BY <1>1 DEF Knowing
<1>2. CASE phase[d] # "idle"
  <2>1. Key(request[d]) \in DOMAIN issued
    BY <1>2 DEF AInv, UInv, IssuedTagged
  <2>2. Began(d)' = Began(d)
    BY <2>1 DEF Began, Key
  <2>3. Knowing(d)
    BY DEF AInv, AccumulatorsKnow
  <2> HIDE DEF Began
  <2> QED
    BY <2>2, <2>3 DEF Knowing, FirstPhase, WriteBackPhase, WritePhase
<1> QED
  BY <1>1, <1>2

(* What a request is issued with is what its client begins with. *)
LEMMA BeganIssued ==
  ASSUME AInv, [UniNext]_univars, NEW c \in Clients, NEW u,
         NEW type, NEW to, NEW timestamp, NEW value,
         Broadcast(c, type, to, timestamp, value),
         issue_request_proof(request'[c], u)
  PROVE  /\ Began(c)' = u
         /\ request'[c].client = c
         /\ issued'[Key(request[c])'].timestamp = request'[c].timestamp
         /\ \A k \in DOMAIN issued : issued'[k] = issued[k]
<1>1. TypeOK /\ request_ctr[c] \in Nat
  BY BelowStep, FieldTypes DEF AInv
<1>2. request'[c].client = c /\ request'[c].id = request_ctr[c]
  BY <1>1, BroadcastFrame
<1>3. Key(request'[c]) = <<c, request_ctr[c]>> /\ Key(request[c])' = Key(request'[c])
  BY <1>2 DEF Key
<1>4. <<c, request_ctr[c]>> \notin DOMAIN issued
  BY <1>1 DEF AInv, UInv, IssuedTagged
<1> QED
  BY <1>2, <1>3, <1>4 DEF issue_request_proof, Began

(* The clients that a step is not about. *)
LEMMA KnowingOthers ==
  ASSUME AInv, NEW c \in Clients, NEW d \in Clients \ {c}, Others(c),
         views'[d] = views[d], \A k \in DOMAIN issued : issued'[k] = issued[k]
  PROVE  Knowing(d)'
BY KnowingKept DEF Others

LEMMA KnowsFrame ==
  ASSUME AInv, NEW c \in Clients, NEW u, Knows(c, u)
  PROVE  views'[c] = u /\ \A d \in Clients \ {c} : views'[d] = views[d]
BY DEF Knows, AInv, UInv, UniTypeOK

(* Both operations begin with what the replicas hold. *)
LEMMA KnowingInvoke ==
  ASSUME AInv, [UniNext]_univars, NEW c \in Clients,
         UniReadInvoke(c) \/ \E v \in Arguments : UniWriteInvoke(c, v)
  PROVE  \A d \in Clients : Knowing(d)'
<1>1. TypeOK
  BY BelowStep DEF AInv
<1>2. /\ issue_request_proof(request'[c], extract_lbs)
      /\ Knows(c, extract_lbs)
  BY DEF UniReadInvoke, UniWriteInvoke
<1>3. /\ phase[c] = "idle" /\ phase'[c] \in {"get", "get_timestamp"}
      /\ \E type : Broadcast(c, type, Servers, TsDefault, None)
      /\ min_ts'[c] = watermark /\ UNCHANGED agree_with_max /\ Others(c)
  BY <1>1, ReadInvokeFrame, WriteInvokeFrame
     DEF UniReadInvoke, UniWriteInvoke, ReadInvoke, WriteInvoke, Invoke
<1>4. /\ Began(c)' = extract_lbs /\ \A k \in DOMAIN issued : issued'[k] = issued[k]
  BY <1>2, <1>3, BeganIssued
<1>5. /\ views'[c] = extract_lbs
      /\ \A d \in Clients \ {c} : views'[d] = views[d]
  BY <1>2, KnowsFrame
<1>6. replies'[c] = {} /\ agree_with_max'[c] = {}
  BY <1>1, <1>3, BroadcastFrame DEF AInv, CurrentTags
<1>7. /\ leq(extract_lbs, extract_lbs)
      /\ QuorumsReach(extract_lbs, watermark)
  BY ExtractReaches, ViewsAreUniverses DEF AInv
<1>8. Knowing(c)'
  <2> HIDE DEF Began
  <2>1. FirstPhase(c)'
    BY <1>4, <1>5, <1>6 DEF FirstPhase
  <2>2. leq(Began(c), views[c])' /\ QuorumsReach(views[c], min_ts[c])'
    <3>1. leq(Began(c)', views'[c]) /\ QuorumsReach(views'[c], min_ts'[c])
      BY <1>3, <1>4, <1>5, <1>7
    <3> QED
      BY <3>1 DEF leq, QuorumsReach, valid_quorum, quorum_timestamp, quorum_vals
  <2> QED
    BY <1>3, <2>1, <2>2 DEF Knowing
<1> QED
  BY <1>3, <1>4, <1>5, <1>8, KnowingOthers

(* The write-back goes on with what the read has found. *)
LEMMA KnowingWriteBack ==
  ASSUME AInv, [UniNext]_univars, NEW c \in Clients, UniReadWriteBack(c)
  PROVE  \A d \in Clients : Knowing(d)'
<1>1. TypeOK
  BY BelowStep DEF AInv
<1>2. /\ issue_request_proof(request'[c], Began(c))
      /\ Knows(c, views[c])
  BY DEF UniReadWriteBack, Began
<1>3. /\ phase[c] = "get" /\ phase'[c] = "write_back"
      /\ Broadcast(c, "Write", Servers \ agree_with_max[c],
                   max_resp[c].timestamp, max_resp[c].value)
      /\ UNCHANGED <<min_ts, max_resp, agree_with_max>> /\ Others(c)
  BY <1>1, ReadWriteBackFrame DEF UniReadWriteBack, ghosts
<1>4. Began(c)' = Began(c) /\ \A k \in DOMAIN issued : issued'[k] = issued[k]
  BY <1>2, <1>3, BeganIssued
<1>5. views'[c] = views[c] /\ \A d \in Clients \ {c} : views'[d] = views[d]
  BY <1>2, KnowsFrame
<1>6. replies'[c] = {}
  BY <1>1, <1>3, BroadcastFrame
<1>7. /\ leq(Began(c), views[c]) /\ QuorumsReach(views[c], min_ts[c])
      /\ \A s \in agree_with_max[c] : views[c][s] = max_resp[c].timestamp
  BY <1>3 DEF AInv, AccumulatorsKnow, Knowing, FirstPhase
<1>8. Knowing(c)'
  <2> HIDE DEF Began
  <2>1. WriteBackPhase(c)'
    BY <1>3, <1>5, <1>6, <1>7 DEF WriteBackPhase, TsLe
  <2> QED
    BY <1>3, <1>4, <1>5, <1>7, <2>1 DEF Knowing
<1> QED
  BY <1>3, <1>4, <1>5, <1>8, KnowingOthers

(* The second phase of a write begins anew. *)
LEMMA KnowingExecute ==
  ASSUME AInv, [UniNext]_univars, NEW c \in Clients, UniWriteExecute(c)
  PROVE  \A d \in Clients : Knowing(d)'
<1>1. TypeOK
  BY BelowStep DEF AInv
<1>2. /\ issue_request_proof(request'[c], extract_lbs)
      /\ Knows(c, extract_lbs)
  BY DEF UniWriteExecute
<1>3. /\ phase'[c] = "write"
      /\ Broadcast(c, "Write", Servers, ExecTimestamp(c), new_value[c])
      /\ Others(c)
  BY <1>1, WriteExecuteFrame DEF UniWriteExecute
<1>4. /\ Began(c)' = extract_lbs /\ \A k \in DOMAIN issued : issued'[k] = issued[k]
  BY <1>2, <1>3, BeganIssued
<1>5. /\ views'[c] = extract_lbs
      /\ \A d \in Clients \ {c} : views'[d] = views[d]
  BY <1>2, KnowsFrame
<1>6. replies'[c] = {} /\ leq(extract_lbs, extract_lbs)
  BY <1>1, <1>3, BroadcastFrame, ExtractReaches, ViewsAreUniverses DEF AInv
<1>7. Knowing(c)'
  <2> HIDE DEF Began
  <2> QED
    BY <1>3, <1>4, <1>5, <1>6 DEF Knowing, WritePhase
<1> QED
  BY <1>3, <1>4, <1>5, <1>7, KnowingOthers

(* A client that takes a reply keeps its view of the rest, and raises it.  *)
LEMMA KnowingRaised ==
  ASSUME AInv, [UniNext]_univars, NEW c \in Clients, NEW b \in bounds,
         UniDeliver(c, b), views'[c] \in View, leq(views[c], views'[c])
  PROVE  /\ leq(Began(c), views'[c])
         /\ phase[c] # "write" => QuorumsReach(views'[c], min_ts[c])
<1>1. b.response \in responses /\ Deliver(c, b.response)
  BY DEF UniDeliver, UniInsertGet, UniInsertWriteBack, UniInsertGetTimestamp,
     UniInsertWrite, Deliver
<1>2. TypeOK /\ min_ts[c] \in Timestamp
  BY BelowStep, FieldTypes DEF AInv
<1>3. b.response.client = c
  BY <1>1, <1>2, DeliverFrame
<1>4. /\ phase[c] # "idle" /\ Began(c) \in View /\ views[c] \in View
  BY <1>1, <1>3, ReplyTells
<1>5. /\ leq(Began(c), views[c])
      /\ phase[c] # "write" => QuorumsReach(views[c], min_ts[c])
  BY <1>4 DEF AInv, AccumulatorsKnow, Knowing
<1> HIDE DEF Began
<1> QED
  BY <1>2, <1>4, <1>5, LeqTransitive, ReachKept

(* What a delivery leaves alone, and what follows for the phase it is in.  *)
LEMMA KnowingDelivered ==
  ASSUME AInv, [UniNext]_univars, NEW c \in Clients, NEW b \in bounds,
         UniDeliver(c, b), views'[c] \in View, leq(views[c], views'[c]),
         \A d \in Clients \ {c} : views'[d] = views[d],
         \/ phase[c] \in {"get", "get_timestamp"} /\ FirstPhase(c)'
         \/ phase[c] = "write_back" /\ WriteBackPhase(c)'
         \/ phase[c] = "write" /\ WritePhase(c)'
  PROVE  \A d \in Clients : Knowing(d)'
<1>1. /\ b.response \in responses /\ Deliver(c, b.response) /\ UNCHANGED issued
  BY DEF UniDeliver, UniInsertGet, UniInsertWriteBack, UniInsertGetTimestamp,
     UniInsertWrite, Deliver
<1>2. UNCHANGED <<phase, request, min_ts>> /\ Others(c)
  BY <1>1, BelowStep, DeliverFrame DEF AInv, client, ghosts
<1>3. Began(c)' = Began(c)
  BY <1>1, <1>2 DEF Began, Key
<1>4. Knowing(c)'
  <2> HIDE DEF Began
  <2> QED
    BY <1>2, <1>3, KnowingRaised DEF Knowing
<1> QED
  BY <1>1, <1>2, <1>4, KnowingOthers

(* In a first phase a reply says exactly what its replica held.            *)
LEMMA KnowingFirst ==
  ASSUME AInv, [UniNext]_univars, NEW c \in Clients, NEW b \in bounds,
         UniInsertGet(c, b) \/ UniInsertGetTimestamp(c, b)
  PROVE  \A d \in Clients : Knowing(d)'
<1> DEFINE m == b.response
           s == b.response.server
<1>1. /\ UniDeliver(c, b) /\ m \in responses /\ UNCHANGED issued
      /\ phase[c] \in {"get", "get_timestamp"} /\ UpdateMax(c, m) /\ Deliver(c, m)
      /\ Knows(c, tracked_update_lb(views[c], s, b.lb))
  BY DEF UniDeliver, UniInsertGet, UniInsertGetTimestamp, InsertGet,
     InsertGetTimestamp, Deliver, Receives
<1>2. TypeOK /\ TypeOK'
  BY BelowStep DEF AInv
<1>3. /\ m.client = c /\ s \notin replies[c]
      /\ replies' = [replies EXCEPT ![c] = @ \cup {s}]
      /\ UNCHANGED request
  BY <1>1, <1>2, DeliverFrame DEF client
<1>4. /\ s \in Servers /\ b.lb \in Timestamp /\ m.timestamp \in Timestamp
      /\ Began(c) \in View /\ views[c] \in View
      /\ TsLe(Began(c)[s], b.lb)
      /\ m.type = request[c].type /\ (m.type # "Write" => m.timestamp = b.lb)
  BY <1>1, <1>3, ReplyTells
<1>5. m.timestamp = b.lb
  BY <1>1, <1>4 DEF AInv, UInv, Inv, RequestsTagged
<1>6. FirstPhase(c)
  BY <1>1 DEF AInv, AccumulatorsKnow, Knowing
<1>7. TsLe(views[c][s], b.lb)
  BY <1>3, <1>4, <1>6 DEF FirstPhase
<1>8. /\ views'[c] = tracked_update_lb(views[c], s, b.lb)
      /\ \A d \in Clients \ {c} : views'[d] = views[d]
  BY <1>1, KnowsFrame
<1>9. /\ views'[c] \in View /\ leq(views[c], views'[c]) /\ views'[c][s] = m.timestamp
      /\ \A x \in Servers \ {s} : views'[c][x] = views[c][x]
  BY <1>4, <1>5, <1>7, <1>8, UpdateRaises
<1>10. /\ TsLe(m.timestamp, max_resp'[c].timestamp)
       /\ replies[c] # {} => TsLe(max_resp[c].timestamp, max_resp'[c].timestamp)
       /\ \/ max_resp'[c] = max_resp[c] /\ agree_with_max'[c] = agree_with_max[c]
          \/ /\ max_resp'[c].timestamp = m.timestamp
             /\ agree_with_max'[c] = {s}
          \/ /\ max_resp'[c].timestamp = m.timestamp
             /\ max_resp'[c] = max_resp[c]
             /\ agree_with_max'[c] = agree_with_max[c] \cup {s}
  BY <1>1, <1>2, UpdateMaxBounds
<1>11. replies'[c] = replies[c] \cup {s} /\ replies[c] \subseteq Servers
  BY <1>2, <1>3 DEF TypeOK
<1>12. Began(c)' = Began(c)
  BY <1>1, <1>3 DEF Began, Key
<1> HIDE DEF Began, m, s
<1>13. \A x \in Servers \ replies'[c] : views'[c][x] = Began(c)'[x]
  BY <1>6, <1>9, <1>11, <1>12 DEF FirstPhase
<1>14. \A x \in replies'[c] : TsLe(views'[c][x], max_resp'[c].timestamp)
  <2> SUFFICES ASSUME NEW x \in replies'[c]
               PROVE  TsLe(views'[c][x], max_resp'[c].timestamp)
    OBVIOUS
  <2>1. CASE x = s
    BY <1>9, <1>10, <2>1
  <2>2. CASE x \in replies[c]
    <3>1. x \in Servers \ {s} /\ views[c][x] \in Timestamp
      BY <1>3, <1>4, <1>11, <2>2 DEF View, s
    <3>2. max_resp[c].timestamp \in Timestamp /\ max_resp'[c].timestamp \in Timestamp
      BY <1>2 DEF TypeOK, Register
    <3>3. TsLe(views[c][x], max_resp[c].timestamp)
      BY <1>6, <2>2 DEF FirstPhase
    <3> QED
      BY <1>9, <1>10, <2>2, <3>1, <3>2, <3>3, TsTransitive
  <2> QED
    BY <1>11, <2>1, <2>2
<1>15. /\ \A x \in agree_with_max'[c] : views'[c][x] = max_resp'[c].timestamp
       /\ agree_with_max'[c] \subseteq replies'[c]
       /\ agree_with_max'[c] # {}
  <2>1. /\ \A x \in agree_with_max[c] : views[c][x] = max_resp[c].timestamp
        /\ agree_with_max[c] \subseteq replies[c] \ {s}
        /\ agree_with_max[c] = {} <=> replies[c] = {}
    BY <1>3, <1>6 DEF FirstPhase, s
  <2>2. \A x \in replies[c] : views'[c][x] = views[c][x]
    BY <1>3, <1>9, <1>11 DEF s
  <2>3. replies[c] = {} => agree_with_max'[c] # {}
    BY <1>1 DEF UpdateMax, TypeOK, s, m, AInv, UInv, Inv
  <2> QED
    BY <1>9, <1>10, <1>11, <2>1, <2>2, <2>3
<1>16. FirstPhase(c)'
  BY <1>11, <1>13, <1>14, <1>15 DEF FirstPhase
<1> QED
  BY <1>1, <1>8, <1>9, <1>16, KnowingDelivered

(* Who acknowledges the write-back holds the maximum.                      *)
LEMMA KnowingBack ==
  ASSUME AInv, [UniNext]_univars, NEW c \in Clients, NEW b \in bounds,
         UniInsertWriteBack(c, b)
  PROVE  \A d \in Clients : Knowing(d)'
<1> DEFINE s == b.response.server
<1>1. /\ UniDeliver(c, b) /\ b.response \in responses
      /\ phase[c] = "write_back" /\ Deliver(c, b.response)
      /\ agree_with_max' = [agree_with_max EXCEPT ![c] = @ \cup {s}]
      /\ UNCHANGED max_resp
  BY DEF UniDeliver, UniInsertWriteBack, InsertWriteBack, Deliver, Receives
<1>2. TypeOK /\ max_resp[c].timestamp \in Timestamp
  BY BelowStep, FieldTypes DEF AInv
<1>3. /\ b.response.client = c
      /\ replies' = [replies EXCEPT ![c] = @ \cup {s}]
  BY <1>1, <1>2, DeliverFrame
<1>4. /\ s \in Servers /\ b.lb \in Timestamp /\ views[c] \in View
      /\ b.response.type = request[c].type
      /\ b.response.type = "Write" => TsLe(request[c].timestamp, b.lb)
  BY <1>1, <1>3, ReplyTells
<1>5. TsLe(max_resp[c].timestamp, b.lb)
  BY <1>1, <1>4 DEF AInv, UInv, Inv, RequestsTagged
<1>6. /\ replies[c] \subseteq agree_with_max[c]
      /\ \A x \in agree_with_max[c] : TsLe(max_resp[c].timestamp, views[c][x])
      /\ agree_with_max[c] \subseteq Servers
  BY <1>1, <1>2 DEF AInv, AccumulatorsKnow, Knowing, WriteBackPhase, TypeOK
<1>7. /\ views'[c] \in View /\ leq(views[c], views'[c])
      /\ \A d \in Clients \ {c} : views'[d] = views[d]
      /\ TsLe(max_resp[c].timestamp, views'[c][s])
      /\ \A x \in Servers \ {s} : views'[c][x] = views[c][x]
  <2>1. CASE s \in agree_with_max[c]
    <3>1. Knows(c, views[c])
      BY <2>1 DEF UniInsertWriteBack
    <3> QED
      BY <1>4, <1>6, <2>1, <3>1, KnowsFrame, ViewsAreUniverses
  <2>2. CASE s \notin agree_with_max[c]
    <3>1. Raise(c, s, b.lb)
      BY <2>2 DEF UniInsertWriteBack
    <3>2. /\ views'[c] \in View /\ leq(views[c], views'[c])
          /\ TsLe(b.lb, views'[c][s])
          /\ \A x \in Servers \ {s} : views'[c][x] = views[c][x]
          /\ \A d \in Clients \ {c} : views'[d] = views[d]
      BY <1>4, <3>1, RaiseRaises DEF AInv
    <3>3. views'[c][s] \in Timestamp
      BY <1>4, <3>2 DEF View
    <3> QED
      BY <1>2, <1>4, <1>5, <3>2, <3>3, TsTransitive
  <2> QED
    BY <2>1, <2>2
<1> HIDE DEF s
<1>8. WriteBackPhase(c)'
  <2>1. /\ replies'[c] = replies[c] \cup {s}
        /\ agree_with_max'[c] = agree_with_max[c] \cup {s}
    BY <1>1, <1>2, <1>3 DEF TypeOK
  <2> QED
    BY <1>1, <1>6, <1>7, <2>1 DEF WriteBackPhase
<1> QED
  BY <1>1, <1>7, <1>8, KnowingDelivered

(* Who acknowledges the write holds what was written.                      *)
LEMMA KnowingWrite ==
  ASSUME AInv, [UniNext]_univars, NEW c \in Clients, NEW b \in bounds,
         UniInsertWrite(c, b)
  PROVE  \A d \in Clients : Knowing(d)'
<1> DEFINE s == b.response.server
<1>1. /\ UniDeliver(c, b) /\ b.response \in responses /\ UNCHANGED issued
      /\ phase[c] = "write" /\ Deliver(c, b.response)
      /\ Raise(c, s, b.lb)
  BY DEF UniDeliver, UniInsertWrite, InsertWrite, Deliver, Receives
<1>2. TypeOK /\ request[c].timestamp \in Timestamp
  BY BelowStep, FieldTypes DEF AInv
<1>3. /\ b.response.client = c /\ UNCHANGED request
      /\ replies' = [replies EXCEPT ![c] = @ \cup {s}]
  BY <1>1, <1>2, DeliverFrame DEF client
<1>4. /\ s \in Servers /\ b.lb \in Timestamp
      /\ b.response.type = request[c].type
      /\ b.response.type = "Write" => TsLe(request[c].timestamp, b.lb)
  BY <1>1, <1>3, ReplyTells
<1>5. TsLe(request[c].timestamp, b.lb)
  BY <1>1, <1>4 DEF AInv, UInv, Inv, RequestsTagged
<1>6. /\ views'[c] \in View /\ leq(views[c], views'[c])
      /\ TsLe(b.lb, views'[c][s])
      /\ \A x \in Servers \ {s} : views'[c][x] = views[c][x]
      /\ \A d \in Clients \ {c} : views'[d] = views[d]
  BY <1>1, <1>4, RaiseRaises DEF AInv
<1>7. TsLe(request[c].timestamp, views'[c][s])
  <2>1. views'[c][s] \in Timestamp
    BY <1>4, <1>6 DEF View
  <2> QED
    BY <1>2, <1>4, <1>5, <1>6, <2>1, TsTransitive
<1>8. WritePhase(c) /\ replies[c] \subseteq Servers /\ Began(c)' = Began(c)
  BY <1>1, <1>2, <1>3 DEF AInv, AccumulatorsKnow, Knowing, TypeOK, Began, Key
<1> HIDE DEF s, Began
<1>9. WritePhase(c)'
  <2>1. replies'[c] = replies[c] \cup {s}
    BY <1>2, <1>3 DEF TypeOK
  <2> QED
    BY <1>3, <1>6, <1>7, <1>8, <2>1 DEF WritePhase
<1> QED
  BY <1>1, <1>6, <1>9, KnowingDelivered

LEMMA KnowingStep ==
  ASSUME AInv, [UniNext]_univars
  PROVE  \A d \in Clients : Knowing(d)'
<1>1. ASSUME UNCHANGED <<phase, request, min_ts, max_resp, agree_with_max, replies>>,
             UNCHANGED <<views, issued>>
      PROVE  \A d \in Clients : Knowing(d)'
  BY <1>1, KnowingKept
<1>2. ASSUME NEW s \in Servers, NEW r \in requests, UniHandle(s, r)
      PROVE  \A d \in Clients : Knowing(d)'
  BY <1>1, <1>2, HandleFrame DEF UniHandle, client, accum, ghosts
<1>3. ASSUME NEW c \in Clients, UniLeave(c) PROVE \A d \in Clients : Knowing(d)'
  <2>1. Leaves(c) /\ Knows(c, NoView) /\ UNCHANGED issued
    BY <1>3 DEF UniLeave, Leaves
  <2>2. phase'[c] = "idle" /\ Others(c)
    BY <2>1, BelowStep, LeaveFrame DEF AInv
  <2>3. Knowing(c)'
    BY <2>2 DEF Knowing
  <2> QED
    BY <2>1, <2>2, <2>3, KnowsFrame, KnowingOthers
<1>4. ASSUME NEW c \in Clients, NEW s \in Servers, LinkFailure(c, s), UNCHANGED known
      PROVE  \A d \in Clients : Knowing(d)'
  BY <1>1, <1>4 DEF LinkFailure, LinkBreaks, LinkRecovers, InsertError, client, accum,
     ghosts, known
<1>5. CASE UNCHANGED univars
  BY <1>1, <1>5 DEF univars, vars, client, accum, ghosts, known
<1> QED
  BY <1>2, <1>3, <1>4, <1>5, KnowingInvoke, KnowingWriteBack, KnowingExecute,
     KnowingFirst, KnowingBack, KnowingWrite DEF UniNext, UniDeliver

LEMMA CurrentTagsStep ==
  ASSUME AInv, [UniNext]_univars
  PROVE  CurrentTags'
<1>1. CurrentTags /\ TypeOK
  BY BelowStep DEF AInv
<1>2. \A d \in Clients : phase[d] # "idle" => Key(request[d]) \in DOMAIN issued
  BY DEF AInv, UInv, IssuedTagged
<1>3. \A m \in responses : phase[m.client] # "idle" /\ m.client \in Clients
  BY <1>1, FieldTypes DEF AInv, UInv, Inv, RequestsTagged
<1>4. ASSUME NEW s \in Servers, NEW r \in requests, UniHandle(s, r)
      PROVE  CurrentTags'
  <2>1. Handle(s, r) /\ UNCHANGED <<client, accum, issued>>
    BY <1>4, HandleFrame DEF UniHandle
  <2>2. ASSUME NEW m \in responses' PROVE m.id = request[m.client].id
    <3>1. CASE m \in responses
      BY <1>1, <3>1 DEF CurrentTags
    <3>2. CASE m \notin responses
      <4>1. m.client = r.client /\ request[r.client].id = r.id
        BY <1>1, <2>1, <3>2, HandleResponds
      <4>2. Key(m) = Key(r)
        BY <1>1, <2>1, <3>2, NewResponses DEF Answers
      <4> QED
        BY <4>1, <4>2 DEF Key
    <3> QED
      BY <3>1, <3>2
  <2> QED
    BY <1>1, <2>1, <2>2 DEF CurrentTags, client, accum, Key
<1>5. ASSUME NEW c \in Clients, Others(c), phase'[c] # "idle", NEW u,
             NEW type, NEW to, NEW timestamp, NEW value,
             Broadcast(c, type, to, timestamp, value),
             issue_request_proof(request'[c], u)
      PROVE  CurrentTags'
  <2>1. /\ request'[c].client = c
        /\ issued'[Key(request[c])'].timestamp = request'[c].timestamp
        /\ \A k \in DOMAIN issued : issued'[k] = issued[k]
    BY <1>5, BeganIssued
  <2>2. responses' \subseteq responses /\ \A m \in responses' : m.client # c
    BY <1>1, <1>5, BroadcastFrame
  <2>3. ASSUME NEW d \in Clients \ {c}
        PROVE  /\ phase'[d] = "idle" => agree_with_max'[d] = {}
               /\ phase'[d] # "idle" =>
                    /\ request'[d].client = d
                    /\ issued'[Key(request[d])'].timestamp = request'[d].timestamp
    <3>1. /\ phase'[d] = phase[d] /\ agree_with_max'[d] = agree_with_max[d]
          /\ request'[d] = request[d] /\ Key(request[d])' = Key(request[d])
      BY <1>5 DEF Others, Key
    <3> QED
      BY <1>1, <1>2, <2>1, <3>1 DEF CurrentTags
  <2>4. \A m \in responses' : m.id = request'[m.client].id
    BY <1>1, <1>3, <1>5, <2>2 DEF CurrentTags, Others
  <2> QED
    BY <1>5, <2>1, <2>3, <2>4 DEF CurrentTags
<1>6. ASSUME NEW c \in Clients,
             UniReadInvoke(c) \/ \E v \in Arguments : UniWriteInvoke(c, v)
      PROVE  CurrentTags'
  <2>1. /\ phase'[c] # "idle" /\ Others(c)
        /\ \E type : Broadcast(c, type, Servers, TsDefault, None)
        /\ issue_request_proof(request'[c], extract_lbs)
    BY <1>1, <1>6, ReadInvokeFrame, WriteInvokeFrame DEF UniReadInvoke, UniWriteInvoke
  <2> QED
    BY <1>5, <2>1
<1>7. ASSUME NEW c \in Clients, UniReadWriteBack(c) \/ UniWriteExecute(c)
      PROVE  CurrentTags'
  <2>1. /\ phase'[c] # "idle" /\ Others(c)
        /\ \E to, timestamp, value : Broadcast(c, "Write", to, timestamp, value)
        /\ \E u : issue_request_proof(request'[c], u)
    BY <1>1, <1>7, ReadWriteBackFrame, WriteExecuteFrame
       DEF UniReadWriteBack, UniWriteExecute
  <2> QED
    BY <1>5, <2>1
<1>8. ASSUME NEW c \in Clients, NEW b \in bounds, UniDeliver(c, b)
      PROVE  CurrentTags'
  <2>1. b.response \in responses /\ Deliver(c, b.response) /\ UNCHANGED issued
    BY <1>8 DEF UniDeliver, UniInsertGet, UniInsertWriteBack, UniInsertGetTimestamp,
       UniInsertWrite, Deliver
  <2>2. UNCHANGED <<phase, request>> /\ Others(c) /\ responses' \subseteq responses
    BY <1>1, <2>1, DeliverFrame DEF client
  <2>3. phase[c] # "idle"
    BY <2>1 DEF Deliver, InsertGet, InsertWriteBack, InsertGetTimestamp, InsertWrite,
       Receives
  <2> QED
    BY <1>1, <2>1, <2>2, <2>3 DEF CurrentTags, Others, Key
<1>9. ASSUME NEW c \in Clients, UniLeave(c) PROVE CurrentTags'
  <2>1. Leaves(c) /\ UNCHANGED issued
    BY <1>9 DEF UniLeave, Leaves
  <2>2. /\ phase'[c] = "idle" /\ agree_with_max'[c] = {} /\ Others(c)
        /\ responses' \subseteq responses /\ \A m \in responses' : m.client # c
    BY <1>1, <2>1, LeaveFrame
  <2> QED
    BY <1>1, <1>3, <2>1, <2>2 DEF CurrentTags, Others, Key
<1>10. ASSUME UNCHANGED <<phase, request, agree_with_max, responses, issued>>
       PROVE  CurrentTags'
  BY <1>1, <1>10 DEF CurrentTags, Key
<1>11. ASSUME NEW c \in Clients, NEW s \in Servers, LinkFailure(c, s), UNCHANGED known
       PROVE  CurrentTags'
  BY <1>10, <1>11 DEF LinkFailure, LinkBreaks, LinkRecovers, InsertError, client, accum,
     known
<1>12. CASE UNCHANGED univars
  BY <1>10, <1>12 DEF univars, vars, client, accum, known
<1> QED
  BY <1>4, <1>6, <1>7, <1>8, <1>9, <1>11, <1>12 DEF UniNext

LEMMA AInvInit == UniInit => AInv
<1> SUFFICES ASSUME UniInit PROVE AInv
  OBVIOUS
<1>1. /\ responses = {} /\ \A c \in Clients : phase[c] = "idle"
      /\ \A c \in Clients : agree_with_max[c] = {}
  BY DEF UniInit, Init
<1> QED
  BY <1>1, UInvInit DEF AInv, CurrentTags, AccumulatorsKnow, Knowing

(* The views justify what the accumulators conclude from the replies: among *)
(* it, that every quorum tells of a timestamp no less than any that was    *)
(* returned before the operation began.                                    *)
THEOREM AccumulatorsCorrect == UniSpec => []AccumulatorsKnow
<1>1. AInv /\ [UniNext]_univars => AInv'
  <2>1. UInv /\ [UniNext]_univars => UInv'
    BY BelowStep, UniTypeStep, AllUnderStep, IssuedTaggedStep, ProofsAgreeStep,
       ResponsesReachStep DEF UInv
  <2> QED
    BY <2>1, CurrentTagsStep, KnowingStep DEF AInv, AccumulatorsKnow
<1>2. AInv => AccumulatorsKnow
  BY DEF AInv
<1> QED
  BY <1>1, <1>2, AInvInit, PTL DEF UniSpec

-----------------------------------------------------------------------------
(***************************************************************************)
(* AbdExample: TrustInv holds of the servers that were not started again,  *)
(* whatever the others have lost; all of Inv as long as none was; and what *)
(* a client expects that runs beside no writer is the register's value.    *)
(***************************************************************************)
LeftoverWrite ==
  [client : Clients, to : SUBSET Servers, timestamp : Timestamp, value : Values]

(* A client that waits for something has a process, and only a client with *)
(* writes to make is writing.                                              *)
ProcessOK ==
  /\ running \subseteq Clients
  /\ forgot \subseteq Servers
  /\ remaining_writes \in [Clients -> Nat]
  /\ leftover \subseteq LeftoverWrite
  /\ expected_value \in [Clients -> SUBSET Values]
  /\ \A c \in Clients : 1 .. remaining_writes[c] \subseteq Arguments
  /\ \A c \in Clients : phase[c] # "idle" => c \in running
  /\ \A r \in requests : r.client \in running
  /\ \A c \in Clients :
       phase[c] \in {"get_timestamp", "write"} => remaining_writes[c] > 0

Trusted == Servers \ forgot

CrashInv == TrustInv(Trusted) /\ ProcessOK

-----------------------------------------------------------------------------
(* The steps of the example that are steps of the register.                *)
Ends(c) == c \in running /\ End(c)

Operates(c) == BeginOperation(c) \/ Continue(c) \/ EndRead(c) \/ EndWrite(c)

LEMMA ExampleKinds ==
  ASSUME [ExampleNext]_example_vars
  PROVE  \/ \E c \in Clients : Start(c)
         \/ \E c \in Clients : Ends(c)
         \/ \E c \in Clients : Operates(c)
         \/ \E c \in Clients, s \in Servers : DropClient(s, c)
         \/ \E s \in Servers : HandleRequest(s)
         \/ \E s \in Servers : Restart(s)
         \/ \E s \in Servers, w \in leftover : HandleLeftover(s, w)
         \/ UNCHANGED example_vars
BY DEF ExampleNext, Ends, Operates, Finish, Killed, Fail

LEMMA OperatesIsStep ==
  ASSUME CrashInv, NEW c \in Clients, Operates(c)
  PROVE  Next
<1>1. CASE BeginOperation(c)
  <2>1. CASE WriteIsNext(c) /\ WriteInvoke(c, remaining_writes[c])
    <3>1. remaining_writes[c] \in Nat /\ 1 .. remaining_writes[c] \subseteq Arguments
      BY DEF CrashInv, ProcessOK
    <3>2. remaining_writes[c] # 0
      BY <1>1, <2>1, <3>1 DEF BeginOperation, WriteIsNext, Done
    <3>3. remaining_writes[c] \in Arguments
      BY <3>1, <3>2
    <3>. QED  BY <2>1, <3>3 DEF Next
  <2>2. CASE ReadInvoke(c)
    BY <2>2 DEF Next
  <2>. QED  BY <1>1, <2>1, <2>2 DEF BeginOperation
<1>2. CASE Continue(c)
  BY <1>2 DEF Continue, Next, Advance, LinkFailure
<1>3. CASE EndRead(c)
  BY <1>3 DEF EndRead, Next, Advance
<1>4. CASE EndWrite(c)
  BY <1>4 DEF EndWrite, Next, Advance
<1>. QED  BY <1>1, <1>2, <1>3, <1>4 DEF Operates

-----------------------------------------------------------------------------
(* The other steps take a client's memory away with all that is under way  *)
(* for it, or leave the client alone; and a server that did not forget     *)
(* keeps what it holds.                                                    *)
Undisturbed(d) ==
  /\ phase'[d] = phase[d]
  /\ request'[d] = request[d]
  /\ request_ctr'[d] = request_ctr[d]
  /\ client_ctr'[d] = client_ctr[d]
  /\ new_value'[d] = new_value[d]
  /\ max_resp'[d] = max_resp[d]
  /\ agree_with_max'[d] = agree_with_max[d]
  /\ replies'[d] = replies[d]
  /\ min_ts'[d] = min_ts[d]

Gone(d) ==
  /\ phase'[d] = "idle"
  /\ \/ agree_with_max'[d] = {}
     \/ max_resp'[d] = max_resp[d] /\ agree_with_max'[d] = agree_with_max[d]
  /\ \A q \in requests' : q.client # d
  /\ \A m \in responses' : m.client # d

Outside ==
  /\ responses' \subseteq responses
  /\ UNCHANGED watermark
  /\ \A q \in requests' : \E p \in requests :
       /\ q.client = p.client /\ q.id = p.id /\ q.type = p.type
       /\ q.timestamp = p.timestamp /\ q.value = p.value
  /\ \A d \in Clients : Undisturbed(d) \/ Gone(d)
  /\ \A s \in Servers \ forgot' :
       \A t \in Timestamp : TsLe(t, server[s].timestamp) => TsLe(t, server'[s].timestamp)
  /\ forgot \subseteq forgot'

LEMMA OutsideTagged ==
  ASSUME TypeOK, RequestsTagged, Outside
  PROVE  RequestsTagged'
<1>1. ASSUME NEW q \in requests'
      PROVE  /\ q.id < request_ctr'[q.client]
             /\ phase'[q.client] # "idle" /\ q.id = request'[q.client].id
                  => q.type = request'[q.client].type
                     /\ q.timestamp = request'[q.client].timestamp
  <2>1. PICK p \in requests : /\ q.client = p.client /\ q.id = p.id /\ q.type = p.type
                              /\ q.timestamp = p.timestamp
    BY <1>1 DEF Outside
  <2>2. p.client \in Clients
    BY FieldTypes
  <2>3. Undisturbed(p.client)
    BY <1>1, <2>1, <2>2 DEF Outside, Gone
  <2>. QED  BY <2>1, <2>3 DEF RequestsTagged, Undisturbed
<1>2. ASSUME NEW d \in Clients
      PROVE  /\ phase'[d] # "idle" => request'[d].id < request_ctr'[d]
             /\ phase'[d] = "get" => request'[d].type = "Get"
             /\ phase'[d] = "get_timestamp" => /\ request'[d].type = "GetTimestamp"
                                               /\ client_ctr'[d] # 0
             /\ phase'[d] = "write" => request'[d].type = "Write"
             /\ phase'[d] = "write_back" =>
                  /\ request'[d].type = "Write"
                  /\ request'[d].timestamp = max_resp'[d].timestamp
  <2>1. CASE Undisturbed(d)
    BY <2>1 DEF RequestsTagged, Undisturbed
  <2>2. CASE Gone(d)
    BY <2>2 DEF Gone
  <2>. QED  BY <2>1, <2>2 DEF Outside
<1>3. ASSUME NEW m \in responses'
      PROVE  phase'[m.client] # "idle" /\ m.type = request'[m.client].type
  <2>1. m \in responses /\ m.client \in Clients
    BY FieldTypes DEF Outside
  <2>2. Undisturbed(m.client)
    BY <1>3, <2>1 DEF Outside, Gone
  <2>. QED  BY <2>1, <2>2 DEF RequestsTagged, Undisturbed
<1>. QED  BY <1>1, <1>2, <1>3 DEF RequestsTagged

LEMMA OutsideTrust ==
  ASSUME TrustInv(Trusted), forgot \subseteq Servers, Outside, TypeOK'
  PROVE  TrustInv(Trusted)'
<1>1. TypeOK /\ RequestsTagged
  BY DEF TrustInv
<1>2. /\ forgot \subseteq forgot' /\ Trusted' \subseteq Trusted /\ Trusted' \subseteq Servers
      /\ UNCHANGED watermark /\ responses' \subseteq responses
      /\ \A s \in Trusted' :
           \A t \in Timestamp : TsLe(t, server[s].timestamp) => TsLe(t, server'[s].timestamp)
  BY DEF Outside, Trusted
<1>3. /\ \A s \in Servers : server[s].timestamp \in Timestamp
      /\ \A c \in Clients : /\ max_resp[c].timestamp \in Timestamp
                            /\ request[c].timestamp \in Timestamp
                            /\ min_ts[c] \in Timestamp
      /\ \A m \in responses : /\ m.timestamp \in Timestamp /\ m.client \in Clients
                              /\ m.server \in Servers
      /\ watermark \in Timestamp
  BY <1>1, FieldTypes DEF TypeOK
<1>4. ResponsesBound(Trusted)'
  <2>1. ASSUME NEW m \in responses', m.server \in Trusted'
        PROVE  TsLe(IF m.type = "Write" THEN request'[m.client].timestamp ELSE m.timestamp,
                    server'[m.server].timestamp)
    <3>1. m \in responses /\ m.client \in Clients /\ m.server \in Trusted
      BY <1>2, <1>3, <2>1
    <3>2. request'[m.client] = request[m.client]
      BY <2>1, <3>1 DEF Outside, Gone, Undisturbed
    <3>3. TsLe(IF m.type = "Write" THEN request[m.client].timestamp ELSE m.timestamp,
               server[m.server].timestamp)
      BY <3>1 DEF TrustInv, ResponsesBound
    <3>4. PICK t \in Timestamp :
            t = IF m.type = "Write" THEN request[m.client].timestamp ELSE m.timestamp
      BY <1>3, <3>1
    <3>5. TsLe(t, server'[m.server].timestamp)
      BY <1>2, <2>1, <3>3, <3>4
    <3>. QED  BY <3>2, <3>4, <3>5
  <2>. QED  BY <2>1 DEF ResponsesBound
<1>5. HoldersHold(Trusted)'
  <2>1. ASSUME NEW c \in Clients
        PROVE  Holders(c, Trusted)'
    <3>1. Holders(c, Trusted) /\ Trusted' \subseteq Trusted
      BY <1>2 DEF TrustInv, HoldersHold
    <3>2. CASE Undisturbed(c)
      BY <1>2, <1>3, <3>1, <3>2 DEF Holders, Undisturbed
    <3>3. CASE Gone(c)
      BY <1>2, <1>3, <3>1, <3>3 DEF Holders, Gone
    <3>. QED  BY <3>2, <3>3 DEF Outside
  <2>. QED  BY <2>1 DEF HoldersHold
<1>6. /\ QuorumsOf(Trusted)' \subseteq QuorumsOf(Trusted)
      /\ \A Q \in QuorumsOf(Trusted)' : Q \subseteq Trusted'
  BY <1>2 DEF QuorumsOf, Quorums, IsQuorum, quorum_size
<1>7. QuorumsAreFresh(Trusted)'
  <2>1. ASSUME NEW c \in Clients, phase'[c] \in {"get", "get_timestamp"},
               NEW Q \in QuorumsOf(Trusted)'
        PROVE  \E s \in Q : FreshFor(c, s)'
    <3>1. Undisturbed(c)
      BY <2>1 DEF Outside, Gone
    <3>2. PICK s \in Q : FreshFor(c, s)
      BY <1>6, <2>1, <3>1 DEF TrustInv, QuorumsAreFresh, Fresh, Undisturbed
    <3>3. FreshFor(c, s)'
      BY <1>2, <1>3, <1>6, <3>1, <3>2 DEF FreshFor, Undisturbed
    <3>. QED  BY <3>3
  <2>. QED  BY <2>1 DEF QuorumsAreFresh, Fresh
<1>8. Covered(Trusted)'
  BY <1>2, <1>3, <1>6 DEF TrustInv, Covered
<1>. QED  BY <1>1, <1>4, <1>5, <1>7, <1>8, OutsideTagged DEF TrustInv

LEMMA StartOutside ==
  ASSUME TypeOK, RequestsTagged, ProcessOK, NEW c \in Clients, Start(c)
  PROVE  TypeOK' /\ Outside
<1>1. c \notin running /\ UNCHANGED <<server, requests, responses, phase, request,
                                      new_value, accum, ghosts, faults>>
  BY DEF Start
<1>2. /\ phase[c] = "idle" /\ \A q \in requests : q.client # c
      /\ \A d \in Clients \ {c} : request_ctr'[d] = request_ctr[d] /\ client_ctr'[d] = client_ctr[d]
      /\ request_ctr' \in [Clients -> Nat] /\ client_ctr' \in [Clients -> Nat]
      /\ broken' \subseteq broken
  BY <1>1 DEF ProcessOK, Start, TypeOK
<1>3. TypeOK'
  BY <1>1, <1>2 DEF TypeOK, accum, ghosts
<1>4. Gone(c)
  BY <1>1, <1>2 DEF Gone, accum, TypeOK, RequestsTagged
<1>5. \A d \in Clients \ {c} : Undisturbed(d)
  BY <1>1, <1>2 DEF Undisturbed, accum, ghosts
<1>. QED  BY <1>1, <1>3, <1>4, <1>5 DEF Outside, ghosts, faults

LEMMA StartProcess ==
  ASSUME TypeOK, ProcessOK, NEW c \in Clients, Start(c)
  PROVE  ProcessOK'
<1>1. PICK w \in Workloads[c] :
        remaining_writes' = [remaining_writes EXCEPT ![c] = w.n_writes]
  BY DEF Start
<1>2. w.n_writes \in Nat /\ 1 .. w.n_writes \subseteq Arguments
  BY ExampleAssumption
<1>3. /\ remaining_writes' \in [Clients -> Nat]
      /\ \A d \in Clients : 1 .. remaining_writes'[d] \subseteq Arguments
      /\ \A d \in Clients \ {c} : remaining_writes'[d] = remaining_writes[d]
  BY <1>1, <1>2 DEF ProcessOK
<1>4. /\ running' = running \cup {c} /\ c \notin running
      /\ UNCHANGED <<forgot, leftover, phase, requests>>
      /\ expected_value' \in [Clients -> SUBSET Values]
  BY DEF Start, ProcessOK, faults
<1>. QED  BY <1>3, <1>4 DEF ProcessOK

LEMMA EndFrame ==
  ASSUME TypeOK, NEW c \in Clients, End(c)
  PROVE  /\ TypeOK'
         /\ UNCHANGED <<server, watermark, forgot, workload>>
         /\ requests' = {r \in requests : r.client # c}
         /\ responses' = {m \in responses : m.client # c}
         /\ phase'[c] = "idle" /\ agree_with_max'[c] = {}
         /\ \A d \in Clients \ {c} : Undisturbed(d)
<1>1. TypeOK'
  BY InitialType, NoRequestType, TsDefaultType, ValuesAssumption
     DEF TypeOK, End, Goto, Forget, Phases
<1>. QED  BY <1>1 DEF End, Goto, Forget, TypeOK, Undisturbed

LEMMA EndOutside ==
  ASSUME TypeOK, NEW c \in Clients, End(c)
  PROVE  TypeOK' /\ Outside
<1>1. Gone(c)
  <2>1. /\ phase'[c] = "idle" /\ agree_with_max'[c] = {}
        /\ \A q \in requests' : q.client # c
        /\ \A m \in responses' : m.client # c
    BY EndFrame
  <2>. QED  BY <2>1 DEF Gone
<1>. QED  BY <1>1, EndFrame DEF Outside

LEMMA EndProcess ==
  ASSUME TypeOK, ProcessOK, NEW c \in Clients, End(c)
  PROVE  ProcessOK'
<1>1. leftover' \subseteq LeftoverWrite
  <2>1. \A r \in requests : [client |-> c, to |-> r.to, timestamp |-> r.timestamp,
                             value |-> r.value] \in LeftoverWrite
    BY DEF TypeOK, Request, LeftoverWrite
  <2>. QED  BY <2>1 DEF End, ProcessOK
<1>2. running' = running \ {c}
  BY DEF End
<1>. QED  BY <1>1, <1>2, EndFrame DEF ProcessOK, Undisturbed, workload

LEMMA DropOutside ==
  ASSUME TypeOK, ProcessOK, NEW c \in Clients, NEW s \in Servers, DropClient(s, c)
  PROVE  TypeOK' /\ Outside /\ ProcessOK'
<1>1. /\ UNCHANGED <<server, requests, responses, client, accum, ghosts, workload,
                     process, faults>>
      /\ broken' = broken \cup {<<c, s>>}
  BY DEF DropClient
<1>2. TypeOK'
  BY <1>1 DEF TypeOK, client, accum, ghosts
<1>3. Outside
  BY <1>1 DEF Outside, Undisturbed, client, accum, ghosts, faults
<1>4. ProcessOK'
  BY <1>1 DEF ProcessOK, client, workload, process, faults
<1>. QED  BY <1>2, <1>3, <1>4

LEMMA LeftoverOutside ==
  ASSUME TypeOK, ProcessOK, NEW s \in Servers, NEW w \in leftover, HandleLeftover(s, w)
  PROVE  TypeOK' /\ Outside /\ ProcessOK'
<1>1. /\ UNCHANGED <<requests, responses, broken, client, accum, ghosts, workload,
                     process, restarts, abandoned, forgot>>
      /\ w \in LeftoverWrite
  BY DEF HandleLeftover, ProcessOK
<1>2. \/ server' = server
      \/ /\ TsLt(server[s].timestamp, w.timestamp)
         /\ server' = [server EXCEPT ![s] = [timestamp |-> w.timestamp, value |-> w.value]]
  BY DEF HandleLeftover
<1>3. [timestamp |-> w.timestamp, value |-> w.value] \in Register
  BY <1>1 DEF LeftoverWrite, Register
<1>4. server' \in [Servers -> Register]
  BY <1>2, <1>3 DEF TypeOK
<1>5. TypeOK'
  BY <1>1, <1>4 DEF TypeOK, client, accum, ghosts
<1>6. ASSUME NEW r \in Servers, NEW t \in Timestamp, TsLe(t, server[r].timestamp)
      PROVE  TsLe(t, server'[r].timestamp)
  <2>1. server[r].timestamp \in Timestamp /\ w.timestamp \in Timestamp
    BY <1>1, FieldTypes DEF LeftoverWrite
  <2>2. \/ server'[r] = server[r]
        \/ /\ TsLt(server[r].timestamp, w.timestamp)
           /\ server'[r].timestamp = w.timestamp
    BY <1>2 DEF TypeOK
  <2>. QED  BY <1>6, <2>1, <2>2, TsTransitive DEF TsLe
<1>7. Outside
  BY <1>1, <1>6 DEF Outside, Undisturbed, client, accum, ghosts
<1>8. [w EXCEPT !.to = @ \ {s}] \in LeftoverWrite
  BY <1>1 DEF LeftoverWrite
<1>9. leftover' \subseteq leftover \cup {[w EXCEPT !.to = @ \ {s}]}
  BY DEF HandleLeftover
<1>10. ProcessOK'
  BY <1>1, <1>8, <1>9 DEF ProcessOK, client, workload, process
<1>. QED  BY <1>5, <1>7, <1>10

LEMMA RestartFrame ==
  ASSUME TypeOK, ProcessOK, NEW s \in Servers, Restart(s)
  PROVE  /\ \A q \in requests' : q \in Request /\ \E p \in requests :
              /\ q.client = p.client /\ q.id = p.id /\ q.type = p.type
              /\ q.timestamp = p.timestamp /\ q.value = p.value
         /\ leftover' \subseteq LeftoverWrite
<1>1. ASSUME NEW p \in requests, NEW q, q = [p EXCEPT !.to = @ \ {s}]
      PROVE  /\ q \in Request
             /\ q.client = p.client /\ q.id = p.id /\ q.type = p.type
             /\ q.timestamp = p.timestamp /\ q.value = p.value
  <2>1. p \in Request /\ p.to \ {s} \in SUBSET Servers
    BY DEF TypeOK, Request
  <2>. QED  BY <1>1, <2>1 DEF Request
<1>2. ASSUME NEW w \in leftover
      PROVE  [w EXCEPT !.to = @ \ {s}] \in LeftoverWrite
  <2>1. w \in LeftoverWrite /\ w.to \ {s} \in SUBSET Servers
    BY DEF ProcessOK, LeftoverWrite
  <2>. QED  BY <2>1 DEF LeftoverWrite
<1>. QED  BY <1>1, <1>2 DEF Restart

LEMMA RestartOutside ==
  ASSUME TypeOK, ProcessOK, NEW s \in Servers, Restart(s)
  PROVE  TypeOK' /\ Outside /\ ProcessOK'
<1>1. /\ UNCHANGED <<responses, client, accum, ghosts, workload, process, abandoned>>
      /\ server' = [server EXCEPT ![s] = Initial]
      /\ broken' = broken \cup (running \X {s})
      /\ forgot' = forgot \cup {s}
  BY DEF Restart
<1>2. requests' \subseteq Request
  BY RestartFrame
<1>3. TypeOK'
  BY <1>1, <1>2, InitialType DEF TypeOK, ProcessOK, client, accum, ghosts
<1>4. Outside
  <2>1. \A r \in Servers \ forgot' : server'[r] = server[r]
    BY <1>1 DEF TypeOK
  <2>. QED  BY <1>1, <2>1, RestartFrame DEF Outside, Undisturbed, client, accum, ghosts
<1>5. \A q \in requests' : q.client \in running
  BY RestartFrame DEF ProcessOK
<1>6. ProcessOK'
  BY <1>1, <1>5, RestartFrame DEF ProcessOK, client, workload, process
<1>. QED  BY <1>3, <1>4, <1>6

-----------------------------------------------------------------------------
(* The steps of the register. *)
LEMMA ConsumeProcess ==
  ASSUME TypeOK, NEW s \in Servers, NEW r \in requests, Consume(s, r),
         \A q \in requests : q.client \in running
  PROVE  \A q \in requests' : q.client \in running
BY RequestAfterHandle

LEMMA HandleRequestProcess ==
  ASSUME TypeOK, ProcessOK, NEW s \in Servers, HandleRequest(s)
  PROVE  ProcessOK' /\ Next /\ UNCHANGED <<workload, process, faults>>
<1>1. PICK r \in requests : Handle(s, r)
  BY DEF HandleRequest
<1>2. /\ UNCHANGED <<client, workload, process, faults>>
      /\ Consume(s, r)
  BY <1>1, HandleFrame DEF HandleRequest
<1>3. \A q \in requests' : q.client \in running
  BY <1>2, ConsumeProcess DEF ProcessOK
<1>4. Next
  BY <1>1 DEF Next
<1>. QED  BY <1>2, <1>3, <1>4 DEF ProcessOK, client, workload, process, faults

LEMMA ProcessKept ==
  ASSUME TypeOK, ProcessOK, NEW c \in Clients, c \in running, Others(c),
         \A q \in requests' : q \in requests \/ q.client = c,
         UNCHANGED <<process, faults>>,
         remaining_writes' \in [Clients -> Nat],
         remaining_writes'[c] <= remaining_writes[c],
         \A d \in Clients \ {c} : remaining_writes'[d] = remaining_writes[d],
         expected_value' \in [Clients -> SUBSET Values],
         phase'[c] \in {"get_timestamp", "write"} => remaining_writes'[c] > 0
  PROVE  ProcessOK'
<1>1. \A d \in Clients : 1 .. remaining_writes'[d] \subseteq Arguments
  <2>. SUFFICES ASSUME NEW d \in Clients, NEW v \in 1 .. remaining_writes'[d]
                PROVE  v \in Arguments
    OBVIOUS
  <2>1. /\ remaining_writes'[d] \in Nat /\ remaining_writes[d] \in Nat
        /\ remaining_writes'[d] <= remaining_writes[d]
    BY DEF ProcessOK
  <2>2. v \in 1 .. remaining_writes[d]
    BY <2>1
  <2>. QED  BY <2>2 DEF ProcessOK
<1>2. \A d \in Clients : phase'[d] # "idle" => d \in running
  BY DEF ProcessOK, Others
<1>3. \A d \in Clients : phase'[d] \in {"get_timestamp", "write"} => remaining_writes'[d] > 0
  BY DEF ProcessOK, Others
<1>. QED  BY <1>1, <1>2, <1>3 DEF ProcessOK, process, faults

LEMMA BeginOperationProcess ==
  ASSUME TypeOK, ProcessOK, NEW c \in Clients, BeginOperation(c)
  PROVE  ProcessOK'
<1>1. c \in running /\ UNCHANGED <<workload, process, faults>>
  BY DEF BeginOperation
<1>2. CASE WriteIsNext(c) /\ WriteInvoke(c, remaining_writes[c])
  <2>1. remaining_writes[c] \in Nat /\ 1 .. remaining_writes[c] \subseteq Arguments
    BY DEF ProcessOK
  <2>2. remaining_writes[c] # 0
    BY <1>2, <2>1 DEF BeginOperation, WriteIsNext, Done
  <2>3. remaining_writes[c] \in Arguments
    BY <2>1, <2>2
  <2>4. /\ Others(c) /\ Broadcast(c, "GetTimestamp", Servers, TsDefault, None)
    BY <1>2, <2>3, WriteInvokeFrame
  <2>5. \A q \in requests' : q \in requests \/ q.client = c
    BY <2>4, BroadcastFrame
  <2>. QED  BY <1>1, <2>1, <2>2, <2>4, <2>5, ProcessKept DEF workload, ProcessOK
<1>3. CASE ReadInvoke(c)
  <2>1. /\ Others(c) /\ Broadcast(c, "Get", Servers, TsDefault, None)
        /\ phase'[c] = "get"
    BY <1>3, ReadInvokeFrame
  <2>2. \A q \in requests' : q \in requests \/ q.client = c
    BY <2>1, BroadcastFrame
  <2>. QED  BY <1>1, <2>1, <2>2, ProcessKept DEF workload, ProcessOK
<1>. QED  BY <1>2, <1>3 DEF BeginOperation

LEMMA ContinueProcess ==
  ASSUME TypeOK, ProcessOK, NEW c \in Clients, Continue(c)
  PROVE  ProcessOK'
<1>1. UNCHANGED <<workload, process, faults>>
  BY DEF Continue
<1>2. ASSUME phase[c] # "idle", Others(c),
             \A q \in requests' : q \in requests \/ q.client = c,
             phase'[c] \in {"get_timestamp", "write"} =>
               phase[c] \in {"get_timestamp", "write"}
      PROVE  ProcessOK'
  <2>1. c \in running /\ \A d \in Clients : remaining_writes[d] <= remaining_writes[d]
    BY <1>2 DEF ProcessOK
  <2>2. phase'[c] \in {"get_timestamp", "write"} => remaining_writes[c] > 0
    BY <1>2 DEF ProcessOK
  <2>3. /\ remaining_writes' \in [Clients -> Nat]
        /\ expected_value' \in [Clients -> SUBSET Values]
        /\ remaining_writes' = remaining_writes
    BY <1>1 DEF workload, ProcessOK
  <2>. QED  BY <1>1, <1>2, <2>1, <2>2, <2>3, ProcessKept
<1>3. CASE ReadWriteBack(c)
  <2>1. \A q \in requests' : q \in requests \/ q.client = c
    <3>1. PICK type, to, timestamp, value : Broadcast(c, type, to, timestamp, value)
      BY <1>3 DEF ReadWriteBack
    <3>. QED  BY <3>1, BroadcastFrame
  <2>2. phase[c] = "get" /\ phase'[c] = "write_back" /\ Others(c)
    BY <1>3, ReadWriteBackFrame
  <2>. QED  BY <1>2, <2>1, <2>2
<1>4. CASE WriteExecute(c)
  <2>1. \A q \in requests' : q \in requests \/ q.client = c
    BY <1>4, WriteExecuteFrame, BroadcastFrame
  <2>. QED  BY <1>2, <1>4, <2>1, WriteExecuteFrame
<1>5. ASSUME NEW m \in responses, Deliver(c, m)
      PROVE  ProcessOK'
  <2>1. phase[c] # "idle"
    BY <1>5 DEF Deliver, InsertGet, InsertWriteBack, InsertGetTimestamp, InsertWrite,
                Receives
  <2>. QED  BY <1>2, <1>5, <2>1, DeliverFrame DEF client
<1>6. ASSUME NEW s \in Servers, InsertError(c, s)
      PROVE  ProcessOK'
  BY <1>1, <1>6 DEF InsertError, ProcessOK, client, workload, process, faults
<1>. QED  BY <1>3, <1>4, <1>5, <1>6 DEF Continue

LEMMA EndReadProcess ==
  ASSUME TypeOK, ProcessOK, NEW c \in Clients, EndRead(c)
  PROVE  ProcessOK'
<1>1. Leaves(c) /\ phase[c] # "idle"
  BY DEF EndRead, Leaves, ReadUnanimous, ReadReturn
<1>2. /\ phase'[c] = "idle" /\ Others(c) /\ UNCHANGED requests
  BY <1>1, LeaveFrame
<1>3. /\ UNCHANGED <<remaining_writes, process, faults>>
      /\ expected_value' \in [Clients -> SUBSET Values]
  BY DEF EndRead, ProcessOK, TypeOK, Register
<1>. QED  BY <1>1, <1>2, <1>3, ProcessKept DEF ProcessOK

LEMMA EndWriteProcess ==
  ASSUME TypeOK, ProcessOK, NEW c \in Clients, EndWrite(c)
  PROVE  ProcessOK'
<1>1. Leaves(c) /\ phase[c] = "write"
  BY DEF EndWrite, Leaves, WriteReturn
<1>2. /\ phase'[c] = "idle" /\ Others(c) /\ UNCHANGED requests
  BY <1>1, LeaveFrame
<1>3. remaining_writes[c] \in Nat /\ remaining_writes[c] > 0
  BY <1>1 DEF ProcessOK
<1>4. /\ remaining_writes' \in [Clients -> Nat]
      /\ remaining_writes'[c] <= remaining_writes[c]
      /\ \A d \in Clients \ {c} : remaining_writes'[d] = remaining_writes[d]
  BY <1>3 DEF EndWrite, ProcessOK
<1>5. /\ UNCHANGED <<process, faults>>
      /\ expected_value' \in [Clients -> SUBSET Values]
  BY DEF EndWrite, ProcessOK, TypeOK
<1>. QED  BY <1>1, <1>2, <1>4, <1>5, ProcessKept DEF ProcessOK

-----------------------------------------------------------------------------
(* Every step of the example keeps CrashInv. *)
LEMMA TrustedStep ==
  ASSUME TrustInv(Trusted), [Next]_vars, UNCHANGED forgot
  PROVE  TrustInv(Trusted)'
<1>1. PICK T \in SUBSET Servers : T = Trusted
  BY DEF Trusted
<1>2. Trusted' = T
  BY <1>1 DEF Trusted
<1>3. TrustInv(T)'
  BY <1>1, TrustStep
<1>. QED  BY <1>2, <1>3

(* The steps that take something away. *)
Leaving == \/ \E c \in Clients : Start(c) \/ Ends(c)
           \/ \E c \in Clients, s \in Servers : DropClient(s, c)
           \/ \E s \in Servers : Restart(s)
           \/ \E s \in Servers, w \in leftover : HandleLeftover(s, w)

LEMMA LeavingOutside ==
  ASSUME CrashInv, Leaving
  PROVE  TypeOK' /\ Outside /\ ProcessOK'
<1>1. TypeOK /\ RequestsTagged /\ ProcessOK
  BY DEF CrashInv, TrustInv
<1>. QED  BY <1>1, StartOutside, StartProcess, EndOutside, EndProcess, DropOutside,
             RestartOutside, LeftoverOutside DEF Leaving, Ends

LEMMA Operating ==
  ASSUME CrashInv, NEW c \in Clients, Operates(c)
  PROVE  ProcessOK' /\ Next /\ UNCHANGED <<process, faults>>
<1>1. TypeOK /\ ProcessOK
  BY DEF CrashInv, TrustInv
<1>2. ProcessOK'
  BY <1>1, BeginOperationProcess, ContinueProcess, EndReadProcess, EndWriteProcess
     DEF Operates
<1>3. UNCHANGED <<process, faults>>
  BY DEF Operates, BeginOperation, Continue, EndRead, EndWrite
<1>. QED  BY <1>2, <1>3, OperatesIsStep

LEMMA CrashStep ==
  ASSUME CrashInv, [ExampleNext]_example_vars
  PROVE  CrashInv'
<1>1. TypeOK /\ ProcessOK /\ forgot \subseteq Servers
  BY DEF CrashInv, TrustInv, ProcessOK
<1>2. CASE Leaving
  BY <1>1, <1>2, LeavingOutside, OutsideTrust DEF CrashInv
<1>3. ASSUME NEW c \in Clients, Operates(c)
      PROVE  CrashInv'
  BY <1>3, Operating, TrustedStep DEF CrashInv, faults
<1>4. ASSUME NEW s \in Servers, HandleRequest(s)
      PROVE  CrashInv'
  BY <1>1, <1>4, HandleRequestProcess, TrustedStep DEF CrashInv, faults
<1>5. CASE UNCHANGED example_vars
  <2>1. UNCHANGED vars /\ UNCHANGED <<workload, process, faults>>
    BY <1>5 DEF example_vars
  <2>2. ProcessOK'
    BY <1>1, <2>1 DEF ProcessOK, vars, client, workload, process, faults
  <2>. QED  BY <2>1, <2>2, TrustedStep DEF CrashInv, faults
<1>. QED  BY <1>2, <1>3, <1>4, <1>5, ExampleKinds DEF Leaving

LEMMA CrashInit == ExampleInit => CrashInv
<1>. SUFFICES ASSUME ExampleInit PROVE CrashInv
  OBVIOUS
<1>1. Init
  BY DEF ExampleInit
<1>2. PICK T \in SUBSET Servers : T = Trusted
  BY DEF Trusted
<1>3. TrustInv(T)
  BY <1>1, TrustInit
<1>4. ProcessOK
  BY DEF ExampleInit, Init, ProcessOK
<1>. QED  BY <1>2, <1>3, <1>4 DEF CrashInv

-----------------------------------------------------------------------------
(***************************************************************************)
(* What holds as long as no server was started again: a timestamp in use   *)
(* is that of an abandoned write, of a write under way, or one that its    *)
(* client knows of.                                                        *)
(***************************************************************************)
AccountedFor(t) ==
  \/ t = TsDefault
  \/ t \in abandoned
  \/ /\ t.client_id \in Clients
     /\ TsLe(t, IF phase[t.client_id] = "idle" THEN watermark ELSE min_ts[t.client_id])
  \/ /\ t.client_id \in Clients
     /\ phase[t.client_id] = "write" /\ request[t.client_id].timestamp = t

Accounted == \A p \in ExamplePairs : AccountedFor(p.timestamp)

Begun == \A c \in Clients : phase[c] # "idle" => TsLe(min_ts[c], watermark)

NamesOne ==
  \A x, y \in ExamplePairs :
    x.timestamp = y.timestamp => x = y \/ x.timestamp \in abandoned

(* The timestamp of a write under way names the value that is written. *)
OwnWrite(c) ==
  phase[c] = "write" =>
    /\ request[c].timestamp.client_id = c
    /\ request[c].timestamp \notin abandoned =>
         \A p \in ExamplePairs :
           p.timestamp = request[c].timestamp => p.value = new_value[c]

OwnWrites == \A c \in Clients : OwnWrite(c)

RememberedInv == Inv /\ Accounted /\ Begun /\ NamesOne /\ OwnWrites

-----------------------------------------------------------------------------
(* What a step does to the operation of client d. *)
Stays(d) ==
  /\ phase'[d] = phase[d] /\ min_ts'[d] = min_ts[d]
  /\ request'[d] = request[d] /\ new_value'[d] = new_value[d]

Begins(d) ==
  /\ phase[d] = "idle" /\ phase'[d] \in {"get", "get_timestamp"}
  /\ min_ts'[d] = watermark

WritesBack(d) ==
  phase[d] = "get" /\ phase'[d] = "write_back" /\ min_ts'[d] = min_ts[d]

Closes(d) ==
  /\ phase'[d] = "idle"
  /\ phase[d] = "write" => \/ request[d].timestamp \in abandoned'
                           \/ TsLe(request[d].timestamp, watermark')

Moves(d) == Stays(d) \/ Begins(d) \/ WritesBack(d) \/ Closes(d)

ClientsMove ==
  /\ abandoned \subseteq abandoned'
  /\ TsLe(watermark, watermark')
  /\ \/ ExamplePairs' \subseteq ExamplePairs /\ \A d \in Clients : Moves(d)
     \/ /\ UNCHANGED <<abandoned, leftover>>
        /\ \E c \in Clients : WriteExecute(c) /\ \A d \in Clients \ {c} : Moves(d)

LEMMA ExamplePairTypes ==
  ASSUME TypeOK, ProcessOK
  PROVE  \A p \in ExamplePairs : p \in Register
BY PairTypes DEF ExamplePairs, ProcessOK, LeftoverWrite, Register

LEMMA InvokeMoves ==
  ASSUME TypeOK, NEW c \in Clients,
         ReadInvoke(c) \/ \E v \in Arguments : WriteInvoke(c, v)
  PROVE  \A d \in Clients : Moves(d)
<1>1. /\ Others(c) /\ phase[c] = "idle" /\ min_ts'[c] = watermark
      /\ phase'[c] \in {"get", "get_timestamp"}
  BY ReadInvokeFrame, WriteInvokeFrame DEF ReadInvoke, WriteInvoke, Invoke
<1>2. \A d \in Clients \ {c} : new_value'[d] = new_value[d]
  BY DEF ReadInvoke, WriteInvoke, TypeOK
<1>. QED  BY <1>1, <1>2 DEF Moves, Stays, Begins, Others

LEMMA WriteBackMoves ==
  ASSUME TypeOK, NEW c \in Clients, ReadWriteBack(c)
  PROVE  \A d \in Clients : Moves(d)
<1>1. /\ Others(c) /\ phase[c] = "get" /\ phase'[c] = "write_back"
      /\ UNCHANGED <<min_ts, new_value>>
  BY ReadWriteBackFrame DEF ReadWriteBack, ghosts
<1>. QED  BY <1>1 DEF Moves, Stays, WritesBack, Others

LEMMA ExecuteMoves ==
  ASSUME TypeOK, NEW c \in Clients, WriteExecute(c)
  PROVE  /\ \A d \in Clients \ {c} : Moves(d)
         /\ phase[c] = "get_timestamp" /\ phase'[c] = "write"
         /\ min_ts'[c] = min_ts[c] /\ new_value'[c] = new_value[c]
         /\ request'[c].timestamp = ExecTimestamp(c)
         /\ UNCHANGED watermark
<1>1. /\ Others(c) /\ phase[c] = "get_timestamp" /\ phase'[c] = "write"
      /\ UNCHANGED <<ghosts, new_value>>
      /\ Broadcast(c, "Write", Servers, ExecTimestamp(c), new_value[c])
  BY WriteExecuteFrame DEF WriteExecute
<1>2. request'[c].timestamp = ExecTimestamp(c)
  BY <1>1, BroadcastFrame
<1>. QED  BY <1>1, <1>2 DEF Moves, Stays, Others, ghosts

LEMMA ReturnMoves ==
  ASSUME TypeOK, NEW c \in Clients, ReadUnanimous(c) \/ ReadReturn(c) \/ WriteReturn(c)
  PROVE  /\ \A d \in Clients : Moves(d)
         /\ TsLe(watermark, watermark')
         /\ watermark' = TsMax(watermark, IF phase[c] = "write" THEN request[c].timestamp
                                                               ELSE max_resp[c].timestamp)
<1>1. /\ Leaves(c) /\ Leave(c)
      /\ watermark' = TsMax(watermark, IF phase[c] = "write" THEN request[c].timestamp
                                                            ELSE max_resp[c].timestamp)
  BY DEF Leaves, ReadUnanimous, ReadReturn, WriteReturn, Return
<1>2. Others(c) /\ phase'[c] = "idle"
  BY <1>1, LeaveFrame
<1>3. \A d \in Clients \ {c} : new_value'[d] = new_value[d]
  BY <1>1 DEF Leave, TypeOK
<1>4. /\ TsLe(watermark, watermark')
      /\ phase[c] = "write" => TsLe(request[c].timestamp, watermark')
  BY <1>1, FieldTypes, TsMaxBounds DEF TypeOK
<1>. QED  BY <1>1, <1>2, <1>3, <1>4 DEF Moves, Stays, Closes, Others

LEMMA StillMoves ==
  ASSUME UNCHANGED <<phase, request, new_value, min_ts>>
  PROVE  \A d \in Clients : Moves(d)
BY DEF Moves, Stays

LEMMA SameWatermark ==
  ASSUME UNCHANGED watermark
  PROVE  TsLe(watermark, watermark')
BY DEF TsLe

LEMMA OperatesMoves ==
  ASSUME CrashInv, Inv, NEW c \in Clients, Operates(c)
  PROVE  ClientsMove
<1>1. /\ TypeOK /\ Next /\ UNCHANGED <<abandoned, leftover>>
  BY Operating DEF Inv, faults
<1>2. ASSUME ~ \E d \in Clients : WriteExecute(d)
      PROVE  ExamplePairs' \subseteq ExamplePairs
  BY <1>1, <1>2, PairsStep DEF ExamplePairs
<1>3. ASSUME TsLe(watermark, watermark'), \A d \in Clients : Moves(d)
      PROVE  ClientsMove
  <2>1. ASSUME NEW d \in Clients, WriteExecute(d)
        PROVE  ClientsMove
    BY <1>1, <1>3, <2>1 DEF ClientsMove
  <2>. QED  BY <1>1, <1>2, <1>3, <2>1 DEF ClientsMove
<1>4. CASE BeginOperation(c)
  <2>1. ReadInvoke(c) \/ \E v \in Arguments : WriteInvoke(c, v)
    <3>1. /\ remaining_writes[c] \in Nat /\ 1 .. remaining_writes[c] \subseteq Arguments
      BY DEF CrashInv, ProcessOK
    <3>2. WriteIsNext(c) => remaining_writes[c] \in Arguments
      <4>1. WriteIsNext(c) => remaining_writes[c] # 0
        BY <1>4, <3>1 DEF BeginOperation, WriteIsNext, Done
      <4>. QED  BY <3>1, <4>1
    <3>. QED  BY <1>4, <3>2 DEF BeginOperation
  <2>2. UNCHANGED watermark
    BY <1>1, <2>1, ReadInvokeFrame, WriteInvokeFrame
  <2>. QED  BY <1>1, <1>3, <2>1, <2>2, InvokeMoves, SameWatermark
<1>5. CASE Continue(c)
  <2>1. CASE ReadWriteBack(c)
    BY <1>1, <1>3, <2>1, ReadWriteBackFrame, WriteBackMoves, SameWatermark DEF ghosts
  <2>2. CASE WriteExecute(c)
    BY <1>1, <2>2, ExecuteMoves, SameWatermark DEF ClientsMove
  <2>3. ASSUME NEW m \in responses, Deliver(c, m)  PROVE ClientsMove
    BY <1>1, <1>3, <2>3, DeliverFrame, StillMoves, SameWatermark DEF client, ghosts
  <2>4. ASSUME NEW s \in Servers, InsertError(c, s)  PROVE ClientsMove
    BY <1>3, <2>4, StillMoves, SameWatermark DEF InsertError, client, ghosts
  <2>. QED  BY <1>5, <2>1, <2>2, <2>3, <2>4 DEF Continue
<1>6. CASE EndRead(c) \/ EndWrite(c)
  BY <1>1, <1>3, <1>6, ReturnMoves DEF EndRead, EndWrite
<1>. QED  BY <1>4, <1>5, <1>6 DEF Operates

LEMMA HandleMoves ==
  ASSUME CrashInv, Inv, NEW s \in Servers, HandleRequest(s)
  PROVE  ClientsMove
<1>1. PICK r \in requests : Handle(s, r)
  BY DEF HandleRequest
<1>2. UNCHANGED <<client, ghosts, abandoned, leftover>>
  BY <1>1, HandleFrame DEF HandleRequest, faults
<1>3. ExamplePairs' \subseteq ExamplePairs
  BY <1>1, <1>2, PairsHandle DEF ExamplePairs
<1>. QED  BY <1>2, <1>3, StillMoves, SameWatermark DEF ClientsMove, client, ghosts

LEMMA StartMoves ==
  ASSUME NEW c \in Clients, Start(c)
  PROVE  ClientsMove
<1>1. UNCHANGED <<server, requests, responses, phase, request, new_value, accum,
                  ghosts, faults>>
  BY DEF Start
<1>2. ExamplePairs' = ExamplePairs
  BY <1>1 DEF ExamplePairs, Pairs, HasHeard, accum, faults
<1>. QED  BY <1>1, <1>2, StillMoves, SameWatermark DEF ClientsMove, ghosts, faults

LEMMA EndPairs ==
  ASSUME TypeOK, NEW c \in Clients, End(c)
  PROVE  ExamplePairs' \subseteq ExamplePairs
<1>1. /\ requests' \subseteq requests /\ responses' \subseteq responses /\ UNCHANGED server
      /\ phase'[c] = "idle" /\ \A d \in Clients \ {c} : Undisturbed(d)
  BY EndFrame
<1>2. ASSUME NEW d \in Clients, HasHeard(d)'
      PROVE  HasHeard(d) /\ max_resp'[d] = max_resp[d]
  BY <1>1, <1>2 DEF HasHeard, Undisturbed
<1>3. Pairs' \subseteq Pairs
  BY <1>1, <1>2 DEF Pairs
<1>4. ASSUME NEW w \in leftover', w \notin leftover
      PROVE  [timestamp |-> w.timestamp, value |-> w.value] \in Pairs
  <2>1. PICK r \in requests :
          /\ r.type = "Write"
          /\ w = [client |-> c, to |-> r.to, timestamp |-> r.timestamp, value |-> r.value]
    BY <1>4 DEF End
  <2>2. Pair(r) \in Pairs
    BY <2>1 DEF Pairs
  <2>. QED  BY <2>1, <2>2 DEF Pair
<1>. QED  BY <1>3, <1>4 DEF ExamplePairs

LEMMA EndMoves ==
  ASSUME TypeOK, NEW c \in Clients, End(c)
  PROVE  ClientsMove
<1>1. /\ phase'[c] = "idle" /\ UNCHANGED watermark
      /\ \A d \in Clients \ {c} : Undisturbed(d)
  BY EndFrame
<1>2. /\ abandoned \subseteq abandoned'
      /\ phase[c] = "write" => request[c].timestamp \in abandoned'
  BY DEF End
<1>3. \A d \in Clients : Moves(d)
  BY <1>1, <1>2 DEF Moves, Stays, Closes, Undisturbed
<1>. QED  BY <1>1, <1>2, <1>3, EndPairs, SameWatermark DEF ClientsMove

LEMMA DropMoves ==
  ASSUME NEW c \in Clients, NEW s \in Servers, DropClient(s, c)
  PROVE  ClientsMove
<1>1. UNCHANGED <<server, requests, responses, client, accum, ghosts, faults>>
  BY DEF DropClient
<1>2. ExamplePairs' = ExamplePairs
  BY <1>1 DEF ExamplePairs, Pairs, HasHeard, client, accum, faults
<1>. QED  BY <1>1, <1>2, StillMoves, SameWatermark DEF ClientsMove, client, ghosts, faults

LEMMA LeftoverMoves ==
  ASSUME TypeOK, ProcessOK, NEW s \in Servers, NEW w \in leftover, HandleLeftover(s, w)
  PROVE  ClientsMove
<1>1. UNCHANGED <<requests, responses, client, accum, ghosts, abandoned>>
  BY DEF HandleLeftover
<1>2. \A r \in Servers : \/ server'[r] = server[r]
                         \/ server'[r] = [timestamp |-> w.timestamp, value |-> w.value]
  BY DEF HandleLeftover, TypeOK
<1>3. ASSUME NEW v \in leftover'
      PROVE  \E u \in leftover : v.timestamp = u.timestamp /\ v.value = u.value
  <2>1. w \in LeftoverWrite
    BY DEF ProcessOK
  <2>2. PICK u : u = [w EXCEPT !.to = @ \ {s}]
    OBVIOUS
  <2>3. u.timestamp = w.timestamp /\ u.value = w.value
    BY <2>1, <2>2 DEF LeftoverWrite
  <2>4. v \in leftover \/ v = u
    BY <2>2 DEF HandleLeftover
  <2>. QED  BY <2>3, <2>4
<1>4. ExamplePairs' \subseteq ExamplePairs
  <2>1. Pairs' \subseteq Pairs \cup {[timestamp |-> w.timestamp, value |-> w.value]}
    BY <1>1, <1>2 DEF Pairs, HasHeard, client, accum
  <2>. QED  BY <1>3, <2>1 DEF ExamplePairs
<1>. QED  BY <1>1, <1>4, StillMoves, SameWatermark DEF ClientsMove, client, ghosts

LEMMA StepMoves ==
  ASSUME CrashInv, Inv, [ExampleNext]_example_vars, forgot' = {}
  PROVE  ClientsMove
<1>1. TypeOK /\ ProcessOK
  BY DEF CrashInv, TrustInv
<1>2. ASSUME NEW s \in Servers, Restart(s)  PROVE FALSE
  BY <1>2 DEF Restart
<1>3. CASE UNCHANGED example_vars
  <2>1. UNCHANGED <<server, requests, responses, client, accum, ghosts, faults>>
    BY <1>3 DEF example_vars, vars
  <2>2. ExamplePairs' = ExamplePairs
    BY <2>1 DEF ExamplePairs, Pairs, HasHeard, client, accum, faults
  <2>. QED  BY <2>1, <2>2, StillMoves, SameWatermark DEF ClientsMove, client, ghosts, faults
<1>. QED  BY <1>1, <1>2, <1>3, ExampleKinds, OperatesMoves, HandleMoves, StartMoves,
             EndMoves, DropMoves, LeftoverMoves DEF Ends

-----------------------------------------------------------------------------
(* As long as no server was started again, the register's invariant holds  *)
(* beside processes that come and go.                                      *)
LEMMA TrustAll ==
  TrustInv(Trusted) /\ forgot = {} /\ ReadsAreFresh /\ WritesAreNewer => Inv
<1>1. forgot = {} => Trusted = Servers
  BY DEF Trusted
<1>. QED  BY <1>1, QuorumsOfServers
          DEF Inv, TrustInv, Covered, QuorumsCoverWatermark

LEMMA OutsideFresh ==
  ASSUME ReadsAreFresh, WritesAreNewer, Outside
  PROVE  ReadsAreFresh' /\ WritesAreNewer'
<1>1. ASSUME NEW c \in Clients,
             (phase'[c] = "get" /\ IsQuorum(replies'[c])) \/ phase'[c] = "write_back"
      PROVE  TsLe(min_ts'[c], max_resp'[c].timestamp)
  <2>1. Undisturbed(c)
    BY <1>1 DEF Outside, Gone
  <2>. QED  BY <1>1, <2>1 DEF Undisturbed, ReadsAreFresh
<1>2. ASSUME NEW c \in Clients, phase'[c] = "write"
      PROVE  TsLt(min_ts'[c], request'[c].timestamp)
  <2>1. Undisturbed(c)
    BY <1>2 DEF Outside, Gone
  <2>. QED  BY <1>2, <2>1 DEF Undisturbed, WritesAreNewer
<1>. QED  BY <1>1, <1>2 DEF ReadsAreFresh, WritesAreNewer, IsQuorum, quorum_size

LEMMA ExampleInvStep ==
  ASSUME CrashInv, Inv, [ExampleNext]_example_vars, forgot' = {}
  PROVE  Inv'
<1>1. TrustInv(Trusted)'
  BY CrashStep DEF CrashInv
<1>2. CASE Leaving
  <2>1. ReadsAreFresh' /\ WritesAreNewer'
    BY <1>2, LeavingOutside, OutsideFresh DEF Inv
  <2>2. (TrustInv(Trusted) /\ forgot = {} /\ ReadsAreFresh /\ WritesAreNewer => Inv)'
    BY TrustAll, PTL
  <2>. QED  BY <1>1, <2>1, <2>2
<1>3. ASSUME [Next]_vars
      PROVE  Inv'
  BY <1>3, InvStep
<1>4. ASSUME NEW c \in Clients, Operates(c)
      PROVE  Inv'
  BY <1>3, <1>4, Operating
<1>5. ASSUME NEW s \in Servers, HandleRequest(s)
      PROVE  Inv'
  <2>1. TypeOK /\ ProcessOK
    BY DEF CrashInv, TrustInv
  <2>. QED  BY <1>3, <1>5, <2>1, HandleRequestProcess
<1>6. CASE UNCHANGED example_vars
  BY <1>3, <1>6 DEF example_vars
<1>. QED  BY <1>2, <1>4, <1>5, <1>6, ExampleKinds DEF Leaving

LEMMA AccountedForStays ==
  ASSUME TypeOK, Begun, NEW t \in Timestamp, AccountedFor(t),
         abandoned \subseteq abandoned', TsLe(watermark, watermark'),
         watermark' \in Timestamp, t.client_id \in Clients => Moves(t.client_id)
  PROVE  AccountedFor(t)'
<1>1. CASE t = TsDefault \/ t \in abandoned
  BY <1>1 DEF AccountedFor
<1>. SUFFICES ASSUME t.client_id \in Clients
              PROVE  AccountedFor(t)'
  BY <1>1 DEF AccountedFor
<1>2. PICK d \in Clients : d = t.client_id
  OBVIOUS
<1>3. /\ watermark \in Timestamp /\ watermark' \in Timestamp
      /\ min_ts[d] \in Timestamp
  BY FieldTypes DEF TypeOK
<1>4. CASE TsLe(t, IF phase[d] = "idle" THEN watermark ELSE min_ts[d])
  <2>1. TsLe(t, watermark)
    BY <1>3, <1>4, TsTransitive DEF Begun
  <2>2. TsLe(t, watermark')
    BY <1>3, <2>1, TsTransitive
  <2>3. TsLe(t, IF phase'[d] = "idle" THEN watermark' ELSE min_ts'[d])
    BY <1>2, <1>4, <2>1, <2>2 DEF Moves, Stays, Begins, WritesBack, Closes
  <2>. QED  BY <1>2, <2>3 DEF AccountedFor
<1>5. CASE phase[d] = "write" /\ request[d].timestamp = t
  BY <1>2, <1>5 DEF Moves, Stays, Begins, WritesBack, Closes, AccountedFor
<1>. QED  BY <1>1, <1>2, <1>4, <1>5 DEF AccountedFor

(* The timestamp that a write takes is found nowhere, unless an abandoned  *)
(* write had taken it.                                                     *)
LEMMA ChosenIsFresh ==
  ASSUME TypeOK, ProcessOK, RememberedInv, NEW c \in Clients, WriteExecute(c)
  PROVE  /\ ExecTimestamp(c) \in Timestamp
         /\ ExecTimestamp(c).client_id = c
         /\ ExecTimestamp(c) \notin abandoned =>
              \A p \in ExamplePairs : p.timestamp # ExecTimestamp(c)
<1>1. /\ phase[c] = "get_timestamp" /\ IsQuorum(replies[c])
      /\ client_ctr[c] # 0
  BY WriteExecuteFrame DEF RememberedInv, Inv, RequestsTagged
<1>2. PICK t : t = ExecTimestamp(c)
  OBVIOUS
<1>3. /\ t \in Timestamp
      /\ TsLt(max_resp[c].timestamp, t)
      /\ t.client_id = c
  BY <1>1, <1>2, ExecTimestampType DEF ExecTimestamp
<1>4. TsLe(min_ts[c], max_resp[c].timestamp)
  BY <1>1, FreshGet DEF RememberedInv
<1>5. min_ts[c] \in Timestamp /\ TsLt(min_ts[c], t)
  BY <1>3, <1>4, FieldTypes, TsTransitive
<1>6. ~ TsLe(t, min_ts[c])
  BY <1>3, <1>5, TsTotal DEF TsLe
<1>7. t # TsDefault
  BY <1>3, ClientsAssumption DEF TsDefault
<1>8. AccountedFor(t) => t \in abandoned
  BY <1>1, <1>3, <1>6, <1>7 DEF AccountedFor
<1>. QED  BY <1>2, <1>3, <1>8 DEF RememberedInv, Accounted

LEMMA ExecutePairs ==
  ASSUME Inv, NEW c \in Clients, WriteExecute(c), UNCHANGED leftover
  PROVE  ExamplePairs' \subseteq
           ExamplePairs \cup {[timestamp |-> ExecTimestamp(c), value |-> new_value[c]]}
BY PairsExecute DEF ExamplePairs

LEMMA AccountedStep ==
  ASSUME TypeOK, ProcessOK, RememberedInv, ClientsMove, TypeOK'
  PROVE  Accounted' /\ Begun'
<1>1. /\ abandoned \subseteq abandoned' /\ TsLe(watermark, watermark')
      /\ watermark \in Timestamp /\ watermark' \in Timestamp
      /\ \A d \in Clients : min_ts[d] \in Timestamp
      /\ \A p \in ExamplePairs : p.timestamp \in Timestamp
  BY ExamplePairTypes DEF ClientsMove, TypeOK, Register
<1>2. \A d \in Clients : Moves(d) =>
        (phase'[d] # "idle" => TsLe(min_ts'[d], watermark'))
  BY <1>1, TsTransitive
     DEF RememberedInv, Begun, Moves, Stays, Begins, WritesBack, Closes
<1>3. CASE ExamplePairs' \subseteq ExamplePairs /\ \A d \in Clients : Moves(d)
  <2>1. ASSUME NEW p \in ExamplePairs'
        PROVE  AccountedFor(p.timestamp)'
    <3>1. PICK t \in Timestamp : t = p.timestamp
      BY <1>1, <1>3
    <3>2. AccountedFor(t)
      BY <1>3, <3>1 DEF RememberedInv, Accounted
    <3>3. AccountedFor(t)'
      BY <1>1, <1>3, <3>2, AccountedForStays DEF RememberedInv
    <3>. QED  BY <3>1, <3>3
  <2>. QED  BY <1>2, <1>3, <2>1 DEF Accounted, Begun
<1>4. ASSUME UNCHANGED <<abandoned, leftover>>,
             NEW c \in Clients, WriteExecute(c), \A d \in Clients \ {c} : Moves(d)
      PROVE  Accounted' /\ Begun'
  <2>1. /\ phase[c] = "get_timestamp" /\ phase'[c] = "write"
        /\ min_ts'[c] = min_ts[c]
        /\ request'[c].timestamp = ExecTimestamp(c)
    BY <1>4, ExecuteMoves
  <2>2. ExecTimestamp(c).client_id = c
    BY <1>4, ChosenIsFresh
  <2>3. ASSUME NEW p \in ExamplePairs'
        PROVE  AccountedFor(p.timestamp)'
    <3>1. CASE p \in ExamplePairs
      <4>1. PICK t \in Timestamp : t = p.timestamp
        BY <1>1, <3>1
      <4>2. AccountedFor(t)
        BY <3>1, <4>1 DEF RememberedInv, Accounted
      <4>3. t.client_id = c => AccountedFor(t)'
        BY <1>4, <2>1, <4>2 DEF AccountedFor
      <4>4. t.client_id # c => AccountedFor(t)'
        BY <1>1, <1>4, <4>2, AccountedForStays DEF RememberedInv
      <4>. QED  BY <4>1, <4>3, <4>4
    <3>2. CASE p.timestamp = ExecTimestamp(c)
      <4>1. PICK t : t = ExecTimestamp(c)
        OBVIOUS
      <4>2. t.client_id = c /\ request'[c].timestamp = t /\ p.timestamp = t
        BY <2>1, <2>2, <3>2, <4>1
      <4>3. AccountedFor(t)'
        BY <2>1, <4>2 DEF AccountedFor
      <4>. QED  BY <4>2, <4>3
    <3>3. p \in ExamplePairs \/ p.timestamp = ExecTimestamp(c)
      <4>1. PICK q : q = [timestamp |-> ExecTimestamp(c), value |-> new_value[c]]
        OBVIOUS
      <4>2. p \in ExamplePairs \/ p = q
        BY <1>4, <4>1, ExecutePairs DEF RememberedInv
      <4>. QED  BY <4>1, <4>2
    <3>. QED  BY <3>1, <3>2, <3>3
  <2>4. TsLe(min_ts'[c], watermark')
    BY <1>1, <2>1, TsTransitive DEF RememberedInv, Begun
  <2>. QED  BY <1>2, <1>4, <2>3, <2>4 DEF Accounted, Begun
<1>. QED  BY <1>3, <1>4 DEF ClientsMove

LEMMA NamesOneStep ==
  ASSUME TypeOK, ProcessOK, RememberedInv, ClientsMove
  PROVE  NamesOne' /\ OwnWrites'
<1>1. abandoned \subseteq abandoned'
  BY DEF ClientsMove
<1>2. ASSUME NEW d \in Clients, Moves(d), ExamplePairs' \subseteq ExamplePairs
      PROVE  OwnWrite(d)'
  BY <1>1, <1>2 DEF RememberedInv, OwnWrites, OwnWrite, Moves, Stays, Begins, WritesBack,
                    Closes
<1>3. CASE ExamplePairs' \subseteq ExamplePairs /\ \A d \in Clients : Moves(d)
  <2>1. NamesOne'
    BY <1>1, <1>3 DEF RememberedInv, NamesOne
  <2>. QED  BY <1>2, <1>3, <2>1 DEF OwnWrites
<1>4. ASSUME UNCHANGED <<abandoned, leftover>>,
             NEW c \in Clients, WriteExecute(c), \A d \in Clients \ {c} : Moves(d)
      PROVE  NamesOne' /\ OwnWrites'
  <2>1. PICK t, v : t = ExecTimestamp(c) /\ v = new_value[c]
    OBVIOUS
  <2>2. PICK q : q = [timestamp |-> t, value |-> v]
    OBVIOUS
  <2>3. /\ q.timestamp = t /\ q.value = v
        /\ ExamplePairs' \subseteq ExamplePairs \cup {q}
    BY <1>4, <2>1, <2>2, ExecutePairs DEF RememberedInv
  <2>4. /\ t.client_id = c
        /\ t \notin abandoned => \A p \in ExamplePairs : p.timestamp # t
    BY <1>4, <2>1, ChosenIsFresh
  <2>5. /\ phase'[c] = "write" /\ request'[c].timestamp = t
        /\ new_value'[c] = v
    BY <1>4, <2>1, ExecuteMoves
  <2>6. NamesOne'
    BY <1>4, <2>3, <2>4 DEF RememberedInv, NamesOne
  <2>7. OwnWrite(c)'
    BY <1>4, <2>3, <2>4, <2>5 DEF OwnWrite
  <2>8. ASSUME NEW d \in Clients \ {c}
        PROVE  OwnWrite(d)'
    <3>1. phase'[d] = "write" => Stays(d)
      BY <1>4, <2>8 DEF Moves, Begins, WritesBack, Closes
    <3>. QED  BY <1>4, <2>3, <2>4, <2>8, <3>1
              DEF RememberedInv, OwnWrites, OwnWrite, Stays
  <2>. QED  BY <2>6, <2>7, <2>8 DEF OwnWrites
<1>. QED  BY <1>3, <1>4 DEF ClientsMove

LEMMA ForgotGrows ==
  ASSUME CrashInv, [ExampleNext]_example_vars
  PROVE  forgot \subseteq forgot'
<1>1. CASE Leaving
  BY <1>1, LeavingOutside DEF Outside
<1>2. ASSUME NEW c \in Clients, Operates(c)  PROVE forgot \subseteq forgot'
  BY <1>2, Operating DEF faults
<1>3. ASSUME NEW s \in Servers, HandleRequest(s)  PROVE forgot \subseteq forgot'
  BY <1>3 DEF HandleRequest, faults
<1>. QED  BY <1>1, <1>2, <1>3, ExampleKinds DEF Leaving, example_vars, faults

LEMMA RememberedStep ==
  ASSUME CrashInv, forgot = {} => RememberedInv, [ExampleNext]_example_vars
  PROVE  forgot' = {} => RememberedInv'
<1>. SUFFICES ASSUME forgot' = {}
              PROVE  RememberedInv'
  OBVIOUS
<1>1. forgot = {}
  BY ForgotGrows
<1>2. TypeOK /\ ProcessOK /\ Inv /\ RememberedInv
  BY <1>1 DEF CrashInv, TrustInv, RememberedInv
<1>3. Inv' /\ TypeOK'
  <2>1. Inv'
    BY <1>2, ExampleInvStep
  <2>. QED  BY <2>1 DEF Inv
<1>4. ClientsMove
  BY <1>2, StepMoves
<1>. QED  BY <1>2, <1>3, <1>4, AccountedStep, NamesOneStep DEF RememberedInv

-----------------------------------------------------------------------------
(***************************************************************************)
(* A client that runs beside no writer: what it expects is the value of    *)
(* the watermark, and nothing else is in use beyond it but its own write.  *)
(***************************************************************************)
WritesAlone(c) == \A d \in running \ {c} : remaining_writes[d] = 0

UpToDate(c) ==
  IF phase[c] = "write" THEN watermark \in {min_ts[c], request[c].timestamp}
  ELSE /\ phase[c] # "idle" => watermark = min_ts[c]
       /\ \A p \in ExamplePairs :
            p.timestamp = watermark => expected_value[c] \subseteq {p.value}

Lone(c) == WritesAlone(c) /\ (abandoned = {} /\ forgot = {} => UpToDate(c))

LoneClients == \A c \in running \ accompanied : Lone(c)

ExampleInv ==
  /\ CrashInv
  /\ forgot = {} => RememberedInv
  /\ LoneClients

-----------------------------------------------------------------------------
LEMMA WritesAloneStep ==
  ASSUME CrashInv, LoneClients, [ExampleNext]_example_vars
  PROVE  \A c \in running' \ accompanied' : WritesAlone(c)'
<1>1. TypeOK /\ ProcessOK /\ remaining_writes \in [Clients -> Nat] /\ running \subseteq Clients
  BY DEF CrashInv, TrustInv, ProcessOK
<1>2. ASSUME running' \subseteq running, UNCHANGED accompanied,
             \A d \in Clients : remaining_writes[d] = 0 => remaining_writes'[d] = 0
      PROVE  \A c \in running' \ accompanied' : WritesAlone(c)'
  BY <1>1, <1>2 DEF LoneClients, Lone, WritesAlone
<1>3. ASSUME NEW e \in Clients, Start(e)
      PROVE  \A c \in running' \ accompanied' : WritesAlone(c)'
  <2>1. PICK w \in Workloads[e] :
          /\ remaining_writes' = [remaining_writes EXCEPT ![e] = w.n_writes]
          /\ accompanied' = (accompanied \ {e})
               \cup (IF w.n_writes > 0 THEN running ELSE {})
               \cup (IF \E d \in running : remaining_writes[d] > 0 THEN {e} ELSE {})
    BY <1>3 DEF Start
  <2>2. running' = running \cup {e} /\ e \notin running /\ w.n_writes \in Nat
    <3>1. w.n_writes \in Nat
      BY <2>1, ExampleAssumption
    <3>. QED  BY <1>3, <3>1 DEF Start
  <2>3. ASSUME NEW c \in running' \ accompanied', NEW d \in running' \ {c}
        PROVE  remaining_writes'[d] = 0
    <3>1. CASE c = e
      BY <1>1, <2>1, <2>2, <2>3, <3>1
    <3>2. CASE d = e
      <4>1. w.n_writes = 0
        BY <2>1, <2>2, <2>3, <3>2
      <4>. QED  BY <1>1, <2>1, <3>2, <4>1
    <3>3. CASE c # e /\ d # e
      BY <1>1, <2>1, <2>2, <2>3, <3>3 DEF LoneClients, Lone, WritesAlone
    <3>. QED  BY <3>1, <3>2, <3>3
  <2>. QED  BY <2>3 DEF WritesAlone
<1>4. ASSUME NEW c \in Clients, Ends(c)
      PROVE  running' \subseteq running /\ UNCHANGED <<accompanied, remaining_writes>>
  BY <1>4 DEF Ends, End, workload
<1>5. ASSUME NEW c \in Clients, Operates(c)
      PROVE  /\ UNCHANGED <<running, accompanied>>
             /\ \A d \in Clients : remaining_writes[d] = 0 => remaining_writes'[d] = 0
  <2>1. UNCHANGED <<running, accompanied>>
    BY <1>5, Operating DEF process
  <2>2. CASE EndWrite(c)
    <3>1. remaining_writes[c] > 0
      BY <1>1, <2>2 DEF EndWrite, WriteReturn, ProcessOK
    <3>2. remaining_writes' = [remaining_writes EXCEPT ![c] = @ - 1]
      BY <2>2 DEF EndWrite
    <3>. QED  BY <1>1, <2>1, <3>1, <3>2
  <2>3. CASE BeginOperation(c) \/ Continue(c) \/ EndRead(c)
    BY <2>1, <2>3 DEF BeginOperation, Continue, EndRead, workload
  <2>. QED  BY <1>5, <2>2, <2>3 DEF Operates
<1>6. ASSUME NEW c \in Clients, NEW s \in Servers, DropClient(s, c)
      PROVE  UNCHANGED <<running, accompanied, remaining_writes>>
  BY <1>6 DEF DropClient, workload, process
<1>7. ASSUME NEW s \in Servers, HandleRequest(s)
      PROVE  UNCHANGED <<running, accompanied, remaining_writes>>
  BY <1>7 DEF HandleRequest, workload, process
<1>8. ASSUME NEW s \in Servers, Restart(s)
      PROVE  UNCHANGED <<running, accompanied, remaining_writes>>
  BY <1>8 DEF Restart, workload, process
<1>9. ASSUME NEW s \in Servers, NEW w \in leftover, HandleLeftover(s, w)
      PROVE  UNCHANGED <<running, accompanied, remaining_writes>>
  BY <1>9 DEF HandleLeftover, workload, process
<1>10. CASE UNCHANGED example_vars
  BY <1>2, <1>10 DEF example_vars, workload, process
<1>. QED  BY <1>2, <1>3, <1>4, <1>5, <1>6, <1>7, <1>8, <1>9, <1>10, ExampleKinds

LEMMA LonePairs ==
  ASSUME TypeOK, ProcessOK, RememberedInv, abandoned = {}, NEW c \in Clients,
         WritesAlone(c), NEW p \in ExamplePairs
  PROVE  \/ TsLe(p.timestamp, watermark)
         \/ phase[c] = "write" /\ p.timestamp = request[c].timestamp
<1>1. PICK t \in Timestamp : t = p.timestamp
  BY ExamplePairTypes DEF Register
<1>2. AccountedFor(t) /\ watermark \in Timestamp
  BY <1>1 DEF RememberedInv, Accounted, TypeOK
<1>3. CASE t = TsDefault
  BY <1>1, <1>2, <1>3, TsDefaultLeast
<1>4. ASSUME NEW d \in Clients,
             TsLe(t, IF phase[d] = "idle" THEN watermark ELSE min_ts[d])
      PROVE  TsLe(t, watermark)
  <2>1. min_ts[d] \in Timestamp /\ (phase[d] # "idle" => TsLe(min_ts[d], watermark))
    BY FieldTypes DEF RememberedInv, Begun
  <2>. QED  BY <1>2, <1>4, <2>1, TsTransitive
<1>5. ASSUME NEW d \in Clients, phase[d] = "write"
      PROVE  d = c
  BY <1>5 DEF WritesAlone, ProcessOK
<1>. QED  BY <1>1, <1>2, <1>3, <1>4, <1>5 DEF AccountedFor

LEMMA HeardPair ==
  ASSUME TypeOK, NEW c \in Clients, ReadUnanimous(c) \/ ReadReturn(c)
  PROVE  max_resp[c] \in ExamplePairs
<1>1. CASE ReadReturn(c)
  BY <1>1 DEF ReadReturn, ExamplePairs, Pairs, HasHeard
<1>2. CASE ReadUnanimous(c)
  <2>1. replies[c] # {}
    BY <1>2, QuorumsIntersect DEF ReadUnanimous, TypeOK
  <2>. QED  BY <1>2, <2>1 DEF ReadUnanimous, ExamplePairs, Pairs, HasHeard
<1>. QED  BY <1>1, <1>2

(* Such a client reads the watermark, and with it what it expects. *)
LEMMA LoneRead ==
  ASSUME TypeOK, ProcessOK, RememberedInv, abandoned = {}, NEW c \in Clients,
         WritesAlone(c), UpToDate(c), EndRead(c)
  PROVE  /\ max_resp[c] \in ExamplePairs
         /\ max_resp[c].timestamp = watermark
         /\ expected_value[c] \subseteq {max_resp[c].value}
         /\ expected_value'[c] = {max_resp[c].value}
<1>1. /\ ReadUnanimous(c) \/ ReadReturn(c)
      /\ phase[c] \in {"get", "write_back"}
      /\ TsLe(min_ts[c], max_resp[c].timestamp)
  BY DEF EndRead, ReadUnanimous, ReadReturn, RememberedInv, Inv, ReadsAreFresh
<1>2. max_resp[c] \in ExamplePairs
  BY <1>1, HeardPair
<1>3. TsLe(max_resp[c].timestamp, watermark)
  BY <1>1, <1>2, LonePairs
<1>4. watermark = min_ts[c]
  BY <1>1 DEF UpToDate
<1>5. max_resp[c].timestamp \in Timestamp /\ watermark \in Timestamp
  BY FieldTypes DEF TypeOK
<1>6. max_resp[c].timestamp = watermark
  BY <1>1, <1>3, <1>4, <1>5, TsTotal DEF TsLe
<1>7. expected_value'[c] = {max_resp[c].value}
  BY DEF EndRead, ProcessOK
<1>. QED  BY <1>1, <1>2, <1>6, <1>7 DEF UpToDate

(* A return of another client moves the watermark to this client's write   *)
(* at most.                                                                *)
LEMMA OtherReturns ==
  ASSUME TypeOK, ProcessOK, RememberedInv, abandoned = {}, NEW c \in Clients,
         WritesAlone(c), NEW e \in Clients \ {c}, EndRead(e) \/ EndWrite(e)
  PROVE  \/ watermark' = watermark
         \/ phase[c] = "write" /\ watermark' = request[c].timestamp
<1>1. EndRead(e)
  BY DEF WritesAlone, ProcessOK, EndWrite, WriteReturn
<1>2. /\ ReadUnanimous(e) \/ ReadReturn(e)
      /\ watermark' = TsMax(watermark, max_resp[e].timestamp)
  BY <1>1 DEF EndRead, ReadUnanimous, ReadReturn, Return
<1>3. max_resp[e] \in ExamplePairs
  BY <1>2, HeardPair
<1>4. \/ TsLe(max_resp[e].timestamp, watermark)
      \/ phase[c] = "write" /\ max_resp[e].timestamp = request[c].timestamp
  BY <1>3, LonePairs
<1>5. max_resp[e].timestamp \in Timestamp /\ watermark \in Timestamp
  BY FieldTypes DEF TypeOK
<1>. QED  BY <1>2, <1>4, <1>5, TsTotal DEF TsMax, TsLe

LEMMA UpToDateStays ==
  ASSUME NEW c \in Clients, UpToDate(c), Stays(c), ExamplePairs' \subseteq ExamplePairs,
         expected_value'[c] = expected_value[c],
         \/ watermark' = watermark
         \/ phase[c] = "write" /\ watermark' = request[c].timestamp
  PROVE  UpToDate(c)'
BY DEF UpToDate, Stays

(***************************************************************************)
(* UpToDate, one kind of step after the other.  The client c is alone      *)
(* before and after the step, or it is started by it.                      *)
(***************************************************************************)
Beside(c) == WritesAlone(c) /\ UpToDate(c) /\ c \in running

(* The steps of others. *)
UpToDateOther ==
  \A c \in Clients : Beside(c) => UpToDate(c)'

LEMMA UnmovedUpToDate ==
  ASSUME UNCHANGED <<phase, request, new_value, min_ts, watermark, expected_value>>,
         ExamplePairs' \subseteq ExamplePairs
  PROVE  UpToDateOther
BY UpToDateStays DEF UpToDateOther, Beside, Stays

LEMMA UndisturbedUpToDate ==
  ASSUME NEW e \in Clients, \A d \in Clients \ {e} : Undisturbed(d),
         UNCHANGED <<watermark, expected_value>>, ExamplePairs' \subseteq ExamplePairs
  PROVE  \A c \in Clients \ {e} : Beside(c) => UpToDate(c)'
BY UpToDateStays DEF Beside, Stays, Undisturbed

(* A process starts: it expects nothing yet. *)
LEMMA StartUpToDate ==
  ASSUME TypeOK, ProcessOK, NEW e \in Clients, Start(e)
  PROVE  /\ UpToDate(e)'
         /\ \A c \in Clients \ {e} : Beside(c) => UpToDate(c)'
<1>1. /\ UNCHANGED <<server, requests, responses, phase, request, new_value, accum,
                     ghosts, faults>>
      /\ e \notin running
      /\ expected_value' = [expected_value EXCEPT ![e] = {}]
  BY DEF Start
<1>2. ExamplePairs' = ExamplePairs
  BY <1>1 DEF ExamplePairs, Pairs, HasHeard, accum, faults
<1>3. phase'[e] = "idle" /\ expected_value'[e] = {}
  BY <1>1 DEF ProcessOK
<1>4. ASSUME NEW c \in Clients \ {e}, Beside(c)
      PROVE  UpToDate(c)'
  <2>1. expected_value'[c] = expected_value[c] /\ Stays(c) /\ watermark' = watermark
    BY <1>1, <1>4 DEF ProcessOK, Stays, ghosts
  <2>. QED  BY <1>2, <1>4, <2>1, UpToDateStays DEF Beside
<1>. QED  BY <1>3, <1>4 DEF UpToDate

LEMMA EndUpToDate ==
  ASSUME TypeOK, NEW e \in Clients, End(e)
  PROVE  \A c \in Clients \ {e} : Beside(c) => UpToDate(c)'
<1>1. /\ \A d \in Clients \ {e} : Undisturbed(d)
      /\ UNCHANGED <<watermark, expected_value>>
  BY EndFrame DEF workload
<1>. QED  BY <1>1, EndPairs, UndisturbedUpToDate

(* An operation begins. *)
LEMMA BeginUpToDate ==
  ASSUME TypeOK, CrashInv, Inv, NEW e \in Clients, BeginOperation(e)
  PROVE  UpToDateOther
<1>1. ReadInvoke(e) \/ \E v \in Arguments : WriteInvoke(e, v)
  <2>1. remaining_writes[e] \in Nat /\ 1 .. remaining_writes[e] \subseteq Arguments
    BY DEF CrashInv, ProcessOK
  <2>2. WriteIsNext(e) => remaining_writes[e] # 0
    BY <2>1 DEF BeginOperation, WriteIsNext, Done
  <2>3. WriteIsNext(e) => remaining_writes[e] \in Arguments
    BY <2>1, <2>2
  <2>. QED  BY <2>3 DEF BeginOperation
<1>2. /\ UNCHANGED <<watermark, expected_value, leftover>>
      /\ phase[e] = "idle" /\ phase'[e] \in {"get", "get_timestamp"}
      /\ min_ts'[e] = watermark
      /\ \A d \in Clients \ {e} : Stays(d)
  <2>1. /\ Others(e) /\ phase[e] = "idle" /\ min_ts'[e] = watermark
        /\ phase'[e] \in {"get", "get_timestamp"} /\ UNCHANGED watermark
    BY <1>1, ReadInvokeFrame, WriteInvokeFrame DEF ReadInvoke, WriteInvoke, Invoke
  <2>2. \A d \in Clients \ {e} : new_value'[d] = new_value[d]
    BY <1>1 DEF ReadInvoke, WriteInvoke, TypeOK
  <2>. QED  BY <2>1, <2>2 DEF BeginOperation, workload, faults, Stays, Others
<1>3. ExamplePairs' \subseteq ExamplePairs
  <2>1. Next /\ ~ \E d \in Clients : WriteExecute(d)
    <3>1. Next
      BY <1>1 DEF Next
    <3>2. ASSUME NEW d \in Clients, WriteExecute(d)  PROVE FALSE
      <4>1. phase[d] = "get_timestamp" /\ phase'[d] = "write"
        BY <3>2, ExecuteMoves
      <4>. QED  BY <1>2, <4>1 DEF Stays
    <3>. QED  BY <3>1, <3>2
  <2>. QED  BY <1>2, <2>1, PairsStep DEF ExamplePairs
<1>4. ASSUME Beside(e)
      PROVE  UpToDate(e)'
  BY <1>2, <1>3, <1>4 DEF Beside, UpToDate
<1>5. ASSUME NEW c \in Clients \ {e}, Beside(c)
      PROVE  UpToDate(c)'
  BY <1>2, <1>3, <1>5, UpToDateStays DEF Beside
<1>. QED  BY <1>4, <1>5 DEF UpToDateOther

(* A writer is not beside a client that runs alone. *)
LEMMA NoOtherWriter ==
  ASSUME ProcessOK, NEW e \in Clients, phase[e] \in {"get_timestamp", "write"},
         NEW c \in Clients \ {e}
  PROVE  ~ Beside(c)
BY DEF Beside, WritesAlone, ProcessOK

LEMMA ContinueFrame ==
  ASSUME TypeOK, NEW e \in Clients, Continue(e)
  PROVE  UNCHANGED <<watermark, expected_value, leftover>>
<1>1. UNCHANGED <<expected_value, leftover>>
  BY DEF Continue, workload, faults
<1>2. CASE ReadWriteBack(e) \/ WriteExecute(e)
  BY <1>1, <1>2, ReadWriteBackFrame, ExecuteMoves DEF ghosts
<1>3. ASSUME NEW m \in responses, Deliver(e, m)  PROVE UNCHANGED watermark
  BY <1>3, DeliverFrame DEF ghosts
<1>4. ASSUME NEW s \in Servers, InsertError(e, s)  PROVE UNCHANGED watermark
  BY <1>4 DEF InsertError, ghosts
<1>. QED  BY <1>1, <1>2, <1>3, <1>4 DEF Continue

LEMMA ContinueUpToDate ==
  ASSUME TypeOK, ProcessOK, Inv, NEW e \in Clients, Continue(e)
  PROVE  UpToDateOther
<1>1. UNCHANGED <<watermark, expected_value, leftover>>
  BY ContinueFrame DEF workload
<1>2. ASSUME ~ \E d \in Clients : WriteExecute(d)
      PROVE  ExamplePairs' \subseteq ExamplePairs
  BY <1>1, <1>2, PairsStep DEF ExamplePairs, Continue, Next, Advance, LinkFailure
<1>3. CASE ReadWriteBack(e)
  <2>1. /\ Others(e) /\ phase[e] = "get" /\ phase'[e] = "write_back"
        /\ UNCHANGED <<min_ts, new_value>>
    BY <1>3, ReadWriteBackFrame DEF ReadWriteBack, ghosts
  <2>2. \A d \in Clients \ {e} : Stays(d)
    BY <2>1 DEF Stays, Others
  <2>3. ASSUME NEW d \in Clients, WriteExecute(d)  PROVE FALSE
    <3>1. phase[d] = "get_timestamp" /\ phase'[d] = "write"
      BY <2>3, ExecuteMoves
    <3>. QED  BY <2>1, <2>2, <3>1 DEF Stays
  <2>4. ExamplePairs' \subseteq ExamplePairs
    BY <1>2, <2>3
  <2>5. ASSUME Beside(e)
        PROVE  UpToDate(e)'
    BY <1>1, <2>1, <2>4, <2>5 DEF Beside, UpToDate
  <2>6. ASSUME NEW c \in Clients \ {e}, Beside(c)
        PROVE  UpToDate(c)'
    BY <1>1, <2>2, <2>4, <2>6, UpToDateStays DEF Beside
  <2>. QED  BY <2>5, <2>6 DEF UpToDateOther
<1>4. CASE WriteExecute(e)
  <2>1. /\ phase[e] = "get_timestamp" /\ phase'[e] = "write"
        /\ min_ts'[e] = min_ts[e]
    BY <1>4, ExecuteMoves
  <2>2. ASSUME Beside(e)
        PROVE  UpToDate(e)'
    BY <1>1, <2>1, <2>2 DEF Beside, UpToDate
  <2>. QED  BY <2>1, <2>2, NoOtherWriter DEF UpToDateOther
<1>5. ASSUME NEW m \in responses, Deliver(e, m)
      PROVE  UpToDateOther
  <2>1. UNCHANGED <<phase, request, new_value, min_ts>>
    BY <1>5, DeliverFrame DEF client, ghosts
  <2>2. ASSUME NEW d \in Clients, WriteExecute(d)  PROVE FALSE
    BY <2>1, <2>2, ExecuteMoves
  <2>. QED  BY <1>1, <1>2, <2>1, <2>2, UnmovedUpToDate
<1>6. ASSUME NEW s \in Servers, InsertError(e, s)
      PROVE  UpToDateOther
  <2>1. UNCHANGED <<phase, request, new_value, min_ts>>
    BY <1>6 DEF InsertError, client, ghosts
  <2>2. ASSUME NEW d \in Clients, WriteExecute(d)  PROVE FALSE
    BY <2>1, <2>2, ExecuteMoves
  <2>. QED  BY <1>1, <1>2, <2>1, <2>2, UnmovedUpToDate
<1>. QED  BY <1>3, <1>4, <1>5, <1>6 DEF Continue

(* A read by the client itself returns the value of the watermark; a read  *)
(* by another does not move the watermark beyond the client's own write.   *)
LEMMA EndReadUpToDate ==
  ASSUME TypeOK, ProcessOK, RememberedInv, abandoned = {}, NEW e \in Clients, EndRead(e)
  PROVE  UpToDateOther
<1>1. /\ Leaves(e) /\ Leave(e) /\ UNCHANGED leftover
      /\ phase[e] \in {"get", "write_back"}
      /\ watermark' = TsMax(watermark, max_resp[e].timestamp)
      /\ expected_value' = [expected_value EXCEPT ![e] = {max_resp[e].value}]
  BY DEF EndRead, Leaves, ReadUnanimous, ReadReturn, Return, faults
<1>2. /\ Others(e) /\ phase'[e] = "idle"
      /\ \A d \in Clients \ {e} : new_value'[d] = new_value[d]
  BY <1>1, LeaveFrame DEF Leave, TypeOK
<1>3. \A d \in Clients \ {e} : Stays(d) /\ expected_value'[d] = expected_value[d]
  BY <1>1, <1>2 DEF Stays, Others, ProcessOK
<1>4. ExamplePairs' \subseteq ExamplePairs
  <2>1. ASSUME NEW d \in Clients, WriteExecute(d)  PROVE FALSE
    <3>1. phase[d] = "get_timestamp" /\ phase'[d] = "write"
      BY <2>1, ExecuteMoves
    <3>. QED  BY <1>2, <1>3, <3>1 DEF Stays
  <2>2. Inv /\ [Next]_vars
    BY DEF RememberedInv, EndRead, Next, Advance
  <2>. QED  BY <1>1, <2>1, <2>2, PairsStep DEF ExamplePairs
<1>5. ASSUME Beside(e)
      PROVE  UpToDate(e)'
  <2>1. /\ max_resp[e] \in ExamplePairs
        /\ max_resp[e].timestamp = watermark
        /\ expected_value'[e] = {max_resp[e].value}
    BY <1>5, LoneRead DEF Beside
  <2>2. watermark' = watermark
    BY <1>1, <2>1 DEF TsMax
  <2>3. ASSUME NEW p \in ExamplePairs', p.timestamp = watermark'
        PROVE  p.value = max_resp[e].value
    BY <1>4, <2>1, <2>2, <2>3 DEF RememberedInv, NamesOne
  <2>. QED  BY <1>2, <2>1, <2>3 DEF UpToDate
<1>6. ASSUME NEW c \in Clients \ {e}, Beside(c)
      PROVE  UpToDate(c)'
  <2>1. \/ watermark' = watermark
        \/ phase[c] = "write" /\ watermark' = request[c].timestamp
    BY <1>6, OtherReturns DEF Beside
  <2>. QED  BY <1>3, <1>4, <1>6, <2>1, UpToDateStays DEF Beside
<1>. QED  BY <1>5, <1>6 DEF UpToDateOther

LEMMA EndWriteUpToDate ==
  ASSUME TypeOK, ProcessOK, RememberedInv, abandoned = {}, NEW e \in Clients, EndWrite(e)
  PROVE  UpToDateOther
<1>1. /\ Leaves(e) /\ Leave(e) /\ UNCHANGED leftover
      /\ phase[e] = "write"
      /\ watermark' = TsMax(watermark, request[e].timestamp)
      /\ expected_value' = [expected_value EXCEPT ![e] = {new_value[e]}]
  BY DEF EndWrite, Leaves, WriteReturn, Return, faults
<1>2. Others(e) /\ phase'[e] = "idle" /\ expected_value'[e] = {new_value[e]}
  BY <1>1, LeaveFrame DEF ProcessOK
<1>3. ExamplePairs' \subseteq ExamplePairs
  <2>1. ASSUME NEW d \in Clients, WriteExecute(d)  PROVE FALSE
    <3>1. phase[d] = "get_timestamp" /\ phase'[d] = "write"
      BY <2>1, ExecuteMoves
    <3>. QED  BY <1>2, <3>1 DEF Others
  <2>2. Inv /\ [Next]_vars
    BY DEF RememberedInv, EndWrite, Next, Advance
  <2>. QED  BY <1>1, <2>1, <2>2, PairsStep DEF ExamplePairs
<1>4. ASSUME Beside(e)
      PROVE  UpToDate(e)'
  <2>1. watermark \in {min_ts[e], request[e].timestamp}
    BY <1>1, <1>4 DEF Beside, UpToDate
  <2>2. TsLt(min_ts[e], request[e].timestamp)
    BY <1>1 DEF RememberedInv, Inv, WritesAreNewer
  <2>3. watermark' = request[e].timestamp
    BY <1>1, <2>1, <2>2 DEF TsMax
  <2>4. ASSUME NEW p \in ExamplePairs', p.timestamp = watermark'
        PROVE  p.value = new_value[e]
    BY <1>1, <1>3, <2>3, <2>4 DEF RememberedInv, OwnWrites, OwnWrite
  <2>. QED  BY <1>2, <2>4 DEF UpToDate
<1>. QED  BY <1>1, <1>4, NoOtherWriter DEF UpToDateOther

LEMMA OperatesUpToDate ==
  ASSUME CrashInv, RememberedInv, abandoned = {}, NEW e \in Clients, Operates(e)
  PROVE  UpToDateOther
<1>1. TypeOK /\ ProcessOK /\ Inv
  BY DEF CrashInv, TrustInv, RememberedInv
<1>. QED  BY <1>1, BeginUpToDate, ContinueUpToDate, EndReadUpToDate, EndWriteUpToDate
          DEF Operates

(* The other steps leave every client as it is. *)
LEMMA ElsewhereUpToDate ==
  ASSUME TypeOK, Inv, ProcessOK,
         \/ \E c \in Clients, s \in Servers : DropClient(s, c)
         \/ \E s \in Servers : HandleRequest(s)
         \/ \E s \in Servers, w \in leftover : HandleLeftover(s, w)
         \/ UNCHANGED example_vars,
         ClientsMove
  PROVE  UpToDateOther /\ UNCHANGED <<running, accompanied>>
<1>1. /\ UNCHANGED <<phase, request, new_value, min_ts, watermark, expected_value>>
      /\ UNCHANGED <<running, accompanied>>
  <2>1. ASSUME NEW s \in Servers, HandleRequest(s)
        PROVE  UNCHANGED <<client, ghosts, workload, process>>
    BY <2>1, HandleFrame DEF HandleRequest
  <2>2. ASSUME NEW s \in Servers, NEW c \in Clients, DropClient(s, c)
        PROVE  UNCHANGED <<client, ghosts, workload, process>>
    BY <2>2 DEF DropClient
  <2>3. ASSUME NEW s \in Servers, NEW w \in leftover, HandleLeftover(s, w)
        PROVE  UNCHANGED <<client, ghosts, workload, process>>
    BY <2>3 DEF HandleLeftover
  <2>4. UNCHANGED <<client, ghosts, workload, process>>
    BY <2>1, <2>2, <2>3 DEF example_vars, vars
  <2>. QED  BY <2>4 DEF client, ghosts, workload, process
<1>2. ExamplePairs' \subseteq ExamplePairs
  BY <1>1, ExecuteMoves DEF ClientsMove
<1>. QED  BY <1>1, <1>2, UnmovedUpToDate

LEMMA LoneStep ==
  ASSUME ExampleInv, [ExampleNext]_example_vars
  PROVE  LoneClients'
<1>1. TypeOK /\ ProcessOK /\ CrashInv /\ LoneClients
  BY DEF ExampleInv, CrashInv, TrustInv
<1>2. \A c \in running' \ accompanied' : WritesAlone(c)'
  BY <1>1, WritesAloneStep
<1>3. running' \subseteq Clients
  BY <1>1, CrashStep DEF CrashInv, ProcessOK
<1>. SUFFICES ASSUME abandoned' = {}, forgot' = {},
                     NEW c \in Clients, c \in running' \ accompanied'
              PROVE  UpToDate(c)'
  BY <1>2, <1>3 DEF LoneClients, Lone
<1>4. forgot = {} /\ RememberedInv /\ Inv
  BY <1>1, ForgotGrows DEF ExampleInv, RememberedInv
<1>5. ClientsMove /\ abandoned = {}
  <2>1. ClientsMove
    BY <1>1, <1>4, StepMoves
  <2>. QED  BY <2>1 DEF ClientsMove
<1>6. ASSUME c \in running \ accompanied
      PROVE  Beside(c)
  BY <1>1, <1>4, <1>5, <1>6 DEF LoneClients, Lone, Beside
<1>7. ASSUME NEW e \in Clients, Start(e)
      PROVE  UpToDate(c)'
  <2>1. running' = running \cup {e} /\ accompanied \ {e} \subseteq accompanied'
    BY <1>7 DEF Start
  <2>2. c # e => c \in running \ accompanied
    BY <2>1
  <2>. QED  BY <1>1, <1>6, <1>7, <2>2, StartUpToDate
<1>8. ASSUME NEW e \in Clients, Ends(e)
      PROVE  UpToDate(c)'
  <2>1. running' = running \ {e} /\ accompanied' = accompanied
    BY <1>8 DEF Ends, End
  <2>2. c # e /\ Beside(c)
    BY <1>6, <2>1
  <2>. QED  BY <1>1, <1>8, <2>2, EndUpToDate DEF Ends
<1>9. ASSUME NEW e \in Clients, Operates(e)
      PROVE  UpToDate(c)'
  <2>1. UNCHANGED <<running, accompanied>>
    BY <1>1, <1>9, Operating DEF process
  <2>2. Beside(c)
    BY <1>6, <2>1
  <2>. QED  BY <1>1, <1>4, <1>5, <1>9, <2>2, OperatesUpToDate DEF UpToDateOther
<1>10. CASE \/ \E d \in Clients, s \in Servers : DropClient(s, d)
            \/ \E s \in Servers : HandleRequest(s)
            \/ \E s \in Servers, w \in leftover : HandleLeftover(s, w)
            \/ UNCHANGED example_vars
  BY <1>1, <1>4, <1>5, <1>6, <1>10, ElsewhereUpToDate DEF UpToDateOther
<1>11. ASSUME NEW s \in Servers, Restart(s)
       PROVE  UpToDate(c)'
  BY <1>11 DEF Restart
<1>. QED  BY <1>7, <1>8, <1>9, <1>10, <1>11, ExampleKinds

-----------------------------------------------------------------------------
(* The inductive invariant of the example: CrashInv of the servers that    *)
(* remember; all of the register's invariant, and what it says of the      *)
(* timestamps in use, as long as no server was started again; and what a   *)
(* client that runs beside no writer expects.                              *)
LEMMA ExampleInit_Inv == ExampleInit => ExampleInv
<1>. SUFFICES ASSUME ExampleInit PROVE ExampleInv
  OBVIOUS
<1>1. Init /\ running = {} /\ leftover = {} /\ CrashInv
  BY CrashInit DEF ExampleInit
<1>2. Inv
  BY <1>1, InvInit
<1>3. \A p \in ExamplePairs : p = Initial
  BY <1>1 DEF Init, ExamplePairs, Pairs, Pair, HasHeard
<1>4. \A c \in Clients : phase[c] = "idle"
  BY <1>1 DEF Init
<1>5. Accounted /\ NamesOne
  BY <1>3 DEF Accounted, AccountedFor, NamesOne, Initial
<1>6. Begun /\ OwnWrites
  BY <1>4 DEF Begun, OwnWrites, OwnWrite
<1>. QED  BY <1>1, <1>2, <1>5, <1>6 DEF ExampleInv, RememberedInv, LoneClients

LEMMA ExampleInv_Step ==
  ASSUME ExampleInv, [ExampleNext]_example_vars
  PROVE  ExampleInv'
BY CrashStep, RememberedStep, LoneStep DEF ExampleInv

(* In every state of the example its invariant holds, however processes    *)
(* and servers come and go: TrustInv of the servers that were not started  *)
(* again; the whole invariant of the register as long as none was.         *)
THEOREM ExampleInvCorrect == ExampleSpec => []ExampleInv
<1>1. ExampleInit => ExampleInv
  BY ExampleInit_Inv
<1>2. ExampleInv /\ [ExampleNext]_example_vars => ExampleInv'
  BY ExampleInv_Step
<1>. QED  BY <1>1, <1>2, PTL DEF ExampleSpec

(* Only a server that was started again can keep a quorum from knowing     *)
(* what an operation returned.                                             *)
THEOREM AmnesiaOnly == ExampleSpec => []OnlyAmnesiaUncovers
<1>1. ExampleInv => OnlyAmnesiaUncovers
  <2>. SUFFICES ASSUME ExampleInv, NEW Q \in Quorums, Q \cap forgot = {}
                PROVE  \E s \in Q : TsLe(watermark, server[s].timestamp)
    BY DEF OnlyAmnesiaUncovers
  <2>1. Q \in QuorumsOf(Trusted)
    BY DEF QuorumsOf, Quorums, Trusted
  <2>. QED  BY <2>1 DEF ExampleInv, CrashInv, TrustInv, Covered
<1>. QED  BY <1>1, ExampleInvCorrect, PTL

(* A read that is about to return, or to write back, a value older than    *)
(* what had been returned when it began was misled by a server that was    *)
(* started again.                                                          *)
THEOREM StaleOnly == ExampleSpec => []StaleReadsHeardFromForgetful
<1>1. ExampleInv => StaleReadsHeardFromForgetful
  <2>. SUFFICES ASSUME ExampleInv, NEW c \in Clients,
                       TsLt(max_resp[c].timestamp, min_ts[c])
                PROVE  /\ phase[c] = "get" /\ IsQuorum(replies[c])
                            => replies[c] \cap forgot # {}
                       /\ phase[c] = "write_back" => forgot # {}
    BY DEF StaleReadsHeardFromForgetful
  <2>1. TypeOK /\ TrustInv(Trusted)
    BY DEF ExampleInv, CrashInv, TrustInv
  <2>2. ~ TsLe(min_ts[c], max_resp[c].timestamp)
    <3>1. min_ts[c] \in Timestamp /\ max_resp[c].timestamp \in Timestamp
      BY <2>1, FieldTypes
    <3>. QED  BY <3>1, TsTotal DEF TsLe
  <2>3. ASSUME phase[c] = "get", IsQuorum(replies[c]), replies[c] \cap forgot = {}
        PROVE  FALSE
    <3>1. PICK T \in SUBSET Servers : T = Trusted
      BY DEF Trusted
    <3>2. TrustInv(T) /\ replies[c] \subseteq T
      BY <2>1, <2>3, <3>1 DEF TypeOK, Trusted
    <3>. QED  BY <2>1, <2>2, <2>3, <3>1, <3>2, FreshQuorum
  <2>4. phase[c] = "write_back" => forgot # {}
    BY <2>2 DEF ExampleInv, RememberedInv, Inv, ReadsAreFresh
  <2>. QED  BY <2>3, <2>4
<1>. QED  BY <1>1, ExampleInvCorrect, PTL

(* Two values are found under one timestamp only after a write was         *)
(* abandoned or a server was started again: a client that is started again *)
(* with its counters at 0 repeats no timestamp of a write that returned.   *)
THEOREM ClashesOnly == ExampleSpec => []ClashesAreWithAbandonedWrites
<1>1. ExampleInv => ClashesAreWithAbandonedWrites
  BY DEF ExampleInv, RememberedInv, NamesOne, ClashesAreWithAbandonedWrites
<1>. QED  BY <1>1, ExampleInvCorrect, PTL

(* The assertion of the loop of run_client: a client beside which no       *)
(* client with writes to make has run reads what it read first or wrote    *)
(* last, unless a write was abandoned or a server was started again.       *)
THEOREM LoneCorrect == ExampleSpec => LoneClientReadsItsWrites
<1>1. ASSUME ExampleInv, [ExampleNext]_example_vars,
             NEW c \in Clients \ accompanied,
             EndRead(c), abandoned = {}, forgot = {}
      PROVE  expected_value[c] \subseteq expected_value'[c]
  <2>1. TypeOK /\ ProcessOK /\ RememberedInv
    BY <1>1 DEF ExampleInv, CrashInv, TrustInv
  <2>2. c \in running
    BY <1>1, <2>1 DEF ProcessOK, EndRead, ReadUnanimous, ReadReturn
  <2>3. WritesAlone(c) /\ UpToDate(c)
    BY <1>1, <2>2 DEF ExampleInv, LoneClients, Lone
  <2>. QED  BY <1>1, <2>1, <2>3, LoneRead
<1>2. ExampleInv /\ [ExampleNext]_example_vars =>
        [\A c \in Clients \ accompanied :
           EndRead(c) /\ abandoned = {} /\ forgot = {}
             => expected_value[c] \subseteq expected_value'[c]]_example_vars
  BY <1>1
<1>. QED  BY <1>2, ExampleInvCorrect, PTL DEF LoneClientReadsItsWrites, ExampleSpec
=============================================================================
