-------------------------- MODULE TimestampProofs ---------------------------
(* The order of timestamps is a strict total order, and what the           *)
(* comparison that runs is, for all timestamps.                            *)
EXTENDS TimestampCmp, TLAPS, WellFoundedInduction

(* The default timestamp is a timestamp. *)
LEMMA TsDefaultType == TsDefault \in Timestamp
BY DEF TsDefault, Timestamp

(* Two timestamps with the same fields are the same. *)
LEMMA TsExtensional ==
  ASSUME NEW a \in Timestamp, NEW b \in Timestamp,
         a.seqno = b.seqno, a.client_id = b.client_id,
         a.client_ctr = b.client_ctr
  PROVE  a = b
BY DEF Timestamp

(* Any two timestamps compare, one way only: Timestamp's derived Ord. *)
THEOREM TsTotal ==
  ASSUME NEW a \in Timestamp, NEW b \in Timestamp
  PROVE  /\ TsLt(a, b) \/ a = b \/ TsLt(b, a)
         /\ ~ (TsLt(a, b) /\ TsLt(b, a))
         /\ ~ TsLt(a, a)
         /\ ~ TsLt(a, b) => TsLe(b, a)
<1>1. TsLt(a, b) \/ a = b \/ TsLt(b, a)
  BY TsExtensional DEF Timestamp, TsLt
<1>2. ~ (TsLt(a, b) /\ TsLt(b, a)) /\ ~ TsLt(a, a)
  BY DEF Timestamp, TsLt
<1>. QED  BY <1>1, <1>2 DEF TsLe

(* The order is transitive, and every timestamp is at least the default. *)
LEMMA TsTransitive ==
  ASSUME NEW a \in Timestamp, NEW b \in Timestamp, NEW c \in Timestamp
  PROVE  /\ TsLt(a, b) /\ TsLt(b, c) => TsLt(a, c)
         /\ TsLe(a, b) /\ TsLt(b, c) => TsLt(a, c)
         /\ TsLt(a, b) /\ TsLe(b, c) => TsLt(a, c)
         /\ TsLe(a, b) /\ TsLe(b, c) => TsLe(a, c)
<1>1. TsLt(a, b) /\ TsLt(b, c) => TsLt(a, c)
  BY DEF Timestamp, TsLt
<1>. QED  BY <1>1 DEF TsLe

LEMMA TsDefaultLeast ==
  ASSUME NEW a \in Timestamp
  PROVE  TsLe(TsDefault, a)
<1>1. TsDefault \in Timestamp  BY TsDefaultType
<1>2. ~ TsLt(a, TsDefault)  BY DEF Timestamp, TsDefault, TsLt
<1>. QED  BY <1>1, <1>2, TsTotal

(* A greater sequence number is a greater timestamp. *)
LEMMA TsBeyond ==
  ASSUME NEW a \in Timestamp, NEW i \in Nat, NEW j \in Nat
  PROVE  LET b == [seqno |-> a.seqno + 1, client_id |-> i, client_ctr |-> j]
         IN  b \in Timestamp /\ TsLt(a, b)
BY DEF Timestamp, TsLt

(* The maximum of two timestamps is one of them and bounds both. *)
LEMMA TsMaxBounds ==
  ASSUME NEW a \in Timestamp, NEW b \in Timestamp
  PROVE  /\ TsMax(a, b) \in {a, b}
         /\ TsLe(a, TsMax(a, b))
         /\ TsLe(b, TsMax(a, b))
BY TsTotal DEF TsMax, TsLe

(* A set of numbers that is not empty has a least one. *)
LEMMA NatLeast ==
  ASSUME NEW T \in SUBSET Nat, T # {}
  PROVE  \E n \in T : \A k \in T : n <= k
<1>. DEFINE R == {ss \in Nat \X Nat : ss[1] < ss[2]}
<1>1. IsWellFoundedOn(R, Nat)
  BY NatLessThanWellFounded, Zenon DEF OpToRel
<1>2. PICK n \in T : \A k \in T : ~ (<<k, n>> \in R)
  <2>. HIDE DEF R
  <2>. QED  BY <1>1, WFMin
<1>3. ASSUME NEW k \in T, k < n PROVE <<k, n>> \in R
  <2>1. <<k, n>> \in Nat \X Nat /\ <<k, n>>[1] < <<k, n>>[2]
    BY <1>3
  <2>. QED  BY <2>1
<1>. HIDE DEF R
<1>4. \A k \in T : ~ (k < n)
  BY <1>2, <1>3
<1>. QED  BY <1>4

(* So has a set of timestamps, finite or not. *)
LEMMA TsLeast ==
  ASSUME NEW W \in SUBSET Timestamp, W # {}
  PROVE  \E ts \in W : \A u \in W : TsLe(ts, u)
<1>. DEFINE N == {u.seqno : u \in W}
<1>1. PICK n \in N : \A k \in N : n <= k
  <2>1. N \in SUBSET Nat /\ N # {}  BY DEF Timestamp
  <2>. HIDE DEF N
  <2>. QED  BY <2>1, NatLeast
<1>. DEFINE I == {u.client_id : u \in {u \in W : u.seqno = n}}
<1>2. PICK i \in I : \A k \in I : i <= k
  <2>1. I \in SUBSET Nat /\ I # {}  BY <1>1 DEF Timestamp
  <2>. HIDE DEF I
  <2>. QED  BY <2>1, NatLeast
<1>. DEFINE C == {u.client_ctr : u \in {u \in W : u.seqno = n /\ u.client_id = i}}
<1>3. PICK j \in C : \A k \in C : j <= k
  <2>1. C \in SUBSET Nat /\ C # {}  BY <1>2 DEF Timestamp
  <2>. HIDE DEF C
  <2>. QED  BY <2>1, NatLeast
<1>4. PICK ts \in W : ts.seqno = n /\ ts.client_id = i /\ ts.client_ctr = j
  BY <1>3
<1>5. ASSUME NEW u \in W PROVE ~ TsLt(u, ts)
  <2>1. /\ n <= u.seqno
        /\ u.seqno = n => i <= u.client_id
        /\ u.seqno = n /\ u.client_id = i => j <= u.client_ctr
    BY <1>1, <1>2, <1>3
  <2>. QED  BY <1>4, <2>1 DEF Timestamp, TsLt
<1>. QED  BY <1>5, TsTotal DEF TsLe

-----------------------------------------------------------------------------
(* obeys_partial_cmp_spec() is true: the comparison that runs is the one   *)
(* partial_cmp_spec describes, and the operators by which the model        *)
(* compares timestamps (spec_lt, spec_le) agree with it.                   *)
THEOREM ObeysPartialCmpSpec ==
  ASSUME NEW x \in Timestamp, NEW y \in Timestamp
  PROVE  /\ Cmp(x, y) = PartialCmpSpec(x, y)
         /\ TsLt(x, y) <=> Cmp(x, y) = "Less"
         /\ TsLe(x, y) <=> Cmp(x, y) # "Greater"
<1>. DEFINE Differs(i) == /\ x[Fields[i]] # y[Fields[i]]
                          /\ \A j \in 1..i-1 : x[Fields[j]] = y[Fields[j]]
<1>1. /\ DOMAIN Fields = 1..3
      /\ Fields[1] = "seqno" /\ Fields[2] = "client_id" /\ Fields[3] = "client_ctr"
  BY DEF Fields
<1>2. \A i, k \in 1..3 : Differs(i) /\ Differs(k) => i = k
  OBVIOUS
<1>3. ASSUME NEW i \in 1..3, Differs(i)
      PROVE  Cmp(x, y) = IF x[Fields[i]] < y[Fields[i]] THEN "Less" ELSE "Greater"
  <2>1. x # y  BY <1>3
  <2>2. i = CHOOSE k \in DOMAIN Fields : Differs(k)  BY <1>1, <1>2, <1>3
  <2>. QED  BY <2>1, <2>2 DEF Cmp
<1>4. CASE x = y
  BY <1>4, TsTotal DEF Cmp, PartialCmpSpec, TsLe
<1>5. CASE x.seqno # y.seqno
  <2>1. Differs(1)  BY <1>1, <1>5
  <2>2. Cmp(x, y) = IF x.seqno < y.seqno THEN "Less" ELSE "Greater"
    BY <1>1, <1>3, <2>1
  <2>. QED  BY <1>5, <2>2 DEF PartialCmpSpec, TsLt, TsLe, Timestamp
<1>6. CASE x.seqno = y.seqno /\ x.client_id # y.client_id
  <2>1. Differs(2)  BY <1>1, <1>6
  <2>2. Cmp(x, y) = IF x.client_id < y.client_id THEN "Less" ELSE "Greater"
    BY <1>1, <1>3, <2>1
  <2>. QED  BY <1>6, <2>2 DEF PartialCmpSpec, TsLt, TsLe, Timestamp
<1>7. CASE /\ x.seqno = y.seqno /\ x.client_id = y.client_id
           /\ x.client_ctr # y.client_ctr
  <2>1. Differs(3)  BY <1>1, <1>7
  <2>2. Cmp(x, y) = IF x.client_ctr < y.client_ctr THEN "Less" ELSE "Greater"
    BY <1>1, <1>3, <2>1
  <2>. QED  BY <1>7, <2>2 DEF PartialCmpSpec, TsLt, TsLe, Timestamp
<1>. QED  BY <1>4, <1>5, <1>6, <1>7, TsExtensional

(* obeys_cmp_spec() is true as well, but the comparison that runs is       *)
(* cmp_spec's only for timestamps of different writers or sequence         *)
(* numbers: cmp_spec takes two writes of one client with one sequence      *)
(* number for equal.                                                       *)
THEOREM CmpSpecIgnoresCounter ==
  ASSUME NEW x \in Timestamp, NEW y \in Timestamp
  PROVE  Cmp(x, y) = CmpSpec(x, y)
           <=> (x.seqno = y.seqno /\ x.client_id = y.client_id => x = y)
<1>1. Cmp(x, y) = PartialCmpSpec(x, y)  BY ObeysPartialCmpSpec
<1>2. PartialCmpSpec(x, y) = "Equal" <=> x = y
  BY TsExtensional DEF PartialCmpSpec
<1>. QED  BY <1>1, <1>2, TsExtensional DEF PartialCmpSpec, CmpSpec
=============================================================================
