-------------------------- MODULE CommitmentsProofs --------------------------
(***************************************************************************)
(* The commitments keep their type invariant, for any number of clients,   *)
(* timestamps and counters; so a timestamp is allocated at most once until *)
(* it is taken back, and for good once it is committed to.                 *)
(***************************************************************************)
EXTENDS Commitments, TLAPS

(* What the bounds are bounds of. *)
BoundsAssumptions ==
  /\ Clients \subseteq Nat \ {0}
  /\ Timestamps \subseteq Timestamp
  /\ Counters \subseteq Nat

(* Type correctness; the initial value is allocated and committed to. *)
ComTypeOK ==
  /\ DOMAIN allocated \subseteq Timestamp
  /\ TsDefault \in committed
  /\ committed \subseteq DOMAIN allocated
  /\ client_map \in [DOMAIN client_map -> Nat]
  /\ DOMAIN client_map \subseteq Nat

ComInv == ComTypeOK /\ AllocationsAreCounted

LEMMA DefaultType ==
  /\ TsDefault \in Timestamp
  /\ TsDefault.client_id = 0
  /\ TsDefault.client_ctr = 0
BY DEF Timestamp, TsDefault

(* Right after the last login nothing but the initial value is allocated.  *)
LEMMA LoggedInInv ==
  ASSUME BoundsAssumptions, NEW L \in SUBSET Clients, LoggedIn(L)
  PROVE  ComInv
BY DefaultType DEF BoundsAssumptions, LoggedIn, ComInv, ComTypeOK,
   AllocationsAreCounted

(* A client's counter, once it moved on, bounds what was allocated before. *)
LEMMA CountedKeeps ==
  ASSUME ComInv, NEW c, NEW perm \in Nat, Counted(c, perm)
  PROVE  /\ DOMAIN client_map' = DOMAIN client_map
         /\ client_map' \in [DOMAIN client_map' -> Nat]
         /\ \A x \in DOMAIN client_map : client_map[x] <= client_map'[x]
         /\ client_map[c] < client_map'[c]
BY DEF ComInv, ComTypeOK, Counted

(* A timestamp that alloc_value allocates was not allocated: the insertion *)
(* in the map of commitments takes a key that is new.                      *)
THEOREM AllocationsAreFresh ==
  ASSUME ComInv, NEW c, NEW ts, NEW value, NEW perm,
         alloc_value(c, ts, value, perm)
  PROVE  ts \notin DOMAIN allocated
<1>1. ts.client_id = c /\ ts.client_ctr = client_map[c] /\ c \in DOMAIN client_map
  BY DEF alloc_value, Counted
<1>2. client_map[c] \in Nat
  BY <1>1 DEF ComInv, ComTypeOK
<1> QED
  BY <1>1, <1>2 DEF ComInv, AllocationsAreCounted

-----------------------------------------------------------------------------
LEMMA LoginInv ==
  ASSUME BoundsAssumptions, ComInv, NEW c \in Clients, login(c)
  PROVE  ComInv'
<1>1. client_map' \in [DOMAIN client_map' -> Nat] /\ DOMAIN client_map' \subseteq Nat
  BY DEF login, ComInv, ComTypeOK, BoundsAssumptions
<1>2. \A x \in DOMAIN client_map : x \in DOMAIN client_map' /\ client_map'[x] = client_map[x]
  BY DEF login
<1> QED
  BY <1>1, <1>2 DEF login, ComInv, ComTypeOK, AllocationsAreCounted

LEMMA ReturnInv ==
  ASSUME BoundsAssumptions, ComInv, NEW c \in Clients, NEW perm \in Counters,
         return_permission(c, perm)
  PROVE  ComInv'
<1>1. perm \in Nat /\ Counted(c, perm)
  BY DEF BoundsAssumptions, return_permission
<1>2. AllocationsAreCounted'
  <2> SUFFICES ASSUME NEW ts \in DOMAIN allocated'
               PROVE  /\ ts.client_id \in DOMAIN client_map'
                      /\ ts.client_ctr < client_map'[ts.client_id]
    BY DEF AllocationsAreCounted
  <2>1. ts \in DOMAIN allocated /\ ts \in Timestamp
    BY DEF return_permission, ComInv, ComTypeOK
  <2>2. ts.client_ctr \in Nat
    BY <2>1 DEF Timestamp
  <2> QED
    BY <1>1, <2>1, <2>2, CountedKeeps DEF ComInv, ComTypeOK, AllocationsAreCounted
<1> QED
  BY <1>1, <1>2, CountedKeeps DEF return_permission, ComInv, ComTypeOK

LEMMA AllocInv ==
  ASSUME BoundsAssumptions, ComInv, NEW c \in Clients, NEW perm \in Counters,
         NEW ts \in Timestamps, NEW value, alloc_value(c, ts, value, perm)
  PROVE  ComInv'
<1>1. perm \in Nat /\ Counted(c, perm)
  BY DEF BoundsAssumptions, alloc_value
<1>2. DOMAIN allocated' = DOMAIN allocated \cup {ts} /\ ts \in Timestamp
  BY DEF alloc_value, BoundsAssumptions
<1>3. AllocationsAreCounted'
  <2> SUFFICES ASSUME NEW t \in DOMAIN allocated'
               PROVE  /\ t.client_id \in DOMAIN client_map'
                      /\ t.client_ctr < client_map'[t.client_id]
    BY DEF AllocationsAreCounted
  <2>1. t.client_ctr \in Nat
    BY <1>2 DEF Timestamp, ComInv, ComTypeOK
  <2>2. CASE t = ts
    BY <1>1, <2>2, CountedKeeps DEF alloc_value, Counted
  <2>3. CASE t \in DOMAIN allocated
    BY <1>1, <2>1, <2>3, CountedKeeps DEF ComInv, ComTypeOK, AllocationsAreCounted
  <2> QED
    BY <1>2, <2>2, <2>3
<1> QED
  BY <1>1, <1>2, <1>3, CountedKeeps DEF alloc_value, ComInv, ComTypeOK

LEMMA NextInv ==
  ASSUME BoundsAssumptions, ComInv, [Next]_comvars
  PROVE  ComInv'
<1>1. ASSUME NEW c \in Clients, login(c) PROVE ComInv'
  BY <1>1, LoginInv
<1>2. ASSUME NEW c \in Clients, NEW perm \in Counters, return_permission(c, perm)
      PROVE  ComInv'
  BY <1>2, ReturnInv
<1>3. ASSUME NEW c \in Clients, NEW perm \in Counters, NEW ts \in Timestamps,
             NEW value \in Values, alloc_value(c, ts, value, perm)
      PROVE  ComInv'
  BY <1>3, AllocInv
<1>4. ASSUME NEW S \in SUBSET Timestamps, persist(S) PROVE ComInv'
  BY <1>4 DEF persist, ComInv, ComTypeOK, AllocationsAreCounted
<1>5. ASSUME NEW ts \in Timestamps, remove_allocation(ts) PROVE ComInv'
  BY <1>5 DEF remove_allocation, ComInv, ComTypeOK, AllocationsAreCounted
<1>6. CASE UNCHANGED comvars
  BY <1>6 DEF comvars, ComInv, ComTypeOK, AllocationsAreCounted
<1> QED
  BY <1>1, <1>2, <1>3, <1>4, <1>5, <1>6 DEF Next

(* Whatever the clients do, and whichever of them logs in when: what is    *)
(* allocated bears a counter that its client has moved beyond.             *)
THEOREM AllocationsCounted ==
  ASSUME BoundsAssumptions
  PROVE  Spec => []AllocationsAreCounted
<1>1. Init => ComInv
  BY LoggedInInv DEF Init
<1>2. ComInv /\ [Next]_comvars => ComInv'
  BY NextInv
<1>3. ComInv => AllocationsAreCounted
  BY DEF ComInv
<1> QED
  BY <1>1, <1>2, <1>3, PTL DEF Spec

(* A commitment is never taken back, nor given another value: by no login, *)
(* no write of any client and no failure of one.                           *)
THEOREM CommitmentsStay ==
  ASSUME BoundsAssumptions
  PROVE  Spec => [][CommittedForGood]_comvars
<1>1. Init => ComInv
  BY LoggedInInv DEF Init
<1>2. ComInv /\ [Next]_comvars => ComInv'
  BY NextInv
<1>3. ASSUME ComInv, Next PROVE CommittedForGood
  <2> USE <1>3 DEF CommittedForGood, ComInv, ComTypeOK
  <2>1. ASSUME NEW c \in Clients, login(c) PROVE CommittedForGood
    BY <2>1 DEF login
  <2>2. ASSUME NEW c \in Clients, NEW perm, return_permission(c, perm)
        PROVE  CommittedForGood
    BY <2>2 DEF return_permission
  <2>3. ASSUME NEW c \in Clients, NEW perm, NEW ts, NEW value,
               alloc_value(c, ts, value, perm)
        PROVE  CommittedForGood
    <3>1. ts \notin DOMAIN allocated
      BY <2>3, AllocationsAreFresh
    <3> QED
      BY <2>3, <3>1 DEF alloc_value
  <2>4. ASSUME NEW S, persist(S) PROVE CommittedForGood
    BY <2>4 DEF persist
  <2>5. ASSUME NEW ts, remove_allocation(ts) PROVE CommittedForGood
    BY <2>5 DEF remove_allocation
  <2> QED
    BY <2>1, <2>2, <2>3, <2>4, <2>5 DEF Next
<1> QED
  BY <1>1, <1>2, <1>3, PTL DEF Spec
=============================================================================
