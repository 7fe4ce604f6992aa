----------------------------- MODULE Commitments -----------------------------
(***************************************************************************)
(* The commitments: which value each timestamp stands for.  A client that  *)
(* logs in gets all timestamps that bear its id; it allocates one to a     *)
(* value with the permission for its counter in hand, so that the counter  *)
(* moves on at once, and may take the allocation back until it is          *)
(* committed to.  Client 0 is reserved for the initial value.              *)
(***************************************************************************)
EXTENDS Timestamps

CONSTANTS
  Clients,     \* the clients that may log in
  Values,      \* the values a register can hold
  None,        \* the initial value
  Timestamps,  \* bound: the timestamps that may be allocated
  Counters     \* bound: the values of a client's counter

VARIABLES
  allocated,  \* timestamp to value
  committed,  \* the timestamps whose allocation has become a commitment
  client_map  \* the clients that are logged in: client to counter

comvars == <<allocated, committed, client_map>>

(* The commitments when the clients of L, and nobody else, have logged in. *)
LoggedIn(L) ==
  /\ allocated  = [t \in {TsDefault} |-> None]
  /\ committed  = {TsDefault}
  /\ client_map = [c \in {0} \cup L |-> IF c = 0 THEN 1 ELSE 0]

Init == LoggedIn({})

login(c) ==
  /\ c \notin DOMAIN client_map
  /\ client_map' = [x \in DOMAIN client_map \cup {c} |->
                      IF x = c THEN 0 ELSE client_map[x]]
  /\ UNCHANGED <<allocated, committed>>

(* The permission is taken, the counter raised to perm, and returned; with *)
(* it, the timestamp that bears the counter's old value is allocated.      *)
Counted(c, perm) ==
  /\ c \in DOMAIN client_map
  /\ client_map[c] < perm
  /\ client_map' = [client_map EXCEPT ![c] = perm]

alloc_value(c, ts, value, perm) ==
  /\ Counted(c, perm)
  /\ ts.client_id = c
  /\ ts.client_ctr = client_map[c]
  /\ allocated' = [t \in DOMAIN allocated \cup {ts} |->
                     IF t = ts THEN value ELSE allocated[t]]
  /\ UNCHANGED committed

return_permission(c, perm) ==
  /\ Counted(c, perm)
  /\ UNCHANGED <<allocated, committed>>

(* Allocations S are persisted. *)
persist(S) ==
  /\ S \subseteq DOMAIN allocated
  /\ committed' = committed \cup S
  /\ UNCHANGED <<allocated, client_map>>

remove_allocation(ts) ==
  /\ ts \in DOMAIN allocated \ committed
  /\ allocated' = [t \in DOMAIN allocated \ {ts} |-> allocated[t]]
  /\ UNCHANGED <<committed, client_map>>

Next ==
  \/ \E c \in Clients :
       \/ login(c)
       \/ \E perm \in Counters :
            \/ return_permission(c, perm)
            \/ \E ts \in Timestamps, value \in Values :
                 alloc_value(c, ts, value, perm)
  \/ \E S \in SUBSET Timestamps : persist(S)
  \/ \E ts \in Timestamps : remove_allocation(ts)

Spec == Init /\ [][Next]_comvars

-----------------------------------------------------------------------------
(* The type invariant of Commitments (inv): a timestamp is allocated only  *)
(* to a client that is logged in, and its counter lies below the client's. *)
AllocationsAreCounted ==
  \A ts \in DOMAIN allocated :
    /\ ts.client_id \in DOMAIN client_map
    /\ ts.client_ctr < client_map[ts.client_id]

(* What is committed to stays: the value that a timestamp stands for is    *)
(* what every reply and every accumulator that bears it will ever find.    *)
CommittedForGood ==
  \A ts \in committed :
    /\ ts \in DOMAIN allocated'
    /\ allocated'[ts] = allocated[ts]
=============================================================================
