---------------------------- MODULE AbdLinProofs ----------------------------
(***************************************************************************)
(* The register is linearizable, and its clients use the linearization     *)
(* queue and the commitments as these ask to be used: for any number of    *)
(* servers, clients, values, operations and prophecies.                    *)
(*                                                                         *)
(* The argument: what LinQueueProofs proves of the queue, whoever calls    *)
(* it, is carried over to the queue that the register uses; LinInv ties    *)
(* the queue to the replicas, the messages and the clients; and under      *)
(* LinInv every step of the register is a step of LinQueue, of Commitments *)
(* and of LinRegister.                                                     *)
(***************************************************************************)
EXTENDS AbdLin, AbdProofs

LQP == INSTANCE LinQueueProofs WITH Timestamps <- ProphesiedTimestamps,
                                    watermark  <- applied_to

(***************************************************************************)
(* What is proved of the queue on its own, in terms of the queue that the  *)
(* register uses.                                                          *)
(***************************************************************************)
LEMMA ProphesiedType ==
  /\ ProphesiedTimestamps \subseteq Timestamp
  /\ \A t \in ProphesiedTimestamps : t.client_id \in Clients
  /\ TsDefault \notin ProphesiedTimestamps
<1>1. UNION {0..MaxWrites[c] - 1 : c \in Clients} \subseteq Nat
  BY BoundsAssumption
<1>2. ProphesiedTimestamps \subseteq Timestamp
  BY <1>1, ClientsAssumption, PropheciesAssumption DEF ProphesiedTimestamps, Timestamp
<1>3. \A t \in ProphesiedTimestamps : t.client_id \in Clients
  BY DEF ProphesiedTimestamps
<1>4. TsDefault.client_id \notin Clients
  BY ClientsAssumption DEF TsDefault
<1>. QED  BY <1>2, <1>3, <1>4

LEMMA QueueAssumptions ==
  /\ None \in Values
  /\ ProphesiedTimestamps \subseteq LQP!Timestamp
  /\ LQP!IsFiniteSet(ProphesiedTimestamps)
  /\ MaxReads \in Nat
<1>1. ProphesiedTimestamps \subseteq LQP!Timestamp
  BY ProphesiedType DEF Timestamp, LQP!Timestamp
<1>2. LQP!IsFiniteSet(ProphesiedTimestamps)
  BY PropheciesAssumption DEF IsFiniteSet, LQP!IsFiniteSet
<1>. QED  BY <1>1, <1>2, ValuesAssumption, PropheciesAssumption

LEMMA SameOrder ==
  /\ \A a, b : LQ!TsLe(a, b) <=> TsLe(a, b)
  /\ \A a, b : LQ!TsLt(a, b) <=> TsLt(a, b)
  /\ \A a, b : LQP!TsLe(a, b) <=> TsLe(a, b)
  /\ \A a, b : LQP!TsLt(a, b) <=> TsLt(a, b)
  /\ LQ!TsDefault = TsDefault /\ LQP!TsDefault = TsDefault
BY DEF TsLe, TsLt, LQ!TsLe, LQP!TsLe, LQ!TsLt, LQP!TsLt, TsDefault, LQ!TsDefault,
       LQP!TsDefault

LEMMA SameInv == LQ!QueueInv <=> LQP!QueueInv
BY SameOrder
   DEF LQ!QueueInv, LQP!QueueInv, LQ!TypeOK, LQP!TypeOK, LQ!WriteTokenVal,
       LQP!WriteTokenVal, LQ!ReadKey, LQP!ReadKey, LQ!BasicInv, LQP!BasicInv,
       LQ!current_value, LQP!current_value, LQ!WriteDomInv, LQP!WriteDomInv,
       LQ!ReadDomInv, LQP!ReadDomInv, LQ!HasTakenEffect, LQP!HasTakenEffect

LEMMA QueueStepInv ==
  ASSUME LQ!QueueInv, [LQ!Next]_(LQ!vars)
  PROVE  LQ!QueueInv'
<1>1. [LQP!Next]_(LQP!vars)
  BY DEF LQ!TsLe, LQP!TsLe, LQ!TsLt, LQP!TsLt, LQ!Next, LQP!Next, LQ!vars,
         LQP!vars, LQ!writes, LQP!writes, LQ!reads,
         LQP!reads, LQ!InsertWriteLinearizer, LQP!InsertWriteLinearizer,
         LQ!InsertReadLinearizer, LQP!InsertReadLinearizer, LQ!NextKey,
         LQP!NextKey, LQ!Put, LQP!Put, LQ!Without, LQP!Without, LQ!CommitValue,
         LQP!CommitValue, LQ!RemoveWriteLin, LQP!RemoveWriteLin,
         LQ!RemoveReadLin, LQP!RemoveReadLin, LQ!HasTakenEffect,
         LQP!HasTakenEffect, LQ!WriteReturns, LQP!WriteReturns, LQ!ReadReturns,
         LQP!ReadReturns, LQ!PendingUpTo, LQP!PendingUpTo, LQ!ApplyAndExtract,
         LQP!ApplyAndExtract, LQ!ReadsOf, LQP!ReadsOf, LQ!Writing, LQP!Writing,
         LQ!ReadFrom, LQP!ReadFrom, LQ!Greatest, LQP!Greatest,
         LQ!known_timestamps, LQP!known_timestamps, LQ!current_value,
         LQP!current_value
<1>2. LQP!QueueInv'
  BY <1>1, SameInv, LQP!NextInv, QueueAssumptions
<1>3. LQP!QueueInv' <=> LQ!QueueInv'
  BY SameInv, PTL
<1>. QED  BY <1>2, <1>3

LEMMA QueueInitInv == LQ!Init => LQ!QueueInv
<1>1. LQ!Init <=> LQP!Init
  BY DEF LQ!Init, LQP!Init, LQ!TsDefault, LQP!TsDefault
<1>. QED  BY <1>1, SameInv, LQP!InitInv, QueueAssumptions

(* The queue in plain terms. *)
LEMMA QueueFacts ==
  ASSUME LQ!QueueInv
  PROVE  /\ pending_writes \subseteq ProphesiedTimestamps
         /\ completed_writes \subseteq ProphesiedTimestamps
         /\ DOMAIN committed_to \subseteq ProphesiedTimestamps \cup {TsDefault}
         /\ DOMAIN write_token_map = pending_writes \cup completed_writes
         /\ write_token_map \in
              [DOMAIN write_token_map -> [value : Values, committed : BOOLEAN]]
         /\ completed_writes \subseteq DOMAIN committed_to
         /\ \A t \in pending_writes : TsLt(applied_to, t)
         /\ \A t \in DOMAIN committed_to : TsLe(t, applied_to)
         /\ \A t \in completed_writes : committed_to[t] = write_token_map[t].value
         /\ applied_to \in DOMAIN committed_to /\ applied_to \in Timestamp
         /\ register \in Values
         /\ pending_writes \cap DOMAIN committed_to = {}
<1>. USE SameOrder DEF LQ!QueueInv
<1>1. /\ pending_writes \subseteq ProphesiedTimestamps
      /\ completed_writes \subseteq ProphesiedTimestamps
      /\ DOMAIN committed_to \subseteq ProphesiedTimestamps \cup {TsDefault}
      /\ applied_to \in ProphesiedTimestamps \cup {TsDefault}
      /\ register \in Values
      /\ write_token_map \in
           [DOMAIN write_token_map -> [value : Values, committed : BOOLEAN]]
  BY DEF LQ!TypeOK, LQ!WriteTokenVal
<1>2. /\ applied_to \in DOMAIN committed_to
      /\ \A t \in DOMAIN committed_to : TsLe(t, applied_to)
  BY DEF LQ!BasicInv
<1>3. /\ DOMAIN write_token_map = pending_writes \cup completed_writes
      /\ \A t \in pending_writes : TsLt(applied_to, t)
      /\ completed_writes \subseteq DOMAIN committed_to
      /\ \A t \in completed_writes : committed_to[t] = write_token_map[t].value
  BY DEF LQ!WriteDomInv
<1>4. applied_to \in Timestamp /\ pending_writes \subseteq Timestamp
  BY <1>1, ProphesiedType, TsDefaultType
<1>5. pending_writes \cap DOMAIN committed_to = {}
  <2>. SUFFICES ASSUME NEW t \in pending_writes, t \in DOMAIN committed_to
                PROVE  FALSE
    OBVIOUS
  <2>. QED  BY <1>2, <1>3, <1>4, TsTotal DEF TsLe
<1>. QED  BY <1>1, <1>2, <1>3, <1>4, <1>5

LEMMA ReadFacts ==
  ASSUME LQ!QueueInv
  PROVE  /\ DOMAIN read_token_map = pending_reads \cup DOMAIN completed_reads
         /\ pending_reads \cap DOMAIN completed_reads = {}
         /\ DOMAIN read_token_map \subseteq [value : Values, op : Nat]
         /\ next_read_op \in Nat
         /\ \A k \in DOMAIN read_token_map : k.op < next_read_op
         /\ \A k \in DOMAIN read_token_map : TsLe(read_token_map[k], applied_to)
         /\ \A k \in pending_reads : ~ LQ!HasTakenEffect(k)
BY SameOrder DEF LQ!QueueInv, LQ!TypeOK, LQ!ReadDomInv, LQ!ReadKey

(* The writes up to a timestamp that the queue knows of: it is the last.   *)
LEMMA Applies ==
  ASSUME LQ!QueueInv, NEW max \in LQ!known_timestamps
  PROVE  LET W == LQ!PendingUpTo(max)
         IN  /\ W \subseteq pending_writes
             /\ \A t \in W : TsLt(applied_to, t) /\ TsLe(t, max)
             /\ \A t \in pending_writes \ W : TsLt(max, t)
             /\ W # {} => max \in W /\ LQ!Greatest(W) = max
<1>1. LQP!QueueInv /\ max \in LQP!known_timestamps
  BY SameInv DEF LQ!known_timestamps, LQP!known_timestamps
<1>2. LET W == LQP!PendingUpTo(max)
      IN  /\ W \subseteq pending_writes
          /\ \A t \in W : LQP!TsLt(applied_to, t) /\ LQP!TsLe(t, max)
          /\ \A t \in pending_writes \ W : LQP!TsLt(max, t)
          /\ W # {} => max \in W /\ LQP!Greatest(W) = max
  BY <1>1, LQP!ApplyUpTo, QueueAssumptions
<1>3. LQP!PendingUpTo(max) = LQ!PendingUpTo(max)
  BY SameOrder DEF LQ!PendingUpTo, LQP!PendingUpTo
<1>4. \A W : LQP!Greatest(W) = LQ!Greatest(W)
  BY DEF LQ!Greatest, LQP!Greatest, LQ!TsLe, LQP!TsLe, LQ!TsLt, LQP!TsLt
<1>. QED  BY <1>2, <1>3, <1>4, SameOrder

(* The value that the queue has, or will have, at timestamp t. *)
QueueValue(t) == IF t \in DOMAIN committed_to THEN committed_to[t]
                                              ELSE write_token_map[t].value

LEMMA Extracted ==
  ASSUME LQ!QueueInv, NEW k \in DOMAIN read_token_map,
         NEW max \in LQ!known_timestamps, TsLe(read_token_map[k], max),
         k.value = QueueValue(max)
  PROVE  k \in LQ!ReadsOf(LQ!PendingUpTo(max)) \cup DOMAIN completed_reads
<1>1. /\ LQP!QueueInv /\ max \in LQP!known_timestamps
      /\ LQP!TsLe(read_token_map[k], max) /\ k.value = LQP!ValueAt(max)
  BY SameInv, SameOrder
     DEF LQ!known_timestamps, LQP!known_timestamps, QueueValue, LQP!ValueAt
<1>2. k \in LQP!ReadsOf(LQP!PendingUpTo(max)) \cup DOMAIN completed_reads
  BY <1>1, LQP!ReadIsExtracted, QueueAssumptions
<1>3. LQP!PendingUpTo(max) = LQ!PendingUpTo(max)
  BY SameOrder DEF LQ!PendingUpTo, LQP!PendingUpTo
<1>4. \A W : LQP!ReadsOf(W) = LQ!ReadsOf(W)
  BY DEF LQ!ReadsOf, LQP!ReadsOf, LQ!Writing, LQP!Writing
<1>. QED  BY <1>2, <1>3, <1>4

LEMMA CompletedHasTakenEffect ==
  ASSUME LQ!QueueInv, NEW k \in DOMAIN completed_reads
  PROVE  LQ!HasTakenEffect(k)
BY DEF LQ!QueueInv, LQ!BasicInv, LQ!ReadDomInv, LQ!HasTakenEffect

(* What becomes of the queue when an operation returns with max. *)
Applied(max, ws, rs) ==
  LET P == LQ!PendingUpTo(max)
      R == LQ!ReadsOf(P)
  IN  /\ DOMAIN committed_to' = DOMAIN committed_to \cup P
      /\ \A t \in P : committed_to'[t] = write_token_map[t].value
      /\ \A t \in DOMAIN committed_to : committed_to'[t] = committed_to[t]
      /\ pending_writes' = pending_writes \ P
      /\ completed_writes' = (completed_writes \cup P) \ ws
      /\ DOMAIN write_token_map' = DOMAIN write_token_map \ ws
      /\ \A t \in DOMAIN write_token_map \ ws :
           write_token_map'[t] = write_token_map[t]
      /\ DOMAIN completed_reads' = (DOMAIN completed_reads \cup R) \ rs
      /\ DOMAIN read_token_map' = DOMAIN read_token_map \ rs
      /\ \A k \in DOMAIN read_token_map \ rs :
           read_token_map'[k] = read_token_map[k]
      /\ \/ P = {} /\ applied_to' = applied_to /\ register' = register
         \/ /\ max \in P /\ applied_to' = max
            /\ register' = write_token_map[max].value

LEMMA ApplyEffect ==
  ASSUME LQ!QueueInv, NEW max \in LQ!known_timestamps, NEW ws, NEW rs,
         LQ!ApplyAndExtract(LQ!PendingUpTo(max), ws, rs)
  PROVE  Applied(max, ws, rs)
<1>. DEFINE P == LQ!PendingUpTo(max)
<1>1. /\ P \subseteq pending_writes
      /\ P # {} => max \in P /\ LQ!Greatest(P) = max
  BY Applies
<1>2. P \cap DOMAIN committed_to = {}
  BY <1>1, QueueFacts
<1>. HIDE DEF P
<1>3. LQ!ApplyAndExtract(P, ws, rs)
  BY DEF P
<1>4. /\ DOMAIN committed_to' = DOMAIN committed_to \cup P
      /\ \A t \in P : committed_to'[t] = write_token_map[t].value
      /\ \A t \in DOMAIN committed_to : committed_to'[t] = committed_to[t]
      /\ pending_writes' = pending_writes \ P
      /\ completed_writes' = (completed_writes \cup P) \ ws
  BY <1>2, <1>3 DEF LQ!ApplyAndExtract
<1>5. /\ DOMAIN write_token_map' = DOMAIN write_token_map \ ws
      /\ \A t \in DOMAIN write_token_map \ ws :
           write_token_map'[t] = write_token_map[t]
      /\ DOMAIN completed_reads' = (DOMAIN completed_reads \cup LQ!ReadsOf(P)) \ rs
      /\ DOMAIN read_token_map' = DOMAIN read_token_map \ rs
      /\ \A k \in DOMAIN read_token_map \ rs : read_token_map'[k] = read_token_map[k]
  BY <1>3 DEF LQ!ApplyAndExtract, LQ!Without
<1>6. \/ P = {} /\ applied_to' = applied_to /\ register' = register
      \/ /\ max \in P /\ applied_to' = max
         /\ register' = write_token_map[max].value
  BY <1>1, <1>3 DEF LQ!ApplyAndExtract
<1>. QED  BY <1>4, <1>5, <1>6 DEF P, Applied

-----------------------------------------------------------------------------
(***************************************************************************)
(* The inductive invariant.                                                *)
(***************************************************************************)
(* A timestamp found in the system is allocated, with its value, and the   *)
(* linearizer that holds it is committed to it.                            *)
PairsAllocated ==
  \A p \in Pairs :
    /\ p.timestamp \in DOMAIN allocated /\ p.value = allocated[p.timestamp]
    /\ p.timestamp \in DOMAIN write_token_map
         => write_token_map[p.timestamp].committed

(* The commitments are what the queue has applied and will apply, and bear *)
(* numbers that their clients have used up.                                *)
Allocations ==
  /\ DOMAIN allocated = DOMAIN committed_to \cup pending_writes
  /\ \A t \in pending_writes : allocated[t] = write_token_map[t].value
  /\ \A t \in DOMAIN committed_to : allocated[t] = committed_to[t]

NumbersUsed ==
  \A t \in DOMAIN allocated :
    t.client_id \in Clients => t.client_ctr < client_ctr[t.client_id]

(* What a client holds of the queue while its operation runs. *)
ReaderHolds(c) ==
  Reading(c) => /\ token[c] \in DOMAIN read_token_map
                /\ read_token_map[token[c]] = min_ts[c]

WriterHolds(c) ==
  Writes(c) =>
    /\ token[c] \in ProphesiedTimestamps
    /\ token[c].client_id = c /\ token[c].client_ctr = client_ctr[c] - 1
    /\ phase[c] = "write" => token[c] = request[c].timestamp
    /\ token[c] \in DOMAIN write_token_map =>
         /\ write_token_map[token[c]].value = new_value[c]
         /\ write_token_map[token[c]].committed <=> phase[c] = "write"
    /\ token[c] \notin DOMAIN write_token_map =>
         phase[c] = "get_timestamp" /\ TsLe(token[c], min_ts[c])

Holds(c) ==
  ReaderHolds(c) /\ WriterHolds(c) /\ (phase[c] = "idle" => token[c] = TsDefault)

TokensHeld ==
  /\ DOMAIN token = Clients /\ token = [c \in Clients |-> token[c]]
  /\ \A c \in Clients : Holds(c)
  /\ \A c, d \in Clients : Reading(c) /\ Reading(d) /\ token[c] = token[d] => c = d

LinInv ==
  /\ Inv /\ NamesInv /\ LQ!QueueInv
  /\ applied_to = watermark
  /\ Allocations /\ NumbersUsed /\ PairsAllocated /\ TokensHeld

(* What the writers' tokens are is clear from their clients' ids. *)
LEMMA TokenKinds ==
  ASSUME LinInv
  PROVE  /\ \A c \in Clients : Writes(c) => token[c] \in ProphesiedTimestamps
         /\ \A c, d \in Clients : Writes(c) /\ Writes(d) /\ token[c] = token[d] => c = d
         /\ \A c \in Clients : ~ Writes(c) => token[c] \notin ProphesiedTimestamps
<1>. USE DEF LinInv, TokensHeld, Holds
<1>1. ASSUME NEW c \in Clients, ~ Writes(c), token[c] \in ProphesiedTimestamps
      PROVE  FALSE
  <2>1. CASE Reading(c)
    <3>1. token[c] \in [value : Values, op : Nat]
      BY <2>1, ReadFacts DEF ReaderHolds
    <3>2. DOMAIN token[c] = {"value", "op"}
      BY <3>1
    <3>3. token[c] \in Timestamp
      BY <1>1, ProphesiedType
    <3>4. DOMAIN token[c] = {"seqno", "client_id", "client_ctr"}
      BY <3>3 DEF Timestamp
    <3>. QED  BY <3>2, <3>4
  <2>2. CASE phase[c] = "idle"
    BY <1>1, <2>2, ProphesiedType
  <2>. QED  BY <1>1, <2>1, <2>2 DEF Inv, TypeOK, Phases, Reading, Writes
<1>. QED  BY <1>1 DEF WriterHolds

(* A write that has yet to choose its timestamp: nobody has seen it.       *)
LEMMA UnseenToken ==
  ASSUME LinInv, NEW c \in Clients, phase[c] = "get_timestamp"
  PROVE  \A p \in Pairs : p.timestamp # token[c]
BY DEF LinInv, TokensHeld, Holds, WriterHolds, Writes, NamesInv, NumbersTaken, NumberTaken

(* Whatever happens to the queue's bookkeeping, it stays an invariant.     *)
LEMMA AbdStepInv ==
  ASSUME LinInv, [Next]_vars, [LQ!Next]_(LQ!vars)
  PROVE  Inv' /\ NamesInv' /\ LQ!QueueInv'
BY InvStep, NamesStep, QueueStepInv DEF LinInv

-----------------------------------------------------------------------------
(***************************************************************************)
(* Steps that the queue does not see.                                      *)
(***************************************************************************)
Quiet ==
  \/ \E s \in Servers, r \in requests : Handle(s, r)
  \/ \E c \in Clients, m \in responses : Deliver(c, m)
  \/ \E c \in Clients, s \in Servers : LinkFailure(c, s)
  \/ \E c \in Clients : ReadWriteBack(c)
  \/ UNCHANGED vars

SameRole(c) ==
  /\ phase'[c] = "idle" <=> phase[c] = "idle"
  /\ phase'[c] \in {"get", "write_back"} <=> phase[c] \in {"get", "write_back"}
  /\ phase'[c] = "get_timestamp" <=> phase[c] = "get_timestamp"
  /\ phase'[c] = "write" <=> phase[c] = "write"
  /\ phase[c] = "write" => request'[c].timestamp = request[c].timestamp

LEMMA QuietFrame ==
  ASSUME LinInv, Quiet
  PROVE  /\ [Next]_vars
         /\ Pairs' \subseteq Pairs
         /\ UNCHANGED <<client_ctr, new_value, min_ts, watermark>>
         /\ \A d \in Clients : SameRole(d)
<1>. USE DEF LinInv, Inv
<1>1. ASSUME NEW s \in Servers, NEW r \in requests, Handle(s, r)
      PROVE  UNCHANGED <<client, min_ts, watermark>> /\ Pairs' \subseteq Pairs
  BY <1>1, HandleFrame, PairsHandle DEF ghosts
<1>2. ASSUME NEW c \in Clients, NEW m \in responses, Deliver(c, m)
      PROVE  UNCHANGED <<client, min_ts, watermark>> /\ Pairs' \subseteq Pairs
  BY <1>2, DeliverFrame, PairsDeliver DEF ghosts
<1>3. ASSUME NEW c \in Clients, NEW s \in Servers, LinkFailure(c, s)
      PROVE  UNCHANGED <<client, min_ts, watermark>> /\ Pairs' \subseteq Pairs
  BY <1>3 DEF LinkFailure, LinkBreaks, LinkRecovers, InsertError, client, accum,
              ghosts, Pairs, HasHeard
<1>4. ASSUME NEW c \in Clients, ReadWriteBack(c)
      PROVE  /\ Pairs' \subseteq Pairs
             /\ UNCHANGED <<client_ctr, new_value, min_ts, watermark>>
             /\ \A d \in Clients : SameRole(d)
  <2>1. /\ phase[c] = "get" /\ phase'[c] = "write_back" /\ Others(c)
        /\ UNCHANGED <<client_ctr, min_ts, watermark>>
    BY <1>4, ReadWriteBackFrame DEF ghosts
  <2>2. UNCHANGED new_value
    BY <1>4 DEF ReadWriteBack
  <2>. QED  BY <1>4, <2>1, <2>2, PairsWriteBack DEF SameRole, Others
<1>5. CASE UNCHANGED vars
  BY <1>5 DEF vars, client, accum, ghosts, Pairs, HasHeard, SameRole
<1>6. UNCHANGED client => /\ UNCHANGED <<client_ctr, new_value>>
                          /\ \A d \in Clients : SameRole(d)
  BY DEF client, SameRole
<1>7. [Next]_vars
  BY DEF Quiet, Next, Advance
<1>. QED  BY <1>1, <1>2, <1>3, <1>4, <1>5, <1>6, <1>7 DEF Quiet

LEMMA QuietInv ==
  ASSUME LinInv, Quiet, UNCHANGED ghost
  PROVE  LinInv'
<1>1. /\ [Next]_vars /\ Pairs' \subseteq Pairs
      /\ UNCHANGED <<client_ctr, new_value, min_ts, watermark>>
      /\ \A d \in Clients : SameRole(d)
  BY QuietFrame
<1>2. UNCHANGED <<committed_to, pending_writes, completed_writes, write_token_map,
                  pending_reads, completed_reads, read_token_map, next_read_op,
                  register, applied_to, allocated, token, outcome>>
  BY DEF ghost, queue
<1>3. Inv' /\ NamesInv' /\ LQ!QueueInv'
  <2>1. UNCHANGED LQ!vars
    BY <1>2 DEF LQ!vars, LQ!writes, LQ!reads
  <2>. QED  BY <1>1, <2>1, AbdStepInv
<1>4. Allocations' /\ NumbersUsed' /\ PairsAllocated'
  BY <1>1, <1>2 DEF LinInv, Allocations, NumbersUsed, PairsAllocated
<1>5. TokensHeld'
  BY <1>1, <1>2 DEF LinInv, TokensHeld, Holds, ReaderHolds, WriterHolds, Reading,
                    Writes, SameRole
<1>. QED  BY <1>1, <1>2, <1>3, <1>4, <1>5 DEF LinInv

-----------------------------------------------------------------------------
(***************************************************************************)
(* A client that starts or ends an operation disturbs no other client.     *)
(***************************************************************************)
LEMMA OtherHolds ==
  ASSUME LinInv, NEW c \in Clients, Others(c), NEW d \in Clients \ {c},
         new_value'[d] = new_value[d], token'[d] = token[d],
         Reading(d) /\ token[d] \in DOMAIN read_token_map =>
           /\ token[d] \in DOMAIN read_token_map'
           /\ read_token_map'[token[d]] = read_token_map[token[d]],
         Writes(d) =>
           /\ token[d] \in DOMAIN write_token_map'
                <=> token[d] \in DOMAIN write_token_map
           /\ token[d] \in DOMAIN write_token_map
                => write_token_map'[token[d]] = write_token_map[token[d]]
  PROVE  Holds(d)' /\ (Reading(d)' <=> Reading(d)) /\ (Writes(d)' <=> Writes(d))
<1>. USE DEF LinInv, TokensHeld
<1>1. /\ phase'[d] = phase[d] /\ request'[d] = request[d]
      /\ client_ctr'[d] = client_ctr[d] /\ min_ts'[d] = min_ts[d]
  BY DEF Others
<1>2. Holds(d)
  OBVIOUS
<1>3. (Reading(d)' <=> Reading(d)) /\ (Writes(d)' <=> Writes(d))
  BY <1>1 DEF Reading, Writes
<1>4. ReaderHolds(d)'
  BY <1>1, <1>2, <1>3 DEF Holds, ReaderHolds
<1>5. WriterHolds(d)'
  BY <1>1, <1>2, <1>3 DEF Holds, WriterHolds
<1>. QED  BY <1>1, <1>2, <1>3, <1>4, <1>5 DEF Holds

LEMMA TokensStep ==
  ASSUME LinInv, NEW c \in Clients, NEW t, Take(c, t), Holds(c)',
         \A d \in Clients \ {c} : Holds(d)' /\ (Reading(d)' <=> Reading(d)),
         Reading(c)' => \A d \in Clients \ {c} : Reading(d) => token[d] # t
  PROVE  TokensHeld'
<1>1. /\ DOMAIN token' = Clients /\ token'[c] = t
      /\ \A d \in Clients \ {c} : token'[d] = token[d]
  BY DEF LinInv, TokensHeld, Take
<1>2. token' = [d \in Clients |-> token'[d]]
  BY <1>1 DEF LinInv, TokensHeld, Take
<1>3. \A d, e \in Clients : Reading(d)' /\ Reading(e)' /\ token'[d] = token'[e] => d = e
  BY <1>1 DEF LinInv, TokensHeld
<1>. QED  BY <1>1, <1>2, <1>3 DEF TokensHeld

-----------------------------------------------------------------------------
(***************************************************************************)
(* The invocation of a read.                                               *)
(***************************************************************************)
LEMMA ReadInvokeEffect ==
  ASSUME LinInv, NEW c \in Clients, NEW value \in Values, LinReadInvoke(c, value)
  PROVE  /\ [Next]_vars /\ [LQ!Next]_(LQ!vars)
         /\ Others(c) /\ Pairs' \subseteq Pairs
         /\ phase[c] = "idle" /\ phase' = [phase EXCEPT ![c] = "get"]
         /\ min_ts'[c] = watermark
         /\ UNCHANGED <<watermark, client_ctr, new_value, allocated>>
         /\ UNCHANGED <<committed_to, pending_writes, completed_writes,
                        write_token_map, applied_to, register>>
<1>. USE DEF LinInv, Inv
<1>1. ReadInvoke(c) /\ LQ!InsertReadLinearizer(value) /\ next_read_op < MaxReads
  BY DEF LinReadInvoke
<1>2. [Next]_vars
  BY <1>1 DEF Next
<1>3. [LQ!Next]_(LQ!vars)
  BY <1>1 DEF LQ!Next
<1>4. /\ Others(c) /\ min_ts'[c] = watermark /\ UNCHANGED <<watermark, client_ctr>>
      /\ Pairs' \subseteq Pairs
  BY <1>1, ReadInvokeFrame, PairsInvoke
<1>5. /\ phase[c] = "idle" /\ phase' = [phase EXCEPT ![c] = "get"]
      /\ UNCHANGED <<new_value, allocated>>
  BY <1>1 DEF ReadInvoke, Invoke, Goto, LinReadInvoke
<1>6. UNCHANGED <<committed_to, pending_writes, completed_writes,
                  write_token_map, applied_to, register>>
  BY <1>1 DEF LQ!InsertReadLinearizer, LQ!writes
<1>. QED  BY <1>2, <1>3, <1>4, <1>5, <1>6

LEMMA ReadInvokeReads ==
  ASSUME LinInv, NEW c \in Clients, NEW value \in Values, LinReadInvoke(c, value)
  PROVE  \E k : /\ k.value = value /\ k.op = next_read_op
                /\ k = [value |-> value, op |-> next_read_op]
                /\ k \notin DOMAIN read_token_map
                /\ Take(c, k)
                /\ DOMAIN read_token_map' = DOMAIN read_token_map \cup {k}
                /\ read_token_map'[k] = applied_to
                /\ \A j \in DOMAIN read_token_map :
                     read_token_map'[j] = read_token_map[j]
                /\ DOMAIN completed_reads' =
                     IF value = register THEN DOMAIN completed_reads \cup {k}
                                         ELSE DOMAIN completed_reads
<1>. DEFINE k == [value |-> value, op |-> next_read_op]
<1>1. LQ!InsertReadLinearizer(value) /\ k = LQ!NextKey(value) /\ Take(c, k)
  BY DEF LinReadInvoke, LQ!NextKey
<1>2. k.value = value /\ k.op = next_read_op
  OBVIOUS
<1>3. k \notin DOMAIN read_token_map
  BY <1>2, ReadFacts DEF LinInv
<1>4. register = LQ!current_value
  BY DEF LinInv, LQ!QueueInv, LQ!BasicInv
<1>. HIDE DEF k
<1>5. read_token_map' = LQ!Put(read_token_map, k, applied_to)
  BY <1>1 DEF LQ!InsertReadLinearizer
<1>6. /\ DOMAIN read_token_map' = DOMAIN read_token_map \cup {k}
      /\ read_token_map'[k] = applied_to
      /\ \A j \in DOMAIN read_token_map : read_token_map'[j] = read_token_map[j]
  BY <1>3, <1>5 DEF LQ!Put
<1>7. DOMAIN completed_reads' = IF value = register THEN DOMAIN completed_reads \cup {k}
                                                    ELSE DOMAIN completed_reads
  BY <1>1, <1>4 DEF LQ!InsertReadLinearizer, LQ!Put
<1>. QED  BY <1>1, <1>2, <1>3, <1>6, <1>7 DEF k

LEMMA ReadInvokeInv ==
  ASSUME LinInv, NEW c \in Clients, NEW value \in Values, LinReadInvoke(c, value)
  PROVE  LinInv'
<1>. USE DEF LinInv
<1>1. /\ [Next]_vars /\ [LQ!Next]_(LQ!vars)
      /\ Others(c) /\ Pairs' \subseteq Pairs
      /\ phase[c] = "idle" /\ phase'[c] = "get" /\ min_ts'[c] = watermark
      /\ UNCHANGED <<watermark, client_ctr, new_value, allocated>>
      /\ UNCHANGED <<committed_to, pending_writes, completed_writes,
                     write_token_map, applied_to, register>>
  BY ReadInvokeEffect DEF Inv, TypeOK
<1>2. PICK k : /\ k.op = next_read_op /\ k \notin DOMAIN read_token_map /\ Take(c, k)
               /\ DOMAIN read_token_map' = DOMAIN read_token_map \cup {k}
               /\ read_token_map'[k] = applied_to
               /\ \A j \in DOMAIN read_token_map : read_token_map'[j] = read_token_map[j]
  BY ReadInvokeReads
<1>3. Allocations' /\ NumbersUsed' /\ PairsAllocated'
  BY <1>1 DEF Allocations, NumbersUsed, PairsAllocated
<1>4. token'[c] = k /\ \A d \in Clients \ {c} : token'[d] = token[d]
  BY <1>2 DEF Take, TokensHeld
<1>5. Holds(c)'
  BY <1>1, <1>2, <1>4 DEF Holds, ReaderHolds, WriterHolds, Reading, Writes
<1>6. \A d \in Clients \ {c} : Holds(d)' /\ (Reading(d)' <=> Reading(d))
  BY <1>1, <1>2, <1>4, OtherHolds
<1>7. \A d \in Clients \ {c} : Reading(d) => token[d] # k
  BY <1>2 DEF TokensHeld, Holds, ReaderHolds
<1>8. TokensHeld'
  BY <1>2, <1>5, <1>6, <1>7, TokensStep
<1>. QED  BY <1>1, <1>3, <1>8, AbdStepInv

-----------------------------------------------------------------------------
(***************************************************************************)
(* The invocation of a write.                                              *)
(***************************************************************************)
WriteToken(c, seqno) ==
  [seqno |-> seqno, client_id |-> c, client_ctr |-> client_ctr[c]]

LEMMA WriteTokenFresh ==
  ASSUME LinInv, NEW c \in Clients, NEW n \in Prophecies,
         client_ctr[c] < MaxWrites[c]
  PROVE  LET ts == WriteToken(c, n)
         IN  /\ ts \in ProphesiedTimestamps /\ ts \in Timestamp
             /\ ts.client_id = c /\ ts.client_ctr = client_ctr[c]
             /\ ts \notin DOMAIN allocated /\ ts \notin DOMAIN write_token_map
             /\ \A p \in Pairs : p.timestamp # ts
<1>. USE DEF LinInv
<1>. DEFINE ts == WriteToken(c, n)
<1>1. client_ctr[c] \in Nat /\ MaxWrites[c] \in Nat
  BY BoundsAssumption DEF Inv, TypeOK
<1>2. client_ctr[c] \in UNION {0..MaxWrites[d] - 1 : d \in Clients}
  <2>1. client_ctr[c] \in 0..MaxWrites[c] - 1
    BY <1>1
  <2>. QED  BY <2>1
<1>3. ts \in ProphesiedTimestamps /\ ts.client_id = c /\ ts.client_ctr = client_ctr[c]
  BY <1>2 DEF ProphesiedTimestamps, WriteToken
<1>. HIDE DEF ts
<1>4. ts \notin DOMAIN allocated
  BY <1>1, <1>3 DEF NumbersUsed
<1>5. ts \notin DOMAIN write_token_map
  BY <1>4, QueueFacts DEF Allocations
<1>6. \A p \in Pairs : p.timestamp # ts
  BY <1>4 DEF PairsAllocated
<1>. QED  BY <1>3, <1>4, <1>5, <1>6, ProphesiedType DEF ts

LEMMA WriteInvokeEffect ==
  ASSUME LinInv, NEW c \in Clients, NEW v \in Arguments, NEW n \in Prophecies,
         LinWriteInvoke(c, v, n)
  PROVE  LET ts == WriteToken(c, n)
         IN  /\ [Next]_vars /\ [LQ!Next]_(LQ!vars)
             /\ Others(c) /\ Pairs' \subseteq Pairs
             /\ phase[c] = "idle" /\ phase' = [phase EXCEPT ![c] = "get_timestamp"]
             /\ client_ctr[c] < MaxWrites[c]
             /\ client_ctr' = [client_ctr EXCEPT ![c] = @ + 1]
             /\ new_value' = [new_value EXCEPT ![c] = v]
             /\ min_ts'[c] = watermark /\ UNCHANGED watermark
             /\ Take(c, ts)
             /\ UNCHANGED <<committed_to, completed_writes, pending_reads,
                            completed_reads, read_token_map, applied_to, register>>
<1>. USE DEF LinInv, Inv
<1>. DEFINE ts == WriteToken(c, n)
<1>1. /\ WriteInvoke(c, v) /\ LQ!InsertWriteLinearizer(ts, v) /\ Take(c, ts)
  BY DEF LinWriteInvoke, WriteToken
<1>2. [Next]_vars
  BY <1>1 DEF Next
<1>3. /\ phase[c] = "idle" /\ phase' = [phase EXCEPT ![c] = "get_timestamp"]
      /\ client_ctr[c] < MaxWrites[c]
      /\ client_ctr' = [client_ctr EXCEPT ![c] = @ + 1]
      /\ new_value' = [new_value EXCEPT ![c] = v]
  BY <1>1 DEF WriteInvoke, Invoke, Goto
<1>4. ts \in ProphesiedTimestamps /\ ts \notin DOMAIN write_token_map
  BY <1>3, WriteTokenFresh
<1>. HIDE DEF ts
<1>5. [LQ!Next]_(LQ!vars)
  <2>1. v \in Values
    BY ValuesAssumption
  <2>. QED  BY <1>1, <1>4, <2>1 DEF LQ!Next
<1>6. /\ Others(c) /\ min_ts'[c] = watermark /\ UNCHANGED watermark
      /\ Pairs' \subseteq Pairs
  BY <1>1, WriteInvokeFrame, PairsInvoke
<1>7. UNCHANGED <<committed_to, completed_writes, pending_reads,
                  completed_reads, read_token_map, applied_to, register>>
  BY <1>1 DEF LQ!InsertWriteLinearizer, LQ!writes, LQ!reads
<1>. QED  BY <1>1, <1>2, <1>3, <1>5, <1>6, <1>7 DEF ts

(* The linearizer is queued, and its value allocated, unless the prophecy  *)
(* lies below the watermark.                                               *)
Registered(ts, v) ==
  \/ /\ TsLe(ts, applied_to)
     /\ UNCHANGED <<pending_writes, write_token_map, allocated>>
  \/ /\ TsLt(applied_to, ts)
     /\ pending_writes' = pending_writes \cup {ts}
     /\ DOMAIN write_token_map' = DOMAIN write_token_map \cup {ts}
     /\ write_token_map'[ts] = [value |-> v, committed |-> FALSE]
     /\ \A t \in DOMAIN write_token_map :
          write_token_map'[t] = write_token_map[t]
     /\ allocated' = [t \in DOMAIN allocated \cup {ts} |->
                        IF t = ts THEN v ELSE allocated[t]]

LEMMA WriteInvokeWrites ==
  ASSUME LinInv, NEW c \in Clients, NEW v \in Arguments, NEW n \in Prophecies,
         LinWriteInvoke(c, v, n)
  PROVE  Registered(WriteToken(c, n), v)
<1>. USE DEF LinInv
<1>. DEFINE ts == WriteToken(c, n)
<1>1. /\ LQ!InsertWriteLinearizer(ts, v)
      /\ allocated' = IF TsLt(applied_to, ts) THEN LQ!Put(allocated, ts, v)
                                              ELSE allocated
      /\ client_ctr[c] < MaxWrites[c]
  BY DEF LinWriteInvoke, WriteToken, WriteInvoke
<1>2. ts \in Timestamp /\ applied_to \in Timestamp /\ ts \notin DOMAIN write_token_map
  BY <1>1, WriteTokenFresh, QueueFacts
<1>. HIDE DEF ts
<1>3. CASE TsLe(ts, applied_to)
  <2>1. ~ TsLt(applied_to, ts)
    BY <1>2, <1>3, TsTotal DEF TsLe
  <2>2. Registered(ts, v)
    BY <1>1, <1>3, <2>1, SameOrder DEF LQ!InsertWriteLinearizer, LQ!writes, Registered
  <2>. QED  BY <2>2 DEF ts
<1>4. CASE ~ TsLe(ts, applied_to)
  <2>1. TsLt(applied_to, ts)
    BY <1>2, <1>4, TsTotal DEF TsLe
  <2>2. /\ pending_writes' = pending_writes \cup {ts}
        /\ write_token_map' =
             LQ!Put(write_token_map, ts, [value |-> v, committed |-> FALSE])
    BY <1>1, <1>4, SameOrder DEF LQ!InsertWriteLinearizer
  <2>3. /\ DOMAIN write_token_map' = DOMAIN write_token_map \cup {ts}
        /\ write_token_map'[ts] = [value |-> v, committed |-> FALSE]
        /\ \A t \in DOMAIN write_token_map : write_token_map'[t] = write_token_map[t]
    BY <1>2, <2>2 DEF LQ!Put
  <2>4. allocated' = [t \in DOMAIN allocated \cup {ts} |->
                        IF t = ts THEN v ELSE allocated[t]]
    BY <1>1, <2>1 DEF LQ!Put
  <2>5. Registered(ts, v)
    BY <2>1, <2>2, <2>3, <2>4 DEF Registered
  <2>. QED  BY <2>5 DEF ts
<1>. QED  BY <1>3, <1>4

LEMMA WriteInvokeInv ==
  ASSUME LinInv, NEW c \in Clients, NEW v \in Arguments, NEW n \in Prophecies,
         LinWriteInvoke(c, v, n)
  PROVE  LinInv'
<1>. USE DEF LinInv
<1>1. PICK ts : ts = WriteToken(c, n)
  OBVIOUS
<1>2. /\ [Next]_vars /\ [LQ!Next]_(LQ!vars)
      /\ Others(c) /\ Pairs' \subseteq Pairs
      /\ phase'[c] = "get_timestamp"
      /\ client_ctr[c] < MaxWrites[c]
      /\ client_ctr'[c] = client_ctr[c] + 1
      /\ new_value'[c] = v /\ \A d \in Clients \ {c} : new_value'[d] = new_value[d]
      /\ min_ts'[c] = watermark /\ UNCHANGED watermark
      /\ Take(c, ts)
      /\ UNCHANGED <<committed_to, completed_writes, read_token_map, applied_to>>
  BY <1>1, WriteInvokeEffect DEF Inv, TypeOK
<1>3. /\ ts \in ProphesiedTimestamps
      /\ ts.client_id = c /\ ts.client_ctr = client_ctr[c]
      /\ ts \notin DOMAIN allocated /\ ts \notin DOMAIN write_token_map
      /\ \A p \in Pairs : p.timestamp # ts
  BY <1>1, <1>2, WriteTokenFresh
<1>4. \/ /\ TsLe(ts, applied_to)
         /\ UNCHANGED <<pending_writes, write_token_map, allocated>>
      \/ /\ TsLt(applied_to, ts)
         /\ pending_writes' = pending_writes \cup {ts}
         /\ DOMAIN write_token_map' = DOMAIN write_token_map \cup {ts}
         /\ write_token_map'[ts] = [value |-> v, committed |-> FALSE]
         /\ \A t \in DOMAIN write_token_map : write_token_map'[t] = write_token_map[t]
         /\ DOMAIN allocated' = DOMAIN allocated \cup {ts}
         /\ allocated'[ts] = v
         /\ \A t \in DOMAIN allocated : allocated'[t] = allocated[t]
  BY <1>1, <1>3, WriteInvokeWrites DEF Registered
<1>5. Allocations'
  <2>1. pending_writes \subseteq DOMAIN write_token_map
    BY QueueFacts
  <2>2. DOMAIN allocated' = DOMAIN committed_to' \cup pending_writes'
    BY <1>2, <1>4 DEF Allocations
  <2>3. \A t \in pending_writes' : allocated'[t] = write_token_map'[t].value
    BY <1>3, <1>4, <2>1 DEF Allocations
  <2>4. \A t \in DOMAIN committed_to' : allocated'[t] = committed_to'[t]
    BY <1>2, <1>3, <1>4 DEF Allocations
  <2>. QED  BY <2>2, <2>3, <2>4 DEF Allocations
<1>6. \A d \in Clients : client_ctr[d] \in Nat /\ client_ctr'[d] >= client_ctr[d]
  BY <1>2 DEF Inv, TypeOK, Others
<1>7. NumbersUsed'
  <2>. SUFFICES ASSUME NEW t \in DOMAIN allocated', t.client_id \in Clients
                PROVE  t.client_ctr < client_ctr'[t.client_id]
    BY DEF NumbersUsed
  <2>1. CASE t = ts
    BY <1>2, <1>3, <1>6, <2>1
  <2>2. CASE t \in DOMAIN allocated
    <3>1. t \in Timestamp
      BY <2>2, QueueFacts, ProphesiedType, TsDefaultType DEF Allocations
    <3>2. t.client_ctr \in Nat /\ t.client_ctr < client_ctr[t.client_id]
      BY <2>2, <3>1 DEF NumbersUsed, Timestamp
    <3>3. client_ctr[t.client_id] \in Nat /\ client_ctr'[t.client_id] \in Nat
      BY <1>2, AbdStepInv DEF Inv, TypeOK
    <3>. QED  BY <1>6, <3>2, <3>3
  <2>. QED  BY <1>4, <2>1, <2>2
<1>8. PairsAllocated'
  BY <1>2, <1>3, <1>4 DEF PairsAllocated
<1>9. token'[c] = ts /\ \A d \in Clients \ {c} : token'[d] = token[d]
  BY <1>2 DEF Take, TokensHeld
<1>10. Holds(c)'
  <2>1. client_ctr'[c] - 1 = client_ctr[c]
    BY <1>2, <1>6
  <2>. QED  BY <1>2, <1>3, <1>4, <1>9, <2>1
            DEF Holds, ReaderHolds, WriterHolds, Reading, Writes
<1>11. \A d \in Clients \ {c} : Writes(d) => token[d] # ts
  BY <1>3 DEF TokensHeld, Holds, WriterHolds
<1>12. \A d \in Clients \ {c} : Holds(d)' /\ (Reading(d)' <=> Reading(d))
  <2>. SUFFICES ASSUME NEW d \in Clients \ {c}
                PROVE  Holds(d)' /\ (Reading(d)' <=> Reading(d))
    OBVIOUS
  <2>1. Writes(d) =>
          /\ token[d] \in DOMAIN write_token_map'
               <=> token[d] \in DOMAIN write_token_map
          /\ token[d] \in DOMAIN write_token_map
               => write_token_map'[token[d]] = write_token_map[token[d]]
    BY <1>4, <1>11
  <2>. QED  BY <1>2, <1>9, <2>1, OtherHolds
<1>13. ~ Reading(c)'
  BY <1>2 DEF Reading
<1>14. TokensHeld'
  BY <1>2, <1>10, <1>12, <1>13, TokensStep
<1>. QED  BY <1>2, <1>5, <1>7, <1>8, <1>14, AbdStepInv

-----------------------------------------------------------------------------
(***************************************************************************)
(* The second phase of a write begins.                                     *)
(***************************************************************************)
LEMMA WriteExecuteEffect ==
  ASSUME LinInv, NEW c \in Clients, LinWriteExecute(c)
  PROVE  /\ [Next]_vars /\ [LQ!Next]_(LQ!vars)
         /\ Others(c)
         /\ Pairs' \subseteq Pairs \cup {[timestamp |-> token[c], value |-> new_value[c]]}
         /\ phase[c] = "get_timestamp" /\ phase' = [phase EXCEPT ![c] = "write"]
         /\ request'[c].timestamp = token[c]
         /\ UNCHANGED <<watermark, min_ts, client_ctr, new_value, allocated, token, outcome>>
         /\ token[c] \in DOMAIN write_token_map
         /\ write_token_map' = [write_token_map EXCEPT ![token[c]].committed = TRUE]
         /\ UNCHANGED <<committed_to, pending_writes, completed_writes, pending_reads,
                        completed_reads, read_token_map, applied_to, register>>
<1>. USE DEF LinInv
<1>1. WriteExecute(c) /\ token[c] = ExecTimestamp(c) /\ LQ!CommitValue(token[c])
  BY DEF LinWriteExecute
<1>2. [Next]_vars
  BY <1>1 DEF Next, Advance
<1>3. /\ phase[c] = "get_timestamp" /\ phase' = [phase EXCEPT ![c] = "write"]
      /\ Others(c)
      /\ UNCHANGED <<watermark, min_ts, client_ctr>>
      /\ request'[c].timestamp = token[c]
  <2>1. TypeOK
    BY DEF Inv
  <2>2. /\ phase[c] = "get_timestamp" /\ Others(c) /\ UNCHANGED <<ghosts, client_ctr>>
        /\ Broadcast(c, "Write", Servers, ExecTimestamp(c), new_value[c])
    BY <1>1, <2>1, WriteExecuteFrame
  <2>3. request'[c].timestamp = ExecTimestamp(c)
    BY <2>1, <2>2, BroadcastFrame
  <2>4. phase' = [phase EXCEPT ![c] = "write"]
    BY <1>1 DEF WriteExecute, Goto
  <2>. QED  BY <1>1, <2>2, <2>3, <2>4 DEF ghosts
<1>4. UNCHANGED <<new_value, allocated, token, outcome>>
  BY <1>1 DEF WriteExecute, LinWriteExecute
<1>5. Pairs' \subseteq Pairs \cup {[timestamp |-> token[c], value |-> new_value[c]]}
  BY <1>1, PairsExecute
<1>6. token[c] \in DOMAIN write_token_map /\ ~ write_token_map[token[c]].committed
  <2>1. phase'[c] = "write"
    BY <1>3 DEF Inv, TypeOK
  <2>2. TsLt(min_ts[c], token[c])
    BY <1>2, <1>3, <2>1, InvStep DEF Inv, WritesAreNewer
  <2>3. min_ts[c] \in Timestamp /\ token[c] \in Timestamp
    BY <1>3, FieldTypes, TokenKinds, ProphesiedType DEF Inv, Writes
  <2>4. ~ TsLe(token[c], min_ts[c])
    BY <2>2, <2>3, TsTotal DEF TsLe
  <2>. QED  BY <1>3, <2>4 DEF TokensHeld, Holds, WriterHolds, Writes
<1>7. [LQ!Next]_(LQ!vars)
  BY <1>1, <1>6 DEF LQ!Next
<1>8. /\ write_token_map' = [write_token_map EXCEPT ![token[c]].committed = TRUE]
      /\ UNCHANGED <<committed_to, pending_writes, completed_writes, pending_reads,
                     completed_reads, read_token_map, applied_to, register>>
  BY <1>1 DEF LQ!CommitValue, LQ!reads
<1>. QED  BY <1>2, <1>3, <1>4, <1>5, <1>6, <1>7, <1>8

LEMMA WriteExecuteInv ==
  ASSUME LinInv, NEW c \in Clients, LinWriteExecute(c)
  PROVE  LinInv'
<1>. USE DEF LinInv
<1>. DEFINE ts == token[c]
<1>1. /\ [Next]_vars /\ [LQ!Next]_(LQ!vars)
      /\ Others(c)
      /\ Pairs' \subseteq Pairs \cup {[timestamp |-> ts, value |-> new_value[c]]}
      /\ phase[c] = "get_timestamp" /\ phase'[c] = "write"
      /\ request'[c].timestamp = ts
      /\ UNCHANGED <<watermark, min_ts, client_ctr, new_value, allocated, token>>
      /\ UNCHANGED <<committed_to, pending_writes, completed_writes,
                     read_token_map, applied_to>>
      /\ ts \in DOMAIN write_token_map
  BY WriteExecuteEffect DEF Inv, TypeOK
<1>2. /\ DOMAIN write_token_map' = DOMAIN write_token_map
      /\ write_token_map'[ts].value = write_token_map[ts].value
      /\ write_token_map'[ts].committed
      /\ \A t \in DOMAIN write_token_map \ {ts} : write_token_map'[t] = write_token_map[t]
  <2>1. write_token_map' = [write_token_map EXCEPT ![ts].committed = TRUE]
    BY WriteExecuteEffect
  <2>2. write_token_map \in
          [DOMAIN write_token_map -> [value : Values, committed : BOOLEAN]]
    BY QueueFacts
  <2>. HIDE DEF ts
  <2>. QED  BY <1>1, <2>1, <2>2
<1>3. write_token_map[ts].value = new_value[c]
  BY <1>1 DEF TokensHeld, Holds, WriterHolds, Writes
<1>4. ts \in DOMAIN allocated /\ allocated[ts] = new_value[c]
  BY <1>1, <1>3, QueueFacts DEF Allocations
<1>5. Allocations' /\ NumbersUsed'
  <2>1. \A t \in pending_writes : write_token_map'[t].value = write_token_map[t].value
    BY <1>2, QueueFacts
  <2>. QED  BY <1>1, <2>1 DEF Allocations, NumbersUsed
<1>6. PairsAllocated'
  <2>. SUFFICES ASSUME NEW p \in Pairs'
                PROVE  /\ p.timestamp \in DOMAIN allocated
                       /\ p.value = allocated[p.timestamp]
                       /\ p.timestamp \in DOMAIN write_token_map'
                            => write_token_map'[p.timestamp].committed
    BY <1>1 DEF PairsAllocated
  <2>1. CASE p = [timestamp |-> ts, value |-> new_value[c]]
    BY <1>2, <1>4, <2>1
  <2>2. CASE p \in Pairs
    BY <1>2, <2>2 DEF PairsAllocated
  <2>. QED  BY <1>1, <2>1, <2>2
<1>7. Take(c, ts)
  BY <1>1 DEF Take, TokensHeld
<1>8. Holds(c)'
  BY <1>1, <1>2, <1>3 DEF TokensHeld, Holds, ReaderHolds, WriterHolds, Reading, Writes
<1>9. \A d \in Clients \ {c} : Holds(d)' /\ (Reading(d)' <=> Reading(d))
  <2>. SUFFICES ASSUME NEW d \in Clients \ {c}
                PROVE  Holds(d)' /\ (Reading(d)' <=> Reading(d))
    OBVIOUS
  <2>1. Writes(d) => token[d] # ts
    BY <1>1, TokenKinds DEF Writes
  <2>. QED  BY <1>1, <1>2, <2>1, OtherHolds
<1>10. ~ Reading(c)'
  BY <1>1 DEF Reading
<1>11. TokensHeld'
  BY <1>7, <1>8, <1>9, <1>10, TokensStep
<1>. QED  BY <1>1, <1>5, <1>6, <1>11, AbdStepInv

-----------------------------------------------------------------------------
(***************************************************************************)
(* An operation returns.                                                   *)
(***************************************************************************)
(* The tokens that the return of client c uses. *)
UsedWrites(c) == IF Writes(c) THEN {token[c]} ELSE {}

UsedReads(c) == IF Reading(c) THEN {token[c]} ELSE {}

Returns(c, max) ==
  /\ phase[c] # "idle"
  /\ Return(c, max)
  /\ Leaves(c)
  /\ max \in DOMAIN allocated
  /\ LQ!ApplyAndExtract(LQ!PendingUpTo(max), UsedWrites(c), UsedReads(c))
  /\ Take(c, TsDefault)
  /\ UNCHANGED allocated

LEMMA LeavesFrame ==
  ASSUME LinInv, NEW c \in Clients, Leaves(c)
  PROVE  /\ Pairs' \subseteq Pairs
         /\ Others(c)
         /\ phase' = [phase EXCEPT ![c] = "idle"] /\ phase'[c] = "idle"
         /\ new_value' = [new_value EXCEPT ![c] = None]
         /\ UNCHANGED client_ctr
<1>. USE DEF LinInv, Inv
<1>1. /\ UNCHANGED <<server, requests, client_ctr>> /\ responses' \subseteq responses
      /\ phase'[c] = "idle" /\ Others(c)
  BY LeaveFrame
<1>2. ~ HasHeard(c)'
  BY <1>1 DEF HasHeard
<1>3. Pairs' \subseteq Pairs
  BY <1>1, <1>2, PairsKept
<1>4. Leave(c)
  BY DEF Leaves, ReadUnanimous, ReadReturn, WriteReturn, Return, GiveUp
<1>. QED  BY <1>1, <1>3, <1>4 DEF Leave, Goto

(* A read returns the pair that it has heard of. *)
LEMMA ReadReturnsEffect ==
  ASSUME LinInv, NEW c \in Clients, LinReadReturn(c)
  PROVE  /\ Reading(c) /\ ~ Writes(c)
         /\ Returns(c, max_resp[c].timestamp)
         /\ [Next]_vars /\ [LQ!Next]_(LQ!vars)
         /\ max_resp[c].value = token[c].value
         /\ token[c].value = QueueValue(max_resp[c].timestamp)
         /\ token[c] \in DOMAIN read_token_map
         /\ TsLe(read_token_map[token[c]], max_resp[c].timestamp)
         /\ outcome' = [outcome EXCEPT ![c] = {token[c].value}]
<1>. USE DEF LinInv
<1>. DEFINE max == max_resp[c].timestamp
<1>1. /\ Reading(c) /\ max_resp[c].value = token[c].value
      /\ ReadUnanimous(c) \/ ReadReturn(c)
      /\ LQ!ReadReturns(token[c], max)
      /\ Take(c, TsDefault)
      /\ outcome' = [outcome EXCEPT ![c] = {max_resp[c].value}]
      /\ UNCHANGED allocated
  BY DEF LinReadReturn, Foretold, Outcome
<1>2. ~ Writes(c) /\ phase[c] # "idle"
  BY <1>1 DEF Reading, Writes
<1>3. /\ Leaves(c) /\ Return(c, max) /\ [Next]_vars
      /\ \/ phase[c] = "write_back"
         \/ phase[c] = "get" /\ IsQuorum(replies[c])
  BY <1>1 DEF Leaves, Next, Advance, ReadUnanimous, ReadReturn
<1>4. max_resp[c] \in Pairs
  <2>1. IsQuorum(replies[c]) => replies[c] # {}
    BY QuorumsIntersect DEF Inv, TypeOK
  <2>2. HasHeard(c)
    BY <1>3, <2>1 DEF HasHeard
  <2>. QED  BY <2>2 DEF Pairs
<1>5. max \in DOMAIN allocated /\ max_resp[c].value = allocated[max]
  BY <1>4 DEF PairsAllocated
<1>6. token[c].value = QueueValue(max)
  BY <1>1, <1>5 DEF Allocations, QueueValue
<1>7. token[c] \in DOMAIN read_token_map /\ read_token_map[token[c]] = min_ts[c]
  BY <1>1 DEF TokensHeld, Holds, ReaderHolds
<1>8. TsLe(min_ts[c], max)
  BY <1>3 DEF Inv, ReadsAreFresh
<1>9. LQ!ApplyAndExtract(LQ!PendingUpTo(max), UsedWrites(c), UsedReads(c))
  BY <1>1, <1>2 DEF LQ!ReadReturns, UsedWrites, UsedReads
<1>10. [LQ!Next]_(LQ!vars)
  <2>1. max \in LQ!known_timestamps
    BY <1>5 DEF Allocations, LQ!known_timestamps
  <2>. QED  BY <1>1, <1>6, <1>7, <1>8, <2>1, SameOrder DEF LQ!Next, QueueValue
<1>. QED  BY <1>1, <1>2, <1>3, <1>5, <1>6, <1>7, <1>8, <1>9, <1>10 DEF Returns

(* A write returns the timestamp that it was prophesied. *)
LEMMA WriteReturnsEffect ==
  ASSUME LinInv, NEW c \in Clients, LinWriteReturn(c)
  PROVE  /\ phase[c] = "write" /\ Writes(c) /\ ~ Reading(c)
         /\ Returns(c, token[c])
         /\ [Next]_vars /\ [LQ!Next]_(LQ!vars)
         /\ token[c] \in DOMAIN write_token_map
         /\ write_token_map[token[c]].value = new_value[c]
         /\ outcome' = [outcome EXCEPT ![c] = {new_value[c]}]
<1>. USE DEF LinInv
<1>1. /\ WriteReturn(c) /\ LQ!WriteReturns(token[c]) /\ Take(c, TsDefault)
      /\ outcome' = [outcome EXCEPT ![c] = {new_value[c]}]
      /\ UNCHANGED allocated
  BY DEF LinWriteReturn, Outcome
<1>2. phase[c] = "write" /\ Writes(c) /\ ~ Reading(c)
  BY <1>1 DEF WriteReturn, Reading, Writes
<1>3. /\ token[c] = request[c].timestamp
      /\ token[c] \in DOMAIN write_token_map
      /\ write_token_map[token[c]].value = new_value[c]
  BY <1>2 DEF TokensHeld, Holds, WriterHolds
<1>4. Leaves(c) /\ Return(c, token[c]) /\ [Next]_vars
  BY <1>1, <1>3 DEF Leaves, Next, Advance, WriteReturn
<1>5. token[c] \in DOMAIN allocated
  BY <1>3, QueueFacts DEF Allocations
<1>6. LQ!ApplyAndExtract(LQ!PendingUpTo(token[c]), UsedWrites(c), UsedReads(c))
  BY <1>1, <1>2 DEF LQ!WriteReturns, UsedWrites, UsedReads
<1>7. [LQ!Next]_(LQ!vars)
  BY <1>1, <1>3 DEF LQ!Next
<1>. QED  BY <1>1, <1>2, <1>3, <1>4, <1>5, <1>6, <1>7 DEF Returns

(* The watermark of the queue moves like that of the register.             *)
LEMMA AppliedMoves ==
  ASSUME LinInv, NEW c \in Clients, NEW max, Returns(c, max)
  PROVE  applied_to' = watermark'
<1>. USE DEF LinInv
<1>. DEFINE P == LQ!PendingUpTo(max)
<1>1. max \in LQ!known_timestamps
  BY DEF Returns, Allocations, LQ!known_timestamps
<1>2. max \in Timestamp /\ applied_to \in Timestamp
  BY <1>1, QueueFacts, ProphesiedType, TsDefaultType DEF LQ!known_timestamps
<1>3. watermark' = TsMax(applied_to, max)
  BY DEF Returns, Return
<1>4. \/ P = {} /\ applied_to' = applied_to
      \/ max \in P /\ applied_to' = max
  BY <1>1, ApplyEffect DEF Returns, Applied
<1>5. CASE max \in P
  <2>1. TsLt(applied_to, max)
    BY <1>1, <1>5, Applies
  <2>. QED  BY <1>3, <1>4, <1>5, <2>1 DEF TsMax
<1>6. CASE P = {}
  <2>1. max \notin pending_writes
    BY <1>6, SameOrder DEF LQ!PendingUpTo, TsLe
  <2>2. TsLe(max, applied_to)
    BY <1>1, <2>1, QueueFacts DEF LQ!known_timestamps
  <2>3. ~ TsLt(applied_to, max)
    BY <1>2, <2>2, TsTotal DEF TsLe
  <2>. QED  BY <1>3, <1>4, <1>6, <2>3 DEF TsMax
<1>. QED  BY <1>4, <1>5, <1>6

(* A client that is idle holds nothing; what the others hold stays.        *)
LEMMA LeavesTokens ==
  ASSUME LinInv, NEW c \in Clients, Leaves(c), Take(c, TsDefault),
         \A k \in DOMAIN read_token_map \ UsedReads(c) :
           k \in DOMAIN read_token_map' /\ read_token_map'[k] = read_token_map[k],
         DOMAIN write_token_map' \subseteq DOMAIN write_token_map,
         \A t \in DOMAIN write_token_map \ UsedWrites(c) :
           t \in DOMAIN write_token_map' /\ write_token_map'[t] = write_token_map[t]
  PROVE  TokensHeld'
<1>. USE DEF LinInv
<1>1. /\ Others(c) /\ phase'[c] = "idle"
      /\ \A d \in Clients \ {c} : new_value'[d] = new_value[d]
  BY LeavesFrame DEF Inv, TypeOK
<1>2. token'[c] = TsDefault /\ \A d \in Clients \ {c} : token'[d] = token[d]
  BY DEF Take, TokensHeld
<1>3. Holds(c)' /\ ~ Reading(c)'
  BY <1>1, <1>2 DEF Holds, ReaderHolds, WriterHolds, Reading, Writes
<1>4. \A d \in Clients \ {c} : Holds(d)' /\ (Reading(d)' <=> Reading(d))
  <2>. SUFFICES ASSUME NEW d \in Clients \ {c}
                PROVE  Holds(d)' /\ (Reading(d)' <=> Reading(d))
    OBVIOUS
  <2>1. Reading(d) => token[d] \notin UsedReads(c)
    BY DEF UsedReads, TokensHeld
  <2>2. Writes(d) => token[d] \notin UsedWrites(c)
    BY TokenKinds DEF UsedWrites
  <2>. QED  BY <1>1, <1>2, <2>1, <2>2, OtherHolds
<1>. QED  BY <1>3, <1>4, TokensStep

LEMMA ReturnsApply ==
  ASSUME LinInv, NEW c \in Clients, NEW max, Returns(c, max)
  PROVE  /\ max \in LQ!known_timestamps
         /\ LQ!PendingUpTo(max) \subseteq pending_writes
         /\ Applied(max, UsedWrites(c), UsedReads(c))
<1>1. max \in LQ!known_timestamps /\ LQ!QueueInv
  BY DEF LinInv, Returns, Allocations, LQ!known_timestamps
<1>2. LQ!ApplyAndExtract(LQ!PendingUpTo(max), UsedWrites(c), UsedReads(c))
  BY DEF Returns
<1>3. LQ!PendingUpTo(max) \subseteq pending_writes
  BY DEF LQ!PendingUpTo
<1>. QED  BY <1>1, <1>2, <1>3, ApplyEffect

(* A write that still waits is not the one that returns. *)
LEMMA ReturnsKeep ==
  ASSUME LinInv, NEW c \in Clients, NEW max, Returns(c, max),
         [Next]_vars, [LQ!Next]_(LQ!vars)
  PROVE  pending_writes' \subseteq DOMAIN write_token_map'
<1>1. LQ!WriteDomInv'
  BY AbdStepInv DEF LQ!QueueInv
<1>. QED  BY <1>1 DEF LQ!WriteDomInv

LEMMA ReturnsInv ==
  ASSUME LinInv, NEW c \in Clients, NEW max, Returns(c, max),
         [Next]_vars, [LQ!Next]_(LQ!vars)
  PROVE  LinInv'
<1>. USE DEF LinInv
<1>1. Leaves(c) /\ Take(c, TsDefault) /\ UNCHANGED allocated
  BY DEF Returns
<1>2. Pairs' \subseteq Pairs /\ UNCHANGED client_ctr
  BY <1>1, LeavesFrame
<1>. DEFINE P == LQ!PendingUpTo(max)
<1>4. max \in LQ!known_timestamps
  BY DEF Returns, Allocations, LQ!known_timestamps
<1>5. P \subseteq pending_writes
  BY <1>4, Applies
<1>6. /\ DOMAIN committed_to' = DOMAIN committed_to \cup P
      /\ \A t \in P : committed_to'[t] = write_token_map[t].value
      /\ \A t \in DOMAIN committed_to : committed_to'[t] = committed_to[t]
      /\ pending_writes' = pending_writes \ P
      /\ DOMAIN write_token_map' = DOMAIN write_token_map \ UsedWrites(c)
      /\ \A t \in DOMAIN write_token_map \ UsedWrites(c) :
           write_token_map'[t] = write_token_map[t]
      /\ DOMAIN read_token_map' = DOMAIN read_token_map \ UsedReads(c)
      /\ \A k \in DOMAIN read_token_map \ UsedReads(c) :
           read_token_map'[k] = read_token_map[k]
  BY ReturnsApply DEF Applied
<1>. HIDE DEF P
<1>7. applied_to' = watermark'
  BY AppliedMoves
<1>8. Inv' /\ NamesInv' /\ LQ!QueueInv'
  BY AbdStepInv
<1>9. Allocations'
  <2>1. DOMAIN allocated' = DOMAIN committed_to' \cup pending_writes'
    BY <1>1, <1>5, <1>6 DEF Allocations
  <2>2. \A t \in DOMAIN committed_to' : allocated'[t] = committed_to'[t]
    BY <1>1, <1>5, <1>6 DEF Allocations
  <2>3. pending_writes' \subseteq DOMAIN write_token_map'
    BY ReturnsKeep
  <2>4. \A t \in pending_writes' : allocated'[t] = write_token_map'[t].value
    BY <1>1, <1>6, <2>3 DEF Allocations
  <2>. QED  BY <2>1, <2>2, <2>4 DEF Allocations
<1>10. NumbersUsed'
  BY <1>1, <1>2 DEF NumbersUsed
<1>11. PairsAllocated'
  BY <1>1, <1>2, <1>6 DEF PairsAllocated
<1>12. TokensHeld'
  BY <1>1, <1>6, LeavesTokens
<1>. QED  BY <1>7, <1>8, <1>9, <1>10, <1>11, <1>12

-----------------------------------------------------------------------------
(***************************************************************************)
(* An operation fails.                                                     *)
(***************************************************************************)
LEMMA GiveUpFrame ==
  ASSUME LinInv, NEW c \in Clients, GiveUp(c)
  PROVE  /\ Leaves(c) /\ [Next]_vars
         /\ Pairs' \subseteq Pairs
         /\ UNCHANGED <<client_ctr, watermark>>
<1>1. Leaves(c) /\ [Next]_vars /\ UNCHANGED watermark
  BY DEF Leaves, Next, Advance, GiveUp
<1>. QED  BY <1>1, LeavesFrame

LEMMA ReadFailsEffect ==
  ASSUME LinInv, NEW c \in Clients, LinReadFails(c)
  PROVE  /\ [LQ!Next]_(LQ!vars)
         /\ Reading(c) /\ ~ Writes(c) /\ token[c] \in DOMAIN read_token_map
         /\ DOMAIN read_token_map' = DOMAIN read_token_map \ {token[c]}
         /\ \A k \in DOMAIN read_token_map \ {token[c]} :
              read_token_map'[k] = read_token_map[k]
         /\ DOMAIN completed_reads' = DOMAIN completed_reads \ {token[c]}
         /\ UNCHANGED <<committed_to, pending_writes, completed_writes,
                        write_token_map, applied_to, register, allocated>>
<1>. USE DEF LinInv
<1>1. Reading(c) /\ ~ Writes(c) /\ LQ!RemoveReadLin(token[c])
  BY DEF LinReadFails, Reading, Writes
<1>2. token[c] \in DOMAIN read_token_map
  BY <1>1 DEF TokensHeld, Holds, ReaderHolds
<1>3. [LQ!Next]_(LQ!vars)
  BY <1>1, <1>2 DEF LQ!Next
<1>4. /\ DOMAIN read_token_map' = DOMAIN read_token_map \ {token[c]}
      /\ \A k \in DOMAIN read_token_map \ {token[c]} :
           read_token_map'[k] = read_token_map[k]
      /\ UNCHANGED <<committed_to, pending_writes, completed_writes,
                     write_token_map, applied_to, register, allocated>>
  BY <1>1 DEF LQ!RemoveReadLin, LQ!Without, LQ!writes, LinReadFails
<1>5. DOMAIN completed_reads' = DOMAIN completed_reads \ {token[c]}
  <2>1. CASE LQ!HasTakenEffect(token[c])
    BY <1>1, <2>1 DEF LQ!RemoveReadLin, LQ!Without
  <2>2. CASE ~ LQ!HasTakenEffect(token[c])
    <3>1. token[c] \notin DOMAIN completed_reads
      BY <2>2, CompletedHasTakenEffect
    <3>. QED  BY <1>1, <2>2, <3>1 DEF LQ!RemoveReadLin
  <2>. QED  BY <2>1, <2>2
<1>. QED  BY <1>1, <1>2, <1>3, <1>4, <1>5

LEMMA ReadFailsInv ==
  ASSUME LinInv, NEW c \in Clients, GiveUp(c), LinReadFails(c), Take(c, TsDefault)
  PROVE  LinInv'
<1>. USE DEF LinInv
<1>1. /\ Leaves(c) /\ [Next]_vars /\ Pairs' \subseteq Pairs
      /\ UNCHANGED <<client_ctr, watermark>>
  BY GiveUpFrame
<1>2. /\ [LQ!Next]_(LQ!vars) /\ UsedReads(c) = {token[c]}
      /\ DOMAIN read_token_map' = DOMAIN read_token_map \ {token[c]}
      /\ \A k \in DOMAIN read_token_map \ {token[c]} :
           read_token_map'[k] = read_token_map[k]
      /\ UNCHANGED <<committed_to, pending_writes, write_token_map, applied_to, allocated>>
  BY ReadFailsEffect DEF UsedReads
<1>3. Allocations' /\ NumbersUsed' /\ PairsAllocated'
  BY <1>1, <1>2 DEF Allocations, NumbersUsed, PairsAllocated
<1>4. TokensHeld'
  BY <1>1, <1>2, LeavesTokens
<1>. QED  BY <1>1, <1>2, <1>3, <1>4, AbdStepInv

LEMMA WriteFailsFirstEffect ==
  ASSUME LinInv, NEW c \in Clients, LinWriteFailsFirst(c)
  PROVE  /\ [LQ!Next]_(LQ!vars)
         /\ phase[c] = "get_timestamp" /\ Writes(c) /\ ~ Reading(c)
         /\ UNCHANGED <<committed_to, pending_reads, completed_reads,
                        read_token_map, applied_to, register>>
         /\ pending_writes' = pending_writes \ {token[c]}
         /\ completed_writes' = completed_writes \ {token[c]}
         /\ DOMAIN write_token_map' = DOMAIN write_token_map \ {token[c]}
         /\ \A t \in DOMAIN write_token_map \ {token[c]} :
              write_token_map'[t] = write_token_map[t]
         /\ \/ token[c] \notin pending_writes /\ UNCHANGED allocated
            \/ /\ token[c] \in pending_writes
               /\ allocated' = [t \in DOMAIN allocated \ {token[c]} |-> allocated[t]]
<1>. USE DEF LinInv
<1>1. phase[c] = "get_timestamp" /\ Writes(c) /\ ~ Reading(c)
  BY DEF LinWriteFailsFirst, Reading, Writes
<1>2. DOMAIN write_token_map = pending_writes \cup completed_writes
  BY QueueFacts
<1>3. CASE token[c] \in DOMAIN write_token_map
  <2>1. LQ!RemoveWriteLin(token[c])
    BY <1>3 DEF LinWriteFailsFirst
  <2>2. [LQ!Next]_(LQ!vars)
    BY <1>3, <2>1 DEF LQ!Next
  <2>3. /\ UNCHANGED <<committed_to, pending_reads, completed_reads,
                       read_token_map, applied_to, register>>
        /\ DOMAIN write_token_map' = DOMAIN write_token_map \ {token[c]}
        /\ \A t \in DOMAIN write_token_map \ {token[c]} :
             write_token_map'[t] = write_token_map[t]
    BY <2>1 DEF LQ!RemoveWriteLin, LQ!Without, LQ!reads
  <2>4. token[c] \in Timestamp /\ applied_to \in Timestamp
    BY <1>1, QueueFacts, TokenKinds, ProphesiedType
  <2>5. CASE token[c] \in pending_writes
    <3>1. ~ TsLe(token[c], applied_to) /\ token[c] \notin completed_writes
      <4>1. TsLt(applied_to, token[c])
        BY <2>5, QueueFacts
      <4>2. token[c] \notin completed_writes
        BY <2>5, QueueFacts
      <4>. QED  BY <2>4, <4>1, <4>2, TsTotal DEF TsLe
    <3>2. pending_writes' = pending_writes \ {token[c]} /\ UNCHANGED completed_writes
      BY <2>1, <3>1, SameOrder DEF LQ!RemoveWriteLin
    <3>3. allocated' = [t \in DOMAIN allocated \ {token[c]} |-> allocated[t]]
      BY <1>3, <2>5 DEF LinWriteFailsFirst, LQ!Without
    <3>. QED  BY <1>1, <2>2, <2>3, <2>5, <3>1, <3>2, <3>3
  <2>6. CASE token[c] \notin pending_writes
    <3>1. TsLe(token[c], applied_to)
      BY <1>2, <1>3, <2>6, QueueFacts
    <3>2. completed_writes' = completed_writes \ {token[c]} /\ UNCHANGED pending_writes
      BY <2>1, <3>1, SameOrder DEF LQ!RemoveWriteLin
    <3>3. UNCHANGED allocated
      BY <1>3, <2>6 DEF LinWriteFailsFirst
    <3>. QED  BY <1>1, <2>2, <2>3, <2>6, <3>2, <3>3
  <2>. QED  BY <2>5, <2>6
<1>4. CASE token[c] \notin DOMAIN write_token_map
  <2>1. /\ UNCHANGED <<committed_to, pending_writes, completed_writes, write_token_map,
                       pending_reads, completed_reads, read_token_map, next_read_op,
                       register, applied_to>>
        /\ UNCHANGED allocated
    BY <1>4 DEF LinWriteFailsFirst, queue
  <2>2. UNCHANGED LQ!vars
    BY <2>1 DEF LQ!vars, LQ!writes, LQ!reads
  <2>. QED  BY <1>1, <1>2, <1>4, <2>1, <2>2
<1>. QED  BY <1>3, <1>4

LEMMA WriteFailsFirstInv ==
  ASSUME LinInv, NEW c \in Clients, GiveUp(c), LinWriteFailsFirst(c), Take(c, TsDefault)
  PROVE  LinInv'
<1>. USE DEF LinInv
<1>1. /\ Leaves(c) /\ [Next]_vars /\ Pairs' \subseteq Pairs
      /\ UNCHANGED <<client_ctr, watermark>>
  BY GiveUpFrame
<1>2. /\ [LQ!Next]_(LQ!vars) /\ UsedWrites(c) = {token[c]}
      /\ phase[c] = "get_timestamp"
      /\ UNCHANGED <<committed_to, read_token_map, applied_to>>
      /\ pending_writes' = pending_writes \ {token[c]}
      /\ DOMAIN write_token_map' = DOMAIN write_token_map \ {token[c]}
      /\ \A t \in DOMAIN write_token_map \ {token[c]} :
           write_token_map'[t] = write_token_map[t]
  BY WriteFailsFirstEffect DEF UsedWrites
<1>3. /\ DOMAIN allocated' = DOMAIN allocated \ ({token[c]} \cap pending_writes)
      /\ \A t \in DOMAIN allocated' : allocated'[t] = allocated[t]
  <2>1. \/ token[c] \notin pending_writes /\ UNCHANGED allocated
        \/ /\ token[c] \in pending_writes
           /\ allocated' = [t \in DOMAIN allocated \ {token[c]} |-> allocated[t]]
    BY WriteFailsFirstEffect
  <2>. HIDE DEF LinInv
  <2>. QED  BY <2>1
<1>4. Allocations'
  <2>1. /\ pending_writes \subseteq DOMAIN write_token_map
        /\ pending_writes \cap DOMAIN committed_to = {}
    BY QueueFacts
  <2>. QED  BY <1>2, <1>3, <2>1 DEF Allocations
<1>5. NumbersUsed'
  BY <1>1, <1>3 DEF NumbersUsed
<1>6. PairsAllocated'
  <2>1. \A p \in Pairs : p.timestamp # token[c]
    BY <1>2, UnseenToken
  <2>. QED  BY <1>1, <1>2, <1>3, <2>1 DEF PairsAllocated
<1>7. TokensHeld'
  BY <1>1, <1>2, LeavesTokens
<1>. QED  BY <1>1, <1>2, <1>4, <1>5, <1>6, <1>7, AbdStepInv

LEMMA WriteFailsSecondInv ==
  ASSUME LinInv, NEW c \in Clients, GiveUp(c), LinWriteFailsSecond(c), Take(c, TsDefault)
  PROVE  LinInv'
<1>. USE DEF LinInv
<1>1. /\ Leaves(c) /\ [Next]_vars /\ Pairs' \subseteq Pairs
      /\ UNCHANGED <<client_ctr, watermark>>
  BY GiveUpFrame
<1>2. /\ UNCHANGED <<committed_to, pending_writes, completed_writes, write_token_map,
                     pending_reads, completed_reads, read_token_map, next_read_op,
                     register, applied_to>>
      /\ UNCHANGED allocated
  BY DEF LinWriteFailsSecond, queue
<1>3. UNCHANGED LQ!vars
  BY <1>2 DEF LQ!vars, LQ!writes, LQ!reads
<1>4. Allocations' /\ NumbersUsed' /\ PairsAllocated'
  BY <1>1, <1>2 DEF Allocations, NumbersUsed, PairsAllocated
<1>5. TokensHeld'
  BY <1>1, <1>2, LeavesTokens
<1>. QED  BY <1>1, <1>2, <1>3, <1>4, <1>5, AbdStepInv

-----------------------------------------------------------------------------
(***************************************************************************)
(* Every step is of one of these kinds.                                    *)
(***************************************************************************)
LEMMA LinStepKinds ==
  ASSUME [LinNext]_linvars
  PROVE  \/ Quiet /\ UNCHANGED ghost
         \/ \E c \in Clients, value \in Values : LinReadInvoke(c, value)
         \/ \E c \in Clients, v \in Arguments, n \in Prophecies : LinWriteInvoke(c, v, n)
         \/ \E c \in Clients : LinReadReturn(c)
         \/ \E c \in Clients : LinWriteExecute(c)
         \/ \E c \in Clients : LinWriteReturn(c)
         \/ \E c \in Clients : /\ GiveUp(c) /\ Take(c, TsDefault) /\ UNCHANGED outcome
                               /\ \/ LinReadFails(c)
                                  \/ LinWriteFailsFirst(c)
                                  \/ LinWriteFailsSecond(c)
<1>1. UNCHANGED linvars => Quiet /\ UNCHANGED ghost
  BY DEF linvars, Quiet
<1>2. \A c \in Clients : LinReadWriteBack(c) => Quiet /\ UNCHANGED ghost
  BY DEF LinReadWriteBack, Quiet
<1>3. \A c \in Clients : LinGiveUp(c) =>
        /\ GiveUp(c) /\ Take(c, TsDefault) /\ UNCHANGED outcome
        /\ LinReadFails(c) \/ LinWriteFailsFirst(c) \/ LinWriteFailsSecond(c)
  BY DEF LinGiveUp
<1>. QED  BY <1>1, <1>2, <1>3 DEF LinNext, Quiet

LEMMA LinInvStep ==
  ASSUME LinInv, [LinNext]_linvars
  PROVE  LinInv'
<1>1. ASSUME NEW c \in Clients, LinReadReturn(c) PROVE LinInv'
  BY <1>1, ReadReturnsEffect, ReturnsInv
<1>2. ASSUME NEW c \in Clients, LinWriteReturn(c) PROVE LinInv'
  BY <1>2, WriteReturnsEffect, ReturnsInv
<1>. QED  BY <1>1, <1>2, LinStepKinds, QuietInv, ReadInvokeInv, WriteInvokeInv,
             WriteExecuteInv, ReadFailsInv, WriteFailsFirstInv, WriteFailsSecondInv

LEMMA LinInvInit == LinInit => LinInv
<1>. SUFFICES ASSUME LinInit PROVE LinInv
  OBVIOUS
<1>1. Inv /\ NamesInv /\ LQ!QueueInv
  BY InvInit, NamesInit, QueueInitInv DEF LinInit
<1>2. /\ applied_to = watermark
      /\ committed_to = [t \in {TsDefault} |-> None]
      /\ pending_writes = {} /\ DOMAIN write_token_map = {}
      /\ allocated = [t \in {TsDefault} |-> None]
      /\ token = [c \in Clients |-> TsDefault]
      /\ \A c \in Clients : phase[c] = "idle"
  BY SameOrder DEF LinInit, Init, LQ!Init
<1>3. Allocations
  BY <1>2 DEF Allocations
<1>4. NumbersUsed
  <2>1. TsDefault.client_id \notin Clients
    BY ClientsAssumption DEF TsDefault
  <2>. QED  BY <1>2, <2>1 DEF NumbersUsed
<1>5. PairsAllocated
  <2>1. \A p \in Pairs : p = Initial
    BY DEF LinInit, Init, Pairs, HasHeard
  <2>. QED  BY <1>2, <2>1 DEF PairsAllocated, Initial
<1>6. TokensHeld
  BY <1>2 DEF TokensHeld, Holds, ReaderHolds, WriterHolds, Reading, Writes
<1>. QED  BY <1>1, <1>2, <1>3, <1>4, <1>5, <1>6 DEF LinInv

LEMMA LinInvCorrect == LinSpec => []LinInv
BY LinInvInit, LinInvStep, PTL DEF LinSpec

(* State::inv: what the queue has applied is what operations returned, the *)
(* commitments have allocated what the queue knows of, and whatever is     *)
(* found in the system is committed to.                                    *)
THEOREM CommitmentsCorrect == LinSpec => []CommitmentsHold
<1>1. LinInv => CommitmentsHold
  <2>. SUFFICES ASSUME LinInv PROVE CommitmentsHold
    OBVIOUS
  <2>1. \A r \in requests : r.type = "Write" => Pair(r) \in Pairs
    BY DEF Pairs
  <2>2. \A r \in requests : Pair(r).timestamp = r.timestamp
    BY DEF Pair
  <2>. QED  BY <2>1, <2>2
            DEF LinInv, CommitmentsHold, Allocations, PairsAllocated, LQ!known_timestamps
<1>. QED  BY <1>1, LinInvCorrect, PTL

(* Every call that a client makes of the queue meets its precondition.     *)
LEMMA QueueStep ==
  ASSUME LinInv, [LinNext]_linvars
  PROVE  [LQ!Next]_(LQ!vars)
<1>1. UNCHANGED ghost => UNCHANGED LQ!vars
  BY DEF ghost, queue, LQ!vars, LQ!writes, LQ!reads
<1>2. \A c \in Clients : LinWriteFailsSecond(c) => UNCHANGED LQ!vars
  BY DEF LinWriteFailsSecond, queue, LQ!vars, LQ!writes, LQ!reads
<1>. QED  BY <1>1, <1>2, LinStepKinds, ReadInvokeEffect, WriteInvokeEffect,
             ReadReturnsEffect, WriteReturnsEffect, WriteExecuteEffect,
             ReadFailsEffect, WriteFailsFirstEffect

THEOREM QueueUsedWell == LinSpec => QueueIsUsedWell
<1>1. LinInit => LQ!Init
  BY DEF LinInit
<1>. QED  BY <1>1, QueueStep, LinInvCorrect, PTL DEF LinSpec, QueueIsUsedWell, LQ!Spec

-----------------------------------------------------------------------------
(***************************************************************************)
(* The calls that the clients make of the commitments.                     *)
(***************************************************************************)
Uncommitted == {ts \in pending_writes : ~ write_token_map[ts].committed}

LEMMA CountersBound ==
  ASSUME NEW c \in Clients, NEW n \in Nat, n <= MaxWrites[c]
  PROVE  n \in UNION {0..MaxWrites[d] : d \in Clients}
<1>1. n \in 0..MaxWrites[c]
  BY BoundsAssumption
<1>. QED  BY <1>1

(* Nothing happens, or allocations are persisted.                          *)
LEMMA CommitmentsPersist ==
  ASSUME LinInv, UNCHANGED <<allocated, client_ctr>>, Uncommitted' \subseteq Uncommitted
  PROVE  LC!Next
<1>1. Uncommitted \subseteq DOMAIN allocated /\ Uncommitted \subseteq ProphesiedTimestamps
  BY QueueFacts DEF Uncommitted, LinInv, Allocations
<1>2. PICK S \in SUBSET ProphesiedTimestamps : S = Uncommitted \ Uncommitted'
  BY <1>1
<1>3. DOMAIN allocated' \ Uncommitted' = (DOMAIN allocated \ Uncommitted) \cup S
  BY <1>1, <1>2
<1>4. LC!persist(S)
  BY <1>1, <1>2, <1>3 DEF LC!persist, Uncommitted
<1>. QED  BY <1>4 DEF LC!Next

LEMMA CommitmentsAllocate ==
  ASSUME LinInv, NEW c \in Clients, NEW v \in Arguments, NEW n \in Prophecies,
         LinWriteInvoke(c, v, n)
  PROVE  LC!Next
<1>. DEFINE perm == client_ctr[c] + 1
<1>0. Registered(WriteToken(c, n), v)
  BY WriteInvokeWrites
<1>1. PICK ts : ts = WriteToken(c, n)
  OBVIOUS
<1>. USE DEF LinInv
<1>2. /\ client_ctr[c] < MaxWrites[c]
      /\ client_ctr' = [client_ctr EXCEPT ![c] = @ + 1]
  BY WriteInvokeEffect
<1>3. client_ctr \in [Clients -> Nat] /\ MaxWrites[c] \in Nat /\ 0 \notin Clients
  BY BoundsAssumption, ClientsAssumption DEF Inv, TypeOK
<1>4. perm \in UNION {0..MaxWrites[d] : d \in Clients} /\ client_ctr[c] < perm
  <2>1. perm \in Nat /\ perm <= MaxWrites[c] /\ client_ctr[c] < perm
    BY <1>2, <1>3
  <2>. QED  BY <2>1, CountersBound
<1>5. LC!Counted(c, perm)
  BY <1>2, <1>3, <1>4 DEF LC!Counted
<1>6. /\ ts \in ProphesiedTimestamps /\ v \in Values
      /\ ts.client_id = c /\ ts.client_ctr = client_ctr[c]
      /\ ts \notin DOMAIN allocated /\ ts \notin DOMAIN write_token_map
  BY <1>1, <1>2, WriteTokenFresh, ValuesAssumption
<1>7. pending_writes \subseteq DOMAIN write_token_map
  BY QueueFacts
<1>8. CASE UNCHANGED <<pending_writes, write_token_map, allocated>>
  <2>1. LC!return_permission(c, perm)
    BY <1>5, <1>8 DEF LC!return_permission
  <2>. QED  BY <1>4, <2>1 DEF LC!Next
<1>9. CASE /\ pending_writes' = pending_writes \cup {ts}
           /\ write_token_map'[ts] = [value |-> v, committed |-> FALSE]
           /\ \A t \in DOMAIN write_token_map : write_token_map'[t] = write_token_map[t]
           /\ allocated' = [t \in DOMAIN allocated \cup {ts} |->
                              IF t = ts THEN v ELSE allocated[t]]
  <2>1. Uncommitted' = Uncommitted \cup {ts}
    BY <1>6, <1>7, <1>9 DEF Uncommitted
  <2>2. DOMAIN allocated' = DOMAIN allocated \cup {ts}
    BY <1>9
  <2>3. DOMAIN allocated' \ Uncommitted' = DOMAIN allocated \ Uncommitted
    BY <1>6, <2>1, <2>2
  <2>4. LC!alloc_value(c, ts, v, perm)
    BY <1>3, <1>5, <1>6, <1>9, <2>3 DEF LC!alloc_value, Uncommitted
  <2>. QED  BY <1>4, <1>6, <2>4 DEF LC!Next
<1>10. \/ UNCHANGED <<pending_writes, write_token_map, allocated>>
       \/ /\ pending_writes' = pending_writes \cup {ts}
          /\ write_token_map'[ts] = [value |-> v, committed |-> FALSE]
          /\ \A t \in DOMAIN write_token_map : write_token_map'[t] = write_token_map[t]
          /\ allocated' = [t \in DOMAIN allocated \cup {ts} |->
                             IF t = ts THEN v ELSE allocated[t]]
  BY <1>0, <1>1 DEF Registered
<1>. QED  BY <1>8, <1>9, <1>10

LEMMA CommitmentsRemove ==
  ASSUME LinInv, NEW c \in Clients, GiveUp(c), LinWriteFailsFirst(c)
  PROVE  LC!Next
<1>. USE DEF LinInv
<1>1. /\ phase[c] = "get_timestamp" /\ Writes(c)
      /\ pending_writes' = pending_writes \ {token[c]}
      /\ \A t \in DOMAIN write_token_map \ {token[c]} :
           write_token_map'[t] = write_token_map[t]
      /\ \/ token[c] \notin pending_writes /\ UNCHANGED allocated
         \/ /\ token[c] \in pending_writes
            /\ allocated' = [t \in DOMAIN allocated \ {token[c]} |-> allocated[t]]
  BY WriteFailsFirstEffect
<1>2. UNCHANGED client_ctr
  BY GiveUpFrame
<1>3. pending_writes \subseteq DOMAIN write_token_map
  BY QueueFacts
<1>4. Uncommitted' = Uncommitted \ {token[c]}
  BY <1>1, <1>3 DEF Uncommitted
<1>5. CASE UNCHANGED allocated
  BY <1>2, <1>4, <1>5, CommitmentsPersist
<1>6. CASE /\ token[c] \in pending_writes
           /\ allocated' = [t \in DOMAIN allocated \ {token[c]} |-> allocated[t]]
  <2>1. token[c] \in Uncommitted /\ token[c] \in ProphesiedTimestamps
    BY <1>1, <1>3, <1>6 DEF Uncommitted, TokensHeld, Holds, WriterHolds
  <2>2. token[c] \in DOMAIN allocated
    BY <1>6 DEF Allocations
  <2>3. DOMAIN allocated' \ Uncommitted' = DOMAIN allocated \ Uncommitted
    BY <1>4, <1>6, <2>1
  <2>4. LC!remove_allocation(token[c])
    BY <1>2, <1>6, <2>1, <2>2, <2>3 DEF LC!remove_allocation, Uncommitted
  <2>. QED  BY <2>1, <2>4 DEF LC!Next
<1>. QED  BY <1>1, <1>5, <1>6

LEMMA CommitmentsStep ==
  ASSUME LinInv, [LinNext]_linvars
  PROVE  LC!Next
<1>. USE DEF LinInv
<1>1. CASE Quiet /\ UNCHANGED ghost
  <2>1. UNCHANGED <<allocated, pending_writes, write_token_map>>
    BY <1>1 DEF ghost, queue
  <2>. QED  BY <1>1, <2>1, QuietFrame, CommitmentsPersist DEF Uncommitted
<1>2. ASSUME NEW c \in Clients, NEW value \in Values, LinReadInvoke(c, value)
      PROVE  LC!Next
  <2>1. UNCHANGED <<allocated, client_ctr, pending_writes, write_token_map>>
    BY <1>2, ReadInvokeEffect
  <2>. QED  BY <2>1, CommitmentsPersist DEF Uncommitted
<1>3. ASSUME NEW c \in Clients, NEW max, Returns(c, max),
             [Next]_vars, [LQ!Next]_(LQ!vars)
      PROVE  LC!Next
  <2>1. UNCHANGED <<allocated, client_ctr>>
    BY <1>3, LeavesFrame DEF Returns
  <2>2. /\ pending_writes' \subseteq pending_writes
        /\ DOMAIN write_token_map' = DOMAIN write_token_map \ UsedWrites(c)
        /\ \A t \in DOMAIN write_token_map' : write_token_map'[t] = write_token_map[t]
    BY <1>3, ReturnsApply DEF Applied
  <2>3. pending_writes' \subseteq DOMAIN write_token_map'
    BY <1>3, ReturnsKeep
  <2>. QED  BY <2>1, <2>2, <2>3, CommitmentsPersist DEF Uncommitted
<1>4. ASSUME NEW c \in Clients, LinWriteExecute(c)
      PROVE  LC!Next
  <2>1. /\ UNCHANGED <<allocated, client_ctr, pending_writes>>
        /\ write_token_map' = [write_token_map EXCEPT ![token[c]].committed = TRUE]
    BY <1>4, WriteExecuteEffect
  <2>2. /\ pending_writes \subseteq DOMAIN write_token_map
        /\ write_token_map \in
             [DOMAIN write_token_map -> [value : Values, committed : BOOLEAN]]
    BY QueueFacts
  <2>3. \A t \in DOMAIN write_token_map :
          write_token_map[t].committed => write_token_map'[t].committed
    BY <2>1, <2>2
  <2>. QED  BY <2>1, <2>2, <2>3, CommitmentsPersist DEF Uncommitted
<1>5. ASSUME NEW c \in Clients, GiveUp(c), LinReadFails(c) \/ LinWriteFailsSecond(c)
      PROVE  LC!Next
  <2>1. UNCHANGED <<allocated, pending_writes, write_token_map>>
    BY <1>5, ReadFailsEffect DEF LinWriteFailsSecond, queue
  <2>. QED  BY <1>5, <2>1, GiveUpFrame, CommitmentsPersist DEF Uncommitted
<1>. QED  BY <1>1, <1>2, <1>3, <1>4, <1>5, LinStepKinds, CommitmentsAllocate,
             CommitmentsRemove, ReadReturnsEffect, WriteReturnsEffect

(* Every call that a client makes of the commitments meets its             *)
(* precondition: it allocates no timestamp twice, however many of its      *)
(* writes failed before, and takes back none that was committed to.        *)
THEOREM CommitmentsUsedWell == LinSpec => CommitmentsAreUsedWell
<1>1. LinInit => LC!LoggedIn(Clients)
  <2>. SUFFICES ASSUME LinInit PROVE LC!LoggedIn(Clients)
    OBVIOUS
  <2>1. /\ allocated = [t \in {TsDefault} |-> None] /\ pending_writes = {}
        /\ client_ctr = [c \in Clients |-> 0]
    BY DEF LinInit, Init, LQ!Init
  <2>2. LC!TsDefault = TsDefault
    BY DEF LC!TsDefault, TsDefault
  <2>3. DOMAIN allocated \ {ts \in pending_writes : ~ write_token_map[ts].committed}
          = {TsDefault}
    BY <2>1
  <2>4. [c \in {0} \cup Clients |-> IF c = 0 THEN 1 ELSE client_ctr[c]]
          = [c \in {0} \cup Clients |-> IF c = 0 THEN 1 ELSE 0]
    BY <2>1
  <2>. QED  BY <2>1, <2>2, <2>3, <2>4 DEF LC!LoggedIn
<1>2. LinInv /\ [LinNext]_linvars => [LC!Next]_(LC!comvars)
  BY CommitmentsStep
<1>. QED  BY <1>1, <1>2, LinInvCorrect, PTL DEF LinSpec, CommitmentsAreUsedWell
-----------------------------------------------------------------------------
(***************************************************************************)
(* The operations are those of one atomic register.                        *)
(***************************************************************************)
LEMMA Maps ==
  /\ DOMAIN Kind = Clients /\ DOMAIN Effected = Clients /\ DOMAIN Result = Clients
  /\ \A c \in Clients : /\ Reading(c) => Kind[c] = "read"
                        /\ Writes(c) => Kind[c] = "write"
                        /\ ~ Reading(c) /\ ~ Writes(c) => Kind[c] = "idle"
                        /\ Effected[c] = Done(c)
                        /\ Reading(c) /\ Done(c) => Result[c] = token[c].value
                        /\ ~ (Reading(c) /\ Done(c)) => Result[c] = None
<1>1. \A c \in Clients : ~ (Reading(c) /\ Writes(c))
  BY DEF Reading, Writes
<1>. QED  BY <1>1 DEF Kind, Effected, Result

(* The roles that a step gives to client c, and what it leaves alone.      *)
LEMMA MapsStep ==
  ASSUME NEW c \in Clients,
         \A d \in Clients \ {c} : /\ Reading(d)' <=> Reading(d)
                                  /\ Writes(d)' <=> Writes(d)
                                  /\ Done(d)' <=> Done(d)
                                  /\ Reading(d) => token'[d] = token[d]
  PROVE  /\ Kind' = [Kind EXCEPT ![c] = Kind'[c]]
         /\ Effected' = [Effected EXCEPT ![c] = Done(c)']
         /\ Result' = [Result EXCEPT ![c] = Result'[c]]
<1>1. \A d \in Clients \ {c} : /\ Kind'[d] = Kind[d] /\ Effected'[d] = Effected[d]
                               /\ Result'[d] = Result[d]
  <2>. SUFFICES ASSUME NEW d \in Clients \ {c}
                PROVE  /\ Kind'[d] = Kind[d] /\ Effected'[d] = Effected[d]
                       /\ Result'[d] = Result[d]
    OBVIOUS
  <2>1. Kind'[d] = Kind[d]
    BY DEF Kind
  <2>2. Effected'[d] = Effected[d]
    <3>1. Done(d)' = Done(d)
      BY DEF Done
    <3>. QED  BY <3>1 DEF Effected
  <2>3. Result'[d] = Result[d]
    BY DEF Result
  <2>. QED  BY <2>1, <2>2, <2>3
<1>2. Effected'[c] = Done(c)'
  BY DEF Effected
<1>3. /\ Kind = [d \in Clients |-> Kind[d]] /\ Effected = [d \in Clients |-> Effected[d]]
      /\ Result = [d \in Clients |-> Result[d]]
  BY DEF Kind, Effected, Result
<1>4. /\ Kind' = [d \in Clients |-> Kind'[d]] /\ Effected' = [d \in Clients |-> Effected'[d]]
      /\ Result' = [d \in Clients |-> Result'[d]]
  BY DEF Kind, Effected, Result
<1>5. Kind' = [Kind EXCEPT ![c] = Kind'[c]]
  BY <1>1, <1>3, <1>4
<1>6. Effected' = [Effected EXCEPT ![c] = Done(c)']
  BY <1>1, <1>2, <1>3, <1>4
<1>7. Result' = [Result EXCEPT ![c] = Result'[c]]
  BY <1>1, <1>3, <1>4
<1>. QED  BY <1>5, <1>6, <1>7

LEMMA OrphanFacts ==
  ASSUME LinInv
  PROVE  /\ Orphaned \subseteq pending_writes
         /\ \A t \in pending_writes :
              t \in Orphaned <=> \A c \in Clients : Writes(c) => token[c] # t
         /\ pending_writes \cap completed_writes = {}
         /\ pending_writes \subseteq DOMAIN write_token_map
         /\ \A c \in Clients : ~ Writes(c) => token[c] \notin pending_writes
<1>1. /\ pending_writes \subseteq ProphesiedTimestamps
      /\ pending_writes \cap completed_writes = {}
      /\ pending_writes \subseteq DOMAIN write_token_map
  BY QueueFacts DEF LinInv
<1>2. \A c \in Clients : ~ Writes(c) => token[c] \notin pending_writes
  BY <1>1, TokenKinds
<1>. QED  BY <1>1, <1>2 DEF Orphaned

LEMMA ReadersTokens ==
  LinInv => \A d \in Clients : ~ Writes(d) => token[d] \notin pending_writes
BY OrphanFacts

LEMMA OrphansKept ==
  ASSUME Orphaned' = Orphaned,
         \A t \in Orphaned : write_token_map'[t].value = write_token_map[t].value
  PROVE  Orphans' = Orphans
BY DEF Orphans

(* Steps that the register does not see. *)
LEMMA QuietStutters ==
  ASSUME LinInv, Quiet, UNCHANGED ghost
  PROVE  UNCHANGED LR!vars
<1>1. UNCHANGED new_value /\ \A d \in Clients : SameRole(d)
  BY QuietFrame
<1>2. UNCHANGED <<pending_writes, completed_writes, write_token_map, completed_reads,
                  register, token, outcome>>
  BY DEF ghost, queue
<1>3. \A d \in Clients : /\ Reading(d)' <=> Reading(d)
                         /\ Writes(d)' <=> Writes(d)
                         /\ Done(d)' = Done(d)
  BY <1>1, <1>2 DEF SameRole, Reading, Writes, Done
<1>4. UNCHANGED <<Kind, Effected, Result>>
  BY <1>2, <1>3 DEF Kind, Effected, Result
<1>5. UNCHANGED Orphans
  BY <1>2 DEF Orphans, Orphaned
<1>. QED  BY <1>1, <1>2, <1>4, <1>5 DEF LR!vars

LEMMA WriteExecuteStutters ==
  ASSUME LinInv, NEW c \in Clients, LinWriteExecute(c)
  PROVE  UNCHANGED LR!vars
<1>1. /\ Others(c)
      /\ phase[c] = "get_timestamp" /\ phase' = [phase EXCEPT ![c] = "write"]
      /\ UNCHANGED <<new_value, token, outcome>>
      /\ token[c] \in DOMAIN write_token_map
      /\ write_token_map' = [write_token_map EXCEPT ![token[c]].committed = TRUE]
      /\ UNCHANGED <<pending_writes, completed_writes, completed_reads, register>>
  BY WriteExecuteEffect
<1>2. \A d \in Clients : /\ Reading(d)' <=> Reading(d)
                         /\ Writes(d)' <=> Writes(d)
  BY <1>1 DEF Reading, Writes, LinInv, Inv, TypeOK
<1>3. \A d \in Clients : Done(d)' = Done(d)
  BY <1>1, <1>2 DEF Done
<1>4. UNCHANGED <<Kind, Effected, Result>>
  BY <1>1, <1>2, <1>3 DEF Kind, Effected, Result
<1>5. \A t \in DOMAIN write_token_map :
        write_token_map'[t].value = write_token_map[t].value
  <2>1. write_token_map \in
          [DOMAIN write_token_map -> [value : Values, committed : BOOLEAN]]
    BY QueueFacts DEF LinInv
  <2>. QED  BY <1>1, <2>1
<1>6. UNCHANGED Orphaned
  BY <1>1 DEF Orphaned
<1>7. UNCHANGED Orphans
  BY <1>5, <1>6, OrphanFacts DEF Orphans
<1>. QED  BY <1>1, <1>4, <1>7 DEF LR!vars
LEMMA InvokesRead ==
  ASSUME LinInv, NEW c \in Clients, NEW value \in Values, LinReadInvoke(c, value)
  PROVE  LR!InvokeRead(c)
<1>1. /\ Others(c) /\ phase[c] = "idle" /\ phase' = [phase EXCEPT ![c] = "get"]
      /\ UNCHANGED <<new_value, pending_writes, completed_writes, write_token_map, register>>
  BY ReadInvokeEffect
<1>2. PICK k : /\ k.value = value /\ k \notin DOMAIN read_token_map /\ Take(c, k)
               /\ DOMAIN completed_reads' =
                    IF value = register THEN DOMAIN completed_reads \cup {k}
                                        ELSE DOMAIN completed_reads
  BY ReadInvokeReads
<1>3. /\ token'[c] = k /\ \A d \in Clients \ {c} : token'[d] = token[d]
      /\ k \notin DOMAIN completed_reads
  BY <1>2, ReadFacts DEF Take, LinInv, TokensHeld
<1>4. /\ ~ Reading(c) /\ ~ Writes(c) /\ Reading(c)' /\ ~ Writes(c)'
      /\ \A d \in Clients \ {c} : /\ Reading(d)' <=> Reading(d)
                                  /\ Writes(d)' <=> Writes(d)
  BY <1>1 DEF Reading, Writes, LinInv, Inv, TypeOK
<1>5. \A d \in Clients \ {c} : Done(d)' <=> Done(d)
  <2>1. \A d \in Clients : Reading(d) => token[d] # k
    BY <1>2 DEF LinInv, TokensHeld, Holds, ReaderHolds
  <2>. QED  BY <1>1, <1>2, <1>3, <1>4, <2>1 DEF Done
<1>6. ~ Done(c) /\ (Done(c)' <=> value = register)
  BY <1>2, <1>3, <1>4 DEF Done
<1>7. /\ Kind[c] = "idle" /\ Kind' = [Kind EXCEPT ![c] = "read"]
      /\ Effected' = [Effected EXCEPT ![c] = Done(c)']
      /\ Result' = [Result EXCEPT ![c] = Result'[c]]
  <2>1. Kind[c] = "idle" /\ Kind'[c] = "read"
    BY <1>4 DEF Kind
  <2>. QED  BY <1>3, <1>4, <1>5, <2>1, MapsStep
<1>8. \/ UNCHANGED <<Effected, Result>>
      \/ /\ Effected' = [Effected EXCEPT ![c] = TRUE]
         /\ Result' = [Result EXCEPT ![c] = register]
  <2>1. CASE value = register
    <3>1. Done(c)' = TRUE
      BY <1>6, <2>1 DEF Done
    <3>2. Result'[c] = register
      BY <1>2, <1>3, <1>4, <1>6, <2>1 DEF Result
    <3>. QED  BY <1>7, <3>1, <3>2
  <2>2. CASE value # register
    <3>1. Done(c)' = Effected[c] /\ Result'[c] = Result[c]
      BY <1>4, <1>6, <2>2 DEF Done, Effected, Result
    <3>2. DOMAIN Effected = Clients /\ DOMAIN Result = Clients
      BY Maps
    <3>. QED  BY <1>7, <3>1, <3>2 DEF Effected, Result
  <2>. QED  BY <2>1, <2>2
<1>9. UNCHANGED Orphans
  <2>1. k \notin pending_writes
    <3>1. LinInv'
      BY ReadInvokeInv
    <3>2. (\A d \in Clients : ~ Writes(d) => token[d] \notin pending_writes)'
      BY <3>1, ReadersTokens, PTL
    <3>. QED  BY <1>1, <1>3, <1>4, <3>2
  <2>2. token[c] \notin pending_writes
    BY <1>4, OrphanFacts
  <2>3. Orphaned' = Orphaned
    BY <1>1, <1>3, <2>1, <2>2 DEF Orphaned
  <2>. QED  BY <1>1, <2>3 DEF Orphans
<1>10. outcome' = [outcome EXCEPT ![c] = {}]
  BY DEF LinReadInvoke, Outcome
<1>. QED  BY <1>1, <1>7, <1>8, <1>9, <1>10 DEF LR!InvokeRead

LEMMA InvokesWrite ==
  ASSUME LinInv, NEW c \in Clients, NEW v \in Arguments, NEW n \in Prophecies,
         LinWriteInvoke(c, v, n)
  PROVE  LR!InvokeWrite(c, v)
<1>1. PICK ts : ts = WriteToken(c, n)
  OBVIOUS
<1>2. /\ Others(c) /\ phase[c] = "idle" /\ phase' = [phase EXCEPT ![c] = "get_timestamp"]
      /\ client_ctr[c] < MaxWrites[c]
      /\ new_value' = [new_value EXCEPT ![c] = v]
      /\ Take(c, ts)
      /\ UNCHANGED <<completed_writes, completed_reads, register>>
  BY <1>1, WriteInvokeEffect
<1>3. \/ UNCHANGED <<pending_writes, write_token_map>>
      \/ /\ pending_writes' = pending_writes \cup {ts}
         /\ \A t \in DOMAIN write_token_map : write_token_map'[t] = write_token_map[t]
  <2>1. Registered(WriteToken(c, n), v)
    BY WriteInvokeWrites
  <2>. QED  BY <1>1, <2>1 DEF Registered
<1>4. ts \notin DOMAIN write_token_map
  BY <1>1, <1>2, WriteTokenFresh
<1>5. token'[c] = ts /\ \A d \in Clients \ {c} : token'[d] = token[d]
  BY <1>2 DEF Take, LinInv, TokensHeld
<1>6. /\ ~ Reading(c) /\ ~ Writes(c) /\ ~ Reading(c)' /\ Writes(c)'
      /\ \A d \in Clients \ {c} : /\ Reading(d)' <=> Reading(d)
                                  /\ Writes(d)' <=> Writes(d)
  BY <1>2 DEF Reading, Writes, LinInv, Inv, TypeOK
<1>7. \A d \in Clients \ {c} : Done(d)' <=> Done(d)
  BY <1>2, <1>5, <1>6 DEF Done
<1>8. Done(c)' = Effected[c] /\ Result'[c] = Result[c]
  <2>1. ts \notin completed_writes
    BY <1>4, QueueFacts DEF LinInv
  <2>2. ~ Done(c) /\ ~ Done(c)'
    BY <1>2, <1>5, <1>6, <2>1 DEF Done
  <2>. QED  BY <1>6, <2>2 DEF Done, Effected, Result
<1>9. /\ Kind[c] = "idle" /\ Kind' = [Kind EXCEPT ![c] = "write"]
      /\ UNCHANGED <<Effected, Result>>
  <2>1. Kind[c] = "idle" /\ Kind'[c] = "write"
    BY <1>6 DEF Kind
  <2>2. /\ Kind' = [Kind EXCEPT ![c] = Kind'[c]]
        /\ Effected' = [Effected EXCEPT ![c] = Done(c)']
        /\ Result' = [Result EXCEPT ![c] = Result'[c]]
    BY <1>5, <1>6, <1>7, MapsStep
  <2>3. [Effected EXCEPT ![c] = Effected[c]] = Effected
    BY DEF Effected
  <2>4. [Result EXCEPT ![c] = Result[c]] = Result
    BY DEF Result
  <2>. QED  BY <1>8, <2>1, <2>2, <2>3, <2>4
<1>10. UNCHANGED Orphans
  <2>1. token[c] \notin pending_writes /\ ts \notin pending_writes
        /\ pending_writes \subseteq DOMAIN write_token_map
    BY <1>4, <1>6, OrphanFacts
  <2>2. Orphaned' = Orphaned
    BY <1>3, <1>5, <2>1 DEF Orphaned
  <2>. QED  BY <1>3, <2>1, <2>2 DEF Orphans, Orphaned
<1>11. outcome' = [outcome EXCEPT ![c] = {}]
  BY DEF LinWriteInvoke, Outcome
<1>. QED  BY <1>2, <1>9, <1>10, <1>11 DEF LR!InvokeWrite
(* A client that leaves is idle, and the others do what they did.          *)
LEMMA LeavesRoles ==
  ASSUME LinInv, NEW c \in Clients, Leaves(c), Take(c, TsDefault)
  PROVE  /\ new_value' = [new_value EXCEPT ![c] = None]
         /\ token'[c] = TsDefault
         /\ \A d \in Clients \ {c} : token'[d] = token[d]
         /\ ~ Reading(c)' /\ ~ Writes(c)' /\ ~ Done(c)'
         /\ \A d \in Clients \ {c} : /\ Reading(d)' <=> Reading(d)
                                     /\ Writes(d)' <=> Writes(d)
         /\ Kind' = [Kind EXCEPT ![c] = "idle"]
         /\ TsDefault \notin pending_writes
<1>1. /\ Others(c) /\ phase'[c] = "idle"
      /\ new_value' = [new_value EXCEPT ![c] = None]
  BY LeavesFrame
<1>2. token'[c] = TsDefault /\ \A d \in Clients \ {c} : token'[d] = token[d]
  BY DEF Take, LinInv, TokensHeld
<1>3. /\ ~ Reading(c)' /\ ~ Writes(c)'
      /\ \A d \in Clients \ {c} : /\ Reading(d)' <=> Reading(d)
                                  /\ Writes(d)' <=> Writes(d)
  BY <1>1 DEF Others, Reading, Writes
<1>4. ~ Done(c)'
  BY <1>3 DEF Done
<1>5. Kind' = [Kind EXCEPT ![c] = "idle"]
  <2>1. Kind'[c] = "idle"
    BY <1>3 DEF Kind
  <2>2. \A d \in Clients \ {c} : Kind'[d] = Kind[d]
    BY <1>3 DEF Kind
  <2>3. /\ Kind = [d \in Clients |-> Kind[d]]
        /\ Kind' = [d \in Clients |-> Kind'[d]]
    BY DEF Kind
  <2>. QED  BY <2>1, <2>2, <2>3
<1>6. TsDefault \notin pending_writes
  BY QueueFacts, ProphesiedType DEF LinInv
<1>. QED  BY <1>1, <1>2, <1>3, <1>4, <1>5, <1>6

(* The operation of c fails; what the others do is as it was.              *)
LEMMA FailsMaps ==
  ASSUME LinInv, NEW c \in Clients, GiveUp(c), Take(c, TsDefault),
         \A d \in Clients \ {c} : Done(d)' <=> Done(d)
  PROVE  /\ LR!Ends(c)
         /\ Effected' = [Effected EXCEPT ![c] = FALSE]
         /\ Result' = [Result EXCEPT ![c] = None]
<1>1. Leaves(c)
  BY GiveUpFrame
<1>2. phase[c] # "idle"
  BY DEF GiveUp
<1>3. Kind[c] # "idle"
  BY <1>2 DEF Kind, Reading, Writes, LinInv, Inv, TypeOK, Phases
<1>4. Done(c)' = FALSE /\ Result'[c] = None
  BY <1>1, LeavesRoles DEF Done, Result
<1>5. /\ Effected' = [Effected EXCEPT ![c] = Done(c)']
      /\ Result' = [Result EXCEPT ![c] = Result'[c]]
  BY <1>1, LeavesRoles, MapsStep
<1>. QED  BY <1>1, <1>3, <1>4, <1>5, LeavesRoles DEF LR!Ends

LEMMA FailsRead ==
  ASSUME LinInv, NEW c \in Clients, GiveUp(c), LinReadFails(c), Take(c, TsDefault),
         UNCHANGED outcome
  PROVE  LR!Fail(c)
<1>1. /\ Reading(c) /\ ~ Writes(c)
      /\ DOMAIN completed_reads' = DOMAIN completed_reads \ {token[c]}
      /\ UNCHANGED <<pending_writes, completed_writes, write_token_map, register>>
  BY ReadFailsEffect
<1>2. Leaves(c)
  BY GiveUpFrame
<1>3. \A d \in Clients \ {c} : Done(d)' <=> Done(d)
  <2>1. \A d \in Clients \ {c} : Reading(d) => token[d] # token[c]
    BY <1>1 DEF LinInv, TokensHeld
  <2>. QED  BY <1>1, <1>2, <2>1, LeavesRoles DEF Done
<1>4. UNCHANGED Orphans
  <2>1. token[c] \notin pending_writes
    BY <1>1, OrphanFacts
  <2>2. Orphaned' = Orphaned
    BY <1>1, <1>2, <2>1, LeavesRoles DEF Orphaned
  <2>. QED  BY <1>1, <2>2 DEF Orphans
<1>. QED  BY <1>1, <1>3, <1>4, FailsMaps DEF LR!Fail

LEMMA FailsFirst ==
  ASSUME LinInv, NEW c \in Clients, GiveUp(c), LinWriteFailsFirst(c), Take(c, TsDefault),
         UNCHANGED outcome
  PROVE  LR!Fail(c)
<1>1. /\ Writes(c) /\ ~ Reading(c)
      /\ UNCHANGED <<completed_reads, register>>
      /\ pending_writes' = pending_writes \ {token[c]}
      /\ completed_writes' = completed_writes \ {token[c]}
      /\ \A t \in DOMAIN write_token_map \ {token[c]} :
           write_token_map'[t] = write_token_map[t]
  BY WriteFailsFirstEffect
<1>2. Leaves(c)
  BY GiveUpFrame
<1>3. \A d \in Clients \ {c} : Done(d)' <=> Done(d)
  <2>1. \A d \in Clients \ {c} : Writes(d) => token[d] # token[c]
    BY <1>1, TokenKinds
  <2>. QED  BY <1>1, <1>2, <2>1, LeavesRoles DEF Done
<1>4. UNCHANGED Orphans
  <2>1. Orphaned' = Orphaned
    BY <1>1, <1>2, LeavesRoles DEF Orphaned
  <2>2. \A t \in Orphaned : write_token_map'[t].value = write_token_map[t].value
    <3>1. Orphaned \subseteq DOMAIN write_token_map \ {token[c]}
      BY OrphanFacts DEF Orphaned
    <3>. QED  BY <1>1, <3>1
  <2>. QED  BY <2>1, <2>2, OrphansKept
<1>. QED  BY <1>1, <1>3, <1>4, FailsMaps DEF LR!Fail

(* What is left behind is an orphan, unless it has taken effect. *)
LEMMA FailsSecond ==
  ASSUME LinInv, NEW c \in Clients, GiveUp(c), LinWriteFailsSecond(c), Take(c, TsDefault),
         UNCHANGED outcome
  PROVE  LR!Fail(c)
<1>1. /\ phase[c] = "write" /\ Writes(c) /\ ~ Reading(c)
      /\ UNCHANGED <<pending_writes, completed_writes, write_token_map, completed_reads,
                     register>>
  BY DEF LinWriteFailsSecond, queue, Reading, Writes
<1>2. Leaves(c)
  BY GiveUpFrame
<1>3. \A d \in Clients \ {c} : Done(d)' <=> Done(d)
  BY <1>1, <1>2, LeavesRoles DEF Done
<1>4. CASE token[c] \notin pending_writes
  <2>1. Orphaned' = Orphaned
    BY <1>1, <1>2, <1>4, LeavesRoles DEF Orphaned
  <2>2. UNCHANGED Orphans
    BY <1>1, <2>1 DEF Orphans
  <2>. QED  BY <1>1, <1>3, <2>2, FailsMaps DEF LR!Fail
<1>5. CASE token[c] \in pending_writes
  <2>. DEFINE o == [timestamp |-> token[c], value |-> write_token_map[token[c]].value]
  <2>1. token[c] \notin Orphaned /\ Orphaned' = Orphaned \cup {token[c]}
    <3>1. \A d \in Clients \ {c} : token[d] # token[c]
      BY <1>1, <1>5, TokenKinds, OrphanFacts
    <3>. QED  BY <1>1, <1>2, <1>5, <3>1, LeavesRoles DEF Orphaned
  <2>2. Orphans' = Orphans \cup {o}
    BY <1>1, <2>1 DEF Orphans
  <2>3. o \notin Orphans
    BY <2>1 DEF Orphans
  <2>4. o.value = new_value[c]
    <3>1. token[c] \in DOMAIN write_token_map
      BY <1>5, OrphanFacts
    <3>. QED  BY <1>1, <3>1 DEF LinInv, TokensHeld, Holds, WriterHolds
  <2>5. Kind[c] = "write" /\ ~ Effected[c]
    <3>1. ~ Done(c)
      BY <1>1, <1>5, OrphanFacts DEF Done
    <3>. QED  BY <1>1, <3>1 DEF Kind, Effected
  <2>. HIDE DEF o
  <2>6. \E p \in Orphans' \ Orphans : Orphans' = Orphans \cup {p} /\ p.value = new_value[c]
    BY <2>2, <2>3, <2>4
  <2>. QED  BY <1>1, <1>3, <2>5, <2>6, FailsMaps DEF LR!Fail
<1>. QED  BY <1>4, <1>5
(* The writes, the reads and the orphans that take effect when an          *)
(* operation returns with max.                                             *)
WritersOf(P) == {d \in Clients : Writes(d) /\ token[d] \in P}

ReadersOf(P) == {d \in Clients : Reading(d) /\ token[d] \in LQ!ReadsOf(P)}

OrphansOf(P) == {o \in Orphans : o.timestamp \in P}

(* Each value that the queue applies is a writer's or an orphan's.         *)
LEMMA AppliedIsWritten ==
  ASSUME LinInv, NEW P, P \subseteq pending_writes, NEW t \in P
  PROVE  /\ write_token_map[t].value \in LR!Written(WritersOf(P), OrphansOf(P))
         /\ WritersOf(P) # {} \/ OrphansOf(P) # {}
<1>1. t \in pending_writes /\ t \in DOMAIN write_token_map
  BY OrphanFacts
<1>2. CASE t \in Orphaned
  <2>. DEFINE o == [timestamp |-> t, value |-> write_token_map[t].value]
  <2>1. o \in Orphans
    BY <1>2 DEF Orphans
  <2>2. o \in OrphansOf(P) /\ o.value = write_token_map[t].value
    BY <2>1 DEF OrphansOf
  <2>. HIDE DEF o
  <2>. QED  BY <2>2 DEF LR!Written
<1>3. CASE t \notin Orphaned
  <2>1. PICK d \in Clients : Writes(d) /\ token[d] = t
    BY <1>1, <1>3, OrphanFacts
  <2>2. new_value[d] = write_token_map[t].value
    BY <1>1, <2>1 DEF LinInv, TokensHeld, Holds, WriterHolds
  <2>3. d \in WritersOf(P)
    BY <2>1 DEF WritersOf
  <2>. QED  BY <2>2, <2>3 DEF LR!Written
<1>. QED  BY <1>2, <1>3

LEMMA ReadIsWritten ==
  ASSUME LinInv, NEW P, P \subseteq pending_writes, NEW k \in LQ!ReadsOf(P)
  PROVE  k.value \in LR!Written(WritersOf(P), OrphansOf(P))
<1>1. PICK t \in P : write_token_map[t].value = k.value
  BY DEF LQ!ReadsOf, LQ!Writing
<1>. QED  BY <1>1, AppliedIsWritten

LEMMA ReturnsTakeEffect ==
  ASSUME LinInv, NEW c \in Clients, NEW max, Returns(c, max), NEW P,
         P = LQ!PendingUpTo(max),
         [Next]_vars, [LQ!Next]_(LQ!vars),
         Writes(c) => token[c] \notin pending_writes \ P
  PROVE  LR!TakeEffect(WritersOf(P), ReadersOf(P), OrphansOf(P), {c})
<1>. DEFINE W == WritersOf(P)
            R == ReadersOf(P)
            O == OrphansOf(P)
<1>1. /\ P \subseteq pending_writes
      /\ pending_writes' = pending_writes \ P
      /\ completed_writes' = (completed_writes \cup P) \ UsedWrites(c)
      /\ DOMAIN completed_reads' =
           (DOMAIN completed_reads \cup LQ!ReadsOf(P)) \ UsedReads(c)
      /\ \A t \in DOMAIN write_token_map \ UsedWrites(c) :
           write_token_map'[t] = write_token_map[t]
      /\ \/ P = {} /\ register' = register
         \/ max \in P /\ register' = write_token_map[max].value
  BY ReturnsApply DEF Applied
<1>2. Leaves(c) /\ Take(c, TsDefault)
  BY DEF Returns
<1>3. \A d \in W : Kind[d] = "write" /\ ~ Effected[d]
  BY <1>1, OrphanFacts DEF WritersOf, Done, Kind, Effected, Reading, Writes
<1>4. \A d \in R : Kind[d] = "read" /\ ~ Effected[d]
  <2>1. LQ!ReadsOf(P) \cap DOMAIN completed_reads = {}
    BY ReadFacts DEF LQ!ReadsOf, LinInv
  <2>. QED  BY <2>1 DEF ReadersOf, Done, Kind, Effected, Reading, Writes
<1>5. register' \in IF W = {} /\ O = {} THEN {register} ELSE LR!Written(W, O)
  <2>1. CASE P = {}
    <3>1. W = {} /\ O = {}
      BY <2>1 DEF WritersOf, OrphansOf
    <3>. QED  BY <1>1, <2>1, <3>1
  <2>2. CASE max \in P /\ register' = write_token_map[max].value
    BY <1>1, <2>2, AppliedIsWritten
  <2>. QED  BY <1>1, <2>1, <2>2
<1>6. Orphans' = Orphans \ O
  <2>1. Orphaned' = Orphaned \ P
    BY <1>1, <1>2, LeavesRoles, OrphanFacts DEF Orphaned
  <2>2. \A t \in Orphaned : write_token_map'[t].value = write_token_map[t].value
    <3>1. Orphaned \subseteq DOMAIN write_token_map \ UsedWrites(c)
      BY OrphanFacts DEF Orphaned, UsedWrites
    <3>. QED  BY <1>1, <3>1
  <2>. QED  BY <2>1, <2>2 DEF Orphans, OrphansOf
<1>7. \A d \in Clients \ {c} : Done(d)' <=> Done(d) \/ d \in W \cup R
  <2>. SUFFICES ASSUME NEW d \in Clients \ {c}
                PROVE  Done(d)' <=> Done(d) \/ d \in W \cup R
    OBVIOUS
  <2>1. token'[d] = token[d] /\ (Reading(d)' <=> Reading(d)) /\ (Writes(d)' <=> Writes(d))
    BY <1>2, LeavesRoles
  <2>2. Writes(d) => token[d] \notin UsedWrites(c)
    BY TokenKinds DEF UsedWrites
  <2>3. Reading(d) => token[d] \notin UsedReads(c)
    BY DEF UsedReads, LinInv, TokensHeld
  <2>4. ~ (Reading(d) /\ Writes(d))
    BY DEF Reading, Writes
  <2>. QED  BY <1>1, <2>1, <2>2, <2>3, <2>4 DEF Done, WritersOf, ReadersOf
<1>8. Effected' = [d \in Clients |-> d \notin {c} /\ (Effected[d] \/ d \in W \cup R)]
  <2>1. \A d \in Clients :
          Effected'[d] = (d \notin {c} /\ (Effected[d] \/ d \in W \cup R))
    <3>1. \A d \in Clients : Done(d)' = (d \notin {c} /\ (Done(d) \/ d \in W \cup R))
      BY <1>2, <1>7, LeavesRoles DEF Done
    <3>. QED  BY <3>1 DEF Effected
  <2>2. Effected' = [d \in Clients |-> Effected'[d]]
    BY DEF Effected
  <2>. QED  BY <2>1, <2>2
<1>9. \A d \in Clients :
        Result'[d] \in CASE d \in {c} -> {None}
                         [] d \in R \ {c} -> {register} \cup LR!Written(W, O)
                         [] OTHER     -> {Result[d]}
  <2>1. Result'[c] = None
    BY <1>2, LeavesRoles DEF Result
  <2>2. \A d \in R \ {c} : Result'[d] \in LR!Written(W, O)
    <3>. SUFFICES ASSUME NEW d \in R \ {c} PROVE Result'[d] \in LR!Written(W, O)
      OBVIOUS
    <3>1. d \in Clients /\ Reading(d) /\ token[d] \in LQ!ReadsOf(P)
      BY DEF ReadersOf
    <3>2. Reading(d)' /\ Done(d)' /\ token'[d] = token[d]
      BY <1>2, <1>7, <3>1, LeavesRoles
    <3>3. Result'[d] = token[d].value
      BY <3>1, <3>2 DEF Result
    <3>. QED  BY <1>1, <3>1, <3>3, ReadIsWritten
  <2>3. \A d \in Clients \ {c} : d \notin R => Result'[d] = Result[d]
    <3>. SUFFICES ASSUME NEW d \in Clients \ {c}, d \notin R
                  PROVE  Result'[d] = Result[d]
      OBVIOUS
    <3>1. token'[d] = token[d] /\ (Reading(d)' <=> Reading(d))
      BY <1>2, LeavesRoles
    <3>2. Reading(d) => (Done(d)' <=> Done(d))
      BY <1>7 DEF WritersOf, Reading, Writes
    <3>. QED  BY <3>1, <3>2 DEF Result
  <2>. HIDE DEF W, R, O
  <2>. SUFFICES ASSUME NEW d \in Clients
                PROVE  Result'[d] \in CASE d \in {c} -> {None}
                                        [] d \in R \ {c} -> {register} \cup LR!Written(W, O)
                                        [] OTHER     -> {Result[d]}
    OBVIOUS
  <2>4. CASE d = c
    BY <2>1, <2>4
  <2>5. CASE d \in R \ {c}
    BY <2>2, <2>5
  <2>6. CASE d # c /\ d \notin R
    BY <2>3, <2>6
  <2>. QED  BY <2>4, <2>5, <2>6
<1>. HIDE DEF W, R, O
<1>10. LR!TakeEffect(W, R, O, {c})
  BY <1>3, <1>4, <1>5, <1>6, <1>8, <1>9 DEF LR!TakeEffect, W, R
<1>. QED  BY <1>10 DEF W, R, O
LEMMA ReturnsEnds ==
  ASSUME LinInv, NEW c \in Clients, Leaves(c), Take(c, TsDefault), phase[c] # "idle"
  PROVE  LR!Ends(c)
<1>1. Kind[c] # "idle"
  BY DEF Kind, Reading, Writes, LinInv, Inv, TypeOK, Phases
<1>. QED  BY <1>1, LeavesRoles DEF LR!Ends

LEMMA ReturnsRead ==
  ASSUME LinInv, NEW c \in Clients, LinReadReturn(c)
  PROVE  LR!Next
<1>1. PICK max : max = max_resp[c].timestamp
  OBVIOUS
<1>2. /\ Reading(c) /\ ~ Writes(c)
      /\ Returns(c, max)
      /\ [Next]_vars /\ [LQ!Next]_(LQ!vars)
      /\ token[c].value = QueueValue(max)
      /\ token[c] \in DOMAIN read_token_map
      /\ TsLe(read_token_map[token[c]], max)
      /\ outcome' = [outcome EXCEPT ![c] = {token[c].value}]
  BY <1>1, ReadReturnsEffect
<1>3. PICK P : P = LQ!PendingUpTo(max)
  OBVIOUS
<1>4. P \subseteq pending_writes /\ max \in LQ!known_timestamps /\ LQ!QueueInv
  BY <1>2, <1>3, ReturnsApply DEF LinInv
<1>5. LR!TakeEffect(WritersOf(P), ReadersOf(P), OrphansOf(P), {c})
  BY <1>2, <1>3, ReturnsTakeEffect
<1>6. LR!Ends(c)
  BY <1>2, ReturnsEnds DEF Returns
<1>7. token[c] \in LQ!ReadsOf(P) \cup DOMAIN completed_reads
  BY <1>2, <1>3, <1>4, Extracted
<1>8. Effected[c] \/ c \in WritersOf(P) \cup ReadersOf(P)
  BY <1>2, <1>7 DEF Effected, Done, ReadersOf
<1>9. token[c].value \in LR!Outcomes(c, WritersOf(P), OrphansOf(P))
  <2>1. Kind[c] # "write"
    BY <1>2, Maps
  <2>2. CASE Effected[c]
    <3>1. Done(c) /\ Result[c] = token[c].value
      BY <1>2, <2>2 DEF Effected, Result
    <3>. QED  BY <2>1, <2>2, <3>1 DEF LR!Outcomes
  <2>3. CASE ~ Effected[c]
    <3>1. token[c] \in LQ!ReadsOf(P)
      BY <1>2, <1>7, <2>3 DEF Effected, Done
    <3>2. token[c].value \in LR!Written(WritersOf(P), OrphansOf(P))
      BY <1>4, <3>1, ReadIsWritten
    <3>. QED  BY <2>1, <2>3, <3>2 DEF LR!Outcomes
  <2>. QED  BY <2>2, <2>3
<1>10. LR!Return(c, WritersOf(P), ReadersOf(P), OrphansOf(P))
  BY <1>2, <1>5, <1>6, <1>8, <1>9 DEF LR!Return
<1>11. /\ WritersOf(P) \in SUBSET Clients /\ ReadersOf(P) \in SUBSET Clients
       /\ OrphansOf(P) \in SUBSET Orphans
  BY DEF WritersOf, ReadersOf, OrphansOf
<1>. QED  BY <1>10, <1>11 DEF LR!Next

LEMMA ReturnsWrite ==
  ASSUME LinInv, NEW c \in Clients, LinWriteReturn(c)
  PROVE  LR!Next
<1>1. PICK max : max = token[c]
  OBVIOUS
<1>2. /\ Writes(c) /\ ~ Reading(c)
      /\ Returns(c, max)
      /\ [Next]_vars /\ [LQ!Next]_(LQ!vars)
      /\ max \in DOMAIN write_token_map
      /\ outcome' = [outcome EXCEPT ![c] = {new_value[c]}]
  BY <1>1, WriteReturnsEffect
<1>3. PICK P : P = LQ!PendingUpTo(max)
  OBVIOUS
<1>4. max \in P \cup completed_writes
  <2>1. max \in pending_writes \cup completed_writes
    BY <1>2, QueueFacts DEF LinInv
  <2>. QED  BY <1>3, <2>1, SameOrder DEF LQ!PendingUpTo, TsLe
<1>5. LR!TakeEffect(WritersOf(P), ReadersOf(P), OrphansOf(P), {c})
  <2>1. token[c] \notin pending_writes \ P
    BY <1>1, <1>4, OrphanFacts
  <2>. QED  BY <1>2, <1>3, <2>1, ReturnsTakeEffect
<1>6. LR!Ends(c)
  BY <1>2, ReturnsEnds DEF Returns
<1>7. Effected[c] \/ c \in WritersOf(P) \cup ReadersOf(P)
  BY <1>1, <1>2, <1>4 DEF Effected, Done, WritersOf
<1>8. new_value[c] \in LR!Outcomes(c, WritersOf(P), OrphansOf(P))
  <2>1. Kind[c] = "write"
    BY <1>2, Maps
  <2>. QED  BY <2>1 DEF LR!Outcomes
<1>9. LR!Return(c, WritersOf(P), ReadersOf(P), OrphansOf(P))
  BY <1>2, <1>5, <1>6, <1>7, <1>8 DEF LR!Return
<1>10. /\ WritersOf(P) \in SUBSET Clients /\ ReadersOf(P) \in SUBSET Clients
       /\ OrphansOf(P) \in SUBSET Orphans
  BY DEF WritersOf, ReadersOf, OrphansOf
<1>. QED  BY <1>9, <1>10 DEF LR!Next

LEMMA RegisterStep ==
  ASSUME LinInv, [LinNext]_linvars
  PROVE  [LR!Next]_(LR!vars)
<1>1. ASSUME NEW c \in Clients, GiveUp(c), LinWriteFailsSecond(c), Take(c, TsDefault),
             UNCHANGED outcome
      PROVE  LR!Next
  BY <1>1, FailsSecond DEF LR!Next
<1>2. ASSUME NEW c \in Clients, GiveUp(c), LinWriteFailsFirst(c), Take(c, TsDefault),
             UNCHANGED outcome
      PROVE  LR!Next
  BY <1>2, FailsFirst DEF LR!Next
<1>3. ASSUME NEW c \in Clients, GiveUp(c), LinReadFails(c), Take(c, TsDefault),
             UNCHANGED outcome
      PROVE  LR!Next
  BY <1>3, FailsRead DEF LR!Next
<1>4. ASSUME NEW c \in Clients, NEW value \in Values, LinReadInvoke(c, value)
      PROVE  LR!Next
  BY <1>4, InvokesRead DEF LR!Next
<1>5. ASSUME NEW c \in Clients, NEW v \in Arguments, NEW n \in Prophecies,
             LinWriteInvoke(c, v, n)
      PROVE  LR!Next
  BY <1>5, InvokesWrite DEF LR!Next
<1>. QED  BY <1>1, <1>2, <1>3, <1>4, <1>5, LinStepKinds, QuietStutters,
             WriteExecuteStutters, ReturnsRead, ReturnsWrite

LEMMA RegisterInit == LinInit => LR!Init
<1>. SUFFICES ASSUME LinInit PROVE LR!Init
  OBVIOUS
<1>1. /\ register = None /\ pending_writes = {}
      /\ new_value = [c \in Clients |-> None] /\ outcome = [c \in Clients |-> {}]
      /\ \A c \in Clients : ~ Reading(c) /\ ~ Writes(c)
  BY DEF LinInit, Init, LQ!Init, Reading, Writes
<1>2. Kind = [c \in Clients |-> "idle"]
  BY <1>1 DEF Kind
<1>3. Effected = [c \in Clients |-> FALSE]
  <2>1. \A c \in Clients : Done(c) = FALSE
    BY <1>1 DEF Done
  <2>2. \A c \in Clients : Effected[c] = FALSE
    BY <2>1 DEF Effected
  <2>3. Effected = [c \in Clients |-> Effected[c]]
    BY DEF Effected
  <2>. QED  BY <2>2, <2>3
<1>4. Result = [c \in Clients |-> None]
  BY <1>1 DEF Result
<1>5. Orphans = {}
  BY <1>1 DEF Orphans, Orphaned
<1>. QED  BY <1>1, <1>2, <1>3, <1>4, <1>5 DEF LR!Init

(* LinRegisterClient: whatever the network and the servers do, and however *)
(* many operations fail half way, the reads and the writes are those of    *)
(* one atomic register.                                                    *)
THEOREM LinearizableCorrect == LinSpec => Linearizable
BY RegisterInit, RegisterStep, LinInvCorrect, PTL DEF LinSpec, Linearizable, LR!Spec

-----------------------------------------------------------------------------
LEMMA LinStepsAreSteps == [LinNext]_linvars => [Next]_vars
BY DEF LinNext, LinReadInvoke, LinReadReturn, LinReadWriteBack, LinWriteInvoke,
       LinWriteExecute, LinWriteReturn, LinGiveUp, Next, Advance, linvars

(* The prophecies and linearizers that are kept beside the register add    *)
(* nothing to what it does: what is proved of the register holds beside    *)
(* them, too.                                                              *)
THEOREM LinIsAbd == LinSpec => Spec
<1>1. LinInit => Init
  BY DEF LinInit
<1>. QED  BY <1>1, LinStepsAreSteps, PTL DEF LinSpec, Spec
=============================================================================
