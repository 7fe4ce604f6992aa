--------------------------- MODULE LinQueueProofs ---------------------------
(***************************************************************************)
(* The invariants of the linearization queue, for any values, timestamps   *)
(* and numbers of reads and writes, whatever the order of the calls.       *)
(***************************************************************************)
EXTENDS LinQueue, TimestampProofs

LEMMA TimestampsType ==
  /\ Timestamps \subseteq Timestamp
  /\ Timestamps \cup {TsDefault} \subseteq Timestamp
BY TimestampsAssumption, TsDefaultType

LEMMA InitInv == Init => QueueInv
<1>. SUFFICES ASSUME Init PROVE QueueInv
  OBVIOUS
<1>. USE ValuesAssumption
<1>1. TypeOK
  BY DEF Init, TypeOK
<1>2. BasicInv
  BY DEF Init, BasicInv, current_value, TsLe
<1>3. WriteDomInv
  BY DEF Init, WriteDomInv
<1>4. ReadDomInv
  BY DEF Init, ReadDomInv
<1>. QED  BY <1>1, <1>2, <1>3, <1>4 DEF QueueInv

-----------------------------------------------------------------------------
(***************************************************************************)
(* Insertion and commitment.                                               *)
(***************************************************************************)
LEMMA InsertWriteInv ==
  ASSUME QueueInv, NEW ts \in Timestamps, NEW value \in Values,
         ts \notin DOMAIN write_token_map, InsertWriteLinearizer(ts, value)
  PROVE  QueueInv'
<1>. USE TimestampsType DEF QueueInv, InsertWriteLinearizer
<1>1. CASE TsLe(ts, watermark)
  BY <1>1 DEF writes, reads, TypeOK, BasicInv, WriteDomInv, ReadDomInv,
              current_value, HasTakenEffect
<1>2. CASE ~ TsLe(ts, watermark)
  <2>1. TsLt(watermark, ts)
    BY <1>2, TsTotal DEF TypeOK, TsLe
  <2>2. /\ pending_writes' = pending_writes \cup {ts}
        /\ DOMAIN write_token_map' = DOMAIN write_token_map \cup {ts}
        /\ write_token_map'[ts] = [value |-> value, committed |-> FALSE]
        /\ \A u \in DOMAIN write_token_map : write_token_map'[u] = write_token_map[u]
        /\ UNCHANGED <<completed_writes, committed_to, reads, watermark, register>>
    BY <1>2 DEF Put
  <2>3. TypeOK'
    <3>1. write_token_map' \in [DOMAIN write_token_map' -> WriteTokenVal]
      <4>1. [value |-> value, committed |-> FALSE] \in WriteTokenVal
        BY DEF WriteTokenVal
      <4>2. write_token_map \in [DOMAIN write_token_map -> WriteTokenVal]
        BY DEF TypeOK
      <4>. QED  BY <1>2, <4>1, <4>2 DEF Put
    <3>. QED  BY <2>2, <3>1 DEF TypeOK, reads
  <2>4. BasicInv'
    BY <1>2, <2>2 DEF BasicInv, current_value
  <2>5. WriteDomInv'
    BY <2>1, <2>2 DEF WriteDomInv, TypeOK
  <2>6. ReadDomInv'
    BY <2>2 DEF ReadDomInv, HasTakenEffect, reads
  <2>. QED  BY <2>3, <2>4, <2>5, <2>6
<1>. QED  BY <1>1, <1>2

LEMMA InsertReadInv ==
  ASSUME QueueInv, NEW value \in Values, InsertReadLinearizer(value)
  PROVE  QueueInv'
<1>. USE TimestampsType DEF QueueInv
<1>1. PICK k \in ReadKey : /\ k = NextKey(value)
                           /\ k.value = value /\ k.op = next_read_op
                           /\ k \notin DOMAIN read_token_map
  <2>1. /\ NextKey(value) \in ReadKey
        /\ NextKey(value).value = value /\ NextKey(value).op = next_read_op
    BY DEF NextKey, ReadKey, TypeOK
  <2>2. NextKey(value) \notin DOMAIN read_token_map
    BY <2>1 DEF ReadDomInv, TypeOK
  <2>. QED  BY <2>1, <2>2
<1>2. /\ DOMAIN read_token_map' = DOMAIN read_token_map \cup {k}
      /\ read_token_map'[k] = watermark
      /\ \A j \in DOMAIN read_token_map : read_token_map'[j] = read_token_map[j]
      /\ read_token_map' \in [DOMAIN read_token_map' -> Timestamps \cup {TsDefault}]
  <2>1. read_token_map' = Put(read_token_map, k, watermark)
    BY <1>1 DEF InsertReadLinearizer
  <2>. QED  BY <1>1, <2>1 DEF Put, TypeOK
<1>3. /\ next_read_op' = next_read_op + 1
      /\ UNCHANGED <<committed_to, writes, watermark, register>>
  BY DEF InsertReadLinearizer
<1>4. BasicInv' /\ WriteDomInv'
  BY <1>3 DEF BasicInv, WriteDomInv, current_value, writes
<1>5. \A j \in DOMAIN read_token_map' : /\ j.op < next_read_op'
                                        /\ TsLe(read_token_map'[j], watermark)
  <2>1. k.op < next_read_op'
    BY <1>1, <1>3 DEF TypeOK
  <2>2. ASSUME NEW j \in DOMAIN read_token_map
        PROVE  j.op < next_read_op'
    <3>1. j.op \in Nat /\ j.op < next_read_op /\ next_read_op \in Nat
      BY DEF TypeOK, ReadKey, ReadDomInv
    <3>. QED  BY <1>3, <3>1
  <2>. QED  BY <1>2, <2>1, <2>2 DEF ReadDomInv, TsLe
<1>6. \A j \in DOMAIN read_token_map : HasTakenEffect(j)' <=> HasTakenEffect(j)
  BY <1>2, <1>3 DEF HasTakenEffect
<1>7. CASE value = current_value
  <2>1. /\ DOMAIN completed_reads' = DOMAIN completed_reads \cup {k}
        /\ completed_reads'[k] = watermark
        /\ \A j \in DOMAIN completed_reads :
             j # k => completed_reads'[j] = completed_reads[j]
        /\ completed_reads' \in [DOMAIN completed_reads' -> Timestamps \cup {TsDefault}]
        /\ UNCHANGED pending_reads
    BY <1>1, <1>7 DEF InsertReadLinearizer, Put, TypeOK
  <2>2. TypeOK'
    BY <1>1, <1>2, <1>3, <2>1 DEF TypeOK, writes
  <2>3. watermark \in DOMAIN committed_to /\ committed_to[watermark] = k.value
    BY <1>1, <1>7 DEF current_value, BasicInv
  <2>4. ReadDomInv'
    BY <1>1, <1>2, <1>3, <1>5, <1>6, <2>1, <2>3 DEF ReadDomInv, TsLe
  <2>. QED  BY <1>4, <2>2, <2>4
<1>8. CASE value # current_value
  <2>1. /\ pending_reads' = pending_reads \cup {k}
        /\ UNCHANGED completed_reads
    BY <1>1, <1>8 DEF InsertReadLinearizer
  <2>2. TypeOK'
    BY <1>1, <1>2, <1>3, <2>1 DEF TypeOK, writes
  <2>3. ~ HasTakenEffect(k)'
    <3>. SUFFICES ASSUME NEW ts \in DOMAIN committed_to,
                         TsLe(watermark, ts), TsLe(ts, watermark),
                         committed_to[ts] = k.value
                  PROVE  FALSE
      BY <1>2, <1>3 DEF HasTakenEffect
    <3>1. ts = watermark
      BY TsTotal DEF TypeOK, TsLe
    <3>. QED  BY <1>1, <1>8, <3>1 DEF current_value
  <2>4. ReadDomInv'
    BY <1>1, <1>2, <1>3, <1>5, <1>6, <2>1, <2>3 DEF ReadDomInv
  <2>. QED  BY <1>4, <2>2, <2>4
<1>. QED  BY <1>7, <1>8

LEMMA CommitInv ==
  ASSUME QueueInv, NEW ts \in DOMAIN write_token_map, CommitValue(ts)
  PROVE  QueueInv'
<1>. USE DEF QueueInv, CommitValue
<1>1. /\ DOMAIN write_token_map' = DOMAIN write_token_map
      /\ write_token_map' \in [DOMAIN write_token_map -> WriteTokenVal]
      /\ \A u \in DOMAIN write_token_map :
           write_token_map'[u].value = write_token_map[u].value
  BY DEF TypeOK, WriteTokenVal
<1>2. TypeOK'
  BY <1>1 DEF TypeOK, reads
<1>3. BasicInv'
  BY <1>1 DEF BasicInv, current_value
<1>4. WriteDomInv'
  BY <1>1 DEF WriteDomInv
<1>5. ReadDomInv'
  BY DEF ReadDomInv, HasTakenEffect, reads
<1>. QED  BY <1>2, <1>3, <1>4, <1>5

-----------------------------------------------------------------------------
(***************************************************************************)
(* Removal.                                                                *)
(***************************************************************************)
LEMMA RemoveWriteInv ==
  ASSUME QueueInv, NEW ts \in DOMAIN write_token_map, RemoveWriteLin(ts)
  PROVE  QueueInv'
<1>. USE TimestampsType DEF QueueInv, RemoveWriteLin
<1>1. /\ DOMAIN write_token_map' = DOMAIN write_token_map \ {ts}
      /\ \A u \in DOMAIN write_token_map' : write_token_map'[u] = write_token_map[u]
      /\ UNCHANGED <<committed_to, reads, watermark, register>>
  BY DEF Without
<1>2. /\ pending_writes' \subseteq pending_writes
      /\ completed_writes' \subseteq completed_writes
  OBVIOUS
<1>3. TypeOK'
  <2>1. write_token_map' \in [DOMAIN write_token_map' -> WriteTokenVal]
    BY DEF TypeOK, Without
  <2>. QED  BY <1>1, <1>2, <2>1 DEF TypeOK, reads
<1>4. BasicInv'
  BY <1>1 DEF BasicInv, current_value
<1>5. DOMAIN write_token_map' = pending_writes' \cup completed_writes'
  <2>1. CASE TsLe(ts, watermark)
    <3>1. ts \notin pending_writes
      BY <2>1, TsTotal DEF WriteDomInv, TypeOK, TsLe
    <3>. QED  BY <1>1, <2>1, <3>1 DEF WriteDomInv
  <2>2. CASE ~ TsLe(ts, watermark)
    <3>1. ts \notin completed_writes
      BY <2>2 DEF WriteDomInv, BasicInv
    <3>. QED  BY <1>1, <2>2, <3>1 DEF WriteDomInv
  <2>. QED  BY <2>1, <2>2
<1>6. WriteDomInv'
  BY <1>1, <1>2, <1>5 DEF WriteDomInv
<1>7. ReadDomInv'
  BY <1>1 DEF ReadDomInv, HasTakenEffect, reads
<1>. QED  BY <1>3, <1>4, <1>6, <1>7

(* A read that is completed has taken effect. *)
LEMMA CompletedTookEffect ==
  ASSUME QueueInv, NEW k \in DOMAIN completed_reads
  PROVE  HasTakenEffect(k)
BY DEF QueueInv, BasicInv, ReadDomInv, HasTakenEffect

LEMMA RemoveReadInv ==
  ASSUME QueueInv, NEW k \in DOMAIN read_token_map, RemoveReadLin(k)
  PROVE  QueueInv'
<1>. USE TimestampsType DEF QueueInv, RemoveReadLin
<1>1. /\ DOMAIN read_token_map' = DOMAIN read_token_map \ {k}
      /\ \A j \in DOMAIN read_token_map' : read_token_map'[j] = read_token_map[j]
      /\ UNCHANGED <<committed_to, writes, next_read_op, watermark, register>>
  BY DEF Without
<1>2. /\ pending_reads' = pending_reads \ {k}
      /\ DOMAIN completed_reads' = DOMAIN completed_reads \ {k}
      /\ \A j \in DOMAIN completed_reads' : completed_reads'[j] = completed_reads[j]
      /\ completed_reads' \in [DOMAIN completed_reads' -> Timestamps \cup {TsDefault}]
  <2>1. CASE HasTakenEffect(k)
    <3>1. k \notin pending_reads
      BY <2>1 DEF ReadDomInv
    <3>. QED  BY <2>1, <3>1 DEF Without, TypeOK
  <2>2. CASE ~ HasTakenEffect(k)
    <3>1. k \notin DOMAIN completed_reads
      BY <2>2, CompletedTookEffect
    <3>. QED  BY <2>2, <3>1 DEF TypeOK
  <2>. QED  BY <2>1, <2>2
<1>3. TypeOK'
  <2>1. read_token_map' \in [DOMAIN read_token_map' -> Timestamps \cup {TsDefault}]
    BY DEF TypeOK, Without
  <2>. QED  BY <1>1, <1>2, <2>1 DEF TypeOK, writes
<1>4. BasicInv' /\ WriteDomInv'
  BY <1>1 DEF BasicInv, WriteDomInv, current_value, writes
<1>5. \A j \in DOMAIN read_token_map' : HasTakenEffect(j)' <=> HasTakenEffect(j)
  BY <1>1 DEF HasTakenEffect
<1>6. ReadDomInv'
  BY <1>1, <1>2, <1>5 DEF ReadDomInv
<1>. QED  BY <1>3, <1>4, <1>6

-----------------------------------------------------------------------------
(***************************************************************************)
(* The return of an operation with timestamp max.                          *)
(***************************************************************************)
(* Whichever writes take effect, max is the last of them.                  *)
LEMMA ApplyUpTo ==
  ASSUME QueueInv, NEW max \in known_timestamps
  PROVE  LET W == PendingUpTo(max)
         IN  /\ W \subseteq pending_writes
             /\ \A ts \in W : TsLt(watermark, ts) /\ TsLe(ts, max)
             /\ \A ts \in pending_writes \ W : TsLt(max, ts)
             /\ W # {} => max \in W /\ Greatest(W) = max
<1>. USE TimestampsType DEF QueueInv
<1>. DEFINE W == PendingUpTo(max)
<1>1. max \in Timestamp /\ watermark \in Timestamp /\ pending_writes \subseteq Timestamp
  BY DEF known_timestamps, TypeOK
<1>2. /\ W \subseteq pending_writes
      /\ \A ts \in W : TsLt(watermark, ts) /\ TsLe(ts, max)
      /\ \A ts \in pending_writes \ W : TsLt(max, ts)
  BY <1>1, TsTotal DEF PendingUpTo, WriteDomInv, TsLe
<1>3. ASSUME W # {} PROVE max \in W
  <2>1. PICK ts \in W : TsLt(watermark, ts) /\ TsLe(ts, max)
    BY <1>2, <1>3
  <2>2. TsLt(watermark, max)
    BY <1>1, <1>2, <2>1, TsTransitive
  <2>3. max \notin DOMAIN committed_to
    BY <1>1, <2>2, TsTotal DEF BasicInv, TsLe
  <2>. QED  BY <2>3 DEF known_timestamps, PendingUpTo, TsLe
<1>4. ASSUME W # {} PROVE Greatest(W) = max
  <2>1. max \in W /\ \A u \in W : TsLe(u, max)
    BY <1>2, <1>3, <1>4
  <2>2. Greatest(W) \in W /\ TsLe(max, Greatest(W))
    BY <2>1 DEF Greatest
  <2>. QED  BY <1>1, <1>2, <2>1, <2>2, TsTotal DEF TsLe
<1>. QED  BY <1>2, <1>3, <1>4

(* A pending read whose value is written takes effect at one such write.   *)
LEMMA ReadFromWrite ==
  ASSUME QueueInv, NEW W \in SUBSET pending_writes, NEW k \in ReadsOf(W)
  PROVE  /\ k \in pending_reads
         /\ ReadFrom(k, W) \in W
         /\ write_token_map[ReadFrom(k, W)].value = k.value
<1>1. Writing(W, k.value) # {} /\ Writing(W, k.value) \in SUBSET Timestamp
  BY TimestampsType DEF ReadsOf, Writing, QueueInv, TypeOK
<1>2. ReadFrom(k, W) \in Writing(W, k.value)
  BY <1>1, TsLeast DEF ReadFrom
<1>. QED  BY <1>2 DEF ReadsOf, Writing

LEMMA ApplyInv ==
  ASSUME QueueInv, NEW max \in known_timestamps,
         NEW ws \in SUBSET (PendingUpTo(max) \cup completed_writes),
         NEW rs \in SUBSET (ReadsOf(PendingUpTo(max)) \cup DOMAIN completed_reads),
         ApplyAndExtract(PendingUpTo(max), ws, rs)
  PROVE  QueueInv'
<1>. USE TimestampsType DEF QueueInv
<1>1. PICK W : W = PendingUpTo(max)
  OBVIOUS
<1>2. /\ W \subseteq pending_writes
      /\ \A ts \in W : TsLt(watermark, ts) /\ TsLe(ts, max)
      /\ \A ts \in pending_writes \ W : TsLt(max, ts)
      /\ W # {} => max \in W /\ Greatest(W) = max
  BY <1>1, ApplyUpTo
<1>3. PICK R : R = ReadsOf(W)
  OBVIOUS
<1>4. /\ R \subseteq pending_reads
      /\ \A k \in R : /\ ReadFrom(k, W) \in W
                      /\ write_token_map[ReadFrom(k, W)].value = k.value
      /\ \A k \in pending_reads \ R, ts \in W : write_token_map[ts].value # k.value
  <2>1. \A k \in pending_reads \ R, ts \in W : write_token_map[ts].value # k.value
    BY <1>3 DEF ReadsOf, Writing
  <2>. QED  BY <1>2, <1>3, <2>1, ReadFromWrite
<1>5. /\ max \in Timestamp /\ watermark \in Timestamp
      /\ W \subseteq Timestamp /\ W \subseteq Timestamps
      /\ W \subseteq DOMAIN write_token_map
      /\ W \cap DOMAIN committed_to = {} /\ W \cap completed_writes = {}
  <2>1. max \in Timestamp /\ watermark \in Timestamp
    BY DEF known_timestamps, TypeOK
  <2>2. W \subseteq Timestamp /\ W \subseteq Timestamps /\ W \subseteq DOMAIN write_token_map
    BY <1>2 DEF TypeOK, WriteDomInv
  <2>3. W \cap DOMAIN committed_to = {}
    BY <1>2, <2>1, <2>2, TsTotal DEF BasicInv, TsLe
  <2>. QED  BY <2>1, <2>2, <2>3 DEF WriteDomInv

(* What the queue becomes. *)
<1>6. /\ DOMAIN committed_to' = DOMAIN committed_to \cup W
      /\ \A ts \in W : committed_to'[ts] = write_token_map[ts].value
      /\ \A ts \in DOMAIN committed_to : committed_to'[ts] = committed_to[ts]
      /\ committed_to' \in [DOMAIN committed_to' -> Values]
  <2>1. committed_to' = [ts \in DOMAIN committed_to \cup W |->
                          IF ts \in W THEN write_token_map[ts].value
                                      ELSE committed_to[ts]]
    BY <1>1 DEF ApplyAndExtract
  <2>2. \A ts \in W : write_token_map[ts].value \in Values
    BY <1>5 DEF TypeOK, WriteTokenVal
  <2>. QED  BY <1>5, <2>1, <2>2 DEF TypeOK
<1>7. /\ pending_writes' = pending_writes \ W
      /\ completed_writes' = (completed_writes \cup W) \ ws
      /\ ws \subseteq W \cup completed_writes
      /\ DOMAIN write_token_map' = DOMAIN write_token_map \ ws
      /\ \A ts \in DOMAIN write_token_map' : write_token_map'[ts] = write_token_map[ts]
      /\ write_token_map' \in [DOMAIN write_token_map' -> WriteTokenVal]
  BY <1>1 DEF ApplyAndExtract, Without, TypeOK
<1>8. /\ pending_reads' = pending_reads \ R
      /\ rs \subseteq R \cup DOMAIN completed_reads
      /\ DOMAIN read_token_map' = DOMAIN read_token_map \ rs
      /\ \A k \in DOMAIN read_token_map' : read_token_map'[k] = read_token_map[k]
      /\ read_token_map' \in [DOMAIN read_token_map' -> Timestamps \cup {TsDefault}]
      /\ UNCHANGED next_read_op
  BY <1>1, <1>3 DEF ApplyAndExtract, Without, TypeOK
<1>9. /\ DOMAIN completed_reads' = (DOMAIN completed_reads \cup R) \ rs
      /\ \A k \in R \ rs : completed_reads'[k] = ReadFrom(k, W)
      /\ \A k \in DOMAIN completed_reads \ rs : completed_reads'[k] = completed_reads[k]
      /\ completed_reads' \in [DOMAIN completed_reads' -> Timestamps \cup {TsDefault}]
  <2>1. completed_reads' = [k \in (DOMAIN completed_reads \cup R) \ rs |->
                             IF k \in R THEN ReadFrom(k, W) ELSE completed_reads[k]]
    BY <1>1, <1>3 DEF ApplyAndExtract
  <2>2. R \cap DOMAIN completed_reads = {}
    BY <1>4 DEF ReadDomInv
  <2>3. \A k \in R : ReadFrom(k, W) \in Timestamps
    BY <1>4, <1>5
  <2>. QED  BY <2>1, <2>2, <2>3 DEF TypeOK
<1>10. \/ W = {} /\ watermark' = watermark /\ register' = register
       \/ /\ W # {} /\ max \in W /\ watermark' = max
          /\ register' = write_token_map[max].value
  BY <1>1, <1>2 DEF ApplyAndExtract

(* The invariants. *)
<1>11. /\ TsLe(watermark, watermark') /\ watermark' \in Timestamp
       /\ \A ts \in W : TsLe(ts, watermark')
       /\ \A ts \in DOMAIN committed_to : TsLe(ts, watermark')
  <2>1. /\ TsLe(watermark, watermark') /\ watermark' \in Timestamp
        /\ \A ts \in W : TsLe(ts, watermark')
    BY <1>2, <1>5, <1>10 DEF TsLe
  <2>2. \A ts \in DOMAIN committed_to : ts \in Timestamp /\ TsLe(ts, watermark)
    BY DEF TypeOK, BasicInv
  <2>. QED  BY <1>5, <2>1, <2>2, TsTransitive
<1>12. TypeOK'
  <2>1. register' \in Values
    BY <1>5, <1>10 DEF TypeOK, WriteTokenVal
  <2>2. watermark' \in Timestamps \cup {TsDefault}
    BY <1>5, <1>10 DEF TypeOK
  <2>. QED  BY <1>4, <1>5, <1>6, <1>7, <1>8, <1>9, <2>1, <2>2 DEF TypeOK
<1>13. BasicInv'
  <2>1. watermark' \in DOMAIN committed_to' /\ register' = committed_to'[watermark']
    BY <1>6, <1>10 DEF BasicInv, current_value
  <2>2. ASSUME NEW ts \in DOMAIN write_token_map', TsLe(ts, watermark')
        PROVE  ts \in DOMAIN committed_to'
    <3>1. CASE ts \in completed_writes
      BY <1>6, <3>1 DEF WriteDomInv
    <3>2. CASE ts \in pending_writes \ W
      <4>1. ts \in Timestamp /\ TsLt(max, ts) /\ TsLt(watermark, ts)
        BY <1>2, <3>2 DEF TypeOK, WriteDomInv
      <4>. QED  BY <1>5, <1>10, <2>2, <4>1, TsTotal DEF TsLe
    <3>. QED  BY <1>6, <1>7, <3>1, <3>2 DEF WriteDomInv
  <2>. QED  BY <1>6, <1>11, <2>1, <2>2 DEF BasicInv, current_value
<1>14. WriteDomInv'
  <2>1. DOMAIN write_token_map' = pending_writes' \cup completed_writes'
    <3>1. pending_writes \cap completed_writes = {}
      BY <1>5, TsTotal DEF TypeOK, WriteDomInv, BasicInv, TsLe
    <3>. QED  BY <1>2, <1>7, <3>1 DEF WriteDomInv
  <2>2. \A ts \in pending_writes' : TsLt(watermark', ts)
    BY <1>2, <1>7, <1>10 DEF WriteDomInv
  <2>3. \A ts \in completed_writes' :
          ts \in DOMAIN committed_to' /\ committed_to'[ts] = write_token_map'[ts].value
    BY <1>6, <1>7, <2>1 DEF WriteDomInv
  <2>. QED  BY <2>1, <2>2, <2>3 DEF WriteDomInv
<1>15. ReadDomInv'
  <2>1. /\ DOMAIN read_token_map' = pending_reads' \cup DOMAIN completed_reads'
        /\ pending_reads' \cap DOMAIN completed_reads' = {}
    BY <1>4, <1>8, <1>9 DEF ReadDomInv
  <2>2. ASSUME NEW k \in DOMAIN read_token_map'
        PROVE  /\ k.op < next_read_op'
               /\ TsLe(read_token_map'[k], watermark')
    <3>1. k \in DOMAIN read_token_map /\ read_token_map[k] \in Timestamp
      BY <1>8 DEF TypeOK
    <3>. QED  BY <1>5, <1>8, <1>11, <3>1, TsTransitive DEF ReadDomInv
  <2>3. ASSUME NEW k \in DOMAIN completed_reads'
        PROVE  /\ completed_reads'[k] \in DOMAIN committed_to'
               /\ committed_to'[completed_reads'[k]] = k.value
               /\ TsLe(read_token_map'[k], completed_reads'[k])
    <3>1. CASE k \in DOMAIN completed_reads
      BY <1>6, <1>8, <1>9, <2>1, <3>1 DEF ReadDomInv
    <3>2. CASE k \in R
      <4>1. completed_reads'[k] = ReadFrom(k, W) /\ ReadFrom(k, W) \in W
        BY <1>4, <1>9, <3>2
      <4>2. /\ read_token_map'[k] = read_token_map[k]
            /\ read_token_map[k] \in Timestamp
            /\ TsLe(read_token_map[k], watermark)
        BY <1>8, <2>1 DEF ReadDomInv, TypeOK
      <4>3. TsLt(watermark, ReadFrom(k, W)) /\ ReadFrom(k, W) \in Timestamp
        BY <1>2, <1>5, <4>1
      <4>4. TsLe(read_token_map[k], ReadFrom(k, W))
        BY <1>5, <4>2, <4>3, TsTransitive DEF TsLe
      <4>. QED  BY <1>4, <1>6, <3>2, <4>1, <4>2, <4>4
    <3>. QED  BY <1>9, <3>1, <3>2
  <2>4. ASSUME NEW k \in pending_reads', HasTakenEffect(k)'
        PROVE  FALSE
    <3>1. PICK ts \in DOMAIN committed_to' :
            /\ TsLe(read_token_map'[k], ts)
            /\ committed_to'[ts] = k.value
      BY <2>4 DEF HasTakenEffect
    <3>2. k \in pending_reads \ R /\ read_token_map'[k] = read_token_map[k]
      BY <1>8, <2>1
    <3>3. CASE ts \in W
      BY <1>4, <1>6, <3>1, <3>2, <3>3
    <3>4. CASE ts \in DOMAIN committed_to
      <4>1. HasTakenEffect(k)
        BY <1>6, <3>1, <3>2, <3>4 DEF HasTakenEffect, BasicInv
      <4>. QED  BY <3>2, <4>1 DEF ReadDomInv
    <3>. QED  BY <1>6, <3>3, <3>4
  <2>. QED  BY <2>1, <2>2, <2>3, <2>4 DEF ReadDomInv
<1>. QED  BY <1>12, <1>13, <1>14, <1>15

LEMMA WriteReturnsInv ==
  ASSUME QueueInv, NEW ts \in DOMAIN write_token_map, WriteReturns(ts)
  PROVE  QueueInv'
<1>1. ts \in known_timestamps
  BY DEF QueueInv, WriteDomInv, known_timestamps
<1>2. ts \in PendingUpTo(ts) \cup completed_writes
  BY DEF QueueInv, WriteDomInv, PendingUpTo, TsLe
<1>3. {ts} \in SUBSET (PendingUpTo(ts) \cup completed_writes)
  BY <1>2
<1>4. {} \in SUBSET (ReadsOf(PendingUpTo(ts)) \cup DOMAIN completed_reads)
  OBVIOUS
<1>. QED  BY <1>1, <1>3, <1>4, ApplyInv DEF WriteReturns

(* The value at timestamp t: that of a write that has taken effect, or the *)
(* one that a pending write is about to write.                             *)
ValueAt(t) == IF t \in DOMAIN committed_to THEN committed_to[t]
                                           ELSE write_token_map[t].value

(* The read that returns has taken effect, or does now. *)
LEMMA ReadIsExtracted ==
  ASSUME QueueInv, NEW k \in DOMAIN read_token_map, NEW max \in known_timestamps,
         TsLe(read_token_map[k], max), k.value = ValueAt(max)
  PROVE  k \in ReadsOf(PendingUpTo(max)) \cup DOMAIN completed_reads
<1>1. CASE max \in DOMAIN committed_to
  <2>1. HasTakenEffect(k)
    BY <1>1 DEF ValueAt, HasTakenEffect, QueueInv, BasicInv
  <2>. QED  BY <2>1 DEF QueueInv, ReadDomInv
<1>2. CASE max \in pending_writes /\ max \notin DOMAIN committed_to
  <2>1. max \in PendingUpTo(max)
    BY <1>2 DEF PendingUpTo, TsLe
  <2>2. max \in Writing(PendingUpTo(max), k.value)
    BY <1>2, <2>1 DEF ValueAt, Writing
  <2>. QED  BY <2>2 DEF ReadsOf, QueueInv, ReadDomInv
<1>. QED  BY <1>1, <1>2 DEF known_timestamps

LEMMA ReadReturnsInv ==
  ASSUME QueueInv, NEW k \in DOMAIN read_token_map, NEW max \in known_timestamps,
         TsLe(read_token_map[k], max), k.value = ValueAt(max), ReadReturns(k, max)
  PROVE  QueueInv'
<1>. USE TimestampsType
<1>1. {k} \in SUBSET (ReadsOf(PendingUpTo(max)) \cup DOMAIN completed_reads)
  BY ReadIsExtracted
<1>2. {} \in SUBSET (PendingUpTo(max) \cup completed_writes)
  OBVIOUS
<1>. QED  BY <1>1, <1>2, ApplyInv DEF ReadReturns

-----------------------------------------------------------------------------
LEMMA NextInv == QueueInv /\ [Next]_vars => QueueInv'
<1>. SUFFICES ASSUME QueueInv, [Next]_vars PROVE QueueInv'
  OBVIOUS
<1>1. ASSUME NEW ts \in Timestamps, NEW value \in Values,
             ts \notin DOMAIN write_token_map, InsertWriteLinearizer(ts, value)
      PROVE  QueueInv'
  BY <1>1, InsertWriteInv
<1>2. ASSUME NEW value \in Values, InsertReadLinearizer(value)
      PROVE  QueueInv'
  BY <1>2, InsertReadInv
<1>3. ASSUME NEW ts \in DOMAIN write_token_map,
             CommitValue(ts) \/ RemoveWriteLin(ts) \/ WriteReturns(ts)
      PROVE  QueueInv'
  BY <1>3, CommitInv, RemoveWriteInv, WriteReturnsInv
<1>4. ASSUME NEW k \in DOMAIN read_token_map, RemoveReadLin(k)
      PROVE  QueueInv'
  BY <1>4, RemoveReadInv
<1>5. ASSUME NEW k \in DOMAIN read_token_map, NEW max \in known_timestamps,
             TsLe(read_token_map[k], max), k.value = ValueAt(max),
             ReadReturns(k, max)
      PROVE  QueueInv'
  BY <1>5, ReadReturnsInv
<1>6. CASE UNCHANGED vars
  <2>1. UNCHANGED <<committed_to, pending_writes, completed_writes,
                    write_token_map, pending_reads, completed_reads,
                    read_token_map, next_read_op, watermark, register>>
    BY <1>6 DEF vars, writes, reads
  <2>2. TypeOK' /\ BasicInv' /\ WriteDomInv'
    BY <2>1 DEF QueueInv, TypeOK, BasicInv, WriteDomInv, current_value
  <2>3. ReadDomInv'
    BY <2>1 DEF QueueInv, ReadDomInv, HasTakenEffect
  <2>. QED  BY <2>2, <2>3 DEF QueueInv
<1>. QED  BY <1>1, <1>2, <1>3, <1>4, <1>5, <1>6 DEF Next, ValueAt

(* The queue's own invariants hold however its operations are interleaved: *)
(* basic_inv, write_dom_inv and read_dom_inv of LinearizationQueue.        *)
THEOREM QueueCorrect == Spec => []QueueInv
BY InitInv, NextInv, PTL DEF Spec

(* The variables of the queue keep their types. *)
THEOREM QueueTypeCorrect == Spec => []TypeOK
<1>1. QueueInv => TypeOK  BY DEF QueueInv
<1>. QED  BY <1>1, QueueCorrect, PTL

(* basic_inv: what is committed lies up to the watermark, and the register *)
(* holds the value of the watermark.                                       *)
THEOREM RegisterAtWatermark == Spec => []BasicInv
<1>1. QueueInv => BasicInv  BY DEF QueueInv
<1>. QED  BY <1>1, QueueCorrect, PTL

(* write_dom_inv: a write is pending beyond the watermark, or has taken    *)
(* effect with its own value.                                              *)
THEOREM WritesTakeEffectOnce == Spec => []WriteDomInv
<1>1. QueueInv => WriteDomInv  BY DEF QueueInv
<1>. QED  BY <1>1, QueueCorrect, PTL

(* read_dom_inv: a read that has taken effect did so at a timestamp of its *)
(* value after its invocation, and one that has not is of a value that the *)
(* register has not held since.                                            *)
THEOREM ReadsTakeEffectInTime == Spec => []ReadDomInv
<1>1. QueueInv => ReadDomInv  BY DEF QueueInv
<1>. QED  BY <1>1, QueueCorrect, PTL
=============================================================================
