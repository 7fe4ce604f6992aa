------------------------------ MODULE LinQueue ------------------------------
(***************************************************************************)
(* The linearization queue: the ghost state through which reads and writes *)
(* of the replicated register take effect on one atomic register.  A write *)
(* enters it at its invocation, under the timestamp it is prophesied to    *)
(* take, and a read under the value it is prophesied to return.            *)
(* Operations return in any order; when one returns with a timestamp, all  *)
(* pending writes up to that timestamp take effect in timestamp order, and *)
(* a pending read takes effect as soon as the register holds its value.    *)
(*                                                                         *)
(* The operators that follow the code are called by whoever owns a token.  *)
(* The actions of Next call them whenever their preconditions hold.        *)
(***************************************************************************)
EXTENDS Timestamps, FiniteSets

CONSTANTS
  Values,      \* the values a register can hold
  None,        \* the initial value
  Timestamps,  \* bound: the timestamps that writes are prophesied to take
  MaxReads     \* bound: the number of reads

ASSUME ValuesAssumption     == None \in Values
ASSUME TimestampsAssumption == Timestamps \subseteq Timestamp /\ IsFiniteSet(Timestamps)
ASSUME MaxReadsAssumption   == MaxReads \in Nat

VARIABLES
  committed_to,      \* the values of the timestamps up to the watermark
  pending_writes,    \* the timestamps of the writes yet to take effect
  completed_writes,  \* the timestamps of those that have, their token not used
  write_token_map,   \* the writes in the queue: timestamp to value and state
  pending_reads,     \* the keys of the reads yet to take effect
  completed_reads,   \* those that have: key to the timestamp they read
  read_token_map,    \* the reads in the queue: key to min_ts
  next_read_op,      \* the number of the next read
  watermark,         \* every write up to here has taken effect
  register           \* the atomic register

writes == <<pending_writes, completed_writes, write_token_map>>
reads  == <<pending_reads, completed_reads, read_token_map, next_read_op>>
vars   == <<committed_to, writes, reads, watermark, register>>

-----------------------------------------------------------------------------
ReadKey == [value : Values, op : Nat]

WriteTokenVal == [value : Values, committed : BOOLEAN]

Put(f, k, v) == [x \in DOMAIN f \cup {k} |-> IF x = k THEN v ELSE f[x]]

Without(f, S) == [x \in DOMAIN f \ S |-> f[x]]

Init ==
  /\ committed_to     = [t \in {TsDefault} |-> None]
  /\ pending_writes   = {}
  /\ completed_writes = {}
  /\ write_token_map  = [t \in {} |-> [value |-> None, committed |-> FALSE]]
  /\ pending_reads    = {}
  /\ completed_reads  = [k \in {} |-> TsDefault]
  /\ read_token_map   = [k \in {} |-> TsDefault]
  /\ next_read_op     = 0
  /\ watermark        = TsDefault
  /\ register         = None

current_value == committed_to[watermark]

known_timestamps == DOMAIN committed_to \cup pending_writes

-----------------------------------------------------------------------------
(* A write whose prophecy lies below the watermark is handed back: it will *)
(* never take that timestamp.                                              *)
InsertWriteLinearizer(ts, value) ==
  /\ IF TsLe(ts, watermark)
     THEN UNCHANGED writes
     ELSE /\ pending_writes' = pending_writes \cup {ts}
          /\ write_token_map' =
               Put(write_token_map, ts, [value |-> value, committed |-> FALSE])
          /\ UNCHANGED completed_writes
  /\ UNCHANGED <<committed_to, reads, watermark, register>>

NextKey(value) == [value |-> value, op |-> next_read_op]

(* Mutation: a read of the current value waits for the next write of it. *)
InsertReadLinearizerLate(value) ==
  /\ read_token_map' = Put(read_token_map, NextKey(value), watermark)
  /\ next_read_op' = next_read_op + 1
  /\ pending_reads' = pending_reads \cup {NextKey(value)}
  /\ UNCHANGED <<committed_to, writes, completed_reads, watermark, register>>

InsertReadLinearizer(value) ==
  /\ read_token_map' = Put(read_token_map, NextKey(value), watermark)
  /\ next_read_op' = next_read_op + 1
  /\ IF value = current_value
     THEN /\ completed_reads' = Put(completed_reads, NextKey(value), watermark)
          /\ UNCHANGED pending_reads
     ELSE /\ pending_reads' = pending_reads \cup {NextKey(value)}
          /\ UNCHANGED completed_reads
  /\ UNCHANGED <<committed_to, writes, watermark, register>>

CommitValue(ts) ==
  /\ write_token_map' = [write_token_map EXCEPT ![ts].committed = TRUE]
  /\ UNCHANGED <<committed_to, pending_writes, completed_writes, reads,
                 watermark, register>>

-----------------------------------------------------------------------------
(***************************************************************************)
(* An operation returns with timestamp max: apply_linearizers_up_to, and   *)
(* then extract_write_completion or extract_read_completion, in one atomic *)
(* section.                                                                *)
(***************************************************************************)
PendingUpTo(max) == {ts \in pending_writes : TsLe(ts, max)}

(* Mutation: the writes take effect in the wrong order. *)
GreatestIsLeast(W) == CHOOSE ts \in W : \A u \in W : TsLe(ts, u)

Greatest(W) == CHOOSE ts \in W : \A u \in W : TsLe(u, ts)

Writing(W, value) == {ts \in W : write_token_map[ts].value = value}

(* Mutation: only the reads of the last value take effect. *)
ReadsOfLast(W) ==
  {k \in pending_reads : W # {} /\ write_token_map[Greatest(W)].value = k.value}

(* The pending reads of a value that one of the writes W writes. *)
ReadsOf(W) == {k \in pending_reads : Writing(W, k.value) # {}}

(* Such a read takes effect right after the first write of its value. *)
ReadFrom(k, W) ==
  CHOOSE ts \in Writing(W, k.value) : \A u \in Writing(W, k.value) : TsLe(ts, u)

(* The writes of W take effect in turn, each followed by the reads of its  *)
(* value; then the tokens of the writes ws and of the reads rs are used.   *)
ApplyAndExtract(W, ws, rs) ==
  /\ committed_to' = [ts \in DOMAIN committed_to \cup W |->
                        IF ts \in W THEN write_token_map[ts].value
                                    ELSE committed_to[ts]]
  /\ pending_writes' = pending_writes \ W
  /\ completed_writes' = (completed_writes \cup W) \ ws
  /\ write_token_map' = Without(write_token_map, ws)
  /\ pending_reads' = pending_reads \ ReadsOf(W)
  /\ completed_reads' =
       [k \in (DOMAIN completed_reads \cup ReadsOf(W)) \ rs |->
          IF k \in ReadsOf(W) THEN ReadFrom(k, W) ELSE completed_reads[k]]
  /\ read_token_map' = Without(read_token_map, rs)
  /\ UNCHANGED next_read_op
  /\ \/ W = {} /\ UNCHANGED <<watermark, register>>
     \/ /\ W # {}
        /\ watermark' = Greatest(W)
        /\ register' = write_token_map[Greatest(W)].value

WriteReturns(ts) == ApplyAndExtract(PendingUpTo(ts), {ts}, {})

ReadReturns(k, max) == ApplyAndExtract(PendingUpTo(max), {}, {k})

-----------------------------------------------------------------------------
(* The operation fails: its token is used, whatever became of it. *)

(* Mutation: a write that took effect stays in the queue. *)
RemovePendingWriteLin(ts) ==
  /\ pending_writes' = pending_writes \ {ts}
  /\ write_token_map' = Without(write_token_map, {ts})
  /\ UNCHANGED <<committed_to, completed_writes, reads, watermark, register>>

RemoveWriteLin(ts) ==
  /\ IF TsLe(ts, watermark)
     THEN /\ completed_writes' = completed_writes \ {ts}
          /\ UNCHANGED pending_writes
     ELSE /\ pending_writes' = pending_writes \ {ts}
          /\ UNCHANGED completed_writes
  /\ write_token_map' = Without(write_token_map, {ts})
  /\ UNCHANGED <<committed_to, reads, watermark, register>>

(* The register has held the value of read k since k was inserted. *)
HasTakenEffect(k) ==
  \E ts \in DOMAIN committed_to :
    /\ TsLe(read_token_map[k], ts)
    /\ TsLe(ts, watermark)
    /\ committed_to[ts] = k.value

(* Mutation: the completion is cleared instead of removed. *)
ClearReadLin(k) ==
  /\ IF HasTakenEffect(k)
     THEN /\ completed_reads' = [completed_reads EXCEPT ![k] = None]
          /\ UNCHANGED pending_reads
     ELSE /\ pending_reads' = pending_reads \ {k}
          /\ UNCHANGED completed_reads
  /\ read_token_map' = Without(read_token_map, {k})
  /\ UNCHANGED <<committed_to, writes, next_read_op, watermark, register>>

RemoveReadLin(k) ==
  /\ IF HasTakenEffect(k)
     THEN /\ completed_reads' = Without(completed_reads, {k})
          /\ UNCHANGED pending_reads
     ELSE /\ pending_reads' = pending_reads \ {k}
          /\ UNCHANGED completed_reads
  /\ read_token_map' = Without(read_token_map, {k})
  /\ UNCHANGED <<committed_to, writes, next_read_op, watermark, register>>

-----------------------------------------------------------------------------
(* The queue on its own: any operation whose precondition holds. *)
Next ==
  \/ \E ts \in Timestamps, value \in Values :
       /\ ts \notin DOMAIN write_token_map
       /\ InsertWriteLinearizer(ts, value)
  \/ \E value \in Values :
       /\ next_read_op < MaxReads
       /\ InsertReadLinearizer(value)
  \/ \E ts \in DOMAIN write_token_map :
       \/ ~ write_token_map[ts].committed /\ CommitValue(ts)
       \/ RemoveWriteLin(ts)
       \/ WriteReturns(ts)
  \/ \E k \in DOMAIN read_token_map :
       \/ RemoveReadLin(k)
       \/ \E max \in known_timestamps :
            /\ TsLe(read_token_map[k], max)
            /\ k.value = IF max \in DOMAIN committed_to
                         THEN committed_to[max] ELSE write_token_map[max].value
            /\ ReadReturns(k, max)

Spec == Init /\ [][Next]_vars

-----------------------------------------------------------------------------
(* Type correctness. *)
TypeOK ==
  /\ TsDefault \in DOMAIN committed_to
  /\ DOMAIN committed_to \subseteq Timestamps \cup {TsDefault}
  /\ committed_to \in [DOMAIN committed_to -> Values]
  /\ pending_writes \subseteq Timestamps
  /\ completed_writes \subseteq Timestamps
  /\ DOMAIN write_token_map \subseteq Timestamps
  /\ write_token_map \in [DOMAIN write_token_map -> WriteTokenVal]
  /\ pending_reads \subseteq ReadKey
  /\ DOMAIN completed_reads \subseteq ReadKey
  /\ completed_reads \in [DOMAIN completed_reads -> Timestamps \cup {TsDefault}]
  /\ DOMAIN read_token_map \subseteq ReadKey
  /\ read_token_map \in [DOMAIN read_token_map -> Timestamps \cup {TsDefault}]
  /\ next_read_op \in Nat
  /\ watermark \in Timestamps \cup {TsDefault}
  /\ register \in Values

(* basic_inv, and the register holds the value of the watermark: what is   *)
(* committed lies at or below the watermark, and every write in the queue  *)
(* that lies there has been committed.                                     *)
BasicInv ==
  /\ watermark \in DOMAIN committed_to
  /\ \A ts \in DOMAIN committed_to : TsLe(ts, watermark)
  /\ \A ts \in DOMAIN write_token_map :
       TsLe(ts, watermark) => ts \in DOMAIN committed_to
  /\ register = current_value

(* write_dom_inv: a write in the queue is either pending, beyond the       *)
(* watermark, or completed, with its own value committed.                  *)
WriteDomInv ==
  /\ DOMAIN write_token_map = pending_writes \cup completed_writes
  /\ \A ts \in pending_writes : TsLt(watermark, ts)
  /\ \A ts \in completed_writes :
       /\ ts \in DOMAIN committed_to
       /\ committed_to[ts] = write_token_map[ts].value

(* read_dom_inv: a read in the queue is either completed, at a timestamp   *)
(* of its value between its invocation and the watermark, or pending, and  *)
(* then the register has not held its value since it was invoked.          *)
ReadDomInv ==
  /\ DOMAIN read_token_map = pending_reads \cup DOMAIN completed_reads
  /\ pending_reads \cap DOMAIN completed_reads = {}
  /\ \A k \in DOMAIN read_token_map : /\ k.op < next_read_op
                                      /\ TsLe(read_token_map[k], watermark)
  /\ \A k \in DOMAIN completed_reads :
       /\ completed_reads[k] \in DOMAIN committed_to
       /\ committed_to[completed_reads[k]] = k.value
       /\ TsLe(read_token_map[k], completed_reads[k])
  /\ \A k \in pending_reads : ~ HasTakenEffect(k)

QueueInv == TypeOK /\ BasicInv /\ WriteDomInv /\ ReadDomInv
=============================================================================
