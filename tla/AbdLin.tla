------------------------------- MODULE AbdLin -------------------------------
(***************************************************************************)
(* The replicated register together with its linearization queue and its   *)
(* commitments: the ghost code that the client runs in the same atomic     *)
(* sections as its operations.                                             *)
(*                                                                         *)
(* An operation guesses, when it is invoked, what its prophecy variable    *)
(* will be resolved to: the sequence number that a write takes or the      *)
(* value that a read returns.  A run in which the guess turns out wrong    *)
(* stops there, as the verifier discards it.                               *)
(***************************************************************************)
EXTENDS AbdProperties

CONSTANTS
  Prophecies,  \* bound: the sequence numbers a write is prophesied
  MaxReads     \* bound: the number of reads, all clients together

VARIABLES
  committed_to, pending_writes, completed_writes, write_token_map,
  pending_reads, completed_reads, read_token_map, next_read_op, register,
  applied_to, \* the watermark of the queue
  allocated,  \* the commitments: timestamp to value
  token,      \* what each client holds of the queue
  outcome     \* the value that a client's last operation read or wrote; it
              \*   holds nothing while the operation runs, and if it failed

queue  == <<committed_to, pending_writes, completed_writes, write_token_map,
            pending_reads, completed_reads, read_token_map, next_read_op,
            register, applied_to>>
ghost  == <<queue, allocated, token, outcome>>
linvars == <<vars, ghost>>

ProphesiedTimestamps ==
  [seqno : Prophecies, client_id : Clients,
   client_ctr : UNION {0..MaxWrites[c] - 1 : c \in Clients}]

ASSUME PropheciesAssumption ==
  /\ Prophecies \subseteq Nat /\ IsFiniteSet(ProphesiedTimestamps)
  /\ MaxReads \in Nat

LQ == INSTANCE LinQueue WITH Timestamps <- ProphesiedTimestamps,
                             watermark <- applied_to

LinInit ==
  /\ Init
  /\ LQ!Init
  /\ allocated = [t \in {TsDefault} |-> None]
  /\ token     = [c \in Clients |-> TsDefault]
  /\ outcome   = [c \in Clients |-> {}]

Reading(c) == phase[c] \in {"get", "write_back"}
Writes(c)  == phase[c] \in {"get_timestamp", "write"}

Take(c, t) == token' = [token EXCEPT ![c] = t]

Outcome(c, S) == outcome' = [outcome EXCEPT ![c] = S]

-----------------------------------------------------------------------------
LinReadInvoke(c, value) ==
  /\ next_read_op < MaxReads
  /\ ReadInvoke(c)
  /\ LQ!InsertReadLinearizer(value)
  /\ Take(c, LQ!NextKey(value))
  /\ Outcome(c, {})
  /\ UNCHANGED allocated

(* The prophecy variable is resolved: the value is the one foretold. *)
Foretold(c) == Reading(c) /\ max_resp[c].value = token[c].value

LinReadReturn(c) ==
  /\ Foretold(c)
  /\ ReadUnanimous(c) \/ ReadReturn(c)
  /\ LQ!ReadReturns(token[c], max_resp[c].timestamp)
  /\ Take(c, TsDefault)
  /\ Outcome(c, {max_resp[c].value})
  /\ UNCHANGED allocated

LinReadWriteBack(c) ==
  /\ Foretold(c)
  /\ ReadWriteBack(c)
  /\ UNCHANGED ghost

LinWriteInvoke(c, v, seqno) ==
  LET ts == [seqno |-> seqno, client_id |-> c, client_ctr |-> client_ctr[c]]
  IN  /\ WriteInvoke(c, v)
      /\ LQ!InsertWriteLinearizer(ts, v)
      /\ allocated' = IF TsLt(applied_to, ts) THEN LQ!Put(allocated, ts, v)
                                              ELSE allocated
      /\ Take(c, ts)
      /\ Outcome(c, {})

(* Mutation: the linearizer is not committed to the second phase. *)
LinWriteExecuteUncommitted(c) ==
  /\ token[c] = ExecTimestamp(c)
  /\ WriteExecute(c)
  /\ UNCHANGED ghost

LinWriteExecute(c) ==
  /\ token[c] = ExecTimestamp(c)
  /\ WriteExecute(c)
  /\ LQ!CommitValue(token[c])
  /\ UNCHANGED <<allocated, token, outcome>>

LinWriteReturn(c) ==
  /\ WriteReturn(c)
  /\ LQ!WriteReturns(token[c])
  /\ Take(c, TsDefault)
  /\ Outcome(c, {new_value[c]})
  /\ UNCHANGED allocated

(* A read, or a write in its first phase, takes its linearizer back. *)
LinReadFails(c) ==
  /\ Reading(c)
  /\ LQ!RemoveReadLin(token[c])
  /\ UNCHANGED allocated

(* Mutation: the value of a write that failed stays allocated. *)
LinWriteFailsFirstAllocated(c) ==
  /\ phase[c] = "get_timestamp"
  /\ IF token[c] \in DOMAIN write_token_map THEN LQ!RemoveWriteLin(token[c])
                                            ELSE UNCHANGED queue
  /\ UNCHANGED allocated

(* The value of a write that has not taken effect is allocated no longer. *)
LinWriteFailsFirst(c) ==
  /\ phase[c] = "get_timestamp"
  /\ IF token[c] \in DOMAIN write_token_map
     THEN /\ LQ!RemoveWriteLin(token[c])
          /\ allocated' = IF token[c] \in pending_writes
                          THEN LQ!Without(allocated, {token[c]}) ELSE allocated
     ELSE UNCHANGED <<queue, allocated>>

(* Mutation: a write that fails in its second phase takes its linearizer   *)
(* back, while its requests are still in flight.                           *)
LinWriteFailsSecondAndForgets(c) ==
  /\ phase[c] = "write"
  /\ LQ!RemoveWriteLin(token[c])
  /\ UNCHANGED allocated

(* Mutation: the value of a write that fails in its second phase is no     *)
(* longer allocated, while its requests are still in flight.               *)
LinWriteFailsSecondTakesBack(c) ==
  /\ phase[c] = "write"
  /\ allocated' = LQ!Without(allocated, {token[c]} \cap pending_writes)
  /\ UNCHANGED queue

(* A write that fails in its second phase leaves its linearizer behind. *)
LinWriteFailsSecond(c) ==
  /\ phase[c] = "write"
  /\ UNCHANGED <<queue, allocated>>

LinGiveUp(c) ==
  /\ GiveUp(c)
  /\ LinReadFails(c) \/ LinWriteFailsFirst(c) \/ LinWriteFailsSecond(c)
  /\ Take(c, TsDefault)
  /\ UNCHANGED outcome

-----------------------------------------------------------------------------
LinNext ==
  \/ \E s \in Servers, r \in requests : Handle(s, r) /\ UNCHANGED ghost
  \/ \E c \in Clients :
       \/ \E value \in Values : LinReadInvoke(c, value)
       \/ \E v \in Arguments, n \in Prophecies : LinWriteInvoke(c, v, n)
       \/ \E m \in responses : Deliver(c, m) /\ UNCHANGED ghost
       \/ LinReadWriteBack(c)
       \/ LinReadReturn(c)
       \/ LinWriteExecute(c)
       \/ LinWriteReturn(c)
       \/ LinGiveUp(c)
       \/ \E s \in Servers : LinkFailure(c, s) /\ UNCHANGED ghost

LinSpec == LinInit /\ [][LinNext]_linvars

-----------------------------------------------------------------------------
(* The operations of the replicated register are those of one atomic       *)
(* register: this is what LinRegisterClient promises for read and write.   *)
Done(c)    == \/ Reading(c) /\ token[c] \in DOMAIN completed_reads
              \/ Writes(c) /\ token[c] \in completed_writes

Kind == [c \in Clients |-> CASE Reading(c) -> "read"
                              [] Writes(c)  -> "write"
                              [] OTHER      -> "idle"]

Effected == [c \in Clients |-> Done(c)]

Result == [c \in Clients |-> IF Reading(c) /\ Done(c) THEN token[c].value ELSE None]

(* The linearizers that failed writes have left behind. *)
Orphaned == pending_writes \ {token[c] : c \in Clients}

Orphans == {[timestamp |-> ts, value |-> write_token_map[ts].value] : ts \in Orphaned}

LR == INSTANCE LinRegister WITH
  kind <- Kind, arg <- new_value, done <- Effected, result <- Result, orphans <- Orphans

Linearizable == LR!Spec

(* Every call that the client makes of the queue meets its precondition.   *)
QueueIsUsedWell == LQ!Spec

(* The commitments as they stand: what the queue has applied is committed  *)
(* to, and so is what it will apply once its replicas may hold it.         *)
LC == INSTANCE Commitments WITH
  Timestamps <- ProphesiedTimestamps,
  Counters   <- UNION {0..MaxWrites[c] : c \in Clients},
  committed  <- DOMAIN allocated \
                  {ts \in pending_writes : ~ write_token_map[ts].committed},
  client_map <- [c \in {0} \cup Clients |->
                   IF c = 0 THEN 1 ELSE client_ctr[c]]

(* Every call that the client makes of the commitments meets its           *)
(* precondition: the timestamp that a write is prophesied to take, however *)
(* many of the client's writes failed before, has never been allocated,    *)
(* and no allocation is taken back that was committed to.                  *)
CommitmentsAreUsedWell ==
  LC!LoggedIn(Clients) /\ [][LC!Next]_(LC!comvars)

(* State::inv: the queue has applied every write up to the greatest        *)
(* timestamp returned, and none beyond; the commitments have allocated     *)
(* what the queue knows of; a timestamp found in the system, in a replica, *)
(* a message or an accumulator, is allocated with the value found with it; *)
(* and it is sent to replicas only once its linearizer is committed to it. *)
CommitmentsHold ==
  /\ applied_to = watermark
  /\ LQ!known_timestamps = DOMAIN allocated
  /\ \A p \in Pairs : /\ p.timestamp \in DOMAIN allocated
                      /\ p.value = allocated[p.timestamp]
  /\ \A r \in requests :
       r.type = "Write" /\ r.timestamp \in DOMAIN write_token_map
         => write_token_map[r.timestamp].committed
=============================================================================
