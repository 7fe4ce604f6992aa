-------------------------------- MODULE Abd ---------------------------------
(***************************************************************************)
(* The multi-writer ABD register: clients that read and write in two       *)
(* quorum phases over a set of replicas.  The network delivers a message   *)
(* late, out of order, never, and (if Duplicating) more than once; a link  *)
(* between a client and a server may break, for good or for a while.       *)
(*                                                                         *)
(* The variables min_ts and watermark are the ghost state of the code:     *)
(* watermark is the greatest timestamp a completed operation returned and  *)
(* min_ts[c] is what it was when c's operation was invoked.                *)
(*                                                                         *)
(* An operator whose comment starts with "Mutation:" is a slip a programmer *)
(* could make in the definition that follows it.  Next never uses it; it   *)
(* shows that a property would notice.                                     *)
(***************************************************************************)
EXTENDS Timestamps, FiniteSets

CONSTANTS
  Servers,      \* the replicas
  Clients,      \* client ids; id 0 is reserved for the initial value
  Values,       \* the values a register can hold (an Option<u64>)
  None,         \* the initial value
  Arguments,    \* bound: the values that clients write
  MaxWrites,    \* bound: c invokes at most MaxWrites[c] writes
  MaxRequests,  \* bound: c starts no operation after MaxRequests[c] requests
  Flaky,        \* the links <<c, s>> that may break
  Transient,    \* the links whose failure may pass
  Duplicating   \* may the network deliver a request twice?

ASSUME ServersAssumption == IsFiniteSet(Servers) /\ Servers # {}
ASSUME ClientsAssumption == Clients \subseteq Nat \ {0}
ASSUME ValuesAssumption  == None \in Values /\ Arguments \subseteq Values
ASSUME BoundsAssumption  == /\ MaxWrites \in [Clients -> Nat]
                            /\ MaxRequests \in [Clients -> Nat]
                            /\ Flaky \subseteq Clients \X Servers
                            /\ Transient \subseteq Flaky
                            /\ Duplicating \in BOOLEAN

VARIABLES
  server,         \* the register of each replica
  requests,       \* every request broadcast; its field to holds the servers
                  \*   it may still reach
  responses,      \* the responses in flight that a client waits for
  broken,         \* the links that are down
  phase,          \* what each client is waiting for
  request,        \* the request a client waits on
  request_ctr,    \* the next request id of a client
  client_ctr,     \* the next write number of a client
  new_value,      \* the argument of a client's write
  max_resp,       \* accumulator: the greatest timestamp seen, and its value
  agree_with_max, \* accumulator: the servers known to hold max_resp
  replies,        \* accumulator: the servers that answered this phase
  errors,         \* the servers whose channel failed in this phase
  min_ts,         \* ghost: the watermark when the operation was invoked
  watermark       \* ghost: the greatest timestamp an operation returned

ghosts == <<min_ts, watermark>>
accum  == <<max_resp, agree_with_max, replies, errors>>
client == <<phase, request, request_ctr, client_ctr, new_value>>
vars   == <<server, requests, responses, broken, client, accum, ghosts>>

-----------------------------------------------------------------------------
Register == [timestamp : Timestamp, value : Values]

Initial == [timestamp |-> TsDefault, value |-> None]

Request ==
  [client : Clients, id : Nat, type : {"Get", "GetTimestamp", "Write"},
   to : SUBSET Servers, timestamp : Timestamp, value : Values]

Response ==
  [client : Clients, id : Nat, type : {"Get", "GetTimestamp", "Write"},
   server : Servers, timestamp : Timestamp, value : Values]

Phases == {"idle", "get", "write_back", "get_timestamp", "write"}

NoRequest(c) ==
  [client |-> c, id |-> 0, type |-> "Get", to |-> {},
   timestamp |-> TsDefault, value |-> None]

quorum_size == Cardinality(Servers) \div 2 + 1

IsQuorum(S) == Cardinality(S) >= quorum_size

Quorums == {Q \in SUBSET Servers : IsQuorum(Q)}

Init ==
  /\ server         = [s \in Servers |-> Initial]
  /\ requests       = {}
  /\ responses      = {}
  /\ broken         = {}
  /\ phase          = [c \in Clients |-> "idle"]
  /\ request        = [c \in Clients |-> NoRequest(c)]
  /\ request_ctr    = [c \in Clients |-> 0]
  /\ client_ctr     = [c \in Clients |-> 0]
  /\ new_value      = [c \in Clients |-> None]
  /\ max_resp       = [c \in Clients |-> Initial]
  /\ agree_with_max = [c \in Clients |-> {}]
  /\ replies        = [c \in Clients |-> {}]
  /\ errors         = [c \in Clients |-> {}]
  /\ min_ts         = [c \in Clients |-> TsDefault]
  /\ watermark      = TsDefault

-----------------------------------------------------------------------------
(***************************************************************************)
(* Servers.  A request is handled by a server it was sent to; the response *)
(* carries the request's tag.                                              *)
(***************************************************************************)
(* Only the response to the request its client waits on is kept: one with  *)
(* an older tag stays in the client's buffer and is never looked at.       *)
Respond(s, r, timestamp, value) ==
  responses' =
    IF phase[r.client] # "idle" /\ request[r.client].id = r.id
    THEN responses \cup
           {[client |-> r.client, id |-> r.id, type |-> r.type, server |-> s,
             timestamp |-> timestamp, value |-> value]}
    ELSE responses

Consume(s, r) ==
  /\ s \in r.to
  /\ requests' = IF Duplicating THEN requests
                 ELSE (requests \ {r}) \cup {[r EXCEPT !.to = @ \ {s}]}

HandleGet(s, r) ==
  /\ r.type = "Get"
  /\ Consume(s, r)
  /\ Respond(s, r, server[s].timestamp, server[s].value)
  /\ UNCHANGED <<server, broken, client, accum, ghosts>>

HandleGetTimestamp(s, r) ==
  /\ r.type = "GetTimestamp"
  /\ Consume(s, r)
  /\ Respond(s, r, server[s].timestamp, None)
  /\ UNCHANGED <<server, broken, client, accum, ghosts>>

(* Mutation: the replica takes whatever it is sent. *)
HandleWriteUnguarded(s, r) ==
  /\ r.type = "Write"
  /\ Consume(s, r)
  /\ server' = [server EXCEPT ![s] = [timestamp |-> r.timestamp,
                                     value |-> r.value]]
  /\ Respond(s, r, TsDefault, None)
  /\ UNCHANGED <<broken, client, accum, ghosts>>

(* The replica keeps the newer of what it holds and what it is sent. *)
HandleWrite(s, r) ==
  /\ r.type = "Write"
  /\ Consume(s, r)
  /\ server' = IF TsLt(server[s].timestamp, r.timestamp)
               THEN [server EXCEPT ![s] = [timestamp |-> r.timestamp,
                                           value |-> r.value]]
               ELSE server
  /\ Respond(s, r, TsDefault, None)
  /\ UNCHANGED <<broken, client, accum, ghosts>>

Handle(s, r) == HandleGet(s, r) \/ HandleGetTimestamp(s, r) \/ HandleWrite(s, r)

-----------------------------------------------------------------------------
(***************************************************************************)
(* Clients.  Broadcasting takes a fresh request id and starts to collect   *)
(* replies and errors anew; a send on a broken link fails silently.        *)
(***************************************************************************)
(* Nobody looks at the responses to a request that is no longer current. *)
Forget(c) == responses' = {m \in responses : m.client # c}

(* Mutation: the request of a first phase does not take its id. *)
BroadcastReusesId(c, type, to, timestamp, value) ==
  LET r == [client |-> c, id |-> request_ctr[c], type |-> type,
            to |-> {s \in to : <<c, s>> \notin broken},
            timestamp |-> timestamp, value |-> value]
  IN  /\ requests'    = requests \cup {r}
      /\ request'     = [request EXCEPT ![c] = r]
      /\ request_ctr' = IF phase[c] = "idle" THEN request_ctr
                        ELSE [request_ctr EXCEPT ![c] = @ + 1]
      /\ Forget(c)
      /\ replies'     = [replies EXCEPT ![c] = {}]
      /\ errors'      = [errors EXCEPT ![c] = {}]

Broadcast(c, type, to, timestamp, value) ==
  LET r == [client |-> c, id |-> request_ctr[c], type |-> type,
            to |-> {s \in to : <<c, s>> \notin broken},
            timestamp |-> timestamp, value |-> value]
  IN  /\ requests'    = requests \cup {r}
      /\ request'     = [request EXCEPT ![c] = r]
      /\ request_ctr' = [request_ctr EXCEPT ![c] = @ + 1]
      /\ Forget(c)
      /\ replies'     = [replies EXCEPT ![c] = {}]
      /\ errors'      = [errors EXCEPT ![c] = {}]

Goto(c, p) == phase' = [phase EXCEPT ![c] = p]

Invoke(c) ==
  /\ phase[c] = "idle"
  /\ request_ctr[c] < MaxRequests[c]
  /\ min_ts' = [min_ts EXCEPT ![c] = watermark]

(* The operation ends and its locals go out of scope. *)
Leave(c) ==
  /\ Goto(c, "idle")
  /\ request'        = [request EXCEPT ![c] = NoRequest(c)]
  /\ new_value'      = [new_value EXCEPT ![c] = None]
  /\ max_resp'       = [max_resp EXCEPT ![c] = Initial]
  /\ agree_with_max' = [agree_with_max EXCEPT ![c] = {}]
  /\ replies'        = [replies EXCEPT ![c] = {}]
  /\ errors'         = [errors EXCEPT ![c] = {}]
  /\ min_ts'         = [min_ts EXCEPT ![c] = TsDefault]
  /\ Forget(c)
  /\ UNCHANGED <<server, requests, broken, request_ctr, client_ctr>>

Return(c, timestamp) == Leave(c) /\ watermark' = TsMax(watermark, timestamp)

(* A server's first response counts, any further one is ignored. *)
Receives(c, p, m) ==
  /\ phase[c] = p
  /\ m.client = c
  /\ m.server \notin replies[c]

(* Mutation: the other responses of the batch are dropped. *)
InsertReplyDropsBatch(c, m) ==
  /\ replies' = [replies EXCEPT ![c] = @ \cup {m.server}]
  /\ Forget(c)
  /\ UNCHANGED <<server, requests, broken, client, errors, ghosts>>

InsertReply(c, m) ==
  /\ replies' = [replies EXCEPT ![c] = @ \cup {m.server}]
  /\ responses' = responses \ {m}
  /\ UNCHANGED <<server, requests, broken, client, errors, ghosts>>

(* Mutation: a greater maximum does not reset the set of servers that hold  *)
(* it.                                                                     *)
UpdateMaxKeepsAgreement(c, m) ==
  /\ max_resp' = IF replies[c] = {} \/ TsLt(max_resp[c].timestamp, m.timestamp)
                 THEN [max_resp EXCEPT ![c] = [timestamp |-> m.timestamp,
                                               value |-> m.value]]
                 ELSE max_resp
  /\ agree_with_max' =
       IF replies[c] = {} \/ TsLe(max_resp[c].timestamp, m.timestamp)
       THEN [agree_with_max EXCEPT ![c] = @ \cup {m.server}]
       ELSE agree_with_max

(* update_max_resp_and_quorum: max_resp is None until the first reply. *)
UpdateMax(c, m) ==
  \/ /\ replies[c] = {} \/ TsLt(max_resp[c].timestamp, m.timestamp)
     /\ max_resp' = [max_resp EXCEPT ![c] = [timestamp |-> m.timestamp,
                                             value |-> m.value]]
     /\ agree_with_max' = [agree_with_max EXCEPT ![c] = {m.server}]
  \/ /\ replies[c] # {} /\ m.timestamp = max_resp[c].timestamp
     /\ agree_with_max' = [agree_with_max EXCEPT ![c] = @ \cup {m.server}]
     /\ UNCHANGED max_resp
  \/ /\ replies[c] # {} /\ TsLt(m.timestamp, max_resp[c].timestamp)
     /\ UNCHANGED <<max_resp, agree_with_max>>

-----------------------------------------------------------------------------
(* read *)
ReadInvoke(c) ==
  /\ Invoke(c)
  /\ Goto(c, "get")
  /\ Broadcast(c, "Get", Servers, TsDefault, None)
  /\ UNCHANGED <<server, broken, client_ctr, new_value, max_resp,
                 agree_with_max, watermark>>

InsertGet(c, m) ==
  /\ Receives(c, "get", m)
  /\ UpdateMax(c, m)
  /\ InsertReply(c, m)

(* Mutation: any quorum of replies is taken for agreement. *)
ReadUnanimousUnchecked(c) ==
  /\ phase[c] = "get"
  /\ IsQuorum(replies[c])
  /\ Return(c, max_resp[c].timestamp)

(* A quorum holds the maximum already: the read returns after one phase. *)
ReadUnanimous(c) ==
  /\ phase[c] = "get"
  /\ IsQuorum(replies[c])
  /\ IsQuorum(agree_with_max[c])
  /\ Return(c, max_resp[c].timestamp)

(* Mutation: the maximum is written back to the servers that hold it. *)
ReadWriteBackToHolders(c) ==
  /\ phase[c] = "get"
  /\ IsQuorum(replies[c])
  /\ ~ IsQuorum(agree_with_max[c])
  /\ Goto(c, "write_back")
  /\ Broadcast(c, "Write", agree_with_max[c],
               max_resp[c].timestamp, max_resp[c].value)
  /\ UNCHANGED <<server, broken, client_ctr, new_value, max_resp,
                 agree_with_max, ghosts>>

ReadWriteBack(c) ==
  /\ phase[c] = "get"
  /\ IsQuorum(replies[c])
  /\ ~ IsQuorum(agree_with_max[c])
  /\ Goto(c, "write_back")
  /\ Broadcast(c, "Write", Servers \ agree_with_max[c],
               max_resp[c].timestamp, max_resp[c].value)
  /\ UNCHANGED <<server, broken, client_ctr, new_value, max_resp,
                 agree_with_max, ghosts>>

InsertWriteBack(c, m) ==
  /\ Receives(c, "write_back", m)
  /\ agree_with_max' = [agree_with_max EXCEPT ![c] = @ \cup {m.server}]
  /\ UNCHANGED max_resp
  /\ InsertReply(c, m)

ReadReturn(c) ==
  /\ phase[c] = "write_back"
  /\ IsQuorum(agree_with_max[c])
  /\ Return(c, max_resp[c].timestamp)

-----------------------------------------------------------------------------
(* write *)

(* Mutation: the write number is not consumed. *)
WriteInvokeReusesCounter(c, v) ==
  /\ Invoke(c)
  /\ client_ctr[c] < MaxWrites[c]
  /\ Goto(c, "get_timestamp")
  /\ new_value'  = [new_value EXCEPT ![c] = v]
  /\ Broadcast(c, "GetTimestamp", Servers, TsDefault, None)
  /\ UNCHANGED <<server, broken, client_ctr, max_resp, agree_with_max, watermark>>

WriteInvoke(c, v) ==
  /\ Invoke(c)
  /\ client_ctr[c] < MaxWrites[c]
  /\ Goto(c, "get_timestamp")
  /\ client_ctr' = [client_ctr EXCEPT ![c] = @ + 1]
  /\ new_value'  = [new_value EXCEPT ![c] = v]
  /\ Broadcast(c, "GetTimestamp", Servers, TsDefault, None)
  /\ UNCHANGED <<server, broken, max_resp, agree_with_max, watermark>>

InsertGetTimestamp(c, m) ==
  /\ Receives(c, "get_timestamp", m)
  /\ UpdateMax(c, m)
  /\ InsertReply(c, m)

(* Mutation: the sequence number is that of the maximum. *)
ExecTimestampNotBeyond(c) ==
  [seqno |-> max_resp[c].timestamp.seqno, client_id |-> c,
   client_ctr |-> client_ctr[c] - 1]

(* Mutation: a failed write's timestamp may be taken again. *)
ExecTimestampWithoutCounter(c) ==
  [seqno |-> max_resp[c].timestamp.seqno + 1, client_id |-> c,
   client_ctr |-> 0]

ExecTimestamp(c) ==
  [seqno |-> max_resp[c].timestamp.seqno + 1, client_id |-> c,
   client_ctr |-> client_ctr[c] - 1]

WriteExecute(c) ==
  /\ phase[c] = "get_timestamp"
  /\ IsQuorum(replies[c])
  /\ Goto(c, "write")
  /\ Broadcast(c, "Write", Servers, ExecTimestamp(c), new_value[c])
  /\ max_resp'       = [max_resp EXCEPT ![c] = Initial]
  /\ agree_with_max' = [agree_with_max EXCEPT ![c] = {}]
  /\ UNCHANGED <<server, broken, client_ctr, new_value, ghosts>>

InsertWrite(c, m) ==
  /\ Receives(c, "write", m)
  /\ UNCHANGED <<max_resp, agree_with_max>>
  /\ InsertReply(c, m)

WriteReturn(c) ==
  /\ phase[c] = "write"
  /\ IsQuorum(replies[c])
  /\ Return(c, request[c].timestamp)

-----------------------------------------------------------------------------
(* Failures. *)
LinkBreaks(c, s) ==
  /\ <<c, s>> \in Flaky \ broken
  /\ broken' = broken \cup {<<c, s>>}
  /\ UNCHANGED <<server, requests, responses, client, accum, ghosts>>

(* The pool keeps a channel that failed, and uses it again. *)
LinkRecovers(c, s) ==
  /\ <<c, s>> \in broken \cap Transient
  /\ broken' = broken \ {<<c, s>>}
  /\ UNCHANGED <<server, requests, responses, client, accum, ghosts>>

(* The client polls every channel of its pool, whoever it waits for. *)
InsertError(c, s) ==
  /\ phase[c] # "idle"
  /\ <<c, s>> \in broken
  /\ s \notin errors[c]
  /\ errors' = [errors EXCEPT ![c] = @ \cup {s}]
  /\ UNCHANGED <<server, requests, responses, broken, client, max_resp,
                 agree_with_max, replies, ghosts>>

LinkFailure(c, s) == LinkBreaks(c, s) \/ LinkRecovers(c, s) \/ InsertError(c, s)

Terminated(c) ==
  IF phase[c] = "write_back" THEN IsQuorum(agree_with_max[c])
                             ELSE IsQuorum(replies[c])

n_received(c) == Cardinality(replies[c]) + Cardinality(errors[c])

(* wait_for gives up, and the read or write returns an error. *)
GiveUp(c) ==
  /\ phase[c] # "idle"
  /\ ~ Terminated(c)
  /\ n_received(c) >= Cardinality(Servers)
  /\ Leave(c)
  /\ UNCHANGED watermark

-----------------------------------------------------------------------------
Deliver(c, m) == \/ InsertGet(c, m) \/ InsertWriteBack(c, m)
                 \/ InsertGetTimestamp(c, m) \/ InsertWrite(c, m)

Advance(c) == \/ ReadUnanimous(c) \/ ReadWriteBack(c) \/ ReadReturn(c)
              \/ WriteExecute(c) \/ WriteReturn(c) \/ GiveUp(c)

Next ==
  \/ \E s \in Servers, r \in requests : Handle(s, r)
  \/ \E c \in Clients :
       \/ ReadInvoke(c)
       \/ \E v \in Arguments : WriteInvoke(c, v)
       \/ \E m \in responses : Deliver(c, m)
       \/ Advance(c)
       \/ \E s \in Servers : LinkFailure(c, s)

Spec == Init /\ [][Next]_vars

(***************************************************************************)
(* A server polls every connection for ever, and a waiting client polls    *)
(* every channel of its pool: a link that is up delivers what is sent on   *)
(* it, one that is down reports an error.  Nobody has to invoke an         *)
(* operation.                                                              *)
(***************************************************************************)
LinkUp(c, s) == <<c, s>> \notin broken

Fairness ==
  /\ \A c \in Clients, s \in Servers :
       /\ WF_vars(LinkUp(c, s) /\ \E r \in requests : r.client = c /\ Handle(s, r))
       /\ WF_vars(LinkUp(c, s) /\ \E m \in responses : m.server = s /\ Deliver(c, m))
       /\ WF_vars(InsertError(c, s))
  /\ \A c \in Clients : WF_vars(Advance(c))

FairSpec == Spec /\ Fairness
=============================================================================
