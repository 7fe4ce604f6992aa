----------------------------- MODULE AbdProofs ------------------------------
(***************************************************************************)
(* The ABD register is type correct and atomic for any number of servers,  *)
(* clients, values and operations, on a network that delays, reorders,     *)
(* loses and duplicates messages and whose links may break.                *)
(***************************************************************************)
EXTENDS AbdProperties, TimestampProofs, FiniteSetTheorems

LEMMA InitialType == Initial \in Register
BY TsDefaultType, ValuesAssumption DEF Initial, Register

LEMMA NoRequestType == ASSUME NEW c \in Clients PROVE NoRequest(c) \in Request
BY TsDefaultType, ValuesAssumption DEF NoRequest, Request

-----------------------------------------------------------------------------
(***************************************************************************)
(* Type correctness, action by action.                                     *)
(***************************************************************************)
LEMMA TypeInit == Init => TypeOK
<1>. USE InitialType, NoRequestType, TsDefaultType, ValuesAssumption
<1>. QED  BY DEF Init, TypeOK, Phases

LEMMA TypeRespond ==
  ASSUME TypeOK, NEW s \in Servers, NEW r \in requests,
         NEW timestamp \in Timestamp, NEW value \in Values,
         Respond(s, r, timestamp, value)
  PROVE  responses' \subseteq Response
BY DEF TypeOK, Respond, Request, Response

LEMMA TypeConsume ==
  ASSUME TypeOK, NEW s \in Servers, NEW r \in requests, Consume(s, r)
  PROVE  requests' \subseteq Request
<1>1. r \in Request
  BY DEF TypeOK
<1>2. r.to \ {s} \in SUBSET Servers
  BY <1>1 DEF Request
<1>3. [r EXCEPT !.to = @ \ {s}] \in Request
  BY <1>1, <1>2 DEF Request
<1>. QED  BY <1>3 DEF TypeOK, Consume

LEMMA TypeHandle ==
  ASSUME TypeOK, NEW s \in Servers, NEW r \in requests, Handle(s, r)
  PROVE  TypeOK'
<1>. USE TypeConsume, TypeRespond, ValuesAssumption, TsDefaultType
<1>1. r \in Request /\ server[s] \in Register
  BY DEF TypeOK
<1>2. CASE HandleGet(s, r)
  BY <1>1, <1>2 DEF HandleGet, TypeOK, Register, client, accum, ghosts
<1>3. CASE HandleGetTimestamp(s, r)
  BY <1>1, <1>3 DEF HandleGetTimestamp, TypeOK, Register, client, accum, ghosts
<1>4. CASE HandleWrite(s, r)
  BY <1>1, <1>4 DEF HandleWrite, TypeOK, Register, Request, client, accum, ghosts
<1>. QED  BY <1>2, <1>3, <1>4 DEF Handle

LEMMA TypeBroadcast ==
  ASSUME TypeOK, NEW c \in Clients, NEW type \in {"Get", "GetTimestamp", "Write"},
         NEW to \in SUBSET Servers, NEW timestamp \in Timestamp,
         NEW value \in Values, Broadcast(c, type, to, timestamp, value)
  PROVE  /\ requests' \subseteq Request
         /\ request' \in [Clients -> Request]
         /\ request_ctr' \in [Clients -> Nat]
         /\ responses' \subseteq Response
         /\ replies' \in [Clients -> SUBSET Servers]
         /\ errors' \in [Clients -> SUBSET Servers]
<1>. DEFINE r == [client |-> c, id |-> request_ctr[c], type |-> type,
                  to |-> {s \in to : <<c, s>> \notin broken},
                  timestamp |-> timestamp, value |-> value]
<1>1. r \in Request
  BY DEF TypeOK, Request
<1>2. /\ requests' = requests \cup {r}
      /\ request' = [request EXCEPT ![c] = r]
      /\ request_ctr' = [request_ctr EXCEPT ![c] = @ + 1]
      /\ responses' \subseteq responses
      /\ replies' = [replies EXCEPT ![c] = {}]
      /\ errors' = [errors EXCEPT ![c] = {}]
  BY DEF Broadcast, Forget
<1>. HIDE DEF r
<1>. QED  BY <1>1, <1>2 DEF TypeOK

LEMMA TypeLeave ==
  ASSUME TypeOK, NEW c \in Clients, Leave(c), watermark' \in Timestamp
  PROVE  TypeOK'
BY InitialType, NoRequestType, TsDefaultType, ValuesAssumption
DEF TypeOK, Leave, Goto, Forget, Phases

LEMMA TypeReturn ==
  ASSUME TypeOK, NEW c \in Clients, NEW timestamp \in Timestamp,
         Return(c, timestamp)
  PROVE  TypeOK'
BY TypeLeave DEF TypeOK, Return, TsMax

LEMMA TypeUpdateMax ==
  ASSUME TypeOK, NEW c \in Clients, NEW m \in responses, UpdateMax(c, m)
  PROVE  /\ max_resp' \in [Clients -> Register]
         /\ agree_with_max' \in [Clients -> SUBSET Servers]
<1>1. m \in Response /\ m.server \in Servers
  BY DEF TypeOK, Response
<1>2. [timestamp |-> m.timestamp, value |-> m.value] \in Register
  BY <1>1 DEF Response, Register
<1>. QED  BY <1>1, <1>2 DEF TypeOK, UpdateMax

LEMMA TypeDeliver ==
  ASSUME TypeOK, NEW c \in Clients, NEW m \in responses, Deliver(c, m)
  PROVE  TypeOK'
<1>1. m.server \in Servers
  BY DEF TypeOK, Response
<1>2. InsertReply(c, m)
  BY DEF Deliver, InsertGet, InsertWriteBack, InsertGetTimestamp, InsertWrite
<1>3. /\ max_resp' \in [Clients -> Register]
      /\ agree_with_max' \in [Clients -> SUBSET Servers]
  BY <1>1, TypeUpdateMax DEF TypeOK, Deliver, InsertGet, InsertWriteBack,
                             InsertGetTimestamp, InsertWrite
<1>. QED  BY <1>1, <1>2, <1>3 DEF TypeOK, InsertReply, client, ghosts

LEMMA ExecTimestampType ==
  ASSUME TypeOK, NEW c \in Clients, client_ctr[c] # 0
  PROVE  /\ ExecTimestamp(c) \in Timestamp
         /\ TsLt(max_resp[c].timestamp, ExecTimestamp(c))
<1>1. max_resp[c].timestamp \in Timestamp /\ c \in Nat /\ client_ctr[c] - 1 \in Nat
  BY ClientsAssumption DEF TypeOK, Register
<1>. QED  BY <1>1, TsBeyond DEF ExecTimestamp

LEMMA TypeInvoke ==
  ASSUME TypeOK, NEW c \in Clients,
         ReadInvoke(c) \/ \E v \in Arguments : WriteInvoke(c, v)
  PROVE  TypeOK'
<1>1. CASE ReadInvoke(c)
  <2>1. Broadcast(c, "Get", Servers, TsDefault, None)
    BY <1>1 DEF ReadInvoke
  <2>2. /\ requests' \subseteq Request
        /\ request' \in [Clients -> Request]
        /\ request_ctr' \in [Clients -> Nat]
        /\ responses' \subseteq Response
        /\ replies' \in [Clients -> SUBSET Servers]
        /\ errors' \in [Clients -> SUBSET Servers]
    BY <2>1, TypeBroadcast, TsDefaultType, ValuesAssumption
  <2>. QED  BY <1>1, <2>2 DEF ReadInvoke, TypeOK, Invoke, Goto, Phases
<1>2. CASE \E v \in Arguments : WriteInvoke(c, v)
  <2>1. PICK v \in Arguments : WriteInvoke(c, v)
    BY <1>2
  <2>2. Broadcast(c, "GetTimestamp", Servers, TsDefault, None)
    BY <2>1 DEF WriteInvoke
  <2>3. /\ requests' \subseteq Request
        /\ request' \in [Clients -> Request]
        /\ request_ctr' \in [Clients -> Nat]
        /\ responses' \subseteq Response
        /\ replies' \in [Clients -> SUBSET Servers]
        /\ errors' \in [Clients -> SUBSET Servers]
    BY <2>2, TypeBroadcast, TsDefaultType, ValuesAssumption
  <2>4. new_value' \in [Clients -> Values]
    BY <2>1, ValuesAssumption DEF WriteInvoke, TypeOK
  <2>5. /\ client_ctr' \in [Clients -> Nat]
        /\ phase' \in [Clients -> Phases]
        /\ min_ts' \in [Clients -> Timestamp]
    BY <2>1 DEF WriteInvoke, TypeOK, Invoke, Goto, Phases
  <2>. QED  BY <2>1, <2>3, <2>4, <2>5 DEF WriteInvoke, TypeOK
<1>. QED  BY <1>1, <1>2

LEMMA TypeReadWriteBack ==
  ASSUME TypeOK, NEW c \in Clients, ReadWriteBack(c)
  PROVE  TypeOK'
<1>1. max_resp[c] \in Register /\ Servers \ agree_with_max[c] \in SUBSET Servers
  BY DEF TypeOK
<1>2. max_resp[c].timestamp \in Timestamp /\ max_resp[c].value \in Values
  BY <1>1 DEF Register
<1>3. Broadcast(c, "Write", Servers \ agree_with_max[c],
                max_resp[c].timestamp, max_resp[c].value)
  BY DEF ReadWriteBack
<1>4. /\ requests' \subseteq Request
      /\ request' \in [Clients -> Request]
      /\ request_ctr' \in [Clients -> Nat]
      /\ responses' \subseteq Response
      /\ replies' \in [Clients -> SUBSET Servers]
      /\ errors' \in [Clients -> SUBSET Servers]
  BY <1>1, <1>2, <1>3, TypeBroadcast
<1>. QED  BY <1>4 DEF ReadWriteBack, TypeOK, Goto, Phases, ghosts

LEMMA TypeWriteExecute ==
  ASSUME TypeOK, NEW c \in Clients, WriteExecute(c), client_ctr[c] # 0
  PROVE  TypeOK'
<1>1. ExecTimestamp(c) \in Timestamp /\ new_value[c] \in Values
  BY ExecTimestampType DEF TypeOK
<1>2. Broadcast(c, "Write", Servers, ExecTimestamp(c), new_value[c])
  BY DEF WriteExecute
<1>3. /\ requests' \subseteq Request
      /\ request' \in [Clients -> Request]
      /\ request_ctr' \in [Clients -> Nat]
      /\ responses' \subseteq Response
      /\ replies' \in [Clients -> SUBSET Servers]
      /\ errors' \in [Clients -> SUBSET Servers]
  BY <1>1, <1>2, TypeBroadcast
<1>. QED  BY <1>3, InitialType DEF WriteExecute, TypeOK, Goto, Phases, ghosts

(* A client leaves an operation with a result or by giving up. *)
Leaves(c) == ReadUnanimous(c) \/ ReadReturn(c) \/ WriteReturn(c) \/ GiveUp(c)

LEMMA TypeLeaves ==
  ASSUME TypeOK, NEW c \in Clients, Leaves(c)
  PROVE  TypeOK'
<1>1. max_resp[c].timestamp \in Timestamp /\ request[c].timestamp \in Timestamp
  BY DEF TypeOK, Register, Request
<1>2. CASE ReadUnanimous(c)
  BY <1>1, <1>2, TypeReturn DEF ReadUnanimous
<1>3. CASE ReadReturn(c)
  BY <1>1, <1>3, TypeReturn DEF ReadReturn
<1>4. CASE WriteReturn(c)
  BY <1>1, <1>4, TypeReturn DEF WriteReturn
<1>5. CASE GiveUp(c)
  BY <1>5, TypeLeave DEF GiveUp, TypeOK
<1>. QED  BY <1>2, <1>3, <1>4, <1>5 DEF Leaves

LEMMA TypeFailure ==
  ASSUME TypeOK, NEW c \in Clients, NEW s \in Servers,
         LinkFailure(c, s)
  PROVE  TypeOK'
<1>1. CASE LinkBreaks(c, s)
  BY <1>1 DEF LinkBreaks, TypeOK, client, accum, ghosts
<1>2. CASE LinkRecovers(c, s)
  BY <1>2 DEF LinkRecovers, TypeOK, client, accum, ghosts
<1>3. CASE InsertError(c, s)
  BY <1>3 DEF InsertError, TypeOK, client, ghosts
<1>. QED  BY <1>1, <1>2, <1>3 DEF LinkFailure

(***************************************************************************)
(* Every step is of one of these kinds.                                    *)
(***************************************************************************)
LEMMA StepKinds ==
  ASSUME [Next]_vars
  PROVE  \/ \E s \in Servers, r \in requests : Handle(s, r)
         \/ \E c \in Clients : ReadInvoke(c)
         \/ \E c \in Clients, v \in Arguments : WriteInvoke(c, v)
         \/ \E c \in Clients : ReadWriteBack(c)
         \/ \E c \in Clients : WriteExecute(c)
         \/ \E c \in Clients, m \in responses : Deliver(c, m)
         \/ \E c \in Clients : Leaves(c)
         \/ \E c \in Clients, s \in Servers : LinkFailure(c, s)
         \/ UNCHANGED vars
BY DEF Next, Advance, Leaves
(* Everything but a handled request leaves the servers alone.              *)
LEMMA OnlyHandleWrites ==
  ASSUME [Next]_vars
  PROVE  \/ \E s \in Servers, r \in requests : HandleWrite(s, r)
         \/ UNCHANGED server
BY StepKinds
   DEF Handle, HandleGet, HandleGetTimestamp, ReadInvoke, WriteInvoke,
       ReadWriteBack, WriteExecute, Deliver, InsertGet, InsertGetTimestamp,
       InsertWriteBack, InsertWrite, InsertReply, Leaves, ReadUnanimous,
       ReadReturn, WriteReturn, Return, GiveUp, Leave, LinkFailure, LinkBreaks, LinkRecovers,
       InsertError, vars

LEMMA TypeStep ==
  ASSUME TypeOK, [Next]_vars,
         \A c \in Clients : phase[c] = "get_timestamp" => client_ctr[c] # 0
  PROVE  TypeOK'
<1>1. ASSUME NEW c \in Clients, WriteExecute(c)
      PROVE  client_ctr[c] # 0
  BY <1>1 DEF WriteExecute
<1>2. CASE UNCHANGED vars
  BY <1>2 DEF TypeOK, vars, client, accum, ghosts
<1>. QED  BY <1>1, <1>2, StepKinds, TypeHandle, TypeInvoke, TypeReadWriteBack,
             TypeWriteExecute, TypeDeliver, TypeLeaves, TypeFailure
-----------------------------------------------------------------------------
(***************************************************************************)
(* Replicas only go forward, and a response tells the truth about one.     *)
(***************************************************************************)
LEMMA FieldTypes ==
  ASSUME TypeOK
  PROVE  /\ \A s \in Servers : server[s].timestamp \in Timestamp
         /\ \A c \in Clients : /\ max_resp[c].timestamp \in Timestamp
                               /\ request[c].timestamp \in Timestamp
                               /\ min_ts[c] \in Timestamp
                               /\ request[c].id \in Nat
                               /\ request_ctr[c] \in Nat
         /\ \A r \in requests : /\ r.timestamp \in Timestamp
                                /\ r.client \in Clients
                                /\ r.id \in Nat
         /\ \A m \in responses : /\ m.timestamp \in Timestamp
                                 /\ m.client \in Clients
                                 /\ m.server \in Servers
<1>1. \A s \in Servers : server[s].timestamp \in Timestamp
  BY DEF TypeOK, Register
<1>2. \A c \in Clients : /\ max_resp[c].timestamp \in Timestamp
                         /\ request[c].timestamp \in Timestamp
                         /\ min_ts[c] \in Timestamp
                         /\ request[c].id \in Nat
                         /\ request_ctr[c] \in Nat
  BY DEF TypeOK, Register, Request
<1>3. \A r \in requests : /\ r.timestamp \in Timestamp
                          /\ r.client \in Clients
                          /\ r.id \in Nat
  BY DEF TypeOK, Request
<1>4. \A m \in responses : /\ m.timestamp \in Timestamp
                           /\ m.client \in Clients
                           /\ m.server \in Servers
  BY DEF TypeOK, Response
<1>. QED  BY <1>1, <1>2, <1>3, <1>4

LEMMA ServersAdvance ==
  ASSUME TypeOK, [Next]_vars, NEW s \in Servers
  PROVE  \/ server'[s] = server[s]
         \/ TsLt(server[s].timestamp, server'[s].timestamp)
<1>1. CASE UNCHANGED server
  BY <1>1
<1>2. ASSUME NEW t \in Servers, NEW r \in requests, HandleWrite(t, r)
      PROVE  \/ server'[s] = server[s]
             \/ TsLt(server[s].timestamp, server'[s].timestamp)
  BY <1>2 DEF HandleWrite, TypeOK
<1>. QED  BY <1>1, <1>2, OnlyHandleWrites

(* What a replica holds at least, it holds at least for ever. *)
LEMMA ServersKeep ==
  ASSUME TypeOK, TypeOK', [Next]_vars
  PROVE  \A s \in Servers : \A t \in Timestamp :
           TsLe(t, server[s].timestamp) => TsLe(t, server'[s].timestamp)
<1>. SUFFICES ASSUME NEW s \in Servers, NEW t \in Timestamp,
                     TsLe(t, server[s].timestamp)
              PROVE  TsLe(t, server'[s].timestamp)
  OBVIOUS
<1>1. server[s].timestamp \in Timestamp /\ server'[s].timestamp \in Timestamp
  BY FieldTypes DEF TypeOK, Register
<1>2. TsLe(server[s].timestamp, server'[s].timestamp)
  BY ServersAdvance DEF TsLe
<1>. QED  BY <1>1, <1>2, TsTransitive

LEMMA HandleFrame ==
  ASSUME NEW s \in Servers, NEW r \in requests, Handle(s, r)
  PROVE  /\ UNCHANGED <<broken, client, accum, ghosts>>
         /\ Consume(s, r)
BY DEF Handle, HandleGet, HandleGetTimestamp, HandleWrite

(* A new response carries the tag of the request, and a timestamp that the *)
(* replica holds, or acknowledges a write that it holds.                   *)
LEMMA HandleResponds ==
  ASSUME TypeOK, NEW s \in Servers, NEW r \in requests, Handle(s, r),
         NEW m \in responses', m \notin responses
  PROVE  /\ m.client = r.client /\ m.type = r.type /\ m.server = s
         /\ phase[r.client] # "idle" /\ request[r.client].id = r.id
         /\ m.type # "Write" => m.timestamp = server[s].timestamp
         /\ m.type = "Write" => TsLe(r.timestamp, server'[s].timestamp)
<1>1. CASE HandleGet(s, r)
  BY <1>1 DEF HandleGet, Respond
<1>2. CASE HandleGetTimestamp(s, r)
  BY <1>2 DEF HandleGetTimestamp, Respond
<1>3. CASE HandleWrite(s, r)
  <2>1. TsLe(r.timestamp, server'[s].timestamp)
    <3>1. server[s].timestamp \in Timestamp /\ r.timestamp \in Timestamp
      BY FieldTypes
    <3>. QED  BY <1>3, <3>1, TsTotal DEF HandleWrite, TypeOK, TsLe
  <2>. QED  BY <1>3, <2>1 DEF HandleWrite, Respond
<1>. QED  BY <1>1, <1>2, <1>3 DEF Handle

LEMMA RequestAfterHandle ==
  ASSUME NEW s \in Servers, NEW r \in requests, Consume(s, r), TypeOK,
         NEW q \in requests'
  PROVE  \E p \in requests : /\ q.client = p.client /\ q.id = p.id
                             /\ q.type = p.type /\ q.timestamp = p.timestamp
<1>1. r \in Request
  BY DEF TypeOK
<1>2. CASE q \in requests
  BY <1>2
<1>3. CASE q = [r EXCEPT !.to = @ \ {s}]
  BY <1>1, <1>3 DEF Request
<1>. QED  BY <1>2, <1>3 DEF Consume
-----------------------------------------------------------------------------
(***************************************************************************)
(* What each kind of client step changes, and for whom.                    *)
(***************************************************************************)
Others(c) ==
  \A d \in Clients \ {c} :
    /\ phase'[d] = phase[d]
    /\ request'[d] = request[d]
    /\ request_ctr'[d] = request_ctr[d]
    /\ client_ctr'[d] = client_ctr[d]
    /\ max_resp'[d] = max_resp[d]
    /\ agree_with_max'[d] = agree_with_max[d]
    /\ replies'[d] = replies[d]
    /\ min_ts'[d] = min_ts[d]

LEMMA BroadcastFrame ==
  ASSUME TypeOK, NEW c \in Clients, NEW type, NEW to, NEW timestamp, NEW value,
         Broadcast(c, type, to, timestamp, value)
  PROVE  /\ request'[c].client = c
         /\ request'[c].id = request_ctr[c]
         /\ request'[c].type = type
         /\ request'[c].timestamp = timestamp
         /\ requests' = requests \cup {request'[c]}
         /\ request_ctr'[c] = request_ctr[c] + 1
         /\ replies'[c] = {}
         /\ responses' \subseteq responses
         /\ \A m \in responses' : m.client # c
         /\ \A d \in Clients \ {c} : /\ request'[d] = request[d]
                                     /\ request_ctr'[d] = request_ctr[d]
                                     /\ replies'[d] = replies[d]
BY DEF TypeOK, Broadcast, Forget

LEMMA ReadInvokeFrame ==
  ASSUME TypeOK, NEW c \in Clients, ReadInvoke(c)
  PROVE  /\ phase'[c] = "get"
         /\ Broadcast(c, "Get", Servers, TsDefault, None)
         /\ min_ts'[c] = watermark
         /\ UNCHANGED <<server, watermark, max_resp, agree_with_max, client_ctr>>
         /\ Others(c)
<1>1. Broadcast(c, "Get", Servers, TsDefault, None)
  BY DEF ReadInvoke
<1>. QED  BY <1>1, BroadcastFrame DEF ReadInvoke, Invoke, Goto, Others, TypeOK

LEMMA WriteInvokeFrame ==
  ASSUME TypeOK, NEW c \in Clients, NEW v \in Arguments, WriteInvoke(c, v)
  PROVE  /\ phase'[c] = "get_timestamp"
         /\ Broadcast(c, "GetTimestamp", Servers, TsDefault, None)
         /\ min_ts'[c] = watermark
         /\ client_ctr'[c] = client_ctr[c] + 1
         /\ UNCHANGED <<server, watermark, max_resp, agree_with_max>>
         /\ Others(c)
<1>1. Broadcast(c, "GetTimestamp", Servers, TsDefault, None)
  BY DEF WriteInvoke
<1>2. \A d \in Clients \ {c} : /\ request'[d] = request[d]
                               /\ request_ctr'[d] = request_ctr[d]
                               /\ replies'[d] = replies[d]
  BY <1>1, BroadcastFrame
<1>. QED  BY <1>1, <1>2 DEF WriteInvoke, Invoke, Goto, Others, TypeOK

LEMMA ReadWriteBackFrame ==
  ASSUME TypeOK, NEW c \in Clients, ReadWriteBack(c)
  PROVE  /\ phase[c] = "get" /\ IsQuorum(replies[c])
         /\ phase'[c] = "write_back"
         /\ Broadcast(c, "Write", Servers \ agree_with_max[c],
                      max_resp[c].timestamp, max_resp[c].value)
         /\ UNCHANGED <<server, ghosts, max_resp, agree_with_max, client_ctr>>
         /\ Others(c)
<1>1. Broadcast(c, "Write", Servers \ agree_with_max[c],
                max_resp[c].timestamp, max_resp[c].value)
  BY DEF ReadWriteBack
<1>2. \A d \in Clients \ {c} : /\ request'[d] = request[d]
                               /\ request_ctr'[d] = request_ctr[d]
                               /\ replies'[d] = replies[d]
  BY <1>1, BroadcastFrame
<1>. QED  BY <1>1, <1>2 DEF ReadWriteBack, Goto, Others, TypeOK, ghosts

LEMMA WriteExecuteFrame ==
  ASSUME TypeOK, NEW c \in Clients, WriteExecute(c)
  PROVE  /\ phase[c] = "get_timestamp" /\ IsQuorum(replies[c])
         /\ phase'[c] = "write"
         /\ Broadcast(c, "Write", Servers, ExecTimestamp(c), new_value[c])
         /\ agree_with_max'[c] = {}
         /\ UNCHANGED <<server, ghosts, client_ctr>>
         /\ Others(c)
<1>1. Broadcast(c, "Write", Servers, ExecTimestamp(c), new_value[c])
  BY DEF WriteExecute
<1>2. \A d \in Clients \ {c} : /\ request'[d] = request[d]
                               /\ request_ctr'[d] = request_ctr[d]
                               /\ replies'[d] = replies[d]
  BY <1>1, BroadcastFrame
<1>. QED  BY <1>1, <1>2 DEF WriteExecute, Goto, Others, TypeOK, ghosts

LEMMA DeliverFrame ==
  ASSUME TypeOK, NEW c \in Clients, NEW m \in responses, Deliver(c, m)
  PROVE  /\ m.client = c
         /\ m.server \notin replies[c]
         /\ replies' = [replies EXCEPT ![c] = @ \cup {m.server}]
         /\ responses' \subseteq responses
         /\ UNCHANGED <<server, requests, client, ghosts>>
         /\ Others(c)
<1>1. InsertReply(c, m) /\ m.client = c /\ m.server \notin replies[c]
  BY DEF Deliver, InsertGet, InsertWriteBack, InsertGetTimestamp, InsertWrite,
         Receives
<1>2. \A d \in Clients \ {c} : /\ max_resp'[d] = max_resp[d]
                               /\ agree_with_max'[d] = agree_with_max[d]
  BY DEF Deliver, InsertGet, InsertWriteBack, InsertGetTimestamp, InsertWrite,
         UpdateMax, TypeOK
<1>3. \A d \in Clients \ {c} : replies'[d] = replies[d]
  BY <1>1 DEF InsertReply, TypeOK
<1>. QED  BY <1>1, <1>2, <1>3 DEF InsertReply, Others, client, ghosts

LEMMA LeaveFrame ==
  ASSUME TypeOK, NEW c \in Clients, Leaves(c)
  PROVE  /\ phase'[c] = "idle"
         /\ agree_with_max'[c] = {}
         /\ responses' \subseteq responses
         /\ \A m \in responses' : m.client # c
         /\ UNCHANGED <<server, requests, request_ctr, client_ctr>>
         /\ Others(c)
<1>1. Leave(c)
  BY DEF Leaves, ReadUnanimous, ReadReturn, WriteReturn, Return, GiveUp
<1>. QED  BY <1>1 DEF Leave, Goto, Forget, Others, TypeOK
-----------------------------------------------------------------------------
(***************************************************************************)
(* The inductive step, conjunct by conjunct.                               *)
(***************************************************************************)
LEMMA RequestsTaggedHandle ==
  ASSUME TypeOK, RequestsTagged, NEW s \in Servers, NEW r \in requests, Handle(s, r)
  PROVE  RequestsTagged'
<1>1. Consume(s, r) /\ UNCHANGED <<broken, client, accum, ghosts>>
  BY HandleFrame
<1>2. ASSUME NEW q \in requests'
      PROVE  /\ q.id < request_ctr'[q.client]
             /\ phase'[q.client] # "idle" /\ q.id = request'[q.client].id
                  => q.type = request'[q.client].type
                     /\ q.timestamp = request'[q.client].timestamp
  BY <1>1, RequestAfterHandle DEF RequestsTagged, client
<1>3. ASSUME NEW m \in responses'
      PROVE  phase'[m.client] # "idle" /\ m.type = request'[m.client].type
  BY <1>1, HandleResponds DEF RequestsTagged, client
<1>. QED  BY <1>1, <1>2, <1>3 DEF RequestsTagged, client, accum

(* A fresh request has an id of its own. *)
LEMMA RequestsTaggedBroadcast ==
  ASSUME TypeOK, RequestsTagged, NEW c \in Clients, NEW type, NEW to, NEW timestamp, NEW value,
         Broadcast(c, type, to, timestamp, value), Others(c),
         \/ phase'[c] = "get" /\ type = "Get"
         \/ phase'[c] = "get_timestamp" /\ type = "GetTimestamp" /\ client_ctr'[c] # 0
         \/ phase'[c] = "write" /\ type = "Write"
         \/ phase'[c] = "write_back" /\ type = "Write" /\ timestamp = max_resp'[c].timestamp
  PROVE  RequestsTagged'
<1>1. request_ctr[c] \in Nat
  BY DEF TypeOK
<1>2. ASSUME NEW q \in requests'
      PROVE  /\ q.id < request_ctr'[q.client]
             /\ phase'[q.client] # "idle" /\ q.id = request'[q.client].id
                  => q.type = request'[q.client].type
                     /\ q.timestamp = request'[q.client].timestamp
  <2>1. CASE q = request'[c]
    BY <1>1, <2>1, BroadcastFrame
  <2>2. CASE q \in requests /\ q.client = c
    <3>1. q.id < request_ctr[c] /\ q.id \in Nat
      BY <2>2, FieldTypes DEF RequestsTagged
    <3>. QED  BY <1>1, <2>2, <3>1, BroadcastFrame
  <2>3. CASE q \in requests /\ q.client # c
    <3>1. q.client \in Clients \ {c}
      BY <2>3, FieldTypes
    <3>. QED  BY <2>3, <3>1 DEF RequestsTagged, Others
  <2>. QED  BY <2>1, <2>2, <2>3, BroadcastFrame
<1>3. ASSUME NEW d \in Clients
      PROVE  /\ phase'[d] # "idle" => request'[d].id < request_ctr'[d]
             /\ phase'[d] = "get" => request'[d].type = "Get"
             /\ phase'[d] = "get_timestamp" => /\ request'[d].type = "GetTimestamp"
                                               /\ client_ctr'[d] # 0
             /\ phase'[d] = "write" => request'[d].type = "Write"
             /\ phase'[d] = "write_back" =>
                  /\ request'[d].type = "Write"
                  /\ request'[d].timestamp = max_resp'[d].timestamp
  <2>1. CASE d = c
    BY <1>1, <2>1, BroadcastFrame
  <2>2. CASE d # c
    BY <2>2 DEF RequestsTagged, Others
  <2>. QED  BY <2>1, <2>2
<1>4. ASSUME NEW m \in responses'
      PROVE  phase'[m.client] # "idle" /\ m.type = request'[m.client].type
  <2>1. m \in responses /\ m.client \in Clients \ {c}
    BY BroadcastFrame, FieldTypes
  <2>. QED  BY <2>1 DEF RequestsTagged, Others
<1>. QED  BY <1>2, <1>3, <1>4 DEF RequestsTagged

LEMMA RequestsTaggedDeliver ==
  ASSUME TypeOK, RequestsTagged, NEW c \in Clients, NEW m \in responses, Deliver(c, m)
  PROVE  RequestsTagged'
<1>1. /\ responses' \subseteq responses
      /\ UNCHANGED <<requests, client>>
  BY DeliverFrame
<1>2. ASSUME NEW d \in Clients, phase[d] = "write_back"
      PROVE  max_resp'[d] = max_resp[d]
  BY <1>2 DEF Deliver, InsertGet, InsertGetTimestamp, InsertWriteBack, InsertWrite,
              Receives, UpdateMax, TypeOK
<1>. QED  BY <1>1, <1>2 DEF RequestsTagged, client

LEMMA RequestsTaggedLeaves ==
  ASSUME TypeOK, RequestsTagged, NEW c \in Clients, Leaves(c)
  PROVE  RequestsTagged'
<1>1. ASSUME NEW q \in requests'
      PROVE  /\ q.id < request_ctr'[q.client]
             /\ phase'[q.client] # "idle" /\ q.id = request'[q.client].id
                  => q.type = request'[q.client].type
                     /\ q.timestamp = request'[q.client].timestamp
  <2>1. q \in requests /\ q.client \in Clients
    BY LeaveFrame, FieldTypes
  <2>. QED  BY <2>1, LeaveFrame DEF RequestsTagged, Others
<1>2. ASSUME NEW d \in Clients
      PROVE  /\ phase'[d] # "idle" => request'[d].id < request_ctr'[d]
             /\ phase'[d] = "get" => request'[d].type = "Get"
             /\ phase'[d] = "get_timestamp" => /\ request'[d].type = "GetTimestamp"
                                               /\ client_ctr'[d] # 0
             /\ phase'[d] = "write" => request'[d].type = "Write"
             /\ phase'[d] = "write_back" =>
                  /\ request'[d].type = "Write"
                  /\ request'[d].timestamp = max_resp'[d].timestamp
  BY LeaveFrame DEF RequestsTagged, Others
<1>3. ASSUME NEW m \in responses'
      PROVE  phase'[m.client] # "idle" /\ m.type = request'[m.client].type
  <2>1. m \in responses /\ m.client \in Clients \ {c}
    BY LeaveFrame, FieldTypes
  <2>. QED  BY <2>1, LeaveFrame DEF RequestsTagged, Others
<1>. QED  BY <1>1, <1>2, <1>3 DEF RequestsTagged

LEMMA RequestsTaggedStep ==
  ASSUME TypeOK, RequestsTagged, [Next]_vars
  PROVE  RequestsTagged'
<1>1. ASSUME NEW c \in Clients, ReadInvoke(c)  PROVE RequestsTagged'
  BY <1>1, ReadInvokeFrame, RequestsTaggedBroadcast
<1>2. ASSUME NEW c \in Clients, NEW v \in Arguments, WriteInvoke(c, v)
      PROVE  RequestsTagged'
  <2>1. client_ctr'[c] # 0
    BY <1>2, WriteInvokeFrame DEF TypeOK
  <2>. QED  BY <1>2, <2>1, WriteInvokeFrame, RequestsTaggedBroadcast
<1>3. ASSUME NEW c \in Clients, ReadWriteBack(c)  PROVE RequestsTagged'
  BY <1>3, ReadWriteBackFrame, RequestsTaggedBroadcast
<1>4. ASSUME NEW c \in Clients, WriteExecute(c)  PROVE RequestsTagged'
  BY <1>4, WriteExecuteFrame, RequestsTaggedBroadcast
<1>5. ASSUME NEW c \in Clients, NEW s \in Servers,
             LinkFailure(c, s)
      PROVE  RequestsTagged'
  BY <1>5 DEF LinkFailure, LinkBreaks, LinkRecovers, InsertError,
         RequestsTagged, client, accum
<1>6. CASE UNCHANGED vars
  BY <1>6 DEF vars, RequestsTagged, client, accum
<1>. QED  BY <1>1, <1>2, <1>3, <1>4, <1>5, <1>6, StepKinds, RequestsTaggedHandle,
             RequestsTaggedDeliver, RequestsTaggedLeaves
LEMMA InvTypeStep ==
  ASSUME TypeOK, RequestsTagged, [Next]_vars
  PROVE  /\ TypeOK'
         /\ \A s \in Servers : \A t \in Timestamp :
              TsLe(t, server[s].timestamp) => TsLe(t, server'[s].timestamp)
<1>1. TypeOK'
  BY TypeStep DEF RequestsTagged
<1>. QED  BY <1>1, ServersKeep

LEMMA ResponsesBoundStep ==
  ASSUME NEW T \in SUBSET Servers, TrustInv(T), [Next]_vars
  PROVE  ResponsesBound(T)'
<1>. USE DEF TrustInv
<1>1. ASSUME NEW m \in responses', m \in responses, m.server \in T,
             request'[m.client] = request[m.client]
      PROVE  TsLe(IF m.type = "Write" THEN request'[m.client].timestamp
                                      ELSE m.timestamp,
                  server'[m.server].timestamp)
  <2>1. /\ m.server \in Servers /\ m.timestamp \in Timestamp
        /\ request[m.client].timestamp \in Timestamp
    BY <1>1, FieldTypes
  <2>. DEFINE t == IF m.type = "Write" THEN request[m.client].timestamp
                                      ELSE m.timestamp
  <2>2. t \in Timestamp /\ TsLe(t, server[m.server].timestamp)
    BY <1>1, <2>1 DEF ResponsesBound
  <2>. HIDE DEF t
  <2>3. TsLe(t, server'[m.server].timestamp)
    BY <2>1, <2>2, InvTypeStep
  <2>. QED  BY <1>1, <2>3 DEF t
<1>2. ASSUME NEW s \in Servers, NEW r \in requests, Handle(s, r)
      PROVE  ResponsesBound(T)'
  <2>1. UNCHANGED request
    BY <1>2, HandleFrame DEF client
  <2>2. ASSUME NEW m \in responses', m \notin responses, m.server \in T
        PROVE  TsLe(IF m.type = "Write" THEN request'[m.client].timestamp
                                        ELSE m.timestamp,
                    server'[m.server].timestamp)
    <3>1. /\ m.client = r.client /\ m.type = r.type /\ m.server = s
          /\ phase[r.client] # "idle" /\ request[r.client].id = r.id
          /\ m.type # "Write" => m.timestamp = server[s].timestamp
          /\ m.type = "Write" => TsLe(r.timestamp, server'[s].timestamp)
      BY <1>2, <2>2, HandleResponds
    <3>2. r.timestamp = request[r.client].timestamp
      BY <3>1 DEF RequestsTagged
    <3>3. TsLe(server[s].timestamp, server'[s].timestamp)
      BY InvTypeStep, FieldTypes DEF TsLe
    <3>. QED  BY <2>1, <3>1, <3>2, <3>3
  <2>. QED  BY <1>1, <2>1, <2>2 DEF ResponsesBound
<1>3. ASSUME NEW c \in Clients, responses' \subseteq responses,
             \A m \in responses' : m.client # c, Others(c)
      PROVE  ResponsesBound(T)'
  <2>1. \A m \in responses' : request'[m.client] = request[m.client]
    BY <1>3, FieldTypes DEF Others
  <2>. QED  BY <1>1, <1>3, <2>1 DEF ResponsesBound
<1>4. ASSUME NEW c \in Clients,
             \/ ReadInvoke(c)
             \/ \E v \in Arguments : WriteInvoke(c, v)
             \/ ReadWriteBack(c)
             \/ WriteExecute(c)
      PROVE  ResponsesBound(T)'
  <2>1. /\ \E type, to, timestamp, value : Broadcast(c, type, to, timestamp, value)
        /\ Others(c)
    BY <1>4, ReadInvokeFrame, WriteInvokeFrame, ReadWriteBackFrame, WriteExecuteFrame
  <2>. QED  BY <1>3, <2>1, BroadcastFrame
<1>5. ASSUME NEW c \in Clients, Leaves(c)  PROVE ResponsesBound(T)'
  BY <1>3, <1>5, LeaveFrame
<1>6. ASSUME UNCHANGED request, responses' \subseteq responses
      PROVE  ResponsesBound(T)'
  BY <1>1, <1>6 DEF ResponsesBound
<1>7. ASSUME NEW c \in Clients, NEW m \in responses, Deliver(c, m)
      PROVE  ResponsesBound(T)'
  BY <1>6, <1>7, DeliverFrame DEF client
<1>8. ASSUME NEW c \in Clients, NEW s \in Servers,
             LinkFailure(c, s)
      PROVE  ResponsesBound(T)'
  BY <1>6, <1>8 DEF LinkFailure, LinkBreaks, LinkRecovers, InsertError,
         client
<1>9. CASE UNCHANGED vars
  BY <1>6, <1>9 DEF vars, client
<1>. QED  BY <1>2, <1>4, <1>5, <1>7, <1>8, <1>9, StepKinds

-----------------------------------------------------------------------------
(* A reply never lowers the maximum, nor leaves it below the reply. *)
LEMMA UpdateMaxBounds ==
  ASSUME TypeOK, NEW c \in Clients, NEW m \in responses, UpdateMax(c, m)
  PROVE  /\ TsLe(m.timestamp, max_resp'[c].timestamp)
         /\ replies[c] # {} => TsLe(max_resp[c].timestamp, max_resp'[c].timestamp)
         /\ \/ max_resp'[c] = max_resp[c] /\ agree_with_max'[c] = agree_with_max[c]
            \/ /\ max_resp'[c].timestamp = m.timestamp
               /\ agree_with_max'[c] = {m.server}
            \/ /\ max_resp'[c].timestamp = m.timestamp
               /\ max_resp'[c] = max_resp[c]
               /\ agree_with_max'[c] = agree_with_max[c] \cup {m.server}
<1>1. m.timestamp \in Timestamp /\ max_resp[c].timestamp \in Timestamp
  BY FieldTypes
<1>2. CASE /\ replies[c] = {} \/ TsLt(max_resp[c].timestamp, m.timestamp)
           /\ max_resp' = [max_resp EXCEPT ![c] = [timestamp |-> m.timestamp,
                                                   value |-> m.value]]
           /\ agree_with_max' = [agree_with_max EXCEPT ![c] = {m.server}]
  BY <1>1, <1>2 DEF TypeOK, TsLe
<1>3. CASE /\ replies[c] # {} /\ m.timestamp = max_resp[c].timestamp
           /\ agree_with_max' = [agree_with_max EXCEPT ![c] = @ \cup {m.server}]
           /\ UNCHANGED max_resp
  BY <1>1, <1>3 DEF TypeOK, TsLe
<1>4. CASE /\ replies[c] # {} /\ TsLt(m.timestamp, max_resp[c].timestamp)
           /\ UNCHANGED <<max_resp, agree_with_max>>
  BY <1>1, <1>4 DEF TsLe
<1>. QED  BY <1>2, <1>3, <1>4 DEF UpdateMax

LEMMA HoldersStay ==
  ASSUME NEW T \in SUBSET Servers, TrustInv(T), [Next]_vars, NEW c \in Clients,
         max_resp'[c] = max_resp[c], agree_with_max'[c] = agree_with_max[c],
         \/ phase'[c] # "write"
         \/ /\ phase'[c] = phase[c] /\ replies'[c] = replies[c]
            /\ request'[c] = request[c]
  PROVE  Holders(c, T)'
<1>1. /\ max_resp[c].timestamp \in Timestamp
      /\ request[c].timestamp \in Timestamp
      /\ agree_with_max[c] \subseteq Servers
      /\ replies[c] \subseteq Servers
  BY FieldTypes DEF TrustInv, TypeOK
<1>. QED  BY <1>1, InvTypeStep DEF TrustInv, HoldersHold, Holders

LEMMA HoldersDeliver ==
  ASSUME NEW T \in SUBSET Servers, TrustInv(T), [Next]_vars, NEW c \in Clients, NEW m \in responses, Deliver(c, m)
  PROVE  Holders(c, T)'
<1>1. /\ max_resp[c].timestamp \in Timestamp
      /\ request[c].timestamp \in Timestamp
      /\ agree_with_max[c] \subseteq Servers
      /\ replies[c] \subseteq Servers
      /\ m.server \in Servers /\ m.client = c
  BY FieldTypes, DeliverFrame DEF TrustInv, TypeOK
<1>2. UNCHANGED <<server, phase, request>>
  BY DeliverFrame DEF client, TrustInv
<1>3. m.server \in T => TsLe(IF m.type = "Write" THEN request[c].timestamp ELSE m.timestamp,
           server[m.server].timestamp)
  BY <1>1 DEF TrustInv, ResponsesBound
<1>4. m.type = request[c].type
  BY <1>1 DEF TrustInv, RequestsTagged
<1>5. ASSUME UpdateMax(c, m), phase[c] \in {"get", "get_timestamp"}
      PROVE  Holders(c, T)'
  <2>1. m.server \in T => TsLe(m.timestamp, server[m.server].timestamp)
    BY <1>3, <1>4, <1>5 DEF TrustInv, RequestsTagged
  <2>. QED  BY <1>2, <1>5, <2>1, UpdateMaxBounds DEF TrustInv, HoldersHold, Holders
<1>6. CASE InsertWriteBack(c, m)
  <2>1. m.server \in T => TsLe(max_resp[c].timestamp, server[m.server].timestamp)
    BY <1>3, <1>4, <1>6 DEF TrustInv, RequestsTagged, InsertWriteBack, Receives
  <2>. QED  BY <1>2, <1>6, <2>1
            DEF TrustInv, HoldersHold, Holders, InsertWriteBack, Receives, TypeOK
<1>7. CASE InsertWrite(c, m)
  <2>1. m.server \in T => TsLe(request[c].timestamp, server[m.server].timestamp)
    BY <1>3, <1>4, <1>7 DEF TrustInv, RequestsTagged, InsertWrite, Receives
  <2>2. replies'[c] = replies[c] \cup {m.server}
    BY DeliverFrame DEF TrustInv, TypeOK
  <2>. QED  BY <1>2, <1>7, <2>1, <2>2 DEF TrustInv, HoldersHold, Holders, InsertWrite
<1>. QED  BY <1>5, <1>6, <1>7 DEF Deliver, InsertGet, InsertGetTimestamp, Receives

LEMMA HoldersHoldStep ==
  ASSUME NEW T \in SUBSET Servers, TrustInv(T), [Next]_vars
  PROVE  HoldersHold(T)'
<1>. USE DEF TrustInv
<1>1. ASSUME NEW c \in Clients, NEW d \in Clients \ {c}, Others(c)
      PROVE  Holders(d, T)'
  BY <1>1, HoldersStay DEF Others
<1>2. ASSUME UNCHANGED <<phase, request, max_resp, agree_with_max, replies>>
      PROVE  HoldersHold(T)'
  BY <1>2, HoldersStay DEF HoldersHold, Holders
<1>3. ASSUME NEW c \in Clients,
             ReadInvoke(c) \/ (\E v \in Arguments : WriteInvoke(c, v)) \/ ReadWriteBack(c)
      PROVE  HoldersHold(T)'
  <2>1. /\ Others(c) /\ UNCHANGED <<max_resp, agree_with_max>>
        /\ phase'[c] # "write"
    BY <1>3, ReadInvokeFrame, WriteInvokeFrame, ReadWriteBackFrame
  <2>. QED  BY <1>1, <2>1, HoldersStay DEF HoldersHold, Holders
<1>4. ASSUME NEW c \in Clients, WriteExecute(c)
      PROVE  HoldersHold(T)'
  <2>1. Others(c) /\ agree_with_max'[c] = {} /\ replies'[c] = {}
    BY <1>4, WriteExecuteFrame, BroadcastFrame
  <2>. QED  BY <1>1, <2>1 DEF HoldersHold, Holders
<1>5. ASSUME NEW c \in Clients, Leaves(c)
      PROVE  HoldersHold(T)'
  BY <1>1, <1>5, LeaveFrame DEF HoldersHold, Holders
<1>6. ASSUME NEW c \in Clients, NEW m \in responses, Deliver(c, m)
      PROVE  HoldersHold(T)'
  BY <1>1, <1>6, HoldersDeliver, DeliverFrame DEF HoldersHold, Holders
<1>7. ASSUME NEW s \in Servers, NEW r \in requests, Handle(s, r)
      PROVE  HoldersHold(T)'
  BY <1>2, <1>7, HandleFrame DEF client, accum
<1>8. ASSUME NEW c \in Clients, NEW s \in Servers,
             LinkFailure(c, s)
      PROVE  HoldersHold(T)'
  BY <1>2, <1>8 DEF LinkFailure, LinkBreaks, LinkRecovers, InsertError,
         client, accum
<1>9. CASE UNCHANGED vars
  BY <1>2, <1>9 DEF vars, client, accum
<1>. QED  BY <1>3, <1>4, <1>5, <1>6, <1>7, <1>8, <1>9, StepKinds
-----------------------------------------------------------------------------
(***************************************************************************)
(* Quorums: any two majorities share a server.                             *)
(***************************************************************************)
LEMMA QuorumsIntersect ==
  ASSUME NEW P \in SUBSET Servers, NEW Q \in SUBSET Servers,
         IsQuorum(P), IsQuorum(Q)
  PROVE  P \cap Q # {}
<1>1. /\ IsFiniteSet(P) /\ IsFiniteSet(Q) /\ IsFiniteSet(P \cup Q)
      /\ Cardinality(P \cup Q) <= Cardinality(Servers)
      /\ Cardinality(P \cup Q)
           = Cardinality(P) + Cardinality(Q) - Cardinality(P \cap Q)
  BY ServersAssumption, FS_Subset, FS_Union
<1>2. /\ Cardinality(P) \in Nat /\ Cardinality(Q) \in Nat
      /\ Cardinality(Servers) \in Nat
  BY <1>1, ServersAssumption, FS_CardinalityType
<1>3. Cardinality(P \cap Q) # 0
  BY <1>1, <1>2 DEF IsQuorum, quorum_size
<1>. QED  BY <1>3, FS_EmptySet

(* Every quorum meets a quorum whose members all hold t. *)
LEMMA HeldByQuorum ==
  ASSUME NEW T \in SUBSET Servers, NEW H \in SUBSET Servers, IsQuorum(H), NEW t,
         \A s \in H \cap T : TsLe(t, server[s].timestamp)
  PROVE  \A Q \in QuorumsOf(T) : \E s \in Q : TsLe(t, server[s].timestamp)
BY QuorumsIntersect DEF Quorums, QuorumsOf

LEMMA FreshQuorum ==
  ASSUME NEW T \in SUBSET Servers, TrustInv(T), NEW c \in Clients, phase[c] \in {"get", "get_timestamp"},
         IsQuorum(replies[c]), replies[c] \subseteq T
  PROVE  TsLe(min_ts[c], max_resp[c].timestamp)
<1>1. replies[c] \in QuorumsOf(T)
  BY DEF TrustInv, TypeOK, Quorums, QuorumsOf
<1>. QED  BY <1>1 DEF TrustInv, QuorumsAreFresh, Fresh, FreshFor

-----------------------------------------------------------------------------
(* A server stays fresh for a client as long as the client is in its phase. *)
LEMMA FreshForStays ==
  ASSUME TypeOK, RequestsTagged, [Next]_vars, NEW c \in Clients, NEW s \in Servers, FreshFor(c, s),
         min_ts'[c] = min_ts[c], max_resp'[c] = max_resp[c],
         replies'[c] = replies[c],
         \A m \in responses' \ responses :
           m.client = c /\ m.server = s => TsLe(min_ts[c], m.timestamp)
  PROVE  FreshFor(c, s)'
<1>1. min_ts[c] \in Timestamp
  BY FieldTypes
<1>2. TsLe(min_ts[c], server'[s].timestamp)
  BY <1>1, InvTypeStep DEF FreshFor
<1>. QED  BY <1>2 DEF FreshFor

LEMMA FreshForHandle ==
  ASSUME TypeOK, RequestsTagged, [Next]_vars, NEW c \in Clients, NEW s \in Servers, FreshFor(c, s),
         phase[c] \in {"get", "get_timestamp"},
         NEW t \in Servers, NEW r \in requests, Handle(t, r)
  PROVE  FreshFor(c, s)'
<1>1. UNCHANGED <<min_ts, max_resp, replies>>
  BY HandleFrame DEF accum, ghosts
<1>2. ASSUME NEW m \in responses' \ responses, m.client = c, m.server = s
      PROVE  TsLe(min_ts[c], m.timestamp)
  <2>1. /\ m.client = r.client /\ m.type = r.type /\ m.server = t
        /\ phase[r.client] # "idle" /\ request[r.client].id = r.id
        /\ m.type # "Write" => m.timestamp = server[t].timestamp
    BY HandleResponds
  <2>2. m.type = request[c].type
    BY <1>2, <2>1 DEF RequestsTagged
  <2>3. m.type # "Write"
    BY <2>2 DEF RequestsTagged
  <2>. QED  BY <1>2, <2>1, <2>3 DEF FreshFor
<1>. QED  BY <1>1, <1>2, FreshForStays

LEMMA FreshForDeliver ==
  ASSUME TypeOK, RequestsTagged, [Next]_vars, NEW c \in Clients, NEW s \in Servers, FreshFor(c, s),
         phase[c] \in {"get", "get_timestamp"},
         NEW m \in responses, Deliver(c, m)
  PROVE  FreshFor(c, s)'
<1>1. UpdateMax(c, m)
  BY DEF Deliver, InsertGet, InsertGetTimestamp, InsertWriteBack, InsertWrite,
         Receives
<1>2. /\ min_ts[c] \in Timestamp /\ m.timestamp \in Timestamp
      /\ max_resp[c].timestamp \in Timestamp /\ max_resp'[c].timestamp \in Timestamp
  BY InvTypeStep, FieldTypes DEF TypeOK, Register
<1>3. /\ m.client = c /\ replies'[c] = replies[c] \cup {m.server}
      /\ responses' \subseteq responses
      /\ UNCHANGED <<server, min_ts>>
  BY DeliverFrame DEF TypeOK, ghosts
<1>4. /\ TsLe(m.timestamp, max_resp'[c].timestamp)
      /\ replies[c] # {} => TsLe(max_resp[c].timestamp, max_resp'[c].timestamp)
  BY <1>1, UpdateMaxBounds
<1>5. s \in replies'[c] => TsLe(min_ts[c], max_resp'[c].timestamp)
  <2>1. CASE s \in replies[c]
    BY <1>2, <1>4, <2>1, TsTransitive DEF FreshFor
  <2>2. CASE s = m.server
    BY <1>2, <1>3, <1>4, <2>2, TsTransitive DEF FreshFor
  <2>. QED  BY <1>3, <2>1, <2>2
<1>. QED  BY <1>3, <1>5 DEF FreshFor

(* When an operation starts, every quorum knows of what returned before. *)
LEMMA FreshForInvoke ==
  ASSUME NEW c \in Clients, NEW s \in Servers,
         TsLe(watermark, server[s].timestamp),
         UNCHANGED server, min_ts'[c] = watermark, replies'[c] = {},
         \A m \in responses' : m.client # c
  PROVE  FreshFor(c, s)'
BY DEF FreshFor

LEMMA FreshKept ==
  ASSUME NEW T \in SUBSET Servers, TrustInv(T), NEW c \in Clients, phase'[c] = phase[c],
         \A s \in Servers : FreshFor(c, s) /\ phase[c] \in {"get", "get_timestamp"}
            => FreshFor(c, s)'
  PROVE  Fresh(c, T)'
<1>1. \A Q \in Quorums : Q \subseteq Servers
  BY DEF Quorums
<1>. QED  BY <1>1 DEF TrustInv, QuorumsAreFresh, Fresh, QuorumsOf, Quorums, IsQuorum, quorum_size

LEMMA FreshOthers ==
  ASSUME NEW T \in SUBSET Servers, TrustInv(T), [Next]_vars, NEW c \in Clients, NEW d \in Clients \ {c}, Others(c),
         responses' \subseteq responses
  PROVE  Fresh(d, T)'
<1>1. \A s \in Servers : FreshFor(d, s) => FreshFor(d, s)'
  BY FreshForStays DEF Others, TrustInv
<1>. QED  BY <1>1, FreshKept DEF Others

LEMMA FreshInvoked ==
  ASSUME NEW T \in SUBSET Servers, TrustInv(T), NEW c \in Clients,
         UNCHANGED server, min_ts'[c] = watermark, replies'[c] = {},
         \A m \in responses' : m.client # c
  PROVE  Fresh(c, T)'
<1>1. \A s \in Servers : TsLe(watermark, server[s].timestamp) => FreshFor(c, s)'
  BY FreshForInvoke
<1>2. \A Q \in Quorums : Q \subseteq Servers
  BY DEF Quorums
<1>. QED  BY <1>1, <1>2 DEF TrustInv, Covered, QuorumsOf, Fresh, Quorums, IsQuorum,
                            quorum_size

LEMMA QuorumsAreFreshStep ==
  ASSUME NEW T \in SUBSET Servers, TrustInv(T), [Next]_vars
  PROVE  QuorumsAreFresh(T)'
<1>. SUFFICES ASSUME NEW d \in Clients PROVE Fresh(d, T)'
  BY DEF QuorumsAreFresh, Fresh
<1>. USE DEF TrustInv
<1>1. ASSUME NEW s \in Servers, NEW r \in requests, Handle(s, r)
      PROVE  Fresh(d, T)'
  BY <1>1, FreshForHandle, FreshKept, HandleFrame DEF client
<1>2. ASSUME NEW c \in Clients,
             ReadInvoke(c) \/ \E v \in Arguments : WriteInvoke(c, v)
      PROVE  Fresh(d, T)'
  <2>1. /\ \E type, to, timestamp, value : Broadcast(c, type, to, timestamp, value)
        /\ Others(c) /\ UNCHANGED server /\ min_ts'[c] = watermark
    BY <1>2, ReadInvokeFrame, WriteInvokeFrame
  <2>2. responses' \subseteq responses /\ replies'[c] = {} /\ \A m \in responses' : m.client # c
    BY <2>1, BroadcastFrame
  <2>. QED  BY <2>1, <2>2, FreshInvoked, FreshOthers
<1>3. ASSUME NEW c \in Clients, ReadWriteBack(c) \/ WriteExecute(c)
      PROVE  Fresh(d, T)'
  <2>1. /\ \E type, to, timestamp, value : Broadcast(c, type, to, timestamp, value)
        /\ Others(c) /\ phase'[c] \in {"write_back", "write"}
    BY <1>3, ReadWriteBackFrame, WriteExecuteFrame
  <2>2. responses' \subseteq responses
    BY <2>1, BroadcastFrame
  <2>. QED  BY <2>1, <2>2, FreshOthers DEF Fresh
<1>4. ASSUME NEW c \in Clients, NEW m \in responses, Deliver(c, m)
      PROVE  Fresh(d, T)'
  <2>1. Others(c) /\ responses' \subseteq responses /\ UNCHANGED phase
    BY <1>4, DeliverFrame DEF client
  <2>2. d = c => Fresh(d, T)'
    BY <1>4, <2>1, FreshForDeliver, FreshKept
  <2>. QED  BY <2>1, <2>2, FreshOthers
<1>5. ASSUME NEW c \in Clients, Leaves(c)
      PROVE  Fresh(d, T)'
  <2>1. Others(c) /\ responses' \subseteq responses /\ phase'[c] = "idle"
    BY <1>5, LeaveFrame
  <2>. QED  BY <2>1, FreshOthers DEF Fresh
<1>6. ASSUME UNCHANGED <<phase, min_ts, max_resp, replies, responses>>
      PROVE  Fresh(d, T)'
  BY <1>6, FreshForStays, FreshKept
<1>7. ASSUME NEW c \in Clients, NEW s \in Servers,
             LinkFailure(c, s)
      PROVE  Fresh(d, T)'
  BY <1>6, <1>7 DEF LinkFailure, LinkBreaks, LinkRecovers, InsertError,
         client, accum, ghosts
<1>8. CASE UNCHANGED vars
  BY <1>6, <1>8 DEF vars, client, accum, ghosts
<1>. QED  BY <1>1, <1>2, <1>3, <1>4, <1>5, <1>7, <1>8, StepKinds
-----------------------------------------------------------------------------
LEMMA CoverKept ==
  ASSUME NEW T \in SUBSET Servers, TrustInv(T), [Next]_vars, UNCHANGED watermark
  PROVE  Covered(T)'
<1>1. watermark \in Timestamp /\ \A Q \in Quorums : Q \subseteq Servers
  BY DEF TrustInv, TypeOK, Quorums
<1>. QED  BY <1>1, InvTypeStep
          DEF TrustInv, Covered, QuorumsOf, Quorums, IsQuorum, quorum_size

(* What an operation returns is held by the quorum that answered it. *)
LEMMA CoverReturn ==
  ASSUME NEW T \in SUBSET Servers, TrustInv(T), [Next]_vars, NEW c \in Clients, NEW t \in Timestamp,
         NEW H \in SUBSET Servers, IsQuorum(H),
         \A s \in H \cap T : TsLe(t, server[s].timestamp), Return(c, t)
  PROVE  Covered(T)'
<1>1. UNCHANGED server /\ watermark' \in {watermark, t}
  BY TsMaxBounds DEF Return, Leave, TrustInv, TypeOK
<1>2. \A Q \in QuorumsOf(T) : \E s \in Q : TsLe(t, server[s].timestamp)
  BY HeldByQuorum
<1>. QED  BY <1>1, <1>2
          DEF TrustInv, Covered, QuorumsOf, Quorums, IsQuorum, quorum_size

LEMMA CoveredStep ==
  ASSUME NEW T \in SUBSET Servers, TrustInv(T), [Next]_vars
  PROVE  Covered(T)'
<1>. USE DEF TrustInv
<1>1. \A c \in Clients : /\ agree_with_max[c] \in SUBSET Servers
                         /\ replies[c] \in SUBSET Servers
                         /\ max_resp[c].timestamp \in Timestamp
                         /\ request[c].timestamp \in Timestamp
  BY FieldTypes DEF TypeOK
<1>2. ASSUME NEW c \in Clients, Leaves(c)
      PROVE  Covered(T)'
  <2>1. CASE ReadUnanimous(c) \/ ReadReturn(c)
    <3>1. IsQuorum(agree_with_max[c]) /\ Return(c, max_resp[c].timestamp)
      BY <2>1 DEF ReadUnanimous, ReadReturn
    <3>2. \A s \in agree_with_max[c] \cap T :
            TsLe(max_resp[c].timestamp, server[s].timestamp)
      BY DEF HoldersHold, Holders
    <3>. QED  BY <1>1, <3>1, <3>2, CoverReturn
  <2>2. CASE WriteReturn(c)
    <3>1. /\ phase[c] = "write" /\ IsQuorum(replies[c])
          /\ Return(c, request[c].timestamp)
      BY <2>2 DEF WriteReturn
    <3>2. \A s \in replies[c] \cap T : TsLe(request[c].timestamp, server[s].timestamp)
      BY <3>1 DEF HoldersHold, Holders
    <3>. QED  BY <1>1, <3>1, <3>2, CoverReturn
  <2>3. CASE GiveUp(c)
    BY <2>3, CoverKept DEF GiveUp
  <2>. QED  BY <1>2, <2>1, <2>2, <2>3 DEF Leaves
<1>3. ASSUME NEW s \in Servers, NEW r \in requests, Handle(s, r)
      PROVE  Covered(T)'
  BY <1>3, HandleFrame, CoverKept DEF ghosts
<1>4. ASSUME NEW c \in Clients,
             \/ ReadInvoke(c)
             \/ \E v \in Arguments : WriteInvoke(c, v)
             \/ ReadWriteBack(c)
             \/ WriteExecute(c)
      PROVE  Covered(T)'
  BY <1>4, ReadInvokeFrame, WriteInvokeFrame, ReadWriteBackFrame,
     WriteExecuteFrame, CoverKept DEF ghosts
<1>5. ASSUME NEW c \in Clients, NEW m \in responses, Deliver(c, m)
      PROVE  Covered(T)'
  BY <1>5, DeliverFrame, CoverKept DEF ghosts
<1>6. ASSUME NEW c \in Clients, NEW s \in Servers,
             LinkFailure(c, s)
      PROVE  Covered(T)'
  BY <1>6, CoverKept DEF LinkFailure, LinkBreaks, LinkRecovers, InsertError,
         ghosts
<1>7. CASE UNCHANGED vars
  BY <1>7, CoverKept DEF vars, ghosts
<1>. QED  BY <1>2, <1>3, <1>4, <1>5, <1>6, <1>7, StepKinds

-----------------------------------------------------------------------------
(* With every server trusted, the parts of TrustInv are those of Inv. *)
LEMMA QuorumsOfServers == QuorumsOf(Servers) = Quorums
BY DEF QuorumsOf, Quorums

LEMMA InvTrusts == Inv => TrustInv(Servers)
BY QuorumsOfServers DEF Inv, TrustInv, Covered, QuorumsCoverWatermark

LEMMA FreshGet ==
  ASSUME Inv, NEW c \in Clients, phase[c] \in {"get", "get_timestamp"},
         IsQuorum(replies[c])
  PROVE  TsLe(min_ts[c], max_resp[c].timestamp)
<1>1. replies[c] \subseteq Servers
  BY DEF Inv, TypeOK
<1>. QED  BY <1>1, InvTrusts, FreshQuorum

(* The timestamp an operation settles on. *)
Settled(c) ==
  /\ phase[c] = "write_back" => TsLe(min_ts[c], max_resp[c].timestamp)
  /\ phase[c] = "write" => TsLt(min_ts[c], request[c].timestamp)

LEMMA SettledKept ==
  ASSUME Inv, NEW c \in Clients, phase'[c] = phase[c], min_ts'[c] = min_ts[c],
         request'[c] = request[c],
         phase[c] = "write_back" => max_resp'[c] = max_resp[c]
  PROVE  Settled(c)'
BY DEF Inv, ReadsAreFresh, WritesAreNewer, Settled

LEMMA SettledStep ==
  ASSUME Inv, [Next]_vars, NEW d \in Clients
  PROVE  Settled(d)'
<1>. USE DEF Inv
<1>1. ASSUME NEW c \in Clients, Others(c), d # c
      PROVE  Settled(d)'
  BY <1>1, SettledKept DEF Others
<1>2. ASSUME NEW c \in Clients, ReadInvoke(c) \/ \E v \in Arguments : WriteInvoke(c, v)
      PROVE  Settled(d)'
  BY <1>1, <1>2, ReadInvokeFrame, WriteInvokeFrame DEF Settled
<1>3. ASSUME NEW c \in Clients, ReadWriteBack(c)
      PROVE  Settled(d)'
  BY <1>1, <1>3, ReadWriteBackFrame, FreshGet DEF Settled, ghosts
<1>4. ASSUME NEW c \in Clients, WriteExecute(c)
      PROVE  Settled(d)'
  <2>1. client_ctr[c] # 0 /\ TsLe(min_ts[c], max_resp[c].timestamp)
    BY <1>4, WriteExecuteFrame, FreshGet DEF RequestsTagged
  <2>2. /\ ExecTimestamp(c) \in Timestamp
        /\ TsLt(max_resp[c].timestamp, ExecTimestamp(c))
    BY <2>1, ExecTimestampType
  <2>3. TsLt(min_ts[c], ExecTimestamp(c))
    BY <2>1, <2>2, FieldTypes, TsTransitive
  <2>4. /\ phase'[c] = "write" /\ request'[c].timestamp = ExecTimestamp(c)
        /\ UNCHANGED min_ts /\ Others(c)
    BY <1>4, WriteExecuteFrame, BroadcastFrame DEF ghosts
  <2>. QED  BY <1>1, <2>3, <2>4 DEF Settled
<1>5. ASSUME NEW c \in Clients, NEW m \in responses, Deliver(c, m)
      PROVE  Settled(d)'
  <2>1. UNCHANGED <<phase, request, min_ts>> /\ Others(c)
    BY <1>5, DeliverFrame DEF client, ghosts
  <2>2. phase[c] = "write_back" => max_resp'[c] = max_resp[c]
    BY <1>5 DEF Deliver, InsertGet, InsertGetTimestamp, InsertWriteBack,
                InsertWrite, Receives
  <2>. QED  BY <1>1, <2>1, <2>2, SettledKept
<1>6. ASSUME NEW c \in Clients, Leaves(c)
      PROVE  Settled(d)'
  BY <1>1, <1>6, LeaveFrame DEF Settled
<1>7. ASSUME NEW s \in Servers, NEW r \in requests, Handle(s, r)
      PROVE  Settled(d)'
  BY <1>7, HandleFrame, SettledKept DEF client, accum, ghosts
<1>8. ASSUME NEW c \in Clients, NEW s \in Servers,
             LinkFailure(c, s)
      PROVE  Settled(d)'
  BY <1>8, SettledKept DEF LinkFailure, LinkBreaks, LinkRecovers, InsertError,
         client, accum, ghosts
<1>9. CASE UNCHANGED vars
  BY <1>9, SettledKept DEF vars, client, accum, ghosts
<1>. QED  BY <1>2, <1>3, <1>4, <1>5, <1>6, <1>7, <1>8, <1>9, StepKinds

-----------------------------------------------------------------------------
LEMMA TrustInit ==
  ASSUME NEW T \in SUBSET Servers, Init
  PROVE  TrustInv(T)
<1>1. TypeOK
  BY TypeInit
<1>2. RequestsTagged /\ ResponsesBound(T) /\ HoldersHold(T) /\ QuorumsAreFresh(T)
  BY DEF Init, RequestsTagged, ResponsesBound, HoldersHold, Holders,
         QuorumsAreFresh, Fresh
<1>3. Covered(T)
  <2>. SUFFICES ASSUME NEW Q \in QuorumsOf(T)
                PROVE  \E s \in Q : TsLe(watermark, server[s].timestamp)
    BY DEF Covered
  <2>1. Q # {} /\ Q \subseteq Servers
    BY QuorumsIntersect DEF Quorums, QuorumsOf
  <2>. QED  BY <2>1 DEF Init, Initial, TsLe
<1>. QED  BY <1>1, <1>2, <1>3 DEF TrustInv

LEMMA TrustStep ==
  ASSUME NEW T \in SUBSET Servers, TrustInv(T), [Next]_vars
  PROVE  TrustInv(T)'
<1>1. TypeOK /\ RequestsTagged
  BY DEF TrustInv
<1>2. TypeOK' /\ RequestsTagged'
  BY <1>1, InvTypeStep, RequestsTaggedStep
<1>3. ResponsesBound(T)' /\ HoldersHold(T)' /\ QuorumsAreFresh(T)' /\ Covered(T)'
  BY ResponsesBoundStep, HoldersHoldStep, QuorumsAreFreshStep, CoveredStep
<1>. QED  BY <1>2, <1>3 DEF TrustInv

LEMMA InvInit == Init => Inv
<1>. SUFFICES ASSUME Init PROVE Inv
  OBVIOUS
<1>1. TrustInv(Servers)
  BY TrustInit
<1>2. ReadsAreFresh /\ WritesAreNewer
  BY DEF Init, ReadsAreFresh, WritesAreNewer
<1>. QED  BY <1>1, <1>2, QuorumsOfServers
          DEF Inv, TrustInv, Covered, QuorumsCoverWatermark

LEMMA InvStep == Inv /\ [Next]_vars => Inv'
<1>. SUFFICES ASSUME Inv, [Next]_vars PROVE Inv'
  OBVIOUS
<1>1. TrustInv(Servers)'
  <2>1. TrustInv(Servers)
    BY InvTrusts
  <2>. QED  BY <2>1, TrustStep
<1>2. WritesAreNewer'
  BY SettledStep DEF Settled, WritesAreNewer
<1>3. ReadsAreFresh'
  <2>. SUFFICES ASSUME NEW c \in Clients, phase'[c] = "get", IsQuorum(replies'[c])
                PROVE  TsLe(min_ts'[c], max_resp'[c].timestamp)
    BY SettledStep DEF Settled, ReadsAreFresh, IsQuorum, quorum_size
  <2>1. replies'[c] \in Quorums
    BY <1>1 DEF TrustInv, TypeOK, Quorums
  <2>2. \A Q \in Quorums : \E s \in Q : FreshFor(c, s)'
    BY <1>1, QuorumsOfServers DEF TrustInv, QuorumsAreFresh, Fresh, QuorumsOf,
                                  Quorums, IsQuorum, quorum_size
  <2>. QED  BY <2>1, <2>2 DEF FreshFor
<1>4. QuorumsCoverWatermark'
  BY <1>1, QuorumsOfServers DEF TrustInv, Covered, QuorumsCoverWatermark, QuorumsOf,
                                Quorums, IsQuorum, quorum_size
<1>. QED  BY <1>1, <1>2, <1>3, <1>4 DEF Inv, TrustInv

(***************************************************************************)
(* A timestamp names one value.  Only WriteExecute brings a new pair into  *)
(* the system, and it takes a number that no pair of its client has.       *)
(***************************************************************************)
LEMMA PairTypes ==
  ASSUME TypeOK
  PROVE  /\ \A p \in Register : Pair(p) = p
         /\ \A p \in Pairs : p \in Register
<1>1. \A p \in Register : Pair(p) = p
  BY DEF Register, Pair
<1>2. /\ \A r \in requests : Pair(r) \in Register
      /\ \A m \in responses : Pair(m) \in Register
  BY DEF TypeOK, Request, Response, Register, Pair
<1>. QED  BY <1>1, <1>2 DEF TypeOK, Pairs

LEMMA PairsHandle ==
  ASSUME Inv, NEW s \in Servers, NEW r \in requests, Handle(s, r)
  PROVE  Pairs' \subseteq Pairs
<1>. USE DEF Inv
<1>1. server[s] \in Pairs /\ server[s] \in Register /\ r \in Request
  BY DEF Pairs, TypeOK
<1>2. \A d \in Servers : server'[d] = server[d] \/ (r.type = "Write" /\ server'[d] = Pair(r))
  <2>1. CASE HandleGet(s, r) \/ HandleGetTimestamp(s, r)
    BY <2>1 DEF HandleGet, HandleGetTimestamp
  <2>2. CASE HandleWrite(s, r)
    <3>1. r.type = "Write" /\ server' \in {server, [server EXCEPT ![s] = Pair(r)]}
      BY <2>2 DEF HandleWrite, Pair
    <3>2. server \in [Servers -> Register]
      BY DEF TypeOK
    <3>. QED  BY <3>1, <3>2
  <2>. QED  BY <2>1, <2>2 DEF Handle
<1>3. \A q \in requests' : \E p \in requests : Pair(q) = Pair(p) /\ q.type = p.type
  BY <1>1, HandleFrame DEF Consume, Pair, Request
<1>4. \A m \in responses' : m.type = "Get" => m \in responses \/ Pair(m) = server[s]
  <2>1. CASE HandleGet(s, r)
    BY <1>1, <2>1 DEF HandleGet, Respond, Pair, Register
  <2>2. CASE HandleGetTimestamp(s, r)
    BY <2>2 DEF HandleGetTimestamp, Respond
  <2>3. CASE HandleWrite(s, r)
    BY <2>3 DEF HandleWrite, Respond
  <2>. QED  BY <2>1, <2>2, <2>3 DEF Handle
<1>5. UNCHANGED <<max_resp, phase, replies>>
  BY HandleFrame DEF client, accum
<1>. QED  BY <1>1, <1>2, <1>3, <1>4, <1>5 DEF Pairs, HasHeard

(* What a client hears of becomes, at most, what it knows. *)
LEMMA PairsDeliver ==
  ASSUME Inv, NEW c \in Clients, NEW m \in responses, Deliver(c, m)
  PROVE  Pairs' \subseteq Pairs
<1>. USE DEF Inv
<1>1. /\ UNCHANGED <<server, requests, phase>> /\ responses' \subseteq responses
      /\ Others(c)
  BY DeliverFrame DEF client
<1>2. \A d \in Clients \ {c} : HasHeard(d)' = HasHeard(d) /\ max_resp'[d] = max_resp[d]
  BY <1>1 DEF HasHeard, Others
<1>3. HasHeard(c)' => max_resp'[c] \in Pairs
  <2>1. CASE phase[c] = "get"
    <3>1. m.type = "Get" /\ UpdateMax(c, m)
      BY <2>1 DEF RequestsTagged, Deliver, InsertGet, InsertGetTimestamp,
                  InsertWriteBack, InsertWrite, Receives
    <3>2. Pair(m) \in Pairs
      BY <3>1 DEF Pairs
    <3>3. max_resp'[c] = Pair(m) \/ (replies[c] # {} /\ max_resp'[c] = max_resp[c])
      <4>1. \/ max_resp' = [max_resp EXCEPT ![c] = Pair(m)]
            \/ replies[c] # {} /\ max_resp' = max_resp
        BY <3>1 DEF UpdateMax, Pair
      <4>. QED  BY <4>1 DEF TypeOK
    <3>4. replies[c] # {} => max_resp[c] \in Pairs
      BY <2>1 DEF Pairs, HasHeard
    <3>. QED  BY <3>2, <3>3, <3>4
  <2>2. CASE phase[c] = "write_back"
    <3>1. max_resp' = max_resp
      BY <2>2 DEF Deliver, InsertGet, InsertGetTimestamp, InsertWriteBack,
                  InsertWrite, Receives
    <3>2. HasHeard(c)
      BY <2>2 DEF HasHeard
    <3>3. max_resp[c] \in Pairs
      BY <3>2 DEF Pairs
    <3>. QED  BY <3>1, <3>3
  <2>. QED  BY <1>1, <2>1, <2>2 DEF HasHeard
<1>. QED  BY <1>1, <1>2, <1>3 DEF Pairs

(* A step that sends no write and teaches its client nothing. *)
LEMMA PairsKept ==
  ASSUME UNCHANGED server, NEW c \in Clients, Others(c),
         \A q \in requests' : q.type = "Write" => q \in requests,
         responses' \subseteq responses, ~ HasHeard(c)'
  PROVE  Pairs' \subseteq Pairs
<1>1. \A d \in Clients : HasHeard(d)' => HasHeard(d) /\ max_resp'[d] = max_resp[d]
  BY DEF HasHeard, Others
<1>. QED  BY <1>1 DEF Pairs

LEMMA PairsSent ==
  ASSUME UNCHANGED server, NEW c \in Clients, Others(c), NEW q, q.type = "Write",
         requests' = requests \cup {q}, responses' \subseteq responses,
         HasHeard(c)' => HasHeard(c) /\ max_resp'[c] = max_resp[c]
  PROVE  Pairs' \subseteq Pairs \cup {Pair(q)}
<1>1. \A d \in Clients : HasHeard(d)' => HasHeard(d) /\ max_resp'[d] = max_resp[d]
  BY DEF HasHeard, Others
<1>. QED  BY <1>1 DEF Pairs

LEMMA PairsInvoke ==
  ASSUME Inv, NEW c \in Clients,
         ReadInvoke(c) \/ \E v \in Arguments : WriteInvoke(c, v)
  PROVE  Pairs' \subseteq Pairs
<1>. USE DEF Inv
<1>1. /\ UNCHANGED server /\ Others(c) /\ responses' \subseteq responses
      /\ \A q \in requests' : q.type = "Write" => q \in requests
      /\ phase'[c] \in {"get", "get_timestamp"} /\ replies'[c] = {}
  BY ReadInvokeFrame, WriteInvokeFrame, BroadcastFrame
<1>2. ~ HasHeard(c)'
  BY <1>1 DEF HasHeard
<1>. QED  BY <1>1, <1>2, PairsKept

LEMMA PairsWriteBack ==
  ASSUME Inv, NEW c \in Clients, ReadWriteBack(c)
  PROVE  Pairs' \subseteq Pairs
<1>. USE DEF Inv
<1>. DEFINE q == request'[c]
<1>. DEFINE held == agree_with_max[c]
<1>1. /\ phase[c] = "get" /\ IsQuorum(replies[c])
      /\ UNCHANGED <<server, max_resp>> /\ Others(c)
      /\ Broadcast(c, "Write", Servers \ held, max_resp[c].timestamp, max_resp[c].value)
  BY ReadWriteBackFrame
<1>5. /\ requests' = requests \cup {q} /\ responses' \subseteq responses
      /\ q.type = "Write"
  BY <1>1, BroadcastFrame
<1>2. replies[c] # {}
  BY <1>1, QuorumsIntersect DEF TypeOK
<1>3. HasHeard(c) /\ max_resp[c] \in Pairs
  BY <1>1, <1>2 DEF HasHeard, Pairs
<1>4. Pair(q) = max_resp[c]
  BY DEF ReadWriteBack, Broadcast, Pair, TypeOK, Register
<1>. HIDE DEF q
<1>. QED  BY <1>5, <1>1, <1>3, <1>4, PairsSent

LEMMA PairsExecute ==
  ASSUME Inv, NEW c \in Clients, WriteExecute(c)
  PROVE  Pairs' \subseteq
           Pairs \cup {[timestamp |-> ExecTimestamp(c), value |-> new_value[c]]}
<1>. USE DEF Inv
<1>. DEFINE q == request'[c]
<1>1. /\ phase'[c] = "write"
      /\ UNCHANGED server /\ Others(c)
      /\ requests' = requests \cup {q} /\ responses' \subseteq responses
      /\ q.type = "Write"
  BY WriteExecuteFrame, BroadcastFrame
<1>2. ~ HasHeard(c)'
  BY <1>1 DEF HasHeard
<1>3. Pair(q) = [timestamp |-> ExecTimestamp(c), value |-> new_value[c]]
  BY DEF WriteExecute, Broadcast, Pair, TypeOK
<1>. HIDE DEF q
<1>. QED  BY <1>1, <1>2, <1>3, PairsSent

LEMMA PairsStep ==
  ASSUME Inv, [Next]_vars
  PROVE  Pairs' \subseteq Pairs \/ \E c \in Clients : WriteExecute(c)
<1>1. ASSUME NEW c \in Clients, Leaves(c)
      PROVE  Pairs' \subseteq Pairs
  <2>1. /\ UNCHANGED <<server, requests>> /\ responses' \subseteq responses
        /\ phase'[c] = "idle" /\ Others(c)
    BY <1>1, LeaveFrame DEF Inv
  <2>2. ~ HasHeard(c)'
    BY <2>1 DEF HasHeard
  <2>. QED  BY <2>1, <2>2, PairsKept
<1>2. ASSUME NEW c \in Clients, NEW s \in Servers, LinkFailure(c, s)
      PROVE  Pairs' \subseteq Pairs
  BY <1>2 DEF LinkFailure, LinkBreaks, LinkRecovers, InsertError, client, accum,
              Pairs, HasHeard
<1>3. CASE UNCHANGED vars
  BY <1>3 DEF vars, client, accum, Pairs, HasHeard
<1>. QED  BY <1>1, <1>2, <1>3, StepKinds, PairsHandle, PairsDeliver, PairsInvoke,
             PairsWriteBack

(* A writer's counter moves on when a write begins, and its number is in   *)
(* nobody's hands until the write has chosen its timestamp.                *)
LEMMA CountersAdvance ==
  ASSUME Inv, [Next]_vars, NEW d \in Clients
  PROVE  \/ client_ctr'[d] = client_ctr[d] + 1
         \/ /\ client_ctr'[d] = client_ctr[d]
            /\ phase'[d] = "get_timestamp" => phase[d] = "get_timestamp"
<1>. USE DEF Inv
<1>1. ASSUME NEW c \in Clients, Others(c), d # c
      PROVE  client_ctr'[d] = client_ctr[d] /\ phase'[d] = phase[d]
  BY <1>1 DEF Others
<1>2. ASSUME NEW c \in Clients, Leaves(c) \/ ReadInvoke(c) \/ ReadWriteBack(c) \/ WriteExecute(c)
      PROVE  /\ client_ctr' = client_ctr /\ Others(c)
             /\ phase'[c] # "get_timestamp"
  BY <1>2, LeaveFrame, ReadInvokeFrame, ReadWriteBackFrame, WriteExecuteFrame
<1>3. ASSUME NEW c \in Clients, \E v \in Arguments : WriteInvoke(c, v)
      PROVE  client_ctr'[c] = client_ctr[c] + 1 /\ Others(c)
  BY <1>3, WriteInvokeFrame
<1>4. ASSUME NEW s \in Servers, NEW r \in requests, Handle(s, r)
      PROVE  UNCHANGED <<client_ctr, phase>>
  BY <1>4, HandleFrame DEF client
<1>5. ASSUME NEW c \in Clients, NEW m \in responses, Deliver(c, m)
      PROVE  UNCHANGED <<client_ctr, phase>>
  BY <1>5, DeliverFrame DEF client
<1>6. ASSUME NEW c \in Clients, NEW s \in Servers, LinkFailure(c, s)
      PROVE  UNCHANGED <<client_ctr, phase>>
  BY <1>6 DEF LinkFailure, LinkBreaks, LinkRecovers, InsertError, client
<1>7. CASE UNCHANGED vars
  BY <1>7 DEF vars, client
<1>. QED  BY <1>1, <1>2, <1>3, <1>4, <1>5, <1>6, <1>7, StepKinds

LEMMA NumbersKept ==
  ASSUME Inv, [Next]_vars, NEW p \in Pairs, NumberTaken(p.timestamp)
  PROVE  NumberTaken(p.timestamp)'
<1>. DEFINE t == p.timestamp
<1>1. t.client_ctr \in Nat
  BY PairTypes DEF Inv, Register, Timestamp
<1>2. \A d \in Clients : client_ctr[d] \in Nat
  BY DEF Inv, TypeOK
<1>. HIDE DEF t
<1>. SUFFICES ASSUME NumberTaken(t), t.client_id \in Clients
              PROVE  NumberTaken(t)'
  BY DEF NumberTaken, t
<1>3. \/ client_ctr'[t.client_id] = client_ctr[t.client_id] + 1
      \/ /\ client_ctr'[t.client_id] = client_ctr[t.client_id]
         /\ phase'[t.client_id] = "get_timestamp" => phase[t.client_id] = "get_timestamp"
  BY CountersAdvance
<1>. QED  BY <1>1, <1>2, <1>3 DEF NumberTaken

LEMMA NamesStep ==
  ASSUME Inv, NamesInv, [Next]_vars
  PROVE  NamesInv'
<1>1. CASE Pairs' \subseteq Pairs
  BY <1>1, NumbersKept DEF NamesInv, NumbersTaken, TimestampsNameOneValue
<1>2. ASSUME NEW c \in Clients, WriteExecute(c)
      PROVE  NamesInv'
  <2>1. PICK t, q : /\ t = ExecTimestamp(c)
                    /\ q = [timestamp |-> t, value |-> new_value[c]]
    OBVIOUS
  <2>2. /\ Pairs' \subseteq Pairs \cup {q}
        /\ phase[c] = "get_timestamp" /\ phase'[c] = "write"
        /\ client_ctr'[c] = client_ctr[c]
        /\ client_ctr[c] \in Nat
    BY <1>2, <2>1, PairsExecute, WriteExecuteFrame DEF Inv, TypeOK
  <2>3. t.client_id = c /\ t.client_ctr = client_ctr[c] - 1 /\ q.timestamp = t
    BY <2>1 DEF ExecTimestamp
  <2>4. NumberTaken(q.timestamp)'
    BY <2>2, <2>3 DEF NumberTaken
  <2>5. \A p \in Pairs : p.timestamp # q.timestamp
    BY <2>2, <2>3 DEF NamesInv, NumbersTaken, NumberTaken
  <2>6. NumbersTaken'
    BY <2>2, <2>4, NumbersKept DEF NamesInv, NumbersTaken
  <2>7. TimestampsNameOneValue'
    BY <2>2, <2>5 DEF NamesInv, TimestampsNameOneValue
  <2>. QED  BY <2>6, <2>7 DEF NamesInv
<1>. QED  BY <1>1, <1>2, PairsStep

LEMMA NamesInit == Init => NamesInv
<1>. SUFFICES ASSUME Init PROVE NamesInv
  OBVIOUS
<1>1. \A p \in Pairs : p = Initial
  BY DEF Init, Pairs, HasHeard
<1>2. NumberTaken(TsDefault)
  BY ClientsAssumption DEF NumberTaken, TsDefault
<1>. QED  BY <1>1, <1>2 DEF NamesInv, NumbersTaken, TimestampsNameOneValue, Initial

-----------------------------------------------------------------------------
(***************************************************************************)
(* Nobody waits in vain: whoever was asked has the request, has answered   *)
(* it, or is among the replies, step by step.                              *)
(***************************************************************************)
(* A client keeps what it waits for as long as its phase does not end.     *)
LEMMA WaitsKept ==
  ASSUME NEW c \in Clients, Waits(c),
         phase'[c] = phase[c], request'[c] = request[c],
         replies[c] \subseteq replies'[c],
         \A s \in Servers : <<c, s>> \in broken => <<c, s>> \in broken' \cup Transient,
         phase[c] = "write_back" => /\ agree_with_max[c] \subseteq agree_with_max'[c]
                                    /\ replies'[c] \subseteq agree_with_max'[c],
         request[c].to \subseteq Servers,
         phase[c] # "idle" =>
           \A s \in request[c].to :
             Asked(c, s) \/ Answered(c, s)
               => s \in replies'[c] \/ Asked(c, s)' \/ Answered(c, s)'
  PROVE  Waits(c)'
BY DEF Waits, AllAsked, NoneForgotten

LEMMA WaitsHandle ==
  ASSUME TypeOK, NEW s \in Servers, NEW r \in requests, Handle(s, r),
         NEW c \in Clients, Waits(c)
  PROVE  Waits(c)'
<1>1. /\ UNCHANGED <<phase, request, replies, broken, agree_with_max>>
      /\ Consume(s, r) /\ responses \subseteq responses'
  BY HandleFrame DEF Handle, HandleGet, HandleGetTimestamp, HandleWrite, Respond,
                     client, accum
<1>2. r \in Request /\ request[c] \in Request
  BY DEF TypeOK
<1>3. ASSUME phase[c] # "idle", NEW t \in request[c].to, Asked(c, t)
      PROVE  Asked(c, t)' \/ Answered(c, t)'
  <2>1. PICK q \in requests : q.client = c /\ q.id = request[c].id /\ t \in q.to
    BY <1>3 DEF Asked
  <2>2. CASE q \in requests'
    BY <1>1, <2>1, <2>2 DEF Asked
  <2>3. CASE q = r /\ t # s /\ q \notin requests'
    <3>1. [r EXCEPT !.to = @ \ {s}] \in requests'
      BY <1>1, <2>3 DEF Consume
    <3>. QED  BY <1>1, <1>2, <2>1, <2>3, <3>1 DEF Asked, Request
  <2>4. CASE q = r /\ t = s
    <3>1. phase[r.client] # "idle" /\ request[r.client].id = r.id
      BY <1>3, <2>1, <2>4
    <3>2. PICK timestamp, value : Respond(s, r, timestamp, value)
      BY DEF Handle, HandleGet, HandleGetTimestamp, HandleWrite
    <3>3. [client |-> r.client, id |-> r.id, type |-> r.type, server |-> s,
           timestamp |-> timestamp, value |-> value] \in responses'
      BY <3>1, <3>2 DEF Respond
    <3>. QED  BY <2>1, <2>4, <3>3 DEF Answered
  <2>. QED  BY <1>1, <2>1, <2>2, <2>3, <2>4 DEF Consume
<1>4. ASSUME NEW t \in request[c].to, Answered(c, t)
      PROVE  Answered(c, t)'
  BY <1>1, <1>4 DEF Answered
<1>5. request[c].to \subseteq Servers
  BY <1>2 DEF Request
<1>6. phase[c] = "write_back" => replies[c] \subseteq agree_with_max[c]
  BY DEF Waits
<1>. QED  BY <1>1, <1>3, <1>4, <1>5, <1>6, WaitsKept

(* A broadcast begins a new phase for its client.                          *)
LEMMA WaitsBroadcast ==
  ASSUME TypeOK, NEW c \in Clients, NEW type, NEW to \in SUBSET Servers,
         NEW timestamp, NEW value, Broadcast(c, type, to, timestamp, value),
         UNCHANGED broken,
         \/ to = Servers /\ phase'[c] # "write_back"
         \/ /\ phase'[c] = "write_back" /\ to = Servers \ agree_with_max[c]
            /\ UNCHANGED agree_with_max
  PROVE  Waits(c)'
<1>1. /\ request'[c] \in requests'
      /\ request'[c].client = c
      /\ request'[c].to = {s \in to : <<c, s>> \notin broken}
      /\ replies'[c] = {}
  BY DEF TypeOK, Broadcast
<1>2. NoneForgotten(c)'
  BY <1>1 DEF NoneForgotten, Asked
<1>3. AllAsked(c)'
  BY <1>1 DEF AllAsked
<1>. QED  BY <1>1, <1>2, <1>3 DEF Waits

(* What it leaves to the others.                                           *)
LEMMA WaitsOthers ==
  ASSUME TypeOK, NEW d \in Clients, NEW c \in Clients \ {d}, Waits(c),
         Others(d), UNCHANGED broken, requests \subseteq requests',
         \A m \in responses : m.client = c => m \in responses'
  PROVE  Waits(c)'
<1>1. /\ phase'[c] = phase[c] /\ request'[c] = request[c]
      /\ replies'[c] = replies[c] /\ agree_with_max'[c] = agree_with_max[c]
  BY DEF Others
<1>2. \A s \in request[c].to : /\ Asked(c, s) => Asked(c, s)'
                               /\ Answered(c, s) => Answered(c, s)'
  BY <1>1 DEF Asked, Answered
<1>3. request[c].to \subseteq Servers
  BY DEF TypeOK, Request
<1>4. phase[c] = "write_back" => replies[c] \subseteq agree_with_max[c]
  BY DEF Waits
<1>. QED  BY <1>1, <1>2, <1>3, <1>4, WaitsKept

LEMMA WaitsSends ==
  ASSUME TypeOK, NEW d \in Clients,
         \/ ReadInvoke(d) \/ ReadWriteBack(d) \/ WriteExecute(d)
         \/ \E v \in Arguments : WriteInvoke(d, v),
         NEW c \in Clients, Waits(c)
  PROVE  Waits(c)'
<1>1. CASE ReadInvoke(d)
  <2>1. /\ phase'[d] = "get" /\ Others(d) /\ UNCHANGED broken
        /\ Broadcast(d, "Get", Servers, TsDefault, None)
    BY <1>1, ReadInvokeFrame DEF ReadInvoke
  <2>2. CASE c = d
    BY <2>1, <2>2, WaitsBroadcast
  <2>3. CASE c # d
    BY <2>1, <2>3, WaitsOthers DEF Broadcast, Forget
  <2>. QED  BY <2>2, <2>3
<1>2. CASE ReadWriteBack(d)
  <2>1. /\ phase'[d] = "write_back" /\ Others(d)
        /\ Broadcast(d, "Write", Servers \ agree_with_max[d],
                     max_resp[d].timestamp, max_resp[d].value)
        /\ UNCHANGED <<broken, agree_with_max>>
    BY <1>2, ReadWriteBackFrame DEF ReadWriteBack
  <2>2. CASE c = d
    BY <2>1, <2>2, WaitsBroadcast
  <2>3. CASE c # d
    BY <2>1, <2>3, WaitsOthers DEF Broadcast, Forget
  <2>. QED  BY <2>2, <2>3
<1>3. CASE WriteExecute(d)
  <2>1. /\ phase'[d] = "write" /\ Others(d) /\ UNCHANGED broken
        /\ Broadcast(d, "Write", Servers, ExecTimestamp(d), new_value[d])
    BY <1>3, WriteExecuteFrame DEF WriteExecute
  <2>2. CASE c = d
    BY <2>1, <2>2, WaitsBroadcast
  <2>3. CASE c # d
    BY <2>1, <2>3, WaitsOthers DEF Broadcast, Forget
  <2>. QED  BY <2>2, <2>3
<1>4. ASSUME NEW v \in Arguments, WriteInvoke(d, v)
      PROVE  Waits(c)'
  <2>1. /\ phase'[d] = "get_timestamp" /\ Others(d) /\ UNCHANGED broken
        /\ Broadcast(d, "GetTimestamp", Servers, TsDefault, None)
    BY <1>4, WriteInvokeFrame DEF WriteInvoke
  <2>2. CASE c = d
    BY <2>1, <2>2, WaitsBroadcast
  <2>3. CASE c # d
    BY <2>1, <2>3, WaitsOthers DEF Broadcast, Forget
  <2>. QED  BY <2>2, <2>3
<1>. QED  BY <1>1, <1>2, <1>3, <1>4

LEMMA WaitsDeliver ==
  ASSUME TypeOK, NEW d \in Clients, NEW m \in responses, Deliver(d, m),
         NEW c \in Clients, Waits(c)
  PROVE  Waits(c)'
<1>1. /\ m.client = d /\ Others(d) /\ UNCHANGED <<requests, broken, phase, request>>
      /\ replies' = [replies EXCEPT ![d] = @ \cup {m.server}]
      /\ responses' = responses \ {m}
  BY DeliverFrame DEF Deliver, InsertGet, InsertWriteBack, InsertGetTimestamp, InsertWrite,
                      InsertReply, client
<1>2. CASE c # d
  BY <1>1, <1>2, WaitsOthers
<1>3. CASE c = d
  <2>1. replies'[c] = replies[c] \cup {m.server}
    BY <1>1, <1>3 DEF TypeOK
  <2>2. ASSUME phase[c] = "write_back"
        PROVE  agree_with_max'[c] = agree_with_max[c] \cup {m.server}
    BY <1>3, <2>2 DEF Deliver, InsertGet, InsertWriteBack, InsertGetTimestamp,
                      InsertWrite, Receives, TypeOK
  <2>3. \A s \in request[c].to : /\ Asked(c, s) => Asked(c, s)'
                                 /\ Answered(c, s) => Answered(c, s)' \/ s \in replies'[c]
    BY <1>1, <2>1 DEF Asked, Answered
  <2>4. request[c].to \subseteq Servers
    BY DEF TypeOK, Request
  <2>5. phase[c] = "write_back" => replies[c] \subseteq agree_with_max[c]
    BY DEF Waits
  <2>. QED  BY <1>1, <2>1, <2>2, <2>3, <2>4, <2>5, WaitsKept
<1>. QED  BY <1>2, <1>3

LEMMA WaitsFailure ==
  ASSUME TypeOK, NEW d \in Clients, NEW s \in Servers, LinkFailure(d, s),
         NEW c \in Clients, Waits(c)
  PROVE  Waits(c)'
<1>1. /\ UNCHANGED <<requests, responses, phase, request, replies, agree_with_max>>
      /\ \A t \in Servers : <<c, t>> \in broken => <<c, t>> \in broken' \cup Transient
  BY DEF LinkFailure, LinkBreaks, LinkRecovers, InsertError, client, accum
<1>2. \A t \in request[c].to : /\ Asked(c, t) => Asked(c, t)'
                               /\ Answered(c, t) => Answered(c, t)'
  BY <1>1 DEF Asked, Answered
<1>3. request[c].to \subseteq Servers
  BY DEF TypeOK, Request
<1>4. phase[c] = "write_back" => replies[c] \subseteq agree_with_max[c]
  BY DEF Waits
<1>. QED  BY <1>1, <1>2, <1>3, <1>4, WaitsKept

LEMMA WaitsStep == TypeOK /\ WaitsInv /\ [Next]_vars => WaitsInv'
<1>. SUFFICES ASSUME TypeOK, WaitsInv, [Next]_vars, NEW c \in Clients
              PROVE  Waits(c)'
  BY DEF WaitsInv
<1>1. Waits(c)
  BY DEF WaitsInv
<1>2. ASSUME NEW d \in Clients, Leaves(d)
      PROVE  Waits(c)'
  <2>1. CASE c = d
    BY <1>2, <2>1, LeaveFrame DEF Waits
  <2>2. CASE c # d
    <3>1. Leave(d)
      BY <1>2 DEF Leaves, ReadUnanimous, ReadReturn, WriteReturn, Return, GiveUp
    <3>. QED  BY <1>1, <1>2, <2>2, <3>1, LeaveFrame, WaitsOthers DEF Leave, Forget
  <2>. QED  BY <2>1, <2>2
<1>3. CASE UNCHANGED vars
  BY <1>1, <1>3 DEF vars, client, accum, Waits, AllAsked, NoneForgotten, Asked, Answered
<1>. QED  BY <1>1, <1>2, <1>3, StepKinds, WaitsHandle, WaitsSends, WaitsDeliver,
             WaitsFailure

(* Everyone who can answer has answered, and the others have failed.       *)
LEMMA RepliesAndErrors ==
  ASSUME TypeOK, NEW c \in Clients, Servers \subseteq replies[c] \cup errors[c]
  PROVE  n_received(c) >= Cardinality(Servers)
<1>1. /\ replies[c] \subseteq Servers /\ errors[c] \subseteq Servers
      /\ replies[c] \cup errors[c] = Servers
  BY DEF TypeOK
<1>2. /\ IsFiniteSet(replies[c]) /\ IsFiniteSet(errors[c])
      /\ IsFiniteSet(replies[c] \cap errors[c])
  BY <1>1, ServersAssumption, FS_Subset
<1>3. Cardinality(Servers) = Cardinality(replies[c]) + Cardinality(errors[c])
                               - Cardinality(replies[c] \cap errors[c])
  BY <1>1, <1>2, FS_Union
<1>4. /\ Cardinality(replies[c]) \in Nat /\ Cardinality(errors[c]) \in Nat
      /\ Cardinality(replies[c] \cap errors[c]) \in Nat
  BY <1>2, FS_CardinalityType
<1>. QED  BY <1>3, <1>4 DEF n_received

LEMMA QuorumGrows ==
  ASSUME NEW Q \in SUBSET Servers, NEW P \in SUBSET Q, IsQuorum(P)
  PROVE  IsQuorum(Q)
<1>1. /\ IsFiniteSet(Q) /\ IsFiniteSet(P)
      /\ Cardinality(P) <= Cardinality(Q)
  BY ServersAssumption, FS_Subset
<1>2. /\ Cardinality(P) \in Nat /\ Cardinality(Q) \in Nat /\ quorum_size \in Int
  BY <1>1, ServersAssumption, FS_CardinalityType DEF quorum_size
<1>. QED  BY <1>1, <1>2 DEF IsQuorum

LEMMA WaitsForSomething == TypeOK /\ WaitsInv => NobodyWaitsInVain
<1>. SUFFICES ASSUME TypeOK, WaitsInv, NEW c \in Clients, phase[c] # "idle",
                     ~ GoesOn(c),
                     ~ \E s \in Servers : /\ <<c, s>> \in Transient \ broken
                                          /\ s \notin request[c].to
              PROVE  /\ phase[c] = "write_back"
                     /\ ~ IsQuorum({s \in Servers : LinkUp(c, s)})
  BY DEF NobodyWaitsInVain
<1>1. AllAsked(c) /\ NoneForgotten(c)
  BY DEF WaitsInv, Waits
<1>2. \A s \in Servers : \/ <<c, s>> \in broken
                         \/ phase[c] = "write_back" /\ s \in agree_with_max[c]
                         \/ s \in replies[c]
  BY <1>1 DEF AllAsked, NoneForgotten, GoesOn, LinkUp
<1>3. \A s \in Servers : <<c, s>> \in broken => s \in errors[c]
  BY DEF GoesOn, LinkUp
<1>4. CASE phase[c] # "write_back"
  <2>1. Servers \subseteq replies[c] \cup errors[c]
    BY <1>2, <1>3, <1>4
  <2>. QED  BY <2>1, RepliesAndErrors DEF GoesOn
<1>5. CASE phase[c] = "write_back" /\ IsQuorum({s \in Servers : LinkUp(c, s)})
  <2>1. replies[c] \subseteq agree_with_max[c]
    BY <1>5 DEF WaitsInv, Waits
  <2>2. {s \in Servers : LinkUp(c, s)} \subseteq agree_with_max[c]
    BY <1>2, <2>1 DEF LinkUp
  <2>3. agree_with_max[c] \in SUBSET Servers
    BY DEF TypeOK
  <2>4. IsQuorum(agree_with_max[c])
    BY <1>5, <2>2, <2>3, QuorumGrows
  <2>. QED  BY <1>5, <2>4 DEF GoesOn, Terminated
<1>. QED  BY <1>4, <1>5

-----------------------------------------------------------------------------
(***************************************************************************)
(* The theorems.                                                           *)
(***************************************************************************)
(* Inv is an invariant of the register. *)
THEOREM InvCorrect == Spec => []Inv
BY InvInit, InvStep, PTL DEF Spec

(* Every variable keeps its type: servers, clients and messages stay well  *)
(* formed whatever the network does.                                       *)
THEOREM TypeCorrect == Spec => []TypeOK
<1>1. Inv => TypeOK
  BY DEF Inv
<1>. QED  BY <1>1, InvCorrect, PTL

(* The ghost invariant of the code's State: no quorum is behind what an    *)
(* operation has returned.                                                 *)
THEOREM WatermarkCovered == Spec => []QuorumsCoverWatermark
<1>1. Inv => QuorumsCoverWatermark
  BY DEF Inv
<1>. QED  BY <1>1, InvCorrect, PTL

(* A read chooses nothing older than what had been returned when it was    *)
(* invoked, by a write or by another client's read.                        *)
THEOREM ReadsFresh == Spec => []ReadsAreFresh
<1>1. Inv => ReadsAreFresh
  BY DEF Inv
<1>. QED  BY <1>1, InvCorrect, PTL

(* A write takes a timestamp beyond every one that had been returned when  *)
(* it was invoked.                                                         *)
THEOREM WritesNewer == Spec => []WritesAreNewer
<1>1. Inv => WritesAreNewer
  BY DEF Inv
<1>. QED  BY <1>1, InvCorrect, PTL

(* Two writes never take the same timestamp, whatever failed before them:  *)
(* a timestamp names one value on every server and in every message.       *)
THEOREM NamesCorrect == Spec => []TimestampsNameOneValue
<1>1. Init => NamesInv
  BY NamesInit
<1>2. Inv /\ NamesInv /\ [Next]_vars => NamesInv'
  BY NamesStep
<1>3. NamesInv => TimestampsNameOneValue
  BY DEF NamesInv
<1>. QED  BY <1>1, <1>2, <1>3, InvCorrect, PTL DEF Spec

(* HandleWrite keeps the newer of what the replica holds and what it is    *)
(* sent: a replica that changes strictly increases its timestamp.          *)
THEOREM ServersMonotonic == Spec => ServersAreMonotonic
<1>1. Inv /\ [Next]_vars =>
        [\A s \in Servers :
           \/ server'[s] = server[s]
           \/ TsLt(server[s].timestamp, server'[s].timestamp)]_server
  BY ServersAdvance DEF Inv
<1>. QED  BY <1>1, InvCorrect, PTL DEF Spec, ServersAreMonotonic

(* No deadlock: an operation that has not ended can go on or is owed an    *)
(* answer or an error, except for a write-back without a quorum of links   *)
(* and for a request that was not sent on a link that failed for a while.  *)
THEOREM NobodyWaits == Spec => []NobodyWaitsInVain
<1>1. Init => WaitsInv
  BY DEF Init, WaitsInv, Waits
<1>2. Inv => TypeOK
  BY DEF Inv
<1>. QED  BY <1>1, <1>2, WaitsStep, WaitsForSomething, InvCorrect, PTL DEF Spec
=============================================================================
