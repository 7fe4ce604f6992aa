---------------------------- MODULE AbdUniverse -----------------------------
(***************************************************************************)
(* The replicated register together with the ghost state by which a client *)
(* knows what the replicas hold: the map of the requests issued, each with *)
(* a view of the replicas from when it was issued; the view that a client  *)
(* builds from it, reply by reply; and the lower bound of its replica's    *)
(* timestamp that every response carries.                                  *)
(***************************************************************************)
EXTENDS AbdProperties, ServerUniverse, MonotonicTimestamp

VARIABLES
  issued,  \* the request map: <<client, id>> to the request
  views,   \* accumulator: the lower bounds that a client knows
  bounds   \* the lower bounds that the responses in flight carry

known   == <<issued, views, bounds>>
univars == <<vars, known>>

View == [Servers -> Timestamp]

NoView == [s \in Servers |-> TsDefault]

IssuedRequest ==
  [type : {"Get", "GetTimestamp", "Write"}, timestamp : Timestamp,
   value : Values, servers : View]

Bound == [response : Response, lb : Timestamp]

UniInit ==
  /\ Init
  /\ issued = [k \in {} |-> NoView]
  /\ views  = [c \in Clients |-> NoView]
  /\ bounds = {}

(* A request or a response names the request by its client and its tag. *)
Key(m) == <<m.client, m.id>>

(* What the replicas hold now. *)
extract_lbs == [s \in Servers |-> server[s].timestamp]

issue_request_proof(r, u) ==
  issued' = [k \in DOMAIN issued \cup {Key(r)} |->
               IF k = Key(r) THEN [type |-> r.type, timestamp |-> r.timestamp,
                                   value |-> r.value, servers |-> u]
                             ELSE issued[k]]

(* What a request says of the server that it is sent to. *)
server_lower_bound(r, s) == r.servers[s]

(* Client c now knows u; the bounds of forgotten responses are lost. *)
Knows(c, u) ==
  /\ views'  = [views EXCEPT ![c] = u]
  /\ bounds' = {b \in bounds : b.response \in responses'}

(* A write is answered with no less than lb; what is known only grows. *)
Raise(c, s, lb) ==
  Knows(c, IF TsLt(views[c][s], lb) THEN tracked_update_lb(views[c], s, lb)
                                    ELSE views[c])

-----------------------------------------------------------------------------
(* The response that the server gives now, if its client waits for it. *)
Answers(s, r) ==
  {m \in responses' :
     /\ Key(m) = Key(r)
     /\ m.server = s
     /\ m.type = "Write" \/ m.timestamp = server'[s].timestamp}

(* Mutation: the bound is what the replica held before it took the request. *)
UniHandleBoundFirst(s, r) ==
  /\ Handle(s, r)
  /\ bounds' = bounds \cup
       {[response |-> m, lb |-> server[s].timestamp] :
          m \in Answers(s, r)}
  /\ UNCHANGED <<issued, views>>

UniHandle(s, r) ==
  /\ Handle(s, r)
  /\ bounds' = bounds \cup
       {[response |-> m, lb |-> server'[s].timestamp] :
          m \in Answers(s, r)}
  /\ UNCHANGED <<issued, views>>

UniReadInvoke(c) ==
  /\ ReadInvoke(c)
  /\ issue_request_proof(request'[c], extract_lbs)
  /\ Knows(c, extract_lbs)

UniInsertGet(c, b) ==
  /\ b.response \in responses
  /\ InsertGet(c, b.response)
  /\ Knows(c, tracked_update_lb(views[c], b.response.server, b.lb))
  /\ UNCHANGED issued

(* The write-back carries the view that the read began with. *)
UniReadWriteBack(c) ==
  /\ ReadWriteBack(c)
  /\ issue_request_proof(request'[c], issued[Key(request[c])].servers)
  /\ Knows(c, views[c])

(* A server that is known to hold the maximum says nothing new. *)
UniInsertWriteBack(c, b) ==
  /\ b.response \in responses
  /\ InsertWriteBack(c, b.response)
  /\ IF b.response.server \in agree_with_max[c]
     THEN Knows(c, views[c])
     ELSE Raise(c, b.response.server, b.lb)
  /\ UNCHANGED issued

UniWriteInvoke(c, v) ==
  /\ WriteInvoke(c, v)
  /\ issue_request_proof(request'[c], extract_lbs)
  /\ Knows(c, extract_lbs)

UniInsertGetTimestamp(c, b) ==
  /\ b.response \in responses
  /\ InsertGetTimestamp(c, b.response)
  /\ Knows(c, tracked_update_lb(views[c], b.response.server, b.lb))
  /\ UNCHANGED issued

(* The second phase of a write begins with a new view. *)
UniWriteExecute(c) ==
  /\ WriteExecute(c)
  /\ issue_request_proof(request'[c], extract_lbs)
  /\ Knows(c, extract_lbs)

UniInsertWrite(c, b) ==
  /\ b.response \in responses
  /\ InsertWrite(c, b.response)
  /\ Raise(c, b.response.server, b.lb)
  /\ UNCHANGED issued

UniLeave(c) ==
  /\ ReadUnanimous(c) \/ ReadReturn(c) \/ WriteReturn(c) \/ GiveUp(c)
  /\ Knows(c, NoView)
  /\ UNCHANGED issued

UniDeliver(c, b) ==
  \/ UniInsertGet(c, b) \/ UniInsertWriteBack(c, b)
  \/ UniInsertGetTimestamp(c, b) \/ UniInsertWrite(c, b)

UniNext ==
  \/ \E s \in Servers, r \in requests : UniHandle(s, r)
  \/ \E c \in Clients :
       \/ UniReadInvoke(c)
       \/ \E v \in Arguments : UniWriteInvoke(c, v)
       \/ \E b \in bounds : UniDeliver(c, b)
       \/ UniReadWriteBack(c) \/ UniWriteExecute(c) \/ UniLeave(c)
       \/ \E s \in Servers : LinkFailure(c, s) /\ UNCHANGED known

UniSpec == UniInit /\ [][UniNext]_univars

-----------------------------------------------------------------------------
UniTypeOK ==
  /\ DOMAIN issued \subseteq Clients \X Nat
  /\ \A k \in DOMAIN issued : issued[k] \in IssuedRequest
  /\ views \in [Clients -> View]
  /\ bounds \subseteq Bound

(* Nobody believes that a replica holds more than it does, however late    *)
(* the reply or the request is that it knows it from: with the replica's   *)
(* right to advance, every lower bound that a client, a request ever       *)
(* issued or a response under way carries is valid.                        *)
LowerBounds(s) ==
  {views[c][s] : c \in Clients}
    \cup {issued[k].servers[s] : k \in DOMAIN issued}
    \cup {b.lb : b \in {b \in bounds : b.response.server = s}}

BoundsAreValid ==
  \A s \in Servers : \A lb \in LowerBounds(s) :
    valid(op(HalfRightToAdvance(server[s].timestamp), LowerBound(lb)))

(* Every request and response under way agrees with the one request that   *)
(* was ever issued under its tag (agree_proof): no tag is used twice.      *)
ProofsAgree ==
  /\ \A r \in requests :
       /\ Key(r) \in DOMAIN issued
       /\ issued[Key(r)].type = r.type
       /\ issued[Key(r)].timestamp = r.timestamp
       /\ issued[Key(r)].value = r.value
  /\ \A m \in responses :
       /\ Key(m) \in DOMAIN issued
       /\ issued[Key(m)].type = m.type
       /\ \E b \in bounds : b.response = m

(* A response tells of a replica that holds no less than what it held when *)
(* the request was issued, and no less than what the request had it write  *)
(* (Response::inv); what it tells of a maximum is what the replica held.   *)
ResponsesReach ==
  \A b \in bounds :
    LET m == b.response
        r == issued[Key(m)]
    IN  /\ TsLe(server_lower_bound(r, m.server), b.lb)
        /\ m.type = "Write" => TsLe(r.timestamp, b.lb)
        /\ m.type # "Write" => m.timestamp = b.lb

(* The type invariants of the accumulators: the view of a replica that has *)
(* not answered is the one the phase began with; a replica that has holds  *)
(* no more than the maximum, and exactly the maximum if it agrees with it. *)
(* After the first phase of a read, who agrees holds it at least.          *)
Began(c) == issued[Key(request[c])].servers

FirstPhase(c) ==
  /\ \A s \in Servers \ replies[c] : views[c][s] = Began(c)[s]
  /\ \A s \in replies[c] : TsLe(views[c][s], max_resp[c].timestamp)
  /\ \A s \in agree_with_max[c] : views[c][s] = max_resp[c].timestamp
  /\ agree_with_max[c] \subseteq replies[c]
  /\ agree_with_max[c] = {} <=> replies[c] = {}

WriteBackPhase(c) ==
  /\ replies[c] \subseteq agree_with_max[c]
  /\ \A s \in agree_with_max[c] : TsLe(max_resp[c].timestamp, views[c][s])

WritePhase(c) ==
  /\ \A s \in Servers \ replies[c] : views[c][s] = Began(c)[s]
  /\ \A s \in replies[c] : TsLe(request[c].timestamp, views[c][s])

Knowing(c) ==
  /\ phase[c] # "idle" => leq(Began(c), views[c])
  /\ phase[c] \notin {"idle", "write"} => QuorumsReach(views[c], min_ts[c])
  /\ phase[c] \in {"get", "get_timestamp"} => FirstPhase(c)
  /\ phase[c] = "write_back" => WriteBackPhase(c)
  /\ phase[c] = "write" => WritePhase(c)

AccumulatorsKnow == \A c \in Clients : Knowing(c)
=============================================================================
