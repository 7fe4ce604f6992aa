--------------------------- MODULE AbdProperties ----------------------------
(***************************************************************************)
(* What the ABD register promises, in terms of the states of module Abd.   *)
(***************************************************************************)
EXTENDS Abd

(* Type correctness. *)
TypeOK ==
  /\ server \in [Servers -> Register]
  /\ requests \subseteq Request
  /\ responses \subseteq Response
  /\ broken \subseteq Clients \X Servers
  /\ phase \in [Clients -> Phases]
  /\ request \in [Clients -> Request]
  /\ request_ctr \in [Clients -> Nat]
  /\ client_ctr \in [Clients -> Nat]
  /\ new_value \in [Clients -> Values]
  /\ max_resp \in [Clients -> Register]
  /\ agree_with_max \in [Clients -> SUBSET Servers]
  /\ replies \in [Clients -> SUBSET Servers]
  /\ errors \in [Clients -> SUBSET Servers]
  /\ min_ts \in [Clients -> Timestamp]
  /\ watermark \in Timestamp

-----------------------------------------------------------------------------
(* What an operation returned is known to every quorum: whichever servers  *)
(* the next operation hears from, one of them holds a timestamp at least   *)
(* as great as any returned so far.                                        *)
QuorumsCoverWatermark ==
  \A Q \in Quorums : \E s \in Q : TsLe(watermark, server[s].timestamp)

(* A read never chooses a value older than one an operation had returned   *)
(* before the read was invoked, be it a write or another client's read (no *)
(* new-old inversion).                                                     *)
ReadsAreFresh ==
  \A c \in Clients :
    (phase[c] = "get" /\ IsQuorum(replies[c])) \/ phase[c] = "write_back"
      => TsLe(min_ts[c], max_resp[c].timestamp)

(* A write takes a timestamp beyond every operation that returned before   *)
(* the write was invoked.                                                  *)
WritesAreNewer ==
  \A c \in Clients :
    phase[c] = "write" => TsLt(min_ts[c], request[c].timestamp)

(* All the places where a timestamp stands for a value. *)
Pair(x) == [timestamp |-> x.timestamp, value |-> x.value]

(* Has the read of c heard of a value? *)
HasHeard(c) == phase[c] = "write_back" \/ (phase[c] = "get" /\ replies[c] # {})

Pairs ==
  {server[s] : s \in Servers}
    \cup {Pair(r) : r \in {r \in requests : r.type = "Write"}}
    \cup {Pair(m) : m \in {m \in responses : m.type = "Get"}}
    \cup {max_resp[c] : c \in {c \in Clients : HasHeard(c)}}

(* A timestamp names one value, wherever it is found: two writes never     *)
(* take the same timestamp, not even writes of one client the first of     *)
(* which failed half way.                                                  *)
TimestampsNameOneValue ==
  \A x, y \in Pairs : x.timestamp = y.timestamp => x = y

(* A replica goes forward only, and holds one value per timestamp.         *)
ServersAreMonotonic ==
  [][\A s \in Servers :
       \/ server'[s] = server[s]
       \/ TsLt(server[s].timestamp, server'[s].timestamp)]_server

(* Every operation ends, with a result or with an error.                   *)
OperationsReturn ==
  \A c \in Clients : phase[c] # "idle" ~> phase[c] = "idle"

(* What keeps a client from waiting for ever: wait_for can end, or a       *)
(* server whose link is up has the request or has answered it, or a broken *)
(* link is yet to be reported.  Two clients have nothing to wait for: one  *)
(* that writes back and has links to no quorum, since giving up waits for  *)
(* the servers that hold the maximum too, which nobody asks (run hang);    *)
(* and one whose request was not sent on a link that works again since.    *)
Asked(c, s) ==
  \E r \in requests : r.client = c /\ r.id = request[c].id /\ s \in r.to

Answered(c, s) == \E m \in responses : m.client = c /\ m.server = s

GoesOn(c) ==
  \/ Terminated(c) \/ n_received(c) >= Cardinality(Servers)
  \/ \E s \in Servers \ replies[c] : LinkUp(c, s) /\ (Asked(c, s) \/ Answered(c, s))
  \/ \E s \in Servers \ errors[c] : ~ LinkUp(c, s)

NobodyWaitsInVain ==
  \A c \in Clients :
    phase[c] # "idle" =>
      \/ GoesOn(c)
      \/ phase[c] = "write_back" /\ ~ IsQuorum({s \in Servers : LinkUp(c, s)})
      \/ \E s \in Servers : <<c, s>> \in Transient \ broken /\ s \notin request[c].to

(* An operation fails only when the servers it heard from and those it may *)
(* yet hear from are no quorum: client/error.rs says so of reads and of    *)
(* writes.                                                                 *)
Attainable(c) ==
  IsQuorum(replies[c] \cup agree_with_max[c] \cup (Servers \ errors[c]))

FailsOnlyWhenUnattainable ==
  [][\A c \in Clients : GiveUp(c) => ~ Attainable(c)]_vars
-----------------------------------------------------------------------------
(***************************************************************************)
(* The inductive invariant behind the safety properties.                   *)
(***************************************************************************)

(* The request a client waits on is the last it broadcast, and what is in  *)
(* flight for a client answers that request.                               *)
RequestsTagged ==
  /\ \A r \in requests :
       /\ r.id < request_ctr[r.client]
       /\ phase[r.client] # "idle" /\ r.id = request[r.client].id
            => r.type = request[r.client].type
               /\ r.timestamp = request[r.client].timestamp
  /\ \A c \in Clients :
       /\ phase[c] # "idle" => request[c].id < request_ctr[c]
       /\ phase[c] = "get" => request[c].type = "Get"
       /\ phase[c] = "get_timestamp" => /\ request[c].type = "GetTimestamp"
                                        /\ client_ctr[c] # 0
       /\ phase[c] = "write" => request[c].type = "Write"
       /\ phase[c] = "write_back" => /\ request[c].type = "Write"
                                     /\ request[c].timestamp = max_resp[c].timestamp
  /\ \A m \in responses :
       /\ phase[m.client] # "idle"
       /\ m.type = request[m.client].type

(* The parts below speak of the servers in T, those that never lose what   *)
(* they hold: in module Abd all of them, in AbdExample those that were not *)
(* started again.                                                          *)

(* What a response says of its server stays true, for servers only advance. *)
ResponsesBound(T) ==
  \A m \in responses :
    m.server \in T =>
      TsLe(IF m.type = "Write" THEN request[m.client].timestamp ELSE m.timestamp,
           server[m.server].timestamp)

(* The servers in agree_with_max hold the maximum, and those that answered *)
(* a write hold what was written.                                          *)
Holders(c, T) ==
  /\ \A s \in agree_with_max[c] \cap T :
       TsLe(max_resp[c].timestamp, server[s].timestamp)
  /\ phase[c] = "write" =>
       \A s \in replies[c] \cap T : TsLe(request[c].timestamp, server[s].timestamp)

HoldersHold(T) == \A c \in Clients : Holders(c, T)

(* Server s can only tell c of timestamps at or beyond min_ts[c], and if s *)
(* has told c one then the maximum c knows is at or beyond min_ts[c].      *)
FreshFor(c, s) ==
  /\ TsLe(min_ts[c], server[s].timestamp)
  /\ \A m \in responses :
       m.client = c /\ m.server = s => TsLe(min_ts[c], m.timestamp)
  /\ s \in replies[c] => TsLe(min_ts[c], max_resp[c].timestamp)

QuorumsOf(T) == {Q \in Quorums : Q \subseteq T}

Fresh(c, T) ==
  phase[c] \in {"get", "get_timestamp"} =>
    \A Q \in QuorumsOf(T) : \E s \in Q : FreshFor(c, s)

QuorumsAreFresh(T) == \A c \in Clients : Fresh(c, T)

Covered(T) == \A Q \in QuorumsOf(T) : \E s \in Q : TsLe(watermark, server[s].timestamp)

(* What holds of the servers in T whatever the others answer. *)
TrustInv(T) ==
  /\ TypeOK
  /\ RequestsTagged
  /\ ResponsesBound(T)
  /\ HoldersHold(T)
  /\ QuorumsAreFresh(T)
  /\ Covered(T)

(* The timestamps found in the system take the numbers their writers have  *)
(* used up, and not the number of a write that has yet to choose its own.  *)
NumberTaken(t) ==
  t.client_id \in Clients =>
    /\ t.client_ctr < client_ctr[t.client_id]
    /\ phase[t.client_id] = "get_timestamp"
         => t.client_ctr # client_ctr[t.client_id] - 1

NumbersTaken == \A p \in Pairs : NumberTaken(p.timestamp)

NamesInv == NumbersTaken /\ TimestampsNameOneValue

(* Whom a client asks, with or without success, and what became of it.     *)
AllAsked(c) ==
  \A s \in Servers : \/ s \in request[c].to
                     \/ <<c, s>> \in broken \cup Transient
                     \/ phase[c] = "write_back" /\ s \in agree_with_max[c]

NoneForgotten(c) ==
  \A s \in request[c].to : s \in replies[c] \/ Asked(c, s) \/ Answered(c, s)

Waits(c) ==
  phase[c] # "idle" =>
    /\ AllAsked(c)
    /\ NoneForgotten(c)
    /\ phase[c] = "write_back" => replies[c] \subseteq agree_with_max[c]

WaitsInv == \A c \in Clients : Waits(c)

Inv ==
  /\ TypeOK
  /\ RequestsTagged
  /\ ResponsesBound(Servers)
  /\ HoldersHold(Servers)
  /\ QuorumsAreFresh(Servers)
  /\ QuorumsCoverWatermark
  /\ ReadsAreFresh
  /\ WritesAreNewer
=============================================================================
