---------------------------- MODULE ModelledNet -----------------------------
(***************************************************************************)
(* The in-process transport: a listener, and callers that share its        *)
(* connector.  A caller puts its id into one queue and takes a channel     *)
(* from another; a channel is two queues that lose nothing.                *)
(***************************************************************************)
EXTENDS Integers, Sequences, FiniteSets

CONSTANTS
  Caller,    \* what calls connect, once each
  CallerId,  \* the client id that a caller connects with
  MaxCalls   \* bound: c sends MaxCalls[c] requests on its channel

Channels == 1 .. Cardinality(Caller)

VARIABLES
  listening,    \* does the listener exist?
  registering,  \* the ids of the callers that wait to be accepted
  connections,  \* the channels that wait to be taken
  client_id,    \* the id that the listener gave to each channel it made
  connected,    \* the channels that the server polls
  caller,       \* what a caller is doing
  channel,      \* the channel it has, if any
  called,       \* how many requests it has sent
  to_server, to_client,  \* the two queues of each channel
  rounds,       \* ghost: how often somebody began to wait when nobody did
  round         \* ghost: which of these rounds a caller began to wait in

net_server == <<listening, registering, connections, client_id, connected>>
net_caller == <<caller, channel, called>>
ghost_vars == <<rounds, round>>
net_vars   == <<net_server, net_caller, to_server, to_client, ghost_vars>>

ModelledInit ==
  /\ listening = TRUE
  /\ registering = <<>> /\ connections = <<>> /\ client_id = <<>> /\ connected = {}
  /\ caller  = [c \in Caller |-> "idle"]
  /\ channel = [c \in Caller |-> 0]
  /\ called  = [c \in Caller |-> 0]
  /\ to_server = [n \in Channels |-> <<>>]
  /\ to_client = [n \in Channels |-> <<>>]
  /\ rounds = 0 /\ round = [c \in Caller |-> 0]

Waiting == {c \in Caller : caller[c] = "waiting"}

Becomes(c, state) == caller' = [caller EXCEPT ![c] = state]

(* Whoever waits at the same time is in one round. *)
JoinsRound(c) ==
  /\ rounds' = IF Waiting = {} THEN rounds + 1 ELSE rounds
  /\ round'  = [round EXCEPT ![c] = rounds']

-----------------------------------------------------------------------------
(* connect: the id is sent, then a channel is waited for.                  *)

(* A slip: the id is sent once more. *)
RegisterTwice(c) ==
  /\ caller[c] = "idle"
  /\ listening
  /\ registering' = registering \o <<CallerId[c], CallerId[c]>>
  /\ Becomes(c, "waiting")
  /\ JoinsRound(c)
  /\ UNCHANGED <<listening, connections, client_id, connected, channel, called,
                 to_server, to_client>>

Register(c) ==
  /\ caller[c] = "idle"
  /\ listening
  /\ registering' = Append(registering, CallerId[c])
  /\ Becomes(c, "waiting")
  /\ JoinsRound(c)
  /\ UNCHANGED <<listening, connections, client_id, connected, channel, called,
                 to_server, to_client>>

TakeChannel(c) ==
  /\ caller[c] = "waiting"
  /\ connections # <<>>
  /\ connections' = Tail(connections)
  /\ channel' = [channel EXCEPT ![c] = Head(connections)]
  /\ Becomes(c, "connected")
  /\ UNCHANGED <<listening, registering, client_id, connected, called,
                 to_server, to_client, ghost_vars>>

(* There is no listener any more. *)
ConnectFails(c) ==
  /\ ~ listening
  /\ \/ caller[c] = "idle"
     \/ caller[c] = "waiting" /\ connections = <<>>
  /\ Becomes(c, "refused")
  /\ UNCHANGED <<net_server, channel, called, to_server, to_client, ghost_vars>>

-----------------------------------------------------------------------------
(* The server: try_accept, and one turn of its poll for one channel.       *)
(* A slip: the caller's end of the channel is not passed on. *)
TryAcceptKeepsChannel ==
  LET n == Len(client_id) + 1 IN
  /\ listening /\ registering # <<>>
  /\ registering' = Tail(registering)
  /\ client_id' = Append(client_id, Head(registering))
  /\ connected' = connected \cup {n}
  /\ UNCHANGED <<listening, connections, net_caller, to_server, to_client, ghost_vars>>

TryAccept ==
  LET n == Len(client_id) + 1 IN
  /\ listening /\ registering # <<>>
  /\ registering' = Tail(registering)
  /\ client_id' = Append(client_id, Head(registering))
  /\ connections' = Append(connections, n)
  /\ connected' = connected \cup {n}
  /\ UNCHANGED <<listening, net_caller, to_server, to_client, ghost_vars>>

(* Does somebody have, or may yet get, the other end of the channel? *)
Held(n) == \/ \E c \in Caller : channel[c] = n /\ caller[c] # "gone"
           \/ \E i \in DOMAIN connections : connections[i] = n

(* The request is answered; a response that cannot be sent is an error.    *)
SameId(n) == {k \in connected : client_id[k] = client_id[n]}

Serve(n) ==
  /\ n \in connected /\ to_server[n] # <<>>
  /\ to_server' = [to_server EXCEPT ![n] = Tail(@)]
  /\ IF Held(n)
     THEN /\ to_client' = [to_client EXCEPT ![n] = Append(@, Head(to_server[n]))]
          /\ UNCHANGED connected
     ELSE /\ connected' = connected \ SameId(n)
          /\ UNCHANGED to_client
  /\ UNCHANGED <<listening, registering, connections, client_id, net_caller, ghost_vars>>

(* A slip: the other channels are dropped. *)
DropOthers(n) ==
  /\ n \in connected /\ to_server[n] = <<>> /\ ~ Held(n)
  /\ connected' = SameId(n)
  /\ UNCHANGED <<listening, registering, connections, client_id, net_caller,
                 to_server, to_client, ghost_vars>>

(* The channel is disconnected: every channel with its id is dropped. *)
Drop(n) ==
  /\ n \in connected /\ to_server[n] = <<>> /\ ~ Held(n)
  /\ connected' = connected \ SameId(n)
  /\ UNCHANGED <<listening, registering, connections, client_id, net_caller,
                 to_server, to_client, ghost_vars>>

(* The server ends, because its connector is gone or for reasons of its own. *)
DropListener ==
  /\ listening
  /\ listening' = FALSE
  /\ registering' = <<>>
  /\ connected' = {}
  /\ UNCHANGED <<connections, client_id, net_caller, to_server, to_client, ghost_vars>>

-----------------------------------------------------------------------------
(* The callers use their channels. *)
Call(c) ==
  LET n == channel[c] IN
  /\ caller[c] = "connected" /\ called[c] < MaxCalls[c]
  /\ IF n \in connected
     THEN /\ to_server' = [to_server EXCEPT ![n] = Append(@, c)]
          /\ called' = [called EXCEPT ![c] = @ + 1]
          /\ Becomes(c, "calling")
     ELSE Becomes(c, "failed") /\ UNCHANGED <<to_server, called>>
  /\ UNCHANGED <<net_server, channel, to_client, ghost_vars>>

Return(c) ==
  LET n == channel[c] IN
  /\ caller[c] = "calling"
  /\ \/ /\ to_client[n] # <<>>
        /\ to_client' = [to_client EXCEPT ![n] = Tail(@)]
        /\ Becomes(c, "connected")
     \/ /\ to_client[n] = <<>> /\ n \notin connected
        /\ Becomes(c, "failed")
        /\ UNCHANGED to_client
  /\ UNCHANGED <<net_server, channel, called, to_server, ghost_vars>>

(* The caller drops its channel.  After an error it does not matter: the   *)
(* server has dropped the other end before.                                *)
DropChannel(c) ==
  /\ caller[c] \in {"connected", "calling"}
  /\ Becomes(c, "gone")
  /\ UNCHANGED <<net_server, channel, called, to_server, to_client, ghost_vars>>

-----------------------------------------------------------------------------
ServerTurn == TryAccept \/ \E n \in Channels : Serve(n) \/ Drop(n)

ModelledNext ==
  \/ ServerTurn \/ DropListener
  \/ \E c \in Caller : \/ Register(c) \/ TakeChannel(c) \/ ConnectFails(c)
                       \/ Call(c) \/ Return(c) \/ DropChannel(c)

(* The server polls for ever; a caller that waits in connect, or for a     *)
(* response, goes on when it can.                                          *)
ModelledFairness ==
  /\ WF_net_vars(TryAccept)
  /\ \A c \in Caller : WF_net_vars(TakeChannel(c) \/ ConnectFails(c))

ModelledSpec == ModelledInit /\ [][ModelledNext]_net_vars /\ ModelledFairness

-----------------------------------------------------------------------------
(* The variables keep their types. *)
ModelledTypeOK ==
  /\ listening \in BOOLEAN
  /\ registering \in Seq({CallerId[c] : c \in Caller})
  /\ client_id \in Seq({CallerId[c] : c \in Caller})
  /\ connections \in Seq(Channels) /\ connected \subseteq DOMAIN client_id
  /\ caller \in [Caller -> {"idle", "waiting", "refused", "connected", "calling",
                            "failed", "gone"}]
  /\ channel \in [Caller -> 0 .. Len(client_id)]
  /\ called \in [Caller -> Nat] /\ \A c \in Caller : called[c] <= MaxCalls[c]
  /\ to_server \in [Channels -> Seq(Caller)] /\ to_client \in [Channels -> Seq(Caller)]
  /\ rounds \in Nat /\ round \in [Caller -> Nat]

(* The listener gave a caller's channel the id of a caller of the same     *)
(* round: its own if nobody waited meanwhile, and never that of one which  *)
(* came after everybody had a channel.  Nobody has another's channel.      *)
IdsAgree ==
  /\ \A c \in Caller : channel[c] # 0 =>
       \E d \in Caller : round[d] = round[c] /\ client_id[channel[c]] = CallerId[d]
  /\ \A c, d \in Caller : channel[c] # 0 /\ channel[c] = channel[d] => c = d

(* A call fails only because the server ended or somebody's channel was    *)
(* dropped which has the same id at the server, be it the caller's own or  *)
(* the one that it got by overlapping with others.                         *)
ModelledFailuresStayLocal ==
  \A c \in Caller : caller[c] = "failed" =>
    \/ ~ listening
    \/ \E d \in Caller : /\ caller[d] = "gone" /\ channel[d] # 0
                         /\ client_id[channel[d]] = client_id[channel[c]]

(* Every connect returns, with a channel or an error. *)
ModelledConnectReturns ==
  \A c \in Caller : caller[c] = "waiting" ~> caller[c] # "waiting"
=============================================================================
