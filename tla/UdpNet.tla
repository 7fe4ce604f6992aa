------------------------------- MODULE UdpNet -------------------------------
(***************************************************************************)
(* The UDP transport: clients that ask a listening socket for a channel,   *)
(* and channels that are pairs of connected sockets.  The network loses,   *)
(* repeats and reorders datagrams.  A socket that is connected receives    *)
(* from its peer only.  No socket gets the address of an earlier one.      *)
(***************************************************************************)
EXTENDS Integers

CONSTANTS
  UdpClient,    \* the client processes
  UdpId,        \* the client id of a process
  MaxSockets,   \* the ports that the server may bind
  MaxUdpCalls   \* bound: c makes MaxUdpCalls[c] calls

Sockets   == 1 .. MaxSockets
Listening == <<"listening", 0>>
ConnectSocket(c) == <<"connect", c>>
ChannelSocket(c) == <<"channel", c>>
ServerSocket(n)  == <<"server", n>>

Address == {Listening} \cup {ConnectSocket(c) : c \in UdpClient}
             \cup {ChannelSocket(c) : c \in UdpClient} \cup {ServerSocket(n) : n \in Sockets}

NoPeer == [id |-> 0, peer |-> Listening]

VARIABLES
  connecting,  \* every datagram that was sent to make a connection
  datagrams,   \* every datagram that was sent on a channel
  bound,       \* how many sockets the server has bound
  accepted_as, \* the client id and the peer of each of them
  polled,      \* those that the server polls
  state,       \* what a client is doing
  peer,        \* the address its channel is connected to
  calls,       \* how many calls it has made
  lost,        \* ghost: the clients whose connection request or its reply
               \*   was lost, or met no free port
  disturbed    \* ghost: the client ids with a process that ended or a
               \*   message that is too large

udp_server == <<bound, accepted_as, polled>>
udp_client == <<state, peer, calls>>
udp_vars   == <<connecting, datagrams, udp_server, udp_client, lost, disturbed>>

UdpInit ==
  /\ connecting = {} /\ datagrams = {}
  /\ bound = 0
  /\ accepted_as = [n \in Sockets |-> NoPeer]
  /\ polled = {}
  /\ state = [c \in UdpClient |-> "idle"]
  /\ peer  = [c \in UdpClient |-> Listening]
  /\ calls = [c \in UdpClient |-> 0]
  /\ lost = {} /\ disturbed = {}

Goto(c, s) == state' = [state EXCEPT ![c] = s]

-----------------------------------------------------------------------------
(* Whatever was sent may be received any number of times, at any time, or  *)
(* never.                                                                  *)
SendTo(d) == connecting' = connecting \cup {d}
Asked(d)  == d \in connecting /\ d.to = Listening

(* A datagram as large as the receiver's buffer is cut off.                *)
Readable(d) == ~ d.large

(* connect: the request is sent once, and answered with the address of a   *)
(* new socket.                                                             *)
Ask(c) ==
  /\ state[c] = "idle"
  /\ Goto(c, "waiting")
  /\ SendTo([from |-> ConnectSocket(c), to |-> Listening, client |-> c,
             id |-> UdpId[c], addr |-> ChannelSocket(c)])
  /\ UNCHANGED <<datagrams, udp_server, peer, calls, lost, disturbed>>

(* A slip: the channel is connected to the socket that asked for it. *)
AcceptFromSender(d) ==
  LET n == bound + 1 IN
  /\ Asked(d)
  /\ n \in Sockets
  /\ bound' = n
  /\ accepted_as' = [accepted_as EXCEPT ![n] = [id |-> d.id, peer |-> d.from]]
  /\ polled' = polled \cup {n}
  /\ SendTo([from |-> Listening, to |-> d.from, client |-> d.client,
             id |-> d.id, addr |-> ServerSocket(n)])
  /\ UNCHANGED <<datagrams, udp_client, lost, disturbed>>

Accept(d) ==
  LET n == bound + 1 IN
  /\ Asked(d)
  /\ n \in Sockets
  /\ bound' = n
  /\ accepted_as' = [accepted_as EXCEPT ![n] = [id |-> d.id, peer |-> d.addr]]
  /\ polled' = polled \cup {n}
  /\ SendTo([from |-> Listening, to |-> d.from, client |-> d.client,
             id |-> d.id, addr |-> ServerSocket(n)])
  /\ UNCHANGED <<datagrams, udp_client, lost, disturbed>>

(* There is no port to bind: the request is forgotten. *)
AcceptFails(d) ==
  /\ Asked(d)
  /\ bound = MaxSockets
  /\ lost' = lost \cup {d.client}
  /\ UNCHANGED <<connecting, datagrams, udp_server, udp_client, disturbed>>

TakeReply(c) ==
  /\ state[c] = "waiting"
  /\ \E d \in connecting :
       /\ d.to = ConnectSocket(c)
       /\ peer' = [peer EXCEPT ![c] = d.addr]
  /\ Goto(c, "connected")
  /\ UNCHANGED <<connecting, datagrams, udp_server, calls, lost, disturbed>>

-----------------------------------------------------------------------------
(* Calls.  A message may be too large; one that is cut off is an error.    *)
Invoke(c) ==
  /\ state[c] = "connected" /\ calls[c] < MaxUdpCalls[c]
  /\ Goto(c, "calling")
  /\ calls' = [calls EXCEPT ![c] = @ + 1]
  /\ \E large \in BOOLEAN :
       /\ datagrams' = datagrams \cup
            {[from |-> ChannelSocket(c), to |-> peer[c], client |-> c,
              call |-> calls[c], large |-> large]}
       /\ disturbed' = IF large THEN disturbed \cup {UdpId[c]} ELSE disturbed
  /\ UNCHANGED <<connecting, udp_server, peer, lost>>

(* A slip: an error drops every channel. *)
DropAll(n) == polled' = {}

(* An error drops every channel with the id of this one. *)
DropId(n) ==
  polled' = {k \in polled : accepted_as[k].id # accepted_as[n].id}

Serve(n, d) ==
  /\ n \in polled
  /\ d \in datagrams /\ d.to = ServerSocket(n) /\ d.from = accepted_as[n].peer
  /\ \/ /\ Readable(d)
        /\ \E large \in BOOLEAN :
             /\ datagrams' = datagrams \cup
                  {[from |-> d.to, to |-> d.from, client |-> d.client,
                    call |-> d.call, large |-> large]}
             /\ disturbed' = IF large THEN disturbed \cup {accepted_as[n].id} ELSE disturbed
        /\ UNCHANGED polled
     \/ /\ ~ Readable(d)
        /\ DropId(n)
        /\ UNCHANGED <<datagrams, disturbed>>
  /\ UNCHANGED <<connecting, bound, accepted_as, udp_client, lost>>

(* The response to the call that waits, or one that cannot be read. *)
Return(c, d) ==
  /\ state[c] = "calling"
  /\ d \in datagrams /\ d.to = ChannelSocket(c) /\ d.from = peer[c]
  /\ \/ Readable(d) /\ d.call = calls[c] - 1 /\ Goto(c, "connected")
     \/ ~ Readable(d) /\ Goto(c, "failed")
  /\ UNCHANGED <<connecting, datagrams, udp_server, peer, calls, lost, disturbed>>

(* The socket that a datagram was sent to is closed, and its sender told. *)
RefuseClient(c) ==
  /\ state[c] = "calling"
  /\ \A n \in polled : peer[c] # ServerSocket(n)
  /\ Goto(c, "failed")
  /\ UNCHANGED <<connecting, datagrams, udp_server, peer, calls, lost, disturbed>>

RefuseServer(n) ==
  /\ n \in polled
  /\ \E d \in datagrams : d.from = ServerSocket(n) /\ state[d.client] = "gone"
  /\ DropId(n)
  /\ UNCHANGED <<connecting, datagrams, bound, accepted_as, udp_client, lost, disturbed>>

-----------------------------------------------------------------------------
(* The request of c, or the reply to it, will not be received. *)
Lose(c) ==
  /\ state[c] = "waiting" /\ c \notin lost
  /\ lost' = lost \cup {c}
  /\ UNCHANGED <<connecting, datagrams, udp_server, udp_client, disturbed>>

Exit(c) ==
  /\ state[c] \in {"connected", "calling"}
  /\ Goto(c, "gone")
  /\ disturbed' = disturbed \cup {UdpId[c]}
  /\ UNCHANGED <<connecting, datagrams, udp_server, peer, calls, lost>>

-----------------------------------------------------------------------------
UdpNext ==
  \/ \E d \in connecting : Accept(d) \/ AcceptFails(d)
  \/ \E n \in Sockets : RefuseServer(n) \/ \E d \in datagrams : Serve(n, d)
  \/ \E c \in UdpClient :
       \/ Ask(c) \/ TakeReply(c) \/ Invoke(c) \/ RefuseClient(c) \/ Exit(c) \/ Lose(c)
       \/ \E d \in datagrams : Return(c, d)

(* The server polls its listening socket for ever, and so does a client    *)
(* that waits for the reply.                                               *)
FirstAccept(c) ==
  /\ c \notin lost
  /\ \A d \in connecting : d.to # ConnectSocket(c)
  /\ \E d \in connecting : d.client = c /\ (Accept(d) \/ AcceptFails(d))

UdpFairness ==
  \A c \in UdpClient : /\ WF_udp_vars(FirstAccept(c))
                      /\ WF_udp_vars(c \notin lost /\ TakeReply(c))

UdpSpec == UdpInit /\ [][UdpNext]_udp_vars /\ UdpFairness

-----------------------------------------------------------------------------
(* The variables keep their types. *)
UdpTypeOK ==
  /\ connecting \subseteq
       [from : Address, to : Address, client : UdpClient,
        id : {UdpId[c] : c \in UdpClient}, addr : Address]
  /\ datagrams \subseteq
       [from : Address, to : Address, client : UdpClient, call : Nat, large : BOOLEAN]
  /\ bound \in 0 .. MaxSockets
  /\ accepted_as \in [Sockets -> [id : {UdpId[c] : c \in UdpClient} \cup {0}, peer : Address]]
  /\ polled \subseteq 1 .. bound
  /\ state \in [UdpClient -> {"idle", "waiting", "connected", "calling", "failed", "gone"}]
  /\ peer \in [UdpClient -> Address]
  /\ calls \in [UdpClient -> Nat]
  /\ lost \subseteq UdpClient
  /\ disturbed \subseteq {UdpId[c] : c \in UdpClient}

(* Whichever of its requests was answered, and whichever reply it took: a  *)
(* client's channel leads to a socket of the server that leads back to it  *)
(* and is served under its id.                                             *)
PeersMatch ==
  \A c \in UdpClient : peer[c] # Listening =>
    \E n \in 1 .. bound :
      /\ peer[c] = ServerSocket(n)
      /\ accepted_as[n] = [id |-> UdpId[c], peer |-> ChannelSocket(c)]

(* A call fails only if a process with its client id ended, or sent or was *)
(* sent a message that is too large.                                       *)
UdpFailuresStayLocal ==
  \A c \in UdpClient : state[c] = "failed" => UdpId[c] \in disturbed

(* connect returns, unless a datagram is lost or there is no port left.    *)
UdpConnectReturns ==
  \A c \in UdpClient : state[c] = "waiting" ~> state[c] # "waiting" \/ c \in lost
=============================================================================
