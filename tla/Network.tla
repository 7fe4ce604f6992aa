------------------------------ MODULE Network -------------------------------
(***************************************************************************)
(* The transports from which a program chooses one when it starts: clients *)
(* that make channels and call over them in one process (ModelledNet) or   *)
(* by UDP (UdpNet), and the framing of messages on a TCP stream            *)
(* (TcpStream), on which clients connect as in module Echo.                *)
(***************************************************************************)
EXTENDS Integers, Sequences, FiniteSets

CONSTANTS
  Client, ClientId,  \* the client processes and their ids
  MaxCalls,          \* bound: c makes MaxCalls[c] calls
  MaxSockets,        \* the ports that a server may bind for UDP
  Length, LenUnits, Capacity, MaxLength  \* see TcpStream

ASSUME ClientsAssumption == IsFiniteSet(Client) /\ ClientId \in [Client -> Nat]
ASSUME BoundsAssumption  == MaxCalls \in [Client -> Nat] /\ MaxSockets \in Nat
ASSUME StreamAssumption  == /\ Length \in Seq(Nat \ {0}) /\ MaxLength \in Nat
                            /\ LenUnits \in Nat \ {0} /\ Capacity \in Nat \ {0}

VARIABLES
  network,  \* the transport that was chosen
  listening, registering, connections, client_id, connected,
  caller, channel, called, to_server, to_client, rounds, round,
  connecting, datagrams, bound, accepted_as, polled,
  state, peer, calls, lost, disturbed,
  next, unsent, accepted, stream, arrived, ended, at, need, buf, received, damaged

Modelled == INSTANCE ModelledNet WITH Caller <- Client, CallerId <- ClientId
Udp == INSTANCE UdpNet
         WITH UdpClient <- Client, UdpId <- ClientId, MaxUdpCalls <- MaxCalls
Tcp == INSTANCE TcpStream

modelled_vars ==
  <<listening, registering, connections, client_id, connected,
    caller, channel, called, to_server, to_client, rounds, round>>
udp_vars ==
  <<connecting, datagrams, bound, accepted_as, polled,
    state, peer, calls, lost, disturbed>>
tcp_vars ==
  <<next, unsent, accepted, stream, arrived, ended, at, need, buf, received, damaged>>
vars == <<network, modelled_vars, udp_vars, tcp_vars>>

NetworkType == {"modelled", "udp", "tcp"}

Init ==
  /\ network \in NetworkType
  /\ Modelled!ModelledInit /\ Udp!UdpInit /\ Tcp!TcpInit

Next ==
  /\ UNCHANGED network
  /\ \/ network = "modelled" /\ Modelled!ModelledNext /\ UNCHANGED <<udp_vars, tcp_vars>>
     \/ network = "udp" /\ Udp!UdpNext /\ UNCHANGED <<modelled_vars, tcp_vars>>
     \/ network = "tcp" /\ Tcp!TcpNext /\ UNCHANGED <<modelled_vars, udp_vars>>

(* Where a transport was not chosen, none of its fair steps is enabled.    *)
Spec ==
  /\ Init /\ [][Next]_vars
  /\ Modelled!ModelledFairness /\ Udp!UdpFairness /\ Tcp!TcpFairness

-----------------------------------------------------------------------------
(* The variables of every transport keep their types. *)
TypeOK ==
  /\ network \in NetworkType
  /\ Modelled!ModelledTypeOK /\ Udp!UdpTypeOK /\ Tcp!TcpTypeOK

(* The two ends of a channel that a client made agree on who is at the     *)
(* other end: in one process up to who waited at the same time; by UDP     *)
(* always, whichever of its repeated requests was answered.                *)
IdsAgree   == Modelled!IdsAgree
PeersMatch == Udp!PeersMatch

(* A call fails only because of the id that the server knows its channel   *)
(* by, or of the server's end.                                             *)
FailuresStayLocal == Modelled!ModelledFailuresStayLocal /\ Udp!UdpFailuresStayLocal

(* What TCP carries: see TcpStream. *)
Framing               == Tcp!Framing
ReceivedInOrder       == Tcp!ReceivedInOrder
ReliableUnlessDamaged == Tcp!ReliableUnlessDamaged
TryRecvReturns        == Tcp!TryRecvReturns

(* Every connect returns; by UDP, unless a datagram of it is lost or the   *)
(* server has no port left.                                                *)
ConnectsReturn == Modelled!ModelledConnectReturns /\ Udp!UdpConnectReturns
=============================================================================
