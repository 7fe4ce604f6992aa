--------------------------- MODULE NetworkProofs ----------------------------
(***************************************************************************)
(* The two ends of a channel agree, and failures stay with their client    *)
(* id, for any number of clients, ids, calls and sockets: in one process   *)
(* and by UDP, whatever datagrams are lost, repeated or reordered.  By TCP *)
(* the frames of any messages reach the receiver whole and in order,       *)
(* however they are cut, and what survives a damaged frame stays in order. *)
(***************************************************************************)
EXTENDS Network, SequenceTheorems, FiniteSetTheorems,
        NaturalsInduction, WellFoundedInduction, TLAPS

(***************************************************************************)
(* UDP.                                                                    *)
(***************************************************************************)
Serves(n, c) ==
  accepted_as[n] = [id |-> ClientId[c], peer |-> Udp!ChannelSocket(c)]

(* A datagram on the way to a connection is a request that names its       *)
(* sender's two sockets, or a reply that names a socket which serves them. *)
Requested(d) ==
  /\ d.to = Udp!Listening
  /\ d.from = Udp!ConnectSocket(d.client)
  /\ d.addr = Udp!ChannelSocket(d.client)
  /\ d.id = ClientId[d.client]

Replied(d) ==
  /\ d.to = Udp!ConnectSocket(d.client)
  /\ \E n \in 1 .. bound : d.addr = Udp!ServerSocket(n) /\ Serves(n, d.client)

ConnectingMatch == \A d \in connecting : Requested(d) \/ Replied(d)

(* A datagram on a channel goes between a client and a socket with its id, *)
(* and disturbs that id if it is too large.                                *)
OnChannel(d) ==
  /\ \E n \in 1 .. bound :
       /\ accepted_as[n].id = ClientId[d.client]
       /\ \/ d.from = Udp!ChannelSocket(d.client) /\ d.to = Udp!ServerSocket(n)
          \/ d.from = Udp!ServerSocket(n) /\ d.to = Udp!ChannelSocket(d.client)
  /\ d.large => ClientId[d.client] \in disturbed

DatagramsMatch == \A d \in datagrams : OnChannel(d)

(* Who has a channel, and what ended one. *)
ClientsMatch ==
  \A c \in Client :
    /\ state[c] \in {"connected", "calling"} => peer[c] # Udp!Listening
    /\ state[c] \in {"gone", "failed"} => ClientId[c] \in disturbed

SocketsMatch == \A n \in (1 .. bound) \ polled : accepted_as[n].id \in disturbed

UdpInv ==
  /\ Udp!UdpTypeOK
  /\ ConnectingMatch /\ Udp!PeersMatch
  /\ DatagramsMatch /\ ClientsMatch /\ SocketsMatch

(* What an address says. *)
LEMMA Addresses ==
  /\ \A c \in Client : /\ Udp!ConnectSocket(c) # Udp!Listening
                       /\ Udp!ChannelSocket(c) # Udp!Listening
                       /\ Udp!ConnectSocket(c) \in Udp!Address
                       /\ Udp!ChannelSocket(c) \in Udp!Address
  /\ \A n : Udp!ServerSocket(n) # Udp!Listening
  /\ \A n \in Udp!Sockets : Udp!ServerSocket(n) \in Udp!Address
  /\ Udp!Listening \in Udp!Address
  /\ \A c, n : Udp!ServerSocket(n) # Udp!ChannelSocket(c)
  /\ \A c, d : Udp!ConnectSocket(c) = Udp!ConnectSocket(d) => c = d
  /\ \A c, d : Udp!ChannelSocket(c) = Udp!ChannelSocket(d) => c = d
  /\ \A n, k : Udp!ServerSocket(n) = Udp!ServerSocket(k) => n = k
BY DEF Udp!ConnectSocket, Udp!ChannelSocket, Udp!ServerSocket, Udp!Listening, Udp!Address

LEMMA UdpInit == Udp!UdpInit => UdpInv
<1>. SUFFICES ASSUME Udp!UdpInit PROVE UdpInv
  OBVIOUS
<1>1. Udp!UdpTypeOK
  BY Addresses, BoundsAssumption
     DEF Udp!UdpInit, Udp!UdpTypeOK, Udp!NoPeer
<1>. QED
  BY <1>1, BoundsAssumption
     DEF Udp!UdpInit, UdpInv, ConnectingMatch, Udp!PeersMatch, DatagramsMatch,
         ClientsMatch, SocketsMatch

-----------------------------------------------------------------------------
LEMMA UdpTypes ==
  ASSUME UdpInv, NEW c \in Client
  PROVE  /\ state[c] \in {"idle", "waiting", "connected", "calling", "failed", "gone"}
         /\ peer[c] \in Udp!Address
         /\ bound \in Nat /\ bound <= MaxSockets
         /\ ClientId[c] \in {ClientId[d] : d \in Client}
BY BoundsAssumption DEF UdpInv, Udp!UdpTypeOK

LEMMA UdpTypeAccept ==
  ASSUME UdpInv, NEW d \in connecting, Udp!Accept(d) \/ Udp!AcceptFails(d)
  PROVE  Udp!UdpTypeOK'
<1>1. d.client \in Client /\ d.from \in Udp!Address /\ d.addr \in Udp!Address
      /\ d.id \in {ClientId[c] : c \in Client}
  BY DEF UdpInv, Udp!UdpTypeOK
<1>2. CASE Udp!Accept(d)
  <2>1. bound + 1 \in Udp!Sockets /\ bound \in Nat /\ bound' = bound + 1
    BY <1>2, BoundsAssumption DEF UdpInv, Udp!UdpTypeOK, Udp!Accept
  <2>2. [id |-> d.id, peer |-> d.addr]
          \in [id : {ClientId[c] : c \in Client} \cup {0}, peer : Udp!Address]
    BY <1>1
  <2>3. [from |-> Udp!Listening, to |-> d.from, client |-> d.client, id |-> d.id,
         addr |-> Udp!ServerSocket(bound + 1)]
          \in [from : Udp!Address, to : Udp!Address, client : Client,
               id : {ClientId[c] : c \in Client}, addr : Udp!Address]
    BY <1>1, <2>1, Addresses
  <2>4. /\ connecting' \subseteq [from : Udp!Address, to : Udp!Address, client : Client,
                                 id : {ClientId[c] : c \in Client}, addr : Udp!Address]
        /\ accepted_as' \in [Udp!Sockets -> [id : {ClientId[c] : c \in Client} \cup {0},
                                             peer : Udp!Address]]
    BY <1>2, <2>1, <2>2, <2>3 DEF UdpInv, Udp!UdpTypeOK, Udp!Accept, Udp!SendTo
  <2>5. bound' \in 0 .. MaxSockets /\ polled' \subseteq 1 .. bound'
    BY <1>2, <2>1 DEF UdpInv, Udp!UdpTypeOK, Udp!Accept, Udp!Sockets
  <2>. QED
    BY <1>2, <2>4, <2>5 DEF UdpInv, Udp!UdpTypeOK, Udp!Accept, Udp!udp_client
<1>3. CASE Udp!AcceptFails(d)
  BY <1>1, <1>3 DEF UdpInv, Udp!UdpTypeOK, Udp!AcceptFails, Udp!udp_client, Udp!udp_server
<1>. QED  BY <1>2, <1>3

LEMMA UdpTypeClient ==
  ASSUME UdpInv, NEW c \in Client,
         \/ Udp!Ask(c) \/ Udp!TakeReply(c) \/ Udp!Invoke(c)
         \/ Udp!RefuseClient(c) \/ Udp!Exit(c) \/ Udp!Lose(c)
         \/ \E d \in datagrams : Udp!Return(c, d)
  PROVE  Udp!UdpTypeOK'
<1>. USE DEF UdpInv, Udp!UdpTypeOK, Udp!Goto, Udp!udp_client, Udp!udp_server
<1>1. CASE Udp!Ask(c)
  BY <1>1, Addresses DEF Udp!Ask, Udp!SendTo
<1>2. CASE Udp!TakeReply(c)
  BY <1>2 DEF Udp!TakeReply
<1>3. CASE Udp!Invoke(c)
  <2>1. PICK large \in BOOLEAN :
          /\ datagrams' = datagrams \cup
               {[from |-> Udp!ChannelSocket(c), to |-> peer[c], client |-> c,
                 call |-> calls[c], large |-> large]}
          /\ disturbed' = IF large THEN disturbed \cup {ClientId[c]} ELSE disturbed
    BY <1>3 DEF Udp!Invoke
  <2>2. calls[c] \in Nat /\ calls' = [calls EXCEPT ![c] = @ + 1]
    BY <1>3 DEF Udp!Invoke
  <2>. QED  BY <1>3, <2>1, <2>2, Addresses DEF Udp!Invoke
<1>4. CASE Udp!RefuseClient(c) \/ Udp!Exit(c) \/ Udp!Lose(c)
  BY <1>4 DEF Udp!RefuseClient, Udp!Exit, Udp!Lose
<1>5. CASE \E d \in datagrams : Udp!Return(c, d)
  BY <1>5 DEF Udp!Return
<1>. QED  BY <1>1, <1>2, <1>3, <1>4, <1>5

LEMMA UdpTypeServer ==
  ASSUME UdpInv, NEW n \in Udp!Sockets,
         Udp!RefuseServer(n) \/ \E d \in datagrams : Udp!Serve(n, d)
  PROVE  Udp!UdpTypeOK'
<1>. USE DEF UdpInv, Udp!UdpTypeOK, Udp!udp_client, Udp!DropId
<1>1. CASE Udp!RefuseServer(n)
  BY <1>1 DEF Udp!RefuseServer
<1>2. ASSUME NEW d \in datagrams, Udp!Serve(n, d)
      PROVE  Udp!UdpTypeOK'
  <2>1. d.from \in Udp!Address /\ d.to \in Udp!Address /\ d.client \in Client
        /\ d.call \in Nat
    OBVIOUS
  <2>2. /\ n \in 1 .. bound
        /\ accepted_as[n].id = ClientId[d.client]
    BY <1>2, Addresses DEF Udp!Serve, DatagramsMatch, OnChannel
  <2>3. CASE \E large \in BOOLEAN :
               /\ datagrams' = datagrams \cup
                    {[from |-> d.to, to |-> d.from, client |-> d.client,
                      call |-> d.call, large |-> large]}
               /\ disturbed' = IF large THEN disturbed \cup {accepted_as[n].id}
                               ELSE disturbed
               /\ UNCHANGED polled
    BY <1>2, <2>1, <2>2, <2>3 DEF Udp!Serve
  <2>4. CASE Udp!DropId(n) /\ UNCHANGED <<datagrams, disturbed>>
    BY <1>2, <2>4 DEF Udp!Serve
  <2>. QED  BY <1>2, <2>3, <2>4 DEF Udp!Serve
<1>. QED  BY <1>1, <1>2

-----------------------------------------------------------------------------
(* A socket serves whom it was bound for, for ever. *)
LEMMA SocketsStay ==
  ASSUME UdpInv, bound' \in Nat, bound <= bound', disturbed \subseteq disturbed',
         \A n \in 1 .. bound : accepted_as'[n] = accepted_as[n]
  PROVE  /\ \A d : Requested(d) => Requested(d)'
         /\ \A d : Replied(d) => Replied(d)'
         /\ \A d : OnChannel(d) => OnChannel(d)'
         /\ \A c \in Client : peer[c] # Udp!Listening =>
              \E n \in 1 .. bound' : peer[c] = Udp!ServerSocket(n)
                /\ accepted_as'[n] = [id |-> ClientId[c], peer |-> Udp!ChannelSocket(c)]
<1>1. bound \in Nat /\ \A n \in 1 .. bound : n \in 1 .. bound'
  BY BoundsAssumption DEF UdpInv, Udp!UdpTypeOK
<1>. QED  BY <1>1 DEF Requested, Replied, Serves, OnChannel, UdpInv, Udp!PeersMatch

LEMMA AcceptKeeps ==
  ASSUME UdpInv, NEW d \in connecting, Udp!Accept(d) \/ Udp!AcceptFails(d)
  PROVE  UdpInv'
<1>. USE DEF UdpInv
<1>1. Udp!UdpTypeOK'
  BY UdpTypeAccept
<1>2. CASE Udp!AcceptFails(d)
  <2>1. UNCHANGED <<connecting, datagrams, bound, accepted_as, polled, state, peer, disturbed>>
    BY <1>2 DEF Udp!AcceptFails, Udp!udp_server, Udp!udp_client
  <2>. QED
    BY <1>1, <2>1 DEF ConnectingMatch, Requested, Replied, Serves, Udp!PeersMatch,
                      DatagramsMatch, OnChannel, ClientsMatch, SocketsMatch
<1>3. CASE Udp!Accept(d)
  <2>1. PICK n : n = bound + 1
    OBVIOUS
  <2>2. /\ bound' = n /\ n \in Udp!Sockets
        /\ accepted_as' = [accepted_as EXCEPT ![n] = [id |-> d.id, peer |-> d.addr]]
        /\ polled' = polled \cup {n}
        /\ UNCHANGED <<datagrams, state, peer, disturbed>>
    BY <1>3, <2>1 DEF Udp!Accept, Udp!udp_client
  <2>3. bound \in Nat /\ d.client \in Client
    BY BoundsAssumption DEF Udp!UdpTypeOK
  <2>4. /\ \A k \in 1 .. bound : accepted_as'[k] = accepted_as[k]
        /\ accepted_as'[n] = [id |-> d.id, peer |-> d.addr]
    BY <2>1, <2>2, <2>3 DEF Udp!UdpTypeOK, Udp!Sockets
  <2>5. Requested(d)
    BY <1>3, Addresses, <2>3 DEF Udp!Accept, Udp!Asked, ConnectingMatch, Replied
  <2>6. ASSUME NEW e \in connecting' PROVE Requested(e)' \/ Replied(e)'
    <3>1. CASE e \in connecting
      BY <3>1, <2>1, <2>2, <2>3, <2>4, SocketsStay DEF ConnectingMatch
    <3>2. CASE e = [from |-> Udp!Listening, to |-> d.from, client |-> d.client,
                    id |-> d.id, addr |-> Udp!ServerSocket(n)]
      <4>1. /\ e.to = Udp!ConnectSocket(e.client) /\ e.addr = Udp!ServerSocket(n)
            /\ Serves(n, e.client)' /\ n \in 1 .. bound'
        BY <2>1, <2>2, <2>3, <2>4, <2>5, <3>2 DEF Requested, Serves
      <4>. QED  BY <4>1 DEF Replied
    <3>. QED  BY <1>3, <2>1, <3>1, <3>2 DEF Udp!Accept, Udp!SendTo
  <2>7. DatagramsMatch' /\ Udp!PeersMatch'
    BY <2>1, <2>2, <2>3, <2>4, SocketsStay DEF DatagramsMatch, Udp!PeersMatch
  <2>8. ClientsMatch' /\ SocketsMatch'
    BY <2>1, <2>2, <2>3, <2>4 DEF ClientsMatch, SocketsMatch
  <2>. QED  BY <1>1, <2>6, <2>7, <2>8 DEF ConnectingMatch
<1>. QED  BY <1>2, <1>3

(* A client that asks, and one that takes whichever reply it finds. *)
LEMMA ConnectKeeps ==
  ASSUME UdpInv, NEW c \in Client, Udp!Ask(c) \/ Udp!TakeReply(c)
  PROVE  UdpInv'
<1>. USE DEF UdpInv
<1>1. Udp!UdpTypeOK'
  BY UdpTypeClient
<1>2. /\ UNCHANGED <<datagrams, bound, accepted_as, polled, disturbed>>
      /\ \E t \in {"waiting", "connected"} : state' = [state EXCEPT ![c] = t]
  BY DEF Udp!Ask, Udp!TakeReply, Udp!udp_server, Udp!Goto
<1>3. DatagramsMatch' /\ SocketsMatch'
  BY <1>2 DEF DatagramsMatch, OnChannel, SocketsMatch
<1>4. \A d : (Requested(d) => Requested(d)') /\ (Replied(d) => Replied(d)')
  BY <1>2 DEF Requested, Replied, Serves
<1>5. CASE Udp!Ask(c)
  <2>1. UNCHANGED peer
    BY <1>5 DEF Udp!Ask
  <2>2. ASSUME NEW e \in connecting', e \notin connecting PROVE Requested(e)'
    BY <1>5, <2>2 DEF Udp!Ask, Udp!SendTo, Requested
  <2>3. ClientsMatch'
    BY <1>2, <1>5, <2>1 DEF Udp!Ask, Udp!Goto, ClientsMatch, Udp!UdpTypeOK
  <2>. QED  BY <1>1, <1>2, <1>3, <1>4, <2>1, <2>2, <2>3 DEF ConnectingMatch, Udp!PeersMatch
<1>6. CASE Udp!TakeReply(c)
  <2>1. PICK d \in connecting : /\ d.to = Udp!ConnectSocket(c)
                                /\ peer' = [peer EXCEPT ![c] = d.addr]
    BY <1>6 DEF Udp!TakeReply
  <2>2. d.client = c /\ Replied(d)
    BY <2>1, Addresses DEF ConnectingMatch, Requested, Replied
  <2>3. \E n \in 1 .. bound : /\ peer'[c] = Udp!ServerSocket(n)
                              /\ accepted_as[n] = [id |-> ClientId[c], peer |-> Udp!ChannelSocket(c)]
    BY <2>1, <2>2 DEF Replied, Serves, Udp!UdpTypeOK
  <2>4. \A b \in Client \ {c} : peer'[b] = peer[b]
    BY <2>1 DEF Udp!UdpTypeOK
  <2>5. Udp!PeersMatch'
    BY <1>2, <2>3, <2>4 DEF Udp!PeersMatch
  <2>6. ClientsMatch'
    <3>1. state' = [state EXCEPT ![c] = "connected"] /\ peer'[c] # Udp!Listening
      BY <1>6, <2>3, Addresses DEF Udp!TakeReply, Udp!Goto
    <3>. QED  BY <1>2, <2>4, <3>1 DEF ClientsMatch, Udp!UdpTypeOK
  <2>7. ConnectingMatch'
    BY <1>4, <1>6 DEF Udp!TakeReply, ConnectingMatch
  <2>. QED  BY <1>1, <1>3, <2>5, <2>6, <2>7
<1>. QED  BY <1>5, <1>6

-----------------------------------------------------------------------------
(* Calls leave the connections alone. *)
LEMMA CallFrame ==
  ASSUME UdpInv, Udp!UdpTypeOK', UNCHANGED <<connecting, bound, accepted_as, peer>>,
         disturbed \subseteq disturbed'
  PROVE  /\ ConnectingMatch' /\ Udp!PeersMatch'
         /\ \A d : OnChannel(d) => OnChannel(d)'
BY DEF UdpInv, ConnectingMatch, Requested, Replied, Serves, Udp!PeersMatch, OnChannel

LEMMA SocketOf ==
  ASSUME UdpInv, NEW n \in Udp!Sockets, NEW d \in datagrams,
         d.to = Udp!ServerSocket(n) \/ d.from = Udp!ServerSocket(n)
  PROVE  n \in 1 .. bound /\ accepted_as[n].id = ClientId[d.client]
BY Addresses DEF UdpInv, DatagramsMatch, OnChannel

LEMMA InvokeKeeps ==
  ASSUME UdpInv, NEW c \in Client, Udp!Invoke(c)
  PROVE  UdpInv'
<1>. USE DEF UdpInv
<1>1. PICK large \in BOOLEAN :
        /\ datagrams' = datagrams \cup
             {[from |-> Udp!ChannelSocket(c), to |-> peer[c], client |-> c,
               call |-> calls[c], large |-> large]}
        /\ disturbed' = IF large THEN disturbed \cup {ClientId[c]} ELSE disturbed
  BY DEF Udp!Invoke
<1>2. /\ Udp!UdpTypeOK'
      /\ UNCHANGED <<connecting, bound, accepted_as, polled, peer>>
      /\ state[c] = "connected" /\ state' = [state EXCEPT ![c] = "calling"]
  BY UdpTypeClient DEF Udp!Invoke, Udp!udp_server, Udp!Goto
<1>3. /\ ConnectingMatch' /\ Udp!PeersMatch'
      /\ \A d : OnChannel(d) => OnChannel(d)'
  BY <1>1, <1>2, CallFrame
<1>4. \E n \in 1 .. bound : peer[c] = Udp!ServerSocket(n) /\ Serves(n, c)
  BY <1>2 DEF ClientsMatch, Udp!PeersMatch, Serves
<1>5. \A d \in datagrams' : OnChannel(d)'
  <2>. TAKE d \in datagrams'
  <2>1. CASE d = [from |-> Udp!ChannelSocket(c), to |-> peer[c], client |-> c,
                  call |-> calls[c], large |-> large]
    BY <1>1, <1>2, <1>4, <2>1 DEF OnChannel, Serves
  <2>. QED  BY <1>1, <1>3, <2>1 DEF DatagramsMatch
<1>6. ClientsMatch' /\ SocketsMatch'
  BY <1>1, <1>2 DEF ClientsMatch, SocketsMatch, Udp!UdpTypeOK
<1>. QED  BY <1>2, <1>3, <1>5, <1>6 DEF DatagramsMatch

(* An error ends the channels with a disturbed id, and no others. *)
LEMMA DropKeeps ==
  ASSUME UdpInv, NEW n \in Udp!Sockets, Udp!DropId(n), Udp!UdpTypeOK',
         accepted_as[n].id \in disturbed,
         UNCHANGED <<connecting, datagrams, bound, accepted_as, state, peer, disturbed>>
  PROVE  UdpInv'
<1>. USE DEF UdpInv
<1>1. /\ ConnectingMatch' /\ Udp!PeersMatch'
      /\ \A d : OnChannel(d) => OnChannel(d)'
  BY CallFrame
<1>2. DatagramsMatch' /\ ClientsMatch'
  BY <1>1 DEF DatagramsMatch, ClientsMatch
<1>3. SocketsMatch'
  BY DEF SocketsMatch, Udp!DropId
<1>. QED  BY <1>1, <1>2, <1>3

LEMMA ServeKeeps ==
  ASSUME UdpInv, NEW n \in Udp!Sockets, NEW d \in datagrams, Udp!Serve(n, d)
  PROVE  UdpInv'
<1>. USE DEF UdpInv
<1>1. /\ Udp!UdpTypeOK'
      /\ UNCHANGED <<connecting, bound, accepted_as, state, peer>>
      /\ d.to = Udp!ServerSocket(n) /\ d.client \in Client
  BY UdpTypeServer DEF Udp!Serve, Udp!udp_client, Udp!UdpTypeOK
<1>2. n \in 1 .. bound /\ accepted_as[n].id = ClientId[d.client]
  BY <1>1, SocketOf
<1>3. d.from = Udp!ChannelSocket(d.client)
  BY <1>1, Addresses DEF DatagramsMatch, OnChannel
<1>4. ASSUME NEW large \in BOOLEAN,
             datagrams' = datagrams \cup
               {[from |-> d.to, to |-> d.from, client |-> d.client,
                 call |-> d.call, large |-> large]},
             disturbed' = IF large THEN disturbed \cup {accepted_as[n].id} ELSE disturbed,
             UNCHANGED polled
      PROVE  UdpInv'
  <2>1. /\ ConnectingMatch' /\ Udp!PeersMatch'
        /\ \A e : OnChannel(e) => OnChannel(e)'
    BY <1>1, <1>4, CallFrame
  <2>2. \A e \in datagrams' : OnChannel(e)'
    <3>. TAKE e \in datagrams'
    <3>1. CASE e = [from |-> d.to, to |-> d.from, client |-> d.client,
                    call |-> d.call, large |-> large]
      BY <1>1, <1>2, <1>3, <1>4, <3>1 DEF OnChannel
    <3>. QED  BY <1>4, <2>1, <3>1 DEF DatagramsMatch
  <2>3. ClientsMatch' /\ SocketsMatch'
    BY <1>1, <1>4 DEF ClientsMatch, SocketsMatch
  <2>. QED  BY <1>1, <2>1, <2>2, <2>3 DEF DatagramsMatch
<1>5. CASE ~ Udp!Readable(d) /\ Udp!DropId(n) /\ UNCHANGED <<datagrams, disturbed>>
  <2>1. accepted_as[n].id \in disturbed
    BY <1>2, <1>5 DEF DatagramsMatch, OnChannel, Udp!Readable
  <2>. QED  BY <1>1, <1>5, <2>1, DropKeeps
<1>. QED  BY <1>4, <1>5 DEF Udp!Serve

LEMMA RefuseServerKeeps ==
  ASSUME UdpInv, NEW n \in Udp!Sockets, Udp!RefuseServer(n)
  PROVE  UdpInv'
<1>1. PICK d \in datagrams : d.from = Udp!ServerSocket(n) /\ state[d.client] = "gone"
  BY DEF Udp!RefuseServer
<1>2. d.client \in Client
  BY DEF UdpInv, Udp!UdpTypeOK
<1>3. accepted_as[n].id \in disturbed
  BY <1>1, <1>2, SocketOf DEF UdpInv, ClientsMatch
<1>. QED
  BY <1>3, UdpTypeServer, DropKeeps DEF Udp!RefuseServer, Udp!udp_client

(* A call that fails was refused by a socket that was dropped, or got a    *)
(* message that is too large: its own client id is disturbed.              *)
LEMMA ReturnKeeps ==
  ASSUME UdpInv, NEW c \in Client,
         \/ \E d \in datagrams : Udp!Return(c, d)
         \/ Udp!RefuseClient(c) \/ Udp!Exit(c) \/ Udp!Lose(c)
  PROVE  UdpInv'
<1>. USE DEF UdpInv
<1>1. /\ Udp!UdpTypeOK'
      /\ UNCHANGED <<connecting, datagrams, bound, accepted_as, polled, peer>>
      /\ disturbed \subseteq disturbed'
  BY UdpTypeClient DEF Udp!Return, Udp!RefuseClient, Udp!Exit, Udp!Lose,
                       Udp!udp_server, Udp!udp_client
<1>2. /\ ConnectingMatch' /\ Udp!PeersMatch'
      /\ \A d : OnChannel(d) => OnChannel(d)'
  BY <1>1, CallFrame
<1>3. DatagramsMatch' /\ SocketsMatch'
  BY <1>1, <1>2 DEF DatagramsMatch, SocketsMatch
<1>4. CASE Udp!Lose(c)
  BY <1>1, <1>2, <1>3, <1>4 DEF Udp!Lose, Udp!udp_client, ClientsMatch
<1>5. CASE Udp!Exit(c)
  BY <1>1, <1>2, <1>3, <1>5 DEF Udp!Exit, Udp!Goto, ClientsMatch, Udp!UdpTypeOK
<1>6. ASSUME NEW t \in {"connected", "failed"}, state[c] = "calling",
             state' = [state EXCEPT ![c] = t], t = "failed" => ClientId[c] \in disturbed
      PROVE  ClientsMatch'
  BY <1>1, <1>6 DEF ClientsMatch, Udp!UdpTypeOK
<1>7. CASE Udp!RefuseClient(c)
  <2>1. PICK n \in 1 .. bound : peer[c] = Udp!ServerSocket(n) /\ Serves(n, c)
    BY <1>7 DEF Udp!RefuseClient, ClientsMatch, Udp!PeersMatch, Serves
  <2>2. ClientId[c] \in disturbed
    BY <1>7, <2>1 DEF Udp!RefuseClient, SocketsMatch, Serves
  <2>. QED  BY <1>1, <1>2, <1>3, <1>6, <1>7, <2>2 DEF Udp!RefuseClient, Udp!Goto
<1>8. ASSUME NEW d \in datagrams, Udp!Return(c, d)
      PROVE  UdpInv'
  <2>1. d.client = c
    BY <1>8, Addresses DEF Udp!Return, DatagramsMatch, OnChannel
  <2>2. ~ Udp!Readable(d) => ClientId[c] \in disturbed
    BY <2>1 DEF DatagramsMatch, OnChannel, Udp!Readable
  <2>. QED  BY <1>1, <1>2, <1>3, <1>6, <1>8, <2>2 DEF Udp!Return, Udp!Goto
<1>. QED  BY <1>4, <1>5, <1>7, <1>8

LEMMA UdpStep ==
  ASSUME UdpInv, [Udp!UdpNext]_udp_vars
  PROVE  UdpInv'
<1>1. CASE UNCHANGED udp_vars
  BY <1>1 DEF udp_vars, UdpInv, Udp!UdpTypeOK, ConnectingMatch, Requested, Replied,
              Serves, Udp!PeersMatch, DatagramsMatch, OnChannel, ClientsMatch,
              SocketsMatch
<1>2. CASE Udp!UdpNext
  BY <1>2, AcceptKeeps, ConnectKeeps, InvokeKeeps, ServeKeeps, RefuseServerKeeps,
     ReturnKeeps DEF Udp!UdpNext
<1>. QED  BY <1>1, <1>2

-----------------------------------------------------------------------------
(***************************************************************************)
(* In one process.  There are no more ids and channels on their way than   *)
(* callers that wait: a caller finds what was made in its own round.       *)
(***************************************************************************)
Begun == {c \in Client : caller[c] # "idle"}

QueuesBounded ==
  /\ Len(registering) + Len(connections) <= Cardinality(Modelled!Waiting)
  /\ Len(registering) + Len(client_id) <= Cardinality(Begun)
  /\ ~ listening => registering = <<>>

(* The ids and channels on their way are those of the current round. *)
InRound(id, n, joined) == \E d \in Client : joined[d] = n /\ ClientId[d] = id

RoundsHold ==
  /\ \A c \in Client :
       /\ caller[c] = "idle" => round[c] = 0
       /\ caller[c] = "waiting" => round[c] = rounds /\ rounds # 0
       /\ channel[c] # 0 => round[c] # 0
       /\ round[c] <= rounds
  /\ \A i \in 1 .. Len(registering) : InRound(registering[i], rounds, round)
  /\ \A i \in 1 .. Len(connections) : InRound(client_id[connections[i]], rounds, round)

(* Every channel that was made waits to be taken or was taken, once. *)
ChannelsPlaced ==
  /\ \A i \in 1 .. Len(connections) : connections[i] \in 1 .. Len(client_id)
  /\ \A i, j \in 1 .. Len(connections) : connections[i] = connections[j] => i = j
  /\ \A i \in 1 .. Len(connections), c \in Client : channel[c] # connections[i]
  /\ \A n \in 1 .. Len(client_id) :
       \/ \E i \in 1 .. Len(connections) : connections[i] = n
       \/ \E c \in Client : channel[c] = n

CallersPlaced ==
  \A c \in Client :
    /\ caller[c] \in {"connected", "calling", "failed"} => channel[c] # 0
    /\ caller[c] \in {"idle", "waiting", "refused"} => channel[c] = 0

(* A channel that the server dropped has the id of a channel whose caller  *)
(* is gone.                                                                *)
GoneWithId(id) ==
  \E c \in Client : caller[c] = "gone" /\ channel[c] # 0 /\ client_id[channel[c]] = id

DroppedById ==
  listening =>
    \A n \in (1 .. Len(client_id)) \ connected : GoneWithId(client_id[n])

ModelledInv ==
  /\ Modelled!ModelledTypeOK
  /\ QueuesBounded /\ RoundsHold /\ ChannelsPlaced /\ CallersPlaced
  /\ Modelled!IdsAgree
  /\ DroppedById /\ Modelled!ModelledFailuresStayLocal

LEMMA ModelledTypes ==
  ASSUME Modelled!ModelledTypeOK
  PROVE  /\ Len(registering) \in Nat /\ Len(connections) \in Nat /\ Len(client_id) \in Nat
         /\ DOMAIN client_id = 1 .. Len(client_id)
         /\ DOMAIN connections = 1 .. Len(connections)
         /\ \A c \in Client : /\ channel[c] \in Nat
                              /\ channel[c] # 0 => channel[c] \in 1 .. Len(client_id)
<1>1. /\ registering \in Seq({ClientId[c] : c \in Client})
      /\ client_id \in Seq({ClientId[c] : c \in Client})
      /\ connections \in Seq(Modelled!Channels)
      /\ channel \in [Client -> 0 .. Len(client_id)]
  BY DEF Modelled!ModelledTypeOK
<1>2. Len(registering) \in Nat /\ Len(connections) \in Nat /\ Len(client_id) \in Nat
  BY <1>1, LenProperties
<1>. QED  BY <1>1, <1>2, LenProperties

LEMMA Counts ==
  ASSUME NEW S \in SUBSET Client
  PROVE  /\ IsFiniteSet(S) /\ Cardinality(S) \in Nat
         /\ Cardinality(S) <= Cardinality(Client)
         /\ \A c \in S : Cardinality(S \ {c}) = Cardinality(S) - 1
         /\ \A c \in Client \ S : Cardinality(S \cup {c}) = Cardinality(S) + 1
         /\ S = {} => Cardinality(S) = 0
BY ClientsAssumption, FS_Subset, FS_CardinalityType, FS_AddElement, FS_RemoveElement,
   FS_EmptySet

LEMMA ChannelCount == Modelled!Channels = 1 .. Cardinality(Client)
BY DEF Modelled!Channels, Modelled!Cardinality, Cardinality

LEMMA ModelledInit == Modelled!ModelledInit => ModelledInv
<1>. SUFFICES ASSUME Modelled!ModelledInit PROVE ModelledInv
  OBVIOUS
<1>1. /\ registering = <<>> /\ connections = <<>> /\ client_id = <<>>
      /\ Modelled!Waiting = {} /\ Begun = {}
      /\ Len(registering) = 0 /\ Len(connections) = 0 /\ Len(client_id) = 0
  BY EmptySeq DEF Modelled!ModelledInit, Modelled!Waiting, Begun
<1>2. Modelled!ModelledTypeOK
  BY <1>1, EmptySeq, BoundsAssumption DEF Modelled!ModelledInit, Modelled!ModelledTypeOK
<1>3. QueuesBounded
  BY <1>1, Counts DEF QueuesBounded, Modelled!ModelledInit
<1>. QED
  BY <1>1, <1>2, <1>3
     DEF ModelledInv, Modelled!ModelledInit, RoundsHold, ChannelsPlaced, CallersPlaced,
         Modelled!IdsAgree, DroppedById, Modelled!ModelledFailuresStayLocal

(* The queues: a caller registers. *)
LEMMA RegisterKeeps ==
  ASSUME ModelledInv, NEW c \in Client, Modelled!Register(c)
  PROVE  ModelledInv'
<1>. USE DEF ModelledInv
<1>1. /\ caller[c] = "idle" /\ listening
      /\ registering' = Append(registering, ClientId[c])
      /\ caller' = [caller EXCEPT ![c] = "waiting"]
      /\ rounds' = IF Modelled!Waiting = {} THEN rounds + 1 ELSE rounds
      /\ round' = [round EXCEPT ![c] = rounds']
      /\ UNCHANGED <<listening, connections, client_id, connected, channel, called,
                     to_server, to_client>>
  BY DEF Modelled!Register, Modelled!Becomes, Modelled!JoinsRound
<1>2. /\ registering' \in Seq({ClientId[d] : d \in Client})
      /\ Len(registering') = Len(registering) + 1
      /\ \A i \in 1 .. Len(registering) : registering'[i] = registering[i]
      /\ registering'[Len(registering) + 1] = ClientId[c]
  BY <1>1, AppendProperties DEF Modelled!ModelledTypeOK
<1>3. /\ caller \in [Client -> {"idle", "waiting", "refused", "connected", "calling",
                                "failed", "gone"}]
      /\ \A d \in Client \ {c} : caller'[d] = caller[d]
      /\ caller'[c] = "waiting"
  BY <1>1 DEF Modelled!ModelledTypeOK
<1>4. /\ Modelled!ModelledTypeOK' /\ rounds \in Nat /\ rounds' \in Nat /\ rounds <= rounds'
      /\ \A d \in Client \ {c} : round'[d] = round[d] /\ round[d] \in Nat
      /\ round'[c] = rounds' /\ round[c] = 0
  <2>1. rounds \in Nat /\ round \in [Client -> Nat]
    BY DEF Modelled!ModelledTypeOK
  <2>2. rounds' \in Nat /\ rounds <= rounds'
    BY <1>1, <2>1
  <2>3. /\ round' \in [Client -> Nat] /\ round'[c] = rounds'
        /\ \A d \in Client \ {c} : round'[d] = round[d] /\ round[d] \in Nat
    BY <1>1, <2>1, <2>2
  <2>4. round[c] = 0
    BY <1>1 DEF RoundsHold
  <2>5. caller' \in [Client -> {"idle", "waiting", "refused", "connected", "calling",
                                "failed", "gone"}]
    BY <1>1, <1>3
  <2>6. Modelled!ModelledTypeOK'
    BY <1>1, <1>2, <2>2, <2>3, <2>5 DEF Modelled!ModelledTypeOK
  <2>. QED  BY <2>1, <2>2, <2>3, <2>4, <2>6
<1>5. /\ Modelled!Waiting' = Modelled!Waiting \cup {c} /\ c \notin Modelled!Waiting
      /\ Begun' = Begun \cup {c} /\ c \notin Begun
      /\ Modelled!Waiting \subseteq Client /\ Begun \subseteq Client
  BY <1>1, <1>3 DEF Modelled!Waiting, Begun
<1>6. QueuesBounded'
  <2>1. /\ Cardinality(Modelled!Waiting') = Cardinality(Modelled!Waiting) + 1
        /\ Cardinality(Begun') = Cardinality(Begun) + 1
    BY <1>5, Counts
  <2>2. Cardinality(Modelled!Waiting) \in Nat /\ Cardinality(Begun) \in Nat
    BY <1>5, Counts
  <2>. QED  BY <1>1, <1>2, <2>1, <2>2, ModelledTypes DEF QueuesBounded
<1>7. RoundsHold'
  <2>1. ASSUME Modelled!Waiting = {}
        PROVE  /\ Len(registering) = 0 /\ Len(connections) = 0 /\ rounds' = rounds + 1
               /\ \A d \in Client : caller[d] # "waiting"
    BY <1>1, <2>1, Counts, ModelledTypes DEF QueuesBounded, Modelled!Waiting
  <2>2. ASSUME Modelled!Waiting # {} PROVE rounds' = rounds /\ rounds # 0
    BY <1>1, <2>2 DEF RoundsHold, Modelled!Waiting
  <2>3. \A id : InRound(id, rounds, round) /\ rounds' = rounds => InRound(id, rounds', round')
    BY <1>4 DEF InRound
  <2>4. InRound(ClientId[c], rounds', round')
    BY <1>4 DEF InRound
  <2>5. rounds' # 0
    BY <1>4, <2>1, <2>2
  <2>6. \A d \in Client :
          /\ caller'[d] = "idle" => round'[d] = 0
          /\ caller'[d] = "waiting" => round'[d] = rounds' /\ rounds' # 0
          /\ channel'[d] # 0 => round'[d] # 0
          /\ round'[d] <= rounds'
    BY <1>1, <1>3, <1>4, <2>1, <2>2, <2>5 DEF RoundsHold
  <2>7. \A i \in 1 .. Len(registering') : InRound(registering'[i], rounds', round')
    <3>. TAKE i \in 1 .. Len(registering')
    <3>1. CASE i = Len(registering) + 1
      BY <1>2, <2>4, <3>1
    <3>2. CASE i \in 1 .. Len(registering)
      BY <1>2, <2>1, <2>2, <2>3, <3>2 DEF RoundsHold
    <3>. QED  BY <1>2, <3>1, <3>2, ModelledTypes
  <2>8. \A i \in 1 .. Len(connections') : InRound(client_id'[connections'[i]], rounds', round')
    <3>1. CASE Modelled!Waiting = {}
      BY <1>1, <2>1, <3>1
    <3>2. CASE Modelled!Waiting # {}
      <4>1. \A i \in 1 .. Len(connections) : InRound(client_id[connections[i]], rounds, round)
        BY DEF RoundsHold
      <4>. QED  BY <1>1, <2>2, <2>3, <3>2, <4>1
    <3>. QED  BY <3>1, <3>2
  <2>. QED  BY <2>6, <2>7, <2>8 DEF RoundsHold
<1>8. ChannelsPlaced' /\ CallersPlaced'
  BY <1>1, <1>3 DEF ChannelsPlaced, CallersPlaced
<1>9. Modelled!IdsAgree'
  <2>1. channel[c] = 0
    BY <1>1 DEF CallersPlaced
  <2>2. \A d \in Client \ {c} : channel[d] # 0 => round[d] # 0
    BY DEF RoundsHold
  <2>. QED  BY <1>1, <1>4, <2>1, <2>2 DEF Modelled!IdsAgree
<1>10. DroppedById' /\ Modelled!ModelledFailuresStayLocal'
  <2>1. \A id : GoneWithId(id) => GoneWithId(id)'
    BY <1>1, <1>3 DEF GoneWithId
  <2>2. \A d \in Client : caller'[d] = "failed" => caller[d] = "failed"
    BY <1>3
  <2>. QED  BY <1>1, <2>1, <2>2 DEF DroppedById, Modelled!ModelledFailuresStayLocal, GoneWithId
<1>. QED  BY <1>4, <1>6, <1>7, <1>8, <1>9, <1>10

(* The queues: the listener accepts. *)
LEMMA TryAcceptKeeps ==
  ASSUME ModelledInv, Modelled!TryAccept
  PROVE  ModelledInv'
<1>. USE DEF ModelledInv
<1>1. PICK n : n = Len(client_id) + 1
  OBVIOUS
<1>2. /\ listening /\ registering # <<>>
      /\ registering' = Tail(registering)
      /\ client_id' = Append(client_id, Head(registering))
      /\ connections' = Append(connections, n)
      /\ connected' = connected \cup {n}
      /\ UNCHANGED <<listening, caller, channel, called, to_server, to_client, rounds, round>>
  BY <1>1 DEF Modelled!TryAccept, Modelled!net_caller, Modelled!ghost_vars
<1>3. /\ registering' \in Seq({ClientId[d] : d \in Client})
      /\ Len(registering') = Len(registering) - 1 /\ Len(registering) # 0
      /\ Head(registering) = registering[1]
      /\ \A i \in 1 .. Len(registering') : registering'[i] = registering[i + 1]
      /\ Head(registering) \in {ClientId[d] : d \in Client}
  <2>1. registering \in Seq({ClientId[d] : d \in Client})
    BY DEF Modelled!ModelledTypeOK
  <2>2. Len(registering) \in Nat \ {0} /\ Head(registering) = registering[1]
    BY <1>2, <2>1, EmptySeq
  <2>. QED  BY <1>2, <2>1, <2>2, HeadTailProperties
<1>4. /\ client_id' \in Seq({ClientId[d] : d \in Client})
      /\ Len(client_id') = n
      /\ \A i \in 1 .. Len(client_id) : client_id'[i] = client_id[i]
      /\ client_id'[n] = registering[1]
      /\ DOMAIN client_id' = 1 .. n
  BY <1>1, <1>2, <1>3, AppendProperties, LenProperties DEF Modelled!ModelledTypeOK
<1>5. n \in Modelled!Channels
  <2>1. /\ Cardinality(Begun) <= Cardinality(Client) /\ Cardinality(Begun) \in Nat
        /\ Cardinality(Client) \in Nat
    BY Counts DEF Begun
  <2>2. Len(client_id) \in Nat /\ Len(registering) \in Nat \ {0}
    BY <1>3, ModelledTypes
  <2>3. Len(registering) + Len(client_id) <= Cardinality(Begun)
    BY DEF QueuesBounded
  <2>4. n \in 1 .. Cardinality(Client)
    BY <1>1, <2>1, <2>2, <2>3
  <2>. QED  BY <2>4, ChannelCount
<1>6. /\ connections' \in Seq(Modelled!Channels)
      /\ Len(connections') = Len(connections) + 1
      /\ \A i \in 1 .. Len(connections) : connections'[i] = connections[i]
      /\ connections'[Len(connections) + 1] = n
  BY <1>2, <1>5, AppendProperties DEF Modelled!ModelledTypeOK
<1>7. Modelled!ModelledTypeOK'
  <2>1. connected' \subseteq DOMAIN client_id'
    <3>1. connected \subseteq 1 .. Len(client_id) /\ Len(client_id) \in Nat
      BY ModelledTypes DEF Modelled!ModelledTypeOK
    <3>2. 1 .. Len(client_id) \subseteq 1 .. n /\ n \in 1 .. n
      BY <1>1, <3>1
    <3>3. connected' = connected \cup {n} /\ DOMAIN client_id' = 1 .. n
      BY <1>1, <1>2, <1>4
    <3>. QED  BY <3>1, <3>2, <3>3
  <2>2. channel' \in [Client -> 0 .. Len(client_id')]
    BY <1>1, <1>2, <1>4, ModelledTypes DEF Modelled!ModelledTypeOK
  <2>. QED  BY <1>2, <1>3, <1>4, <1>6, <2>1, <2>2 DEF Modelled!ModelledTypeOK
<1>8. Modelled!Waiting' = Modelled!Waiting /\ Begun' = Begun
  BY <1>2 DEF Modelled!Waiting, Begun
<1>9. QueuesBounded'
  <2>1. Cardinality(Modelled!Waiting) \in Nat /\ Cardinality(Begun) \in Nat
    BY Counts DEF Modelled!Waiting, Begun
  <2>. QED  BY <1>1, <1>2, <1>3, <1>4, <1>6, <1>8, <2>1, ModelledTypes DEF QueuesBounded
<1>10. RoundsHold'
  <2>1. \A id : InRound(id, rounds, round) => InRound(id, rounds', round')
    BY <1>2 DEF InRound
  <2>2. \A i \in 1 .. Len(registering') : InRound(registering'[i], rounds', round')
    BY <1>3, <2>1, ModelledTypes DEF RoundsHold
  <2>3. InRound(registering[1], rounds, round)
    BY <1>3, ModelledTypes DEF RoundsHold
  <2>4. \A i \in 1 .. Len(connections') : InRound(client_id'[connections'[i]], rounds', round')
    BY <1>4, <1>6, <2>1, <2>3, ModelledTypes DEF RoundsHold, ChannelsPlaced
  <2>. QED  BY <1>2, <2>2, <2>4 DEF RoundsHold
<1>11. ChannelsPlaced'
  <2>1. \A c \in Client : channel[c] # n
    BY <1>1, ModelledTypes
  <2>2. \A i \in 1 .. Len(connections) : connections[i] # n
    BY <1>1, ModelledTypes DEF ChannelsPlaced
  <2>3. /\ \A i \in 1 .. Len(connections') : connections'[i] \in 1 .. Len(client_id')
        /\ \A i, j \in 1 .. Len(connections') : connections'[i] = connections'[j] => i = j
        /\ \A i \in 1 .. Len(connections'), c \in Client : channel'[c] # connections'[i]
    BY <1>1, <1>2, <1>4, <1>6, <2>1, <2>2, ModelledTypes DEF ChannelsPlaced
  <2>4. \A k \in 1 .. Len(client_id') :
          \/ \E i \in 1 .. Len(connections') : connections'[i] = k
          \/ \E c \in Client : channel'[c] = k
    <3>. TAKE k \in 1 .. Len(client_id')
    <3>1. CASE k = n
      BY <1>6, <3>1, ModelledTypes
    <3>2. CASE k \in 1 .. Len(client_id)
      <4>1. CASE \E c \in Client : channel[c] = k
        BY <1>2, <4>1
      <4>2. CASE \E i \in 1 .. Len(connections) : connections[i] = k
        BY <1>6, <4>2, ModelledTypes
      <4>. QED  BY <3>2, <4>1, <4>2 DEF ChannelsPlaced
    <3>. QED  BY <1>1, <1>4, <3>1, <3>2, ModelledTypes
  <2>. QED  BY <2>3, <2>4 DEF ChannelsPlaced
<1>12. CallersPlaced'
  BY <1>2 DEF CallersPlaced
<1>13. Modelled!IdsAgree'
  BY <1>2, <1>4, ModelledTypes DEF Modelled!IdsAgree
<1>14. DroppedById' /\ Modelled!ModelledFailuresStayLocal'
  <2>1. \A c \in Client : channel[c] # 0 => client_id'[channel'[c]] = client_id[channel[c]]
    BY <1>2, <1>4, ModelledTypes
  <2>2. \A id : GoneWithId(id) => GoneWithId(id)'
    BY <1>2, <2>1 DEF GoneWithId
  <2>3. DroppedById'
    BY <1>1, <1>2, <1>4, <2>2, ModelledTypes DEF DroppedById
  <2>4. \A c \in Client : caller[c] = "failed" => channel[c] # 0
    BY DEF CallersPlaced
  <2>5. Modelled!ModelledFailuresStayLocal'
    <3>. SUFFICES ASSUME NEW c \in Client, caller[c] = "failed", listening
                  PROVE  \E d \in Client :
                           /\ caller[d] = "gone" /\ channel[d] # 0
                           /\ client_id'[channel[d]] = client_id'[channel[c]]
      BY <1>2 DEF Modelled!ModelledFailuresStayLocal
    <3>1. PICK d \in Client : /\ caller[d] = "gone" /\ channel[d] # 0
                             /\ client_id[channel[d]] = client_id[channel[c]]
      BY DEF Modelled!ModelledFailuresStayLocal
    <3>. QED  BY <1>2, <2>1, <2>4, <3>1
  <2>. QED  BY <2>3, <2>5
<1>. QED  BY <1>7, <1>9, <1>10, <1>11, <1>12, <1>13, <1>14

(* The queues: a caller takes the first channel. *)
LEMMA TakeChannelKeeps ==
  ASSUME ModelledInv, NEW c \in Client, Modelled!TakeChannel(c)
  PROVE  ModelledInv'
<1>. USE DEF ModelledInv
<1>1. /\ caller[c] = "waiting" /\ connections # <<>>
      /\ connections' = Tail(connections)
      /\ channel' = [channel EXCEPT ![c] = Head(connections)]
      /\ caller' = [caller EXCEPT ![c] = "connected"]
      /\ UNCHANGED <<listening, registering, client_id, connected, called,
                     to_server, to_client, rounds, round>>
  BY DEF Modelled!TakeChannel, Modelled!Becomes, Modelled!ghost_vars
<1>2. /\ connections' \in Seq(Modelled!Channels)
      /\ Len(connections') = Len(connections) - 1 /\ Len(connections) # 0
      /\ Head(connections) = connections[1]
      /\ \A i \in 1 .. Len(connections') : connections'[i] = connections[i + 1]
  BY <1>1, HeadTailProperties, EmptySeq DEF Modelled!ModelledTypeOK
<1>3. connections[1] \in 1 .. Len(client_id)
  BY <1>2, ModelledTypes DEF ChannelsPlaced
<1>4. /\ \A d \in Client \ {c} : channel'[d] = channel[d] /\ caller'[d] = caller[d]
      /\ channel'[c] = connections[1] /\ caller'[c] = "connected"
  BY <1>1, <1>2 DEF Modelled!ModelledTypeOK
<1>5. Modelled!ModelledTypeOK'
  <2>1. channel' \in [Client -> 0 .. Len(client_id')]
    BY <1>1, <1>2, <1>3, ModelledTypes DEF Modelled!ModelledTypeOK
  <2>2. caller' \in [Client -> {"idle", "waiting", "refused", "connected", "calling",
                                "failed", "gone"}]
    BY <1>1 DEF Modelled!ModelledTypeOK
  <2>. QED  BY <1>1, <1>2, <2>1, <2>2 DEF Modelled!ModelledTypeOK
<1>6. /\ Modelled!Waiting' = Modelled!Waiting \ {c} /\ c \in Modelled!Waiting
      /\ Begun' = Begun /\ Modelled!Waiting \subseteq Client /\ Begun \subseteq Client
  BY <1>1, <1>4 DEF Modelled!Waiting, Begun
<1>7. QueuesBounded'
  <2>1. /\ Cardinality(Modelled!Waiting') = Cardinality(Modelled!Waiting) - 1
        /\ Cardinality(Modelled!Waiting) \in Nat /\ Cardinality(Begun) \in Nat
    BY <1>6, Counts
  <2>. QED  BY <1>1, <1>2, <1>6, <2>1, ModelledTypes DEF QueuesBounded
<1>8. RoundsHold'
  <2>1. \A id : InRound(id, rounds, round) => InRound(id, rounds', round')
    BY <1>1 DEF InRound
  <2>2. \A i \in 1 .. Len(connections') : InRound(client_id'[connections'[i]], rounds', round')
    BY <1>1, <1>2, <2>1, ModelledTypes DEF RoundsHold
  <2>. QED  BY <1>1, <1>4, <2>1, <2>2 DEF RoundsHold
<1>9. ChannelsPlaced'
  <2>1. /\ \A i \in 1 .. Len(connections') : connections'[i] \in 1 .. Len(client_id')
        /\ \A i, j \in 1 .. Len(connections') : connections'[i] = connections'[j] => i = j
        /\ \A i \in 1 .. Len(connections') : connections'[i] # connections[1]
    BY <1>1, <1>2, ModelledTypes DEF ChannelsPlaced
  <2>2. \A i \in 1 .. Len(connections'), d \in Client : channel'[d] # connections'[i]
    <3>1. \A i \in 1 .. Len(connections') :
            i + 1 \in 1 .. Len(connections) /\ connections'[i] = connections[i + 1]
      BY <1>2, ModelledTypes
    <3>2. \A i \in 1 .. Len(connections'), d \in Client : channel[d] # connections'[i]
      BY <3>1 DEF ChannelsPlaced
    <3>. QED  BY <1>4, <2>1, <3>2
  <2>3. \A k \in 1 .. Len(client_id') :
          \/ \E i \in 1 .. Len(connections') : connections'[i] = k
          \/ \E d \in Client : channel'[d] = k
    <3>. TAKE k \in 1 .. Len(client_id')
    <3>1. CASE \E d \in Client : channel[d] = k
      <4>1. channel[c] = 0 /\ k # 0
        BY <1>1, ModelledTypes DEF CallersPlaced
      <4>. QED  BY <1>4, <3>1, <4>1
    <3>2. CASE \E i \in 1 .. Len(connections) : connections[i] = k
      <4>1. PICK i \in 1 .. Len(connections) : connections[i] = k
        BY <3>2
      <4>2. CASE i = 1
        BY <1>4, <4>1, <4>2
      <4>3. CASE i # 1
        <5>1. i - 1 \in 1 .. Len(connections') /\ connections'[i - 1] = k
          BY <1>2, <4>1, <4>3, ModelledTypes
        <5>. QED  BY <5>1
      <4>. QED  BY <4>2, <4>3
    <3>. QED  BY <1>1, <3>1, <3>2 DEF ChannelsPlaced
  <2>. QED  BY <2>1, <2>2, <2>3 DEF ChannelsPlaced
<1>10. CallersPlaced'
  BY <1>3, <1>4 DEF CallersPlaced
<1>11. Modelled!IdsAgree'
  <2>1. InRound(client_id[connections[1]], round[c], round)
    BY <1>1, <1>2, ModelledTypes DEF RoundsHold
  <2>2. \A d \in Client : channel[d] # connections[1]
    BY <1>2, ModelledTypes DEF ChannelsPlaced
  <2>. QED  BY <1>1, <1>4, <2>1, <2>2 DEF Modelled!IdsAgree, InRound
<1>12. DroppedById' /\ Modelled!ModelledFailuresStayLocal'
  <2>1. \A id : GoneWithId(id) => GoneWithId(id)'
    BY <1>1, <1>4 DEF GoneWithId
  <2>. QED  BY <1>1, <1>4, <2>1
            DEF DroppedById, Modelled!ModelledFailuresStayLocal, GoneWithId
<1>. QED  BY <1>5, <1>7, <1>8, <1>9, <1>10, <1>11, <1>12

(* Where nothing is accepted, taken or dropped. *)
LEMMA QueuesFrame ==
  ASSUME ModelledInv,
         UNCHANGED <<listening, registering, connections, client_id, channel, rounds, round>>,
         \A c \in Client : (caller'[c] = "waiting") <=> (caller[c] = "waiting"),
         \A c \in Client : (caller'[c] = "idle") <=> (caller[c] = "idle")
  PROVE  QueuesBounded' /\ RoundsHold' /\ ChannelsPlaced' /\ Modelled!IdsAgree'
<1>1. Modelled!Waiting' = Modelled!Waiting /\ Begun' = Begun
  BY DEF Modelled!Waiting, Begun
<1>2. QueuesBounded' /\ ChannelsPlaced' /\ Modelled!IdsAgree'
  BY <1>1 DEF ModelledInv, QueuesBounded, ChannelsPlaced, Modelled!IdsAgree
<1>3. RoundsHold'
  BY DEF ModelledInv, RoundsHold
<1>. QED  BY <1>2, <1>3

LEMMA ConnectFailsKeeps ==
  ASSUME ModelledInv, NEW c \in Client, Modelled!ConnectFails(c)
  PROVE  ModelledInv'
<1>. USE DEF ModelledInv
<1>1. /\ ~ listening
      /\ caller[c] = "idle" \/ (caller[c] = "waiting" /\ connections = <<>>)
      /\ caller' = [caller EXCEPT ![c] = "refused"]
      /\ UNCHANGED <<listening, registering, connections, client_id, connected, channel,
                     called, to_server, to_client, rounds, round>>
  BY DEF Modelled!ConnectFails, Modelled!Becomes, Modelled!net_server, Modelled!ghost_vars
<1>2. /\ \A d \in Client \ {c} : caller'[d] = caller[d]
      /\ caller'[c] = "refused"
  BY <1>1 DEF Modelled!ModelledTypeOK
<1>3. Modelled!ModelledTypeOK'
  BY <1>1 DEF Modelled!ModelledTypeOK
<1>4. /\ Modelled!Waiting' = Modelled!Waiting \ {c} /\ Modelled!Waiting \subseteq Client
      /\ Begun' = Begun \cup {c} /\ Begun \subseteq Client
  BY <1>2 DEF Modelled!Waiting, Begun
<1>5. QueuesBounded'
  <2>1. /\ Cardinality(Modelled!Waiting) \in Nat /\ Cardinality(Begun) \in Nat
        /\ Cardinality(Modelled!Waiting') \in Nat /\ Cardinality(Begun') \in Nat
    BY <1>4, Counts
  <2>2. Cardinality(Begun') >= Cardinality(Begun)
    <3>1. CASE c \in Begun
      BY <1>4, <2>1, <3>1
    <3>2. CASE c \notin Begun
      BY <1>4, <2>1, <3>2, Counts
    <3>. QED  BY <3>1, <3>2
  <2>3. Len(registering) = 0
    BY <1>1, EmptySeq DEF QueuesBounded
  <2>4. Len(connections) <= Cardinality(Modelled!Waiting')
    <3>1. CASE caller[c] = "idle"
      <4>1. Modelled!Waiting' = Modelled!Waiting
        BY <1>4, <3>1 DEF Modelled!Waiting
      <4>2. Len(registering) + Len(connections) <= Cardinality(Modelled!Waiting)
        BY DEF QueuesBounded
      <4>3. Len(connections) \in Nat
        BY ModelledTypes
      <4>. QED  BY <2>1, <2>3, <4>1, <4>2, <4>3
    <3>2. CASE connections = <<>>
      <4>1. Len(connections) = 0
        BY <3>2, EmptySeq
      <4>. QED  BY <2>1, <4>1
    <3>. QED  BY <1>1, <3>1, <3>2
  <2>5. /\ Len(registering) \in Nat /\ Len(connections) \in Nat /\ Len(client_id) \in Nat
    BY ModelledTypes
  <2>6. /\ Len(registering) + Len(connections) <= Cardinality(Modelled!Waiting')
        /\ Len(registering) + Len(client_id) <= Cardinality(Begun')
        /\ registering = <<>>
    <3>1. Len(registering) + Len(client_id) <= Cardinality(Begun)
      BY DEF QueuesBounded
    <3>2. registering = <<>>
      BY <1>1 DEF QueuesBounded
    <3>. QED  BY <2>1, <2>2, <2>3, <2>4, <2>5, <3>1, <3>2
  <2>. QED  BY <1>1, <2>6 DEF QueuesBounded
<1>6. RoundsHold'
  BY <1>1, <1>2 DEF RoundsHold, InRound
<1>7. ChannelsPlaced' /\ Modelled!IdsAgree'
  BY <1>1 DEF ChannelsPlaced, Modelled!IdsAgree
<1>8. CallersPlaced' /\ DroppedById' /\ Modelled!ModelledFailuresStayLocal'
  BY <1>1, <1>2 DEF CallersPlaced, DroppedById, Modelled!ModelledFailuresStayLocal
<1>. QED  BY <1>3, <1>5, <1>6, <1>7, <1>8

LEMMA DropListenerKeeps ==
  ASSUME ModelledInv, Modelled!DropListener
  PROVE  ModelledInv'
<1>. USE DEF ModelledInv
<1>1. /\ ~ listening' /\ registering' = <<>> /\ connected' = {} /\ Len(registering') = 0
      /\ UNCHANGED <<connections, client_id, caller, channel, called, to_server,
                     to_client, rounds, round>>
  BY EmptySeq DEF Modelled!DropListener, Modelled!net_caller, Modelled!ghost_vars
<1>2. Modelled!ModelledTypeOK'
  BY <1>1, EmptySeq DEF Modelled!ModelledTypeOK, Modelled!DropListener
<1>3. Modelled!Waiting' = Modelled!Waiting /\ Begun' = Begun
  BY <1>1 DEF Modelled!Waiting, Begun
<1>4. QueuesBounded'
  <2>1. Cardinality(Modelled!Waiting) \in Nat /\ Cardinality(Begun) \in Nat
    BY Counts DEF Modelled!Waiting, Begun
  <2>. QED  BY <1>1, <1>3, <2>1, ModelledTypes DEF QueuesBounded
<1>5. RoundsHold' /\ ChannelsPlaced' /\ CallersPlaced' /\ Modelled!IdsAgree'
  <2>1. \A i \in 1 .. Len(registering') : InRound(registering'[i], rounds', round')
    BY <1>1
  <2>2. RoundsHold'
    BY <1>1, <2>1 DEF RoundsHold
  <2>. QED  BY <1>1, <2>2 DEF ChannelsPlaced, CallersPlaced, Modelled!IdsAgree
<1>6. DroppedById' /\ Modelled!ModelledFailuresStayLocal'
  BY <1>1 DEF DroppedById, Modelled!ModelledFailuresStayLocal
<1>. QED  BY <1>2, <1>4, <1>5, <1>6

(* There are no more channels than callers. *)
LEMMA ChannelsFit ==
  ASSUME ModelledInv, NEW n \in 1 .. Len(client_id)
  PROVE  n \in Modelled!Channels
<1>1. Len(client_id) \in Nat /\ Len(registering) \in Nat
  BY ModelledTypes DEF ModelledInv
<1>2. /\ Cardinality(Begun) \in Nat /\ Cardinality(Client) \in Nat
      /\ Cardinality(Begun) <= Cardinality(Client)
  BY Counts, FS_CardinalityType, ClientsAssumption DEF Begun
<1>3. Len(client_id) <= Cardinality(Begun)
  BY <1>1, <1>2 DEF ModelledInv, QueuesBounded
<1>4. Modelled!Channels = 1 .. Cardinality(Client)
  BY ChannelCount
<1>. QED  BY <1>1, <1>2, <1>3, <1>4

(* Nobody holds the other end of a channel that ends: whoever took it is   *)
(* gone.                                                                   *)
LEMMA NotHeld ==
  ASSUME ModelledInv, NEW n \in connected, ~ Modelled!Held(n)
  PROVE  GoneWithId(client_id[n])
<1>. USE DEF ModelledInv
<1>1. n \in 1 .. Len(client_id)
  BY ModelledTypes DEF Modelled!ModelledTypeOK
<1>2. PICK c \in Client : channel[c] = n
  BY <1>1, ModelledTypes DEF ChannelsPlaced, Modelled!Held
<1>3. caller[c] = "gone"
  BY <1>2 DEF Modelled!Held
<1>4. channel[c] # 0
  BY <1>1, <1>2, ModelledTypes
<1>. QED  BY <1>2, <1>3, <1>4 DEF GoneWithId

LEMMA ServerDropKeeps ==
  ASSUME ModelledInv, Modelled!ModelledTypeOK', NEW n \in connected,
         connected' = connected
           \/ (~ Modelled!Held(n) /\ connected' = connected \ Modelled!SameId(n)),
         UNCHANGED <<listening, registering, connections, client_id, caller, channel,
                     rounds, round>>
  PROVE  ModelledInv'
<1>. USE DEF ModelledInv
<1>1. QueuesBounded' /\ RoundsHold' /\ ChannelsPlaced' /\ Modelled!IdsAgree'
  BY QueuesFrame
<1>2. CallersPlaced' /\ Modelled!ModelledFailuresStayLocal'
  BY DEF CallersPlaced, Modelled!ModelledFailuresStayLocal
<1>3. DroppedById'
  <2>. SUFFICES ASSUME listening, NEW k \in (1 .. Len(client_id)) \ connected'
                PROVE  GoneWithId(client_id[k])
    BY DEF DroppedById, GoneWithId
  <2>1. CASE k \notin connected
    BY <2>1 DEF DroppedById
  <2>2. CASE k \in connected
    BY <2>2, NotHeld DEF Modelled!SameId
  <2>. QED  BY <2>1, <2>2
<1>. QED  BY <1>1, <1>2, <1>3

LEMMA ServerTurnKeeps ==
  ASSUME ModelledInv, NEW n \in Modelled!Channels, Modelled!Serve(n) \/ Modelled!Drop(n)
  PROVE  ModelledInv'
<1>. USE DEF ModelledInv
<1>1. CASE Modelled!Drop(n)
  <2>1. Modelled!ModelledTypeOK'
    BY <1>1 DEF Modelled!Drop, Modelled!ModelledTypeOK, Modelled!net_caller,
                Modelled!ghost_vars
  <2>. QED  BY <1>1, <2>1, ServerDropKeeps
            DEF Modelled!Drop, Modelled!net_caller, Modelled!ghost_vars
<1>2. CASE Modelled!Serve(n)
  <2>1. /\ n \in connected /\ to_server[n] # <<>>
        /\ to_server' = [to_server EXCEPT ![n] = Tail(@)]
        /\ \/ /\ to_client' = [to_client EXCEPT ![n] = Append(@, Head(to_server[n]))]
              /\ UNCHANGED connected
           \/ /\ ~ Modelled!Held(n)
              /\ connected' = connected \ Modelled!SameId(n)
              /\ UNCHANGED to_client
        /\ UNCHANGED <<listening, registering, connections, client_id, caller, channel,
                       called, rounds, round>>
    BY <1>2 DEF Modelled!Serve, Modelled!net_caller, Modelled!ghost_vars
  <2>2. /\ to_server[n] \in Seq(Client) /\ to_client[n] \in Seq(Client)
        /\ to_server \in [Modelled!Channels -> Seq(Client)]
        /\ to_client \in [Modelled!Channels -> Seq(Client)]
    BY DEF Modelled!ModelledTypeOK
  <2>3. /\ Tail(to_server[n]) \in Seq(Client)
        /\ Append(to_client[n], Head(to_server[n])) \in Seq(Client)
    BY <2>1, <2>2, HeadTailProperties, AppendProperties
  <2>4. /\ to_server' \in [Modelled!Channels -> Seq(Client)]
        /\ to_client' \in [Modelled!Channels -> Seq(Client)]
    BY <2>1, <2>2, <2>3
  <2>5. Modelled!ModelledTypeOK'
    BY <2>1, <2>4 DEF Modelled!ModelledTypeOK
  <2>. QED  BY <2>1, <2>5, ServerDropKeeps
<1>. QED  BY <1>1, <1>2

LEMMA CallerKeeps ==
  ASSUME ModelledInv, NEW c \in Client,
         Modelled!Call(c) \/ Modelled!Return(c) \/ Modelled!DropChannel(c)
  PROVE  ModelledInv'
<1>. USE DEF ModelledInv
<1>1. PICK t \in {"connected", "calling", "failed", "gone"} :
        caller' = [caller EXCEPT ![c] = t]
  BY DEF Modelled!Call, Modelled!Return, Modelled!DropChannel, Modelled!Becomes
<1>2. /\ caller[c] \in {"connected", "calling"}
      /\ UNCHANGED <<listening, registering, connections, client_id, connected, channel,
                     rounds, round>>
  BY DEF Modelled!Call, Modelled!Return, Modelled!DropChannel, Modelled!net_server,
         Modelled!ghost_vars
<1>3. /\ \A d \in Client \ {c} : caller'[d] = caller[d]
      /\ caller'[c] = t
  BY <1>1 DEF Modelled!ModelledTypeOK
<1>4. channel[c] \in 1 .. Len(client_id) /\ channel[c] \in Nat \ {0}
  BY <1>2, ModelledTypes DEF CallersPlaced
<1>5. Modelled!ModelledTypeOK'
  <2>1. /\ to_server \in [Modelled!Channels -> Seq(Client)]
        /\ to_client \in [Modelled!Channels -> Seq(Client)]
    BY DEF Modelled!ModelledTypeOK
  <2>5. channel[c] \in Modelled!Channels
    BY <1>4, ChannelsFit
  <2>2. CASE Modelled!Call(c)
    <3>1. UNCHANGED to_server
            \/ to_server' = [to_server EXCEPT ![channel[c]] = Append(@, c)]
      BY <2>2 DEF Modelled!Call
    <3>2. to_server' \in [Modelled!Channels -> Seq(Client)]
      <4>1. Append(to_server[channel[c]], c) \in Seq(Client)
        BY <2>1, <2>5, AppendProperties
      <4>. QED  BY <2>1, <3>1, <4>1
    <3>3. called' \in [Client -> Nat] /\ \A d \in Client : called'[d] <= MaxCalls[d]
      <4>1. /\ called \in [Client -> Nat] /\ \A d \in Client : called[d] <= MaxCalls[d]
            /\ called[c] < MaxCalls[c]
            /\ UNCHANGED called \/ called' = [called EXCEPT ![c] = @ + 1]
        BY <2>2 DEF Modelled!Call, Modelled!ModelledTypeOK
      <4>. QED  BY <4>1, BoundsAssumption
    <3>. QED  BY <1>1, <1>2, <2>2, <3>2, <3>3 DEF Modelled!Call, Modelled!ModelledTypeOK
  <2>3. CASE Modelled!Return(c)
    <3>1. UNCHANGED to_client
            \/ (/\ to_client[channel[c]] # <<>>
                /\ to_client' = [to_client EXCEPT ![channel[c]] = Tail(@)])
      BY <2>3 DEF Modelled!Return
    <3>2. CASE UNCHANGED to_client
      BY <1>1, <1>2, <2>3, <3>2 DEF Modelled!Return, Modelled!ModelledTypeOK
    <3>3. CASE /\ to_client[channel[c]] # <<>>
               /\ to_client' = [to_client EXCEPT ![channel[c]] = Tail(@)]
      <4>1. Tail(to_client[channel[c]]) \in Seq(Client)
        BY <2>1, <2>5, <3>3, HeadTailProperties
      <4>2. to_client' \in [Modelled!Channels -> Seq(Client)]
        BY <2>1, <3>3, <4>1
      <4>. QED  BY <1>1, <1>2, <2>3, <4>2 DEF Modelled!Return, Modelled!ModelledTypeOK
    <3>. QED  BY <3>1, <3>2, <3>3
  <2>4. CASE Modelled!DropChannel(c)
    BY <1>1, <1>2, <2>4 DEF Modelled!DropChannel, Modelled!ModelledTypeOK
  <2>. QED  BY <2>2, <2>3, <2>4
<1>6. QueuesBounded' /\ RoundsHold' /\ ChannelsPlaced' /\ Modelled!IdsAgree'
  BY <1>2, <1>3, QueuesFrame
<1>7. CallersPlaced'
  BY <1>2, <1>3, <1>4 DEF CallersPlaced
<1>8. \A id : GoneWithId(id) => GoneWithId(id)'
  BY <1>2, <1>3 DEF GoneWithId
<1>9. DroppedById' /\ Modelled!ModelledFailuresStayLocal'
  <2>1. ASSUME NEW d \in Client, caller'[d] = "failed", listening
        PROVE  GoneWithId(client_id[channel[d]])
    <3>1. CASE d # c
      BY <1>3, <2>1, <3>1 DEF Modelled!ModelledFailuresStayLocal, GoneWithId
    <3>2. CASE d = c
      <4>1. channel[c] \notin connected
        BY <1>3, <2>1, <3>2 DEF Modelled!Call, Modelled!Return, Modelled!DropChannel,
                          Modelled!Becomes, Modelled!ModelledTypeOK
      <4>. QED  BY <1>4, <2>1, <3>2, <4>1 DEF DroppedById
    <3>. QED  BY <3>1, <3>2
  <2>2. Modelled!ModelledFailuresStayLocal'
    BY <1>2, <1>8, <2>1 DEF Modelled!ModelledFailuresStayLocal, GoneWithId
  <2>. QED  BY <1>2, <1>8, <2>2 DEF DroppedById
<1>. QED  BY <1>5, <1>6, <1>7, <1>8, <1>9

LEMMA ModelledStep ==
  ASSUME ModelledInv, [Modelled!ModelledNext]_modelled_vars
  PROVE  ModelledInv'
<1>1. CASE UNCHANGED modelled_vars
  <2>1. UNCHANGED <<listening, registering, connections, client_id, connected, caller,
                    channel, called, to_server, to_client, rounds, round>>
    BY <1>1 DEF modelled_vars
  <2>2. Modelled!ModelledTypeOK'
    BY <2>1 DEF ModelledInv, Modelled!ModelledTypeOK
  <2>3. QueuesBounded' /\ RoundsHold' /\ ChannelsPlaced' /\ Modelled!IdsAgree'
    BY <2>1, QueuesFrame
  <2>. QED  BY <2>1, <2>2, <2>3 DEF ModelledInv, CallersPlaced, DroppedById, GoneWithId,
                                    Modelled!ModelledFailuresStayLocal
<1>2. CASE Modelled!ModelledNext
  BY <1>2, RegisterKeeps, TryAcceptKeeps, TakeChannelKeeps, ConnectFailsKeeps,
     DropListenerKeeps, ServerTurnKeeps, CallerKeeps
     DEF Modelled!ModelledNext, Modelled!ServerTurn
<1>. QED  BY <1>1, <1>2

-----------------------------------------------------------------------------
(***************************************************************************)
(* In one process, nobody is forgotten.  As long as the listener lives, a  *)
(* caller that waits in connect has an id or a channel under way, and one  *)
(* that waits for a response has its request or its response in a queue of *)
(* its channel, unless the server has dropped it.                          *)
(***************************************************************************)
QueuesSuffice ==
  listening => Len(registering) + Len(connections) = Cardinality(Modelled!Waiting)

CallsUnderWay ==
  \A c \in Client : caller[c] = "calling" /\ channel[c] \in connected =>
    to_server[channel[c]] # <<>> \/ to_client[channel[c]] # <<>>

NoCallerForgotten == QueuesSuffice /\ CallsUnderWay

LEMMA AppendIs ==
  ASSUME NEW T, NEW s \in Seq(T), NEW x
  PROVE  Len(Append(s, x)) = Len(s) + 1 /\ Append(s, x) # <<>>
<1>1. s \in Seq(T \cup {x}) /\ Len(s) \in Nat
  BY LenProperties
<1>2. Append(s, x) \in Seq(T \cup {x}) /\ Len(Append(s, x)) = Len(s) + 1
  BY <1>1, AppendProperties
<1>. QED  BY <1>1, <1>2, EmptySeq

LEMMA QueuesSufficeStep ==
  ASSUME ModelledInv, QueuesSuffice, Modelled!ModelledNext
  PROVE  QueuesSuffice'
<1>. DEFINE W == Modelled!Waiting
<1>1. /\ W \subseteq Client /\ Cardinality(W) \in Nat
      /\ Len(registering) \in Nat /\ Len(connections) \in Nat
      /\ caller \in [Client -> {"idle", "waiting", "refused", "connected", "calling",
                                "failed", "gone"}]
      /\ registering \in Seq({ClientId[d] : d \in Client})
      /\ connections \in Seq(Modelled!Channels)
  BY Counts, ModelledTypes DEF ModelledInv, Modelled!ModelledTypeOK, Modelled!Waiting
<1>2. ASSUME NEW c \in Client, Modelled!Register(c)
      PROVE  QueuesSuffice'
  <2>1. /\ listening /\ caller[c] = "idle" /\ connections' = connections
        /\ registering' = Append(registering, ClientId[c])
        /\ caller' = [caller EXCEPT ![c] = "waiting"]
    BY <1>2 DEF Modelled!Register, Modelled!Becomes
  <2>2. c \notin W /\ W' = W \cup {c}
    BY <1>1, <2>1 DEF Modelled!Waiting
  <2>3. Cardinality(W') = Cardinality(W) + 1
    BY <1>1, <2>2, Counts
  <2>4. Len(registering') = Len(registering) + 1
    BY <1>1, <2>1, AppendProperties
  <2>. QED  BY <1>1, <2>1, <2>3, <2>4 DEF QueuesSuffice
<1>3. ASSUME Modelled!TryAccept
      PROVE  QueuesSuffice'
  <2>1. /\ registering # <<>> /\ registering' = Tail(registering)
        /\ connections' = Append(connections, Len(client_id) + 1)
        /\ UNCHANGED <<listening, caller>>
    BY <1>3 DEF Modelled!TryAccept, Modelled!net_caller
  <2>2. Len(registering') = Len(registering) - 1
    BY <1>1, <2>1, HeadTailProperties, EmptySeq
  <2>3. Len(connections') = Len(connections) + 1
    BY <1>1, <2>1, AppendIs
  <2>4. W' = W
    BY <2>1 DEF Modelled!Waiting
  <2>. QED  BY <1>1, <2>1, <2>2, <2>3, <2>4 DEF QueuesSuffice
<1>4. ASSUME NEW c \in Client, Modelled!TakeChannel(c)
      PROVE  QueuesSuffice'
  <2>1. /\ caller[c] = "waiting" /\ connections # <<>>
        /\ connections' = Tail(connections)
        /\ caller' = [caller EXCEPT ![c] = "connected"]
        /\ UNCHANGED <<listening, registering>>
    BY <1>4 DEF Modelled!TakeChannel, Modelled!Becomes
  <2>2. c \in W /\ W' = W \ {c}
    BY <1>1, <2>1 DEF Modelled!Waiting
  <2>3. Cardinality(W') = Cardinality(W) - 1
    BY <1>1, <2>2, Counts
  <2>4. Len(connections') = Len(connections) - 1
    BY <1>1, <2>1, HeadTailProperties, EmptySeq
  <2>. QED  BY <1>1, <2>1, <2>3, <2>4 DEF QueuesSuffice
<1>5. ASSUME NEW c \in Client, Modelled!ConnectFails(c)
      PROVE  QueuesSuffice'
  BY <1>5 DEF Modelled!ConnectFails, Modelled!net_server, QueuesSuffice
<1>6. CASE Modelled!DropListener
  BY <1>6 DEF Modelled!DropListener, QueuesSuffice
<1>7. ASSUME NEW n \in Modelled!Channels, Modelled!Serve(n) \/ Modelled!Drop(n)
      PROVE  QueuesSuffice'
  <2>1. UNCHANGED <<listening, registering, connections, caller>>
    BY <1>7 DEF Modelled!Serve, Modelled!Drop, Modelled!net_caller
  <2>. QED  BY <2>1 DEF QueuesSuffice, Modelled!Waiting
<1>8. ASSUME NEW c \in Client,
             Modelled!Call(c) \/ Modelled!Return(c) \/ Modelled!DropChannel(c)
      PROVE  QueuesSuffice'
  <2>1. UNCHANGED <<listening, registering, connections>>
    BY <1>8 DEF Modelled!Call, Modelled!Return, Modelled!DropChannel, Modelled!net_server
  <2>2. /\ caller[c] # "waiting"
        /\ \E t \in {"connected", "calling", "failed", "gone"} :
             caller' = [caller EXCEPT ![c] = t]
    BY <1>8 DEF Modelled!Call, Modelled!Return, Modelled!DropChannel, Modelled!Becomes
  <2>3. W' = W
    BY <1>1, <2>2 DEF Modelled!Waiting
  <2>. QED  BY <2>1, <2>3 DEF QueuesSuffice
<1>. QED
  BY <1>2, <1>3, <1>4, <1>5, <1>6, <1>7, <1>8
     DEF Modelled!ModelledNext, Modelled!ServerTurn

LEMMA CallsUnderWayStep ==
  ASSUME ModelledInv, CallsUnderWay, Modelled!ModelledNext
  PROVE  CallsUnderWay'
<1>. SUFFICES ASSUME NEW c \in Client, caller'[c] = "calling", channel'[c] \in connected'
              PROVE  to_server'[channel'[c]] # <<>> \/ to_client'[channel'[c]] # <<>>
  BY DEF CallsUnderWay
<1>. DEFINE n == channel[c]
<1>1. /\ caller \in [Client -> {"idle", "waiting", "refused", "connected", "calling",
                                "failed", "gone"}]
      /\ to_server \in [Modelled!Channels -> Seq(Client)]
      /\ to_client \in [Modelled!Channels -> Seq(Client)]
      /\ channel \in [Client -> 0 .. Len(client_id)]
  BY DEF ModelledInv, Modelled!ModelledTypeOK
<1>2. ASSUME NEW d \in Client, channel[d] = n, n # 0
      PROVE  d = c
  BY <1>2 DEF ModelledInv, Modelled!IdsAgree
<1>3. ASSUME UNCHANGED <<caller, channel, to_server, to_client>>,
             channel[c] \in connected' => channel[c] \in connected
      PROVE  to_server'[channel'[c]] # <<>> \/ to_client'[channel'[c]] # <<>>
  BY <1>3 DEF CallsUnderWay
<1>4. ASSUME NEW d \in Client, Modelled!Register(d) \/ Modelled!ConnectFails(d)
      PROVE  to_server'[channel'[c]] # <<>> \/ to_client'[channel'[c]] # <<>>
  <2>1. /\ \E t \in {"waiting", "refused"} : caller' = [caller EXCEPT ![d] = t]
        /\ UNCHANGED <<connected, channel, to_server, to_client>>
    BY <1>4 DEF Modelled!Register, Modelled!ConnectFails, Modelled!Becomes,
                Modelled!net_server
  <2>2. caller[c] = "calling"
    BY <1>1, <2>1
  <2>. QED  BY <2>1, <2>2 DEF CallsUnderWay
<1>5. ASSUME NEW d \in Client, Modelled!TakeChannel(d)
      PROVE  to_server'[channel'[c]] # <<>> \/ to_client'[channel'[c]] # <<>>
  <2>1. /\ caller' = [caller EXCEPT ![d] = "connected"]
        /\ channel' = [channel EXCEPT ![d] = Head(connections)]
        /\ UNCHANGED <<connected, to_server, to_client>>
    BY <1>5 DEF Modelled!TakeChannel, Modelled!Becomes
  <2>2. c # d /\ caller[c] = "calling" /\ channel'[c] = n
    BY <1>1, <2>1
  <2>. QED  BY <2>1, <2>2 DEF CallsUnderWay
<1>6. CASE Modelled!TryAccept
  <2>1. /\ connected' = connected \cup {Len(client_id) + 1}
        /\ UNCHANGED <<caller, channel, to_server, to_client>>
    BY <1>6 DEF Modelled!TryAccept, Modelled!net_caller
  <2>2. n # Len(client_id) + 1
    BY <1>1, ModelledTypes DEF ModelledInv
  <2>. QED  BY <1>3, <2>1, <2>2
<1>7. CASE Modelled!DropListener
  BY <1>7, <1>3 DEF Modelled!DropListener, Modelled!net_caller
<1>8. ASSUME NEW k \in Modelled!Channels, Modelled!Serve(k) \/ Modelled!Drop(k)
      PROVE  to_server'[channel'[c]] # <<>> \/ to_client'[channel'[c]] # <<>>
  <2>1. UNCHANGED <<caller, channel>> /\ connected' \subseteq connected
    BY <1>8 DEF Modelled!Serve, Modelled!Drop, Modelled!net_caller
  <2>2. CASE n = k /\ Modelled!Serve(k)
    <3>1. n \in Modelled!Channels /\ Modelled!Held(n)
      BY <2>1, <2>2 DEF Modelled!Held
    <3>2. to_client' = [to_client EXCEPT ![n] = Append(@, Head(to_server[n]))]
      BY <2>2, <3>1 DEF Modelled!Serve
    <3>3. to_client'[n] = Append(to_client[n], Head(to_server[n]))
      BY <1>1, <3>1, <3>2
    <3>4. Append(to_client[n], Head(to_server[n])) # <<>>
      BY <1>1, <3>1, AppendIs
    <3>. QED  BY <2>1, <3>3, <3>4
  <2>3. CASE n # k \/ Modelled!Drop(k)
    <3>1. n \in Modelled!Channels
      BY <2>1, ModelledTypes, ChannelsFit DEF ModelledInv, Modelled!ModelledTypeOK
    <3>2. to_server'[n] = to_server[n] /\ to_client'[n] = to_client[n]
      <4>1. CASE Modelled!Drop(k)
        BY <4>1 DEF Modelled!Drop
      <4>2. CASE n # k /\ Modelled!Serve(k)
        BY <1>1, <3>1, <4>2 DEF Modelled!Serve
      <4>. QED  BY <1>8, <2>3, <4>1, <4>2
    <3>. QED  BY <2>1, <3>2 DEF CallsUnderWay
  <2>. QED  BY <1>8, <2>2, <2>3
<1>9. ASSUME NEW d \in Client,
             Modelled!Call(d) \/ Modelled!Return(d) \/ Modelled!DropChannel(d)
      PROVE  to_server'[channel'[c]] # <<>> \/ to_client'[channel'[c]] # <<>>
  <2>1. /\ UNCHANGED <<channel, connected>>
        /\ caller[d] \in {"connected", "calling"}
        /\ \E t \in {"connected", "calling", "failed", "gone"} :
             caller' = [caller EXCEPT ![d] = t]
    BY <1>9 DEF Modelled!Call, Modelled!Return, Modelled!DropChannel, Modelled!Becomes,
                Modelled!net_server
  <2>2. channel[d] # 0
    BY <2>1 DEF ModelledInv, CallersPlaced
  <2>3. CASE c = d
    <3>1. Modelled!Call(c)
      BY <1>1, <1>9, <2>3 DEF Modelled!Return, Modelled!DropChannel, Modelled!Becomes
    <3>2. n \in connected /\ to_server' = [to_server EXCEPT ![n] = Append(@, c)]
      BY <2>1, <3>1 DEF Modelled!Call
    <3>3. n \in Modelled!Channels
      BY <2>2, <2>3, ChannelsFit, ModelledTypes DEF ModelledInv
    <3>4. to_server'[n] = Append(to_server[n], c) /\ Append(to_server[n], c) # <<>>
      BY <1>1, <3>2, <3>3, AppendIs
    <3>. QED  BY <2>1, <3>4
  <2>4. CASE c # d
    <3>1. caller[c] = "calling" /\ n # channel[d]
      BY <1>1, <1>2, <2>1, <2>2, <2>4
    <3>2. n \in Modelled!Channels
      BY <2>1, ModelledTypes, ChannelsFit DEF ModelledInv, Modelled!ModelledTypeOK
    <3>3. to_server'[n] = to_server[n] /\ to_client'[n] = to_client[n]
      BY <1>1, <1>9, <3>1, <3>2 DEF Modelled!Call, Modelled!Return, Modelled!DropChannel
    <3>. QED  BY <2>1, <3>1, <3>3 DEF CallsUnderWay
  <2>. QED  BY <2>3, <2>4
<1>. QED
  BY <1>4, <1>5, <1>6, <1>7, <1>8, <1>9 DEF Modelled!ModelledNext, Modelled!ServerTurn

LEMMA ForgottenStep ==
  ASSUME ModelledInv, NoCallerForgotten, [Modelled!ModelledNext]_modelled_vars
  PROVE  NoCallerForgotten'
<1>1. CASE UNCHANGED modelled_vars
  BY <1>1 DEF modelled_vars, NoCallerForgotten, QueuesSuffice, CallsUnderWay,
              Modelled!Waiting
<1>2. CASE Modelled!ModelledNext
  BY <1>2, QueuesSufficeStep, CallsUnderWayStep DEF NoCallerForgotten
<1>. QED  BY <1>1, <1>2

LEMMA ForgottenInit == Modelled!ModelledInit => NoCallerForgotten
<1>. SUFFICES ASSUME Modelled!ModelledInit PROVE NoCallerForgotten
  OBVIOUS
<1>1. Modelled!Waiting = {} /\ Len(registering) = 0 /\ Len(connections) = 0
  BY EmptySeq DEF Modelled!ModelledInit, Modelled!Waiting
<1>2. Cardinality(Modelled!Waiting) = 0
  BY <1>1, Counts
<1>3. CallsUnderWay
  BY DEF Modelled!ModelledInit, CallsUnderWay
<1>. QED  BY <1>1, <1>2, <1>3 DEF NoCallerForgotten, QueuesSuffice

-----------------------------------------------------------------------------
(***************************************************************************)
(* What FlattenSeq returns.  It is defined by a recursive function, which  *)
(* is found by its least counterexample instead of by induction.           *)
(***************************************************************************)
LEMMA LeastOf ==
  ASSUME NEW T, T \subseteq Nat, T # {}
  PROVE  \E n \in T : \A k \in T : n <= k
<1>. DEFINE R == {ss \in Nat \X Nat : ss[1] < ss[2]}
<1>1. IsWellFoundedOn(R, Nat)
  BY NatLessThanWellFounded, Zenon DEF OpToRel
<1>2. PICK n \in T : \A k \in T : ~ (<<k, n>> \in R)
  <2>. HIDE DEF R
  <2>. QED  BY <1>1, WFMin
<1>3. ASSUME NEW k \in T, k < n PROVE <<k, n>> \in R
  <2>1. <<k, n>> \in Nat \X Nat /\ <<k, n>>[1] < <<k, n>>[2]
    BY <1>3
  <2>. QED  BY <2>1
<1>. HIDE DEF R
<1>4. \A k \in T : ~ (k < n)
  BY <1>2, <1>3
<1>. QED  BY <1>4

(* g lists what the beginnings of s flatten to. *)
Flattens(g, s) ==
  g = [i \in 1 .. Len(s) |-> IF i = 1 THEN s[i] ELSE g[i - 1] \o s[i]]

LEMMA FlattensExists ==
  ASSUME NEW T, NEW s \in Seq(Seq(T))
  PROVE  \E g : Flattens(g, s)
<1>. DEFINE G(n) == \E g : g = [i \in 1 .. n |-> IF i = 1 THEN s[i] ELSE g[i - 1] \o s[i]]
            Bad == {n \in 0 .. Len(s) : ~ G(n)}
<1>. SUFFICES ASSUME ~ G(Len(s)) PROVE FALSE
  BY DEF Flattens
<1>0. Len(s) \in Nat
  BY LenProperties
<1>1. Bad \subseteq Nat /\ Bad # {}
  <2>. HIDE DEF G
  <2>1. Len(s) \in Bad
    BY <1>0
  <2>2. Bad \subseteq Nat
    BY <1>0
  <2>. QED  BY <2>1, <2>2
<1>2. PICK n \in Bad : \A k \in Bad : n <= k
  <2>. HIDE DEF Bad
  <2>. QED  BY <1>1, LeastOf
<1>3. n # 0
  <2>1. [i \in 1 .. 0 |-> IF i = 1 THEN s[i] ELSE <<>>[i - 1] \o s[i]] = <<>>
    OBVIOUS
  <2>2. G(0)
    BY <2>1
  <2>. QED  BY <2>2
<1>4. n - 1 \in 0 .. Len(s) /\ n \in 1 .. Len(s) /\ G(n - 1)
  <2>. HIDE DEF G
  <2>1. n \in 0 .. Len(s) /\ n - 1 \notin Bad
    BY <1>0, <1>2
  <2>. QED  BY <1>0, <1>3, <2>1
<1>5. PICK g : g = [i \in 1 .. n - 1 |-> IF i = 1 THEN s[i] ELSE g[i - 1] \o s[i]]
  BY <1>4
<1>. DEFINE h == [i \in 1 .. n |-> IF i = n THEN IF i = 1 THEN s[i] ELSE g[i - 1] \o s[i] ELSE g[i]]
<1>6. ASSUME NEW i \in 1 .. n
      PROVE  h[i] = IF i = 1 THEN s[i] ELSE h[i - 1] \o s[i]
  <2>0. /\ i - 1 \in 1 .. n \/ i = 1
        /\ i \in Nat /\ n \in Nat
    BY <1>4, <1>0
  <2>1. /\ h[i] = (IF i = n THEN IF i = 1 THEN s[i] ELSE g[i - 1] \o s[i] ELSE g[i])
        /\ i # 1 => h[i - 1] = g[i - 1]
    BY <2>0
  <2>. HIDE DEF h
  <2>2. i # n => g[i] = (IF i = 1 THEN s[i] ELSE g[i - 1] \o s[i])
    <3>1. i # n => i \in 1 .. n - 1
      BY <2>0
    <3>. QED  BY <1>5, <3>1
  <2>3. CASE i # 1 /\ i # n
    BY <2>1, <2>2, <2>3
  <2>4. CASE i = 1 \/ i = n
    BY <2>1, <2>2, <2>4
  <2>. QED  BY <2>3, <2>4
<1>7. h = [i \in 1 .. n |-> IF i = 1 THEN s[i] ELSE h[i - 1] \o s[i]]
  <2>1. h = [i \in 1 .. n |-> h[i]]
    OBVIOUS
  <2>. HIDE DEF h
  <2>. QED  BY <2>1, <1>6
<1>8. G(n)
  <2>. HIDE DEF h
  <2>. QED  BY <1>7
<1>. QED  BY <1>8

LEMMA FlattensUnique ==
  ASSUME NEW T, NEW s \in Seq(Seq(T)), NEW g, NEW h, Flattens(g, s), Flattens(h, s)
  PROVE  g = h
<1>. DEFINE Bad == {n \in 1 .. Len(s) : g[n] # h[n]}
<1>1. Len(s) \in Nat
  BY LenProperties
<1>2. /\ DOMAIN g = 1 .. Len(s) /\ g = [i \in 1 .. Len(s) |-> g[i]]
      /\ DOMAIN h = 1 .. Len(s) /\ h = [i \in 1 .. Len(s) |-> h[i]]
  BY DEF Flattens
<1>3. CASE Bad = {}
  BY <1>2, <1>3
<1>4. CASE Bad # {}
  <2>1. PICK n \in Bad : \A k \in Bad : n <= k
    <3>1. Bad \subseteq Nat
      BY <1>1
    <3>. HIDE DEF Bad
    <3>. QED  BY <1>4, <3>1, LeastOf
  <2>2. g[n] = (IF n = 1 THEN s[n] ELSE g[n - 1] \o s[n])
    BY DEF Flattens
  <2>3. h[n] = (IF n = 1 THEN s[n] ELSE h[n - 1] \o s[n])
    BY DEF Flattens
  <2>4. n # 1
    BY <2>2, <2>3
  <2>5. n - 1 \in 1 .. Len(s) /\ n - 1 \notin Bad
    BY <1>1, <2>1, <2>4
  <2>. QED  BY <2>2, <2>3, <2>4, <2>5
<1>. QED  BY <1>3, <1>4

LEMMA FlattenIs ==
  ASSUME NEW T, NEW s \in Seq(Seq(T)), s # <<>>, NEW g, Flattens(g, s)
  PROVE  Tcp!FlattenSeq(s) = g[Len(s)]
<1>1. Len(s) # 0
  BY EmptySeq
<1>. DEFINE f == CHOOSE h : h = [i \in 1 .. Len(s) |-> IF i = 1 THEN s[i] ELSE h[i - 1] \o s[i]]
<1>2. Tcp!FlattenSeq(s) = f[Len(s)]
  BY <1>1 DEF Tcp!FlattenSeq
<1>3. Flattens(f, s)
  BY DEF Flattens
<1>4. f = g
  <2>. HIDE DEF f
  <2>. QED  BY <1>3, FlattensUnique
<1>. QED  BY <1>2, <1>4

LEMMA FlattensTyped ==
  ASSUME NEW T, NEW s \in Seq(Seq(T)), NEW g, Flattens(g, s)
  PROVE  \A i \in 1 .. Len(s) : g[i] \in Seq(T)
<1>. DEFINE Bad == {n \in 1 .. Len(s) : g[n] \notin Seq(T)}
<1>1. Len(s) \in Nat
  BY LenProperties
<1>. SUFFICES ASSUME Bad # {} PROVE FALSE
  OBVIOUS
<1>2. PICK n \in Bad : \A k \in Bad : n <= k
  <2>1. Bad \subseteq Nat
    BY <1>1
  <2>. HIDE DEF Bad
  <2>. QED  BY <2>1, LeastOf
<1>3. g[n] = (IF n = 1 THEN s[n] ELSE g[n - 1] \o s[n]) /\ s[n] \in Seq(T)
  BY ElementOfSeq DEF Flattens
<1>4. n - 1 \in 1 .. Len(s) /\ n - 1 \notin Bad
  BY <1>1, <1>2, <1>3
<1>5. n # 1
  BY <1>3
<1>6. g[n - 1] \o s[n] \in Seq(T)
  BY <1>3, <1>4, ConcatProperties
<1>. QED  BY <1>3, <1>5, <1>6

LEMMA Associates ==
  ASSUME NEW T, NEW a \in Seq(T), NEW b \in Seq(T), NEW c \in Seq(T)
  PROVE  (a \o b) \o c = a \o (b \o c)
BY ConcatAssociative

LEMMA FlattenEmpty == Tcp!FlattenSeq(<<>>) = <<>>
BY DEF Tcp!FlattenSeq

LEMMA FlattenTyped ==
  ASSUME NEW T, NEW s \in Seq(Seq(T))
  PROVE  Tcp!FlattenSeq(s) \in Seq(T)
<1>1. CASE s = <<>>
  BY <1>1, FlattenEmpty, EmptySeq
<1>2. CASE s # <<>>
  <2>1. PICK g : Flattens(g, s)
    BY FlattensExists
  <2>2. Len(s) \in 1 .. Len(s)
    BY <1>2, EmptySeq
  <2>. QED  BY <1>2, <2>1, <2>2, FlattenIs, FlattensTyped
<1>. QED  BY <1>1, <1>2

LEMMA FlattenAppend ==
  ASSUME NEW T, NEW s \in Seq(Seq(T)), NEW x \in Seq(T)
  PROVE  Tcp!FlattenSeq(Append(s, x)) = Tcp!FlattenSeq(s) \o x
<1>. DEFINE t == Append(s, x)
<1>1. /\ t \in Seq(Seq(T)) /\ t # <<>> /\ Len(t) = Len(s) + 1 /\ Len(s) \in Nat
      /\ \A i \in 1 .. Len(s) : t[i] = s[i]
      /\ t[Len(s) + 1] = x
  BY AppendProperties, LenProperties
<1>. HIDE DEF t
<1>2. PICK g : Flattens(g, t)
  BY <1>1, FlattensExists
<1>3. \A i \in 1 .. Len(s) + 1 : g[i] = IF i = 1 THEN t[i] ELSE g[i - 1] \o t[i]
  BY <1>1, <1>2 DEF Flattens
<1>4. Tcp!FlattenSeq(t) = g[Len(s) + 1]
  BY <1>1, <1>2, FlattenIs
<1>5. CASE s = <<>>
  <2>1. Len(s) = 0
    BY <1>5
  <2>2. g[1] = x
    BY <1>1, <1>3, <2>1
  <2>3. <<>> \o x = x
    BY ConcatEmptySeq
  <2>. QED  BY <1>4, <1>5, <2>1, <2>2, <2>3, FlattenEmpty DEF t
<1>6. CASE s # <<>>
  <2>1. Len(s) # 0
    BY <1>6, EmptySeq
  <2>. DEFINE h == [i \in 1 .. Len(s) |-> g[i]]
  <2>2. ASSUME NEW i \in 1 .. Len(s)
        PROVE  h[i] = IF i = 1 THEN s[i] ELSE h[i - 1] \o s[i]
    <3>1. i # 1 => i - 1 \in 1 .. Len(s)
      BY <1>1
    <3>2. h[i] = g[i] /\ (i # 1 => h[i - 1] = g[i - 1]) /\ t[i] = s[i]
      BY <1>1, <3>1
    <3>3. g[i] = IF i = 1 THEN t[i] ELSE g[i - 1] \o t[i]
      BY <1>1, <1>3
    <3>. HIDE DEF h
    <3>. QED  BY <3>2, <3>3
  <2>3. Flattens(h, s)
    <3>1. h = [i \in 1 .. Len(s) |-> h[i]]
      OBVIOUS
    <3>. HIDE DEF h
    <3>. QED  BY <2>2, <3>1 DEF Flattens
  <2>4. Tcp!FlattenSeq(s) = h[Len(s)]
    BY <1>6, <2>3, FlattenIs
  <2>5. h[Len(s)] = g[Len(s)]
    BY <1>1, <2>1
  <2>6. g[Len(s) + 1] = g[Len(s)] \o x
    <3>1. PICK n : n = Len(s) + 1
      OBVIOUS
    <3>2. n \in 1 .. Len(s) + 1 /\ n # 1 /\ n - 1 = Len(s) /\ t[n] = x
      BY <1>1, <2>1, <3>1
    <3>3. g[n] = IF n = 1 THEN t[n] ELSE g[n - 1] \o t[n]
      BY <1>3, <3>2
    <3>. QED  BY <3>1, <3>2, <3>3
  <2>. QED  BY <1>4, <2>4, <2>5, <2>6 DEF t
<1>. QED  BY <1>5, <1>6

LEMMA FlattenHead ==
  ASSUME NEW T, NEW s \in Seq(Seq(T)), s # <<>>
  PROVE  Tcp!FlattenSeq(s) = Head(s) \o Tcp!FlattenSeq(Tail(s))
<1>. DEFINE t == Tail(s)
            x == Head(s)
<1>1. /\ t \in Seq(Seq(T)) /\ x \in Seq(T) /\ x = s[1]
      /\ Len(s) \in Nat /\ Len(s) # 0 /\ Len(t) = Len(s) - 1
      /\ \A i \in 1 .. Len(t) : t[i] = s[i + 1]
  BY HeadTailProperties, EmptySeq, LenProperties
<1>. HIDE DEF t, x
<1>2. CASE t = <<>>
  <2>1. Len(s) = 1
    BY <1>1, <1>2
  <2>2. PICK g : Flattens(g, s)
    BY FlattensExists
  <2>3. g[1] = x
    BY <1>1, <2>1, <2>2 DEF Flattens
  <2>4. Tcp!FlattenSeq(s) = x
    BY <2>1, <2>2, <2>3, FlattenIs
  <2>5. x \o <<>> = x
    BY <1>1, ConcatEmptySeq
  <2>. QED  BY <1>2, <2>4, <2>5, FlattenEmpty DEF t, x
<1>3. CASE t # <<>>
  <2>1. PICK g : Flattens(g, t)
    BY <1>1, FlattensExists
  <2>2. Len(t) # 0
    BY <1>1, <1>3, EmptySeq
  <2>3. \A i \in 1 .. Len(t) :
          /\ g[i] = IF i = 1 THEN t[i] ELSE g[i - 1] \o t[i]
          /\ g[i] \in Seq(T)
    BY <1>1, <2>1, FlattensTyped DEF Flattens
  <2>. DEFINE h == [i \in 1 .. Len(s) |-> IF i = 1 THEN x ELSE x \o g[i - 1]]
  <2>h. /\ \A i \in 1 .. Len(s) : h[i] = IF i = 1 THEN x ELSE x \o g[i - 1]
        /\ h = [i \in 1 .. Len(s) |-> h[i]]
    OBVIOUS
  <2>. HIDE DEF h
  <2>4. ASSUME NEW i \in 1 .. Len(s)
        PROVE  h[i] = IF i = 1 THEN s[i] ELSE h[i - 1] \o s[i]
    <3>1. CASE i = 1
      BY <1>1, <2>h, <3>1
    <3>2. CASE i = 2
      <4>1. 2 \in 1 .. Len(s) /\ 1 \in 1 .. Len(s) /\ 1 \in 1 .. Len(t)
        BY <1>1, <3>2
      <4>2. h[i] = x \o g[1] /\ h[i - 1] = x
        <5>1. i - 1 = 1 /\ i # 1
          BY <3>2
        <5>. QED  BY <2>h, <3>2, <4>1, <5>1
      <4>3. g[1] = t[1] /\ t[1] = s[2]
        BY <1>1, <2>3, <4>1
      <4>. QED  BY <3>2, <4>2, <4>3
    <3>3. CASE i \notin {1, 2}
      <4>1. i - 1 \in 1 .. Len(t) /\ i - 2 \in 1 .. Len(t) /\ i - 1 \in 1 .. Len(s) /\ i - 1 # 1
            /\ (i - 1) - 1 = i - 2 /\ (i - 1) + 1 = i
        BY <1>1, <3>3
      <4>2. h[i] = x \o g[i - 1] /\ h[i - 1] = x \o g[i - 2]
        BY <2>h, <3>3, <4>1
      <4>3. g[i - 1] = g[i - 2] \o s[i]
        BY <1>1, <2>3, <4>1
      <4>4. s[i] \in Seq(T) /\ g[i - 2] \in Seq(T)
        BY <2>3, <4>1, ElementOfSeq
      <4>6. PICK a, b, c \in Seq(T) : a = x /\ b = g[i - 2] /\ c = s[i]
        BY <1>1, <4>4
      <4>7. (a \o b) \o c = a \o (b \o c)
        BY ONLY a \in Seq(T), b \in Seq(T), c \in Seq(T), Associates
      <4>5. (x \o g[i - 2]) \o s[i] = x \o (g[i - 2] \o s[i])
        BY <4>6, <4>7
      <4>. QED  BY <3>3, <4>2, <4>3, <4>5
    <3>. QED  BY <3>1, <3>2, <3>3
  <2>5. Flattens(h, s)
    BY <2>h, <2>4 DEF Flattens
  <2>6. Tcp!FlattenSeq(s) = h[Len(s)]
    BY <2>5, FlattenIs
  <2>7. Tcp!FlattenSeq(t) = g[Len(t)]
    BY <1>1, <1>3, <2>1, FlattenIs
  <2>8. h[Len(s)] = x \o g[Len(t)]
    <3>1. Len(s) \in 1 .. Len(s) /\ Len(s) # 1 /\ Len(s) - 1 = Len(t)
      BY <1>1, <2>2
    <3>. QED  BY <2>h, <3>1
  <2>. QED  BY <2>6, <2>7, <2>8 DEF t, x
<1>. QED  BY <1>2, <1>3

-----------------------------------------------------------------------------
(***************************************************************************)
(* TCP.                                                                    *)
(***************************************************************************)
FrameLen(m) == LenUnits + Length[m]

Units == UNION {{Tcp!Frame(m)[i] : i \in DOMAIN Tcp!Frame(m)} : m \in Tcp!Messages}

(* What was written and has been read so far, or is still to be. *)
Passed  == buf \o stream
Backlog == Passed \o unsent

(* What is left of a send in progress is the end of the frame.             *)
SendInProgress ==
  unsent # <<>> =>
    /\ next - 1 \in Tcp!Messages
    /\ Len(unsent) <= FrameLen(next - 1)
    /\ \A i \in 1 .. Len(unsent) :
         unsent[i] = <<next - 1, FrameLen(next - 1) - Len(unsent) + i>>

(* Frames may lose parts, and their units keep their order.                *)
Precedes(u, v) == u[1] < v[1] \/ (u[1] = v[1] /\ u[2] < v[2])

UnitsInOrder ==
  \A i, j \in 1 .. Len(Backlog) : i < j => Precedes(Backlog[i], Backlog[j])

(* What was received is not met again.                                     *)
ReceivedAreBehind ==
  /\ \A k \in 1 .. Len(received) : received[k] < next
  /\ \A i \in 1 .. Len(Backlog) :
       /\ Backlog[i][1] < next
       /\ \A k \in 1 .. Len(received) : received[k] < Backlog[i][1]

(* The end of a frame is written last.                                     *)
IsAccepted(m) == \E j \in DOMAIN accepted : m = accepted[j]

EndsAreAccepted ==
  \A i \in 1 .. Len(Passed) :
    Passed[i][2] = FrameLen(Passed[i][1]) => IsAccepted(Passed[i][1])

OrderInv ==
  /\ Tcp!TcpTypeOK /\ SendInProgress
  /\ UnitsInOrder /\ ReceivedAreBehind /\ EndsAreAccepted
  /\ Tcp!ReceivedInOrder

LEMMA MessagesAre ==
  /\ Tcp!Messages = 1 .. Len(Length) /\ Len(Length) \in Nat
  /\ LenUnits \in Nat \ {0}
  /\ \A m \in Tcp!Messages : Length[m] \in Nat \ {0} /\ m \in Nat /\ FrameLen(m) \in Nat \ {0}
BY StreamAssumption DEF Tcp!Messages, FrameLen

LEMMA FrameIs ==
  ASSUME NEW m \in Tcp!Messages
  PROVE  /\ Tcp!Frame(m) \in Seq(Units)
         /\ Len(Tcp!Frame(m)) = FrameLen(m)
         /\ DOMAIN Tcp!Frame(m) = 1 .. FrameLen(m)
         /\ \A i \in 1 .. FrameLen(m) : Tcp!Frame(m)[i] = <<m, i>>
<1>1. FrameLen(m) \in Nat
  BY MessagesAre
<1>2. Tcp!Frame(m) = [i \in 1 .. FrameLen(m) |-> <<m, i>>]
  BY DEF Tcp!Frame, FrameLen
<1>3. \A i \in 1 .. FrameLen(m) : Tcp!Frame(m)[i] \in Units
  <2>1. DOMAIN Tcp!Frame(m) = 1 .. FrameLen(m)
    BY <1>2
  <2>2. \A i \in DOMAIN Tcp!Frame(m) : Tcp!Frame(m)[i] \in Units
    BY DEF Units
  <2>. QED  BY <2>1, <2>2
<1>4. Tcp!Frame(m) \in Seq(Units)
  <2>1. Tcp!Frame(m) \in [1 .. FrameLen(m) -> Units]
    BY <1>2, <1>3
  <2>. QED  BY <1>1, <2>1
<1>. QED  BY <1>1, <1>2, <1>4

LEMMA UnitsAre ==
  ASSUME NEW u \in Units
  PROVE  /\ u = <<u[1], u[2]>> /\ u[1] \in Tcp!Messages /\ u[1] \in Nat
         /\ u[2] \in 1 .. FrameLen(u[1]) /\ u[2] \in Nat
<1>0. PICK m \in Tcp!Messages : \E i \in DOMAIN Tcp!Frame(m) : u = Tcp!Frame(m)[i]
  BY DEF Units
<1>1. PICK i \in DOMAIN Tcp!Frame(m) : u = Tcp!Frame(m)[i]
  BY <1>0
<1>2. i \in 1 .. FrameLen(m) /\ u = <<m, i>>
  BY <1>1, FrameIs
<1>. QED  BY <1>2, MessagesAre

LEMMA MinOf ==
  ASSUME NEW a \in Int, NEW b \in Int
  PROVE  Tcp!Min({a, b}) = IF a <= b THEN a ELSE b
<1>1. \E x \in {a, b} : \A y \in {a, b} : x <= y
  OBVIOUS
<1>2. \A x \in {a, b} : (\A y \in {a, b} : x <= y) => x = IF a <= b THEN a ELSE b
  OBVIOUS
<1>. QED  BY <1>1, <1>2 DEF Tcp!Min

LEMMA TcpTypes ==
  ASSUME Tcp!TcpTypeOK
  PROVE  /\ unsent \in Seq(Units) /\ stream \in Seq(Units) /\ buf \in Seq(Units)
         /\ Passed \in Seq(Units) /\ Backlog \in Seq(Units)
         /\ Len(unsent) \in Nat /\ Len(stream) \in Nat /\ Len(buf) \in Nat
         /\ Len(Passed) = Len(buf) + Len(stream)
         /\ Len(Backlog) = Len(buf) + Len(stream) + Len(unsent)
         /\ \A i \in 1 .. Len(Passed) : Backlog[i] = Passed[i]
         /\ accepted \in Seq(Tcp!Messages) /\ received \in Seq(Tcp!Messages)
         /\ next \in Nat
<1>1. unsent \in Seq(Units) /\ stream \in Seq(Units) /\ buf \in Seq(Units)
  BY DEF Tcp!TcpTypeOK, Units
<1>2. Passed \in Seq(Units) /\ Len(Passed) = Len(buf) + Len(stream)
  BY <1>1, ConcatProperties DEF Passed
<1>3. Len(unsent) \in Nat /\ Len(stream) \in Nat /\ Len(buf) \in Nat
  BY <1>1, LenProperties
<1>4. /\ Backlog \in Seq(Units)
      /\ Len(Backlog) = Len(buf) + Len(stream) + Len(unsent)
      /\ \A i \in 1 .. Len(Passed) : Backlog[i] = Passed[i]
  <2>1. PICK p \in Seq(Units) : p = Passed
    BY <1>2
  <2>2. /\ p \o unsent \in Seq(Units) /\ Len(p \o unsent) = Len(p) + Len(unsent)
        /\ \A i \in 1 .. Len(p) + Len(unsent) : (p \o unsent)[i] =
              IF i <= Len(p) THEN p[i] ELSE unsent[i - Len(p)]
    BY <1>1, ConcatProperties
  <2>. QED  BY <1>2, <1>3, <2>1, <2>2 DEF Backlog
<1>. QED  BY <1>1, <1>2, <1>3, <1>4, MessagesAre DEF Tcp!TcpTypeOK

LEMMA SuffixEnds ==
  ASSUME NEW p \in Seq(Units), NEW b \in Seq(Units), p # <<>>, Tcp!IsSuffix(p, b)
  PROVE  Len(b) \in Nat \ {0} /\ b[Len(b)] = p[Len(p)]
<1>1. Len(p) \in Nat \ {0} /\ Len(b) \in Nat
  BY EmptySeq, LenProperties
<1>. DEFINE rp == [i \in 1 .. Len(p) |-> p[(Len(p) - i) + 1]]
            rb == [i \in 1 .. Len(b) |-> b[(Len(b) - i) + 1]]
<1>2. /\ Len(rp) = Len(p) /\ rp[1] = p[Len(p)] /\ rp \in Seq(Units)
      /\ Len(rb) = Len(b) /\ (Len(b) # 0 => rb[1] = b[Len(b)])  /\ rb \in Seq(Units)
  <2>1. rp \in Seq(Units) /\ Len(rp) = Len(p)
    <3>1. rp \in [1 .. Len(p) -> Units]
      BY <1>1
    <3>. QED  BY <1>1, <3>1
  <2>2. rb \in Seq(Units) /\ Len(rb) = Len(b)
    <3>1. rb \in [1 .. Len(b) -> Units]
      BY <1>1
    <3>. QED  BY <1>1, <3>1
  <2>3. rp[1] = p[Len(p)]
    BY <1>1
  <2>4. Len(b) # 0 => rb[1] = b[Len(b)]
    BY <1>1
  <2>. QED  BY <2>1, <2>2, <2>3, <2>4
<1>3. Len(rp) <= Len(rb) /\ SubSeq(rp, 1, Len(rp)) = SubSeq(rb, 1, Len(rp))
  BY DEF Tcp!IsSuffix, Tcp!IsPrefix, Tcp!Reverse
<1>. HIDE DEF rp, rb
<1>4. SubSeq(rp, 1, Len(rp))[1] = rp[1] /\ SubSeq(rb, 1, Len(rp))[1] = rb[1]
  <2>1. \A i \in 1 .. Len(rp) : rp[i] \in Units /\ rb[i] \in Units
    BY <1>1, <1>2, <1>3, ElementOfSeq
  <2>2. /\ \A i \in 1 .. Len(rp) - 1 + 1 : SubSeq(rp, 1, Len(rp))[i] = rp[1 + i - 1]
        /\ \A i \in 1 .. Len(rp) - 1 + 1 : SubSeq(rb, 1, Len(rp))[i] = rb[1 + i - 1]
    BY <1>1, <1>2, <2>1, SubSeqProperties
  <2>. QED  BY <1>1, <1>2, <2>2
<1>. QED  BY <1>1, <1>2, <1>3, <1>4

LEMMA PayloadIs ==
  ASSUME NEW m \in Tcp!Messages
  PROVE  /\ Tcp!Payload(m) \in Seq(Units) /\ Tcp!Payload(m) # <<>>
         /\ Len(Tcp!Payload(m)) = Length[m]
         /\ \A i \in 1 .. Length[m] : Tcp!Payload(m)[i] = <<m, LenUnits + i>>
<1>1. /\ Tcp!Frame(m) \in Seq(Units) /\ Len(Tcp!Frame(m)) = FrameLen(m)
      /\ \A i \in 1 .. FrameLen(m) : Tcp!Frame(m)[i] = <<m, i>>
      /\ Length[m] \in Nat \ {0} /\ LenUnits \in Nat \ {0}
  BY FrameIs, MessagesAre
<1>2. \A i \in LenUnits + 1 .. LenUnits + Length[m] : Tcp!Frame(m)[i] \in Units
  BY <1>1, ElementOfSeq DEF FrameLen
<1>3. /\ Tcp!Payload(m) \in Seq(Units) /\ Len(Tcp!Payload(m)) = Length[m]
      /\ \A i \in 1 .. Length[m] : Tcp!Payload(m)[i] = Tcp!Frame(m)[LenUnits + i]
  BY <1>1, <1>2, SubSeqProperties DEF Tcp!Payload
<1>4. \A i \in 1 .. Length[m] : LenUnits + i \in 1 .. FrameLen(m)
  BY <1>1 DEF FrameLen
<1>. QED  BY <1>1, <1>3, <1>4

LEMMA WriteIs ==
  ASSUME OrderInv, Tcp!Write
  PROVE  \E n \in 1 .. Len(unsent) :
           /\ n <= Capacity - Len(stream)
           /\ stream' = stream \o SubSeq(unsent, 1, n)
           /\ unsent' = SubSeq(unsent, n + 1, Len(unsent))
           /\ accepted' = IF n = Len(unsent) THEN Append(accepted, next - 1) ELSE accepted
           /\ n = Len(unsent) <=> unsent' = <<>>
<1>1. /\ unsent \in Seq(Units) /\ Len(stream) \in Nat
      /\ next - 1 \in Tcp!Messages /\ unsent # <<>> /\ Capacity \in Nat
  BY TcpTypes, StreamAssumption DEF OrderInv, SendInProgress, Tcp!Write
<1>2. Len(unsent) \in Nat \ {0} /\ Length[next - 1] \in Nat \ {0}
  BY <1>1, EmptySeq, MessagesAre
<1>3. Tcp!Part \in 1 .. Len(unsent)
  BY <1>2 DEF Tcp!Part
<1>4. Tcp!Free \in Int /\ Tcp!Free > 0 /\ Tcp!Free = Capacity - Len(stream)
  BY <1>1 DEF Tcp!Free, Tcp!Write
<1>5. PICK n \in Nat : n = Tcp!Min({Tcp!Free, Tcp!Part}) /\ n <= Tcp!Free /\ n \in 1 .. Len(unsent)
  BY <1>2, <1>3, <1>4, MinOf
<1>6. /\ stream' = stream \o SubSeq(unsent, 1, n)
      /\ unsent' = SubSeq(unsent, n + 1, Len(unsent))
      /\ accepted' = IF unsent' = <<>> THEN Append(accepted, next - 1) ELSE accepted
  BY <1>5 DEF Tcp!Write
<1>7. unsent' = <<>> <=> n = Len(unsent)
  <2>1. n = Len(unsent) => SubSeq(unsent, n + 1, Len(unsent)) = <<>>
    BY <1>2, <1>5, SubSeqEmpty
  <2>2. \A i \in n + 1 .. Len(unsent) : unsent[i] \in Units
    BY <1>1, <1>2, <1>5, ElementOfSeq
  <2>3. n # Len(unsent) => Len(SubSeq(unsent, n + 1, Len(unsent))) # 0
    BY <1>2, <1>5, <2>2, SubSeqProperties
  <2>. QED  BY <1>6, <2>1, <2>3, EmptySeq
<1>. QED  BY <1>4, <1>5, <1>6, <1>7

(* What SubSeq(s, 1, n) and SubSeq(s, n + 1, Len(s)) are. *)
LEMMA CutOf ==
  ASSUME NEW T, NEW s \in Seq(T), NEW n \in 0 .. Len(s)
  PROVE  /\ SubSeq(s, 1, n) \in Seq(T) /\ Len(SubSeq(s, 1, n)) = n
         /\ \A i \in 1 .. n : SubSeq(s, 1, n)[i] = s[i]
         /\ SubSeq(s, n + 1, Len(s)) \in Seq(T)
         /\ Len(SubSeq(s, n + 1, Len(s))) = Len(s) - n
         /\ \A i \in 1 .. Len(s) - n : SubSeq(s, n + 1, Len(s))[i] = s[n + i]
         /\ SubSeq(s, 1, n) \o SubSeq(s, n + 1, Len(s)) = s
<1>1. Len(s) \in Nat /\ n \in Nat
  BY LenProperties
<1>2. (\A i \in 1 .. n : s[i] \in T) /\ (\A i \in n + 1 .. Len(s) : s[i] \in T)
  BY <1>1, ElementOfSeq
<1>3. /\ SubSeq(s, 1, n) \in Seq(T) /\ Len(SubSeq(s, 1, n)) = n
      /\ \A i \in 1 .. n : SubSeq(s, 1, n)[i] = s[i]
  <2>1. /\ SubSeq(s, 1, n) \in Seq(T)
        /\ Len(SubSeq(s, 1, n)) = IF 1 <= n THEN n - 1 + 1 ELSE 0
        /\ \A i \in 1 .. n - 1 + 1 : SubSeq(s, 1, n)[i] = s[1 + i - 1]
    BY <1>1, <1>2, SubSeqProperties
  <2>. QED  BY <1>1, <2>1
<1>4. /\ SubSeq(s, n + 1, Len(s)) \in Seq(T)
      /\ Len(SubSeq(s, n + 1, Len(s))) = Len(s) - n
      /\ \A i \in 1 .. Len(s) - n : SubSeq(s, n + 1, Len(s))[i] = s[n + i]
  <2>1. /\ SubSeq(s, n + 1, Len(s)) \in Seq(T)
        /\ Len(SubSeq(s, n + 1, Len(s))) = IF n + 1 <= Len(s) THEN Len(s) - (n + 1) + 1 ELSE 0
        /\ \A i \in 1 .. Len(s) - (n + 1) + 1 : SubSeq(s, n + 1, Len(s))[i] = s[n + 1 + i - 1]
    BY <1>1, <1>2, SubSeqProperties
  <2>. QED  BY <1>1, <2>1
<1>5. SubSeq(s, 1, n) \o SubSeq(s, n + 1, Len(s)) = s
  <2>1. SubSeq(s, 1, n) \o SubSeq(s, n + 1, Len(s)) = SubSeq(s, 1, Len(s))
    <3>1. 1 \in 1 .. Len(s) + 1 /\ n \in 1 - 1 .. Len(s) /\ Len(s) \in n .. Len(s)
      BY <1>1
    <3>. QED  BY ONLY s \in Seq(T), <3>1, ConcatAdjacentSubSeq
  <2>. QED  BY <2>1, SubSeqFull
<1>. QED  BY <1>3, <1>4, <1>5

LEMMA CutIs ==
  ASSUME NEW s \in Seq(Units), NEW n \in 0 .. Len(s)
  PROVE  /\ SubSeq(s, 1, n) \in Seq(Units) /\ Len(SubSeq(s, 1, n)) = n
         /\ \A i \in 1 .. n : SubSeq(s, 1, n)[i] = s[i]
         /\ SubSeq(s, n + 1, Len(s)) \in Seq(Units)
         /\ Len(SubSeq(s, n + 1, Len(s))) = Len(s) - n
         /\ \A i \in 1 .. Len(s) - n : SubSeq(s, n + 1, Len(s))[i] = s[n + i]
         /\ SubSeq(s, 1, n) \o SubSeq(s, n + 1, Len(s)) = s
BY CutOf

LEMMA ReadIs ==
  ASSUME OrderInv, Tcp!Read
  PROVE  \E n \in 1 .. Len(stream) :
           /\ n <= arrived /\ n <= Tcp!Wanted - Len(buf)
           /\ buf' = buf \o SubSeq(stream, 1, n)
           /\ stream' = SubSeq(stream, n + 1, Len(stream))
           /\ arrived' = arrived - n
<1>1. Tcp!Wanted \in Nat /\ Len(buf) \in Nat /\ arrived \in Nat /\ arrived <= Len(stream)
      /\ Len(stream) \in Nat
  BY TcpTypes, StreamAssumption DEF OrderInv, Tcp!TcpTypeOK, Tcp!Wanted
<1>2. Tcp!Wanted - Len(buf) > 0 /\ arrived > 0
  BY <1>1 DEF Tcp!Read, Tcp!Reading
<1>3. PICK n \in Nat : n = Tcp!Min({arrived, Tcp!Wanted - Len(buf)}) /\ n \in 1 .. Len(stream)
                     /\ n <= arrived /\ n <= Tcp!Wanted - Len(buf)
  BY <1>1, <1>2, MinOf
<1>. QED  BY <1>3 DEF Tcp!Read

LEMMA SenderTypes ==
  ASSUME OrderInv, Tcp!Send \/ Tcp!Write \/ Tcp!SendFails
  PROVE  Tcp!TcpTypeOK'
<1>. USE DEF Tcp!tcp_receiver
<1>1. CASE Tcp!Send
  <2>1. unsent' \in Seq(Units) /\ next' \in 1 .. Len(Length) + 1
    BY <1>1, FrameIs, MessagesAre DEF OrderInv, Tcp!TcpTypeOK, Tcp!Send
  <2>. QED  BY <1>1, <2>1 DEF OrderInv, Tcp!TcpTypeOK, Tcp!Send, Units
<1>2. CASE Tcp!Write
  <2>1. PICK n \in 1 .. Len(unsent) :
           /\ n <= Capacity - Len(stream)
           /\ stream' = stream \o SubSeq(unsent, 1, n)
           /\ unsent' = SubSeq(unsent, n + 1, Len(unsent))
           /\ accepted' = IF n = Len(unsent) THEN Append(accepted, next - 1) ELSE accepted
    BY <1>2, WriteIs
  <2>2. unsent \in Seq(Units) /\ stream \in Seq(Units) /\ Len(unsent) \in Nat
        /\ Len(stream) \in Nat /\ Capacity \in Nat
        /\ accepted \in Seq(Tcp!Messages) /\ next - 1 \in Tcp!Messages
    BY <1>2, TcpTypes, StreamAssumption DEF OrderInv, SendInProgress, Tcp!Write
  <2>3. /\ SubSeq(unsent, 1, n) \in Seq(Units) /\ Len(SubSeq(unsent, 1, n)) = n
        /\ unsent' \in Seq(Units)
    <3>1. n \in 0 .. Len(unsent)
      BY <2>2
    <3>. QED  BY <2>1, <2>2, <3>1, CutIs
  <2>4. stream' \in Seq(Units) /\ Len(stream') = Len(stream) + n
    BY <2>1, <2>2, <2>3, ConcatProperties
  <2>5. Len(stream') <= Capacity /\ arrived' \in 0 .. Len(stream')
    BY <1>2, <2>1, <2>2, <2>4 DEF OrderInv, Tcp!TcpTypeOK, Tcp!Write
  <2>6. accepted' \in Seq(Tcp!Messages)
    BY <2>1, <2>2, AppendProperties
  <2>. QED  BY <1>2, <2>3, <2>4, <2>5, <2>6 DEF OrderInv, Tcp!TcpTypeOK, Tcp!Write, Units
<1>3. CASE Tcp!SendFails
  <2>1. unsent' \in Seq(Units)
    BY <1>3, EmptySeq DEF Tcp!SendFails
  <2>. QED  BY <1>3, <2>1 DEF OrderInv, Tcp!TcpTypeOK, Tcp!SendFails, Units
<1>. QED  BY <1>1, <1>2, <1>3

LEMMA LinkTypes ==
  ASSUME OrderInv, Tcp!Arrive \/ Tcp!Hangup \/ Tcp!Read
  PROVE  Tcp!TcpTypeOK'
<1>. USE DEF Tcp!tcp_receiver, Tcp!tcp_sender
<1>0. /\ stream \in Seq(Units) /\ buf \in Seq(Units)
      /\ Len(stream) \in Nat /\ arrived \in 0 .. Len(stream) /\ Capacity \in Nat
      /\ Len(stream) <= Capacity
  BY TcpTypes, StreamAssumption DEF OrderInv, Tcp!TcpTypeOK
<1>1. CASE Tcp!Arrive
  BY <1>0, <1>1 DEF OrderInv, Tcp!TcpTypeOK, Tcp!Arrive
<1>2. CASE Tcp!Hangup
  <2>1. PICK n \in 0 .. Len(stream) : /\ stream' = SubSeq(stream, 1, n)
                                    /\ arrived' = Tcp!Min({arrived, n})
    BY <1>2 DEF Tcp!Hangup
  <2>2. stream' \in Seq(Units) /\ Len(stream') = n
    BY <1>0, <2>1, CutIs
  <2>3. arrived' \in 0 .. Len(stream') /\ Len(stream') <= Capacity
    BY <1>0, <2>1, <2>2, MinOf
  <2>4. unsent' \in Seq(Units)
    BY <1>2, EmptySeq DEF Tcp!Hangup
  <2>. QED  BY <1>2, <2>2, <2>3, <2>4 DEF OrderInv, Tcp!TcpTypeOK, Tcp!Hangup, Units
<1>3. CASE Tcp!Read
  <2>1. PICK n \in 1 .. Len(stream) :
           /\ n <= arrived
           /\ buf' = buf \o SubSeq(stream, 1, n)
           /\ stream' = SubSeq(stream, n + 1, Len(stream))
           /\ arrived' = arrived - n
    BY <1>3, ReadIs
  <2>2. /\ SubSeq(stream, 1, n) \in Seq(Units)
        /\ stream' \in Seq(Units) /\ Len(stream') = Len(stream) - n
    BY <1>0, <2>1, CutIs
  <2>3. buf' \in Seq(Units)
    BY <1>0, <2>1, <2>2, ConcatProperties
  <2>4. arrived' \in 0 .. Len(stream') /\ Len(stream') <= Capacity
    BY <1>0, <2>1, <2>2
  <2>. QED  BY <1>3, <2>2, <2>3, <2>4 DEF OrderInv, Tcp!TcpTypeOK, Tcp!Read, Units
<1>. QED  BY <1>1, <1>2, <1>3

LEMMA ReceiverTypes ==
  ASSUME OrderInv,
         Tcp!WouldBlock \/ Tcp!UnexpectedEof \/ Tcp!GetLength \/ Tcp!GetPayload
  PROVE  Tcp!TcpTypeOK'
<1>. USE DEF Tcp!tcp_receiver, Tcp!tcp_sender
<1>0. <<>> \in Seq(Units)
  BY EmptySeq
<1>1. CASE Tcp!WouldBlock
  BY <1>0, <1>1 DEF OrderInv, Tcp!TcpTypeOK, Tcp!WouldBlock, Units
<1>2. CASE Tcp!UnexpectedEof
  BY <1>0, <1>2 DEF OrderInv, Tcp!TcpTypeOK, Tcp!UnexpectedEof, Units
<1>3. CASE Tcp!GetLength
  <2>1. need' \in Nat
    BY <1>3, MessagesAre, StreamAssumption DEF Tcp!GetLength, Tcp!Lengths
  <2>. QED  BY <1>0, <1>3, <2>1 DEF OrderInv, Tcp!TcpTypeOK, Tcp!GetLength, Units
<1>4. CASE Tcp!GetPayload
  <2>1. received' \in Seq(Tcp!Messages)
    <3>1. received \in Seq(Tcp!Messages)
      BY TcpTypes DEF OrderInv
    <3>2. received' = received \/ \E m \in Tcp!Messages : received' = Append(received, m)
      BY <1>4 DEF Tcp!GetPayload, Tcp!Decodes
    <3>. QED  BY <3>1, <3>2, AppendProperties
  <2>2. at' \in {"length", "payload", "failed"}
    BY <1>4 DEF Tcp!GetPayload
  <2>. QED  BY <1>0, <1>4, <2>1, <2>2 DEF OrderInv, Tcp!TcpTypeOK, Tcp!GetPayload, Units
<1>. QED  BY <1>1, <1>2, <1>3, <1>4

-----------------------------------------------------------------------------
LEMMA UnitsAssociate ==
  \A a, b, c \in Seq(Units) : (a \o b) \o c = a \o (b \o c)
<1>. TAKE a, b, c \in Seq(Units)
<1>. QED  BY Associates

LEMMA Rejoin ==
  ASSUME NEW b \in Seq(Units), NEW u \in Seq(Units), NEW n \in 1 .. Len(u)
  PROVE  (b \o SubSeq(u, 1, n)) \o SubSeq(u, n + 1, Len(u)) = b \o u
<1>1. PICK x, y : /\ x = SubSeq(u, 1, n) /\ y = SubSeq(u, n + 1, Len(u))
  OBVIOUS
<1>2. n \in 0 .. Len(u)
  BY LenProperties
<1>3. x \in Seq(Units) /\ y \in Seq(Units) /\ x \o y = u
  BY <1>1, <1>2, CutIs
<1>4. (b \o x) \o y = b \o (x \o y)
  BY <1>3, UnitsAssociate
<1>. QED  BY <1>1, <1>3, <1>4

LEMMA Extend ==
  ASSUME NEW b \in Seq(Units), NEW s \in Seq(Units), NEW u \in Seq(Units),
         NEW n \in 1 .. Len(u)
  PROVE  b \o (s \o SubSeq(u, 1, n)) = (b \o s) \o SubSeq(u, 1, n)
<1>1. PICK x : x = SubSeq(u, 1, n)
  OBVIOUS
<1>2. n \in 0 .. Len(u)
  BY LenProperties
<1>3. x \in Seq(Units)
  BY <1>1, <1>2, CutIs
<1>. QED  BY <1>1, <1>3, UnitsAssociate

(* Writing and reading move units and keep them. *)
LEMMA MovesKeepBacklog ==
  ASSUME OrderInv
  PROVE  /\ Tcp!Write => /\ Backlog' = Backlog
                         /\ \E n \in 1 .. Len(unsent) : Passed' = Passed \o SubSeq(unsent, 1, n)
         /\ Tcp!Read => Backlog' = Backlog /\ Passed' = Passed
<1>0. unsent \in Seq(Units) /\ stream \in Seq(Units) /\ buf \in Seq(Units)
  BY TcpTypes DEF OrderInv
<1>1. ASSUME Tcp!Write
      PROVE  /\ Backlog' = Backlog
             /\ \E n \in 1 .. Len(unsent) : Passed' = Passed \o SubSeq(unsent, 1, n)
  <2>1. PICK n \in 1 .. Len(unsent) :
           /\ stream' = stream \o SubSeq(unsent, 1, n)
           /\ unsent' = SubSeq(unsent, n + 1, Len(unsent))
    BY <1>1, WriteIs
  <2>2. buf' = buf
    BY <1>1 DEF Tcp!Write, Tcp!tcp_receiver
  <2>3. Passed' = Passed \o SubSeq(unsent, 1, n)
    BY <1>0, <2>1, <2>2, Extend DEF Passed
  <2>4. Backlog' = Backlog
    <3>1. PICK p \in Seq(Units) : p = Passed
      BY TcpTypes DEF OrderInv
    <3>2. (p \o SubSeq(unsent, 1, n)) \o SubSeq(unsent, n + 1, Len(unsent)) = p \o unsent
      BY <1>0, Rejoin
    <3>. QED  BY <2>1, <2>3, <3>1, <3>2 DEF Backlog
  <2>. QED  BY <2>3, <2>4
<1>2. ASSUME Tcp!Read
      PROVE  Backlog' = Backlog /\ Passed' = Passed
  <2>1. PICK n \in 1 .. Len(stream) :
           /\ buf' = buf \o SubSeq(stream, 1, n)
           /\ stream' = SubSeq(stream, n + 1, Len(stream))
    BY <1>2, ReadIs
  <2>2. unsent' = unsent
    BY <1>2 DEF Tcp!Read, Tcp!tcp_sender
  <2>. QED  BY <1>0, <2>1, <2>2, Rejoin DEF Passed, Backlog
<1>. QED  BY <1>1, <1>2

-----------------------------------------------------------------------------
LEMMA BacklogTyped ==
  Tcp!TcpTypeOK => Backlog \in Seq(Units) /\ Passed \in Seq(Units)
BY TcpTypes

(* What is left of the backlog is a part of it. *)
LEMMA PartKeepsOrder ==
  ASSUME OrderInv, Tcp!TcpTypeOK', NEW lo \in Nat, lo + Len(Backlog') <= Len(Backlog),
         \A i \in 1 .. Len(Backlog') : Backlog'[i] = Backlog[lo + i],
         next' = next
  PROVE  /\ UnitsInOrder'
         /\ received' = received => ReceivedAreBehind'
<1>1. Len(Backlog) \in Nat /\ Len(Backlog') \in Nat
  <2>1. Backlog \in Seq(Units)
    BY BacklogTyped DEF OrderInv
  <2>2. (Backlog \in Seq(Units))'
    BY BacklogTyped, PTL
  <2>. QED  BY <2>1, <2>2, LenProperties
<1>2. \A i \in 1 .. Len(Backlog') : lo + i \in 1 .. Len(Backlog)
  BY <1>1
<1>3. UnitsInOrder'
  <2>. SUFFICES ASSUME NEW i \in 1 .. Len(Backlog'), NEW j \in 1 .. Len(Backlog'), i < j
                PROVE  Precedes(Backlog'[i], Backlog'[j])
    BY DEF UnitsInOrder, Precedes
  <2>1. lo + i < lo + j /\ lo + i \in 1 .. Len(Backlog) /\ lo + j \in 1 .. Len(Backlog)
    BY <1>1, <1>2
  <2>. QED  BY <2>1 DEF OrderInv, UnitsInOrder
<1>4. ASSUME received' = received
      PROVE  ReceivedAreBehind'
  BY <1>2, <1>4 DEF OrderInv, ReceivedAreBehind
<1>. QED  BY <1>3, <1>4

LEMMA SameBacklog ==
  ASSUME OrderInv, Tcp!TcpTypeOK', Backlog' = Backlog, next' = next, received' = received
  PROVE  UnitsInOrder' /\ ReceivedAreBehind'
BY DEF OrderInv, UnitsInOrder, ReceivedAreBehind, Precedes

LEMMA SendKeepsOrder ==
  ASSUME OrderInv, Tcp!Send
  PROVE  OrderInv'
<1>. USE DEF Tcp!tcp_receiver
<1>1. /\ Tcp!TcpTypeOK' /\ next \in Tcp!Messages /\ unsent = <<>> /\ unsent' = Tcp!Frame(next)
      /\ next' = next + 1 /\ UNCHANGED <<accepted, stream, buf, received>>
  BY SenderTypes DEF Tcp!Send
<1>2. /\ next \in Nat /\ FrameLen(next) \in Nat
      /\ Tcp!Frame(next) \in Seq(Units) /\ Len(Tcp!Frame(next)) = FrameLen(next)
      /\ \A i \in 1 .. FrameLen(next) : Tcp!Frame(next)[i] = <<next, i>>
  BY <1>1, FrameIs, MessagesAre
<1>3. SendInProgress'
  BY <1>1, <1>2 DEF SendInProgress
<1>4. Passed' = Passed /\ Backlog' = Passed \o Tcp!Frame(next) /\ Backlog = Passed
  <2>1. Passed \in Seq(Units)
    BY TcpTypes DEF OrderInv
  <2>2. Passed \o <<>> = Passed
    BY <2>1, ConcatEmptySeq
  <2>. QED  BY <1>1, <2>2 DEF Passed, Backlog
<1>5. PICK p \in Seq(Units) : p = Passed
  BY TcpTypes DEF OrderInv
<1>6. /\ Len(p) \in Nat /\ Len(Backlog') = Len(p) + FrameLen(next)
      /\ \A i \in 1 .. Len(p) + FrameLen(next) :
           Backlog'[i] = IF i <= Len(p) THEN p[i] ELSE <<next, i - Len(p)>>
  <2>1. /\ Len(p \o Tcp!Frame(next)) = Len(p) + FrameLen(next)
        /\ \A i \in 1 .. Len(p) + FrameLen(next) : (p \o Tcp!Frame(next))[i] =
             IF i <= Len(p) THEN p[i] ELSE Tcp!Frame(next)[i - Len(p)]
    BY <1>2, ConcatProperties
  <2>2. Len(p) \in Nat
    BY LenProperties
  <2>3. ASSUME NEW i \in 1 .. Len(p) + FrameLen(next)
        PROVE  (p \o Tcp!Frame(next))[i] = IF i <= Len(p) THEN p[i] ELSE <<next, i - Len(p)>>
    <3>1. (p \o Tcp!Frame(next))[i] =
             IF i <= Len(p) THEN p[i] ELSE Tcp!Frame(next)[i - Len(p)]
      BY <2>1
    <3>2. ~ (i <= Len(p)) => Tcp!Frame(next)[i - Len(p)] = <<next, i - Len(p)>>
      BY <1>2, <2>2
    <3>. QED  BY <3>1, <3>2
  <2>4. Backlog' = p \o Tcp!Frame(next)
    BY <1>4, <1>5
  <2>. QED  BY <2>1, <2>2, <2>3, <2>4
<1>7. /\ \A i, j \in 1 .. Len(p) : i < j => Precedes(p[i], p[j])
      /\ \A i \in 1 .. Len(p) : p[i][1] < next /\ \A k \in 1 .. Len(received) : received[k] < p[i][1]
      /\ \A k \in 1 .. Len(received) : received[k] < next
  BY <1>4, <1>5 DEF OrderInv, UnitsInOrder, ReceivedAreBehind
<1>8. \A i \in 1 .. Len(p) : p[i][1] \in Nat
  BY UnitsAre, ElementOfSeq
<1>9. UnitsInOrder'
  <2>. SUFFICES ASSUME NEW i \in 1 .. Len(Backlog'), NEW j \in 1 .. Len(Backlog'), i < j
                PROVE  Precedes(Backlog'[i], Backlog'[j])
    BY DEF UnitsInOrder, Precedes
  <2>1. CASE j <= Len(p)
    BY <1>2, <1>6, <1>7, <2>1
  <2>2. CASE j > Len(p) /\ i <= Len(p)
    <3>1. Backlog'[i] = p[i] /\ i \in 1 .. Len(p) /\ Backlog'[j] = <<next, j - Len(p)>>
      BY <1>2, <1>6, <2>2
    <3>. QED  BY <1>7, <3>1 DEF Precedes
  <2>3. CASE i > Len(p)
    <3>1. Backlog'[i] = <<next, i - Len(p)>> /\ Backlog'[j] = <<next, j - Len(p)>>
          /\ i - Len(p) < j - Len(p)
      BY <1>2, <1>6, <2>3
    <3>. QED  BY <3>1 DEF Precedes
  <2>. QED  BY <1>2, <1>6, <2>1, <2>2, <2>3
<1>10. ReceivedAreBehind'
  <2>1. \A k \in 1 .. Len(received') : received'[k] < next'
    BY <1>1, <1>2, <1>7, TcpTypes, ElementOfSeq, MessagesAre DEF OrderInv
  <2>2. ASSUME NEW i \in 1 .. Len(Backlog')
        PROVE  /\ Backlog'[i][1] < next'
               /\ \A k \in 1 .. Len(received') : received'[k] < Backlog'[i][1]
    <3>1. CASE i <= Len(p)
      BY <1>1, <1>2, <1>6, <1>7, <1>8, <3>1
    <3>2. CASE i > Len(p)
      <4>1. Backlog'[i] = <<next, i - Len(p)>>
        BY <1>2, <1>6, <3>2
      <4>. QED  BY <1>1, <1>2, <1>7, <4>1
    <3>. QED  BY <1>2, <1>6, <3>1, <3>2
  <2>. QED  BY <2>1, <2>2 DEF ReceivedAreBehind
<1>11. EndsAreAccepted' /\ Tcp!ReceivedInOrder'
  BY <1>1, <1>4 DEF OrderInv, EndsAreAccepted, IsAccepted, Tcp!ReceivedInOrder
<1>. QED  BY <1>1, <1>3, <1>9, <1>10, <1>11 DEF OrderInv

LEMMA WriteKeepsOrder ==
  ASSUME OrderInv, Tcp!Write
  PROVE  OrderInv'
<1>. USE DEF Tcp!tcp_receiver
<1>1. /\ Tcp!TcpTypeOK' /\ Backlog' = Backlog /\ next' = next /\ received' = received
      /\ unsent # <<>>
  BY SenderTypes, MovesKeepBacklog DEF Tcp!Write
<1>2. PICK n \in 1 .. Len(unsent) :
           /\ stream' = stream \o SubSeq(unsent, 1, n)
           /\ unsent' = SubSeq(unsent, n + 1, Len(unsent))
           /\ accepted' = IF n = Len(unsent) THEN Append(accepted, next - 1) ELSE accepted
  BY WriteIs
<1>3. /\ unsent \in Seq(Units) /\ stream \in Seq(Units) /\ buf \in Seq(Units)
      /\ Len(unsent) \in Nat /\ n \in 0 .. Len(unsent)
      /\ next - 1 \in Tcp!Messages /\ FrameLen(next - 1) \in Nat
      /\ Len(unsent) <= FrameLen(next - 1)
      /\ \A i \in 1 .. Len(unsent) :
           unsent[i] = <<next - 1, FrameLen(next - 1) - Len(unsent) + i>>
      /\ accepted \in Seq(Tcp!Messages)
  BY <1>1, TcpTypes, MessagesAre DEF OrderInv, SendInProgress
<1>4. /\ Len(unsent') = Len(unsent) - n
      /\ \A i \in 1 .. Len(unsent) - n : unsent'[i] = unsent[n + i]
  BY <1>2, <1>3, CutIs
<1>5. SendInProgress'
  <2>1. \A i \in 1 .. Len(unsent') : unsent'[i] = <<next - 1, FrameLen(next - 1) - Len(unsent') + i>>
    <3>. TAKE i \in 1 .. Len(unsent')
    <3>1. n + i \in 1 .. Len(unsent) /\ unsent'[i] = unsent[n + i] /\ n \in Nat /\ i \in Nat
      BY <1>3, <1>4
    <3>2. FrameLen(next - 1) - Len(unsent) + (n + i) = FrameLen(next - 1) - Len(unsent') + i
      BY <1>3, <1>4, <3>1
    <3>. QED  BY <1>3, <3>1, <3>2
  <2>. QED  BY <1>1, <1>3, <1>4, <2>1 DEF SendInProgress
<1>6. \A m : IsAccepted(m) => IsAccepted(m)'
  <2>1. CASE n = Len(unsent)
    <3>1. /\ accepted' = Append(accepted, next - 1)
          /\ DOMAIN accepted = 1 .. Len(accepted) /\ DOMAIN accepted' = 1 .. Len(accepted) + 1
          /\ Len(accepted) \in Nat
          /\ \A j \in 1 .. Len(accepted) : accepted'[j] = accepted[j]
      BY <1>2, <1>3, <2>1, AppendProperties, LenProperties
    <3>. QED  BY <3>1 DEF IsAccepted
  <2>2. CASE n # Len(unsent)
    BY <1>2, <2>2 DEF IsAccepted
  <2>. QED  BY <2>1, <2>2
<1>7. n = Len(unsent) => IsAccepted(next - 1)'
  <2>. SUFFICES ASSUME n = Len(unsent) PROVE IsAccepted(next - 1)'
    OBVIOUS
  <2>1. /\ accepted' = Append(accepted, next - 1)
        /\ DOMAIN accepted' = 1 .. Len(accepted) + 1 /\ Len(accepted) \in Nat
        /\ accepted'[Len(accepted) + 1] = next - 1
    BY <1>2, <1>3, AppendProperties, LenProperties
  <2>2. Len(accepted) + 1 \in DOMAIN accepted'
    BY <2>1
  <2>. QED  BY <1>1, <2>1, <2>2 DEF IsAccepted
<1>8. EndsAreAccepted'
  <2>1. PICK p \in Seq(Units) : p = Passed
    BY TcpTypes DEF OrderInv
  <2>2. PICK x \in Seq(Units) : /\ x = SubSeq(unsent, 1, n) /\ Len(x) = n
                               /\ \A i \in 1 .. n : x[i] = unsent[i]
    BY <1>3, CutIs
  <2>3. Passed' = p \o x
    <3>1. Passed' = buf \o (stream \o x)
      BY <1>2, <2>2 DEF Passed, Tcp!Write
    <3>2. p = buf \o stream
      BY <2>1 DEF Passed
    <3>. QED  BY <1>3, <2>2, <3>1, <3>2, UnitsAssociate
  <2>4. /\ Len(p) \in Nat /\ Len(Passed') = Len(p) + n
        /\ \A i \in 1 .. Len(p) + n : Passed'[i] = IF i <= Len(p) THEN p[i] ELSE x[i - Len(p)]
    BY <2>2, <2>3, LenProperties, ConcatProperties
  <2>. SUFFICES ASSUME NEW i \in 1 .. Len(Passed'), NEW u, u = Passed'[i], u[2] = FrameLen(u[1])
                PROVE  \E j \in DOMAIN accepted' : u[1] = accepted'[j]
    BY DEF EndsAreAccepted, IsAccepted, FrameLen
  <2>5. CASE i <= Len(p)
    <3>1. i \in 1 .. Len(p) /\ u = p[i]
      BY <1>3, <2>4, <2>5
    <3>2. IsAccepted(u[1])
      BY <2>1, <3>1 DEF OrderInv, EndsAreAccepted
    <3>. QED  BY <1>6, <3>2 DEF IsAccepted
  <2>6. CASE ~ (i <= Len(p))
    <3>0. i \in 1 .. Len(p) + n
      BY <2>4
    <3>1. PICK k \in 1 .. n : k = i - Len(p)
      <4>1. i - Len(p) \in 1 .. n
        BY <1>3, <2>4, <2>6, <3>0
      <4>. QED  BY <4>1
    <3>2. u = unsent[k] /\ k \in 1 .. Len(unsent) /\ k \in Nat
      BY <1>3, <2>2, <2>4, <2>6, <3>0, <3>1
    <3>3. u = <<next - 1, FrameLen(next - 1) - Len(unsent) + k>>
      BY <1>3, <3>2
    <3>4. FrameLen(next - 1) - Len(unsent) + k = FrameLen(next - 1)
      BY <3>3
    <3>5. n = Len(unsent)
      BY <1>3, <3>1, <3>2, <3>4
    <3>. QED  BY <1>1, <1>7, <3>3, <3>5 DEF IsAccepted
  <2>. QED  BY <2>5, <2>6
<1>9. Tcp!ReceivedInOrder'
  BY <1>1, <1>6 DEF OrderInv, Tcp!ReceivedInOrder, IsAccepted
<1>. QED  BY <1>1, <1>5, <1>8, <1>9, SameBacklog DEF OrderInv

LEMMA ArriveKeepsOrder ==
  ASSUME OrderInv, Tcp!Arrive \/ Tcp!Read
  PROVE  OrderInv'
<1>. USE DEF Tcp!tcp_receiver, Tcp!tcp_sender
<1>1. /\ Tcp!TcpTypeOK' /\ Backlog' = Backlog /\ Passed' = Passed
      /\ UNCHANGED <<next, unsent, accepted, received>>
  BY LinkTypes, MovesKeepBacklog DEF Tcp!Arrive, Tcp!Read, Passed, Backlog
<1>2. SendInProgress' /\ EndsAreAccepted' /\ Tcp!ReceivedInOrder'
  BY <1>1 DEF OrderInv, SendInProgress, EndsAreAccepted, IsAccepted, Tcp!ReceivedInOrder
<1>. QED  BY <1>1, <1>2, SameBacklog DEF OrderInv

(* The end of the backlog is lost. *)
LEMMA LoseEnd ==
  ASSUME OrderInv, Tcp!TcpTypeOK', NEW n \in 0 .. Len(stream),
         stream' = SubSeq(stream, 1, n), unsent' = <<>>,
         UNCHANGED <<next, accepted, buf, received>>
  PROVE  OrderInv'
<1>1. /\ buf \in Seq(Units) /\ stream \in Seq(Units) /\ unsent \in Seq(Units)
      /\ Len(buf) \in Nat /\ Len(stream) \in Nat /\ Len(unsent) \in Nat
      /\ Len(Passed) = Len(buf) + Len(stream)
      /\ Len(Backlog) = Len(buf) + Len(stream) + Len(unsent)
      /\ \A i \in 1 .. Len(Passed) : Backlog[i] = Passed[i]
  BY TcpTypes DEF OrderInv
<1>2. PICK x \in Seq(Units) : /\ x = SubSeq(stream, 1, n) /\ Len(x) = n
                             /\ \A i \in 1 .. n : x[i] = stream[i]
  BY <1>1, CutIs
<1>3. Passed' = buf \o x /\ Backlog' = buf \o x
  <2>1. buf \o x \in Seq(Units)
    BY <1>1, ConcatProperties
  <2>2. (buf \o x) \o <<>> = buf \o x
    BY <2>1, ConcatEmptySeq
  <2>. QED  BY <1>2, <2>2 DEF Passed, Backlog
<1>4. /\ Len(buf \o x) = Len(buf) + n
      /\ \A i \in 1 .. Len(buf) + n : (buf \o x)[i] = IF i <= Len(buf) THEN buf[i] ELSE x[i - Len(buf)]
  BY <1>1, <1>2, ConcatProperties
<1>5. \A i \in 1 .. Len(buf) + Len(stream) :
        Passed[i] = IF i <= Len(buf) THEN buf[i] ELSE stream[i - Len(buf)]
  BY <1>1, ConcatProperties DEF Passed
<1>6. \A i \in 1 .. Len(buf) + n : (buf \o x)[i] = Passed[i]
  <2>. TAKE i \in 1 .. Len(buf) + n
  <2>1. i \in 1 .. Len(buf) + Len(stream) /\ (~ (i <= Len(buf)) => i - Len(buf) \in 1 .. n)
    BY <1>1
  <2>. QED  BY <1>2, <1>4, <1>5, <2>1
<1>7. \A i \in 1 .. Len(Backlog') : Backlog'[i] = Backlog[0 + i]
  <2>. TAKE i \in 1 .. Len(Backlog')
  <2>1. i \in 1 .. Len(buf) + n /\ i \in 1 .. Len(Passed) /\ 0 + i = i
    BY <1>1, <1>3, <1>4
  <2>. QED  BY <1>1, <1>3, <1>6, <2>1
<1>8. 0 + Len(Backlog') <= Len(Backlog) /\ 0 \in Nat
  BY <1>1, <1>3, <1>4
<1>9. UnitsInOrder' /\ ReceivedAreBehind'
  BY <1>7, <1>8, PartKeepsOrder
<1>10. EndsAreAccepted'
  <2>1. ASSUME NEW i \in 1 .. Len(Passed')
        PROVE  i \in 1 .. Len(Passed) /\ Passed'[i] = Passed[i]
    <3>1. i \in 1 .. Len(buf) + n /\ i \in 1 .. Len(Passed)
      BY <1>1, <1>3, <1>4
    <3>. QED  BY <1>3, <1>6, <3>1
  <2>. QED  BY <2>1 DEF OrderInv, EndsAreAccepted, IsAccepted
<1>11. SendInProgress' /\ Tcp!ReceivedInOrder'
  BY DEF OrderInv, SendInProgress, Tcp!ReceivedInOrder
<1>. QED  BY <1>9, <1>10, <1>11 DEF OrderInv

(* What the receiver has read so far is taken or thrown away. *)
LEMMA BufGoes ==
  ASSUME OrderInv, Tcp!TcpTypeOK', buf' = <<>>, UNCHANGED <<stream, unsent, next>>
  PROVE  /\ Len(buf) + Len(Backlog') = Len(Backlog)
         /\ \A i \in 1 .. Len(Backlog') : Backlog'[i] = Backlog[Len(buf) + i]
         /\ UnitsInOrder' /\ SendInProgress'
         /\ received' = received => ReceivedAreBehind'
         /\ accepted' = accepted => EndsAreAccepted'
<1>1. /\ buf \in Seq(Units) /\ stream \in Seq(Units) /\ unsent \in Seq(Units)
      /\ Len(buf) \in Nat /\ Len(stream) \in Nat /\ Len(unsent) \in Nat
      /\ Len(Passed) = Len(buf) + Len(stream)
      /\ Len(Backlog) = Len(buf) + Len(stream) + Len(unsent)
      /\ \A i \in 1 .. Len(Passed) : Backlog[i] = Passed[i]
  BY TcpTypes DEF OrderInv
<1>2. PICK x \in Seq(Units) : x = stream \o unsent
  BY <1>1, ConcatProperties
<1>3. Passed' = stream /\ Backlog' = x
  <2>1. <<>> \o stream = stream
    BY <1>1, ConcatEmptySeq
  <2>. QED  BY <1>2, <2>1 DEF Passed, Backlog
<1>4. Backlog = buf \o x
  BY <1>1, <1>2, UnitsAssociate DEF Passed, Backlog
<1>5. Len(x) = Len(stream) + Len(unsent)
  BY <1>1, <1>2, ConcatProperties
<1>6. \A i \in 1 .. Len(buf) + Len(x) : (buf \o x)[i] = IF i <= Len(buf) THEN buf[i] ELSE x[i - Len(buf)]
  BY <1>1, ConcatProperties
<1>7. /\ Len(buf) + Len(Backlog') = Len(Backlog)
      /\ \A i \in 1 .. Len(Backlog') : Backlog'[i] = Backlog[Len(buf) + i]
  <2>1. ASSUME NEW i \in 1 .. Len(x)
        PROVE  x[i] = (buf \o x)[Len(buf) + i]
    <3>1. /\ Len(buf) + i \in 1 .. Len(buf) + Len(x) /\ ~ (Len(buf) + i <= Len(buf))
          /\ (Len(buf) + i) - Len(buf) = i
      BY <1>1, <1>5
    <3>. QED  BY <1>6, <3>1
  <2>. QED  BY <1>1, <1>3, <1>4, <1>5, <2>1
<1>8. UnitsInOrder' /\ (received' = received => ReceivedAreBehind')
  <2>1. Len(buf) + Len(Backlog') <= Len(Backlog) /\ Len(Backlog) \in Nat
    BY <1>1, <1>7
  <2>. QED  BY <1>1, <1>7, <2>1, PartKeepsOrder
<1>9. ASSUME accepted' = accepted
      PROVE  EndsAreAccepted'
  <2>1. \A i \in 1 .. Len(buf) + Len(stream) :
          Passed[i] = IF i <= Len(buf) THEN buf[i] ELSE stream[i - Len(buf)]
    BY <1>1, ConcatProperties DEF Passed
  <2>2. ASSUME NEW i \in 1 .. Len(stream)
        PROVE  Len(buf) + i \in 1 .. Len(Passed) /\ stream[i] = Passed[Len(buf) + i]
    <3>1. /\ Len(buf) + i \in 1 .. Len(buf) + Len(stream) /\ ~ (Len(buf) + i <= Len(buf))
          /\ (Len(buf) + i) - Len(buf) = i
      BY <1>1
    <3>. QED  BY <1>1, <2>1, <3>1
  <2>. QED  BY <1>3, <1>9, <2>2 DEF OrderInv, EndsAreAccepted, IsAccepted
<1>10. SendInProgress'
  BY DEF OrderInv, SendInProgress
<1>. QED  BY <1>7, <1>8, <1>9, <1>10

LEMMA GetPayloadKeepsOrder ==
  ASSUME OrderInv, Tcp!GetPayload
  PROVE  OrderInv'
<1>. USE DEF Tcp!tcp_sender
<1>1. /\ Tcp!TcpTypeOK' /\ buf' = <<>> /\ UNCHANGED <<stream, unsent, next, accepted>>
  BY ReceiverTypes DEF Tcp!GetPayload
<1>2. /\ \A i \in 1 .. Len(Backlog') : Backlog'[i] = Backlog[Len(buf) + i]
      /\ Len(buf) + Len(Backlog') = Len(Backlog)
      /\ UnitsInOrder' /\ SendInProgress' /\ EndsAreAccepted'
      /\ received' = received => ReceivedAreBehind'
  BY <1>1, BufGoes
<1>3. CASE received' = received
  <2>1. Tcp!ReceivedInOrder'
    BY <1>1, <1>3 DEF OrderInv, Tcp!ReceivedInOrder
  <2>. QED  BY <1>1, <1>2, <1>3, <2>1 DEF OrderInv
<1>4. CASE received' # received
  <2>1. PICK m \in Tcp!Messages : received' = Append(received, m) /\ Tcp!IsSuffix(Tcp!Payload(m), buf)
    BY <1>4 DEF Tcp!GetPayload, Tcp!Decodes
  <2>2. /\ received \in Seq(Tcp!Messages) /\ buf \in Seq(Units) /\ Len(buf) \in Nat
        /\ Len(Passed) = Len(buf) + Len(stream) /\ Len(stream) \in Nat
        /\ Len(Backlog) = Len(buf) + Len(stream) + Len(unsent) /\ Len(unsent) \in Nat
        /\ \A i \in 1 .. Len(Passed) : Backlog[i] = Passed[i]
        /\ Backlog \in Seq(Units) /\ stream \in Seq(Units)
    BY TcpTypes DEF OrderInv
  <2>3. /\ Len(received) \in Nat /\ Len(received') = Len(received) + 1
        /\ DOMAIN received = 1 .. Len(received) /\ DOMAIN received' = 1 .. Len(received) + 1
        /\ \A k \in 1 .. Len(received) : received'[k] = received[k]
        /\ received'[Len(received) + 1] = m
    BY <2>1, <2>2, AppendProperties, LenProperties
  <2>4. PICK l \in Nat \ {0} : l = Len(buf) /\ buf[l] = <<m, FrameLen(m)>>
    <3>1. /\ Tcp!Payload(m) \in Seq(Units) /\ Tcp!Payload(m) # <<>>
          /\ Len(Tcp!Payload(m)) = Length[m] /\ Length[m] \in 1 .. Length[m]
          /\ \A i \in 1 .. Length[m] : Tcp!Payload(m)[i] = <<m, LenUnits + i>>
      BY PayloadIs, MessagesAre
    <3>2. Len(buf) \in Nat \ {0} /\ buf[Len(buf)] = Tcp!Payload(m)[Length[m]]
      BY <2>1, <2>2, <3>1, SuffixEnds
    <3>. QED  BY <3>1, <3>2 DEF FrameLen
  <2>5. l \in 1 .. Len(Passed) /\ l \in 1 .. Len(Backlog) /\ Passed[l] = <<m, FrameLen(m)>>
        /\ Backlog[l] = <<m, FrameLen(m)>>
    <3>1. l \in 1 .. Len(buf) + Len(stream) /\ l <= Len(buf)
      BY <2>2, <2>4
    <3>2. Passed[l] = buf[l]
      BY <2>2, <3>1, ConcatProperties DEF Passed
    <3>. QED  BY <2>2, <2>4, <3>1, <3>2
  <2>6. IsAccepted(m)
    <3>1. Passed[l][1] = m /\ Passed[l][2] = FrameLen(m)
      BY <2>5
    <3>. QED  BY <2>5, <3>1 DEF OrderInv, EndsAreAccepted
  <2>7. /\ \A k \in 1 .. Len(received) : received[k] < m /\ received[k] < next
        /\ m < next
    <3>1. Backlog[l][1] = m
      BY <2>5
    <3>. QED  BY <2>5, <3>1 DEF OrderInv, ReceivedAreBehind
  <2>8. Tcp!ReceivedInOrder'
    <3>1. ASSUME NEW i \in DOMAIN received' PROVE \E j \in DOMAIN accepted : received'[i] = accepted[j]
      <4>1. CASE i = Len(received) + 1
        BY <2>3, <2>6, <4>1 DEF IsAccepted
      <4>2. CASE i # Len(received) + 1
        BY <2>3, <4>2 DEF OrderInv, Tcp!ReceivedInOrder
      <4>. QED  BY <4>1, <4>2
    <3>2. ASSUME NEW i \in DOMAIN received', NEW j \in DOMAIN received', i < j
          PROVE  received'[i] < received'[j]
      <4>1. i \in 1 .. Len(received) /\ received'[i] = received[i]
        BY <2>3, <3>2
      <4>2. CASE j = Len(received) + 1
        BY <2>3, <2>7, <4>1, <4>2
      <4>3. CASE j # Len(received) + 1
        BY <2>3, <3>2, <4>1, <4>3 DEF OrderInv, Tcp!ReceivedInOrder
      <4>. QED  BY <4>2, <4>3
    <3>. QED  BY <1>1, <3>1, <3>2 DEF Tcp!ReceivedInOrder
  <2>9. ReceivedAreBehind'
    <3>1. \A k \in 1 .. Len(received') : received'[k] < next
      BY <2>3, <2>7
    <3>2. ASSUME NEW i \in 1 .. Len(Backlog')
          PROVE  /\ Backlog'[i][1] < next
                 /\ \A k \in 1 .. Len(received') : received'[k] < Backlog'[i][1]
      <4>0. Len(Backlog') \in Nat
        BY <1>2, <2>2
      <4>1. l + i \in 1 .. Len(Backlog) /\ l < l + i /\ Backlog'[i] = Backlog[l + i]
        BY <1>2, <2>2, <2>4, <4>0
      <4>2. PICK u \in Units : u = Backlog[l + i]
        BY <2>2, <4>1, ElementOfSeq
      <4>3. Precedes(<<m, FrameLen(m)>>, u)
        BY <2>5, <4>1, <4>2 DEF OrderInv, UnitsInOrder
      <4>4. /\ u[1] \in Nat /\ u[2] \in 1 .. FrameLen(u[1]) /\ FrameLen(u[1]) \in Nat
            /\ m \in Nat
        BY UnitsAre, MessagesAre
      <4>5. m < u[1]
        BY <4>3, <4>4 DEF Precedes
      <4>6. u[1] < next /\ \A k \in 1 .. Len(received) : received[k] < u[1]
        BY <4>1, <4>2 DEF OrderInv, ReceivedAreBehind
      <4>7. \A k \in 1 .. Len(received') : received'[k] < u[1]
        BY <2>3, <4>5, <4>6
      <4>. QED  BY <4>1, <4>2, <4>6, <4>7
    <3>. QED  BY <1>1, <3>1, <3>2 DEF ReceivedAreBehind
  <2>. QED  BY <1>1, <1>2, <2>8, <2>9 DEF OrderInv
<1>. QED  BY <1>3, <1>4

LEMMA OrderStep ==
  ASSUME OrderInv, [Tcp!TcpNext]_tcp_vars
  PROVE  OrderInv'
<1>. USE DEF Tcp!tcp_sender, Tcp!tcp_receiver
<1>1. CASE UNCHANGED tcp_vars
  <2>1. UNCHANGED <<next, unsent, accepted, stream, arrived, ended, at, need, buf, received, damaged>>
    BY <1>1 DEF tcp_vars
  <2>2. Tcp!TcpTypeOK'
    BY <2>1 DEF OrderInv, Tcp!TcpTypeOK
  <2>3. Passed' = Passed /\ Backlog' = Backlog
    BY <2>1 DEF Passed, Backlog
  <2>4. SendInProgress' /\ EndsAreAccepted' /\ Tcp!ReceivedInOrder'
    BY <2>1, <2>3 DEF OrderInv, SendInProgress, EndsAreAccepted, IsAccepted, Tcp!ReceivedInOrder
  <2>. QED  BY <2>1, <2>2, <2>3, <2>4, SameBacklog DEF OrderInv
<1>2. CASE Tcp!SendFails \/ Tcp!Hangup
  <2>1. PICK n \in 0 .. Len(stream) : /\ stream' = SubSeq(stream, 1, n) /\ unsent' = <<>>
                                    /\ UNCHANGED <<next, accepted, buf, received>>
    <3>1. CASE Tcp!SendFails
      <4>1. stream \in Seq(Units) /\ Len(stream) \in 0 .. Len(stream)
        BY TcpTypes DEF OrderInv
      <4>2. SubSeq(stream, 1, Len(stream)) = stream
        BY <4>1, SubSeqFull
      <4>. QED  BY <3>1, <4>1, <4>2 DEF Tcp!SendFails
    <3>2. CASE Tcp!Hangup
      BY <3>2 DEF Tcp!Hangup
    <3>. QED  BY <1>2, <3>1, <3>2
  <2>. QED  BY <1>2, <2>1, SenderTypes, LinkTypes, LoseEnd
<1>3. CASE Tcp!WouldBlock \/ Tcp!UnexpectedEof \/ Tcp!GetLength
  <2>1. /\ Tcp!TcpTypeOK' /\ buf' = <<>>
        /\ UNCHANGED <<stream, unsent, next, received, accepted>>
    BY <1>3, ReceiverTypes DEF Tcp!WouldBlock, Tcp!UnexpectedEof, Tcp!GetLength
  <2>2. Tcp!ReceivedInOrder'
    BY <2>1 DEF OrderInv, Tcp!ReceivedInOrder
  <2>. QED  BY <2>1, <2>2, BufGoes DEF OrderInv
<1>. QED
  BY <1>1, <1>2, <1>3, SendKeepsOrder, WriteKeepsOrder, ArriveKeepsOrder, GetPayloadKeepsOrder
     DEF Tcp!TcpNext, Tcp!SenderStep, Tcp!ReceiverStep

LEMMA OrderInit == Tcp!TcpInit => OrderInv
<1>. SUFFICES ASSUME Tcp!TcpInit PROVE OrderInv
  OBVIOUS
<1>1. Tcp!TcpTypeOK
  <2>1. <<>> \in Seq(Units) /\ <<>> \in Seq(Tcp!Messages) /\ Len(<<>>) = 0
    BY EmptySeq
  <2>2. 1 \in 1 .. Len(Length) + 1
    BY MessagesAre
  <2>3. unsent \in Seq(Units) /\ stream \in Seq(Units) /\ buf \in Seq(Units)
    BY <2>1 DEF Tcp!TcpInit
  <2>4. Len(stream) = 0
    BY <2>1 DEF Tcp!TcpInit
  <2>5. arrived \in 0 .. Len(stream) /\ Len(stream) <= Capacity
    BY <2>4, StreamAssumption DEF Tcp!TcpInit
  <2>. QED  BY <2>1, <2>2, <2>3, <2>5 DEF Tcp!TcpInit, Tcp!TcpTypeOK, Units
<1>2. Passed = <<>> /\ Backlog = <<>>
  BY DEF Tcp!TcpInit, Passed, Backlog
<1>. QED
  BY <1>1, <1>2 DEF Tcp!TcpInit, OrderInv, SendInProgress, UnitsInOrder, ReceivedAreBehind,
                    EndsAreAccepted, Tcp!ReceivedInOrder

-----------------------------------------------------------------------------
(* The bytes of some messages, and what of them the receiver is yet to read. *)
Frames(p) == [i \in DOMAIN p |-> Tcp!Frame(p[i])]
Bytes(p)  == Tcp!FlattenSeq(Frames(p))

Sending == IF unsent = <<>> THEN <<>> ELSE <<next - 1>>
Waiting == SubSeq(accepted, Len(received) + 1, Len(accepted))
Pending == Waiting \o Sending
Held    == IF at = "payload" THEN Tcp!LengthOf(Head(Pending)) ELSE <<>>

Whole ==
  /\ Tcp!IsPrefix(received, accepted)
  /\ at = "payload" => Pending # <<>> /\ need = Length[Head(Pending)]
  /\ Held \o Backlog = Bytes(Pending)

FrameInv == ~ damaged /\ ~ ended => Whole

LEMMA FramesTyped ==
  ASSUME NEW p \in Seq(Tcp!Messages)
  PROVE  /\ Frames(p) \in Seq(Seq(Units)) /\ Len(Frames(p)) = Len(p)
         /\ \A i \in 1 .. Len(p) : Frames(p)[i] = Tcp!Frame(p[i])
<1>1. Len(p) \in Nat /\ DOMAIN p = 1 .. Len(p)
  BY LenProperties
<1>2. \A i \in 1 .. Len(p) : Tcp!Frame(p[i]) \in Seq(Units)
  BY ElementOfSeq, FrameIs
<1>3. Frames(p) \in [1 .. Len(p) -> Seq(Units)]
  BY <1>1, <1>2 DEF Frames
<1>. QED  BY <1>1, <1>3 DEF Frames

LEMMA BytesEmpty == Bytes(<<>>) = <<>>
<1>1. Frames(<<>>) = <<>>
  <2>1. <<>> \in Seq(Tcp!Messages) /\ Len(<<>>) = 0
    BY EmptySeq
  <2>. QED  BY <2>1, FramesTyped, EmptySeq
<1>. QED  BY <1>1, FlattenEmpty DEF Bytes

LEMMA BytesTyped ==
  ASSUME NEW p \in Seq(Tcp!Messages)
  PROVE  Bytes(p) \in Seq(Units)
BY FramesTyped, FlattenTyped DEF Bytes

LEMMA BytesAppend ==
  ASSUME NEW p \in Seq(Tcp!Messages), NEW m \in Tcp!Messages
  PROVE  Bytes(Append(p, m)) = Bytes(p) \o Tcp!Frame(m)
<1>1. PICK q \in Seq(Tcp!Messages) : q = Append(p, m)
  BY AppendProperties
<1>2. /\ Len(p) \in Nat /\ Len(q) = Len(p) + 1 /\ q[Len(p) + 1] = m
      /\ \A i \in 1 .. Len(p) : q[i] = p[i]
  BY <1>1, AppendProperties, LenProperties
<1>3. PICK f \in Seq(Seq(Units)) : f = Frames(p) /\ Len(f) = Len(p)
                                 /\ \A i \in 1 .. Len(p) : f[i] = Tcp!Frame(p[i])
  BY FramesTyped
<1>4. PICK x \in Seq(Units) : x = Tcp!Frame(m)
  BY FrameIs
<1>5. PICK h \in Seq(Seq(Units)) : h = Append(f, x) /\ Len(h) = Len(p) + 1
        /\ (\A i \in 1 .. Len(p) : h[i] = f[i]) /\ h[Len(p) + 1] = x
  <2>1. /\ Append(f, x) \in Seq(Seq(Units)) /\ Len(Append(f, x)) = Len(f) + 1
        /\ \A i \in 1 .. Len(f) : Append(f, x)[i] = f[i]
        /\ Append(f, x)[Len(f) + 1] = x
    BY ONLY f \in Seq(Seq(Units)), x \in Seq(Units), AppendProperties
  <2>. QED  BY <1>3, <2>1
<1>6. Frames(q) = h
  <2>1. /\ Frames(q) \in Seq(Seq(Units)) /\ Len(Frames(q)) = Len(p) + 1
        /\ \A i \in 1 .. Len(p) + 1 : Frames(q)[i] = Tcp!Frame(q[i])
    BY <1>2, FramesTyped
  <2>2. \A i \in 1 .. Len(p) + 1 : Frames(q)[i] = h[i]
    <3>. TAKE i \in 1 .. Len(p) + 1
    <3>1. CASE i = Len(p) + 1
      BY <1>2, <1>4, <1>5, <2>1, <3>1
    <3>2. CASE i # Len(p) + 1
      <4>1. i \in 1 .. Len(p)
        BY <1>2, <3>2
      <4>. QED  BY <1>2, <1>3, <1>5, <2>1, <4>1
    <3>. QED  BY <3>1, <3>2
  <2>. QED  BY <1>5, <2>1, <2>2, SeqEqual
<1>. QED  BY <1>1, <1>3, <1>4, <1>5, <1>6, FlattenAppend DEF Bytes

LEMMA BytesHead ==
  ASSUME NEW p \in Seq(Tcp!Messages), p # <<>>
  PROVE  Bytes(p) = Tcp!Frame(Head(p)) \o Bytes(Tail(p))
<1>1. /\ Tail(p) \in Seq(Tcp!Messages) /\ Len(Tail(p)) = Len(p) - 1 /\ Len(p) \in Nat \ {0}
      /\ \A i \in 1 .. Len(Tail(p)) : Tail(p)[i] = p[i + 1]
      /\ Head(p) = p[1]
  BY HeadTailProperties, EmptySeq
<1>2. PICK f \in Seq(Seq(Units)) : f = Frames(p) /\ Len(f) = Len(p)
                                 /\ \A i \in 1 .. Len(p) : f[i] = Tcp!Frame(p[i])
  BY FramesTyped
<1>3. f # <<>>
  BY <1>1, <1>2, EmptySeq
<1>4. /\ Tail(f) \in Seq(Seq(Units)) /\ Len(Tail(f)) = Len(p) - 1
      /\ \A i \in 1 .. Len(p) - 1 : Tail(f)[i] = f[i + 1]
      /\ Head(f) = f[1]
  BY <1>2, <1>3, HeadTailProperties
<1>5. Head(f) = Tcp!Frame(Head(p))
  BY <1>1, <1>2, <1>4
<1>6. Tail(f) = Frames(Tail(p))
  <2>1. /\ Frames(Tail(p)) \in Seq(Seq(Units)) /\ Len(Frames(Tail(p))) = Len(p) - 1
        /\ \A i \in 1 .. Len(p) - 1 : Frames(Tail(p))[i] = Tcp!Frame(Tail(p)[i])
    BY <1>1, FramesTyped
  <2>2. \A i \in 1 .. Len(p) - 1 : Tail(f)[i] = Frames(Tail(p))[i]
    <3>. TAKE i \in 1 .. Len(p) - 1
    <3>1. i + 1 \in 1 .. Len(p)
      BY <1>1
    <3>. QED  BY <1>1, <1>2, <1>4, <2>1, <3>1
  <2>. QED  BY <1>4, <2>1, <2>2, SeqEqual
<1>. QED  BY <1>2, <1>3, <1>5, <1>6, FlattenHead DEF Bytes

LEMMA SplitsAlike ==
  ASSUME NEW a \in Seq(Units), NEW b \in Seq(Units), NEW c \in Seq(Units), NEW d \in Seq(Units),
         a \o b = c \o d, Len(a) = Len(c)
  PROVE  a = c /\ b = d
<1>1. /\ Len(a \o b) = Len(a) + Len(b)
      /\ \A i \in 1 .. Len(a) + Len(b) :
           (a \o b)[i] = IF i <= Len(a) THEN a[i] ELSE b[i - Len(a)]
  BY ConcatProperties
<1>2. /\ Len(c \o d) = Len(c) + Len(d)
      /\ \A i \in 1 .. Len(c) + Len(d) :
           (c \o d)[i] = IF i <= Len(c) THEN c[i] ELSE d[i - Len(c)]
  BY ConcatProperties
<1>3. Len(a) \in Nat /\ Len(b) \in Nat /\ Len(c) \in Nat /\ Len(d) \in Nat
  BY LenProperties
<1>4. Len(b) = Len(d)
  BY <1>1, <1>2, <1>3
<1>5. \A i \in 1 .. Len(a) : a[i] = c[i]
  <2>. TAKE i \in 1 .. Len(a)
  <2>1. i \in 1 .. Len(a) + Len(b) /\ i \in 1 .. Len(c) + Len(d) /\ i <= Len(a) /\ i <= Len(c)
    BY <1>3, <1>4
  <2>. QED  BY <1>1, <1>2, <2>1
<1>6. \A i \in 1 .. Len(b) : b[i] = d[i]
  <2>. TAKE i \in 1 .. Len(b)
  <2>1. PICK k \in 1 .. Len(a) + Len(b) : k = Len(a) + i
    <3>1. Len(a) + i \in 1 .. Len(a) + Len(b)
      BY <1>3
    <3>. QED  BY <3>1
  <2>2. k \in 1 .. Len(c) + Len(d) /\ ~ (k <= Len(a)) /\ ~ (k <= Len(c)) /\ k - Len(a) = i
        /\ k - Len(c) = i
    BY <1>3, <1>4, <2>1
  <2>3. (a \o b)[k] = b[i] /\ (c \o d)[k] = d[i]
    BY <1>1, <1>2, <2>1, <2>2
  <2>. QED  BY <2>3
<1>7. a = c
  BY <1>5, SeqEqual
<1>. QED  BY <1>4, <1>6, <1>7, SeqEqual

LEMMA PrefixIs ==
  ASSUME NEW r \in Seq(Tcp!Messages), NEW a \in Seq(Tcp!Messages)
  PROVE  Tcp!IsPrefix(r, a) <=> Len(r) <= Len(a) /\ \A i \in 1 .. Len(r) : r[i] = a[i]
<1>1. Len(r) \in Nat /\ Len(a) \in Nat /\ Len(r) \in 0 .. Len(r)
  BY LenProperties
<1>2. SubSeq(r, 1, Len(r)) = r
  BY SubSeqFull
<1>3. CASE Len(r) <= Len(a)
  <2>1. /\ SubSeq(a, 1, Len(r)) \in Seq(Tcp!Messages) /\ Len(SubSeq(a, 1, Len(r))) = Len(r)
        /\ \A i \in 1 .. Len(r) : SubSeq(a, 1, Len(r))[i] = a[i]
    BY <1>1, <1>3, CutOf
  <2>2. (\A i \in 1 .. Len(r) : r[i] = a[i]) => r = SubSeq(a, 1, Len(r))
    BY <2>1, SeqEqual
  <2>. QED  BY <1>2, <1>3, <2>1, <2>2 DEF Tcp!IsPrefix
<1>. QED  BY <1>3 DEF Tcp!IsPrefix

(* What is left of a after its first k elements, when an element is added  *)
(* and when one more is taken.                                             *)
LEMMA RestOf ==
  ASSUME NEW T, NEW a \in Seq(T), NEW k \in 0 .. Len(a)
  PROVE  /\ \A x \in T : SubSeq(Append(a, x), k + 1, Len(a) + 1)
                           = Append(SubSeq(a, k + 1, Len(a)), x)
         /\ k < Len(a) => /\ SubSeq(a, k + 1, Len(a)) # <<>>
                          /\ Head(SubSeq(a, k + 1, Len(a))) = a[k + 1]
                          /\ SubSeq(a, k + 1 + 1, Len(a)) = Tail(SubSeq(a, k + 1, Len(a)))
<1>1. Len(a) \in Nat /\ k \in Nat
  BY LenProperties
<1>2. PICK w \in Seq(T) : /\ w = SubSeq(a, k + 1, Len(a)) /\ Len(w) = Len(a) - k
                          /\ \A i \in 1 .. Len(a) - k : w[i] = a[k + i]
  <2>1. /\ SubSeq(a, k + 1, Len(a)) \in Seq(T) /\ Len(SubSeq(a, k + 1, Len(a))) = Len(a) - k
        /\ \A i \in 1 .. Len(a) - k : SubSeq(a, k + 1, Len(a))[i] = a[k + i]
    BY CutOf
  <2>. QED  BY <2>1
<1>3. ASSUME NEW x \in T
      PROVE  SubSeq(Append(a, x), k + 1, Len(a) + 1) = Append(w, x)
  <2>1. PICK b \in Seq(T) : /\ b = Append(a, x) /\ Len(b) = Len(a) + 1 /\ b[Len(a) + 1] = x
                            /\ \A i \in 1 .. Len(a) : b[i] = a[i]
    <3>1. /\ Append(a, x) \in Seq(T) /\ Len(Append(a, x)) = Len(a) + 1
          /\ Append(a, x)[Len(a) + 1] = x
          /\ \A i \in 1 .. Len(a) : Append(a, x)[i] = a[i]
      BY AppendProperties
    <3>. QED  BY <3>1
  <2>2. PICK v \in Seq(T) : /\ v = SubSeq(b, k + 1, Len(b)) /\ Len(v) = Len(b) - k
                            /\ \A i \in 1 .. Len(b) - k : v[i] = b[k + i]
    <3>1. k \in 0 .. Len(b)
      BY <1>1, <2>1
    <3>2. /\ SubSeq(b, k + 1, Len(b)) \in Seq(T) /\ Len(SubSeq(b, k + 1, Len(b))) = Len(b) - k
          /\ \A i \in 1 .. Len(b) - k : SubSeq(b, k + 1, Len(b))[i] = b[k + i]
      BY <3>1, CutOf
    <3>. QED  BY <3>2
  <2>3. PICK u \in Seq(T) : /\ u = Append(w, x) /\ Len(u) = Len(w) + 1 /\ u[Len(w) + 1] = x
                            /\ \A i \in 1 .. Len(w) : u[i] = w[i]
    <3>1. /\ Append(w, x) \in Seq(T) /\ Len(Append(w, x)) = Len(w) + 1
          /\ Append(w, x)[Len(w) + 1] = x
          /\ \A i \in 1 .. Len(w) : Append(w, x)[i] = w[i]
      BY AppendProperties
    <3>. QED  BY <3>1
  <2>4. Len(v) = Len(u)
    BY <1>1, <1>2, <2>1, <2>2, <2>3
  <2>5. \A i \in 1 .. Len(v) : v[i] = u[i]
    <3>. TAKE i \in 1 .. Len(v)
    <3>1. v[i] = b[k + i]
      BY <1>1, <2>1, <2>2
    <3>2. CASE i = Len(w) + 1
      <4>1. k + i = Len(a) + 1
        BY <1>1, <1>2, <3>2
      <4>. QED  BY <2>1, <2>3, <3>1, <3>2, <4>1
    <3>3. CASE i # Len(w) + 1
      <4>0. PICK n \in Nat : n = Len(w)
        BY LenProperties
      <4>1. k + n = Len(a) /\ i \in 1 .. n + 1
        <5>1. Len(v) = n + 1 /\ k + n = Len(a)
          BY <1>1, <1>2, <2>3, <2>4, <4>0
        <5>. QED  BY <5>1
      <4>2. i \in 1 .. n
        BY <3>3, <4>0, <4>1
      <4>3. i \in 1 .. Len(w) /\ i \in 1 .. Len(a) - k /\ k + i \in 1 .. Len(a)
        BY <1>1, <4>0, <4>1, <4>2
      <4>. QED  BY <1>2, <2>1, <2>3, <3>1, <4>3
    <3>. QED  BY <3>2, <3>3
  <2>6. v = u
    BY <2>4, <2>5, SeqEqual
  <2>. QED  BY <2>1, <2>2, <2>3, <2>6
<1>4. ASSUME k < Len(a)
      PROVE  /\ w # <<>> /\ Head(w) = a[k + 1]
             /\ SubSeq(a, k + 1 + 1, Len(a)) = Tail(w)
  <2>1. w # <<>> /\ Head(w) = a[k + 1]
    <3>1. Len(w) # 0 /\ w[1] = a[k + 1]
      BY <1>1, <1>2, <1>4
    <3>2. w # <<>>
      BY <3>1, EmptySeq
    <3>. QED  BY <3>1, <3>2
  <2>2. /\ Tail(w) \in Seq(T) /\ Len(Tail(w)) = Len(w) - 1
        /\ \A i \in 1 .. Len(Tail(w)) : Tail(w)[i] = w[i + 1]
    BY <2>1, HeadTailProperties
  <2>3. PICK v \in Seq(T) : /\ v = SubSeq(a, k + 1 + 1, Len(a)) /\ Len(v) = Len(a) - (k + 1)
                            /\ \A i \in 1 .. Len(a) - (k + 1) : v[i] = a[(k + 1) + i]
    <3>1. PICK n \in 0 .. Len(a) : n = k + 1
      BY <1>1, <1>4
    <3>2. /\ SubSeq(a, n + 1, Len(a)) \in Seq(T) /\ Len(SubSeq(a, n + 1, Len(a))) = Len(a) - n
          /\ \A i \in 1 .. Len(a) - n : SubSeq(a, n + 1, Len(a))[i] = a[n + i]
      BY CutOf
    <3>. QED  BY <3>1, <3>2
  <2>4. \A i \in 1 .. Len(v) : v[i] = Tail(w)[i]
    <3>. TAKE i \in 1 .. Len(v)
    <3>1. /\ i \in 1 .. Len(Tail(w)) /\ i + 1 \in 1 .. Len(a) - k /\ i \in 1 .. Len(a) - (k + 1)
          /\ k + (i + 1) = (k + 1) + i
      BY <1>1, <1>2, <2>2, <2>3
    <3>. QED  BY <1>2, <2>2, <2>3, <3>1
  <2>5. Len(v) = Len(Tail(w))
    BY <1>1, <1>2, <2>2, <2>3
  <2>. QED  BY <2>1, <2>2, <2>3, <2>4, <2>5, SeqEqual
<1>. QED  BY <1>2, <1>3, <1>4

LEMMA LengthOfIs ==
  ASSUME NEW m \in Tcp!Messages
  PROVE  /\ Tcp!LengthOf(m) \in Seq(Units) /\ Len(Tcp!LengthOf(m)) = LenUnits
         /\ Tcp!LengthOf(m)[1] = <<m, 1>>
         /\ Tcp!LengthOf(m) \o Tcp!Payload(m) = Tcp!Frame(m)
<1>1. /\ Tcp!Frame(m) \in Seq(Units) /\ Len(Tcp!Frame(m)) = FrameLen(m)
      /\ \A i \in 1 .. FrameLen(m) : Tcp!Frame(m)[i] = <<m, i>>
      /\ Length[m] \in Nat \ {0} /\ LenUnits \in Nat \ {0}
  BY FrameIs, MessagesAre
<1>2. /\ LenUnits \in 0 .. Len(Tcp!Frame(m)) /\ 1 \in 1 .. LenUnits /\ 1 \in 1 .. FrameLen(m)
      /\ Len(Tcp!Frame(m)) = LenUnits + Length[m]
  BY <1>1 DEF FrameLen
<1>3. /\ Tcp!LengthOf(m) \in Seq(Units) /\ Len(Tcp!LengthOf(m)) = LenUnits
      /\ Tcp!LengthOf(m)[1] = Tcp!Frame(m)[1]
      /\ Tcp!LengthOf(m) \o Tcp!Payload(m) = Tcp!Frame(m)
  <2>1. PICK f \in Seq(Units) : f = Tcp!Frame(m)
    BY <1>1
  <2>2. /\ SubSeq(f, 1, LenUnits) \in Seq(Units) /\ Len(SubSeq(f, 1, LenUnits)) = LenUnits
        /\ \A i \in 1 .. LenUnits : SubSeq(f, 1, LenUnits)[i] = f[i]
        /\ SubSeq(f, 1, LenUnits) \o SubSeq(f, LenUnits + 1, Len(f)) = f
    BY <1>2, <2>1, CutIs
  <2>. QED  BY <1>2, <2>1, <2>2 DEF Tcp!LengthOf, Tcp!Payload
<1>. QED  BY <1>1, <1>2, <1>3

LEMMA WholeTypes ==
  ASSUME OrderInv, Whole
  PROVE  /\ accepted \in Seq(Tcp!Messages) /\ received \in Seq(Tcp!Messages)
         /\ Len(received) \in 0 .. Len(accepted)
         /\ \A k \in 1 .. Len(received) : received[k] = accepted[k]
         /\ Waiting \in Seq(Tcp!Messages) /\ Pending \in Seq(Tcp!Messages)
         /\ unsent = <<>> => Pending = Waiting
         /\ unsent # <<>> => /\ next - 1 \in Tcp!Messages
                             /\ Pending = Append(Waiting, next - 1)
         /\ Held \in Seq(Units)
         /\ at = "payload" => /\ Head(Pending) \in Tcp!Messages
                              /\ Held = Tcp!LengthOf(Head(Pending))
<1>1. accepted \in Seq(Tcp!Messages) /\ received \in Seq(Tcp!Messages)
  BY TcpTypes DEF OrderInv
<1>2. Len(received) \in 0 .. Len(accepted) /\ \A k \in 1 .. Len(received) : received[k] = accepted[k]
  <2>1. Len(received) \in Nat /\ Len(accepted) \in Nat
    BY <1>1, LenProperties
  <2>. QED  BY <1>1, <2>1, PrefixIs DEF Whole
<1>3. Waiting \in Seq(Tcp!Messages)
  BY <1>1, <1>2, CutOf DEF Waiting
<1>4. CASE unsent = <<>>
  <2>1. Pending = Waiting
    BY <1>3, <1>4, ConcatEmptySeq DEF Pending, Sending
  <2>2. Pending \in Seq(Tcp!Messages) /\ (unsent = <<>> => Pending = Waiting)
    BY <1>3, <2>1
  <2>. QED  BY <1>1, <1>2, <1>3, <1>4, <2>2, LengthOfIs, HeadTailProperties, EmptySeq DEF Whole, Held
<1>5. CASE unsent # <<>>
  <2>1. next - 1 \in Tcp!Messages
    BY <1>5 DEF OrderInv, SendInProgress
  <2>2. Pending = Append(Waiting, next - 1)
    <3>1. Append(Waiting, next - 1) = Waiting \o <<next - 1>>
      BY <1>3, <2>1, AppendIsConcat
    <3>. QED  BY <1>5, <3>1 DEF Pending, Sending
  <2>3. Pending \in Seq(Tcp!Messages)
    BY <1>3, <2>1, <2>2, AppendProperties
  <2>. QED  BY <1>1, <1>2, <1>3, <1>5, <2>1, <2>2, <2>3, LengthOfIs, HeadTailProperties, EmptySeq
            DEF Whole, Held
<1>. QED  BY <1>4, <1>5

LEMMA SendKeepsFrames ==
  ASSUME OrderInv, Whole, Tcp!Send
  PROVE  Whole'
<1>. USE DEF Tcp!tcp_receiver
<1>1. /\ next \in Tcp!Messages /\ unsent = <<>> /\ unsent' = Tcp!Frame(next)
      /\ next' = next + 1 /\ UNCHANGED <<accepted, stream, at, need, buf, received>>
  BY DEF Tcp!Send
<1>2. PICK w \in Seq(Tcp!Messages) : w = Waiting /\ w = Pending
  BY <1>1, WholeTypes
<1>3. PICK f \in Seq(Units) : f = Tcp!Frame(next) /\ f # <<>>
  <2>1. Tcp!Frame(next) \in Seq(Units) /\ Len(Tcp!Frame(next)) # 0
    BY <1>1, FrameIs, MessagesAre
  <2>. QED  BY <2>1, EmptySeq
<1>4. PICK p \in Seq(Units) : p = Passed /\ p = Backlog
  <2>1. Passed \in Seq(Units)
    BY TcpTypes DEF OrderInv
  <2>. QED  BY <1>1, <2>1, ConcatEmptySeq DEF Backlog
<1>5. Passed' = p /\ Backlog' = p \o f
  BY <1>1, <1>3, <1>4 DEF Passed, Backlog
<1>6. Pending' = Append(w, next)
  <2>1. next' - 1 = next
    BY <1>1, MessagesAre
  <2>2. Waiting' = w /\ Sending' = <<next>>
    BY <1>1, <1>2, <1>3, <2>1 DEF Waiting, Sending
  <2>. QED  BY <1>1, <2>2, AppendIsConcat DEF Pending
<1>7. PICK h \in Seq(Units) : h = Held /\ h \o p = Bytes(w)
  BY <1>2, <1>4, WholeTypes DEF Whole
<1>8. Append(w, next) # <<>> /\ (w # <<>> => Head(Append(w, next)) = Head(w))
  <2>1. Append(w, next) # <<>>
    BY <1>1, AppendProperties
  <2>. QED  BY <2>1, HeadTailAppend
<1>9. at = "payload" => w # <<>>
  BY <1>2 DEF Whole
<1>10. Held' = h
  BY <1>1, <1>2, <1>6, <1>7, <1>8, <1>9 DEF Held
<1>11. h \o (p \o f) = Bytes(Append(w, next))
  <2>1. (h \o p) \o f = Bytes(Append(w, next))
    BY <1>1, <1>3, <1>7, BytesAppend
  <2>. QED  BY <2>1, UnitsAssociate
<1>. QED  BY <1>1, <1>2, <1>5, <1>6, <1>8, <1>9, <1>10, <1>11 DEF Whole

LEMMA WriteKeepsFrames ==
  ASSUME OrderInv, Whole, Tcp!Write
  PROVE  Whole'
<1>. USE DEF Tcp!tcp_receiver
<1>1. PICK n \in 1 .. Len(unsent) :
           /\ accepted' = IF n = Len(unsent) THEN Append(accepted, next - 1) ELSE accepted
           /\ n = Len(unsent) <=> unsent' = <<>>
  BY WriteIs
<1>2. /\ unsent # <<>> /\ next' = next /\ Backlog' = Backlog
      /\ UNCHANGED <<at, need, buf, received>>
  BY MovesKeepBacklog DEF Tcp!Write
<1>3. PICK m \in Tcp!Messages : m = next - 1
  BY <1>2, WholeTypes
<1>4. /\ accepted \in Seq(Tcp!Messages) /\ received \in Seq(Tcp!Messages)
      /\ Len(received) \in 0 .. Len(accepted)
      /\ \A k \in 1 .. Len(received) : received[k] = accepted[k]
      /\ Waiting \in Seq(Tcp!Messages) /\ Pending = Append(Waiting, m)
  BY <1>2, <1>3, WholeTypes
<1>5. Len(accepted) \in Nat /\ Len(received) \in Nat
  BY <1>4, LenProperties
<1>6. Pending' = Pending /\ Tcp!IsPrefix(received, accepted')
  <2>1. CASE n = Len(unsent)
    <3>1. PICK a \in Seq(Tcp!Messages) : /\ a = accepted' /\ Len(a) = Len(accepted) + 1
                                         /\ \A i \in 1 .. Len(accepted) : a[i] = accepted[i]
      <4>1. /\ Append(accepted, m) \in Seq(Tcp!Messages)
            /\ Len(Append(accepted, m)) = Len(accepted) + 1
            /\ \A i \in 1 .. Len(accepted) : Append(accepted, m)[i] = accepted[i]
        BY <1>4, AppendProperties
      <4>. QED  BY <1>1, <1>3, <2>1, <4>1
    <3>2. Waiting' = Append(Waiting, m) /\ Sending' = <<>>
      <4>1. SubSeq(Append(accepted, m), Len(received) + 1, Len(accepted) + 1) = Append(Waiting, m)
        BY <1>4, RestOf DEF Waiting
      <4>. QED  BY <1>1, <1>2, <1>3, <2>1, <3>1, <4>1 DEF Waiting, Sending
    <3>3. Pending' = Append(Waiting, m)
      <4>1. Append(Waiting, m) \in Seq(Tcp!Messages)
        BY <1>4, AppendProperties
      <4>. QED  BY <3>2, <4>1, ConcatEmptySeq DEF Pending
    <3>4. Tcp!IsPrefix(received, a)
      <4>1. Len(received) <= Len(a) /\ \A k \in 1 .. Len(received) : received[k] = a[k]
        BY <1>4, <1>5, <3>1
      <4>. QED  BY <1>4, <4>1, PrefixIs
    <3>. QED  BY <1>4, <3>1, <3>3, <3>4
  <2>2. CASE n # Len(unsent)
    <3>1. accepted' = accepted /\ unsent' # <<>>
      BY <1>1, <2>2
    <3>. QED  BY <1>2, <3>1 DEF Whole, Pending, Waiting, Sending
  <2>. QED  BY <2>1, <2>2
<1>7. Held' = Held
  BY <1>2, <1>6 DEF Held
<1>. QED  BY <1>2, <1>6, <1>7 DEF Whole

LEMMA SendFailsKeepsFrames ==
  ASSUME OrderInv, Whole, Tcp!SendFails, unsent = Tcp!Frame(next - 1)
  PROVE  Whole'
<1>. USE DEF Tcp!tcp_receiver
<1>1. /\ unsent # <<>> /\ unsent' = <<>>
      /\ UNCHANGED <<next, accepted, stream, at, need, buf, received>>
  BY DEF Tcp!SendFails
<1>2. PICK m \in Tcp!Messages : m = next - 1 /\ Pending = Append(Waiting, m)
  BY <1>1, WholeTypes
<1>3. PICK w \in Seq(Tcp!Messages) : w = Waiting
  BY WholeTypes
<1>4. Pending' = w /\ Passed' = Passed
  <2>1. Waiting' = w /\ Sending' = <<>>
    BY <1>1, <1>3 DEF Waiting, Sending
  <2>. QED  BY <1>1, <2>1, ConcatEmptySeq DEF Pending, Passed
<1>5. PICK f \in Seq(Units) : f = unsent /\ f = Tcp!Frame(m)
  BY <1>2, FrameIs
<1>6. PICK p \in Seq(Units) : p = Passed
  BY TcpTypes DEF OrderInv
<1>7. PICK h \in Seq(Units) : h = Held
  BY WholeTypes
<1>8. h \o p = Bytes(w)
  <2>1. h \o (p \o f) = Bytes(w) \o f
    BY <1>2, <1>3, <1>5, <1>6, <1>7, BytesAppend DEF Whole, Backlog
  <2>2. (h \o p) \o f = Bytes(w) \o f
    BY <2>1, UnitsAssociate
  <2>3. h \o p \in Seq(Units) /\ Bytes(w) \in Seq(Units)
    BY ConcatProperties, BytesTyped
  <2>4. PICK x, y \in Seq(Units) : x = h \o p /\ y = Bytes(w)
    BY <2>3
  <2>5. Len(x \o f) = Len(x) + Len(f) /\ Len(y \o f) = Len(y) + Len(f) /\ x \o f = y \o f
    BY <2>2, <2>4, ConcatProperties
  <2>6. Len(x) = Len(y)
    BY <2>5, LenProperties
  <2>. QED  BY <2>4, <2>5, <2>6, SplitsAlike
<1>9. Backlog' = p
  BY <1>1, <1>4, <1>6, ConcatEmptySeq DEF Backlog
<1>10. at = "payload" => w # <<>>
  <2>. SUFFICES ASSUME at = "payload", w = <<>> PROVE FALSE
    OBVIOUS
  <2>1. Len(h) = LenUnits /\ Len(h \o p) = Len(h) + Len(p) /\ Len(p) \in Nat
    BY <1>7, WholeTypes, LengthOfIs, ConcatProperties, LenProperties
  <2>2. Len(h \o p) = 0
    BY <1>8, BytesEmpty, EmptySeq
  <2>. QED  BY <2>1, <2>2, MessagesAre
<1>11. Held' = h /\ (w # <<>> => Head(w) = Head(Pending))
  <2>1. w # <<>> => Head(w) = Head(Pending)
    BY <1>2, <1>3, HeadTailAppend
  <2>. QED  BY <1>1, <1>4, <1>7, <1>10, <2>1 DEF Held
<1>. QED  BY <1>1, <1>4, <1>8, <1>9, <1>10, <1>11 DEF Whole

LEMMA GetLengthKeepsFrames ==
  ASSUME OrderInv, Whole, Tcp!GetLength
  PROVE  Whole'
<1>. USE DEF Tcp!tcp_sender
<1>1. /\ at = "length" /\ at' = "payload" /\ Len(buf) = LenUnits /\ buf' = <<>>
      /\ need' \in Tcp!Lengths(buf)
      /\ UNCHANGED <<next, unsent, accepted, stream, received>>
  BY DEF Tcp!GetLength
<1>2. PICK b, s, u \in Seq(Units) : b = buf /\ s = stream /\ u = unsent
  BY TcpTypes DEF OrderInv
<1>3. PICK p \in Seq(Tcp!Messages) : p = Pending
  BY WholeTypes
<1>4. PICK x \in Seq(Units) : x = s \o u
  BY ConcatProperties
<1>5. Backlog = b \o x /\ Backlog' = x
  <2>1. Backlog = (b \o s) \o u
    BY <1>2 DEF Backlog, Passed
  <2>2. Backlog' = (<<>> \o s) \o u
    BY <1>1, <1>2 DEF Backlog, Passed
  <2>. QED  BY <1>4, <2>1, <2>2, UnitsAssociate, ConcatEmptySeq
<1>6. b \o x = Bytes(p)
  <2>1. <<>> \o (b \o x) = b \o x
    BY ConcatProperties, ConcatEmptySeq
  <2>. QED  BY <1>1, <1>3, <1>5, <2>1 DEF Whole, Held
<1>7. /\ Len(b) = LenUnits /\ Len(b \o x) = Len(b) + Len(x) /\ Len(x) \in Nat
      /\ LenUnits \in Nat \ {0}
  BY <1>1, <1>2, ConcatProperties, LenProperties, MessagesAre
<1>8. p # <<>>
  <2>. SUFFICES ASSUME p = <<>> PROVE FALSE
    OBVIOUS
  <2>1. Len(b \o x) = 0
    BY <1>6, BytesEmpty, EmptySeq
  <2>. QED  BY <1>7, <2>1
<1>9. PICK m \in Tcp!Messages : m = Head(p)
  BY <1>8, HeadTailProperties
<1>10. b = Tcp!LengthOf(m)
  <2>1. PICK l, y, t \in Seq(Units) : l = Tcp!LengthOf(m) /\ y = Tcp!Payload(m) /\ t = Bytes(Tail(p))
    <3>1. Tail(p) \in Seq(Tcp!Messages)
      BY <1>8, HeadTailProperties
    <3>. QED  BY <3>1, LengthOfIs, PayloadIs, BytesTyped
  <2>2. b \o x = (l \o y) \o t
    BY <1>6, <1>8, <1>9, <2>1, BytesHead, LengthOfIs
  <2>3. b \o x = l \o (y \o t) /\ y \o t \in Seq(Units)
    BY <2>2, UnitsAssociate, ConcatProperties
  <2>4. Len(b) = Len(l)
    BY <1>7, <2>1, LengthOfIs
  <2>. QED  BY <2>1, <2>3, <2>4, SplitsAlike
<1>11. need' = Length[m]
  <2>1. \A k \in Tcp!Messages : b = Tcp!LengthOf(k) => k = m
    <3>. SUFFICES ASSUME NEW k \in Tcp!Messages, b = Tcp!LengthOf(k) PROVE k = m
      OBVIOUS
    <3>1. b[1] = <<m, 1>> /\ b[1] = <<k, 1>>
      BY <1>10, LengthOfIs
    <3>. QED  BY <3>1
  <2>. QED  BY <1>1, <1>2, <1>10, <2>1 DEF Tcp!Lengths
<1>12. Pending' = p /\ Held' = b
  <2>1. Pending' = p
    BY <1>1, <1>3 DEF Pending, Waiting, Sending
  <2>. QED  BY <1>1, <1>9, <1>10, <2>1 DEF Held
<1>. QED  BY <1>1, <1>5, <1>6, <1>8, <1>9, <1>11, <1>12 DEF Whole

LEMMA DecodesItself ==
  ASSUME NEW m \in Tcp!Messages
  PROVE  Tcp!Decodes(Tcp!Payload(m)) = {m}
<1>1. PICK p \in Seq(Units) : p = Tcp!Payload(m) /\ p # <<>>
  BY PayloadIs
<1>2. Tcp!IsSuffix(p, p)
  <2>1. PICK l \in Nat : l = Len(p)
    BY LenProperties
  <2>2. Tcp!Reverse(p) = [i \in 1 .. l |-> p[(l - i) + 1]]
    BY <2>1 DEF Tcp!Reverse
  <2>3. Len(Tcp!Reverse(p)) = l
    BY <2>1, <2>2
  <2>. QED  BY <2>3 DEF Tcp!IsSuffix, Tcp!IsPrefix
<1>3. ASSUME NEW k \in Tcp!Messages, Tcp!IsSuffix(Tcp!Payload(k), p)
      PROVE  k = m
  <2>1. p[Len(p)] = Tcp!Payload(k)[Len(Tcp!Payload(k))]
    BY <1>3, PayloadIs, SuffixEnds
  <2>2. /\ Tcp!Payload(k)[Len(Tcp!Payload(k))] = <<k, LenUnits + Length[k]>>
        /\ p[Len(p)] = <<m, LenUnits + Length[m]>>
    <3>1. \A j \in Tcp!Messages :
            /\ Len(Tcp!Payload(j)) = Length[j] /\ Length[j] \in 1 .. Length[j]
            /\ \A i \in 1 .. Length[j] : Tcp!Payload(j)[i] = <<j, LenUnits + i>>
      BY PayloadIs, MessagesAre
    <3>. QED  BY <1>1, <3>1
  <2>. QED  BY <2>1, <2>2
<1>. QED  BY <1>1, <1>2, <1>3 DEF Tcp!Decodes

LEMMA GetPayloadKeepsFrames ==
  ASSUME OrderInv, Whole, Tcp!GetPayload
  PROVE  Whole'
<1>. USE DEF Tcp!tcp_sender
<1>1. /\ at = "payload" /\ Len(buf) = need /\ buf' = <<>>
      /\ UNCHANGED <<next, unsent, accepted, stream>>
  BY DEF Tcp!GetPayload
<1>2. PICK b, s, u \in Seq(Units) : b = buf /\ s = stream /\ u = unsent
  BY TcpTypes DEF OrderInv
<1>3. PICK p \in Seq(Tcp!Messages) : p = Pending /\ p # <<>>
  BY <1>1, WholeTypes DEF Whole
<1>4. PICK m \in Tcp!Messages : m = Head(p) /\ Held = Tcp!LengthOf(m) /\ Len(b) = Length[m]
  BY <1>1, <1>2, <1>3, WholeTypes DEF Whole
<1>5. PICK x \in Seq(Units) : x = s \o u /\ Len(x) = Len(s) + Len(u)
  BY ConcatProperties
<1>6. Backlog = b \o x /\ Backlog' = x
  <2>1. Backlog = (b \o s) \o u
    BY <1>2 DEF Backlog, Passed
  <2>2. Backlog' = (<<>> \o s) \o u
    BY <1>1, <1>2 DEF Backlog, Passed
  <2>. QED  BY <1>5, <2>1, <2>2, UnitsAssociate, ConcatEmptySeq
<1>7. Tail(p) \in Seq(Tcp!Messages)
  BY <1>3, HeadTailProperties
<1>8. b = Tcp!Payload(m) /\ x = Bytes(Tail(p))
  <2>1. PICK l, y, t \in Seq(Units) : l = Tcp!LengthOf(m) /\ y = Tcp!Payload(m) /\ t = Bytes(Tail(p))
    BY <1>7, LengthOfIs, PayloadIs, BytesTyped
  <2>2. l \o (b \o x) = (l \o y) \o t
    BY <1>3, <1>4, <1>6, <2>1, BytesHead, LengthOfIs DEF Whole
  <2>3. l \o (b \o x) = l \o (y \o t) /\ b \o x \in Seq(Units) /\ y \o t \in Seq(Units)
    BY <2>2, UnitsAssociate, ConcatProperties
  <2>4. b \o x = y \o t
    BY <2>3, SplitsAlike
  <2>5. Len(b) = Len(y)
    BY <1>4, <2>1, PayloadIs
  <2>. QED  BY <2>1, <2>4, <2>5, SplitsAlike
<1>9. received' = Append(received, m) /\ at' = "length"
  BY <1>2, <1>8, DecodesItself DEF Tcp!GetPayload
<1>10. PICK w \in Seq(Tcp!Messages) : w = Waiting
  BY WholeTypes
<1>11. w # <<>>
  <2>. SUFFICES ASSUME w = <<>> PROVE FALSE
    OBVIOUS
  <2>1. unsent # <<>> /\ p = Append(w, next - 1)
    BY <1>3, <1>10, WholeTypes
  <2>2. Tail(p) = <<>>
    BY <2>1, <1>10, HeadTailAppend
  <2>3. Len(x) = 0
    BY <1>8, <2>2, BytesEmpty, EmptySeq
  <2>. QED  BY <1>2, <1>5, <2>1, <2>3, LenProperties, EmptySeq
<1>12. /\ accepted \in Seq(Tcp!Messages) /\ received \in Seq(Tcp!Messages)
       /\ Len(received) \in 0 .. Len(accepted)
       /\ \A k \in 1 .. Len(received) : received[k] = accepted[k]
  BY WholeTypes
<1>13. PICK n \in 0 .. Len(accepted) : n = Len(received) /\ n < Len(accepted)
  <2>1. Len(received) \in Nat /\ Len(accepted) \in Nat
    BY <1>12, LenProperties
  <2>2. Len(received) = Len(accepted) => SubSeq(accepted, Len(received) + 1, Len(accepted)) = <<>>
    BY <2>1, <1>12, SubSeqEmpty
  <2>. QED  BY <1>10, <1>11, <1>12, <2>1, <2>2 DEF Waiting
<1>14. /\ Head(w) = accepted[n + 1] /\ SubSeq(accepted, n + 1 + 1, Len(accepted)) = Tail(w)
  BY <1>10, <1>12, <1>13, RestOf DEF Waiting
<1>15. m = accepted[n + 1] /\ Tail(p) = IF unsent = <<>> THEN Tail(w) ELSE Append(Tail(w), next - 1)
  <2>1. CASE unsent = <<>>
    BY <1>3, <1>4, <1>10, <1>14, <2>1, WholeTypes
  <2>2. CASE unsent # <<>>
    <3>1. p = Append(w, next - 1)
      BY <1>3, <1>10, <2>2, WholeTypes
    <3>2. Head(p) = Head(w) /\ Tail(p) = Append(Tail(w), next - 1)
      BY <1>11, <3>1, HeadTailAppend
    <3>. QED  BY <1>4, <1>14, <2>2, <3>2
  <2>. QED  BY <2>1, <2>2
<1>16. PICK r \in Seq(Tcp!Messages) : /\ r = received' /\ Len(r) = n + 1 /\ r[n + 1] = m
                                      /\ \A k \in 1 .. n : r[k] = received[k]
  <2>1. /\ Append(received, m) \in Seq(Tcp!Messages) /\ Len(Append(received, m)) = n + 1
        /\ Append(received, m)[n + 1] = m
        /\ \A k \in 1 .. n : Append(received, m)[k] = received[k]
    BY <1>12, <1>13, AppendProperties
  <2>. QED  BY <1>9, <2>1
<1>17. Tcp!IsPrefix(received', accepted')
  <2>1. n \in Nat /\ Len(accepted) \in Nat
    BY <1>12, <1>13, LenProperties
  <2>2. Len(r) <= Len(accepted)
    BY <1>13, <1>16, <2>1
  <2>3. \A k \in 1 .. Len(r) : r[k] = accepted[k]
    <3>. TAKE k \in 1 .. Len(r)
    <3>1. CASE k = n + 1
      BY <1>15, <1>16, <3>1
    <3>2. CASE k # n + 1
      BY <1>12, <1>13, <1>16, <2>1, <3>2
    <3>. QED  BY <3>1, <3>2
  <2>. QED  BY <1>1, <1>12, <1>16, <2>2, <2>3, PrefixIs
<1>18. Pending' = Tail(p)
  <2>1. Waiting' = Tail(w)
    BY <1>1, <1>14, <1>16 DEF Waiting
  <2>2. Tail(w) \in Seq(Tcp!Messages)
    BY <1>11, HeadTailProperties
  <2>3. CASE unsent = <<>>
    BY <1>1, <1>15, <2>1, <2>2, <2>3, ConcatEmptySeq DEF Pending, Sending
  <2>4. CASE unsent # <<>>
    <3>1. Append(Tail(w), next - 1) = Tail(w) \o <<next - 1>>
      BY <2>2, <2>4, WholeTypes, AppendIsConcat
    <3>. QED  BY <1>1, <1>15, <2>1, <2>4, <3>1 DEF Pending, Sending
  <2>. QED  BY <2>3, <2>4
<1>19. Held' \o Backlog' = Bytes(Pending')
  <2>1. Held' = <<>>
    BY <1>9 DEF Held
  <2>. QED  BY <1>6, <1>8, <1>18, <2>1, ConcatEmptySeq
<1>. QED  BY <1>9, <1>17, <1>19 DEF Whole

LEMMA FrameStep ==
  ASSUME OrderInv, FrameInv, [Tcp!TcpNext]_tcp_vars
  PROVE  FrameInv'
<1>. USE DEF Tcp!tcp_sender, Tcp!tcp_receiver
<1>. SUFFICES ASSUME ~ damaged', ~ ended' PROVE Whole'
  BY DEF FrameInv
<1>1. CASE \/ UNCHANGED tcp_vars \/ Tcp!Arrive \/ Tcp!Read
  <2>1. ~ damaged /\ ~ ended /\ UNCHANGED <<next, unsent, accepted, at, need, received>>
    BY <1>1 DEF tcp_vars, Tcp!Arrive, Tcp!Read
  <2>2. Backlog' = Backlog
    BY <1>1, MovesKeepBacklog DEF tcp_vars, Tcp!Arrive, Backlog, Passed
  <2>3. Pending' = Pending /\ Held' = Held
    BY <2>1 DEF Pending, Waiting, Sending, Held
  <2>. QED  BY <2>1, <2>2, <2>3 DEF FrameInv, Whole
<1>2. CASE Tcp!Send
  BY <1>2, SendKeepsFrames DEF FrameInv, Tcp!Send
<1>3. CASE Tcp!Write
  BY <1>3, WriteKeepsFrames DEF FrameInv, Tcp!Write
<1>4. CASE Tcp!SendFails
  BY <1>4, SendFailsKeepsFrames DEF FrameInv, Tcp!SendFails
<1>5. CASE Tcp!Hangup \/ Tcp!WouldBlock \/ Tcp!UnexpectedEof
  BY <1>5 DEF Tcp!Hangup, Tcp!WouldBlock, Tcp!UnexpectedEof
<1>6. CASE Tcp!GetLength
  BY <1>6, GetLengthKeepsFrames DEF FrameInv, Tcp!GetLength
<1>7. CASE Tcp!GetPayload
  BY <1>7, GetPayloadKeepsFrames DEF FrameInv, Tcp!GetPayload
<1>. QED
  BY <1>1, <1>2, <1>3, <1>4, <1>5, <1>6, <1>7 DEF Tcp!TcpNext, Tcp!SenderStep, Tcp!ReceiverStep

LEMMA FrameInit == Tcp!TcpInit => FrameInv
<1>. SUFFICES ASSUME Tcp!TcpInit PROVE Whole
  BY DEF FrameInv
<1>0. <<>> \in Seq(Tcp!Messages) /\ Len(<<>>) = 0
  BY EmptySeq
<1>1. Waiting = <<>>
  <2>1. SubSeq(accepted, Len(received) + 1, Len(accepted)) = <<>>
    BY <1>0, SubSeqEmpty DEF Tcp!TcpInit
  <2>. QED  BY <2>1 DEF Waiting
<1>2. Pending = <<>> /\ Held = <<>> /\ Backlog = <<>>
  BY <1>1 DEF Tcp!TcpInit, Pending, Sending, Held, Backlog, Passed
<1>3. Tcp!IsPrefix(received, accepted)
  BY <1>0 DEF Tcp!TcpInit, Tcp!IsPrefix
<1>. QED  BY <1>2, <1>3, BytesEmpty DEF Tcp!TcpInit, Whole

LEMMA WholeIsFraming == OrderInv /\ FrameInv => Tcp!Framing
<1>. SUFFICES ASSUME OrderInv, Whole
              PROVE  /\ Tcp!IsPrefix(received, accepted)
                     /\ at = "payload" => Pending # <<>> /\ need = Length[Head(Pending)]
                     /\ ((Held \o buf) \o stream) \o unsent = Bytes(Pending)
  BY DEF Tcp!Framing, FrameInv, Pending, Waiting, Sending, Held, Bytes, Frames
<1>1. PICK b, s, u, h \in Seq(Units) : b = buf /\ s = stream /\ u = unsent /\ h = Held
  BY TcpTypes, WholeTypes DEF OrderInv
<1>2. h \o ((b \o s) \o u) = ((h \o b) \o s) \o u
  <2>1. PICK q \in Seq(Units) : q = b \o s
    BY ConcatProperties
  <2>2. h \o (q \o u) = (h \o q) \o u /\ h \o q = (h \o b) \o s
    BY <2>1, UnitsAssociate
  <2>. QED  BY <2>1, <2>2
<1>. QED  BY <1>1, <1>2 DEF Whole, Backlog, Passed

-----------------------------------------------------------------------------
(***************************************************************************)
(* The theorems.                                                           *)
(***************************************************************************)
LEMMA NetworkInvariant == Spec => [](UdpInv /\ ModelledInv /\ OrderInv /\ FrameInv)
<1>1. Init => UdpInv /\ ModelledInv /\ OrderInv /\ FrameInv
  BY UdpInit, ModelledInit, OrderInit, FrameInit DEF Init
<1>2. /\ UdpInv /\ ModelledInv /\ OrderInv /\ FrameInv /\ [Next]_vars
      => (UdpInv /\ ModelledInv /\ OrderInv /\ FrameInv)'
  <2>. SUFFICES ASSUME UdpInv, ModelledInv, OrderInv, FrameInv, [Next]_vars
                PROVE  (UdpInv /\ ModelledInv /\ OrderInv /\ FrameInv)'
    OBVIOUS
  <2>1. /\ [Udp!UdpNext]_udp_vars /\ [Modelled!ModelledNext]_modelled_vars
        /\ [Tcp!TcpNext]_tcp_vars
    BY DEF Next, vars
  <2>. QED  BY <2>1, UdpStep, ModelledStep, OrderStep, FrameStep
<1>. QED  BY <1>1, <1>2, PTL DEF Spec

(* The variables of every transport keep their types, whichever was        *)
(* chosen.                                                                 *)
THEOREM TypeCorrect == Spec => []TypeOK
<1>1. Init => network \in NetworkType
  BY DEF Init
<1>2. network \in NetworkType /\ [Next]_vars => (network \in NetworkType)'
  BY DEF Next, vars
<1>3. Spec => [](network \in NetworkType)
  BY <1>1, <1>2, PTL DEF Spec
<1>4. /\ UdpInv /\ ModelledInv /\ OrderInv /\ FrameInv /\ network \in NetworkType
      => TypeOK
  BY DEF TypeOK, UdpInv, ModelledInv, OrderInv
<1>. QED  BY <1>3, <1>4, NetworkInvariant, PTL

(* In one process: a caller has a channel to which the listener gave the   *)
(* id of a caller that waited in the same round, and its own if it waited  *)
(* alone; nobody has another's channel.                                    *)
THEOREM IdsCorrect == Spec => []IdsAgree
<1>1. UdpInv /\ ModelledInv => IdsAgree
  BY DEF ModelledInv, IdsAgree
<1>. QED  BY <1>1, NetworkInvariant, PTL

(* By UDP: a client's channel leads to a socket of the server that leads   *)
(* back to it and serves it under its id, though its request was repeated, *)
(* answered more than once, or its replies came in any order.              *)
THEOREM PeersCorrect == Spec => []PeersMatch
<1>1. UdpInv /\ ModelledInv => PeersMatch
  BY DEF UdpInv, PeersMatch
<1>. QED  BY <1>1, NetworkInvariant, PTL

(* A call fails only because of a process whose channel has the same id at *)
(* the server, or because the server ended: the channels of other ids are  *)
(* never dropped.                                                          *)
THEOREM FailuresLocal == Spec => []FailuresStayLocal
<1>1. UdpInv /\ ModelledInv => FailuresStayLocal
  <2>1. UdpInv => Udp!UdpFailuresStayLocal
    BY DEF UdpInv, ClientsMatch, Udp!UdpFailuresStayLocal
  <2>. QED  BY <2>1 DEF ModelledInv, FailuresStayLocal
<1>. QED  BY <1>1, NetworkInvariant, PTL

(* By TCP: until a frame is damaged or the connection ends, what the       *)
(* receiver has read, what is on the stream and what is yet to be written  *)
(* are the frames of the messages it is yet to receive, in the order of    *)
(* the sends, however partial writes and short reads cut them.             *)
THEOREM FramingCorrect == Spec => []Framing
<1>1. OrderInv /\ FrameInv => Framing
  BY WholeIsFraming DEF Framing
<1>. QED  BY <1>1, NetworkInvariant, PTL

(* By TCP, damaged frames or not: what is received was sent whole, and     *)
(* never twice or after a message that was sent later.                     *)
THEOREM ReceivedCorrect == Spec => []ReceivedInOrder
<1>1. OrderInv => ReceivedInOrder
  BY DEF OrderInv, ReceivedInOrder
<1>. QED  BY <1>1, NetworkInvariant, PTL

(* By TCP, while the connection lives and no frame was damaged, no message *)
(* is lost: once nothing is under way, every message that send accepted    *)
(* was received.  A frame is damaged only by a send that fails in its      *)
(* middle and by a read that would block in the middle of what it wants.   *)
Drained ==
  unsent = <<>> /\ stream = <<>> /\ buf = <<>> /\ at # "payload"

NothingIsLost == ~ damaged /\ ~ ended /\ Drained => received = accepted

THEOREM NothingLost == Spec => []NothingIsLost
<1>1. ASSUME OrderInv, Whole, Drained
      PROVE  received = accepted
  <2>1. /\ accepted \in Seq(Tcp!Messages) /\ received \in Seq(Tcp!Messages)
        /\ Len(received) \in 0 .. Len(accepted)
        /\ \A k \in 1 .. Len(received) : received[k] = accepted[k]
        /\ Pending \in Seq(Tcp!Messages) /\ Pending = Waiting
    BY <1>1, WholeTypes DEF Drained
  <2>2. Bytes(Pending) = <<>>
    <3>1. <<>> \o <<>> = <<>>
      BY EmptySeq, ConcatEmptySeq
    <3>2. Held = <<>> /\ Backlog = <<>>
      BY <1>1, <3>1 DEF Drained, Held, Backlog, Passed
    <3>. QED  BY <1>1, <3>1, <3>2 DEF Whole
  <2>3. Pending = <<>>
    <3>. SUFFICES ASSUME Pending # <<>> PROVE FALSE
      OBVIOUS
    <3>1. PICK m, p : m = Head(Pending) /\ p = Tail(Pending)
      OBVIOUS
    <3>2. m \in Tcp!Messages /\ p \in Seq(Tcp!Messages)
      BY <2>1, <3>1, HeadTailProperties
    <3>3. PICK f \in Seq(Units), b \in Seq(Units) : f = Tcp!Frame(m) /\ b = Bytes(p)
      BY <3>2, FrameIs, BytesTyped
    <3>4. Len(f) \in Nat \ {0} /\ Len(b) \in Nat
      BY <3>2, <3>3, FrameIs, MessagesAre, LenProperties
    <3>5. f \o b = <<>>
      BY <2>1, <2>2, <3>1, <3>3, BytesHead
    <3>6. Len(f \o b) = Len(f) + Len(b)
      BY <3>3, ConcatProperties
    <3>. QED  BY <3>4, <3>5, <3>6, EmptySeq
  <2>4. Len(received) = Len(accepted)
    <3>1. Len(Waiting) = Len(accepted) - Len(received)
      BY <2>1, CutOf DEF Waiting
    <3>. QED  BY <2>1, <2>3, <3>1, EmptySeq, LenProperties
  <2>. QED  BY <2>1, <2>4, SeqEqual
<1>2. OrderInv /\ FrameInv => NothingIsLost
  BY <1>1 DEF FrameInv, NothingIsLost
<1>. QED  BY <1>2, NetworkInvariant, PTL

(* By TCP: as long as no frame was damaged and the connection lives, what  *)
(* try_recv still wants of a payload, for which it spins, was written or   *)
(* is about to be by a send in progress.                                   *)
PayloadIsUnderWay ==
  at = "payload" /\ ~ damaged /\ ~ ended =>
    need <= Len(buf) + Len(stream) + Len(unsent)

THEOREM PayloadComes == Spec => []PayloadIsUnderWay
<1>1. ASSUME OrderInv, Whole, at = "payload"
      PROVE  need <= Len(buf) + Len(stream) + Len(unsent)
  <2>1. /\ Pending \in Seq(Tcp!Messages) /\ Pending # <<>>
        /\ Head(Pending) \in Tcp!Messages
        /\ Held = Tcp!LengthOf(Head(Pending)) /\ Held \in Seq(Units)
        /\ need = Length[Head(Pending)] /\ Held \o Backlog = Bytes(Pending)
    BY <1>1, WholeTypes DEF Whole
  <2>2. PICK m, p : /\ m = Head(Pending) /\ p = Tail(Pending)
                    /\ m \in Tcp!Messages /\ p \in Seq(Tcp!Messages)
    BY <2>1, HeadTailProperties
  <2>3. PICK f \in Seq(Units), r \in Seq(Units), h \in Seq(Units) :
          /\ f = Tcp!Frame(m) /\ r = Bytes(p) /\ h = Held
          /\ Len(f) = LenUnits + Length[m] /\ Len(h) = LenUnits
    BY <2>1, <2>2, FrameIs, BytesTyped, LengthOfIs DEF FrameLen
  <2>4. PICK b, s, u \in Seq(Units) : b = buf /\ s = stream /\ u = unsent
    BY <1>1, TcpTypes DEF OrderInv
  <2>5. h \o ((b \o s) \o u) = f \o r
    BY <2>1, <2>2, <2>3, <2>4, BytesHead DEF Backlog, Passed
  <2>6. /\ Len(f \o r) = Len(f) + Len(r)
        /\ Len(h \o ((b \o s) \o u)) = Len(h) + (Len(b) + Len(s) + Len(u))
        /\ Len(r) \in Nat /\ Len(b) \in Nat /\ Len(s) \in Nat /\ Len(u) \in Nat
    <3>1. b \o s \in Seq(Units) /\ Len(b \o s) = Len(b) + Len(s)
      BY ConcatProperties
    <3>2. (b \o s) \o u \in Seq(Units) /\ Len((b \o s) \o u) = Len(b \o s) + Len(u)
      BY <3>1, ConcatProperties
    <3>. QED  BY <3>1, <3>2, ConcatProperties, LenProperties
  <2>7. Length[m] \in Nat /\ LenUnits \in Nat
    BY <2>2, MessagesAre, StreamAssumption
  <2>8. LenUnits + (Len(b) + Len(s) + Len(u)) = (LenUnits + Length[m]) + Len(r)
    BY <2>3, <2>5, <2>6
  <2>9. Length[m] <= Len(b) + Len(s) + Len(u)
    <3>1. ASSUME NEW i \in Nat, NEW j \in Nat, NEW k \in Nat, NEW l \in Nat,
                 NEW w \in Nat, NEW n \in Nat, w + (i + j + k) = (w + n) + l
          PROVE  n <= i + j + k
      BY ONLY <3>1
    <3>. QED  BY <2>6, <2>7, <2>8, <3>1
  <2>. QED  BY <2>1, <2>2, <2>4, <2>9
<1>2. OrderInv /\ FrameInv => PayloadIsUnderWay
  BY <1>1 DEF FrameInv, PayloadIsUnderWay
<1>. QED  BY <1>2, NetworkInvariant, PTL

(* In one process: as many ids and channels are under way as callers wait  *)
(* in connect, as long as the listener lives, and who waits for a response *)
(* has it or its request in a queue of its channel until the server drops  *)
(* it: no caller waits for what nobody will do.                            *)
THEOREM CallersGoOn == Spec => []NoCallerForgotten
<1>1. Init => NoCallerForgotten
  BY ForgottenInit DEF Init
<1>2. ModelledInv /\ NoCallerForgotten /\ [Next]_vars => NoCallerForgotten'
  <2>. SUFFICES ASSUME ModelledInv, NoCallerForgotten, [Next]_vars
                PROVE  NoCallerForgotten'
    OBVIOUS
  <2>1. [Modelled!ModelledNext]_modelled_vars
    BY DEF Next, vars
  <2>. QED  BY <2>1, ForgottenStep
<1>. QED  BY <1>1, <1>2, NetworkInvariant, PTL DEF Spec
=============================================================================
