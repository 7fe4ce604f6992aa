-------------------------------- MODULE Echo --------------------------------
(***************************************************************************)
(* The echo service over TCP: processes that connect to one server, share  *)
(* a connection between their threads and call the server through it; the  *)
(* server's poll loop, which the ABD server has too; links that break and  *)
(* processes that end and start again under the same client id.            *)
(***************************************************************************)
EXTENDS Integers, Sequences

CONSTANTS
  Process,     \* the client processes, each with one connection
  Thread,      \* the threads of a process that share its connection
  ClientId,    \* the client id that a process is started with
  MaxCalls,    \* the number of calls that a process makes
  MaxAccepts,  \* how many connections one poll of the server accepts
  Mortal,      \* the processes that may end
  Breakable    \* the processes whose stream the network may break

(* Threads are not named like the places that Places tells apart.          *)
ASSUME EchoAssumption ==
  /\ Thread \cap {"to_server", "to_client", "buffer"} = {}
  /\ MaxCalls \in [Process -> Nat]
  /\ DOMAIN ClientId = Process
  /\ MaxAccepts \in Nat \ {0}
  /\ Mortal \subseteq Process /\ Breakable \subseteq Process

Ids   == {ClientId[p] : p \in Process}
Tags(p) == 0 .. MaxCalls[p] - 1
Call  == UNION {{p} \X Tags(p) : p \in Process}

(* The greetings that the two ends of a stream exchange, before requests   *)
(* and responses.                                                          *)
Greeting == [tag |-> 0, message |-> <<>>]
Message  == [tag : Nat, message : Call \cup {<<>>}]

VARIABLES
  client,      \* what a process is doing
  request_ctr, \* the tag of the next request of a process
  buffered,    \* the responses that a process keeps for another thread
  thread,      \* what each thread is doing
  up,          \* are the two ends of the stream of a process open?
  to_server, to_client,  \* the streams
  backlog,     \* the streams that the server has not accepted
  connected,   \* the streams that the server polls, in any order
  poll,        \* where the server is in its poll: the streams accepted, the
               \*   streams left to serve, the client ids to drop
  status, answer, executions,  \* of each call, see Calls
  disturbed    \* the client ids that lost a stream to the network, or by
               \*   the end of a process

server_vars == <<backlog, connected, poll>>
client_vars == <<client, request_ctr, buffered, thread>>
streams     == <<up, to_server, to_client>>
calls       == <<status, answer, executions>>
vars        == <<server_vars, client_vars, streams, calls, disturbed>>

Idle == [at |-> "idle", tag |-> 0, reply |-> Greeting]

StartPoll == [at |-> "accept", accepts |-> 0, left |-> {}, drop |-> {}]

Init ==
  /\ client      = [p \in Process |-> "absent"]
  /\ request_ctr = [p \in Process |-> 0]
  /\ buffered    = [p \in Process |-> {}]
  /\ thread      = [p \in Process |-> [t \in Thread |-> Idle]]
  /\ up          = [p \in Process |-> FALSE]
  /\ to_server   = [p \in Process |-> <<>>]
  /\ to_client   = [p \in Process |-> <<>>]
  /\ backlog     = <<>>
  /\ connected   = {}
  /\ poll        = StartPoll
  /\ status      = [c \in Call |-> "unused"]
  /\ answer      = [c \in Call |-> <<>>]
  /\ executions  = [c \in Call |-> 0]
  /\ disturbed   = {}

Written(stream, p, m) == [stream EXCEPT ![p] = Append(@, m)]
Consumed(stream, p)   == [stream EXCEPT ![p] = Tail(@)]

Emptied(stream, P)    == [p \in Process |-> IF p \in P THEN <<>> ELSE stream[p]]

(* When a stream closes, the end of what is under way may be lost. *)
Prefixes(s) == {SubSeq(s, 1, n) : n \in 0 .. Len(s)}
Shortened(stream, P) ==
  {s \in [Process -> UNION {Prefixes(stream[p]) : p \in Process}] :
     \A p \in Process : IF p \in P THEN s[p] \in Prefixes(stream[p]) ELSE s[p] = stream[p]}

-----------------------------------------------------------------------------
(* The client: connect.  A process starts only after the one with the same *)
(* id has ended.                                                           *)

Connect(p) ==
  /\ client[p] = "absent"
  /\ \A q \in Process \ {p} :
       ClientId[q] = ClientId[p] => client[q] \in {"absent", "gone"}
  /\ IF poll.at = "stopped"
       THEN /\ client' = [client EXCEPT ![p] = "gone"]
            /\ UNCHANGED <<up, backlog>>
       ELSE /\ client' = [client EXCEPT ![p] = "connected"]
            /\ up' = [up EXCEPT ![p] = TRUE]
            /\ backlog' = Append(backlog, p)
  /\ UNCHANGED <<request_ctr, buffered, thread, to_server, to_client,
                 connected, poll, calls, disturbed>>

Greet(p) ==
  /\ client[p] = "connected"
  /\ \/ /\ client' = [client EXCEPT ![p] = "greeted"]
        /\ to_server' = IF up[p] THEN Written(to_server, p, Greeting) ELSE to_server
     \/ /\ ~ up[p]
        /\ client' = [client EXCEPT ![p] = "gone"]
        /\ UNCHANGED to_server
  /\ UNCHANGED <<request_ctr, buffered, thread, up, to_client, server_vars,
                 calls, disturbed>>

FinishConnect(p) ==
  /\ client[p] = "greeted"
  /\ \/ /\ to_client[p] # <<>>
        /\ to_client' = Consumed(to_client, p)
        /\ client' = [client EXCEPT ![p] = "open"]
     \/ /\ to_client[p] = <<>> /\ ~ up[p]
        /\ client' = [client EXCEPT ![p] = "gone"]
        /\ UNCHANGED to_client
  /\ UNCHANGED <<request_ctr, buffered, thread, up, to_server, server_vars,
                 calls, disturbed>>

-----------------------------------------------------------------------------
(* The client: a call sends its request and then looks, again and again,   *)
(* into the buffer and at the stream.  The lock of the buffer is not held  *)
(* while the stream is read.                                               *)

Goes(p, t, at) == thread' = [thread EXCEPT ![p][t] = [@ EXCEPT !.at = at]]

Returns(p, t, reply) ==
  LET c == <<p, thread[p][t].tag>> IN
  /\ status' = [status EXCEPT ![c] = "answered"]
  /\ answer' = [answer EXCEPT ![c] = reply.message]
  /\ thread' = [thread EXCEPT ![p][t] = Idle]

Invoke(p, t) ==
  LET tag == request_ctr[p] IN
  /\ client[p] = "open"
  /\ thread[p][t].at = "idle"
  /\ tag \in Tags(p)
  /\ request_ctr' = [request_ctr EXCEPT ![p] = tag + 1]
  /\ \/ /\ to_server' = IF up[p]
                          THEN Written(to_server, p, [tag |-> tag, message |-> <<p, tag>>])
                          ELSE to_server
        /\ thread' = [thread EXCEPT ![p][t] = [at |-> "look", tag |-> tag, reply |-> Greeting]]
        /\ status' = [status EXCEPT ![<<p, tag>>] = "pending"]
     \/ /\ ~ up[p]
        /\ status' = [status EXCEPT ![<<p, tag>>] = "failed"]
        /\ UNCHANGED <<to_server, thread>>
  /\ UNCHANGED <<client, buffered, up, to_client, server_vars, answer,
                 executions, disturbed>>

(* try_recv_tag: the buffer. *)
Look(p, t) ==
  /\ thread[p][t].at = "look"
  /\ \/ \E m \in buffered[p] :
          /\ m.tag = thread[p][t].tag
          /\ buffered' = [buffered EXCEPT ![p] = @ \ {m}]
          /\ Returns(p, t, m)
     \/ /\ \A m \in buffered[p] : m.tag # thread[p][t].tag
        /\ Goes(p, t, "receive")
        /\ UNCHANGED <<buffered, status, answer>>
  /\ UNCHANGED <<client, request_ctr, streams, server_vars, executions, disturbed>>

(* try_recv_tag: the stream. *)
AnswersAnyone(p, t, m) == TRUE
Answers(p, t, m) == m.tag = thread[p][t].tag

EmptyOrBroken(p) == to_client[p] = <<>>
Empty(p) == to_client[p] = <<>> /\ up[p]

Receive(p, t) ==
  /\ thread[p][t].at = "receive"
  /\ \/ /\ to_client[p] # <<>>
        /\ to_client' = Consumed(to_client, p)
        /\ LET m == Head(to_client[p]) IN
           \/ Answers(p, t, m) /\ Returns(p, t, m)
           \/ /\ ~ Answers(p, t, m)
              /\ thread' = [thread EXCEPT ![p][t] = [@ EXCEPT !.at = "keep", !.reply = m]]
              /\ UNCHANGED <<status, answer>>
     \/ /\ Empty(p)
        /\ Goes(p, t, "look")
        /\ UNCHANGED <<to_client, status, answer>>
     \/ /\ to_client[p] = <<>> /\ ~ up[p]
        /\ status' = [status EXCEPT ![<<p, thread[p][t].tag>>] = "failed"]
        /\ thread' = [thread EXCEPT ![p][t] = Idle]
        /\ UNCHANGED <<to_client, answer>>
  /\ UNCHANGED <<client, request_ctr, buffered, up, to_server, server_vars,
                 executions, disturbed>>

(* try_recv_tag: a response to another request is kept. *)
BufferKeepsNothing(p, m) == buffered[p]
BufferWith(p, m) == {b \in buffered[p] : b.tag # m.tag} \cup {m}

Keep(p, t) ==
  /\ thread[p][t].at = "keep"
  /\ buffered' = [buffered EXCEPT ![p] = BufferWith(p, thread[p][t].reply)]
  /\ thread' = [thread EXCEPT ![p][t] = [@ EXCEPT !.at = "look", !.reply = Greeting]]
  /\ UNCHANGED <<client, request_ctr, streams, server_vars, calls, disturbed>>

-----------------------------------------------------------------------------
(* The server: poll.                                                       *)

Closing(P) == up' = [p \in Process |-> up[p] /\ p \notin P]

(* The process ends, and with it its streams. *)
Stops ==
  /\ poll' = [StartPoll EXCEPT !.at = "stopped"]
  /\ Closing(Process)
  /\ to_client' \in Shortened(to_client, Process)
  /\ to_server' = Emptied(to_server, Process)
  /\ backlog' = <<>>
  /\ connected' = {}

MayAcceptOneTooMany == poll.at = "accept" /\ poll.accepts <= MaxAccepts
MayAccept == poll.at = "accept" /\ poll.accepts < MaxAccepts

(* try_accept waits for the greeting of the stream it has accepted.        *)
Accept ==
  LET p == Head(backlog) IN
  /\ MayAccept
  /\ backlog # <<>>
  /\ to_server[p] # <<>>
  /\ backlog' = Tail(backlog)
  /\ to_server' = Consumed(to_server, p)
  /\ to_client' = IF up[p] THEN Written(to_client, p, Greeting) ELSE to_client
  /\ connected' = connected \cup {p}
  /\ poll' = [poll EXCEPT !.accepts = @ + 1]
  /\ UNCHANGED <<client_vars, up, calls, disturbed>>

StartServing == poll' = [poll EXCEPT !.at = "serve", !.left = connected]

(* The stream broke: an end of the stream is like no connection at all, a  *)
(* reset ends the server.                                                  *)
AcceptFails ==
  LET p == Head(backlog) IN
  /\ MayAccept
  /\ backlog # <<>>
  /\ ~ up[p]
  /\ \/ /\ backlog' = Tail(backlog)
        /\ to_server' = Emptied(to_server, {p})
        /\ StartServing
        /\ UNCHANGED <<connected, up, to_client>>
     \/ Stops
  /\ UNCHANGED <<client_vars, calls, disturbed>>

AcceptsNoMore ==
  /\ poll.at = "accept"
  /\ backlog = <<>> \/ poll.accepts = MaxAccepts
  /\ StartServing
  /\ UNCHANGED <<backlog, connected, client_vars, streams, calls, disturbed>>

(* One request of each stream is taken, handled and answered.              *)
Serve(p) ==
  LET m == Head(to_server[p]) IN
  /\ poll.at = "serve" /\ p \in poll.left
  /\ to_server[p] # <<>>
  /\ to_server' = Consumed(to_server, p)
  /\ executions' = [executions EXCEPT ![m.message] = @ + 1]
  /\ to_client' = IF up[p] THEN Written(to_client, p, m) ELSE to_client
  /\ \/ poll' = [poll EXCEPT !.left = @ \ {p}]
     \/ /\ ~ up[p]
        /\ poll' = [poll EXCEPT !.left = @ \ {p}, !.drop = @ \cup {ClientId[p]}]
  /\ UNCHANGED <<client_vars, up, backlog, connected, status, answer, disturbed>>

ServeNothing(p) ==
  /\ poll.at = "serve" /\ p \in poll.left
  /\ to_server[p] = <<>>
  /\ poll' = [poll EXCEPT !.left = @ \ {p},
                          !.drop = IF up[p] THEN @ ELSE @ \cup {ClientId[p]}]
  /\ UNCHANGED <<backlog, connected, client_vars, streams, calls, disturbed>>

(* Every stream of a client id that failed is dropped. *)
DroppedOthers == {p \in connected : ClientId[p] \notin poll.drop}
Dropped == {p \in connected : ClientId[p] \in poll.drop}

EndPoll ==
  /\ poll.at = "serve" /\ poll.left = {}
  /\ connected' = connected \ Dropped
  /\ Closing(Dropped)
  /\ to_server' = Emptied(to_server, Dropped)
  /\ to_client' \in Shortened(to_client, Dropped)
  /\ poll' = StartPoll
  /\ UNCHANGED <<backlog, client_vars, calls, disturbed>>

-----------------------------------------------------------------------------
(* The environment.                                                        *)

(* A process ends, in the middle of its calls or when they are done. *)
Exit(p) ==
  /\ p \in Mortal
  /\ client[p] \in {"connected", "greeted", "open"}
  /\ client' = [client EXCEPT ![p] = "gone"]
  /\ thread' = [thread EXCEPT ![p] = [t \in Thread |-> Idle]]
  /\ buffered' = [buffered EXCEPT ![p] = {}]
  /\ Closing({p})
  /\ to_client' = Emptied(to_client, {p})
  /\ to_server' \in Shortened(to_server, {p})
  /\ disturbed' = disturbed \cup {ClientId[p]}
  /\ UNCHANGED <<request_ctr, server_vars, calls>>

(* The network resets a stream. *)
Reset(p) ==
  /\ p \in Breakable
  /\ up[p]
  /\ Closing({p})
  /\ to_client' \in Shortened(to_client, {p})
  /\ to_server' \in Shortened(to_server, {p})
  /\ disturbed' = disturbed \cup {ClientId[p]}
  /\ UNCHANGED <<client_vars, server_vars, calls>>

-----------------------------------------------------------------------------
ServerStep ==
  \/ Accept \/ AcceptFails \/ AcceptsNoMore \/ EndPoll
  \/ \E p \in Process : Serve(p) \/ ServeNothing(p)

ThreadStep(p, t) == Look(p, t) \/ Receive(p, t) \/ Keep(p, t)

ConnectStep(p) == Greet(p) \/ FinishConnect(p)

Next ==
  \/ ServerStep
  \/ \E p \in Process :
       \/ Connect(p) \/ ConnectStep(p) \/ Exit(p) \/ Reset(p)
       \/ \E t \in Thread : Invoke(p, t) \/ ThreadStep(p, t)

(* The server polls for ever, a process that connects and a thread that    *)
(* waits do not pause; nothing has to be called, to break or to end.       *)
Fairness ==
  /\ WF_vars(ServerStep)
  /\ \A p \in Process :
       /\ WF_vars(ConnectStep(p))
       /\ \A t \in Thread : WF_vars(ThreadStep(p, t))

Spec == Init /\ [][Next]_vars /\ Fairness

-----------------------------------------------------------------------------
(* Properties.                                                             *)

ThreadState == [at : {"idle", "look", "receive", "keep"}, tag : Nat, reply : Message]

(* The variables keep their types: streams are sequences of messages, a    *)
(* stream is polled or waits to be accepted, not both.                     *)
TypeOK ==
  /\ client \in [Process -> {"absent", "connected", "greeted", "open", "gone"}]
  /\ request_ctr \in [Process -> Nat]
  /\ \A p \in Process : request_ctr[p] <= MaxCalls[p]
  /\ buffered \in [Process -> SUBSET Message]
  /\ thread \in [Process -> [Thread -> ThreadState]]
  /\ up \in [Process -> BOOLEAN]
  /\ to_server \in [Process -> Seq(Message)]
  /\ to_client \in [Process -> Seq(Message)]
  /\ backlog \in Seq(Process) /\ connected \subseteq Process
  /\ \A i \in DOMAIN backlog : backlog[i] \notin connected
  /\ poll \in [at : {"accept", "serve", "stopped"}, accepts : 0 .. MaxAccepts,
               left : SUBSET connected, drop : SUBSET Ids]
  /\ status \in [Call -> {"unused", "pending", "answered", "failed"}]
  /\ answer \in [Call -> Call \cup {<<>>}]
  /\ executions \in [Call -> Nat]
  /\ disturbed \subseteq Ids

(* While a stream is up, what a waiting thread waits for is at one place,  *)
(* where it will be found: in a stream, in the buffer, or in the hands of  *)
(* another thread that is about to put it there.  Threads that share a     *)
(* BufChannel take each other's responses from the stream.                 *)
Holds(stream, c) == \E i \in DOMAIN stream : stream[i].message = c

Places(c) ==
  LET p == c[1] IN
  {x \in {"to_server", "to_client", "buffer"} \cup Thread :
     CASE x = "to_server" -> Holds(to_server[p], c)
       [] x = "to_client" -> Holds(to_client[p], c)
       [] x = "buffer"    -> \E m \in buffered[p] : m.message = c
       [] OTHER -> thread[p][x].at = "keep" /\ thread[p][x].reply.message = c}

Pending(c) == status[c] = "pending" /\ client[c[1]] = "open"

RepliesAreNotLost ==
  \A c \in Call : Pending(c) /\ up[c[1]] =>
    \E place \in Places(c) : Places(c) = {place}

(* The server lives and no stream of this client id broke. *)
Undisturbed(p) == ClientId[p] \notin disturbed /\ poll.at # "stopped"

(* A call fails only if the server stopped or a stream of its own client   *)
(* id broke, be it an earlier one: poll drops the streams of an id         *)
(* together, and nobody else's.                                            *)
FailuresStayLocal ==
  \A c \in Call : status[c] = "failed" => ~ Undisturbed(c[1])

(* Why they stay local: what is polled, waits to be accepted or is waited  *)
(* for was connected once, and what was connected is up until its client   *)
(* id is disturbed or the server stops.                                    *)
StreamsWereConnected ==
  /\ \A p \in connected : client[p] # "absent"
  /\ \A i \in DOMAIN backlog : client[backlog[i]] # "absent"
  /\ \A i, j \in DOMAIN backlog : backlog[i] = backlog[j] => i = j
  /\ \A p \in Process, t \in Thread : thread[p][t].at # "idle" => client[p] # "absent"

StreamsStayUp ==
  /\ poll.drop \subseteq disturbed
  /\ \A p \in Process : client[p] # "absent" /\ Undisturbed(p) => up[p]

Inv == TypeOK /\ StreamsWereConnected /\ StreamsStayUp /\ FailuresStayLocal

(* A call is executed at most once, and returns the reply to its own       *)
(* request, whichever thread received it: invoke implements Calls.         *)
C == INSTANCE Calls WITH NoAnswer <- <<>>
AtMostOnce == C!Spec

(* Every call of a process that goes on ends: with its reply, or, if the   *)
(* stream breaks, is dropped or the server stops, with an error.           *)
CallsReturn == \A c \in Call : Pending(c) ~> ~ Pending(c)
=============================================================================
