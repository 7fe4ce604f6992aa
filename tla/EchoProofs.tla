----------------------------- MODULE EchoProofs -----------------------------
(***************************************************************************)
(* What the server's poll loop and the threads of a client guarantee for   *)
(* any number of processes, client ids, threads and calls: the variables   *)
(* keep their types, a call fails only because of its own client id or the *)
(* end of the server, a reply that is waited for is at one place, somebody *)
(* waits for each call, and the service implements Calls.                  *)
(***************************************************************************)
EXTENDS Echo, SequenceTheorems, TLAPS

(* What is left of a stream that closes is a stream. *)
LEMMA ShortenedType ==
  ASSUME NEW stream \in [Process -> Seq(Message)], NEW P, NEW s \in Shortened(stream, P)
  PROVE  s \in [Process -> Seq(Message)]
<1>1. \A p \in Process : \A r \in Prefixes(stream[p]) : r \in Seq(Message)
  BY DEF Prefixes
<1>2. \A p \in Process : s[p] \in Seq(Message)
  BY <1>1 DEF Shortened
<1> QED
  BY <1>2 DEF Shortened

LEMMA GreetingType == Greeting \in Message
  BY DEF Greeting, Message

LEMMA IdleType == Idle \in ThreadState /\ Idle.at = "idle"
  BY GreetingType DEF Idle, ThreadState

LEMMA EmptiedType ==
  ASSUME NEW stream \in [Process -> Seq(Message)], NEW P
  PROVE  Emptied(stream, P) \in [Process -> Seq(Message)]
  BY DEF Emptied

LEMMA WrittenType ==
  ASSUME NEW stream \in [Process -> Seq(Message)], NEW p \in Process, NEW m \in Message
  PROVE  Written(stream, p, m) \in [Process -> Seq(Message)]
<1>1. stream[p] \in Seq(Message)
  OBVIOUS
<1>2. Append(stream[p], m) \in Seq(Message)
  BY <1>1
<1>. QED  BY <1>2 DEF Written

LEMMA ConsumedType ==
  ASSUME NEW stream \in [Process -> Seq(Message)], NEW p \in Process, stream[p] # <<>>
  PROVE  /\ Consumed(stream, p) \in [Process -> Seq(Message)]
         /\ Head(stream[p]) \in Message
<1>1. stream[p] \in Seq(Message)
  OBVIOUS
<1>2. Head(stream[p]) \in Message /\ Tail(stream[p]) \in Seq(Message)
  BY <1>1, HeadTailProperties
<1>. QED  BY <1>2 DEF Consumed

LEMMA InitInv == Init => Inv
<1>. SUFFICES ASSUME Init PROVE Inv
  OBVIOUS
<1>. USE EchoAssumption, IdleType DEF Init
<1>1. TypeOK
  BY DEF TypeOK, StartPoll
<1>2. StreamsWereConnected
  BY DEF StreamsWereConnected
<1>3. StreamsStayUp
  BY DEF StreamsStayUp, StartPoll
<1>4. FailuresStayLocal
  BY DEF FailuresStayLocal
<1>. QED  BY <1>1, <1>2, <1>3, <1>4 DEF Inv

-----------------------------------------------------------------------------
(***************************************************************************)
(* The client.                                                             *)
(***************************************************************************)
LEMMA ConnectInv ==
  ASSUME Inv, NEW p \in Process, Connect(p)
  PROVE  Inv'
<1>. TypeOK /\ StreamsWereConnected /\ StreamsStayUp /\ FailuresStayLocal
  BY DEF Inv
<1>. USE DEF Connect, server_vars, calls
<1>1. backlog' \in Seq(Process) /\ \A i \in DOMAIN backlog' :
        \/ i \in DOMAIN backlog /\ backlog'[i] = backlog[i]
        \/ i = Len(backlog) + 1 /\ backlog'[i] = p
  <2>1. backlog \in Seq(Process) /\ (backlog' = backlog \/ backlog' = Append(backlog, p))
    BY DEF TypeOK
  <2>. QED  BY <2>1
<1>2. \A i \in DOMAIN backlog : backlog[i] # p
  BY DEF StreamsWereConnected
<1>3. p \notin connected
  BY DEF StreamsWereConnected
<1>4. TypeOK'
  <2>1. \A i \in DOMAIN backlog' : backlog'[i] \notin connected'
    BY <1>1, <1>3 DEF TypeOK
  <2>2. UNCHANGED <<request_ctr, buffered, thread, to_server, to_client, connected,
                    poll, status, answer, executions, disturbed>>
    OBVIOUS
  <2>3. /\ client' \in [Process -> {"absent", "connected", "greeted", "open", "gone"}]
        /\ up' \in [Process -> BOOLEAN]
    BY DEF TypeOK
  <2>. QED  BY <1>1, <2>1, <2>2, <2>3 DEF TypeOK
<1>5. StreamsWereConnected'
  <2>1. client'[p] # "absent" /\ \A q \in Process \ {p} : client'[q] = client[q]
    BY DEF TypeOK
  <2>2. backlog \in Seq(Process)
    BY DEF TypeOK
  <2>3. \A i \in DOMAIN backlog' : client'[backlog'[i]] # "absent"
    BY <1>1, <1>2, <2>1, <2>2 DEF StreamsWereConnected
  <2>4. \A i, j \in DOMAIN backlog' : backlog'[i] = backlog'[j] => i = j
    BY <1>1, <1>2, <2>2 DEF StreamsWereConnected
  <2>5. \A q \in connected' : client'[q] # "absent"
    BY <1>3, <2>1 DEF StreamsWereConnected, TypeOK
  <2>6. \A q \in Process, t \in Thread : thread'[q][t].at # "idle" => client'[q] # "absent"
    BY <2>1 DEF StreamsWereConnected
  <2>. QED  BY <2>3, <2>4, <2>5, <2>6 DEF StreamsWereConnected
<1>6. StreamsStayUp'
  <2>1. CASE poll.at = "stopped"
    BY <2>1 DEF StreamsStayUp, Undisturbed
  <2>2. CASE poll.at # "stopped"
    BY <2>2 DEF StreamsStayUp, Undisturbed, TypeOK
  <2>. QED  BY <2>1, <2>2
<1>7. FailuresStayLocal'
  BY DEF FailuresStayLocal, Undisturbed
<1>. QED  BY <1>4, <1>5, <1>6, <1>7 DEF Inv

LEMMA GreetInv ==
  ASSUME Inv, NEW p \in Process, Greet(p)
  PROVE  Inv'
<1>. TypeOK /\ StreamsWereConnected /\ StreamsStayUp /\ FailuresStayLocal
  BY DEF Inv
<1>1. to_server \in [Process -> Seq(Message)]
  BY DEF TypeOK
<1>2. to_server' \in [Process -> Seq(Message)]
  BY <1>1, GreetingType, WrittenType DEF Greet
<1>3. /\ client' \in [Process -> {"absent", "connected", "greeted", "open", "gone"}]
      /\ client[p] = "connected"
      /\ \A q \in Process : client[q] # "absent" <=> client'[q] # "absent"
      /\ UNCHANGED <<request_ctr, buffered, thread, up, to_client, backlog, connected,
                     poll, status, answer, executions, disturbed>>
  BY DEF Greet, TypeOK, server_vars, calls
<1>4. TypeOK'
  BY <1>2, <1>3 DEF TypeOK
<1>5. StreamsWereConnected'
  BY <1>3 DEF StreamsWereConnected, TypeOK
<1>6. StreamsStayUp'
  BY <1>3 DEF StreamsStayUp, Undisturbed
<1>7. FailuresStayLocal'
  BY <1>3 DEF FailuresStayLocal, Undisturbed
<1>. QED  BY <1>4, <1>5, <1>6, <1>7 DEF Inv

LEMMA FinishConnectInv ==
  ASSUME Inv, NEW p \in Process, FinishConnect(p)
  PROVE  Inv'
<1>. TypeOK /\ StreamsWereConnected /\ StreamsStayUp /\ FailuresStayLocal
  BY DEF Inv
<1>1. to_client \in [Process -> Seq(Message)]
  BY DEF TypeOK
<1>2. to_client' \in [Process -> Seq(Message)]
  BY <1>1, ConsumedType DEF FinishConnect
<1>3. /\ client' \in [Process -> {"absent", "connected", "greeted", "open", "gone"}]
      /\ client[p] = "greeted"
      /\ \A q \in Process : client[q] # "absent" <=> client'[q] # "absent"
      /\ UNCHANGED <<request_ctr, buffered, thread, up, to_server, backlog, connected,
                     poll, status, answer, executions, disturbed>>
  BY DEF FinishConnect, TypeOK, server_vars, calls
<1>4. TypeOK'
  BY <1>2, <1>3 DEF TypeOK
<1>5. StreamsWereConnected'
  BY <1>3 DEF StreamsWereConnected, TypeOK
<1>6. StreamsStayUp'
  BY <1>3 DEF StreamsStayUp, Undisturbed
<1>7. FailuresStayLocal'
  BY <1>3 DEF FailuresStayLocal, Undisturbed
<1>. QED  BY <1>4, <1>5, <1>6, <1>7 DEF Inv

-----------------------------------------------------------------------------
(***************************************************************************)
(* The threads of a client change neither the streams that are polled nor  *)
(* what is up: it remains to see when a call fails.                        *)
(***************************************************************************)
LEMMA ThreadFrame ==
  ASSUME Inv, NEW p \in Process, TypeOK',
         UNCHANGED <<client, up, backlog, connected, poll, disturbed>>,
         \A q \in Process, t \in Thread :
           thread'[q][t].at # "idle" => client[q] # "absent",
         \A c \in Call : status'[c] = "failed" =>
           status[c] = "failed" \/ (c[1] = p /\ ~ up[p] /\ client[p] # "absent")
  PROVE  Inv'
<1>. TypeOK /\ StreamsWereConnected /\ StreamsStayUp /\ FailuresStayLocal
  BY DEF Inv
<1>1. StreamsWereConnected'
  BY DEF StreamsWereConnected
<1>2. StreamsStayUp'
  BY DEF StreamsStayUp, Undisturbed
<1>3. FailuresStayLocal'
  BY DEF FailuresStayLocal, StreamsStayUp, Undisturbed
<1>. QED  BY <1>1, <1>2, <1>3 DEF Inv

(* A thread of a process that was connected goes to another state. *)
LEMMA ThreadGoes ==
  ASSUME Inv, NEW p \in Process, NEW t \in Thread, NEW s \in ThreadState,
         s.at = "idle" \/ client[p] # "absent",
         thread' = [thread EXCEPT ![p][t] = s]
  PROVE  /\ thread' \in [Process -> [Thread -> ThreadState]]
         /\ \A q \in Process, u \in Thread :
              thread'[q][u].at # "idle" => client[q] # "absent"
<1>1. thread \in [Process -> [Thread -> ThreadState]]
  BY DEF Inv, TypeOK
<1>2. \A q \in Process, u \in Thread :
        thread'[q][u] = IF q = p /\ u = t THEN s ELSE thread[q][u]
  BY <1>1
<1>3. thread' \in [Process -> [Thread -> ThreadState]]
  BY <1>1
<1>. QED  BY <1>2, <1>3 DEF Inv, StreamsWereConnected

LEMMA CallType ==
  ASSUME NEW p \in Process, NEW n \in Tags(p)
  PROVE  <<p, n>> \in Call
  BY DEF Call

(* The status of one call changes. *)
LEMMA StatusChanges ==
  ASSUME TypeOK, NEW p \in Process, NEW n,
         NEW s \in {"unused", "pending", "answered", "failed"},
         status' = [status EXCEPT ![<<p, n>>] = s]
  PROVE  /\ status' \in [Call -> {"unused", "pending", "answered", "failed"}]
         /\ \A c \in Call : status'[c] = "failed" =>
              status[c] = "failed" \/ (c[1] = p /\ s = "failed")
<1>1. status \in [Call -> {"unused", "pending", "answered", "failed"}]
  BY DEF TypeOK
<1>2. \A c \in Call : status'[c] = IF c = <<p, n>> THEN s ELSE status[c]
  BY <1>1
<1>3. \A c \in Call : c = <<p, n>> => c[1] = p
  OBVIOUS
<1>. QED  BY <1>1, <1>2, <1>3

(* The state of a thread with another step or reply. *)
LEMMA ThreadAt ==
  ASSUME TypeOK, NEW p \in Process, NEW t \in Thread,
         NEW at \in {"idle", "look", "receive", "keep"}, NEW m \in Message
  PROVE  /\ [thread[p][t] EXCEPT !.at = at] \in ThreadState
         /\ [thread[p][t] EXCEPT !.at = at, !.reply = m] \in ThreadState
<1>1. thread \in [Process -> [Thread -> ThreadState]]
  BY DEF TypeOK
<1>2. thread[p] \in [Thread -> ThreadState] /\ thread[p][t] \in ThreadState
  BY <1>1
<1>. QED  BY <1>1, <1>2 DEF ThreadState

LEMMA InvokeInv ==
  ASSUME Inv, NEW p \in Process, NEW t \in Thread, Invoke(p, t)
  PROVE  Inv'
<1>. DEFINE tag == request_ctr[p]
            request == [tag |-> tag, message |-> <<p, tag>>]
            looking == [at |-> "look", tag |-> tag, reply |-> Greeting]
<1>. TypeOK
  BY DEF Inv
<1>1. /\ client[p] = "open"
      /\ tag \in Nat /\ tag \in Tags(p)
      /\ UNCHANGED <<client, buffered, up, to_client, backlog, connected, poll,
                     answer, executions, disturbed>>
  BY DEF Invoke, TypeOK, server_vars
<1>2. request \in Message /\ looking \in ThreadState
  BY <1>1, CallType, GreetingType DEF Message, ThreadState
<1>3. to_server' \in [Process -> Seq(Message)]
  <2>1. to_server \in [Process -> Seq(Message)]
    BY DEF TypeOK
  <2>. QED  BY <1>2, <2>1, WrittenType DEF Invoke
<1>4. /\ thread' \in [Process -> [Thread -> ThreadState]]
      /\ \A q \in Process, u \in Thread :
           thread'[q][u].at # "idle" => client[q] # "absent"
  <2>1. CASE thread' = [thread EXCEPT ![p][t] = looking]
    BY <1>1, <1>2, <2>1, ThreadGoes
  <2>2. CASE UNCHANGED thread
    BY <2>2 DEF Inv, TypeOK, StreamsWereConnected
  <2>. QED  BY <2>1, <2>2 DEF Invoke
<1>5. request_ctr' \in [Process -> Nat] /\ \A q \in Process : request_ctr'[q] <= MaxCalls[q]
  <2>1. tag + 1 <= MaxCalls[p]
    BY <1>1, EchoAssumption DEF Tags
  <2>. QED  BY <1>1, <2>1 DEF Invoke, TypeOK
<1>6. /\ status' \in [Call -> {"unused", "pending", "answered", "failed"}]
      /\ \A c \in Call : status'[c] = "failed" =>
           status[c] = "failed" \/ (c[1] = p /\ ~ up[p] /\ client[p] # "absent")
  <2>1. CASE status' = [status EXCEPT ![<<p, tag>>] = "pending"]
    BY <2>1, StatusChanges
  <2>2. CASE status' = [status EXCEPT ![<<p, tag>>] = "failed"] /\ ~ up[p]
    BY <1>1, <2>2, StatusChanges
  <2>. QED  BY <2>1, <2>2 DEF Invoke
<1>8. TypeOK'
  BY <1>1, <1>3, <1>4, <1>5, <1>6 DEF TypeOK
<1>. QED  BY <1>1, <1>4, <1>6, <1>8, ThreadFrame

(***************************************************************************)
(* What remains to be shown of a step of a waiting thread.                 *)
(***************************************************************************)
LEMMA WaitingFrame ==
  ASSUME Inv, NEW p \in Process, NEW t \in Thread, NEW s \in ThreadState,
         thread[p][t].at # "idle",
         thread' = [thread EXCEPT ![p][t] = s],
         UNCHANGED <<client, request_ctr, up, to_server, backlog, connected, poll,
                     executions, disturbed>>,
         to_client' \in [Process -> Seq(Message)],
         buffered' \in [Process -> SUBSET Message],
         answer' \in [Call -> Call \cup {<<>>}],
         NEW n, NEW new \in {"unused", "pending", "answered", "failed"},
         \/ UNCHANGED status
         \/ status' = [status EXCEPT ![<<p, n>>] = new] /\ (new = "failed" => ~ up[p])
  PROVE  Inv'
<1>. TypeOK /\ StreamsWereConnected
  BY DEF Inv
<1>1. client[p] # "absent"
  BY DEF StreamsWereConnected
<1>2. /\ thread' \in [Process -> [Thread -> ThreadState]]
      /\ \A q \in Process, u \in Thread :
           thread'[q][u].at # "idle" => client[q] # "absent"
  BY <1>1, ThreadGoes
<1>3. /\ status' \in [Call -> {"unused", "pending", "answered", "failed"}]
      /\ \A c \in Call : status'[c] = "failed" =>
           status[c] = "failed" \/ (c[1] = p /\ ~ up[p] /\ client[p] # "absent")
  <2>1. CASE UNCHANGED status
    BY <2>1 DEF TypeOK
  <2>2. CASE status' = [status EXCEPT ![<<p, n>>] = new] /\ (new = "failed" => ~ up[p])
    BY <1>1, <2>2, StatusChanges
  <2>. QED  BY <2>1, <2>2
<1>4. TypeOK'
  BY <1>2, <1>3 DEF TypeOK
<1>. QED  BY <1>2, <1>3, <1>4, ThreadFrame

LEMMA LookInv ==
  ASSUME Inv, NEW p \in Process, NEW t \in Thread, Look(p, t)
  PROVE  Inv'
<1>. TypeOK
  BY DEF Inv
<1>1. /\ thread[p][t].at # "idle"
      /\ UNCHANGED <<client, request_ctr, up, to_server, to_client, backlog, connected,
                     poll, executions, disturbed>>
      /\ to_client' \in [Process -> Seq(Message)]
  BY DEF Look, streams, server_vars, TypeOK
<1>2. CASE \E m \in buffered[p] :
             /\ buffered' = [buffered EXCEPT ![p] = @ \ {m}]
             /\ Returns(p, t, m)
  <2>1. PICK m \in buffered[p] :
          /\ buffered' = [buffered EXCEPT ![p] = @ \ {m}]
          /\ Returns(p, t, m)
    BY <1>2
  <2>2. m \in Message /\ m.message \in Call \cup {<<>>}
    BY DEF TypeOK, Message
  <2>3. /\ buffered' \in [Process -> SUBSET Message]
        /\ answer' \in [Call -> Call \cup {<<>>}]
    BY <2>1, <2>2 DEF TypeOK, Returns
  <2>. QED  BY <1>1, <2>1, <2>3, IdleType, WaitingFrame DEF Returns
<1>3. CASE Goes(p, t, "receive") /\ UNCHANGED <<buffered, status, answer>>
  <2>1. thread' = [thread EXCEPT ![p][t] = [thread[p][t] EXCEPT !.at = "receive"]]
    BY <1>3, GreetingType, ThreadAt DEF Goes
  <2>2. [thread[p][t] EXCEPT !.at = "receive"] \in ThreadState
    BY GreetingType, ThreadAt
  <2>3. /\ buffered' \in [Process -> SUBSET Message]
        /\ answer' \in [Call -> Call \cup {<<>>}]
    BY <1>3 DEF TypeOK
  <2>. QED  BY <1>1, <1>3, <2>1, <2>2, <2>3, WaitingFrame
<1>. QED  BY <1>2, <1>3 DEF Look

LEMMA ReceiveInv ==
  ASSUME Inv, NEW p \in Process, NEW t \in Thread, Receive(p, t)
  PROVE  Inv'
<1>. DEFINE m == Head(to_client[p])
<1>. TypeOK
  BY DEF Inv
<1>1. /\ thread[p][t].at # "idle"
      /\ UNCHANGED <<client, request_ctr, buffered, up, to_server, backlog, connected,
                     poll, executions, disturbed>>
      /\ buffered' \in [Process -> SUBSET Message]
  BY DEF Receive, server_vars, TypeOK
<1>2. /\ to_client \in [Process -> Seq(Message)]
      /\ answer \in [Call -> Call \cup {<<>>}]
  BY DEF TypeOK
<1>3. CASE /\ to_client[p] # <<>>
           /\ to_client' = Consumed(to_client, p)
           /\ Returns(p, t, m)
  <2>1. m \in Message /\ to_client' \in [Process -> Seq(Message)]
    BY <1>2, <1>3, ConsumedType
  <2>2. answer' \in [Call -> Call \cup {<<>>}]
    BY <1>2, <1>3, <2>1 DEF Returns, Message
  <2>. QED  BY <1>1, <1>3, <2>1, <2>2, IdleType, WaitingFrame DEF Returns
<1>4. CASE /\ to_client[p] # <<>>
           /\ to_client' = Consumed(to_client, p)
           /\ thread' = [thread EXCEPT ![p][t] = [@ EXCEPT !.at = "keep", !.reply = m]]
           /\ UNCHANGED <<status, answer>>
  <2>1. m \in Message /\ to_client' \in [Process -> Seq(Message)]
    BY <1>2, <1>4, ConsumedType
  <2>2. /\ thread' = [thread EXCEPT ![p][t] = [thread[p][t] EXCEPT !.at = "keep", !.reply = m]]
        /\ [thread[p][t] EXCEPT !.at = "keep", !.reply = m] \in ThreadState
    BY <1>4, <2>1, ThreadAt
  <2>3. answer' \in [Call -> Call \cup {<<>>}]
    BY <1>2, <1>4
  <2>. QED  BY <1>1, <1>4, <2>1, <2>2, <2>3, WaitingFrame
<1>5. CASE Goes(p, t, "look") /\ UNCHANGED <<to_client, status, answer>>
  <2>1. /\ thread' = [thread EXCEPT ![p][t] = [thread[p][t] EXCEPT !.at = "look"]]
        /\ [thread[p][t] EXCEPT !.at = "look"] \in ThreadState
    BY <1>5, GreetingType, ThreadAt DEF Goes
  <2>2. /\ to_client' \in [Process -> Seq(Message)]
        /\ answer' \in [Call -> Call \cup {<<>>}]
    BY <1>2, <1>5
  <2>. QED  BY <1>1, <1>5, <2>1, <2>2, WaitingFrame
<1>6. CASE /\ ~ up[p]
           /\ status' = [status EXCEPT ![<<p, thread[p][t].tag>>] = "failed"]
           /\ thread' = [thread EXCEPT ![p][t] = Idle]
           /\ UNCHANGED <<to_client, answer>>
  <2>1. /\ to_client' \in [Process -> Seq(Message)]
        /\ answer' \in [Call -> Call \cup {<<>>}]
    BY <1>2, <1>6
  <2>. QED  BY <1>1, <1>6, <2>1, IdleType, WaitingFrame
<1>. QED  BY <1>3, <1>4, <1>5, <1>6 DEF Receive

LEMMA KeepInv ==
  ASSUME Inv, NEW p \in Process, NEW t \in Thread, Keep(p, t)
  PROVE  Inv'
<1>. TypeOK
  BY DEF Inv
<1>1. /\ thread[p][t].at # "idle"
      /\ UNCHANGED <<client, request_ctr, up, to_server, to_client, backlog, connected,
                     poll, status, answer, executions, disturbed>>
      /\ to_client' \in [Process -> Seq(Message)]
      /\ answer' \in [Call -> Call \cup {<<>>}]
  BY DEF Keep, streams, server_vars, calls, TypeOK
<1>2. thread[p][t].reply \in Message
  BY DEF TypeOK, ThreadState
<1>3. buffered' \in [Process -> SUBSET Message]
  BY <1>2 DEF Keep, BufferWith, TypeOK
<1>4. /\ thread' = [thread EXCEPT ![p][t] = [thread[p][t] EXCEPT !.at = "look",
                                                                 !.reply = Greeting]]
      /\ [thread[p][t] EXCEPT !.at = "look", !.reply = Greeting] \in ThreadState
  BY GreetingType, ThreadAt DEF Keep
<1>. QED  BY <1>1, <1>3, <1>4, WaitingFrame

-----------------------------------------------------------------------------
(***************************************************************************)
(* The server.  What it accepts, serves and drops changes neither a client *)
(* nor a thread nor a status.                                              *)
(***************************************************************************)

(* The streams that are not of P stay open. *)
LEMMA ClosingType ==
  ASSUME TypeOK, NEW P, Closing(P)
  PROVE  /\ up' \in [Process -> BOOLEAN]
         /\ \A p \in Process : p \notin P /\ up[p] => up'[p]
  BY DEF Closing, TypeOK

(* The backlog without its first stream. *)
LEMMA BacklogTail ==
  ASSUME TypeOK, StreamsWereConnected, backlog # <<>>, backlog' = Tail(backlog)
  PROVE  /\ Head(backlog) \in Process /\ client[Head(backlog)] # "absent"
         /\ Head(backlog) \notin connected
         /\ backlog' \in Seq(Process)
         /\ \A i \in DOMAIN backlog' :
              /\ client[backlog'[i]] # "absent"
              /\ backlog'[i] \notin connected \cup {Head(backlog)}
         /\ \A i, j \in DOMAIN backlog' : backlog'[i] = backlog'[j] => i = j
<1>1. backlog \in Seq(Process)
  BY DEF TypeOK
<1>2. /\ Head(backlog) = backlog[1] /\ 1 \in DOMAIN backlog
      /\ backlog' \in Seq(Process)
      /\ \A i \in DOMAIN backlog' :
           i + 1 \in DOMAIN backlog /\ i \in Nat \ {0} /\ backlog'[i] = backlog[i + 1]
  <2>1. backlog' \in Seq(Process) /\ Len(backlog') = Len(backlog) - 1
    BY <1>1, HeadTailProperties
  <2>2. Len(backlog) \in Nat \ {0}
    BY <1>1
  <2>3. \A i \in 1 .. Len(backlog') : backlog'[i] = backlog[i + 1]
    BY <1>1, HeadTailProperties
  <2>. QED  BY <1>1, <2>1, <2>2, <2>3
<1>3. backlog[1] \in Process
  BY <1>1, <1>2
<1>4. client[backlog[1]] # "absent" /\ backlog[1] \notin connected
  BY <1>2 DEF StreamsWereConnected, TypeOK
<1>5. \A i \in DOMAIN backlog' :
        /\ client[backlog'[i]] # "absent"
        /\ backlog'[i] \notin connected \cup {backlog[1]}
  BY <1>2 DEF StreamsWereConnected, TypeOK
<1>6. \A i, j \in DOMAIN backlog' : backlog'[i] = backlog'[j] => i = j
  BY <1>2 DEF StreamsWereConnected
<1>. QED  BY <1>2, <1>3, <1>4, <1>5, <1>6

(* What remains to be shown of a step of the server. *)
LEMMA ServerFrame ==
  ASSUME Inv,
         UNCHANGED <<client, request_ctr, buffered, thread, status, answer, disturbed>>,
         up' \in [Process -> BOOLEAN],
         to_server' \in [Process -> Seq(Message)],
         to_client' \in [Process -> Seq(Message)],
         executions' \in [Call -> Nat],
         connected' \subseteq Process,
         \A p \in connected' : client[p] # "absent",
         backlog' \in Seq(Process),
         \A i \in DOMAIN backlog' :
           client[backlog'[i]] # "absent" /\ backlog'[i] \notin connected',
         \A i, j \in DOMAIN backlog' : backlog'[i] = backlog'[j] => i = j,
         poll' \in [at : {"accept", "serve", "stopped"}, accepts : 0 .. MaxAccepts,
                    left : SUBSET connected', drop : SUBSET Ids],
         poll.at = "stopped" => poll'.at = "stopped",
         poll'.drop \subseteq disturbed,
         \A p \in Process :
           /\ client[p] # "absent" /\ up[p]
           /\ ClientId[p] \notin disturbed /\ poll'.at # "stopped"
           => up'[p]
  PROVE  Inv'
<1>. TypeOK /\ StreamsWereConnected /\ StreamsStayUp /\ FailuresStayLocal
  BY DEF Inv
<1>1. TypeOK'
  BY DEF TypeOK
<1>2. StreamsWereConnected'
  BY DEF StreamsWereConnected
<1>3. StreamsStayUp'
  BY DEF StreamsStayUp, Undisturbed
<1>4. FailuresStayLocal'
  BY DEF FailuresStayLocal, Undisturbed
<1>. QED  BY <1>1, <1>2, <1>3, <1>4 DEF Inv

(* What a step of the server finds in poll. *)
LEMMA PollType ==
  ASSUME TypeOK
  PROVE  /\ DOMAIN poll = {"at", "accepts", "left", "drop"}
         /\ poll \in [at : {"accept", "serve", "stopped"}, accepts : 0 .. MaxAccepts,
                       left : SUBSET connected, drop : SUBSET Ids]
         /\ poll.at \in {"accept", "serve", "stopped"} /\ poll.accepts \in 0 .. MaxAccepts
         /\ poll.left \subseteq connected /\ poll.drop \subseteq Ids
         /\ StartPoll \in [at : {"accept", "serve", "stopped"}, accepts : 0 .. MaxAccepts,
                            left : {{}}, drop : {{}}]
         /\ [StartPoll EXCEPT !.at = "stopped"]
              \in [at : {"stopped"}, accepts : 0 .. MaxAccepts, left : {{}}, drop : {{}}]
<1>. MaxAccepts \in Nat \ {0}
  BY EchoAssumption
<1>1. poll \in [at : {"accept", "serve", "stopped"}, accepts : 0 .. MaxAccepts,
                left : SUBSET connected, drop : SUBSET Ids]
  BY DEF TypeOK
<1>. QED  BY <1>1 DEF StartPoll

LEMMA AcceptInv ==
  ASSUME Inv, Accept
  PROVE  Inv'
<1>. DEFINE p == Head(backlog)
<1>. TypeOK /\ StreamsWereConnected /\ StreamsStayUp
  BY DEF Inv
<1>1. /\ p \in Process /\ client[p] # "absent"
      /\ backlog' \in Seq(Process)
      /\ \A i \in DOMAIN backlog' :
           client[backlog'[i]] # "absent" /\ backlog'[i] \notin connected \cup {p}
      /\ \A i, j \in DOMAIN backlog' : backlog'[i] = backlog'[j] => i = j
  BY BacklogTail DEF Accept
<1>. HIDE DEF p
<1>2. /\ UNCHANGED <<client, request_ctr, buffered, thread, up, status, answer,
                     executions, disturbed>>
      /\ to_server[p] # <<>> /\ to_server' = Consumed(to_server, p)
      /\ to_client' \in {Written(to_client, p, Greeting), to_client}
      /\ connected' = connected \cup {p}
      /\ poll' = [poll EXCEPT !.accepts = @ + 1]
      /\ poll.at = "accept" /\ poll.accepts < MaxAccepts
  BY DEF Accept, MayAccept, client_vars, calls, p
<1>3. /\ to_server' \in [Process -> Seq(Message)]
      /\ to_client' \in [Process -> Seq(Message)]
  <2>1. /\ to_server \in [Process -> Seq(Message)]
        /\ to_client \in [Process -> Seq(Message)]
    BY DEF TypeOK
  <2>. QED  BY <1>1, <1>2, <2>1, ConsumedType, WrittenType, GreetingType
<1>4. /\ connected' \subseteq Process
      /\ \A q \in connected' : client[q] # "absent"
  BY <1>1, <1>2 DEF TypeOK, StreamsWereConnected
<1>5. \A i \in DOMAIN backlog' :
        client[backlog'[i]] # "absent" /\ backlog'[i] \notin connected'
  BY <1>1, <1>2
<1>6. /\ poll' \in [at : {"accept", "serve", "stopped"}, accepts : 0 .. MaxAccepts,
                     left : SUBSET connected', drop : SUBSET Ids]
      /\ poll'.at = "accept" /\ poll'.drop = poll.drop
  <2>1. poll.accepts + 1 \in 0 .. MaxAccepts /\ poll.left \subseteq connected'
    BY <1>2, PollType, EchoAssumption
  <2>. QED  BY <1>2, <2>1, PollType
<1>7. /\ up' \in [Process -> BOOLEAN] /\ executions' \in [Call -> Nat]
      /\ poll'.drop \subseteq disturbed
  BY <1>2, <1>6 DEF TypeOK, StreamsStayUp
<1>. QED  BY <1>1, <1>2, <1>3, <1>4, <1>5, <1>6, <1>7, ServerFrame

(* A stop of the server closes every stream, and excuses every failure. *)
LEMMA StopsInv ==
  ASSUME Inv, Stops,
         UNCHANGED <<client, request_ctr, buffered, thread, status, answer,
                     executions, disturbed>>
  PROVE  Inv'
<1>. TypeOK
  BY DEF Inv
<1>1. up' \in [Process -> BOOLEAN]
  BY ClosingType DEF Stops
<1>2. /\ to_server' \in [Process -> Seq(Message)]
      /\ to_client' \in [Process -> Seq(Message)]
  <2>1. /\ to_server \in [Process -> Seq(Message)]
        /\ to_client \in [Process -> Seq(Message)]
    BY DEF TypeOK
  <2>. QED  BY <2>1, EmptiedType, ShortenedType DEF Stops
<1>3. /\ connected' = {} /\ backlog' = <<>>
      /\ poll' = [StartPoll EXCEPT !.at = "stopped"]
  BY DEF Stops
<1>4. /\ poll' \in [at : {"accept", "serve", "stopped"}, accepts : 0 .. MaxAccepts,
                     left : SUBSET connected', drop : SUBSET Ids]
      /\ poll'.at = "stopped" /\ poll'.drop = {}
  BY <1>3, EchoAssumption DEF StartPoll
<1>5. /\ connected' \subseteq Process /\ backlog' \in Seq(Process)
      /\ DOMAIN backlog' = {} /\ executions' \in [Call -> Nat]
  BY <1>3 DEF TypeOK
<1>. QED  BY <1>1, <1>2, <1>3, <1>4, <1>5, ServerFrame

(* The server goes on to serve the streams that are connected. *)
LEMMA StartServingType ==
  ASSUME Inv, StartServing, UNCHANGED <<connected, disturbed>>
  PROVE  /\ poll' \in [at : {"accept", "serve", "stopped"}, accepts : 0 .. MaxAccepts,
                        left : SUBSET connected', drop : SUBSET Ids]
         /\ poll'.at = "serve" /\ poll'.drop \subseteq disturbed
<1>. TypeOK /\ StreamsStayUp
  BY DEF Inv
<1>1. poll' = [poll EXCEPT !.at = "serve", !.left = connected]
  BY DEF StartServing
<1>. QED  BY <1>1, PollType DEF StreamsStayUp

LEMMA AcceptFailsInv ==
  ASSUME Inv, AcceptFails
  PROVE  Inv'
<1>. DEFINE p == Head(backlog)
<1>. TypeOK /\ StreamsWereConnected
  BY DEF Inv
<1>1. UNCHANGED <<client, request_ctr, buffered, thread, status, answer,
                  executions, disturbed>>
  BY DEF AcceptFails, client_vars, calls
<1>2. CASE Stops
  BY <1>1, <1>2, StopsInv
<1>3. CASE /\ backlog' = Tail(backlog)
           /\ to_server' = Emptied(to_server, {p})
           /\ StartServing
           /\ UNCHANGED <<connected, up, to_client>>
  <2>1. /\ backlog' \in Seq(Process)
        /\ \A i \in DOMAIN backlog' :
             client[backlog'[i]] # "absent" /\ backlog'[i] \notin connected'
        /\ \A i, j \in DOMAIN backlog' : backlog'[i] = backlog'[j] => i = j
    BY <1>3, BacklogTail DEF AcceptFails
  <2>2. /\ poll' \in [at : {"accept", "serve", "stopped"}, accepts : 0 .. MaxAccepts,
                       left : SUBSET connected', drop : SUBSET Ids]
        /\ poll'.at = "serve" /\ poll'.drop \subseteq disturbed
        /\ poll.at = "accept"
    BY <1>1, <1>3, StartServingType DEF AcceptFails, MayAccept
  <2>3. to_server' \in [Process -> Seq(Message)]
    BY <1>3, EmptiedType DEF TypeOK
  <2>4. /\ to_client' \in [Process -> Seq(Message)] /\ up' \in [Process -> BOOLEAN]
        /\ executions' \in [Call -> Nat] /\ connected' \subseteq Process
        /\ \A q \in connected' : client[q] # "absent"
        /\ UNCHANGED up
    BY <1>1, <1>3 DEF TypeOK, StreamsWereConnected
  <2>. QED  BY <1>1, <2>1, <2>2, <2>3, <2>4, ServerFrame
<1>. QED  BY <1>2, <1>3 DEF AcceptFails

(* What remains to be shown of a step that only serves. *)
LEMMA ServingFrame ==
  ASSUME Inv,
         UNCHANGED <<client, request_ctr, buffered, thread, up, backlog, connected,
                     status, answer, disturbed>>,
         to_server' \in [Process -> Seq(Message)],
         to_client' \in [Process -> Seq(Message)],
         executions' \in [Call -> Nat],
         poll.at # "stopped",
         poll' \in [at : {"accept", "serve", "stopped"}, accepts : 0 .. MaxAccepts,
                    left : SUBSET connected', drop : SUBSET Ids],
         poll'.drop \subseteq disturbed
  PROVE  Inv'
<1>. TypeOK /\ StreamsWereConnected
  BY DEF Inv
<1>1. /\ up' \in [Process -> BOOLEAN] /\ connected' \subseteq Process
      /\ \A p \in connected' : client[p] # "absent"
      /\ backlog' \in Seq(Process)
      /\ \A i \in DOMAIN backlog' :
           client[backlog'[i]] # "absent" /\ backlog'[i] \notin connected'
      /\ \A i, j \in DOMAIN backlog' : backlog'[i] = backlog'[j] => i = j
  BY DEF TypeOK, StreamsWereConnected
<1>. QED  BY <1>1, ServerFrame

LEMMA AcceptsNoMoreInv ==
  ASSUME Inv, AcceptsNoMore
  PROVE  Inv'
<1>. TypeOK
  BY DEF Inv
<1>1. /\ UNCHANGED <<client, request_ctr, buffered, thread, up, backlog, connected,
                     status, answer, disturbed>>
      /\ UNCHANGED <<to_server, to_client, executions>>
      /\ poll.at # "stopped"
  BY DEF AcceptsNoMore, client_vars, streams, calls
<1>2. /\ to_server' \in [Process -> Seq(Message)]
      /\ to_client' \in [Process -> Seq(Message)]
      /\ executions' \in [Call -> Nat]
  BY <1>1 DEF TypeOK
<1>3. /\ poll' \in [at : {"accept", "serve", "stopped"}, accepts : 0 .. MaxAccepts,
                     left : SUBSET connected', drop : SUBSET Ids]
      /\ poll'.drop \subseteq disturbed
  BY <1>1, StartServingType DEF AcceptsNoMore
<1>. QED  BY <1>1, <1>2, <1>3, ServingFrame

(* A stream that is found broken is of a client id that is disturbed. *)
LEMMA BrokenType ==
  ASSUME Inv, NEW p \in Process, poll.at = "serve", p \in poll.left,
         UNCHANGED <<connected, disturbed>>,
         \/ poll' = [poll EXCEPT !.left = @ \ {p}]
         \/ ~ up[p] /\ poll' = [poll EXCEPT !.left = @ \ {p}, !.drop = @ \cup {ClientId[p]}]
  PROVE  /\ poll' \in [at : {"accept", "serve", "stopped"}, accepts : 0 .. MaxAccepts,
                        left : SUBSET connected', drop : SUBSET Ids]
         /\ poll'.drop \subseteq disturbed
<1>. TypeOK /\ StreamsWereConnected /\ StreamsStayUp
  BY DEF Inv
<1>1. ~ up[p] => ClientId[p] \in disturbed
  BY PollType DEF StreamsWereConnected, StreamsStayUp, Undisturbed
<1>2. ClientId[p] \in Ids
  BY DEF Ids
<1>3. poll.left \ {p} \subseteq connected' /\ poll.drop \cup {ClientId[p]} \subseteq Ids
  BY <1>2, PollType
<1>4. poll.drop \subseteq disturbed
  BY DEF StreamsStayUp
<1>5. CASE poll' = [poll EXCEPT !.left = @ \ {p}]
  BY <1>3, <1>4, <1>5, PollType
<1>6. CASE ~ up[p] /\ poll' = [poll EXCEPT !.left = @ \ {p}, !.drop = @ \cup {ClientId[p]}]
  BY <1>1, <1>3, <1>4, <1>6, PollType
<1>. QED  BY <1>5, <1>6

LEMMA CountType ==
  ASSUME TypeOK, NEW c, executions' = [executions EXCEPT ![c] = executions[c] + 1]
  PROVE  executions' \in [Call -> Nat]
<1>1. executions \in [Call -> Nat]
  BY DEF TypeOK
<1>2. CASE c \in Call
  <2>1. executions[c] + 1 \in Nat
    BY <1>1, <1>2
  <2>. QED  BY <1>1, <2>1
<1>3. CASE c \notin Call
  <2>1. executions' = executions
    BY <1>1, <1>3
  <2>. QED  BY <1>1, <2>1
<1>. QED  BY <1>2, <1>3

LEMMA ServeInv ==
  ASSUME Inv, NEW p \in Process, Serve(p)
  PROVE  Inv'
<1>. DEFINE m == Head(to_server[p])
<1>. TypeOK
  BY DEF Inv
<1>1. /\ UNCHANGED <<client, request_ctr, buffered, thread, up, backlog, connected,
                     status, answer, disturbed>>
      /\ poll.at = "serve" /\ p \in poll.left
      /\ to_server[p] # <<>> /\ to_server' = Consumed(to_server, p)
      /\ to_client' \in {Written(to_client, p, m), to_client}
  BY DEF Serve, client_vars
<1>2. /\ to_server \in [Process -> Seq(Message)]
      /\ to_client \in [Process -> Seq(Message)]
  BY DEF TypeOK
<1>3. m \in Message /\ to_server' \in [Process -> Seq(Message)]
  BY <1>1, <1>2, ConsumedType
<1>4. /\ to_client' \in [Process -> Seq(Message)]
      /\ executions' \in [Call -> Nat]
  <2>1. executions' = [executions EXCEPT ![m.message] = executions[m.message] + 1]
    BY DEF Serve
  <2>2. \A r \in Message : to_client' \in {Written(to_client, p, r), to_client}
          => to_client' \in [Process -> Seq(Message)]
    BY <1>1, <1>2, WrittenType
  <2>. QED  BY <1>1, <1>3, <2>1, <2>2, CountType DEF Message
<1>6. /\ poll' \in [at : {"accept", "serve", "stopped"}, accepts : 0 .. MaxAccepts,
                     left : SUBSET connected', drop : SUBSET Ids]
      /\ poll'.drop \subseteq disturbed
  BY <1>1, BrokenType DEF Serve
<1>. QED  BY <1>1, <1>3, <1>4, <1>6, ServingFrame

LEMMA ServeNothingInv ==
  ASSUME Inv, NEW p \in Process, ServeNothing(p)
  PROVE  Inv'
<1>. TypeOK
  BY DEF Inv
<1>1. /\ UNCHANGED <<client, request_ctr, buffered, thread, up, backlog, connected,
                     status, answer, disturbed>>
      /\ UNCHANGED <<to_server, to_client, executions>>
      /\ poll.at = "serve" /\ p \in poll.left
  BY DEF ServeNothing, client_vars, streams, calls
<1>2. /\ to_server' \in [Process -> Seq(Message)]
      /\ to_client' \in [Process -> Seq(Message)]
      /\ executions' \in [Call -> Nat]
  BY <1>1 DEF TypeOK
<1>3. \/ poll' = [poll EXCEPT !.left = @ \ {p}]
      \/ ~ up[p] /\ poll' = [poll EXCEPT !.left = @ \ {p}, !.drop = @ \cup {ClientId[p]}]
  <2>1. CASE up[p]
    BY <2>1, PollType DEF ServeNothing
  <2>2. CASE ~ up[p]
    BY <2>2 DEF ServeNothing
  <2>. QED  BY <2>1, <2>2
<1>4. /\ poll' \in [at : {"accept", "serve", "stopped"}, accepts : 0 .. MaxAccepts,
                     left : SUBSET connected', drop : SUBSET Ids]
      /\ poll'.drop \subseteq disturbed
  BY <1>1, <1>3, BrokenType
<1>. QED  BY <1>1, <1>2, <1>4, ServingFrame

LEMMA EndPollInv ==
  ASSUME Inv, EndPoll
  PROVE  Inv'
<1>. TypeOK /\ StreamsWereConnected /\ StreamsStayUp
  BY DEF Inv
<1>1. /\ UNCHANGED <<client, request_ctr, buffered, thread, status, answer,
                     executions, disturbed, backlog>>
      /\ poll.at = "serve" /\ poll' = StartPoll
      /\ connected' = connected \ Dropped
      /\ Closing(Dropped)
  BY DEF EndPoll, client_vars, calls
<1>2. \A p \in Dropped : ClientId[p] \in disturbed
  BY DEF Dropped, StreamsStayUp
<1>3. /\ up' \in [Process -> BOOLEAN]
      /\ \A p \in Process : up[p] /\ ClientId[p] \notin disturbed => up'[p]
  BY <1>1, <1>2, ClosingType
<1>4. /\ to_server' \in [Process -> Seq(Message)]
      /\ to_client' \in [Process -> Seq(Message)]
  <2>1. /\ to_server \in [Process -> Seq(Message)]
        /\ to_client \in [Process -> Seq(Message)]
    BY DEF TypeOK
  <2>. QED  BY <2>1, EmptiedType, ShortenedType DEF EndPoll
<1>5. /\ connected' \subseteq Process
      /\ \A p \in connected' : client[p] # "absent"
      /\ backlog' \in Seq(Process)
      /\ \A i \in DOMAIN backlog' :
           client[backlog'[i]] # "absent" /\ backlog'[i] \notin connected'
      /\ \A i, j \in DOMAIN backlog' : backlog'[i] = backlog'[j] => i = j
      /\ executions' \in [Call -> Nat]
  BY <1>1 DEF TypeOK, StreamsWereConnected
<1>6. /\ poll' \in [at : {"accept", "serve", "stopped"}, accepts : 0 .. MaxAccepts,
                     left : SUBSET connected', drop : SUBSET Ids]
      /\ poll'.drop \subseteq disturbed
  BY <1>1, EchoAssumption DEF StartPoll
<1>. QED  BY <1>1, <1>3, <1>4, <1>5, <1>6, ServerFrame

-----------------------------------------------------------------------------
(***************************************************************************)
(* The environment.                                                        *)
(***************************************************************************)
(* What remains to be shown when a stream of p closes: its client id is    *)
(* disturbed.                                                              *)
LEMMA DisturbedFrame ==
  ASSUME Inv, NEW p \in Process,
         UNCHANGED <<request_ctr, backlog, connected, poll, status, answer, executions>>,
         client' \in [Process -> {"absent", "connected", "greeted", "open", "gone"}],
         \A q \in Process : client[q] # "absent" <=> client'[q] # "absent",
         buffered' \in [Process -> SUBSET Message],
         thread' \in [Process -> [Thread -> ThreadState]],
         \A q \in Process, t \in Thread :
           thread'[q][t].at # "idle" => thread[q][t].at # "idle",
         Closing({p}),
         to_server' \in [Process -> Seq(Message)],
         to_client' \in [Process -> Seq(Message)],
         disturbed' = disturbed \cup {ClientId[p]}
  PROVE  Inv'
<1>. TypeOK /\ StreamsWereConnected /\ StreamsStayUp /\ FailuresStayLocal
  BY DEF Inv
<1>1. /\ up' \in [Process -> BOOLEAN]
      /\ \A q \in Process : q # p /\ up[q] => up'[q]
  BY ClosingType
<1>2. disturbed' \subseteq Ids
  BY DEF Ids, TypeOK
<1>3. TypeOK'
  BY <1>1, <1>2 DEF TypeOK
<1>4. StreamsWereConnected'
  <2>1. backlog \in Seq(Process) /\ connected \subseteq Process
    BY DEF TypeOK
  <2>. QED  BY <2>1 DEF StreamsWereConnected
<1>5. StreamsStayUp'
  BY <1>1 DEF StreamsStayUp, Undisturbed
<1>6. FailuresStayLocal'
  BY DEF FailuresStayLocal, Undisturbed
<1>. QED  BY <1>3, <1>4, <1>5, <1>6 DEF Inv

LEMMA ExitInv ==
  ASSUME Inv, NEW p \in Process, Exit(p)
  PROVE  Inv'
<1>. TypeOK
  BY DEF Inv
<1>1. /\ UNCHANGED <<request_ctr, backlog, connected, poll, status, answer, executions>>
      /\ Closing({p}) /\ disturbed' = disturbed \cup {ClientId[p]}
  BY DEF Exit, server_vars, calls
<1>2. /\ client' \in [Process -> {"absent", "connected", "greeted", "open", "gone"}]
      /\ \A q \in Process : client[q] # "absent" <=> client'[q] # "absent"
  BY DEF Exit, TypeOK
<1>3. buffered' \in [Process -> SUBSET Message]
  BY DEF Exit, TypeOK
<1>4. /\ thread' \in [Process -> [Thread -> ThreadState]]
      /\ \A q \in Process, t \in Thread :
           thread'[q][t].at # "idle" => thread[q][t].at # "idle"
  <2>1. thread \in [Process -> [Thread -> ThreadState]]
    BY DEF TypeOK
  <2>2. [t \in Thread |-> Idle] \in [Thread -> ThreadState]
    BY IdleType
  <2>3. thread' = [thread EXCEPT ![p] = [t \in Thread |-> Idle]]
    BY DEF Exit
  <2>. QED  BY <2>1, <2>2, <2>3, IdleType
<1>5. /\ to_server' \in [Process -> Seq(Message)]
      /\ to_client' \in [Process -> Seq(Message)]
  <2>1. /\ to_server \in [Process -> Seq(Message)]
        /\ to_client \in [Process -> Seq(Message)]
    BY DEF TypeOK
  <2>. QED  BY <2>1, EmptiedType, ShortenedType DEF Exit
<1>. QED  BY <1>1, <1>2, <1>3, <1>4, <1>5, DisturbedFrame

LEMMA ResetInv ==
  ASSUME Inv, NEW p \in Process, Reset(p)
  PROVE  Inv'
<1>. TypeOK
  BY DEF Inv
<1>1. /\ UNCHANGED <<client, request_ctr, buffered, thread, backlog, connected, poll,
                     status, answer, executions>>
      /\ Closing({p}) /\ disturbed' = disturbed \cup {ClientId[p]}
  BY DEF Reset, client_vars, server_vars, calls
<1>2. /\ client' \in [Process -> {"absent", "connected", "greeted", "open", "gone"}]
      /\ buffered' \in [Process -> SUBSET Message]
      /\ thread' \in [Process -> [Thread -> ThreadState]]
  BY <1>1 DEF TypeOK
<1>3. /\ to_server' \in [Process -> Seq(Message)]
      /\ to_client' \in [Process -> Seq(Message)]
  <2>1. /\ to_server \in [Process -> Seq(Message)]
        /\ to_client \in [Process -> Seq(Message)]
    BY DEF TypeOK
  <2>. QED  BY <2>1, ShortenedType DEF Reset
<1>. QED  BY <1>1, <1>2, <1>3, DisturbedFrame

-----------------------------------------------------------------------------
LEMMA NextInv ==
  ASSUME Inv, [Next]_vars
  PROVE  Inv'
<1>1. CASE ServerStep
  BY <1>1, AcceptInv, AcceptFailsInv, AcceptsNoMoreInv, EndPollInv, ServeInv, ServeNothingInv
     DEF ServerStep
<1>2. CASE \E p \in Process : Connect(p) \/ ConnectStep(p) \/ Exit(p) \/ Reset(p)
  BY <1>2, ConnectInv, GreetInv, FinishConnectInv, ExitInv, ResetInv DEF ConnectStep
<1>3. CASE \E p \in Process, t \in Thread : Invoke(p, t) \/ ThreadStep(p, t)
  BY <1>3, InvokeInv, LookInv, ReceiveInv, KeepInv DEF ThreadStep
<1>4. CASE UNCHANGED vars
  <2>1. /\ UNCHANGED <<client, request_ctr, buffered, thread>>
        /\ UNCHANGED <<up, to_server, to_client>>
        /\ UNCHANGED <<backlog, connected, poll, disturbed>>
        /\ UNCHANGED <<status, answer, executions>>
    BY <1>4 DEF vars, client_vars, server_vars, streams, calls
  <2>2. TypeOK' /\ StreamsWereConnected'
    BY <2>1 DEF Inv, TypeOK, StreamsWereConnected
  <2>3. StreamsStayUp' /\ FailuresStayLocal'
    BY <2>1 DEF Inv, StreamsStayUp, FailuresStayLocal, Undisturbed
  <2>. QED  BY <2>2, <2>3 DEF Inv
<1>. QED  BY <1>1, <1>2, <1>3, <1>4 DEF Next

(* The streams that the server polls or has yet to accept were connected,  *)
(* and what was connected is up until its client id is disturbed or the    *)
(* server stops: the invariant that poll and the BufChannel keep.          *)
THEOREM InvCorrect == Spec => []Inv
<1>1. Spec => Init /\ [][Next]_vars
  BY DEF Spec
<1>2. Inv /\ [Next]_vars => Inv'
  BY NextInv
<1>. QED  BY <1>1, <1>2, InitInv, PTL

(* The variables keep their types: no poll accepts more than MaxAccepts    *)
(* connections, and a stream is polled or waits to be accepted, not both.  *)
THEOREM TypeCorrect == Spec => []TypeOK
<1>1. Inv => TypeOK
  BY DEF Inv
<1>. QED  BY <1>1, InvCorrect, PTL

(* A call fails only if the server stopped or a stream of its own client   *)
(* id broke: poll drops nobody else's stream.                              *)
THEOREM FailuresLocal == Spec => []FailuresStayLocal
<1>1. Inv => FailuresStayLocal
  BY DEF Inv
<1>. QED  BY <1>1, InvCorrect, PTL

-----------------------------------------------------------------------------
(***************************************************************************)
(* Where the messages of a process are.                                    *)
(***************************************************************************)
Contents(s) == {s[i] : i \in DOMAIN s}
OnlyOnce(s) == \A i, j \in DOMAIN s : s[i] = s[j] => i = j

Request(c)  == [tag |-> c[2], message |-> c]
Requests(p) == {Request(<<p, n>>) : n \in Tags(p)}

Kept(p, t)    == IF thread[p][t].at = "keep" THEN {thread[p][t].reply} ELSE {}
KeptByAny(p)  == UNION {Kept(p, t) : t \in Thread}
Backlogged(p) == \E i \in DOMAIN backlog : backlog[i] = p

(* The greetings are exchanged before the first request: a client that is  *)
(* connected waits to be accepted, unless its stream broke, and nothing    *)
(* but its greeting is under way.                                          *)
Greets(p) ==
  /\ client[p] = "absent" => ~ up[p]
  /\ client[p] \in {"absent", "connected", "greeted"} => request_ctr[p] = 0
  /\ client[p] \in {"absent", "connected"} => to_server[p] = <<>> /\ to_client[p] = <<>>
  /\ client[p] = "connected" /\ up[p] => Backlogged(p)
  /\ client[p] = "greeted" => /\ Contents(to_server[p]) \subseteq {Greeting}
                              /\ Contents(to_client[p]) \subseteq {Greeting}
  /\ client[p] = "open" => Contents(to_client[p]) \subseteq Requests(p) /\ ~ Backlogged(p)
  /\ client[p] = "gone" => ~ up[p]
  /\ Backlogged(p) => Contents(to_server[p]) \subseteq {Greeting} /\ to_client[p] = <<>>
  /\ ~ Backlogged(p) => Contents(to_server[p]) \subseteq Requests(p)

(* A request that is under way was not executed, a reply was; and no       *)
(* message is at two places.                                               *)
Tracked(p) ==
  /\ OnlyOnce(to_server[p]) /\ OnlyOnce(to_client[p])
  /\ buffered[p] \subseteq Requests(p) /\ KeptByAny(p) \subseteq Requests(p)
  /\ \A m \in Requests(p) \cap Contents(to_server[p]) :
       status[m.message] # "unused" /\ executions[m.message] = 0
  /\ \A m \in Requests(p) \cap (Contents(to_client[p]) \cup buffered[p] \cup KeptByAny(p)) :
       executions[m.message] = 1
  /\ Contents(to_client[p]) \cap buffered[p] = {}
  /\ KeptByAny(p) \cap (Contents(to_client[p]) \cup buffered[p]) = {}
  /\ \A t, u \in Thread : t # u => Kept(p, t) \cap Kept(p, u) = {}

(* Tags are taken in turn, and a call is executed once at most.            *)
Counted(p) ==
  \A n \in Tags(p) :
    /\ status[<<p, n>>] = "unused" <=> n >= request_ctr[p]
    /\ status[<<p, n>>] = "unused" => executions[<<p, n>>] = 0
    /\ executions[<<p, n>>] \in {0, 1}

(* A thread waits for a call of its own.                                   *)
Waits(p) ==
  /\ \A t \in Thread : thread[p][t].at # "idle" =>
       /\ client[p] = "open" /\ thread[p][t].tag \in Tags(p)
       /\ status[<<p, thread[p][t].tag>>] = "pending"
  /\ \A t, u \in Thread :
       t # u /\ thread[p][t].at # "idle" /\ thread[p][u].at # "idle"
         => thread[p][t].tag # thread[p][u].tag

(* What is waited for is somewhere.                                        *)
Somewhere(p) ==
  Contents(to_server[p]) \cup Contents(to_client[p]) \cup buffered[p] \cup KeptByAny(p)

Found(p) ==
  up[p] => \A n \in Tags(p) : Pending(<<p, n>>) => Request(<<p, n>>) \in Somewhere(p)

Traced(p) == Greets(p) /\ Tracked(p) /\ Counted(p) /\ Waits(p) /\ Found(p)

CallsInv == Inv /\ \A p \in Process : Traced(p)

LEMMA CallParts ==
  /\ \A p \in Process : \A n \in Tags(p) : <<p, n>> \in Call /\ n \in Nat
  /\ \A c \in Call : c[1] \in Process /\ c[2] \in Tags(c[1]) /\ c = <<c[1], c[2]>>
<1>1. \A p \in Process : \A n \in Tags(p) : <<p, n>> \in Call /\ n \in Nat
  BY EchoAssumption DEF Call, Tags
<1>2. \A c \in Call : \E p \in Process : \E n \in Tags(p) : c = <<p, n>>
  BY DEF Call
<1>. QED  BY <1>1, <1>2

LEMMA RequestParts ==
  ASSUME NEW p \in Process
  PROVE  /\ \A m \in Requests(p) : /\ m.tag \in Tags(p) /\ m.message = <<p, m.tag>>
                                   /\ m = Request(m.message) /\ m.message \in Call
                                   /\ m \in Message /\ m # Greeting
         /\ \A n \in Tags(p) : /\ Request(<<p, n>>) \in Requests(p)
                               /\ Request(<<p, n>>).tag = n
                               /\ Request(<<p, n>>).message = <<p, n>>
<1>1. ASSUME NEW m \in Requests(p)
      PROVE  /\ m.tag \in Tags(p) /\ m.message = <<p, m.tag>>
             /\ m = Request(m.message) /\ m.message \in Call
             /\ m \in Message /\ m # Greeting
  <2>1. PICK n \in Tags(p) : m = [tag |-> n, message |-> <<p, n>>]
    BY DEF Requests, Request
  <2>2. <<p, n>> \in Call /\ n \in Nat
    BY CallParts
  <2>. QED  BY <2>1, <2>2 DEF Request, Message, Greeting
<1>2. \A n \in Tags(p) : /\ Request(<<p, n>>) \in Requests(p)
                         /\ Request(<<p, n>>).tag = n
                         /\ Request(<<p, n>>).message = <<p, n>>
  BY DEF Requests, Request
<1>. QED  BY <1>1, <1>2

(* A stream that grows, is consumed, or closes. *)
LEMMA ContentsWritten ==
  ASSUME NEW s \in Seq(Message), NEW m \in Message
  PROVE  /\ Contents(Append(s, m)) = Contents(s) \cup {m}
         /\ OnlyOnce(s) /\ m \notin Contents(s) => OnlyOnce(Append(s, m))
<1>. DEFINE r == Append(s, m)
<1>1. /\ Len(s) \in Nat /\ DOMAIN s = 1 .. Len(s) /\ DOMAIN r = 1 .. Len(s) + 1
      /\ r[Len(s) + 1] = m /\ \A i \in 1 .. Len(s) : r[i] = s[i]
  OBVIOUS
<1>. HIDE DEF r
<1>2. Contents(r) = Contents(s) \cup {m}
  BY <1>1 DEF Contents
<1>3. OnlyOnce(s) /\ m \notin Contents(s) => OnlyOnce(r)
  BY <1>1 DEF OnlyOnce, Contents
<1>. QED  BY <1>2, <1>3 DEF r

LEMMA ContentsConsumed ==
  ASSUME NEW s \in Seq(Message), s # <<>>
  PROVE  /\ Head(s) \in Contents(s) /\ Contents(Tail(s)) \subseteq Contents(s)
         /\ Contents(s) = {Head(s)} \cup Contents(Tail(s))
         /\ OnlyOnce(s) => OnlyOnce(Tail(s)) /\ Head(s) \notin Contents(Tail(s))
<1>. DEFINE r == Tail(s)
<1>1. /\ Len(s) \in Nat \ {0} /\ DOMAIN s = 1 .. Len(s) /\ DOMAIN r = 1 .. Len(s) - 1
      /\ Head(s) = s[1] /\ \A i \in 1 .. Len(s) - 1 : r[i] = s[i + 1]
  <2>1. r \in Seq(Message) /\ Len(r) = Len(s) - 1 /\ Len(s) \in Nat \ {0}
    BY HeadTailProperties
  <2>2. \A i \in 1 .. Len(r) : r[i] = s[i + 1]
    BY HeadTailProperties
  <2>. QED  BY <2>1, <2>2
<1>. HIDE DEF r
<1>2. Head(s) \in Contents(s)
  BY <1>1 DEF Contents
<1>3. \A x \in Contents(r) : \E i \in 1 .. Len(s) - 1 : x = s[i + 1] /\ i + 1 \in DOMAIN s
  BY <1>1 DEF Contents
<1>4. ASSUME NEW x \in Contents(s), x # Head(s)
      PROVE  x \in Contents(r)
  <2>1. PICK i \in 1 .. Len(s) : x = s[i]
    BY <1>1 DEF Contents
  <2>2. i # 1
    BY <1>1, <1>4, <2>1
  <2>3. i - 1 \in DOMAIN r /\ r[i - 1] = s[i]
    BY <1>1, <2>2
  <2>. QED  BY <2>1, <2>3 DEF Contents
<1>5. Contents(r) \subseteq Contents(s)
  BY <1>3 DEF Contents
<1>6. ASSUME OnlyOnce(s) PROVE OnlyOnce(r) /\ Head(s) \notin Contents(r)
  <2>1. ASSUME NEW i \in DOMAIN r, NEW j \in DOMAIN r, r[i] = r[j] PROVE i = j
    <3>1. /\ i + 1 \in DOMAIN s /\ j + 1 \in DOMAIN s
          /\ s[i + 1] = s[j + 1]
      BY <1>1, <2>1
    <3>2. i + 1 = j + 1 /\ i \in Nat /\ j \in Nat
      BY <1>1, <1>6, <3>1 DEF OnlyOnce
    <3>. QED  BY <3>2
  <2>2. ASSUME Head(s) \in Contents(r) PROVE FALSE
    <3>1. PICK i \in 1 .. Len(s) - 1 : s[1] = s[i + 1] /\ i + 1 \in DOMAIN s
      BY <1>1, <1>3, <2>2
    <3>2. 1 = i + 1 /\ i >= 1 /\ i \in Nat
      BY <1>1, <1>6, <3>1 DEF OnlyOnce
    <3>. QED  BY <3>2
  <2>. QED  BY <2>1, <2>2 DEF OnlyOnce
<1>. QED  BY <1>2, <1>4, <1>5, <1>6 DEF r

LEMMA ContentsLost ==
  ASSUME NEW s \in Seq(Message)
  PROVE  /\ \A r \in Prefixes(s) : /\ Contents(r) \subseteq Contents(s)
                                   /\ OnlyOnce(s) => OnlyOnce(r)
         /\ <<>> \in Prefixes(s) /\ s \in Prefixes(s)
         /\ Contents(s) = {} <=> s = <<>>
<1>1. Len(s) \in Nat /\ DOMAIN s = 1 .. Len(s)
  OBVIOUS
<1>2. ASSUME NEW r \in Prefixes(s)
      PROVE  Contents(r) \subseteq Contents(s) /\ (OnlyOnce(s) => OnlyOnce(r))
  <2>1. PICK n \in 0 .. Len(s) : r = SubSeq(s, 1, n)
    BY DEF Prefixes
  <2>2. DOMAIN r = 1 .. n /\ \A i \in 1 .. n : r[i] = s[i] /\ i \in DOMAIN s
    BY <1>1, <2>1
  <2>. QED  BY <2>2 DEF Contents, OnlyOnce
<1>3. SubSeq(s, 1, 0) = <<>> /\ SubSeq(s, 1, Len(s)) = s
  BY <1>1
<1>4. Contents(s) = {} <=> s = <<>>
  <2>1. s # <<>> => 1 \in DOMAIN s
    OBVIOUS
  <2>2. s = <<>> => DOMAIN s = {}
    OBVIOUS
  <2>. QED  BY <2>1, <2>2 DEF Contents
<1>5. 0 \in 0 .. Len(s) /\ Len(s) \in 0 .. Len(s)
  BY <1>1
<1>6. <<>> \in Prefixes(s) /\ s \in Prefixes(s)
  BY <1>3, <1>5 DEF Prefixes
<1>. QED  BY <1>2, <1>4, <1>6

LEMMA StreamTypes ==
  ASSUME TypeOK, NEW p \in Process
  PROVE  /\ to_server[p] \in Seq(Message) /\ to_client[p] \in Seq(Message)
         /\ up[p] \in BOOLEAN
         /\ client[p] \in {"absent", "connected", "greeted", "open", "gone"}
         /\ \A t \in Thread :
              thread[p][t].at \in {"idle", "look", "receive", "keep"}
BY DEF TypeOK, ThreadState

(* A process of which nothing changes. *)
LEMMA TracedKept ==
  ASSUME NEW p \in Process, Traced(p),
         client'[p] = client[p], request_ctr'[p] = request_ctr[p],
         buffered'[p] = buffered[p], thread'[p] = thread[p], up'[p] = up[p],
         to_server'[p] = to_server[p], to_client'[p] = to_client[p],
         Backlogged(p)' <=> Backlogged(p),
         \A n \in Tags(p) : /\ status'[<<p, n>>] = status[<<p, n>>]
                            /\ executions'[<<p, n>>] = executions[<<p, n>>]
  PROVE  Traced(p)'
<1>1. Greets(p)'
  BY DEF Traced, Greets
<1>2. \A t \in Thread : Kept(p, t)' = Kept(p, t)
  BY DEF Kept
<1>3. KeptByAny(p)' = KeptByAny(p)
  BY <1>2 DEF KeptByAny
<1>4. ASSUME NEW m \in Requests(p)
      PROVE  /\ status'[m.message] = status[m.message]
             /\ executions'[m.message] = executions[m.message]
  <2>1. m.tag \in Tags(p) /\ m.message = <<p, m.tag>>
    BY RequestParts
  <2>. QED  BY <2>1
<1>5. Tracked(p)'
  BY <1>2, <1>3, <1>4 DEF Traced, Tracked
<1>6. Counted(p)' /\ Waits(p)'
  BY DEF Traced, Counted, Waits
<1>7. Found(p)'
  <2>1. \A n \in Tags(p) : Pending(<<p, n>>)' <=> Pending(<<p, n>>)
    BY DEF Pending
  <2>. QED  BY <1>3, <2>1 DEF Traced, Found, Somewhere
<1>. QED  BY <1>1, <1>5, <1>6, <1>7 DEF Traced

(* A process whose stream closes loses the end of what is under way.       *)
LEMMA TracedCloses ==
  ASSUME TypeOK, NEW p \in Process, Traced(p), ~ up'[p],
         to_server'[p] \in Prefixes(to_server[p]),
         to_client'[p] \in Prefixes(to_client[p]),
         Backlogged(p)' => Backlogged(p),
         Backlogged(p) => Backlogged(p)' \/ to_server'[p] = <<>>,
         request_ctr'[p] = request_ctr[p],
         UNCHANGED <<status, executions>>,
         \/ client'[p] = client[p] /\ buffered'[p] = buffered[p] /\ thread'[p] = thread[p]
         \/ client'[p] = "gone" /\ buffered'[p] = {} /\ \A t \in Thread : thread'[p][t] = Idle
  PROVE  Traced(p)'
<1>1. /\ Contents(to_server[p])' \subseteq Contents(to_server[p])
      /\ Contents(to_client[p])' \subseteq Contents(to_client[p])
      /\ OnlyOnce(to_server[p])' /\ OnlyOnce(to_client[p])'
  BY StreamTypes, ContentsLost DEF Traced, Tracked, Contents, OnlyOnce
<1>2. /\ to_client[p] = <<>> => to_client'[p] = <<>>
      /\ to_server[p] = <<>> => to_server'[p] = <<>>
  <2>1. \A r \in Prefixes(<<>>) : r = <<>>
    BY DEF Prefixes
  <2>. QED  BY <2>1
<1>3. Greets(p)'
  <2>1. Contents(<<>>) = {}
    BY DEF Contents
  <2>2. to_server'[p] = <<>> => Contents(to_server[p])' = {}
    BY <2>1 DEF Contents
  <2>. QED  BY <1>1, <1>2, <2>2 DEF Traced, Greets
<1>4. \A t \in Thread : Kept(p, t)' \subseteq Kept(p, t)
  BY DEF Kept, Idle
<1>5. KeptByAny(p)' \subseteq KeptByAny(p) /\ buffered'[p] \subseteq buffered[p]
  BY <1>4 DEF KeptByAny
<1>6. Tracked(p)'
  BY <1>1, <1>4, <1>5 DEF Traced, Tracked
<1>7. Counted(p)' /\ Waits(p)'
  BY DEF Traced, Counted, Waits, Idle
<1>8. Found(p)'
  BY DEF Found
<1>. QED  BY <1>3, <1>6, <1>7, <1>8 DEF Traced

-----------------------------------------------------------------------------
(***************************************************************************)
(* Connections.                                                            *)
(***************************************************************************)
LEMMA BacklogShrinks ==
  ASSUME TypeOK, StreamsWereConnected, backlog # <<>>, backlog' = Tail(backlog)
  PROVE  /\ Head(backlog) \in Process /\ Backlogged(Head(backlog))
         /\ \A q : Backlogged(q)' <=> Backlogged(q) /\ q # Head(backlog)
<1>1. /\ backlog \in Seq(Process) /\ Len(backlog) \in Nat \ {0}
      /\ DOMAIN backlog = 1 .. Len(backlog) /\ Head(backlog) = backlog[1]
  BY DEF TypeOK
<1>2. /\ DOMAIN backlog' = 1 .. Len(backlog) - 1
      /\ \A i \in 1 .. Len(backlog) - 1 : backlog'[i] = backlog[i + 1]
  <2>1. backlog' \in Seq(Process) /\ Len(backlog') = Len(backlog) - 1
    BY <1>1, HeadTailProperties
  <2>2. \A i \in 1 .. Len(backlog') : backlog'[i] = backlog[i + 1]
    BY <1>1, HeadTailProperties
  <2>. QED  BY <2>1, <2>2
<1>3. Head(backlog) \in Process /\ Backlogged(Head(backlog))
  BY <1>1 DEF Backlogged
<1>4. ASSUME NEW q, Backlogged(q)' PROVE Backlogged(q) /\ q # Head(backlog)
  <2>1. PICK i \in 1 .. Len(backlog) - 1 : backlog[i + 1] = q
    BY <1>2, <1>4 DEF Backlogged
  <2>2. i + 1 \in DOMAIN backlog /\ i + 1 # 1 /\ 1 \in DOMAIN backlog
    BY <1>1
  <2>. QED  BY <1>1, <2>1, <2>2 DEF Backlogged, StreamsWereConnected
<1>5. ASSUME NEW q, Backlogged(q), q # Head(backlog) PROVE Backlogged(q)'
  <2>1. PICK i \in 1 .. Len(backlog) : backlog[i] = q
    BY <1>1, <1>5 DEF Backlogged
  <2>2. i # 1
    BY <1>1, <1>5, <2>1
  <2>3. i - 1 \in DOMAIN backlog' /\ backlog'[i - 1] = q
    BY <1>1, <1>2, <2>1, <2>2
  <2>. QED  BY <2>3 DEF Backlogged
<1>. QED  BY <1>3, <1>4, <1>5

LEMMA BacklogGrows ==
  ASSUME TypeOK, NEW p \in Process, backlog' = Append(backlog, p)
  PROVE  \A q : Backlogged(q)' <=> Backlogged(q) \/ q = p
<1>1. /\ Len(backlog) \in Nat /\ DOMAIN backlog = 1 .. Len(backlog)
      /\ DOMAIN backlog' = 1 .. Len(backlog) + 1 /\ backlog'[Len(backlog) + 1] = p
      /\ \A i \in 1 .. Len(backlog) : backlog'[i] = backlog[i]
  BY DEF TypeOK
<1>. QED  BY <1>1 DEF Backlogged

(* A step in which nothing but greetings comes and goes.                   *)
LEMMA TracedShakes ==
  ASSUME TypeOK, NEW p \in Process, Traced(p), client[p] # "open", Greets(p)',
         OnlyOnce(to_server[p])', OnlyOnce(to_client[p])',
         Contents(to_server[p])' \subseteq Contents(to_server[p]) \cup {Greeting},
         Contents(to_client[p])' \subseteq Contents(to_client[p]) \cup {Greeting},
         UNCHANGED <<request_ctr, buffered, thread, status, executions>>,
         client'[p] = "open" => request_ctr[p] = 0
  PROVE  Traced(p)'
<1>1. KeptByAny(p)' = KeptByAny(p) /\ \A t \in Thread : Kept(p, t)' = Kept(p, t)
  BY DEF KeptByAny, Kept
<1>2. Tracked(p)'
  <2>1. Greeting \notin Requests(p)
    BY RequestParts
  <2>2. /\ Contents(to_client[p])' \cap buffered[p] = {}
        /\ KeptByAny(p) \cap (Contents(to_client[p])' \cup buffered[p]) = {}
    BY <2>1 DEF Traced, Tracked
  <2>3. /\ \A m \in Requests(p) \cap Contents(to_server[p])' :
             status[m.message] # "unused" /\ executions[m.message] = 0
        /\ \A m \in Requests(p) \cap (Contents(to_client[p])' \cup buffered[p] \cup KeptByAny(p)) :
             executions[m.message] = 1
    BY <2>1 DEF Traced, Tracked
  <2>. QED  BY <1>1, <2>2, <2>3 DEF Traced, Tracked
<1>3. Counted(p)' /\ Waits(p)'
  BY DEF Traced, Counted, Waits
<1>4. Found(p)'
  <2>1. request_ctr[p] = 0 => \A n \in Tags(p) : status[<<p, n>>] = "unused"
    BY CallParts DEF Traced, Counted
  <2>2. \A n \in Tags(p) : ~ Pending(<<p, n>>)'
    BY <2>1 DEF Pending
  <2>. QED  BY <2>2 DEF Found
<1>. QED  BY <1>2, <1>3, <1>4 DEF Traced

(* Only one process has changed. *)
LEMMA TracedOthers ==
  ASSUME CallsInv, NEW p \in Process, Traced(p)',
         \A q \in Process \ {p} :
           /\ client'[q] = client[q] /\ request_ctr'[q] = request_ctr[q]
           /\ buffered'[q] = buffered[q] /\ thread'[q] = thread[q] /\ up'[q] = up[q]
           /\ to_server'[q] = to_server[q] /\ to_client'[q] = to_client[q]
           /\ Backlogged(q)' <=> Backlogged(q)
           /\ \A n \in Tags(q) : /\ status'[<<q, n>>] = status[<<q, n>>]
                                 /\ executions'[<<q, n>>] = executions[<<q, n>>]
  PROVE  \A q \in Process : Traced(q)'
BY TracedKept DEF CallsInv

LEMMA EmptyContents == Contents(<<>>) = {} /\ OnlyOnce(<<>>)
BY DEF Contents, OnlyOnce

LEMMA GreetedOnce ==
  /\ Contents(Append(<<>>, Greeting)) = {Greeting} /\ OnlyOnce(Append(<<>>, Greeting))
<1>1. <<>> \in Seq(Message)
  OBVIOUS
<1>. QED  BY <1>1, ContentsWritten, EmptyContents, GreetingType

LEMMA TracedConnect ==
  ASSUME CallsInv, NEW p \in Process, Connect(p)
  PROVE  \A q \in Process : Traced(q)'
<1>. TypeOK /\ StreamsWereConnected /\ Traced(p)
  BY DEF CallsInv, Inv
<1>1. /\ client[p] = "absent" /\ ~ Backlogged(p)
      /\ UNCHANGED <<request_ctr, buffered, thread, to_server, to_client, status,
                     executions>>
      /\ \A q \in Process \ {p} : client'[q] = client[q] /\ up'[q] = up[q]
  BY DEF Connect, calls, StreamsWereConnected, Backlogged, TypeOK
<1>2. to_server[p] = <<>> /\ to_client[p] = <<>> /\ request_ctr[p] = 0 /\ ~ up[p]
  BY <1>1 DEF Traced, Greets
<1>3. CASE client' = [client EXCEPT ![p] = "gone"] /\ UNCHANGED <<up, backlog>>
  <2>1. client'[p] = "gone" /\ \A q : Backlogged(q)' <=> Backlogged(q)
    BY <1>3 DEF TypeOK, Backlogged
  <2>2. Greets(p)'
    BY <1>1, <1>2, <1>3, <2>1, EmptyContents DEF Greets
  <2>3. Traced(p)'
    BY <1>1, <1>2, <2>1, <2>2, EmptyContents, TracedShakes
  <2>. QED  BY <1>1, <2>1, <2>3, TracedOthers
<1>4. CASE /\ client' = [client EXCEPT ![p] = "connected"]
           /\ backlog' = Append(backlog, p)
  <2>1. client'[p] = "connected" /\ \A q : Backlogged(q)' <=> Backlogged(q) \/ q = p
    BY <1>4, BacklogGrows DEF TypeOK
  <2>2. Greets(p)'
    BY <1>1, <1>2, <2>1, EmptyContents DEF Greets
  <2>3. Traced(p)'
    BY <1>1, <1>2, <2>1, <2>2, EmptyContents, TracedShakes
  <2>. QED  BY <1>1, <2>1, <2>3, TracedOthers
<1>. QED  BY <1>3, <1>4 DEF Connect

LEMMA TracedGreet ==
  ASSUME CallsInv, NEW p \in Process, Greet(p)
  PROVE  \A q \in Process : Traced(q)'
<1>. TypeOK /\ Traced(p)
  BY DEF CallsInv, Inv
<1>1. /\ client[p] = "connected"
      /\ UNCHANGED <<request_ctr, buffered, thread, up, to_client, backlog, status,
                     executions>>
      /\ \A q \in Process \ {p} : client'[q] = client[q] /\ to_server'[q] = to_server[q]
      /\ \A q : Backlogged(q)' <=> Backlogged(q)
  BY DEF Greet, calls, server_vars, Written, Backlogged, TypeOK
<1>2. to_server[p] = <<>> /\ to_client[p] = <<>> /\ request_ctr[p] = 0
  BY <1>1 DEF Traced, Greets
<1>3. \/ client'[p] = "greeted" /\ up[p] /\ to_server'[p] = Append(<<>>, Greeting)
      \/ client'[p] = "greeted" /\ ~ up[p] /\ to_server'[p] = <<>>
      \/ client'[p] = "gone" /\ ~ up[p] /\ to_server'[p] = <<>>
  BY <1>2 DEF Greet, Written, TypeOK
<1>4. /\ Contents(to_server'[p]) \subseteq {Greeting} /\ OnlyOnce(to_server'[p])
      /\ ~ up[p] => Contents(to_server'[p]) = {}
  BY <1>3, GreetedOnce, EmptyContents
<1>5. up[p] => Backlogged(p)
  BY <1>1 DEF Traced, Greets
<1>6. Greets(p)'
  BY <1>1, <1>2, <1>3, <1>4, <1>5, EmptyContents DEF Greets
<1>7. Traced(p)'
  BY <1>1, <1>2, <1>3, <1>4, <1>6, EmptyContents, TracedShakes
<1>. QED  BY <1>1, <1>7, TracedOthers

LEMMA TracedFinishConnect ==
  ASSUME CallsInv, NEW p \in Process, FinishConnect(p)
  PROVE  \A q \in Process : Traced(q)'
<1>. TypeOK /\ Traced(p) /\ to_client[p] \in Seq(Message)
  BY StreamTypes DEF CallsInv, Inv
<1>1. /\ client[p] = "greeted"
      /\ UNCHANGED <<request_ctr, buffered, thread, up, to_server, backlog, status,
                     executions>>
      /\ \A q \in Process \ {p} : client'[q] = client[q] /\ to_client'[q] = to_client[q]
      /\ \A q : Backlogged(q)' <=> Backlogged(q)
  BY DEF FinishConnect, calls, server_vars, Consumed, Backlogged, TypeOK
<1>2. /\ request_ctr[p] = 0 /\ Contents(to_client[p]) \subseteq {Greeting}
      /\ Contents(to_server[p]) \subseteq {Greeting}
      /\ Backlogged(p) => to_client[p] = <<>>
      /\ ~ Backlogged(p) => Contents(to_server[p]) \subseteq Requests(p)
      /\ OnlyOnce(to_client[p]) /\ OnlyOnce(to_server[p])
  BY <1>1 DEF Traced, Greets, Tracked
<1>3. \/ client'[p] = "open" /\ to_client[p] # <<>> /\ to_client'[p] = Tail(to_client[p])
      \/ client'[p] = "gone" /\ ~ up[p] /\ to_client[p] = <<>> /\ to_client'[p] = <<>>
  BY DEF FinishConnect, Consumed, TypeOK
<1>4. Contents(to_client'[p]) = {} /\ OnlyOnce(to_client'[p])
  BY <1>2, <1>3, ContentsConsumed, EmptyContents
<1>5. Greets(p)'
  BY <1>1, <1>2, <1>3, <1>4 DEF Greets
<1>6. Traced(p)'
  BY <1>1, <1>2, <1>3, <1>4, <1>5, TracedShakes
<1>. QED  BY <1>1, <1>6, TracedOthers

LEMMA TracedAccept ==
  ASSUME CallsInv, Accept
  PROVE  \A q \in Process : Traced(q)'
<1>. TypeOK /\ StreamsWereConnected
  BY DEF CallsInv, Inv
<1>11. PICK p \in Process : p = Head(backlog)
  BY BacklogShrinks DEF Accept
<1>1. Backlogged(p) /\ \A q : Backlogged(q)' <=> Backlogged(q) /\ q # p
  BY <1>11, BacklogShrinks DEF Accept
<1>10. ~ Backlogged(p)' /\ \A q \in Process \ {p} : Backlogged(q)' <=> Backlogged(q)
  BY <1>1
<1>2. /\ UNCHANGED <<client, request_ctr, buffered, thread, up, status, executions>>
      /\ to_server[p] # <<>> /\ to_server' = Consumed(to_server, p)
      /\ to_client' = IF up[p] THEN Written(to_client, p, Greeting) ELSE to_client
  BY <1>11 DEF Accept, client_vars, calls
<1>3. Traced(p) /\ to_server[p] \in Seq(Message)
  BY <1>1, StreamTypes DEF CallsInv
<1>4. /\ client[p] \in {"greeted", "gone"} /\ to_client[p] = <<>>
      /\ Contents(to_server[p]) \subseteq {Greeting} /\ OnlyOnce(to_server[p])
      /\ client[p] = "gone" => ~ up[p]
      /\ client[p] = "greeted" => request_ctr[p] = 0
  BY <1>1, <1>2, <1>3, StreamTypes DEF Traced, Greets, Tracked
<1>5. /\ to_server'[p] = Tail(to_server[p])
      /\ to_client'[p] \in {<<>>, Append(<<>>, Greeting)}
      /\ \A q \in Process \ {p} : /\ to_server'[q] = to_server[q]
                                  /\ to_client'[q] = to_client[q]
  BY <1>1, <1>2, <1>4 DEF Consumed, Written, TypeOK
<1>6. Contents(to_server'[p]) = {} /\ OnlyOnce(to_server'[p])
  BY <1>2, <1>3, <1>4, <1>5, ContentsConsumed
<1>7. Contents(to_client'[p]) \subseteq {Greeting} /\ OnlyOnce(to_client'[p])
  BY <1>5, GreetedOnce, EmptyContents
<1>8. Greets(p)'
  <2>1. client'[p] \in {"greeted", "gone"} /\ (client'[p] = "gone" => ~ up'[p])
    BY <1>2, <1>4
  <2>2. client'[p] = "greeted" => request_ctr'[p] = 0
    BY <1>2, <1>4
  <2>. QED  BY <1>10, <1>6, <1>7, <2>1, <2>2 DEF Greets
<1>9. Traced(p)'
  <2>1. client[p] # "open" /\ client'[p] # "open"
    BY <1>2, <1>4
  <2>2. /\ Contents(to_server'[p]) \subseteq Contents(to_server[p]) \cup {Greeting}
        /\ Contents(to_client'[p]) \subseteq Contents(to_client[p]) \cup {Greeting}
    BY <1>6, <1>7
  <2>. QED  BY <1>1, <1>2, <1>3, <1>6, <1>7, <1>8, <2>1, <2>2, TracedShakes
<1>. QED  BY <1>1, <1>2, <1>5, <1>9, <1>10, TracedOthers

-----------------------------------------------------------------------------
(***************************************************************************)
(* Streams that close.                                                     *)
(***************************************************************************)
LEMMA LosesMost ==
  ASSUME TypeOK, NEW p \in Process
  PROVE  /\ \A P : p \in P => /\ Emptied(to_server, P)[p] = <<>>
                              /\ Emptied(to_client, P)[p] = <<>>
         /\ \A P : p \notin P => /\ Emptied(to_server, P)[p] = to_server[p]
                                 /\ Emptied(to_client, P)[p] = to_client[p]
         /\ \A P : \A s \in Shortened(to_server, P) :
              /\ p \in P => s[p] \in Prefixes(to_server[p])
              /\ p \notin P => s[p] = to_server[p]
         /\ \A P : \A s \in Shortened(to_client, P) :
              /\ p \in P => s[p] \in Prefixes(to_client[p])
              /\ p \notin P => s[p] = to_client[p]
         /\ <<>> \in Prefixes(to_server[p]) /\ <<>> \in Prefixes(to_client[p])
         /\ to_server[p] \in Prefixes(to_server[p])
         /\ to_client[p] \in Prefixes(to_client[p])
         /\ \A P : Closing(P) => up'[p] = (up[p] /\ p \notin P)
<1>1. /\ <<>> \in Prefixes(to_server[p]) /\ <<>> \in Prefixes(to_client[p])
      /\ to_server[p] \in Prefixes(to_server[p])
      /\ to_client[p] \in Prefixes(to_client[p])
  BY StreamTypes, ContentsLost
<1>2. \A P : Closing(P) => up'[p] = (up[p] /\ p \notin P)
  BY DEF Closing
<1>. QED  BY <1>1, <1>2 DEF Emptied, Shortened

LEMMA TracedStops ==
  ASSUME CallsInv, Stops,
         UNCHANGED <<client, request_ctr, buffered, thread, status, executions>>
  PROVE  \A q \in Process : Traced(q)'
<1>. TypeOK
  BY DEF CallsInv, Inv
<1>. SUFFICES ASSUME NEW q \in Process PROVE Traced(q)'
  OBVIOUS
<1>1. ~ Backlogged(q)'
  BY DEF Stops, Backlogged
<1>2. /\ ~ up'[q] /\ to_server'[q] = <<>>
      /\ to_server'[q] \in Prefixes(to_server[q])
      /\ to_client'[q] \in Prefixes(to_client[q])
  BY LosesMost DEF Stops
<1>. QED  BY <1>1, <1>2, TracedCloses DEF CallsInv

LEMMA TracedAcceptFails ==
  ASSUME CallsInv, AcceptFails
  PROVE  \A q \in Process : Traced(q)'
<1>. TypeOK /\ StreamsWereConnected
  BY DEF CallsInv, Inv
<1>1. UNCHANGED <<client, request_ctr, buffered, thread, status, executions>>
  BY DEF AcceptFails, client_vars, calls
<1>2. CASE Stops
  BY <1>1, <1>2, TracedStops
<1>3. CASE /\ backlog' = Tail(backlog)
           /\ to_server' = Emptied(to_server, {Head(backlog)})
           /\ UNCHANGED <<connected, up, to_client>>
  <2>1. PICK p \in Process : p = Head(backlog)
    BY <1>3, BacklogShrinks DEF AcceptFails
  <2>2. ~ up[p] /\ \A q : Backlogged(q)' <=> Backlogged(q) /\ q # p
    BY <1>3, <2>1, BacklogShrinks DEF AcceptFails
  <2>3. ~ Backlogged(p)' /\ \A q \in Process \ {p} : Backlogged(q)' <=> Backlogged(q)
    BY <2>2
  <2>4. to_server' = Emptied(to_server, {p})
    BY <1>3, <2>1
  <2>5. /\ to_server'[p] = <<>> /\ to_server'[p] \in Prefixes(to_server[p])
        /\ to_client'[p] \in Prefixes(to_client[p])
    BY <1>3, <2>4, LosesMost
  <2>6. \A q \in Process \ {p} : to_server'[q] = to_server[q]
    BY <2>4, LosesMost
  <2>7. Traced(p) /\ ~ up'[p]
    BY <1>3, <2>2 DEF CallsInv
  <2>8. Traced(p)'
    BY <1>1, <2>3, <2>5, <2>7, TracedCloses
  <2>. QED  BY <1>1, <1>3, <2>3, <2>6, <2>8, TracedOthers
<1>. QED  BY <1>2, <1>3 DEF AcceptFails

LEMMA TracedEndPoll ==
  ASSUME CallsInv, EndPoll
  PROVE  \A q \in Process : Traced(q)'
<1>. TypeOK
  BY DEF CallsInv, Inv
<1>. SUFFICES ASSUME NEW q \in Process PROVE Traced(q)'
  OBVIOUS
<1>1. /\ UNCHANGED <<client, request_ctr, buffered, thread, status, executions>>
      /\ Backlogged(q)' <=> Backlogged(q)
  BY DEF EndPoll, client_vars, calls, Backlogged
<1>2. CASE q \in Dropped
  <2>1. /\ ~ up'[q] /\ to_server'[q] = <<>>
        /\ to_server'[q] \in Prefixes(to_server[q])
        /\ to_client'[q] \in Prefixes(to_client[q])
    BY <1>2, LosesMost DEF EndPoll
  <2>. QED  BY <1>1, <2>1, TracedCloses DEF CallsInv
<1>3. CASE q \notin Dropped
  <2>1. /\ up'[q] = up[q] /\ to_server'[q] = to_server[q] /\ to_client'[q] = to_client[q]
    BY <1>3, LosesMost, StreamTypes DEF EndPoll
  <2>. QED  BY <1>1, <2>1, TracedKept DEF CallsInv
<1>. QED  BY <1>2, <1>3

(* A process ends, or the network resets its stream.                       *)
LEMMA TracedBreaks ==
  ASSUME CallsInv, NEW p \in Process, Exit(p) \/ Reset(p)
  PROVE  \A q \in Process : Traced(q)'
<1>. TypeOK
  BY DEF CallsInv, Inv
<1>1. /\ UNCHANGED <<request_ctr, backlog, status, executions>>
      /\ \A q : Backlogged(q)' <=> Backlogged(q)
      /\ Closing({p})
  BY DEF Exit, Reset, client_vars, server_vars, calls, Backlogged
<1>2. \A q \in Process \ {p} :
        /\ client'[q] = client[q] /\ buffered'[q] = buffered[q] /\ thread'[q] = thread[q]
        /\ up'[q] = up[q]
        /\ to_server'[q] = to_server[q] /\ to_client'[q] = to_client[q]
  <2>1. \A q \in Process \ {p} : up'[q] = up[q]
    BY <1>1, LosesMost, StreamTypes
  <2>2. \A q \in Process \ {p} :
          to_server'[q] = to_server[q] /\ to_client'[q] = to_client[q]
    BY LosesMost DEF Exit, Reset
  <2>. QED  BY <2>1, <2>2 DEF Exit, Reset, client_vars, TypeOK
<1>3. /\ ~ up'[p]
      /\ to_server'[p] \in Prefixes(to_server[p])
      /\ to_client'[p] \in Prefixes(to_client[p])
  <2>1. ~ up'[p]
    BY <1>1, LosesMost
  <2>2. /\ Emptied(to_client, {p})[p] = <<>> /\ <<>> \in Prefixes(to_client[p])
        /\ \A s \in Shortened(to_server, {p}) : s[p] \in Prefixes(to_server[p])
        /\ \A s \in Shortened(to_client, {p}) : s[p] \in Prefixes(to_client[p])
    BY LosesMost
  <2>. QED  BY <2>1, <2>2 DEF Exit, Reset
<1>4. \/ client'[p] = client[p] /\ buffered'[p] = buffered[p] /\ thread'[p] = thread[p]
      \/ client'[p] = "gone" /\ buffered'[p] = {} /\ \A t \in Thread : thread'[p][t] = Idle
  BY DEF Exit, Reset, client_vars, TypeOK
<1>5. Traced(p)'
  BY <1>1, <1>3, <1>4, TracedCloses DEF CallsInv
<1>. QED  BY <1>1, <1>2, <1>5, TracedOthers

-----------------------------------------------------------------------------
(***************************************************************************)
(* Requests are sent and executed.                                         *)
(***************************************************************************)
LEMMA OtherCalls ==
  ASSUME NEW p \in Process, NEW q \in Process \ {p}, NEW m \in Requests(p), NEW k
  PROVE  m.message # <<q, k>>
<1>1. m.message = <<p, m.tag>>
  BY RequestParts
<1>. QED  BY <1>1

LEMMA TracedServe ==
  ASSUME CallsInv, NEW p \in Process, Serve(p)
  PROVE  \A q \in Process : Traced(q)'
<1>. TypeOK /\ Traced(p) /\ to_server[p] \in Seq(Message) /\ to_client[p] \in Seq(Message)
  BY StreamTypes DEF CallsInv, Inv
<1>1. PICK m : m = Head(to_server[p])
  OBVIOUS
<1>2. /\ UNCHANGED <<client, request_ctr, buffered, thread, up, backlog, status>>
      /\ p \in connected /\ to_server[p] # <<>> /\ to_server' = Consumed(to_server, p)
      /\ executions' = [executions EXCEPT ![m.message] = @ + 1]
      /\ to_client' = IF up[p] THEN Written(to_client, p, m) ELSE to_client
  BY <1>1 DEF Serve, client_vars, TypeOK
<1>3. ~ Backlogged(p) /\ \A q : Backlogged(q)' <=> Backlogged(q)
  BY <1>2 DEF Backlogged, TypeOK
<1>4. /\ m \in Contents(to_server[p]) /\ OnlyOnce(to_server'[p])
      /\ to_server'[p] = Tail(to_server[p])
      /\ Contents(to_server[p]) = {m} \cup Contents(to_server'[p])
      /\ m \notin Contents(to_server'[p])
  BY <1>1, <1>2, ContentsConsumed DEF Traced, Tracked, Consumed, TypeOK
<1>5. /\ m \in Requests(p) /\ Contents(to_server[p]) \subseteq Requests(p)
      /\ status[m.message] # "unused" /\ executions[m.message] = 0
  BY <1>3, <1>4 DEF Traced, Greets, Tracked
<1>6. /\ m.tag \in Tags(p) /\ m.message = <<p, m.tag>> /\ m.message \in Call
      /\ m \in Message /\ m # Greeting
      /\ \A r \in Requests(p) : r # m => r.message # m.message
  BY <1>5, RequestParts
<1>7. client[p] \in {"open", "gone"}
  <2>1. m # Greeting /\ to_server[p] # <<>>
    BY <1>2, <1>6
  <2>. QED  BY <1>4, <2>1, StreamTypes DEF Traced, Greets
<1>8. /\ executions'[m.message] = 1
      /\ \A c \in Call : c # m.message => executions'[c] = executions[c]
  BY <1>2, <1>5, <1>6 DEF TypeOK
<1>9. m \notin Contents(to_client[p]) \cup buffered[p] \cup KeptByAny(p)
  BY <1>5 DEF Traced, Tracked
<1>10. /\ OnlyOnce(to_client'[p])
       /\ up[p] => Contents(to_client'[p]) = Contents(to_client[p]) \cup {m}
       /\ ~ up[p] => Contents(to_client'[p]) = Contents(to_client[p])
  <2>1. /\ up[p] => to_client'[p] = Append(to_client[p], m)
        /\ ~ up[p] => to_client'[p] = to_client[p]
    BY <1>2 DEF Written, TypeOK
  <2>2. OnlyOnce(to_client[p])
    BY DEF Traced, Tracked
  <2>. QED  BY <1>6, <1>9, <2>1, <2>2, ContentsWritten
<1>11. KeptByAny(p)' = KeptByAny(p) /\ \A t \in Thread : Kept(p, t)' = Kept(p, t)
  BY <1>2 DEF KeptByAny, Kept
<1>12. Greets(p)'
  <2>1. client[p] = "open" => Contents(to_client'[p]) \subseteq Requests(p)
    BY <1>5, <1>10 DEF Traced, Greets
  <2>2. client[p] = "gone" => ~ up[p]
    BY DEF Traced, Greets
  <2>3. ~ Backlogged(p)' /\ Contents(to_server'[p]) \subseteq Requests(p)
    BY <1>3, <1>4, <1>5
  <2>. QED  BY <1>2, <1>7, <2>1, <2>2, <2>3 DEF Greets
<1>13. Tracked(p)'
  <2>1. \A r \in Requests(p) : r.message \in Call
    BY RequestParts
  <2>2. \A r \in Requests(p) \cap Contents(to_server'[p]) :
          status[r.message] # "unused" /\ executions'[r.message] = 0
    BY <1>4, <1>6, <1>8, <2>1 DEF Traced, Tracked
  <2>3. \A r \in Requests(p) \cap (Contents(to_client'[p]) \cup buffered[p] \cup KeptByAny(p)) :
          executions'[r.message] = 1
    <3>1. ASSUME NEW r \in Requests(p) \cap (Contents(to_client'[p]) \cup buffered[p] \cup KeptByAny(p)),
                 r # m
          PROVE  executions'[r.message] = 1
      <4>1. r \in Contents(to_client[p]) \cup buffered[p] \cup KeptByAny(p)
        BY <1>10, <3>1
      <4>. QED  BY <1>6, <1>8, <2>1, <3>1, <4>1 DEF Traced, Tracked
    <3>. QED  BY <1>8, <3>1
  <2>4. /\ Contents(to_client'[p]) \cap buffered[p] = {}
        /\ KeptByAny(p) \cap (Contents(to_client'[p]) \cup buffered[p]) = {}
    <3>1. /\ Contents(to_client[p]) \cap buffered[p] = {}
          /\ KeptByAny(p) \cap (Contents(to_client[p]) \cup buffered[p]) = {}
      BY DEF Traced, Tracked
    <3>2. Contents(to_client'[p]) \subseteq Contents(to_client[p]) \cup {m}
      BY <1>10
    <3>. QED  BY <1>9, <3>1, <3>2
  <2>5. /\ buffered[p] \subseteq Requests(p) /\ KeptByAny(p) \subseteq Requests(p)
        /\ \A t, u \in Thread : t # u => Kept(p, t) \cap Kept(p, u) = {}
    BY DEF Traced, Tracked
  <2>6. buffered' = buffered /\ status' = status
    BY <1>2
  <2>. QED  BY <1>4, <1>10, <1>11, <2>2, <2>3, <2>4, <2>5, <2>6 DEF Tracked
<1>14. Counted(p)'
  <2>1. ASSUME NEW n \in Tags(p)
        PROVE  /\ status[<<p, n>>] = "unused" => executions'[<<p, n>>] = 0
               /\ executions'[<<p, n>>] \in {0, 1}
    <3>1. <<p, n>> \in Call
      BY CallParts
    <3>2. CASE <<p, n>> = m.message
      BY <1>5, <1>8, <3>2
    <3>3. CASE <<p, n>> # m.message
      BY <1>8, <3>1, <3>3 DEF Traced, Counted
    <3>. QED  BY <3>2, <3>3
  <2>. QED  BY <1>2, <2>1 DEF Traced, Counted
<1>15. Waits(p)'
  BY <1>2 DEF Traced, Waits
<1>16. Found(p)'
  <2>1. up[p] => Somewhere(p)' = Somewhere(p)
    <3>1. up[p] => Contents(to_client'[p]) = Contents(to_client[p]) \cup {m}
      BY <1>10
    <3>2. buffered' = buffered
      BY <1>2
    <3>. QED  BY <1>4, <1>11, <3>1, <3>2 DEF Somewhere
  <2>2. \A c : Pending(c)' <=> Pending(c)
    BY <1>2 DEF Pending
  <2>. QED  BY <1>2, <2>1, <2>2 DEF Traced, Found
<1>17. Traced(p)'
  BY <1>12, <1>13, <1>14, <1>15, <1>16 DEF Traced
<1>18. \A q \in Process \ {p} : \A n \in Tags(q) : executions'[<<q, n>>] = executions[<<q, n>>]
  BY <1>5, <1>8, CallParts, OtherCalls
<1>19. \A q \in Process \ {p} : /\ to_server'[q] = to_server[q]
                                /\ to_client'[q] = to_client[q]
  BY <1>2 DEF Consumed, Written, TypeOK
<1>. QED  BY <1>2, <1>3, <1>17, <1>18, <1>19, TracedOthers

LEMMA TracedInvoke ==
  ASSUME CallsInv, NEW p \in Process, NEW t \in Thread, Invoke(p, t)
  PROVE  \A q \in Process : Traced(q)'
<1>. TypeOK /\ Traced(p) /\ to_server[p] \in Seq(Message) /\ to_client[p] \in Seq(Message)
  BY StreamTypes DEF CallsInv, Inv
<1>1. PICK n \in Tags(p) : n = request_ctr[p]
  BY DEF Invoke
<1>2. PICK m \in Requests(p) : m = Request(<<p, n>>)
  BY RequestParts
<1>3. /\ UNCHANGED <<client, buffered, up, to_client, backlog, executions>>
      /\ client[p] = "open" /\ thread[p][t].at = "idle"
      /\ request_ctr' = [request_ctr EXCEPT ![p] = n + 1]
      /\ \A q : Backlogged(q)' <=> Backlogged(q)
  BY <1>1 DEF Invoke, server_vars, Backlogged
<1>4. \/ /\ to_server' = IF up[p] THEN Written(to_server, p, m) ELSE to_server
         /\ thread' = [thread EXCEPT ![p][t] = [at |-> "look", tag |-> n, reply |-> Greeting]]
         /\ status' = [status EXCEPT ![<<p, n>>] = "pending"]
      \/ /\ ~ up[p] /\ to_server' = to_server /\ thread' = thread
         /\ status' = [status EXCEPT ![<<p, n>>] = "failed"]
  BY <1>1, <1>2 DEF Invoke, Request
<1>5. <<p, n>> \in Call /\ n \in Nat /\ \A k \in Tags(p) : <<p, k>> \in Call /\ k \in Nat
  BY CallParts
<1>6. status[<<p, n>>] = "unused" /\ executions[<<p, n>>] = 0
  BY <1>1, <1>5 DEF Traced, Counted
<1>7. /\ m.message = <<p, n>> /\ m \in Message
      /\ \A r \in Requests(p) : /\ r # m => r.message # <<p, n>>
                                /\ r.message \in Call
  BY <1>2, RequestParts
<1>8. /\ status'[<<p, n>>] \in {"pending", "failed"}
      /\ up[p] => status'[<<p, n>>] = "pending"
      /\ \A c \in Call : c # <<p, n>> => status'[c] = status[c]
  BY <1>4, <1>5 DEF TypeOK
<1>9. m \notin Contents(to_server[p]) \cup Contents(to_client[p]) \cup buffered[p] \cup KeptByAny(p)
  BY <1>6, <1>7 DEF Traced, Tracked
<1>10. /\ OnlyOnce(to_server'[p])
       /\ up[p] => Contents(to_server'[p]) = Contents(to_server[p]) \cup {m}
       /\ ~ up[p] => Contents(to_server'[p]) = Contents(to_server[p])
       /\ \A q \in Process \ {p} : to_server'[q] = to_server[q]
  <2>1. /\ up[p] => to_server'[p] = Append(to_server[p], m)
        /\ ~ up[p] => to_server'[p] = to_server[p]
        /\ \A q \in Process \ {p} : to_server'[q] = to_server[q]
    BY <1>4 DEF Written, TypeOK
  <2>2. OnlyOnce(to_server[p])
    BY DEF Traced, Tracked
  <2>. QED  BY <1>7, <1>9, <2>1, <2>2, ContentsWritten
<1>11. /\ \A u \in Thread \ {t} : thread'[p][u] = thread[p][u]
       /\ \/ thread'[p][t] = thread[p][t]
          \/ /\ thread'[p][t].at = "look" /\ thread'[p][t].tag = n
             /\ status'[<<p, n>>] = "pending"
       /\ \A q \in Process \ {p} : thread'[q] = thread[q]
  BY <1>4, <1>5 DEF TypeOK
<1>12. KeptByAny(p)' = KeptByAny(p) /\ \A u \in Thread : Kept(p, u)' = Kept(p, u)
  <2>1. \A u \in Thread : Kept(p, u)' = Kept(p, u)
    BY <1>3, <1>11 DEF Kept
  <2>. QED  BY <2>1 DEF KeptByAny
<1>13. Greets(p)'
  <2>1. ~ Backlogged(p) /\ Contents(to_client[p]) \subseteq Requests(p)
    BY <1>3 DEF Traced, Greets
  <2>2. Contents(to_server'[p]) \subseteq Requests(p)
    BY <1>10, <2>1 DEF Traced, Greets
  <2>3. ~ Backlogged(p)' /\ client'[p] = "open" /\ to_client' = to_client
    BY <1>3, <2>1
  <2>. QED  BY <2>1, <2>2, <2>3 DEF Greets
<1>14. Tracked(p)'
  <2>1. \A r \in Requests(p) \cap Contents(to_server'[p]) :
          status'[r.message] # "unused" /\ executions[r.message] = 0
    <3>1. ASSUME NEW r \in Requests(p) \cap Contents(to_server'[p]), r # m
          PROVE  status'[r.message] # "unused" /\ executions[r.message] = 0
      <4>1. r \in Contents(to_server[p])
        BY <1>10, <3>1
      <4>. QED  BY <1>7, <1>8, <3>1, <4>1 DEF Traced, Tracked
    <3>. QED  BY <1>6, <1>7, <1>8, <3>1
  <2>2. UNCHANGED <<buffered, to_client, executions>>
    BY <1>3
  <2>. QED  BY <1>10, <1>12, <2>1, <2>2 DEF Traced, Tracked
<1>15. Counted(p)'
  <2>1. request_ctr'[p] = n + 1
    BY <1>3 DEF TypeOK
  <2>2. ASSUME NEW k \in Tags(p)
        PROVE  /\ status'[<<p, k>>] = "unused" <=> k >= n + 1
               /\ status'[<<p, k>>] = "unused" => executions[<<p, k>>] = 0
    <3>1. CASE k = n
      BY <1>5, <1>8, <3>1
    <3>2. CASE k # n
      <4>1. status'[<<p, k>>] = status[<<p, k>>]
        BY <1>5, <1>8, <3>2
      <4>2. k >= n <=> k >= n + 1
        BY <1>5, <3>2
      <4>. QED  BY <1>1, <4>1, <4>2 DEF Traced, Counted
    <3>. QED  BY <3>1, <3>2
  <2>. QED  BY <1>3, <2>1, <2>2 DEF Traced, Counted
<1>16. Waits(p)'
  <2>1. ASSUME NEW u \in Thread \ {t}, thread[p][u].at # "idle"
        PROVE  /\ thread[p][u].tag \in Tags(p) /\ thread[p][u].tag # n
               /\ status'[<<p, thread[p][u].tag>>] = "pending"
    <3>1. /\ thread[p][u].tag \in Tags(p)
          /\ status[<<p, thread[p][u].tag>>] = "pending"
      BY <2>1 DEF Traced, Waits
    <3>2. thread[p][u].tag # n
      BY <1>6, <3>1
    <3>. QED  BY <1>5, <1>8, <3>1, <3>2
  <2>2. client'[p] = "open"
    BY <1>3
  <2>3. thread'[p][t].at # "idle" =>
          thread'[p][t].tag = n /\ status'[<<p, n>>] = "pending"
    BY <1>3, <1>11
  <2>4. \A u, v \in Thread :
          u # v /\ thread[p][u].at # "idle" /\ thread[p][v].at # "idle"
            => thread[p][u].tag # thread[p][v].tag
    BY DEF Traced, Waits
  <2>5. \A u \in Thread : thread'[p][u].at # "idle" =>
          /\ thread'[p][u].tag \in Tags(p)
          /\ status'[<<p, thread'[p][u].tag>>] = "pending"
    BY <1>11, <2>1, <2>3
  <2>6. \A u, v \in Thread :
          u # v /\ thread'[p][u].at # "idle" /\ thread'[p][v].at # "idle"
            => thread'[p][u].tag # thread'[p][v].tag
    BY <1>11, <2>1, <2>3, <2>4
  <2>. QED  BY <2>2, <2>5, <2>6 DEF Waits
<1>17. Found(p)'
  <2>1. up[p] => Somewhere(p)' = Somewhere(p) \cup {m}
    <3>1. buffered' = buffered /\ to_client' = to_client
      BY <1>3
    <3>2. up[p] => Contents(to_server'[p]) = Contents(to_server[p]) \cup {m}
      BY <1>10
    <3>. QED  BY <1>12, <3>1, <3>2 DEF Somewhere
  <2>2. \A k \in Tags(p) : k # n => (Pending(<<p, k>>)' <=> Pending(<<p, k>>))
    BY <1>3, <1>5, <1>8 DEF Pending
  <2>. QED  BY <1>2, <1>3, <2>1, <2>2 DEF Traced, Found
<1>18. Traced(p)'
  BY <1>13, <1>14, <1>15, <1>16, <1>17 DEF Traced
<1>19. \A q \in Process \ {p} : \A k \in Tags(q) : status'[<<q, k>>] = status[<<q, k>>]
  BY <1>8, CallParts
<1>20. \A q \in Process \ {p} : request_ctr'[q] = request_ctr[q]
  BY <1>3 DEF TypeOK
<1>. QED  BY <1>3, <1>10, <1>11, <1>18, <1>19, <1>20, TracedOthers

(* A poll that serves nobody, and a step of nobody. *)
LEMMA TracedIdles ==
  ASSUME CallsInv,
         \/ AcceptsNoMore
         \/ \E p \in Process : ServeNothing(p)
         \/ UNCHANGED vars
  PROVE  \A q \in Process : Traced(q)'
<1>1. UNCHANGED <<client, request_ctr, buffered, thread, up, to_server, to_client,
                  backlog, status, executions>>
  BY DEF AcceptsNoMore, ServeNothing, vars, client_vars, streams, server_vars, calls
<1>2. \A q : Backlogged(q)' <=> Backlogged(q)
  BY <1>1 DEF Backlogged
<1>. QED  BY <1>1, <1>2, TracedKept DEF CallsInv

-----------------------------------------------------------------------------
(***************************************************************************)
(* Replies are received: a thread moves what has arrived for its process   *)
(* between the stream, its hands and the buffer, and takes out only the    *)
(* reply to the call it waits for, which is then no longer pending.        *)
(***************************************************************************)
LEMMA TracedThread ==
  ASSUME CallsInv, NEW p \in Process, NEW t \in Thread, NEW n \in Tags(p),
         thread[p][t].at # "idle", thread[p][t].tag = n,
         UNCHANGED <<client, request_ctr, up, to_server, backlog, executions>>,
         \A q \in Process \ {p} : /\ buffered'[q] = buffered[q] /\ thread'[q] = thread[q]
                                  /\ to_client'[q] = to_client[q],
         \A u \in Thread \ {t} : thread'[p][u] = thread[p][u],
         \A c \in Call : c # <<p, n>> => status'[c] = status[c],
         \/ thread'[p][t].at = "idle" /\ status'[<<p, n>>] \in {"answered", "failed"}
         \/ /\ thread'[p][t].at # "idle" /\ thread'[p][t].tag = n
            /\ status'[<<p, n>>] = status[<<p, n>>],
         OnlyOnce(to_client'[p]),
         Contents(to_client'[p]) \cup buffered'[p] \cup Kept(p, t)' \subseteq
           Contents(to_client[p]) \cup buffered[p] \cup Kept(p, t),
         Contents(to_client'[p]) \subseteq Contents(to_client[p]),
         Contents(to_client'[p]) \cap buffered'[p] = {},
         Kept(p, t)' \cap (Contents(to_client'[p]) \cup buffered'[p]) = {},
         \A m \in Contents(to_client[p]) \cup buffered[p] \cup Kept(p, t) :
           \/ m \in Contents(to_client'[p]) \cup buffered'[p] \cup Kept(p, t)'
           \/ m = Request(<<p, n>>) /\ status'[<<p, n>>] # "pending"
  PROVE  \A q \in Process : Traced(q)'
<1>. TypeOK /\ Traced(p)
  BY DEF CallsInv, Inv
<1>. DEFINE Others == UNION {Kept(p, u) : u \in Thread \ {t}}
<1>1. KeptByAny(p) = Others \cup Kept(p, t)
  BY DEF KeptByAny
<1>2. \A u \in Thread \ {t} : Kept(p, u)' = Kept(p, u)
  BY DEF Kept
<1>3. Others' = Others /\ KeptByAny(p)' = Others \cup Kept(p, t)'
  BY <1>2 DEF KeptByAny
<1>4. /\ Others \cap (Contents(to_client[p]) \cup buffered[p]) = {}
      /\ Kept(p, t) \cap (Contents(to_client[p]) \cup buffered[p]) = {}
      /\ Others \cap Kept(p, t) = {}
      /\ \A u, v \in Thread \ {t} : u # v => Kept(p, u) \cap Kept(p, v) = {}
  <2>1. KeptByAny(p) \cap (Contents(to_client[p]) \cup buffered[p]) = {}
    BY DEF Traced, Tracked
  <2>2. \A u, v \in Thread : u # v => Kept(p, u) \cap Kept(p, v) = {}
    BY DEF Traced, Tracked
  <2>3. Others \cap Kept(p, t) = {}
    BY <2>2
  <2>. QED  BY <1>1, <2>1, <2>2, <2>3
<1>. HIDE DEF Others
<1>5. client[p] = "open" /\ status[<<p, n>>] = "pending"
  BY DEF Traced, Waits
<1>6. Backlogged(p)' <=> Backlogged(p)
  BY DEF Backlogged
<1>7. Greets(p)'
  <2>1. /\ Contents(to_client[p]) \subseteq Requests(p) /\ ~ Backlogged(p)
        /\ Contents(to_server[p]) \subseteq Requests(p)
    BY <1>5 DEF Traced, Greets
  <2>2. client'[p] = "open" /\ to_server'[p] = to_server[p]
    BY <1>5
  <2>. QED  BY <1>6, <2>1, <2>2 DEF Greets
<1>8. \A c \in Call : status'[c] = "unused" <=> status[c] = "unused"
  BY <1>5
<1>9. \A r \in Requests(p) : r.message \in Call
  BY RequestParts
<1>10. Tracked(p)'
  <2>1. /\ buffered'[p] \subseteq Requests(p)
        /\ Others \cup Kept(p, t)' \subseteq Requests(p)
    <3>1. /\ buffered[p] \subseteq Requests(p) /\ KeptByAny(p) \subseteq Requests(p)
          /\ Contents(to_client[p]) \subseteq Requests(p)
      BY <1>5 DEF Traced, Tracked, Greets
    <3>. QED  BY <1>1, <3>1
  <2>2. \A m \in Requests(p) \cap Contents(to_server[p]) :
          status'[m.message] # "unused" /\ executions[m.message] = 0
    BY <1>8, <1>9 DEF Traced, Tracked
  <2>3. \A m \in Requests(p) \cap (Contents(to_client'[p]) \cup buffered'[p] \cup Others
                                    \cup Kept(p, t)') :
          executions[m.message] = 1
    <3>1. \A m \in Requests(p) \cap (Contents(to_client[p]) \cup buffered[p] \cup KeptByAny(p)) :
            executions[m.message] = 1
      BY DEF Traced, Tracked
    <3>2. Contents(to_client'[p]) \cup buffered'[p] \cup Others \cup Kept(p, t)' \subseteq
            Contents(to_client[p]) \cup buffered[p] \cup KeptByAny(p)
      BY <1>1
    <3>. QED  BY <3>1, <3>2
  <2>4. (Others \cup Kept(p, t)') \cap (Contents(to_client'[p]) \cup buffered'[p]) = {}
    BY <1>4
  <2>5. Others \cap Kept(p, t)' = {}
    BY <1>4
  <2>6. \A u \in Thread \ {t} : Kept(p, u) \cap Kept(p, t)' = {}
    BY <2>5 DEF Others
  <2>7. \A u, v \in Thread : u # v => Kept(p, u)' \cap Kept(p, v)' = {}
    BY <1>2, <1>4, <2>6
  <2>8. OnlyOnce(to_server[p])
    BY DEF Traced, Tracked
  <2>. QED  BY <1>3, <2>1, <2>2, <2>3, <2>4, <2>7, <2>8 DEF Tracked
<1>11. Counted(p)'
  BY <1>8, CallParts DEF Traced, Counted
<1>12. Waits(p)'
  <2>1. ASSUME NEW u \in Thread \ {t}, thread[p][u].at # "idle"
        PROVE  /\ thread[p][u].tag \in Tags(p) /\ thread[p][u].tag # n
               /\ status'[<<p, thread[p][u].tag>>] = "pending"
    <3>1. /\ thread[p][u].tag \in Tags(p) /\ thread[p][u].tag # n
          /\ status[<<p, thread[p][u].tag>>] = "pending"
      BY <2>1 DEF Traced, Waits
    <3>2. <<p, thread[p][u].tag>> \in Call /\ <<p, thread[p][u].tag>> # <<p, n>>
      BY <3>1, CallParts
    <3>. QED  BY <3>1, <3>2
  <2>2. client'[p] = "open"
    BY <1>5
  <2>3. \A u, v \in Thread :
          u # v /\ thread[p][u].at # "idle" /\ thread[p][v].at # "idle"
            => thread[p][u].tag # thread[p][v].tag
    BY DEF Traced, Waits
  <2>4. \A u \in Thread : thread'[p][u].at # "idle" =>
          /\ thread'[p][u].tag \in Tags(p)
          /\ status'[<<p, thread'[p][u].tag>>] = "pending"
    BY <1>5, <2>1
  <2>5. \A u, v \in Thread :
          u # v /\ thread'[p][u].at # "idle" /\ thread'[p][v].at # "idle"
            => thread'[p][u].tag # thread'[p][v].tag
    BY <2>1, <2>3
  <2>. QED  BY <2>2, <2>4, <2>5 DEF Waits
<1>13. Found(p)'
  <2>1. ASSUME up[p], NEW k \in Tags(p), Pending(<<p, k>>)'
        PROVE  Request(<<p, k>>) \in Somewhere(p)'
    <3>1. <<p, k>> \in Call /\ (k # n => <<p, k>> # <<p, n>>)
      BY CallParts
    <3>2. Pending(<<p, k>>)
      BY <1>5, <2>1, <3>1 DEF Pending
    <3>3. Request(<<p, k>>) \in Contents(to_server[p]) \cup Contents(to_client[p])
            \cup buffered[p] \cup Kept(p, t) \cup Others
      BY <1>1, <2>1, <3>2 DEF Traced, Found, Somewhere
    <3>4. k # n => Request(<<p, k>>) # Request(<<p, n>>)
      BY DEF Request
    <3>5. status'[<<p, k>>] = "pending"
      BY <2>1 DEF Pending
    <3>6. Request(<<p, k>>) \in Contents(to_server[p]) \cup Contents(to_client'[p])
            \cup buffered'[p] \cup Kept(p, t)' \cup Others
      BY <3>3, <3>4, <3>5
    <3>. QED  BY <1>3, <3>6 DEF Somewhere
  <2>. QED  BY <2>1 DEF Found
<1>14. Traced(p)'
  BY <1>7, <1>10, <1>11, <1>12, <1>13 DEF Traced
<1>15. \A q \in Process \ {p} : \A k \in Tags(q) : status'[<<q, k>>] = status[<<q, k>>]
  BY CallParts
<1>16. \A q \in Process : Backlogged(q)' <=> Backlogged(q)
  BY DEF Backlogged
<1>. QED  BY <1>14, <1>15, <1>16, TracedOthers

(* What a thread that waits has to do with. *)
LEMMA WaitsFor ==
  ASSUME CallsInv, NEW p \in Process, NEW t \in Thread, thread[p][t].at # "idle"
  PROVE  /\ thread[p][t].tag \in Tags(p) /\ <<p, thread[p][t].tag>> \in Call
         /\ client[p] = "open" /\ status[<<p, thread[p][t].tag>>] = "pending"
         /\ Contents(to_client[p]) \cup buffered[p] \cup KeptByAny(p) \subseteq Requests(p)
         /\ \A m \in Requests(p) : m.tag = thread[p][t].tag =>
              m = Request(<<p, thread[p][t].tag>>)
         /\ to_client[p] \in Seq(Message) /\ OnlyOnce(to_client[p])
         /\ Contents(to_client[p]) \cap buffered[p] = {}
         /\ Kept(p, t) \subseteq KeptByAny(p)
         /\ Kept(p, t) \cap (Contents(to_client[p]) \cup buffered[p]) = {}
<1>. TypeOK /\ Traced(p)
  BY DEF CallsInv, Inv
<1>1. /\ thread[p][t].tag \in Tags(p) /\ client[p] = "open"
      /\ status[<<p, thread[p][t].tag>>] = "pending"
  BY DEF Traced, Waits
<1>2. Contents(to_client[p]) \cup buffered[p] \cup KeptByAny(p) \subseteq Requests(p)
  BY <1>1 DEF Traced, Greets, Tracked
<1>3. \A m \in Requests(p) : m = Request(<<p, m.tag>>)
  BY RequestParts
<1>4. Kept(p, t) \subseteq KeptByAny(p)
  BY DEF KeptByAny
<1>. QED  BY <1>1, <1>2, <1>3, <1>4, CallParts, StreamTypes DEF Traced, Tracked

LEMMA ReturnsReply ==
  ASSUME CallsInv, NEW p \in Process, NEW t \in Thread, NEW m, Returns(p, t, m),
         thread[p][t].at # "idle", NEW n, n = thread[p][t].tag
  PROVE  /\ thread'[p][t] = Idle /\ status'[<<p, n>>] = "answered"
         /\ \A c \in Call : c # <<p, n>> => status'[c] = status[c]
         /\ \A u \in Thread \ {t} : thread'[p][u] = thread[p][u]
         /\ \A q \in Process \ {p} : thread'[q] = thread[q]
<1>. TypeOK /\ <<p, n>> \in Call
  BY WaitsFor DEF CallsInv, Inv
<1>. QED  BY DEF Returns, TypeOK

LEMMA GoesElsewhere ==
  ASSUME TypeOK, NEW p \in Process, NEW t \in Thread, NEW s, Goes(p, t, s)
  PROVE  /\ thread'[p][t].at = s /\ thread'[p][t].tag = thread[p][t].tag
         /\ \A u \in Thread \ {t} : thread'[p][u] = thread[p][u]
         /\ \A q \in Process \ {p} : thread'[q] = thread[q]
<1>1. thread \in [Process -> [Thread -> ThreadState]]
  BY DEF TypeOK
<1>. QED  BY <1>1 DEF Goes, ThreadState

LEMMA TracedLook ==
  ASSUME CallsInv, NEW p \in Process, NEW t \in Thread, Look(p, t)
  PROVE  \A q \in Process : Traced(q)'
<1>. TypeOK
  BY DEF CallsInv, Inv
<1>1. /\ UNCHANGED <<client, request_ctr, up, to_server, to_client, backlog, executions>>
      /\ thread[p][t].at = "look"
  BY DEF Look, streams, server_vars
<1>2. PICK n \in Tags(p) : n = thread[p][t].tag
  BY <1>1, WaitsFor
<1>3. Kept(p, t) = {}
  BY <1>1 DEF Kept
<1>4. /\ OnlyOnce(to_client[p]) /\ buffered[p] \subseteq Requests(p)
      /\ Contents(to_client[p]) \cap buffered[p] = {}
      /\ \A r \in Requests(p) : r.tag = n => r = Request(<<p, n>>)
  BY <1>1, <1>2, WaitsFor
<1>5. ASSUME NEW m \in buffered[p], m.tag = n, Returns(p, t, m),
             buffered' = [buffered EXCEPT ![p] = @ \ {m}]
      PROVE  \A q \in Process : Traced(q)'
  <2>1. /\ buffered'[p] = buffered[p] \ {m}
        /\ \A q \in Process \ {p} : buffered'[q] = buffered[q]
    BY <1>5 DEF TypeOK
  <2>2. /\ thread'[p][t] = Idle /\ status'[<<p, n>>] = "answered"
        /\ \A c \in Call : c # <<p, n>> => status'[c] = status[c]
        /\ \A u \in Thread \ {t} : thread'[p][u] = thread[p][u]
        /\ \A q \in Process \ {p} : thread'[q] = thread[q]
    BY <1>1, <1>2, <1>5, ReturnsReply
  <2>3. Kept(p, t)' = {} /\ thread'[p][t].at = "idle"
    BY <2>2 DEF Kept, Idle
  <2>4. m = Request(<<p, n>>)
    BY <1>4, <1>5
  <2>5. \A r \in Contents(to_client[p]) \cup buffered[p] \cup Kept(p, t) :
           \/ r \in Contents(to_client'[p]) \cup buffered'[p] \cup Kept(p, t)'
           \/ r = Request(<<p, n>>) /\ status'[<<p, n>>] # "pending"
    BY <1>1, <1>3, <2>1, <2>2, <2>4
  <2>6. /\ Contents(to_client'[p]) = Contents(to_client[p]) /\ OnlyOnce(to_client'[p])
        /\ \A q \in Process \ {p} : to_client'[q] = to_client[q]
    BY <1>1, <1>4
  <2>. QED  BY <1>1, <1>2, <1>3, <1>4, <2>1, <2>2, <2>3, <2>5, <2>6, TracedThread
<1>6. ASSUME Goes(p, t, "receive"), UNCHANGED <<buffered, status>>
      PROVE  \A q \in Process : Traced(q)'
  <2>1. /\ thread'[p][t].at = "receive" /\ thread'[p][t].tag = n
        /\ \A u \in Thread \ {t} : thread'[p][u] = thread[p][u]
        /\ \A q \in Process \ {p} : thread'[q] = thread[q]
    BY <1>2, <1>6, GoesElsewhere
  <2>2. Kept(p, t)' = {}
    BY <2>1 DEF Kept
  <2>3. /\ Contents(to_client'[p]) = Contents(to_client[p]) /\ OnlyOnce(to_client'[p])
        /\ \A q \in Process \ {p} : to_client'[q] = to_client[q]
    BY <1>1, <1>4
  <2>. QED  BY <1>1, <1>2, <1>3, <1>4, <1>6, <2>1, <2>2, <2>3, TracedThread
<1>. QED  BY <1>2, <1>5, <1>6 DEF Look

LEMMA TracedReceive ==
  ASSUME CallsInv, NEW p \in Process, NEW t \in Thread, Receive(p, t)
  PROVE  \A q \in Process : Traced(q)'
<1>. TypeOK
  BY DEF CallsInv, Inv
<1>1. /\ UNCHANGED <<client, request_ctr, buffered, up, to_server, backlog, executions>>
      /\ thread[p][t].at = "receive"
  BY DEF Receive, server_vars
<1>2. PICK n \in Tags(p) : n = thread[p][t].tag
  BY <1>1, WaitsFor
<1>3. Kept(p, t) = {}
  BY <1>1 DEF Kept
<1>4. /\ OnlyOnce(to_client[p]) /\ Contents(to_client[p]) \subseteq Requests(p)
      /\ Contents(to_client[p]) \cap buffered[p] = {} /\ to_client[p] \in Seq(Message)
      /\ \A r \in Requests(p) : r.tag = n => r = Request(<<p, n>>)
      /\ <<p, n>> \in Call
  BY <1>1, <1>2, WaitsFor
<1>5. ASSUME to_client[p] # <<>>, to_client' = Consumed(to_client, p)
      PROVE  \A q \in Process : Traced(q)'
  <2>1. PICK m : m = Head(to_client[p])
    OBVIOUS
  <2>2. /\ to_client'[p] = Tail(to_client[p])
        /\ \A q \in Process \ {p} : to_client'[q] = to_client[q]
    BY <1>5 DEF Consumed, TypeOK
  <2>3. /\ Contents(to_client[p]) = {m} \cup Contents(to_client'[p])
        /\ OnlyOnce(to_client'[p]) /\ m \notin Contents(to_client'[p])
    BY <1>4, <1>5, <2>1, <2>2, ContentsConsumed
  <2>4. CASE Answers(p, t, m) /\ Returns(p, t, m)
    <3>1. /\ thread'[p][t] = Idle /\ status'[<<p, n>>] = "answered"
          /\ \A c \in Call : c # <<p, n>> => status'[c] = status[c]
          /\ \A u \in Thread \ {t} : thread'[p][u] = thread[p][u]
          /\ \A q \in Process \ {p} : thread'[q] = thread[q]
      BY <1>1, <1>2, <2>4, ReturnsReply
    <3>2. Kept(p, t)' = {} /\ thread'[p][t].at = "idle"
      BY <3>1 DEF Kept, Idle
    <3>3. m = Request(<<p, n>>)
      BY <1>2, <1>4, <2>3, <2>4 DEF Answers
    <3>. QED  BY <1>1, <1>2, <1>3, <1>4, <2>2, <2>3, <3>1, <3>2, <3>3, TracedThread
  <2>5. CASE /\ thread' = [thread EXCEPT ![p][t] = [@ EXCEPT !.at = "keep", !.reply = m]]
             /\ UNCHANGED <<status, answer>>
    <3>1. /\ thread'[p][t].at = "keep" /\ thread'[p][t].tag = n
          /\ thread'[p][t].reply = m
          /\ \A u \in Thread \ {t} : thread'[p][u] = thread[p][u]
          /\ \A q \in Process \ {p} : thread'[q] = thread[q]
      BY <1>2, <2>5 DEF TypeOK, ThreadState
    <3>2. Kept(p, t)' = {m}
      BY <3>1 DEF Kept
    <3>. QED  BY <1>1, <1>2, <1>3, <1>4, <2>2, <2>3, <2>5, <3>1, <3>2, TracedThread
  <2>. QED  BY <1>5, <2>1, <2>4, <2>5 DEF Receive, Empty
<1>6. ASSUME Goes(p, t, "look"), UNCHANGED <<to_client, status>>
      PROVE  \A q \in Process : Traced(q)'
  <2>1. /\ thread'[p][t].at = "look" /\ thread'[p][t].tag = n
        /\ \A u \in Thread \ {t} : thread'[p][u] = thread[p][u]
        /\ \A q \in Process \ {p} : thread'[q] = thread[q]
    BY <1>2, <1>6, GoesElsewhere
  <2>2. Kept(p, t)' = {}
    BY <2>1 DEF Kept
  <2>. QED  BY <1>1, <1>2, <1>3, <1>4, <1>6, <2>1, <2>2, TracedThread
<1>7. ASSUME UNCHANGED to_client, thread' = [thread EXCEPT ![p][t] = Idle],
             status' = [status EXCEPT ![<<p, n>>] = "failed"]
      PROVE  \A q \in Process : Traced(q)'
  <2>1. /\ thread'[p][t] = Idle /\ status'[<<p, n>>] = "failed"
        /\ \A c \in Call : c # <<p, n>> => status'[c] = status[c]
        /\ \A u \in Thread \ {t} : thread'[p][u] = thread[p][u]
        /\ \A q \in Process \ {p} : thread'[q] = thread[q]
    BY <1>4, <1>7 DEF TypeOK
  <2>2. Kept(p, t)' = {} /\ thread'[p][t].at = "idle"
    BY <2>1 DEF Kept, Idle
  <2>. QED  BY <1>1, <1>2, <1>3, <1>4, <1>7, <2>1, <2>2, TracedThread
<1>8. \/ to_client[p] # <<>> /\ to_client' = Consumed(to_client, p)
      \/ Goes(p, t, "look") /\ UNCHANGED <<to_client, status>>
      \/ /\ UNCHANGED to_client /\ thread' = [thread EXCEPT ![p][t] = Idle]
         /\ status' = [status EXCEPT ![<<p, n>>] = "failed"]
  BY <1>2 DEF Receive
<1>. QED  BY <1>5, <1>6, <1>7, <1>8

LEMMA TracedKeep ==
  ASSUME CallsInv, NEW p \in Process, NEW t \in Thread, Keep(p, t)
  PROVE  \A q \in Process : Traced(q)'
<1>. TypeOK
  BY DEF CallsInv, Inv
<1>1. /\ UNCHANGED <<client, request_ctr, up, to_server, to_client, backlog, status,
                     executions>>
      /\ thread[p][t].at = "keep"
  BY DEF Keep, streams, server_vars, calls
<1>2. PICK n \in Tags(p) : n = thread[p][t].tag
  BY <1>1, WaitsFor
<1>3. PICK m : m = thread[p][t].reply
  OBVIOUS
<1>4. Kept(p, t) = {m}
  BY <1>1, <1>3 DEF Kept
<1>5. /\ OnlyOnce(to_client[p]) /\ buffered[p] \subseteq Requests(p) /\ m \in Requests(p)
      /\ Contents(to_client[p]) \cap buffered[p] = {}
      /\ m \notin Contents(to_client[p]) \cup buffered[p]
  BY <1>1, <1>4, WaitsFor
<1>6. \A b \in buffered[p] : b.tag # m.tag
  <2>1. \A b \in Requests(p) : b = Request(<<p, b.tag>>)
    BY RequestParts
  <2>. QED  BY <1>5, <2>1
<1>7. /\ buffered'[p] = buffered[p] \cup {m}
      /\ \A q \in Process \ {p} : buffered'[q] = buffered[q]
  <2>1. BufferWith(p, m) = buffered[p] \cup {m}
    BY <1>6 DEF BufferWith
  <2>. QED  BY <1>3, <2>1 DEF Keep, TypeOK
<1>8. /\ thread'[p][t].at = "look" /\ thread'[p][t].tag = n
      /\ \A u \in Thread \ {t} : thread'[p][u] = thread[p][u]
      /\ \A q \in Process \ {p} : thread'[q] = thread[q]
  BY <1>2 DEF Keep, TypeOK, ThreadState
<1>9. Kept(p, t)' = {}
  BY <1>8 DEF Kept
<1>10. /\ Contents(to_client'[p]) = Contents(to_client[p]) /\ OnlyOnce(to_client'[p])
       /\ \A q \in Process \ {p} : to_client'[q] = to_client[q]
  BY <1>1, <1>5
<1>11. /\ thread[p][t].at # "idle" /\ thread'[p][t].at # "idle"
       /\ thread[p][t].tag = n /\ thread'[p][t].tag = n
  BY <1>1, <1>2, <1>8
<1>12. /\ Contents(to_client'[p]) \cup buffered'[p] \cup Kept(p, t)' \subseteq
            Contents(to_client[p]) \cup buffered[p] \cup Kept(p, t)
       /\ Contents(to_client'[p]) \subseteq Contents(to_client[p])
       /\ Contents(to_client'[p]) \cap buffered'[p] = {}
       /\ Kept(p, t)' \cap (Contents(to_client'[p]) \cup buffered'[p]) = {}
       /\ \A r \in Contents(to_client[p]) \cup buffered[p] \cup Kept(p, t) :
            r \in Contents(to_client'[p]) \cup buffered'[p] \cup Kept(p, t)'
  BY <1>4, <1>5, <1>7, <1>9, <1>10
<1>13. \A q \in Process \ {p} : /\ buffered'[q] = buffered[q] /\ thread'[q] = thread[q]
                                /\ to_client'[q] = to_client[q]
  BY <1>7, <1>8, <1>10
<1>14. status' = status /\ \A c \in Call : c # <<p, n>> => status'[c] = status[c]
  BY <1>1
<1>. QED  BY <1>1, <1>8, <1>10, <1>11, <1>12, <1>13, <1>14, TracedThread

-----------------------------------------------------------------------------
(***************************************************************************)
(* Every reply is found, and every call is executed at most once.          *)
(***************************************************************************)
LEMMA InitCallsInv == Init => CallsInv
<1>. SUFFICES ASSUME Init PROVE CallsInv
  OBVIOUS
<1>1. Inv
  BY InitInv
<1>. SUFFICES ASSUME NEW p \in Process PROVE Traced(p)
  BY <1>1 DEF CallsInv
<1>2. \A t \in Thread : thread[p][t].at = "idle"
  BY DEF Init, Idle
<1>3. KeptByAny(p) = {} /\ \A t \in Thread : Kept(p, t) = {}
  BY <1>2 DEF KeptByAny, Kept
<1>4. /\ client[p] = "absent" /\ request_ctr[p] = 0 /\ ~ up[p] /\ buffered[p] = {}
      /\ to_server[p] = <<>> /\ to_client[p] = <<>> /\ ~ Backlogged(p)
  BY DEF Init, Backlogged
<1>5. Greets(p)
  BY <1>4, EmptyContents DEF Greets
<1>6. Tracked(p)
  BY <1>3, <1>4, EmptyContents DEF Tracked
<1>7. Counted(p)
  <2>1. \A n \in Tags(p) : /\ status[<<p, n>>] = "unused" /\ executions[<<p, n>>] = 0
                           /\ n >= 0
    BY CallParts DEF Init
  <2>. QED  BY <1>4, <2>1 DEF Counted
<1>8. Waits(p) /\ Found(p)
  BY <1>2, <1>4 DEF Waits, Found
<1>. QED  BY <1>5, <1>6, <1>7, <1>8 DEF Traced

LEMMA NextCallsInv == CallsInv /\ [Next]_vars => CallsInv'
<1>. SUFFICES ASSUME CallsInv, [Next]_vars PROVE CallsInv'
  OBVIOUS
<1>1. Inv'
  BY NextInv DEF CallsInv
<1>2. \A q \in Process : Traced(q)'
  <2>1. CASE ServerStep
    BY <2>1, TracedAccept, TracedAcceptFails, TracedIdles, TracedEndPoll, TracedServe
    DEF ServerStep
  <2>2. ASSUME NEW p \in Process, Connect(p) \/ ConnectStep(p)
        PROVE  \A q \in Process : Traced(q)'
    BY <2>2, TracedConnect, TracedGreet, TracedFinishConnect DEF ConnectStep
  <2>3. ASSUME NEW p \in Process, Exit(p) \/ Reset(p)
        PROVE  \A q \in Process : Traced(q)'
    BY <2>3, TracedBreaks
  <2>4. ASSUME NEW p \in Process, NEW t \in Thread, Invoke(p, t) \/ ThreadStep(p, t)
        PROVE  \A q \in Process : Traced(q)'
    BY <2>4, TracedInvoke, TracedLook, TracedReceive, TracedKeep DEF ThreadStep
  <2>5. CASE UNCHANGED vars
    BY <2>5, TracedIdles
  <2>. QED  BY <2>1, <2>2, <2>3, <2>4, <2>5 DEF Next
<1>. QED  BY <1>1, <1>2 DEF CallsInv

(* What is under way for a process is what its calls wait for.            *)
THEOREM CallsTraced == Spec => []CallsInv
<1>1. Spec => Init /\ [][Next]_vars
  BY DEF Spec
<1>. QED  BY <1>1, InitCallsInv, NextCallsInv, PTL

LEMMA WhereItIs ==
  ASSUME CallsInv, NEW c \in Call, Pending(c)
  PROVE  LET p == c[1] IN
         /\ p \in Process /\ Request(c) \in Requests(p)
         /\ Places(c) \subseteq {"to_server", "to_client", "buffer"} \cup Thread
         /\ "to_server" \in Places(c) <=> Request(c) \in Contents(to_server[p])
         /\ "to_client" \in Places(c) <=> Request(c) \in Contents(to_client[p])
         /\ "buffer" \in Places(c) <=> Request(c) \in buffered[p]
         /\ \A t \in Thread : t \in Places(c) <=> Request(c) \in Kept(p, t)
<1>1. PICK p \in Process : \E n \in Tags(p) : c = <<p, n>>
  BY CallParts
<1>2. c[1] = p /\ Traced(p) /\ client[p] = "open"
  BY <1>1 DEF CallsInv, Pending
<1>3. Request(c) \in Requests(p)
  BY <1>1, RequestParts
<1>4. \A m \in Requests(p) : m.message = c <=> m = Request(c)
  BY <1>1, RequestParts
<1>5. /\ Contents(to_server[p]) \subseteq Requests(p)
      /\ Contents(to_client[p]) \subseteq Requests(p) /\ buffered[p] \subseteq Requests(p)
      /\ \A t \in Thread : Kept(p, t) \subseteq Requests(p)
  BY <1>2 DEF Traced, Greets, Tracked, KeptByAny
<1>6. /\ Holds(to_server[p], c) <=> Request(c) \in Contents(to_server[p])
      /\ Holds(to_client[p], c) <=> Request(c) \in Contents(to_client[p])
  BY <1>4, <1>5 DEF Holds, Contents
<1>7. (\E m \in buffered[p] : m.message = c) <=> Request(c) \in buffered[p]
  BY <1>4, <1>5
<1>8. ASSUME NEW t \in Thread
      PROVE  (thread[p][t].at = "keep" /\ thread[p][t].reply.message = c)
               <=> Request(c) \in Kept(p, t)
  BY <1>4, <1>5 DEF Kept
<1>9. /\ "to_server" \in Places(c) <=> Holds(to_server[p], c)
      /\ "to_client" \in Places(c) <=> Holds(to_client[p], c)
      /\ "buffer" \in Places(c) <=> \E m \in buffered[p] : m.message = c
  BY <1>2 DEF Places
<1>10. ASSUME NEW t \in Thread
       PROVE  t \in Places(c) <=> thread[p][t].at = "keep" /\ thread[p][t].reply.message = c
  <2>1. t \notin {"to_server", "to_client", "buffer"}
    BY EchoAssumption
  <2>. QED  BY <1>2, <2>1 DEF Places
<1>11. Places(c) \subseteq {"to_server", "to_client", "buffer"} \cup Thread
  BY DEF Places
<1>. QED  BY <1>2, <1>3, <1>6, <1>7, <1>8, <1>9, <1>10, <1>11

(* While a stream is up, what a waiting thread waits for is at exactly one *)
(* place, whichever threads have taken each other's responses from it.     *)
THEOREM RepliesCorrect == Spec => []RepliesAreNotLost
<1>1. ASSUME CallsInv PROVE RepliesAreNotLost
  <2>. SUFFICES ASSUME NEW c \in Call, Pending(c), up[c[1]]
                PROVE  \E place \in Places(c) : Places(c) = {place}
    BY DEF RepliesAreNotLost
  <2>. DEFINE p == c[1]
  <2>1. /\ p \in Process /\ c = <<p, c[2]>> /\ c[2] \in Tags(p)
        /\ Request(c) \in Requests(p) /\ Request(c).message = c
    BY CallParts, RequestParts
  <2>. HIDE DEF p
  <2>2. /\ Places(c) \subseteq {"to_server", "to_client", "buffer"} \cup Thread
        /\ "to_server" \in Places(c) <=> Request(c) \in Contents(to_server[p])
        /\ "to_client" \in Places(c) <=> Request(c) \in Contents(to_client[p])
        /\ "buffer" \in Places(c) <=> Request(c) \in buffered[p]
        /\ \A t \in Thread : t \in Places(c) <=> Request(c) \in Kept(p, t)
    BY <1>1, WhereItIs DEF p
  <2>3. Tracked(p) /\ Found(p) /\ up[p] /\ Pending(<<p, c[2]>>)
    BY <1>1, <2>1 DEF CallsInv, Traced, p
  <2>4. Request(c) \in Somewhere(p)
    BY <2>1, <2>3 DEF Found
  <2>5. Request(c) \in Contents(to_server[p]) =>
          Request(c) \notin Contents(to_client[p]) \cup buffered[p] \cup KeptByAny(p)
    BY <2>1, <2>3 DEF Tracked
  <2>6. /\ Contents(to_client[p]) \cap buffered[p] = {}
        /\ KeptByAny(p) \cap (Contents(to_client[p]) \cup buffered[p]) = {}
        /\ \A t, u \in Thread : t # u => Kept(p, t) \cap Kept(p, u) = {}
    BY <2>3 DEF Tracked
  <2>7. \A t \in Thread : Kept(p, t) \subseteq KeptByAny(p)
    BY DEF KeptByAny
  <2>8. CASE Request(c) \in Contents(to_server[p])
    <3>1. Places(c) = {"to_server"}
      BY <2>2, <2>5, <2>7, <2>8
    <3>. QED  BY <3>1
  <2>9. CASE Request(c) \in Contents(to_client[p])
    <3>1. Places(c) = {"to_client"}
      BY <2>2, <2>5, <2>6, <2>7, <2>9
    <3>. QED  BY <3>1
  <2>10. CASE Request(c) \in buffered[p]
    <3>1. Places(c) = {"buffer"}
      BY <2>2, <2>5, <2>6, <2>7, <2>10
    <3>. QED  BY <3>1
  <2>11. CASE Request(c) \in KeptByAny(p)
    <3>1. PICK t \in Thread : Request(c) \in Kept(p, t)
      BY <2>11 DEF KeptByAny
    <3>2. \A u \in Thread : u # t => u \notin Places(c)
      BY <2>2, <2>6, <3>1
    <3>3. Places(c) = {t}
      BY <2>2, <2>5, <2>6, <2>11, <3>1, <3>2
    <3>. QED  BY <3>3
  <2>. QED  BY <2>4, <2>8, <2>9, <2>10, <2>11 DEF Somewhere
<1>. QED  BY <1>1, CallsTraced, PTL

-----------------------------------------------------------------------------
LEMMA SilentStep == UNCHANGED calls => [C!Next]_(C!vars)
BY DEF calls, C!vars

LEMMA AnswerStep ==
  ASSUME CallsInv, NEW p \in Process, NEW t \in Thread, thread[p][t].at # "idle",
         NEW m \in Contents(to_client[p]) \cup buffered[p],
         m.tag = thread[p][t].tag, Returns(p, t, m), UNCHANGED executions
  PROVE  C!Next
<1>. DEFINE c == <<p, thread[p][t].tag>>
<1>1. /\ c \in Call /\ status[c] = "pending" /\ m \in Requests(p)
  BY WaitsFor
<1>2. m.message = c
  BY <1>1, RequestParts
<1>3. executions[m.message] = 1
  BY <1>1 DEF CallsInv, Traced, Tracked
<1>4. C!Answer(c)
  BY <1>1, <1>2, <1>3 DEF Returns, C!Answer
<1>. QED  BY <1>1, <1>4 DEF C!Next

LEMMA InvokeStep ==
  ASSUME CallsInv, NEW p \in Process, NEW t \in Thread, Invoke(p, t)
  PROVE  C!Next
<1>. DEFINE c == <<p, request_ctr[p]>>
<1>1. c \in Call /\ request_ctr[p] \in Tags(p)
  BY CallParts DEF Invoke
<1>2. status[c] = "unused"
  BY <1>1, CallParts DEF CallsInv, Traced, Counted
<1>3. C!Issue(c) \/ C!Fail(c)
  BY <1>2 DEF Invoke, C!Issue, C!Fail
<1>. QED  BY <1>1, <1>3 DEF C!Next

LEMMA ServeStep ==
  ASSUME CallsInv, NEW p \in Process, Serve(p)
  PROVE  C!Next
<1>. DEFINE m == Head(to_server[p])
<1>1. /\ p \in connected /\ to_server[p] # <<>> /\ to_server[p] \in Seq(Message)
      /\ executions' = [executions EXCEPT ![m.message] = @ + 1]
      /\ UNCHANGED <<status, answer>>
  BY StreamTypes DEF Serve, CallsInv, Inv, TypeOK
<1>2. m \in Contents(to_server[p])
  BY <1>1, ContentsConsumed
<1>3. ~ Backlogged(p)
  BY <1>1 DEF Backlogged, CallsInv, Inv, TypeOK
<1>4. m \in Requests(p)
  BY <1>2, <1>3 DEF CallsInv, Traced, Greets
<1>5. m.message \in Call
  BY <1>4, RequestParts
<1>6. status[m.message] # "unused" /\ executions[m.message] = 0
  BY <1>2, <1>4 DEF CallsInv, Traced, Tracked
<1>7. executions' = [executions EXCEPT ![m.message] = 1]
  BY <1>1, <1>6
<1>8. C!Execute(m.message)
  BY <1>1, <1>6, <1>7 DEF C!Execute
<1>. QED  BY <1>5, <1>8 DEF C!Next

LEMMA CallsNext == CallsInv /\ [Next]_vars => [C!Next]_(C!vars)
<1>. SUFFICES ASSUME CallsInv, [Next]_vars PROVE [C!Next]_(C!vars)
  OBVIOUS
<1>1. ASSUME NEW p \in Process, NEW t \in Thread, Look(p, t)
      PROVE  [C!Next]_(C!vars)
  <2>1. CASE \E m \in buffered[p] : m.tag = thread[p][t].tag /\ Returns(p, t, m)
    BY <1>1, <2>1, AnswerStep DEF Look
  <2>2. CASE UNCHANGED <<status, answer>>
    BY <1>1, <2>2, SilentStep DEF Look, calls
  <2>. QED  BY <1>1, <2>1, <2>2 DEF Look
<1>2. ASSUME NEW p \in Process, NEW t \in Thread, Receive(p, t)
      PROVE  [C!Next]_(C!vars)
  <2>1. thread[p][t].at # "idle" /\ UNCHANGED executions
    BY <1>2 DEF Receive
  <2>2. ASSUME to_client[p] # <<>>, NEW m, m = Head(to_client[p]),
               Answers(p, t, m), Returns(p, t, m)
        PROVE  [C!Next]_(C!vars)
    <3>1. m \in Contents(to_client[p])
      BY <2>1, <2>2, WaitsFor, ContentsConsumed
    <3>. QED  BY <2>1, <2>2, <3>1, AnswerStep DEF Answers
  <2>3. CASE status' = [status EXCEPT ![<<p, thread[p][t].tag>>] = "failed"] /\ UNCHANGED answer
    <3>1. C!Fail(<<p, thread[p][t].tag>>) /\ <<p, thread[p][t].tag>> \in Call
      BY <2>1, <2>3, WaitsFor DEF C!Fail
    <3>. QED  BY <3>1 DEF C!Next
  <2>4. CASE UNCHANGED <<status, answer>>
    BY <2>1, <2>4, SilentStep DEF calls
  <2>. QED  BY <1>2, <2>2, <2>3, <2>4 DEF Receive
<1>3. ASSUME NEW p \in Process, NEW t \in Thread, Keep(p, t)
      PROVE  [C!Next]_(C!vars)
  BY <1>3, SilentStep DEF Keep
<1>4. ASSUME NEW p \in Process,
             Connect(p) \/ Greet(p) \/ FinishConnect(p) \/ Exit(p) \/ Reset(p)
      PROVE  [C!Next]_(C!vars)
  BY <1>4, SilentStep DEF Connect, Greet, FinishConnect, Exit, Reset
<1>5. CASE Accept \/ AcceptFails \/ AcceptsNoMore \/ EndPoll
  BY <1>5, SilentStep DEF Accept, AcceptFails, AcceptsNoMore, EndPoll
<1>6. ASSUME NEW p \in Process, ServeNothing(p)
      PROVE  [C!Next]_(C!vars)
  BY <1>6, SilentStep DEF ServeNothing
<1>7. CASE UNCHANGED vars
  BY <1>7, SilentStep DEF vars
<1>. QED
  BY <1>1, <1>2, <1>3, <1>4, <1>5, <1>6, <1>7, InvokeStep, ServeStep
  DEF Next, ServerStep, ConnectStep, ThreadStep

(* A call is executed at most once, and what it returns is the reply to    *)
(* its own request: the threads, the streams and the poll implement Calls. *)
THEOREM CallsImplemented == Spec => AtMostOnce
<1>1. Init => C!Init
  BY DEF Init, C!Init
<1>2. Spec => Init /\ [][Next]_vars
  BY DEF Spec
<1>. QED  BY <1>1, <1>2, CallsTraced, CallsNext, PTL DEF AtMostOnce, C!Spec
-----------------------------------------------------------------------------
(***************************************************************************)
(* Nobody is left alone: what a process waits for, the server has to do.   *)
(***************************************************************************)

(* A stream that is up leads to a server that lives, which has it in its   *)
(* backlog or polls it; and where a client waits for the greeting, one of  *)
(* the two greetings is under way.                                         *)
Served(p) ==
  up[p] =>
    /\ poll.at # "stopped"
    /\ Backlogged(p) /\ client[p] = "greeted" => to_server[p] # <<>>
    /\ ~ Backlogged(p) => p \in connected
    /\ ~ Backlogged(p) /\ client[p] = "greeted" => to_client[p] # <<>>

(* A thread waits for each call that is pending.                           *)
WaitedFor(p, n) == \E t \in Thread : thread[p][t].at # "idle" /\ thread[p][t].tag = n
Awaited(p) == \A n \in Tags(p) : Pending(<<p, n>>) => WaitedFor(p, n)

ServedInv == \A p \in Process : Served(p) /\ Awaited(p)

LEMMA ServedInit == Init => ServedInv
<1>1. ASSUME Init, NEW p \in Process PROVE Served(p)
  <2>1. ~ up[p]
    BY <1>1 DEF Init
  <2>. QED  BY <2>1 DEF Served
<1>2. ASSUME Init, NEW p \in Process PROVE Awaited(p)
  <2>1. \A n \in Tags(p) : status[<<p, n>>] = "unused"
    BY <1>2, CallParts DEF Init
  <2>. QED  BY <2>1 DEF Awaited, Pending
<1>. QED  BY <1>1, <1>2, Zenon DEF ServedInv

(* A process of which little changes. *)
LEMMA ServedKept ==
  ASSUME NEW q \in Process, Served(q),
         client'[q] = client[q], up'[q] => up[q] /\ poll'.at # "stopped",
         Backlogged(q)' <=> Backlogged(q),
         up'[q] /\ q \in connected => q \in connected',
         up'[q] /\ client[q] = "greeted"
           => to_server'[q] = to_server[q] /\ to_client'[q] = to_client[q]
  PROVE  Served(q)'
BY DEF Served

LEMMA AwaitedKept ==
  ASSUME NEW q \in Process, Awaited(q), thread'[q] = thread[q],
         client'[q] = "open" => client[q] = "open",
         \A n \in Tags(q) : status'[<<q, n>>] = "pending" => status[<<q, n>>] = "pending"
  PROVE  Awaited(q)'
BY DEF Awaited, WaitedFor, Pending

(* The connections that the client makes. *)
LEMMA ServedConnects ==
  ASSUME CallsInv, ServedInv, NEW p \in Process, Connect(p) \/ ConnectStep(p)
  PROVE  ServedInv'
<1>. TypeOK /\ StreamsWereConnected /\ Traced(p)
  BY DEF CallsInv, Inv
<1>1. UNCHANGED <<request_ctr, thread, status, poll, connected>>
  BY DEF Connect, ConnectStep, Greet, FinishConnect, calls, server_vars
<1>2. ASSUME NEW q \in Process \ {p} PROVE Served(q)' /\ Awaited(q)'
  <2>1. /\ client'[q] = client[q] /\ up'[q] = up[q]
        /\ to_server'[q] = to_server[q] /\ to_client'[q] = to_client[q]
    BY DEF Connect, ConnectStep, Greet, FinishConnect, Written, Consumed, TypeOK
  <2>2. Backlogged(q)' <=> Backlogged(q)
    BY <1>2, BacklogGrows
       DEF Connect, ConnectStep, Greet, FinishConnect, server_vars, Backlogged
  <2>3. Served(q) /\ Awaited(q)
    BY DEF ServedInv
  <2>4. up'[q] => up[q] /\ poll'.at # "stopped"
    BY <1>1, <2>1, <2>3 DEF Served
  <2>. QED  BY <1>1, <2>1, <2>2, <2>3, <2>4, ServedKept, AwaitedKept
<1>3. Awaited(p)'
  <2>1. request_ctr[p] = 0
    BY DEF Traced, Greets, Connect, ConnectStep, Greet, FinishConnect
  <2>2. \A n \in Tags(p) : status[<<p, n>>] = "unused"
    BY <2>1, CallParts DEF Traced, Counted
  <2>. QED  BY <1>1, <2>2 DEF Awaited, Pending
<1>4. Served(p)'
  <2>1. CASE Connect(p)
    <3>1. \/ poll.at = "stopped" /\ client'[p] = "gone" /\ UNCHANGED up
          \/ /\ poll.at # "stopped" /\ client'[p] = "connected"
             /\ backlog' = Append(backlog, p)
      BY <2>1 DEF Connect, TypeOK
    <3>2. ~ up[p]
      BY <2>1 DEF Traced, Greets, Connect
    <3>3. backlog' = Append(backlog, p) => Backlogged(p)'
      BY BacklogGrows
    <3>. QED  BY <1>1, <3>1, <3>2, <3>3 DEF Served
  <2>2. CASE Greet(p)
    <3>1. /\ UNCHANGED <<up, backlog>> /\ client[p] = "connected"
          /\ up[p] => to_server'[p] = Append(to_server[p], Greeting)
      BY <2>2 DEF Greet, Written, TypeOK, server_vars
    <3>2. to_server[p] = <<>>
      BY <3>1 DEF Traced, Greets
    <3>3. up[p] => Backlogged(p) /\ (Backlogged(p)' <=> Backlogged(p))
      BY <3>1 DEF Traced, Greets, Backlogged
    <3>4. up[p] => to_server'[p] # <<>>
      BY <3>1, <3>2
    <3>. QED  BY <1>1, <3>1, <3>3, <3>4 DEF Served, ServedInv
  <2>3. CASE FinishConnect(p)
    <3>1. /\ UNCHANGED <<up, backlog>> /\ client'[p] # "greeted"
          /\ up[p] => to_client[p] # <<>>
      BY <2>3 DEF FinishConnect, TypeOK, server_vars
    <3>2. up[p] => ~ Backlogged(p)
      BY <3>1 DEF Traced, Greets
    <3>3. Backlogged(p)' <=> Backlogged(p)
      BY <3>1 DEF Backlogged
    <3>. QED  BY <1>1, <3>1, <3>2, <3>3 DEF Served, ServedInv
  <2>. QED  BY <2>1, <2>2, <2>3 DEF ConnectStep
<1>. QED  BY <1>2, <1>3, <1>4 DEF ServedInv

(* The calls: the process is open and stays so. *)
LEMMA ServedCalls ==
  ASSUME CallsInv, ServedInv, NEW p \in Process, NEW t \in Thread,
         Invoke(p, t) \/ ThreadStep(p, t)
  PROVE  ServedInv'
<1>. TypeOK /\ Traced(p)
  BY DEF CallsInv, Inv
<1>1. /\ UNCHANGED <<client, up, poll, connected, backlog>> /\ client[p] = "open"
  <2>1. thread[p][t].at # "idle" => client[p] = "open"
    BY DEF Traced, Waits
  <2>. QED  BY <2>1 DEF Invoke, ThreadStep, Look, Receive, Keep, streams, server_vars
<1>2. \A q \in Process \ {p} :
        /\ thread'[q] = thread[q]
        /\ to_server'[q] = to_server[q] /\ to_client'[q] = to_client[q]
  BY DEF Invoke, ThreadStep, Look, Receive, Keep, streams, Written, Consumed, Goes,
         Returns, TypeOK
<1>3. ASSUME NEW q \in Process PROVE Served(q)'
  <2>1. Backlogged(q)' <=> Backlogged(q)
    BY <1>1 DEF Backlogged
  <2>2. Served(q)
    BY DEF ServedInv
  <2>3. client[q] = "greeted" => to_server'[q] = to_server[q] /\ to_client'[q] = to_client[q]
    BY <1>1, <1>2
  <2>4. up'[q] => up[q] /\ poll'.at # "stopped"
    BY <1>1, <2>2 DEF Served
  <2>. QED  BY <1>1, <2>1, <2>2, <2>3, <2>4, ServedKept
<1>4. PICK n : n = IF Invoke(p, t) THEN request_ctr[p] ELSE thread[p][t].tag
  OBVIOUS
<1>5. \A c \in Call : c # <<p, n>> => status'[c] = status[c]
  BY <1>4 DEF Invoke, ThreadStep, Look, Receive, Keep, Returns, calls, TypeOK
<1>6. ASSUME NEW q \in Process \ {p} PROVE Awaited(q)'
  <2>1. \A k \in Tags(q) : status'[<<q, k>>] = status[<<q, k>>]
    <3>. TAKE k \in Tags(q)
    <3>1. <<q, k>> # <<p, n>> /\ <<q, k>> \in Call
      BY CallParts
    <3>. QED  BY <1>5, <3>1
  <2>. QED  BY <1>1, <1>2, <2>1, AwaitedKept DEF ServedInv
<1>7. Awaited(p)'
  <2>. SUFFICES ASSUME NEW k \in Tags(p), Pending(<<p, k>>)' PROVE WaitedFor(p, k)'
    BY DEF Awaited
  <2>1. <<p, k>> \in Call /\ (<<p, n>> = <<p, k>> <=> n = k)
    BY CallParts
  <2>2. \A u \in Thread \ {t} : thread'[p][u] = thread[p][u]
    BY DEF Invoke, ThreadStep, Look, Receive, Keep, Goes, Returns, TypeOK
  <2>3. CASE n = k
    <3>1. status'[<<p, n>>] = "pending"
      BY <2>3 DEF Pending
    <3>2. thread'[p][t].at # "idle" /\ thread'[p][t].tag = n
      <4>1. CASE Invoke(p, t)
        <5>1. n = request_ctr[p] /\ <<p, n>> \in Call
          BY <1>4, <2>1, <2>3, <4>1
        <5>2. thread' = [thread EXCEPT ![p][t] =
                           [at |-> "look", tag |-> n, reply |-> Greeting]]
          BY <3>1, <4>1, <5>1 DEF Invoke, TypeOK
        <5>3. thread \in [Process -> [Thread -> ThreadState]]
          BY DEF TypeOK
        <5>. QED  BY <5>2, <5>3
      <4>2. CASE ~ Invoke(p, t) /\ ThreadStep(p, t)
        <5>1. n = thread[p][t].tag /\ <<p, n>> \in Call
          BY <1>4, <2>1, <2>3, <4>2
        <5>2. \/ \E s \in {"receive", "look"} : Goes(p, t, s)
              \/ thread' = [thread EXCEPT ![p][t] =
                              [@ EXCEPT !.at = "keep", !.reply = Head(to_client[p])]]
              \/ thread' = [thread EXCEPT ![p][t] =
                              [@ EXCEPT !.at = "look", !.reply = Greeting]]
          BY <3>1, <4>2, <5>1 DEF ThreadStep, Look, Receive, Keep, Returns, TypeOK
        <5>3. thread \in [Process -> [Thread -> ThreadState]]
          BY DEF TypeOK
        <5>4. CASE \E s \in {"receive", "look"} : Goes(p, t, s)
          BY <5>1, <5>4, GoesElsewhere
        <5>5. CASE \E s \in {"keep", "look"}, m \in {Head(to_client[p]), Greeting} :
                     thread' = [thread EXCEPT ![p][t] = [@ EXCEPT !.at = s, !.reply = m]]
          BY <5>1, <5>3, <5>5 DEF ThreadState
        <5>. QED  BY <5>2, <5>4, <5>5
      <4>. QED  BY <4>1, <4>2
    <3>. QED  BY <2>3, <3>2 DEF WaitedFor
  <2>4. CASE n # k
    <3>1. Pending(<<p, k>>)
      <4>1. status'[<<p, k>>] = status[<<p, k>>]
        BY <1>5, <2>1, <2>4
      <4>. QED  BY <1>1, <4>1 DEF Pending
    <3>2. PICK u \in Thread : thread[p][u].at # "idle" /\ thread[p][u].tag = k
      BY <3>1 DEF ServedInv, Awaited, WaitedFor
    <3>3. u # t
      <4>1. Invoke(p, t) => thread[p][t].at = "idle"
        BY DEF Invoke
      <4>. QED  BY <1>4, <2>4, <3>2, <4>1
    <3>. QED  BY <2>2, <3>2, <3>3 DEF WaitedFor
  <2>. QED  BY <2>3, <2>4
<1>. QED  BY <1>3, <1>6, <1>7 DEF ServedInv

(* The server: the calls are not touched. *)
LEMMA ServedByServer ==
  ASSUME CallsInv, ServedInv, ServerStep
  PROVE  ServedInv'
<1>. TypeOK /\ StreamsWereConnected
  BY DEF CallsInv, Inv
<1>1. UNCHANGED <<client, thread, status>>
  <2>1. Accept => UNCHANGED <<client, thread, status>>
    BY DEF Accept, client_vars, calls
  <2>2. AcceptFails => UNCHANGED <<client, thread, status>>
    BY DEF AcceptFails, client_vars, calls
  <2>3. AcceptsNoMore \/ EndPoll => UNCHANGED <<client, thread, status>>
    BY DEF AcceptsNoMore, EndPoll, client_vars, calls
  <2>4. \A p \in Process : Serve(p) \/ ServeNothing(p) => UNCHANGED <<client, thread, status>>
    BY DEF Serve, ServeNothing, client_vars, calls
  <2>. QED  BY <2>1, <2>2, <2>3, <2>4 DEF ServerStep
<1>2. \A q \in Process : Awaited(q)'
  BY <1>1, AwaitedKept DEF ServedInv
<1>. SUFFICES ASSUME NEW q \in Process PROVE Served(q)'
  BY <1>2 DEF ServedInv
<1>3. Served(q) /\ Traced(q)
  BY DEF ServedInv, CallsInv
<1>4. CASE Accept
  <2>1. PICK p \in Process : p = Head(backlog)
    BY <1>4, BacklogShrinks DEF Accept
  <2>2. Backlogged(p) /\ \A k : Backlogged(k)' <=> Backlogged(k) /\ k # p
    BY <1>4, <2>1, BacklogShrinks DEF Accept
  <2>3. /\ up' = up /\ poll'.at = poll.at /\ connected' = connected \cup {p}
        /\ to_server' = Consumed(to_server, p)
        /\ to_client' = IF up[p] THEN Written(to_client, p, Greeting) ELSE to_client
    BY <1>4, <2>1 DEF Accept, MayAccept, TypeOK
  <2>4. CASE q = p
    <3>1. Backlogged(q) => to_client[q] = <<>>
      BY <1>3 DEF Traced, Greets
    <3>2. up[q] => to_client'[q] = Append(<<>>, Greeting)
      BY <2>2, <2>3, <2>4, <3>1 DEF Written, TypeOK
    <3>3. ~ Backlogged(q)' /\ q \in connected'
      BY <2>2, <2>3, <2>4
    <3>4. up[q] => to_client'[q] # <<>>
      <4>1. Append(<<>>, Greeting) # <<>>
        BY GreetedOnce, EmptyContents
      <4>. QED  BY <3>2, <4>1
    <3>. QED  BY <1>3, <2>3, <3>3, <3>4 DEF Served
  <2>5. CASE q # p
    <3>1. to_server'[q] = to_server[q] /\ to_client'[q] = to_client[q]
      BY <2>3, <2>5 DEF Written, Consumed, TypeOK
    <3>2. (Backlogged(q)' <=> Backlogged(q)) /\ (q \in connected => q \in connected')
      BY <2>2, <2>3, <2>5
    <3>. QED  BY <1>1, <1>3, <2>3, <3>1, <3>2 DEF Served
  <2>. QED  BY <2>4, <2>5
<1>5. CASE AcceptFails
  <2>1. CASE Stops
    <3>1. ~ up'[q]
      BY <2>1, LosesMost DEF Stops
    <3>. QED  BY <3>1 DEF Served
  <2>2. CASE /\ backlog' = Tail(backlog)
             /\ to_server' = Emptied(to_server, {Head(backlog)})
             /\ StartServing
             /\ UNCHANGED <<connected, up, to_client>>
    <3>1. PICK p \in Process : p = Head(backlog)
      BY <1>5, <2>2, BacklogShrinks DEF AcceptFails
    <3>2. ~ up[p] /\ \A k : Backlogged(k)' <=> Backlogged(k) /\ k # p
      BY <1>5, <2>2, <3>1, BacklogShrinks DEF AcceptFails
    <3>3. poll'.at = "serve"
      BY <2>2 DEF StartServing, TypeOK
    <3>4. q # p => to_server'[q] = to_server[q]
      BY <2>2, <3>1, LosesMost
    <3>. QED  BY <1>1, <1>3, <2>2, <3>2, <3>3, <3>4 DEF Served
  <2>. QED  BY <1>5, <2>1, <2>2 DEF AcceptFails
<1>6. ASSUME NEW p \in Process, AcceptsNoMore \/ ServeNothing(p)
      PROVE  Served(q)'
  <2>1. UNCHANGED <<up, to_server, to_client, backlog, connected>>
    BY <1>6 DEF AcceptsNoMore, ServeNothing, streams
  <2>2. poll'.at # "stopped"
    BY <1>6 DEF AcceptsNoMore, ServeNothing, StartServing, TypeOK
  <2>3. Backlogged(q)' <=> Backlogged(q)
    BY <2>1 DEF Backlogged
  <2>. QED  BY <1>1, <1>3, <2>1, <2>2, <2>3, ServedKept
<1>7. ASSUME NEW p \in Process, Serve(p)
      PROVE  Served(q)'
  <2>1. /\ UNCHANGED <<up, backlog, connected>> /\ poll'.at # "stopped" /\ p \in connected
        /\ to_server' = Consumed(to_server, p)
        /\ to_client' = IF up[p] THEN Written(to_client, p, Head(to_server[p])) ELSE to_client
    BY <1>7 DEF Serve, TypeOK
  <2>2. ~ Backlogged(p) /\ (Backlogged(q)' <=> Backlogged(q))
    BY <2>1 DEF Backlogged, TypeOK
  <2>3. CASE q = p
    <3>1. to_client[p] \in Seq(Message) /\ Head(to_server[p]) \in Message
      BY <1>7, StreamTypes, ConsumedType DEF Serve, TypeOK
    <3>2. up[p] => to_client'[p] = Append(to_client[p], Head(to_server[p]))
      BY <2>1 DEF Written, TypeOK
    <3>3. up[p] => to_client'[p] # <<>>
      BY <3>1, <3>2
    <3>. QED  BY <1>3, <2>1, <2>2, <2>3, <3>3 DEF Served
  <2>4. CASE q # p
    <3>1. to_server'[q] = to_server[q] /\ to_client'[q] = to_client[q]
      BY <2>1, <2>4 DEF Written, Consumed, TypeOK
    <3>. QED  BY <1>1, <1>3, <2>1, <2>2, <3>1, ServedKept
  <2>. QED  BY <2>3, <2>4
<1>8. CASE EndPoll
  <2>1. UNCHANGED backlog /\ connected' = connected \ Dropped /\ poll'.at # "stopped"
    BY <1>8 DEF EndPoll, StartPoll
  <2>2. Backlogged(q)' <=> Backlogged(q)
    BY <2>1 DEF Backlogged
  <2>3. CASE q \in Dropped
    <3>1. ~ up'[q]
      BY <1>8, <2>3, LosesMost DEF EndPoll
    <3>. QED  BY <3>1 DEF Served
  <2>4. CASE q \notin Dropped
    <3>1. up'[q] = up[q] /\ to_server'[q] = to_server[q] /\ to_client'[q] = to_client[q]
      BY <1>8, <2>4, LosesMost, StreamTypes DEF EndPoll
    <3>. QED  BY <1>1, <1>3, <2>1, <2>2, <2>4, <3>1, ServedKept
  <2>. QED  BY <2>3, <2>4
<1>. QED  BY <1>4, <1>5, <1>6, <1>7, <1>8 DEF ServerStep

(* A stream breaks, or a process ends. *)
LEMMA ServedBreaks ==
  ASSUME CallsInv, ServedInv, NEW p \in Process, Exit(p) \/ Reset(p)
  PROVE  ServedInv'
<1>. TypeOK
  BY DEF CallsInv, Inv
<1>1. UNCHANGED <<backlog, connected, poll, status>> /\ Closing({p})
  BY DEF Exit, Reset, server_vars, calls
<1>2. ~ up'[p]
  BY <1>1, LosesMost
<1>3. \A q \in Process \ {p} : up'[q] = up[q]
  BY <1>1, LosesMost, StreamTypes
<1>4. \A q \in Process \ {p} :
        /\ client'[q] = client[q] /\ thread'[q] = thread[q]
        /\ to_server'[q] = to_server[q] /\ to_client'[q] = to_client[q]
  <2>1. \A q \in Process \ {p} :
          to_server'[q] = to_server[q] /\ to_client'[q] = to_client[q]
    BY LosesMost DEF Exit, Reset
  <2>. QED  BY <2>1 DEF Exit, Reset, client_vars, TypeOK
<1>5. ASSUME NEW q \in Process \ {p} PROVE Served(q)' /\ Awaited(q)'
  <2>1. Served(q) /\ Awaited(q) /\ (Backlogged(q)' <=> Backlogged(q))
    BY <1>1 DEF ServedInv, Backlogged
  <2>2. up'[q] => up[q] /\ poll'.at # "stopped"
    BY <1>1, <1>3, <2>1 DEF Served
  <2>. QED  BY <1>1, <1>3, <1>4, <2>1, <2>2, ServedKept, AwaitedKept
<1>6. Served(p)' /\ Awaited(p)'
  <2>1. \/ client'[p] = "gone"
        \/ client'[p] = client[p] /\ thread'[p] = thread[p]
    BY DEF Exit, Reset, client_vars, TypeOK
  <2>2. client'[p] = "gone" => Awaited(p)'
    BY DEF Awaited, Pending
  <2>. QED  BY <1>1, <1>2, <2>1, <2>2, AwaitedKept DEF Served, ServedInv
<1>. QED  BY <1>5, <1>6 DEF ServedInv

LEMMA ServedNext == CallsInv /\ ServedInv /\ [Next]_vars => ServedInv'
<1>. SUFFICES ASSUME CallsInv, ServedInv, [Next]_vars PROVE ServedInv'
  OBVIOUS
<1>1. CASE UNCHANGED vars
  <2>1. UNCHANGED <<client, thread, up, to_server, to_client, backlog, connected, poll,
                    status>>
    BY <1>1 DEF vars, server_vars, client_vars, streams, calls
  <2>. QED  BY <2>1 DEF ServedInv, Served, Awaited, WaitedFor, Pending, Backlogged
<1>. QED
  BY <1>1, ServedConnects, ServedCalls, ServedByServer, ServedBreaks DEF Next

(* A call that is pending never waits for nothing: a thread of its process *)
(* looks for its reply; while the stream is up the server lives and polls  *)
(* it, and the call is at one place, as RepliesCorrect states.  A process  *)
(* that waits for the server's greeting has it under way, or waits to be   *)
(* accepted.  The one the server ever waits for, reading a greeting in its *)
(* only loop, is a process that has connected and has yet to send it.      *)
NobodyIsLeftAlone ==
  /\ \A c \in Call : Pending(c) => WaitedFor(c[1], c[2])
  /\ \A p \in Process : up[p] =>
       /\ client[p] = "open" => p \in connected /\ poll.at # "stopped"
       /\ client[p] = "greeted" => Backlogged(p) \/ to_client[p] # <<>>
  /\ backlog # <<>> /\ up[Head(backlog)] /\ to_server[Head(backlog)] = <<>>
       => client[Head(backlog)] = "connected"

THEOREM NobodyLeftAlone == Spec => []NobodyIsLeftAlone
<1>1. Spec => Init /\ [][Next]_vars
  BY DEF Spec
<1>2. Spec => []ServedInv
  BY <1>1, ServedInit, ServedNext, CallsTraced, PTL
<1>3. ASSUME CallsInv, ServedInv PROVE NobodyIsLeftAlone
  <2>. TypeOK
    BY <1>3 DEF CallsInv, Inv
  <2>1. \A c \in Call : Pending(c) => WaitedFor(c[1], c[2])
    BY <1>3, CallParts DEF ServedInv, Awaited
  <2>2. ASSUME NEW p \in Process, up[p]
        PROVE  /\ client[p] = "open" => p \in connected /\ poll.at # "stopped"
               /\ client[p] = "greeted" => Backlogged(p) \/ to_client[p] # <<>>
    <3>1. client[p] = "open" => ~ Backlogged(p)
      BY <1>3 DEF CallsInv, Traced, Greets
    <3>. QED  BY <1>3, <2>2, <3>1 DEF ServedInv, Served
  <2>3. ASSUME backlog # <<>>, up[Head(backlog)], to_server[Head(backlog)] = <<>>
        PROVE  client[Head(backlog)] = "connected"
    <3>1. PICK p \in Process : p = Head(backlog) /\ Backlogged(p)
      <4>1. backlog \in Seq(Process) /\ 1 \in DOMAIN backlog /\ Head(backlog) = backlog[1]
        BY <2>3 DEF TypeOK
      <4>. QED  BY <4>1 DEF Backlogged
    <3>2. client[p] \notin {"absent", "gone", "open"}
      BY <1>3, <2>3, <3>1 DEF CallsInv, Traced, Greets
    <3>3. client[p] # "greeted"
      BY <1>3, <2>3, <3>1 DEF ServedInv, Served
    <3>. QED  BY <3>1, <3>2, <3>3, StreamTypes
  <2>. QED  BY <2>1, <2>2, <2>3 DEF NobodyIsLeftAlone
<1>. QED  BY <1>2, <1>3, CallsTraced, PTL
=============================================================================
