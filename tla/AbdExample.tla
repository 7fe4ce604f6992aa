----------------------------- MODULE AbdExample -----------------------------
(***************************************************************************)
(* The example program: client processes that read and write the register  *)
(* in turns, end or are killed, and are started again under the same id;   *)
(* and servers that are started again.  Nothing is kept on a disk: a       *)
(* process begins with its counters at 0, a server with the initial value. *)
(* At any time there is one process with an id.                            *)
(***************************************************************************)
EXTENDS AbdProperties, Functions

CONSTANTS
  Workloads,  \* the arguments n_writes and n_reads that c may be started with
  MaxStarts,  \* bound: how often a client is started, all clients together
  MaxRestarts,\* bound: how many servers are started again
  MaxDropped  \* bound: no link is dropped by its server when so many are broken

ASSUME ExampleAssumption ==
  /\ Workloads \in [Clients -> SUBSET [n_writes : Nat, n_reads : Nat]]
  /\ \A c \in Clients : \A w \in Workloads[c] : 1 .. w.n_writes \subseteq Arguments
  /\ MaxStarts \in Nat /\ MaxRestarts \in Nat /\ MaxDropped \in Nat

VARIABLES
  running,          \* the clients that have a process
  lives,            \* how often a client was started
  remaining_writes, remaining_reads, last_was_read,
  expected_value,   \* {v}: a client read v first, or read or wrote it last
  leftover,         \* the writes of processes that ended, still under way
  restarts,         \* how many servers were started again
  abandoned,        \* ghost: the timestamps of writes whose process ended
  forgot,           \* ghost: the servers that were started again
  accompanied       \* ghost: the clients that ran beside one with writes to make

workload == <<remaining_writes, remaining_reads, last_was_read, expected_value>>
process  == <<running, lives, accompanied>>
faults   == <<leftover, restarts, abandoned, forgot>>
example_vars == <<vars, workload, process, faults>>

ExampleInit ==
  /\ Init
  /\ running = {} /\ lives = [c \in Clients |-> 0]
  /\ remaining_writes = [c \in Clients |-> 0]
  /\ remaining_reads  = [c \in Clients |-> 0]
  /\ last_was_read    = [c \in Clients |-> FALSE]
  /\ expected_value   = [c \in Clients |-> {}]
  /\ leftover = {} /\ restarts = 0
  /\ abandoned = {} /\ forgot = {} /\ accompanied = {}

-----------------------------------------------------------------------------
(* run_client: new channels, new counters.  At least one read is made.     *)
(* last_was_read begins as FALSE, so that the first operation is a read.   *)
Start(c) ==
  /\ c \notin running
  /\ FoldFunction(+, 0, lives) < MaxStarts
  /\ running' = running \cup {c}
  /\ lives' = [lives EXCEPT ![c] = @ + 1]
  /\ request_ctr' = [request_ctr EXCEPT ![c] = 0]
  /\ client_ctr'  = [client_ctr EXCEPT ![c] = 0]
  /\ \E w \in Workloads[c] :
       /\ remaining_writes' = [remaining_writes EXCEPT ![c] = w.n_writes]
       /\ remaining_reads' =
            [remaining_reads EXCEPT ![c] = IF w.n_reads > 0 THEN w.n_reads ELSE 1]
       /\ accompanied' = (accompanied \ {c})
            \cup (IF w.n_writes > 0 THEN running ELSE {})
            \cup (IF \E d \in running : remaining_writes[d] > 0 THEN {c} ELSE {})
  /\ last_was_read'  = [last_was_read EXCEPT ![c] = FALSE]
  /\ expected_value' = [expected_value EXCEPT ![c] = {}]
  /\ broken' = {l \in broken : l[1] # c}
  /\ UNCHANGED <<server, requests, responses, phase, request, new_value, accum,
                 ghosts, faults>>

(* The process ends, and its memory and channels with it.  What it has     *)
(* sent may still arrive.                                                  *)
End(c) ==
  /\ running' = running \ {c}
  /\ leftover' = leftover \cup
       {[client |-> c, to |-> r.to, timestamp |-> r.timestamp, value |-> r.value] :
          r \in {r \in requests : r.client = c /\ r.type = "Write" /\ r.to # {}}}
  /\ abandoned' = IF phase[c] = "write" THEN abandoned \cup {request[c].timestamp}
                                        ELSE abandoned
  /\ requests' = {r \in requests : r.client # c}
  /\ Forget(c)
  /\ Goto(c, "idle")
  /\ request'        = [request EXCEPT ![c] = NoRequest(c)]
  /\ new_value'      = [new_value EXCEPT ![c] = None]
  /\ max_resp'       = [max_resp EXCEPT ![c] = Initial]
  /\ agree_with_max' = [agree_with_max EXCEPT ![c] = {}]
  /\ replies'        = [replies EXCEPT ![c] = {}]
  /\ errors'         = [errors EXCEPT ![c] = {}]
  /\ min_ts'         = [min_ts EXCEPT ![c] = TsDefault]
  /\ UNCHANGED <<server, broken, request_ctr, client_ctr, watermark, workload, lives,
                 accompanied, restarts, forgot>>

Done(c) == remaining_writes[c] + remaining_reads[c] = 0

Finish(c) == c \in running /\ phase[c] = "idle" /\ Done(c) /\ End(c)

Killed(c) == c \in running /\ End(c)

(* An operation fails, and run_client returns its error. *)
Fail(c) ==
  /\ c \in running /\ phase[c] # "idle"
  /\ ~ Terminated(c)
  /\ n_received(c) >= Cardinality(Servers)
  /\ End(c)

-----------------------------------------------------------------------------
(* The loop of run_client. *)
WriteIsNext(c) ==
  (last_was_read[c] /\ remaining_writes[c] > 0) \/ remaining_reads[c] = 0

BeginOperation(c) ==
  /\ c \in running /\ ~ Done(c)
  /\ \/ WriteIsNext(c) /\ WriteInvoke(c, remaining_writes[c])
     \/ ~ WriteIsNext(c) /\ ReadInvoke(c)
  /\ UNCHANGED <<workload, process, faults>>

(* The first read sets expected_value, which later reads have to agree with. *)
EndRead(c) ==
  /\ ReadUnanimous(c) \/ ReadReturn(c)
  /\ remaining_reads' = [remaining_reads EXCEPT ![c] = @ - 1]
  /\ last_was_read'   = [last_was_read EXCEPT ![c] = TRUE]
  /\ expected_value'  = [expected_value EXCEPT ![c] = {max_resp[c].value}]
  /\ UNCHANGED <<remaining_writes, process, faults>>

(* Mutation: the write is counted before its value is noted. *)
EndWriteCountsFirst(c) ==
  /\ WriteReturn(c)
  /\ remaining_writes' = [remaining_writes EXCEPT ![c] = @ - 1]
  /\ last_was_read'    = [last_was_read EXCEPT ![c] = FALSE]
  /\ expected_value'   = [expected_value EXCEPT ![c] = {remaining_writes'[c]}]
  /\ UNCHANGED <<remaining_reads, process, faults>>

EndWrite(c) ==
  /\ WriteReturn(c)
  /\ remaining_writes' = [remaining_writes EXCEPT ![c] = @ - 1]
  /\ last_was_read'    = [last_was_read EXCEPT ![c] = FALSE]
  /\ expected_value'   = [expected_value EXCEPT ![c] = {new_value[c]}]
  /\ UNCHANGED <<remaining_reads, process, faults>>

Continue(c) ==
  /\ \/ ReadWriteBack(c) \/ WriteExecute(c)
     \/ \E m \in responses : Deliver(c, m)
     \/ \E s \in Servers : InsertError(c, s)
  /\ UNCHANGED <<workload, process, faults>>

-----------------------------------------------------------------------------
(* The servers. *)
HandleRequest(s) ==
  /\ \E r \in requests : Handle(s, r)
  /\ UNCHANGED <<workload, process, faults>>

(* Mutation: the replica takes whatever it is sent. *)
HandleLeftoverUnguarded(s, w) ==
  /\ s \in w.to
  /\ server' = [server EXCEPT ![s] = [timestamp |-> w.timestamp, value |-> w.value]]
  /\ leftover' = (leftover \ {w}) \cup
                   (IF w.to = {s} THEN {} ELSE {[w EXCEPT !.to = @ \ {s}]})
  /\ UNCHANGED <<requests, responses, broken, client, accum, ghosts, workload,
                 process, restarts, abandoned, forgot>>

(* A write of a process that has ended; nobody takes the response. *)
HandleLeftover(s, w) ==
  /\ s \in w.to
  /\ server' = IF TsLt(server[s].timestamp, w.timestamp)
               THEN [server EXCEPT ![s] = [timestamp |-> w.timestamp, value |-> w.value]]
               ELSE server
  /\ leftover' = (leftover \ {w}) \cup
                   (IF w.to = {s} THEN {} ELSE {[w EXCEPT !.to = @ \ {s}]})
  /\ UNCHANGED <<requests, responses, broken, client, accum, ghosts, workload,
                 process, restarts, abandoned, forgot>>

(* The server meets the end of an earlier process with the id of c, and    *)
(* drops every channel with that id.                                       *)
DropClient(s, c) ==
  /\ c \in running /\ lives[c] > 1 /\ <<c, s>> \notin broken
  /\ Cardinality(broken) < MaxDropped
  /\ broken' = broken \cup {<<c, s>>}
  /\ UNCHANGED <<server, requests, responses, client, accum, ghosts, workload,
                 process, faults>>

(* A server is started again.  What was sent to it is lost, and the        *)
(* channels to it are of no use any more.                                  *)
Restart(s) ==
  /\ restarts < MaxRestarts
  /\ restarts' = restarts + 1
  /\ server'   = [server EXCEPT ![s] = Initial]
  /\ requests' = {[r EXCEPT !.to = @ \ {s}] : r \in requests}
  /\ leftover' = {w \in {[w EXCEPT !.to = @ \ {s}] : w \in leftover} : w.to # {}}
  /\ broken'   = broken \cup (running \X {s})
  /\ forgot'   = forgot \cup {s}
  /\ UNCHANGED <<responses, client, accum, ghosts, workload, process, abandoned>>

-----------------------------------------------------------------------------
ExampleNext ==
  \/ \E c \in Clients : \/ Start(c) \/ Finish(c) \/ Killed(c) \/ Fail(c)
                        \/ BeginOperation(c) \/ Continue(c) \/ EndRead(c) \/ EndWrite(c)
                        \/ \E s \in Servers : DropClient(s, c)
  \/ \E s \in Servers : \/ HandleRequest(s) \/ Restart(s)
                        \/ \E w \in leftover : HandleLeftover(s, w)

ExampleSpec == ExampleInit /\ [][ExampleNext]_example_vars

-----------------------------------------------------------------------------
(* Two values are found under one timestamp only if a process ended before *)
(* its write with that timestamp returned, or a server forgot a write: one *)
(* that returned, in whatever life, is never taken for another.            *)
ExamplePairs ==
  Pairs \cup {[timestamp |-> w.timestamp, value |-> w.value] : w \in leftover}

ClashesAreWithAbandonedWrites ==
  \A x, y \in ExamplePairs :
    (x.timestamp = y.timestamp /\ x # y) => (x.timestamp \in abandoned \/ forgot # {})

(* A quorum that does not know what an operation returned has a server     *)
(* that was started again.                                                 *)
OnlyAmnesiaUncovers ==
  \A Q \in Quorums :
    \/ \E s \in Q : TsLe(watermark, server[s].timestamp)
    \/ Q \cap forgot # {}

(* A read that chooses a value older than what an operation had returned   *)
(* when it began was told so by a server that was started again: one that  *)
(* answered it or, once it writes the value back and has forgotten who     *)
(* answered, some server.                                                  *)
StaleReadsHeardFromForgetful ==
  \A c \in Clients :
    TsLt(max_resp[c].timestamp, min_ts[c]) =>
      /\ phase[c] = "get" /\ IsQuorum(replies[c]) => replies[c] \cap forgot # {}
      /\ phase[c] = "write_back" => forgot # {}

(* The assertion of the loop: a read returns what the client read first or *)
(* wrote last, if no client with writes to make runs beside it, no write   *)
(* was abandoned and no server was started again.                          *)
LoneClientReadsItsWrites ==
  [][\A c \in Clients \ accompanied :
       EndRead(c) /\ abandoned = {} /\ forgot = {}
         => expected_value[c] \subseteq expected_value'[c]]_example_vars
=============================================================================
