# A TLA+ model of verdist

This directory models the programs of this repository: `verdist`, a library of
channels, connection pools and remote calls; `abd`, a replicated register built
on it; `echo`, a service with one server. The repository verifies its code with
Verus against specifications of data; the models here are about the *runs* of
the system: messages that cross, clients that interleave, links that break,
operations that must end.

## The system

| Part | State it keeps | Operations | Interacts with |
|---|---|---|---|
| Timestamps (`abd/src/timestamp.rs`) | none: three numbers and their order | comparison | every part of ABD |
| ABD server (`abd/src/server`) | `MonotonicRegisterInner`: value, timestamp; the connected channels | `handle_get`, `handle_get_timestamp`, `handle_write`, `poll`, `accept` | answers requests of clients, one per channel and poll |
| ABD client (`abd/src/client`) | `client_ctr`, `request_ctr`; in an operation: the accumulator of the phase (`max_resp`, `agree_with_max`, replies) | `read`, `write` | broadcasts over a pool, waits for a quorum |
| Linearization queue (`abd/src/invariants/lin_queue`) | ghost: pending and completed linearizers, the watermark, the register value | `insert_*_linearizer`, `apply_linearizers_up_to`, `extract_*_completion`, `remove_*_lin` | opened by the client at the invocation and the return of an operation |
| Commitments, request map, server universe (`abd/src/invariants`) | ghost: timestamp to value, request id to request, timestamp of each server | `commit_value`, `issue_request`, `advance` | client and server |
| RPC (`verdist/src/rpc`, `verdist/src/pool`) | replies and errors of a request | `broadcast`, `wait_for`, `poll`, `invoke`, `try_poll` | sends and receives on channels |
| Channels (`verdist/src/network`) | `BufChannel`: responses with another tag, kept for later | `send`, `try_recv`, `try_recv_tag`, `try_accept`, `connect` | modelled (in-process queues), TCP, UDP |
| Echo (`echo`) | nothing but connections | `echo` | `RpcChannel` |

What is hard in it: phases of different clients interleave with the handling of
their requests; a write may fail half way and its requests stay in flight; a
reader may learn of a value that only a minority holds; replies, errors and the
give-up condition race; the transports delay, lose or duplicate messages.

What makes each part correct, and where it is stated:

| Part | Correct if | Stated as |
|---|---|---|
| Timestamps | what runs is the order that is specified, and that order is total | `ObeysPartialCmpSpec`, `TsTotal`, `CmpSpecIgnoresCounter` (where `cmp_spec` is wrong) |
| ABD server | a replica never goes back, whatever arrives again or late | `ServersAreMonotonic` |
| ABD client | reads and writes are those of one atomic register; each ends, and fails only if it has to | `Linearizable`, `ReadsAreFresh`, `WritesAreNewer`, `QuorumsCoverWatermark`, `OperationsReturn`, `NobodyWaitsInVain`, `FailsOnlyWhenUnattainable` (refuted) |
| Linearization queue | every linearizer is applied at most once, in timestamp order, between invocation and return | `BasicInv`, `WriteDomInv`, `ReadDomInv`, `QueueIsUsedWell` |
| Commitments | a timestamp names one value for good | `TimestampsNameOneValue`, `CommitmentsHold`, `CommitmentsAreUsedWell`, `CommitmentsStay` |
| Request map | no tag stands for two requests | `ProofsAgree` |
| Server universe, monotonic resources | what a client concludes from replies is true of the replicas and of every quorum | `BoundsAreValid`, `ResponsesReach`, `AccumulatorsKnow`, `QuorumLowerBound` |
| RPC, channels | a reply reaches the thread that asked, whichever thread took it from the stream; a call ends | `RepliesAreNotLost`, `AtMostOnce`, `CallsReturn` |
| Echo server | a call is executed once; one client's failure is not another's | `AtMostOnce`, `FailuresStayLocal` |

## Modules

| Module | What it is |
|---|---|
| `Timestamps` | the timestamp and its derived order |
| `TimestampCmp` | that order next to the two specifications written by hand beside it |
| `Abd` | the replicated register: servers, clients, links |
| `AbdProperties` | what is checked of it, and its inductive invariant |
| `LinQueue` | the linearization queue: every operation, and the queue on its own |
| `LinRegister` | one atomic register: what `read` and `write` promise |
| `Commitments` | which value each timestamp stands for: logging in, allocating, committing, taking back |
| `AbdLin` | `Abd` composed with an instance of `LinQueue` and the commitments; shown to implement `LinRegister` and to use `LinQueue` and `Commitments` as they may be used |
| `ServerUniverse` | views of the replicas, and what a view tells of every quorum |
| `MonotonicTimestamp` | the resource algebra of a replica's timestamp: rights to advance it and lower bounds |
| `AbdUniverse` | `Abd` with the request map, the clients' views and the bounds in responses |
| `Calls` | what a remote call promises: executed at most once, answered with its own reply |
| `Echo` | the echo service: connecting, `RpcChannel` and `BufChannel`, the server's `poll`; shown to implement `Calls` |
| `MCAbd`, `MCAbdLin`, `MCAbdUniverse`, `MCLinQueue`, `MCEcho` | the constants of the small instances |
| `TimestampProofs`, `AbdProofs`, `LinQueueProofs`, `CommitmentsProofs`, `AbdLinProofs`, `AbdExtensionProofs`, `EchoProofs`, `NetworkProofs` | the theorems |

An operator whose comment starts with "Mutation:", and a few in `Echo` that
stand right before the definition they resemble, are slips a programmer could
make in that definition. Nothing uses them; they show that a property would
notice.

### How Abd follows the code

| Action | Code |
|---|---|
| `HandleGet`, `HandleGetTimestamp`, `HandleWrite` | one request taken from a channel in `poll`, handled, answered |
| `ReadInvoke`, `WriteInvoke` | from the call of `read`/`write` to the first broadcast |
| `InsertGet`, `InsertGetTimestamp`, `InsertWrite`, `InsertWriteBack` | one response put into the accumulator by `wait_for` |
| `ReadUnanimous`, `ReadWriteBack` | `read` between the two phases: return early or write back |
| `WriteExecute` | `write` between the two phases: choose the timestamp, broadcast |
| `ReadReturn`, `WriteReturn` | the end of the second phase |
| `GiveUp` | `wait_for` gives up and the operation returns an error |
| `LinkBreaks`, `LinkRecovers` | no code: the network, of which a connection is reset or works again |
| `InsertError` | `poll` reports a broken connection, `wait_for` keeps the error |

`wait_for` inserts the responses of one poll of the pool one after the other and
looks at its conditions after the batch. The model may look after every
response, which allows every run of the code, for nothing happens to the
client between two insertions of a batch and the accumulators only grow. A
response to an older request is kept in the client's buffer under its own tag
and never asked for, so the model does not keep it. `request_ctr` and
`client_ctr` are the atomic counters of `AbdPool`; the model has one operation
at a time per client, as `read` and `write` take `&mut self`.

`watermark` and `min_ts` are ghost: the greatest timestamp returned so far, and
its value when the operation was invoked. They guard nothing.

### How LinQueue and AbdLin follow the code

`LinQueue` has one operator for each function of `LinearizationQueue`. The
recursion of `apply_linearizers_up_to` is done in one step, `ApplyAndExtract`:
all pending writes up to the timestamp take effect in order, each followed by
the reads that wait for its value, and the caller's token is used. A read of a
value that several of these writes write takes effect after the first of them
(`ReadFrom`). `Next` calls any operation whose precondition holds.

`AbdLin` runs the queue inside the actions of `Abd`, as the client does inside
its atomic invariants:

| Action | Code of the client, besides the action of `Abd` |
|---|---|
| `LinReadInvoke`, `LinWriteInvoke` | `insert_read_linearizer`; `alloc_value`, `insert_write_linearizer` |
| `LinReadWriteBack` | the prophecy of the value is resolved |
| `LinWriteExecute` | the prophecy of the sequence number is resolved, `commit_value` |
| `LinReadReturn`, `LinWriteReturn` | `apply_linearizers_up_to` and `extract_*_completion` |
| `LinGiveUp` | a read: `remove_read_lin`; a write in its first phase: `remove_write_lin`, `remove_allocation`; a write in its second phase leaves its linearizer behind |

A prophecy is a guess made at the invocation. When it turns out wrong the
action that resolves it is not enabled and the run stops, which is what the
verifier assumes of a prophecy; hence `CHECK_DEADLOCK FALSE` in these runs. An
invocation's insertion into the queue and its first broadcast are one step: no
other process can tell them apart, since a request cannot be answered before it
is sent. `LinRegister` is the specification in `specs/src/register.rs` as a
state machine: an operation takes effect at one instant between invocation and
return, a failed one took effect or never will, and a write that failed in its
second phase is an orphan that may take effect at any later time, once.

`Commitments` has one operator for each function of the code's `Commitments`
that changes it. The client reads the permission of its counter out of the
commitments, bumps the counter and gives the permission back, all inside one
atomic invariant: `Counted` is that, and `alloc_value` and `return_permission`
are its two uses. `AbdLin` keeps the same state in its own variables, from the
point at which its clients have logged in; `LC` names the correspondence.

### How AbdUniverse follows the code

What a client knows of the replicas is, in the code, a `ServerUniverse`: a map
from servers to lower bounds, which travels in requests and grows in the
accumulators. Each replica's timestamp is a resource that the replica and the
shared state own half of each (`MonotonicTimestamp`); everybody else holds lower
bounds of it. In `AbdUniverse` a view is a function from servers to timestamps:

| Action | Code, besides the action of `Abd` |
|---|---|
| `UniReadInvoke`, `UniWriteInvoke`, `UniWriteExecute` | `extract_lbs` takes a view of the replicas as they are now; `issue_request_proof` records the request with it; a new accumulator begins with it |
| `UniReadWriteBack` | the write-back's request carries the view that the read began with; the accumulator goes on |
| `UniHandle` | the response carries a lower bound of the replica's timestamp after the request |
| `UniInsertGet`, `UniInsertGetTimestamp` | `update_servers`: the bound replaces what was known |
| `UniInsertWriteBack`, `UniInsertWrite` | the bound replaces what was known if it is greater; a server that agrees with the maximum already says nothing new |
| `UniLeave` | the operation ends and the accumulator is dropped |

`issued` is the request map; it only grows, and its keys are the pairs of client
and tag. A bound that belongs to a forgotten response is forgotten with it.
Locations and tokens, by which the verifier tells one replica's resource from
another's, are the arguments of these functions.

### How Echo follows the code

| Action | Code |
|---|---|
| `Connect`, `Greet`, `FinishConnect` | `TcpConnector::connect`: the connection is made, the client's id written, the server's id read |
| `Invoke` | `echo` and `RpcChannel::async_invoke`: the next tag, the send |
| `Look`, `Receive`, `Keep` | `BufChannel::try_recv_tag`: the buffer, under its lock; the stream, without it; the buffer again for a response with another tag |
| `Accept`, `AcceptFails`, `AcceptsNoMore` | the first loop of `poll` with `TcpListener::try_accept`, which blocks until the client's id has come |
| `Serve`, `ServeNothing` | one turn of the second loop of `poll` |
| `EndPoll` | `retain`: the streams of every client id that failed are dropped |
| `Stops` | `poll` returns false and the server's process ends |
| `Exit`, `Reset` | a client's process ends; the network resets a stream |

The ABD server's `poll` is the same loop. A stream is a sequence of whole
messages in each direction; when it closes, a suffix of what is under way may be
lost (`Shortened`). `connected` is a set, because nothing depends on the order
in which the streams are served. The loop's position is in `poll`, so a client's
steps fall between any two turns of it. The threads of a process are the users
that `RpcChannel` and `BufChannel` allow by taking `&self` and by guarding the
buffer with a lock; `EchoClient::echo` itself takes `&mut self`, and with one
thread the model is that client. A call is named by its process and tag, so
that the reply to another call could be told from its own; an echo's message is
its name.

## What is checked

| Run | Instance | What it shows |
|---|---|---|
| `failures` | one client that writes twice with up to three requests; its links to a majority break and one of them recovers; requests are delivered any number of times | `TypeOK`; a timestamp names one value wherever it is found, though a write failed half way and its requests are still in flight (`TimestampsNameOneValue`); replicas go forward, whatever arrives late or again (`ServersAreMonotonic`) |
| `liveness` | a reader and a writer, one link that may break | every operation ends (`OperationsReturn`) |
| `lin_queue` | four write timestamps, two reads, three values | the invariants of the queue under any legal sequence of calls: `basic_inv`, `write_dom_inv`, `read_dom_inv` |
| `lin_two_writers` | two clients that write at most once, one of them after a read of one phase; two prophesied sequence numbers | every quorum knows of what was returned (`QuorumsCoverWatermark`), no read is older than what had been returned when it was invoked (`ReadsAreFresh`), writes are newer (`WritesAreNewer`), the register is linearizable (`Linearizable`) |
| `lin_failures` | a client that reads or writes and whose links to a majority may break, and a reader | a write that failed half way takes effect once or never, and is seen consistently (`Linearizable`); the queue is called only as its preconditions allow (`QueueIsUsedWell`); every timestamp in the system is allocated to its value (`CommitmentsHold`); what has been committed to is never taken back, nor is the allocation of one client by another (`CommitmentsAreUsedWell`); an operation that has not ended can end, or an answer or an error is yet to come (`NobodyWaitsInVain`) |
| `universe` | a reader whose links to a majority may break, and a client that reads or writes | no bound that a client, a request or a response carries exceeds its replica's timestamp (`BoundsAreValid`), no tag stands for two requests (`ProofsAgree`), a response vouches for what the client knew and asked for (`ResponsesReach`), and the views justify what the accumulators conclude from them, among it that every quorum knows of what returned before (`AccumulatorsKnow`) |
| `echo` | the client `a1` that ends and `a2` that is started with its id, two threads of `a2` with a call each, a client `b` with one call; one connection accepted per poll | calls are executed at most once and get their own replies (`AtMostOnce`), a reply that is waited for is at one place and not lost (`RepliesAreNotLost`), a call fails only because of its own client id or the end of the server (`FailuresStayLocal`), every call ends (`CallsReturn`) |
| `network` | three callers, two of them with one client id; two sockets for a UDP server; a short, a long and a short message on a TCP stream | however callers overlap, nobody shares a channel, and a channel bears the id of a caller that waited in the same round (`IdsAgree`); by UDP the two ends match (`PeersMatch`); a call fails only if the server ended or a channel with the id that the server knows the caller's by was dropped (`FailuresStayLocal`), every `connect` returns (`ConnectsReturn`); TCP's messages are framed (`Framing`), received in order and once (`ReceivedInOrder`), and all of them unless a frame was damaged (`ReliableUnlessDamaged`); `try_recv` returns (`TryRecvReturns`) |
| `example` | two processes: client 1 twice, which reads, writes and reads or reads and writes another value, or each client once; client 2 reads; one server is started again | what goes wrong is due to a write that was abandoned (`ClashesAreWithAbandonedWrites`) or a server that forgot (`OnlyAmnesiaUncovers`, `StaleReadsHeardFromForgetful`), and the assertion of `run_client` holds where no one else writes (`LoneClientReadsItsWrites`) |
| `hang`, `premature_failure`, `tcp_reliable` | | the disagreements below |

Why the bounds suffice. Three servers are the smallest system in which a
quorum is a proper subset and two quorums may share a single server that is
behind in one of them; a new-old inversion needs a writer and two reads, which
`lin_two_writers` has within a client and across two. Two timestamps that could
collide need two writes of one client (`failures`, `example`) or two of two
clients (`lin_two_writers`). Values are `None` and one or two others: properties
compare values only for equality, and two operations are enough to confuse two.
In `lin_queue` two clients with two sequence numbers each give every order of
four timestamps that the code can meet, and three values let two writes write
the same and one another. `MaxAccepts` is one instead of ten, so that one client
waiting while another is accepted meets the limit. `MaxWrites`, `MaxRequests`,
`MaxReads`, `MaxCalls` and `Prophecies` bound what clients do; `Flaky`,
`Transient`, `Mortal` and `Breakable` say which links and processes may fail,
and `Duplicating` whether requests are repeated, which they are in `failures`.
Servers are symmetric where no run's liveness is checked; where links of client
1 to two servers may break, only those two are interchanged. The runs switch
deadlock checking off because clients stop when their operations are used up,
and, in `AbdLin`, at a wrong guess. `universe` gives each client one operation: a
read has two requests with two tags, which is enough for a late response to
meet the wrong phase, and a client's view lasts no longer than its
operation.

Three things are left to the theorems, for the runs grow beyond use with them:
requests that are repeated while two clients read and write (only `failures` has
`Duplicating`, and `network` repeats datagrams), which `ReadsFresh`,
`WritesNewer`, `WatermarkCovered`, `LinearizableCorrect`, `BoundsValid`,
`AccumulatorsCorrect` and `ResponsesCorrect` cover, for they assume nothing of it;
quorums of an even number of servers but for the two of `hang`, covered by the
same theorems; and several operations of a client in `universe`, covered by
`ProofsCorrect` and the other theorems on `AbdUniverse`.

In `network` two of three callers share an id, so that one can be dropped on
account of the other and the third must not be; two sockets are one less than
there are clients, so that the ports run out. The TCP stream holds four units
and a frame three or four: both a length and a payload are cut by the reader,
and a long frame by the writer, before and after the length is complete.
`MaxLength` bounds what a misread length may be. In `example` `MaxStarts`, over all
clients, is two: a second life of client 1, or client 2 beside the first; each
life writes once, as many writes as clash when the counters begin anew;
`MaxRestarts` is one, a minority, and `MaxDropped` one link. Its `VIEW` leaves out
requests whose handling would change nothing any more: those of an operation
that has ended, unless they write what the server does not have. The one thing
of them that a property looks at, the pairs of timestamp and value that they
carry (`ExamplePairs`), is part of the view.

Fairness. A server polls every connection for ever and takes one request from
each, so a request on a link that is up is handled; a client that waits polls
every channel of its pool, so a response on such a link is inserted and a broken
link is reported; code between two phases does not pause. `Abd!Fairness` states
just that, per client and server. In `Echo`, weak fairness of the server's step
(one thread: it goes on whenever it can), of a process that connects, and of
each thread that waits. No one has to invoke an operation, and nothing has to
break, recover or end. The server of `Echo` can block only in `try_accept`,
until the client has greeted or its stream has ended; `CallsReturn` depends on
`Greet` being fair, that is, on clients not stopping between the two writes.
In `ModelledNet` and `UdpNet` the server goes on accepting and a caller that
waits in `connect` goes on when it can; for UDP this says nothing of a request
or a reply that the network lost, after which nobody asks again. In `TcpStream`
a send that was begun goes on, what was written arrives, and the receiver polls.
No message has to be sent and no call made. Where `network` has chosen one
transport the others take no step, and none of their fair steps is enabled.

### Disagreements

* `premature_failure`: `wait_for` gives up when the replies and the errors
  together are as many as the servers, and counts a server twice that replied
  and whose connection then broke. `abd/src/client/error.rs` says that an
  operation fails only when a quorum is known to be unattainable; here it fails
  although a quorum is up.
* `hang`: the write-back of a read is sent only to the servers that do not hold
  the maximum, while giving up waits for replies and errors of all. With two
  servers and the other one unreachable, neither comes: the read never ends,
  against the same comment.
* `tcp_reliable`: `read_exact` on a non-blocking stream that holds a part of a
  length takes that part and returns `WouldBlock`; `try_recv` answers that there
  is no message and reads the next length from the middle of the frame. A
  message whose `send` returned `Ok` is never received, though the connection is
  up, against "A reliable and typed channel" (`verdist/src/network/channel.rs`).

`cmp_spec` ignores `client_ctr`, the derived `Ord` does not, and `obeys_cmp_spec`
says that they agree. That is a statement about a pure function, and
`TimestampProofs!CmpSpecIgnoresCounter` proves where it fails: for
timestamps that differ in `client_ctr` alone, and for no others.

## What is proved

For any finite, non-empty set of servers, any set of client ids other than 0,
any values, any bounds and any set of links that break (the assumptions of
`Abd`):

* `AbdProofs!InvCorrect`: `Inv` is invariant. `QuorumsCoverWatermark` alone is
  not inductive: an operation that returns raises the watermark to its maximum,
  so the proof needs that a quorum holds that maximum (`HoldersHold`), that what
  a response says of its server is still true (`ResponsesBound`), that a
  response answers the request its client waits on (`RequestsTagged`), and, for
  `ReadsAreFresh` and `WritesAreNewer`, that among any quorum there is a server
  which has told, or can only tell, the client of a timestamp that is fresh
  enough (`QuorumsAreFresh`). That quorums intersect is proved from the size of
  a quorum with the library's theorems on cardinality.
* `TypeCorrect`, `WatermarkCovered`, `ReadsFresh`, `WritesNewer` and
  `ServersMonotonic` follow.
* `AbdProofs!NamesCorrect`: a timestamp stands for one value. This does not
  follow from `Inv`. `NamesInv` adds that every timestamp found anywhere with
  a client's id carries a counter below that client's `client_ctr`, and that
  the pairs of a timestamp and a value are a function; a write that has chosen
  its timestamp has bumped the counter before, so its pair clashes with none.
  The maximum of a get phase counts as a pair only after the first reply
  (`HasHeard`), for before that it is left from an earlier operation.
* `AbdProofs!NobodyWaits`: no deadlock. `WaitsInv` says of a client that waits
  that it asked every server, but those whose link was broken and, at a
  write-back, those that hold the maximum already (`AllAsked`); and that a server
  that was asked has replied, or the request or its response is still there
  (`NoneForgotten`). If nothing is under way, every server whose link is up has
  replied or holds the maximum and every other was counted as an error. Then
  they are as many as `wait_for` gives up at, or, at a write-back, a quorum of
  links is a quorum of servers that agree. The theorem names the two ways
  around this: a write-back without a quorum of links, where those that hold the
  maximum are counted neither as replies nor as errors (run `hang`); and a
  request that was not sent because a link was down, which is not sent again
  when the link recovers.
* `TimestampProofs!TsTotal`, and the lemmas beside it: the order is total.
  `TimestampProofs!ObeysPartialCmpSpec`: what runs is what
  `partial_cmp_spec` says, for all timestamps.

For any finite set of timestamps, any values and any number of reads:
`LinQueueProofs!QueueCorrect`, and with it `QueueTypeCorrect`,
`RegisterAtWatermark`, `WritesTakeEffectOnce` and `ReadsTakeEffectInTime`.
`QueueInv`, the conjunction of the code's own invariants, is inductive as it
stands; the step that applies several writes at once rests on two lemmas: a
non-empty finite set of timestamps has a greatest and a least element, and the
new register is the value of the greatest.

For any clients, values, timestamps and counters: `CommitmentsProofs`, where
`AllocationsCounted`, the type invariant of `Commitments`, is inductive
together with the types; that a new allocation is fresh (`AllocationsAreFresh`)
and that commitments stay (`CommitmentsStay`) follow from it. A fresh timestamp
is one whose counter is the client's own, and every allocated one lies below.

`AbdLinProofs`, under the assumptions of `Abd` and for any finite set of
prophesied timestamps: the register is linearizable (`LinearizableCorrect`), and its
clients use the queue and the commitments as these ask to be used
(`QueueUsedWell`, `CommitmentsUsedWell`, `CommitmentsCorrect`).

* What is proved of the queue alone holds of the register's queue, which is an
  instance of it; `QueueStepInv`, `Applies` and `Extracted` carry it over.
* `LinInv` ties the two together. Besides `Inv`, `NamesInv` and `QueueInv` it says
  that the queue's watermark is the greatest timestamp returned; that the
  commitments are what the queue has applied and will apply (`Allocations`), with
  counters their clients have used up (`NumbersUsed`); that every timestamp found
  in the system is allocated and committed to (`PairsAllocated`); and what each
  client holds of the queue in each phase (`TokensHeld`). A write whose prophecy
  lay below the watermark holds nothing, and never reaches its second phase:
  that contradicts `WritesAreNewer`. A read is extracted when it returns,
  because of `ReadsAreFresh`.
* The mapping to `LinRegister`: an operation has taken effect when its linearizer
  is completed, and an orphan is a pending linearizer that no client holds. When
  an operation returns with timestamp `max`, the pending linearizers up to `max`
  take effect; each belongs to a writer or is an orphan, and the last of them
  is `max` itself, so the register ends with a value that one of these wrote
  (`AppliedIsWritten`), and a read that takes effect has read such a value.

`AbdExtensionProofs`, under the assumptions of `Abd`, says of `AbdUniverse`:

* The algebra: `OpCommutes`, `OpAssociates`, `OpUnit` and `OpValid` are what
  makes `MonotonicTimestamp` a resource algebra; the code leaves them to the
  verifier in empty proofs. `SplitJoins`, `HalvesAgree`, `BoundsAreDuplicable`
  and `MayAdvance` justify what the code does with resources.
* Views: `QuorumLowerBound`, that what one quorum holds every quorum knows of,
  from the intersection of quorums; `QuorumsKeepReaching`, that views which grow
  keep what every quorum knows.
* The system: `UInvCorrect`, and with it `UniTypeCorrect`, `BoundsValid`,
  `ProofsCorrect` and `ResponsesCorrect`. `UInv` is the conjunction of what
  they state with two conditions: `AllUnder`, which is `BoundsAreValid` without
  the resources, and `IssuedTagged`: a tag in the request map is below its
  client's `request_ctr`, or no new request would be fresh. Of `Abd` the proof takes
  `Inv`; a step of `AbdUniverse` is a step of `Abd` or leaves its variables
  alone, so all that holds of `Abd` holds here (`UniIsAbd`; `LinIsAbd` says the same
  of `AbdLin`). Bounds stay
  valid because replicas never go back, and every new one is what a replica
  holds at that moment.
* The accumulators: `AccumulatorsCorrect`. `AccumulatorsKnow` is inductive with
  `UInv` and `CurrentTags`: the request that a client waits on is the one issued
  under its tag, and what is kept for it answers that one. A reply then
  says at least what the client knew when it asked, so it raises the view of its
  own replica only; that all quorums reach the minimum is what `Inv` says of the
  replicas when the operation begins, and `QuorumsKeepReaching` keeps it.

The same module proves what the run `example` checks, from the assumption that
a client's writes have values that may be written (`ExampleAssumption`). A step
of the example is a step of `Abd`, or takes something away (`Outside`): a process
with its memory and messages, a server's state. `ExampleInv`, which
`ExampleInvCorrect` shows to be inductive, has three layers.

* `CrashInv` holds whatever happens: the parts of `Inv` that quorums rest on, with
  the servers that were not started again in the place of all servers
  (`AbdProperties!TrustInv`; `Inv` has it for all of them, and `InvStep` and
  `TrustStep` share their lemmas), and that a client waits only while it has a
  process (`ProcessOK`). `AmnesiaOnly` is one of its conjuncts (`Covered`);
  `StaleOnly` needs the rest: what a quorum of trusted servers answered is fresh.
* `RememberedInv` holds as long as no server was started again: all of `Inv`; and
  every timestamp in use is one that was abandoned, that of a write under way, or
  one that its client's next operation is sure to learn of (`Accounted`: no newer
  than `min_ts`). This is what replaces the counters, which `NamesInv` relies on
  and a process that is started again resets: a new write is beyond what a quorum
  told, hence beyond everything of its client that is not abandoned
  (`ChosenIsFresh`), and names one value (`NamesOne`). `ClashesOnly` follows.
* `LoneClients`: beside a client with no writer next to it, nothing is in use
  beyond the watermark but its own write (`LonePairs`), so it reads the watermark
  (`LoneRead`), and that stands for the value it expects (`UpToDate`), which is
  `LoneCorrect`. No write may be abandoned, for one can surface at any later time.

For any processes, threads and client ids: `EchoProofs!InvCorrect`, `TypeCorrect`,
`FailuresLocal`, `RepliesCorrect` and `CallsImplemented`. `EchoAssumption` asks of the
threads only that none is named like one of the other places of a reply.
`FailuresStayLocal` becomes inductive with
`StreamsStayUp`: a stream that was connected is up until its client id is
disturbed or the server stops, and only disturbed ids are about to be dropped;
and that needs `StreamsWereConnected`: what is polled, waits to be accepted or
is waited for was connected, and at one place only. `RepliesAreNotLost` and
`AtMostOnce` follow from `CallsInv`, which traces the messages of each process:

* `Greets`: the greetings are exchanged before the first request, so a stream that
  is polled holds requests of its own process only;
* `Tracked`: a request that is under way was not executed, what is in the other
  stream, the buffer or a thread's hands was executed once, and no message is
  at two places;
* `Counted` and `Waits`: the status of a call follows `request_ctr`, and no two
  threads wait under one tag;
* `Found`: while the stream is up, the message of a pending call is at one of
  these places.

A thread that looks, receives or keeps moves messages between the last three
places and takes out only the reply to its own call (`TracedThread`); a stream that
closes only loses messages (`TracedCloses`). Each step of `Echo` then is a step
of `Calls` or leaves its variables alone (`CallsNext`).

`NobodyLeftAlone` adds what `RepliesAreNotLost` leaves open: that somebody will move
the message. With `CallsInv`, `ServedInv` is inductive: a stream that is up leads to
a server that lives, which polls it or has it in its backlog with its greeting
(`Served`), and some thread waits for each pending call (`Awaited`). Where
`try_accept` holds up the server's only loop, it is for a process that has
connected and has yet to send its greeting.

For any finite set of callers or clients, any ids and any number of calls:
`NetworkProofs!IdsCorrect`, `PeersCorrect` and `FailuresLocal`; for any messages,
sizes and capacity, `FramingCorrect` and `ReceivedCorrect`; and `TypeCorrect`;
from one inductive invariant for each transport, TCP with two.

* `ModelledInv`: there are no more ids and channels in the two queues than
  callers that wait (`QueuesBounded`), so both are empty when nobody does: a
  caller that begins to wait then begins a new round (`rounds`), and all that is
  in the queues was made for callers of the last round (`RoundsHold`). Every channel
  waits to be taken or was taken, once (`ChannelsPlaced`). A channel that the
  server dropped bears the id by which it knew the channel of a caller that is gone
  (`DroppedById`); two callers that overlap may have exchanged their channels, so
  that need not be an id of the caller's own. The first two rest on counting, and
  so on the library's theorems on cardinality.
* `UdpInv`: every datagram on a server's socket, every request and every reply
  is as its sender's state says, however often it is delivered, so a client
  that takes a reply is connected to a socket that was bound for its address.
* `OrderInv`, which nothing disturbs: the bytes that were read or are under way,
  and those yet to be written, keep the order of the messages and of each
  message's bytes (`UnitsInOrder`), all of them beyond what was received
  (`ReceivedAreBehind`); and the last byte of a frame is there only if its send
  succeeded (`EndsAreAccepted`), so a payload that decodes was sent whole.
* `FrameInv`, while no frame was damaged and the connection lives: these bytes are
  exactly the frames of the messages not yet received, the length of the first
  aside once it was read (`Whole`). `Framing` is a consequence, and so is
  `NothingLost`, the part of `ReliableUnlessDamaged` that needs no fairness: once
  nothing is under way, every message that `send` accepted was received. They
  speak of `FlattenSeq`, which is recursive over a sequence of any length. That
  it adds up (`FlattenAppend`, `FlattenHead`) is proved not by an induction schema
  but from the least length at which it would fail, which the well-foundedness
  of the naturals provides. `PayloadComes` is another consequence: what `try_recv`
  spins for, once it has read a length, was written or is about to be.
* `CallersGoOn`: in one process, while the listener lives, as many ids and channels
  are in its two queues as callers wait in `connect` (`QueuesSuffice`: `QueuesBounded`
  the other way round); and whoever waits for a response has its request or the
  response in a queue of its channel, until the server drops that channel.

Only model-checked: liveness (`OperationsReturn`, `CallsReturn`, `ConnectsReturn`,
`TryRecvReturns`, `ReliableUnlessDamaged`), which the prover has no way to state
under fairness. Their safety halves, that nobody ever waits for what will not
happen, are proved: `NobodyWaits`, `NobodyLeftAlone` with `RepliesCorrect`,
`CallersGoOn`, `PayloadComes` and `NothingLost`. What remains for TLC is that the
steps which are left to take come to an end. Every invariant and every action
property that a run checks, and both refinements, are proved.

## What is not modelled

* Locations and server tokens, which keep ghost resources of different replicas
  apart, and the start of a server, which claims its half of the right to
  advance: the code assumes that nobody claimed it before
  (`abd/src/server/register.rs`, "server login"). With them the monotonic map and
  set of `vlib/src/monotonic`, of which the map holds the tokens.
* Linearizability and the ghost state in `AbdExample`: a restart of a client or a
  server is outside of what the code's invariants assume
  (`abd-example/src/invariant.rs`), so only the register and its properties are
  composed with it. Two processes with one id at the same time are in `Echo` and
  `Network`, not in `AbdExample`.
* Addresses and ports that are used again by UDP; the errors of a client's own
  `bind`, after which it does not connect; datagrams that are too large beyond
  the fact that they fail (`disturbed`).
* How a message becomes bytes, but for what a reader that has lost the frame
  makes of them: flexbuffers reads a value from its end, so bytes that do not
  end in a payload are taken not to decode.
* Overflow of 64-bit numbers, which the code assumes away.
* Traces, command lines, configuration files, serde's glue, the lemmas and shims
  of `vlib`.

## What is left

1. `AbdLin` with a client that reads and then writes while its links break.
2. The echo service's own request map, and the login of clients and servers.
