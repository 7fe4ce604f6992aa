----------------------------- MODULE TcpStream ------------------------------
(***************************************************************************)
(* One direction of a TypedTcpStream: messages written as a length and a   *)
(* payload to a non-blocking stream, and read from it in two calls of      *)
(* read_exact.  The unit of the stream stands for a few bytes: a length    *)
(* takes LenUnits of them, the payload of message m takes Length[m].       *)
(***************************************************************************)
EXTENDS Integers, SequencesExt

CONSTANTS
  Length,     \* the lengths of the messages, in the order they are sent
  LenUnits,   \* the size of a length on the stream
  Capacity,   \* bound: how much is written and not yet read
  MaxLength   \* bound: a length that is read from other bytes

Messages == DOMAIN Length

VARIABLES
  next,      \* the next message to send
  unsent,    \* what the send in progress has yet to write
  accepted,  \* the messages whose send returned Ok
  stream,    \* what was written and has not been read
  arrived,   \* how much of it has reached the receiver
  ended,     \* has the sender's process ended, or the connection been reset?
  at,        \* the receiver: which read_exact it is in, or that it gave up
  need,      \* the length that it has read
  buf,       \* what this read_exact has read so far
  received,  \* the messages that try_recv returned
  damaged    \* ghost: a part of a frame was left out or thrown away

tcp_sender   == <<next, unsent, accepted>>
tcp_receiver == <<at, need, buf, received>>
tcp_vars     == <<tcp_sender, stream, arrived, ended, tcp_receiver, damaged>>

Frame(m) == [i \in 1 .. LenUnits + Length[m] |-> <<m, i>>]
LengthOf(m) == SubSeq(Frame(m), 1, LenUnits)
Payload(m)  == SubSeq(Frame(m), LenUnits + 1, LenUnits + Length[m])

TcpInit ==
  /\ next = 1 /\ unsent = <<>> /\ accepted = <<>>
  /\ stream = <<>> /\ arrived = 0 /\ ended = FALSE
  /\ at = "length" /\ need = 0 /\ buf = <<>> /\ received = <<>>
  /\ damaged = FALSE

-----------------------------------------------------------------------------
(* send: two calls of write_all, each of which writes what fits and gives  *)
(* up as soon as nothing does.                                             *)
Send ==
  /\ unsent = <<>> /\ next \in Messages /\ ~ ended
  /\ unsent' = Frame(next)
  /\ next' = next + 1
  /\ UNCHANGED <<accepted, stream, arrived, ended, tcp_receiver, damaged>>

Free == Capacity - Len(stream)

(* What is left of the length, or else of the payload.                     *)
Part == IF Len(unsent) > Length[next - 1] THEN Len(unsent) - Length[next - 1]
                                         ELSE Len(unsent)

(* A slip: after a partial write the payload is written from its beginning. *)
WriteAgain ==
  LET n == Min({Free, Part}) IN
  /\ unsent # <<>> /\ Free > 0 /\ at # "failed"
  /\ stream' = stream \o SubSeq(unsent, 1, n)
  /\ unsent' = IF n < Part THEN unsent ELSE SubSeq(unsent, n + 1, Len(unsent))
  /\ accepted' = IF unsent' = <<>> THEN Append(accepted, next - 1) ELSE accepted
  /\ UNCHANGED <<next, arrived, ended, tcp_receiver, damaged>>

(* A slip: a whole part is written, whether or not it fits.                *)
WriteWhole ==
  /\ unsent # <<>> /\ Free > 0 /\ at # "failed"
  /\ stream' = stream \o SubSeq(unsent, 1, Part)
  /\ unsent' = SubSeq(unsent, Part + 1, Len(unsent))
  /\ accepted' = IF unsent' = <<>> THEN Append(accepted, next - 1) ELSE accepted
  /\ UNCHANGED <<next, arrived, ended, tcp_receiver, damaged>>

Write ==
  LET n == Min({Free, Part}) IN
  /\ unsent # <<>> /\ Free > 0 /\ at # "failed"
  /\ stream' = stream \o SubSeq(unsent, 1, n)
  /\ unsent' = SubSeq(unsent, n + 1, Len(unsent))
  /\ accepted' = IF unsent' = <<>> THEN Append(accepted, next - 1) ELSE accepted
  /\ UNCHANGED <<next, arrived, ended, tcp_receiver, damaged>>

(* send returns an error; what it has written stays written.               *)
SendFails ==
  /\ unsent # <<>>
  /\ Free <= 0 \/ at = "failed"
  /\ unsent' = <<>>
  /\ damaged' = (damaged \/ unsent # Frame(next - 1))
  /\ UNCHANGED <<next, accepted, stream, arrived, ended, tcp_receiver>>

-----------------------------------------------------------------------------
(* The network. *)
Arrive ==
  /\ arrived' \in arrived + 1 .. Len(stream)
  /\ UNCHANGED <<tcp_sender, stream, ended, tcp_receiver, damaged>>

(* The end of what is under way may be lost. *)
Hangup ==
  /\ ~ ended
  /\ ended' = TRUE
  /\ unsent' = <<>>
  /\ \E n \in 0 .. Len(stream) :
       /\ stream' = SubSeq(stream, 1, n)
       /\ arrived' = Min({arrived, n})
  /\ UNCHANGED <<next, accepted, tcp_receiver, damaged>>

-----------------------------------------------------------------------------
(* try_recv: read_exact of the length, then read_exact of the payload.     *)

(* A slip: the length is taken to count itself. *)
WantedWithLength == IF at = "length" THEN LenUnits ELSE need + LenUnits

Wanted  == IF at = "length" THEN LenUnits ELSE need
Reading == at # "failed" /\ Len(buf) < Wanted

Read ==
  LET n == Min({arrived, Wanted - Len(buf)}) IN
  /\ Reading /\ arrived > 0
  /\ buf' = buf \o SubSeq(stream, 1, n)
  /\ stream' = SubSeq(stream, n + 1, Len(stream))
  /\ arrived' = arrived - n
  /\ UNCHANGED <<tcp_sender, ended, at, need, received, damaged>>

(* WouldBlock.  try_recv returns Ok(None), or goes on with the payload;    *)
(* what this read_exact has read is gone either way.                       *)
WouldBlock ==
  /\ Reading /\ arrived = 0 /\ buf # <<>>
  /\ stream # <<>> \/ ~ ended
  /\ buf' = <<>>
  /\ damaged' = TRUE
  /\ UNCHANGED <<tcp_sender, stream, arrived, ended, at, need, received>>

UnexpectedEof ==
  /\ Reading /\ stream = <<>> /\ ended
  /\ at' = "failed"
  /\ buf' = <<>>
  /\ UNCHANGED <<tcp_sender, stream, arrived, ended, need, received, damaged>>

(* Bytes that are not a length may be read as any number. *)
Lengths(body) ==
  IF \E m \in Messages : body = LengthOf(m)
  THEN {Length[m] : m \in {m \in Messages : body = LengthOf(m)}}
  ELSE 0 .. MaxLength

(* A slip: the payload is read after the length in one buffer. *)
GetLengthKeepsBuffer ==
  /\ at = "length" /\ Len(buf) = LenUnits
  /\ at' = "payload"
  /\ need' \in Lengths(buf)
  /\ UNCHANGED <<tcp_sender, stream, arrived, ended, buf, received, damaged>>

GetLength ==
  /\ at = "length" /\ Len(buf) = LenUnits
  /\ at' = "payload"
  /\ need' \in Lengths(buf)
  /\ buf' = <<>>
  /\ UNCHANGED <<tcp_sender, stream, arrived, ended, received, damaged>>

(* A slip: the beginning of a payload is enough. *)
DecodesBeginning(body) ==
  {m \in Messages : \E i \in DOMAIN body : body[i] = Payload(m)[1]}

(* flexbuffers finds the root of a value at the end of the buffer.  Bytes  *)
(* that do not end in a payload are taken not to decode.                   *)
Decodes(body) == {m \in Messages : IsSuffix(Payload(m), body)}

GetPayload ==
  /\ at = "payload" /\ Len(buf) = need
  /\ \/ \E m \in Decodes(buf) : received' = Append(received, m) /\ at' = "length"
     \/ /\ Decodes(buf) = {}
        /\ at' \in {"length", "failed"}   \* a client polls again, a server drops the stream
        /\ UNCHANGED received
  /\ buf' = <<>>
  /\ need' = 0
  /\ UNCHANGED <<tcp_sender, stream, arrived, ended, damaged>>

-----------------------------------------------------------------------------
SenderStep   == Write \/ SendFails
ReceiverStep == Read \/ WouldBlock \/ UnexpectedEof \/ GetLength \/ GetPayload

TcpNext == Send \/ SenderStep \/ Arrive \/ Hangup \/ ReceiverStep

(* A send in progress goes on, what is written arrives, and the receiver   *)
(* polls for ever.  Nothing has to be sent, and nobody has to hang up.     *)
TcpFairness ==
  WF_tcp_vars(SenderStep) /\ WF_tcp_vars(Arrive) /\ WF_tcp_vars(ReceiverStep)

TcpSpec == TcpInit /\ [][TcpNext]_tcp_vars /\ TcpFairness

-----------------------------------------------------------------------------
(* The variables keep their types. *)
TcpTypeOK ==
  LET Unit == UNION {{Frame(m)[i] : i \in DOMAIN Frame(m)} : m \in Messages} IN
  /\ next \in 1 .. Len(Length) + 1
  /\ unsent \in Seq(Unit) /\ stream \in Seq(Unit) /\ buf \in Seq(Unit)
  /\ accepted \in Seq(Messages) /\ received \in Seq(Messages)
  /\ arrived \in 0 .. Len(stream) /\ Len(stream) <= Capacity
  /\ ended \in BOOLEAN /\ damaged \in BOOLEAN
  /\ at \in {"length", "payload", "failed"} /\ need \in Nat

(* Framing: unless a frame was damaged or the connection ended, messages   *)
(* are received in the order of the sends that returned Ok, and what the   *)
(* receiver has read, what is on the stream and what is yet to be written  *)
(* are together the frames of those it has not received, however the       *)
(* writes, the network and the reads cut them.                             *)
Framing ==
  LET sending == IF unsent = <<>> THEN <<>> ELSE <<next - 1>>
      pending == SubSeq(accepted, Len(received) + 1, Len(accepted)) \o sending
      length  == IF at = "payload" THEN LengthOf(Head(pending)) ELSE <<>>
  IN  ~ damaged /\ ~ ended =>
        /\ IsPrefix(received, accepted)
        /\ at = "payload" => pending # <<>> /\ need = Length[Head(pending)]
        /\ length \o buf \o stream \o unsent
             = FlattenSeq([i \in DOMAIN pending |-> Frame(pending[i])])

(* Even when frames are damaged, nothing is received that was not sent     *)
(* whole, nothing twice, and nothing after a message that was sent later.  *)
ReceivedInOrder ==
  /\ \A i \in DOMAIN received : \E j \in DOMAIN accepted : received[i] = accepted[j]
  /\ \A i, j \in DOMAIN received : i < j => received[i] < received[j]

(* A message that send accepted is received, unless a frame was damaged or *)
(* the connection ended.                                                   *)
Accepted(m) == \E i \in DOMAIN accepted : accepted[i] = m
Received(m) == \E i \in DOMAIN received : received[i] = m

ReliableUnlessDamaged ==
  \A m \in Messages : Accepted(m) ~> Received(m) \/ damaged \/ ended

(* try_recv, which spins while it waits for a payload, returns unless a    *)
(* frame was damaged: until then it holds up the server that called it.    *)
TryRecvReturns == at = "payload" ~> at # "payload" \/ damaged

(* "A reliable and typed channel": a message that send accepted is         *)
(* received unless the connection ends.                                    *)
Reliable == \A m \in Messages : Accepted(m) ~> Received(m) \/ ended
=============================================================================
