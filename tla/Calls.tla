-------------------------------- MODULE Calls -------------------------------
(***************************************************************************)
(* What a remote call promises: it is executed at most once, and if it     *)
(* returns a reply, it was executed and the reply is its own.  A call that *)
(* fails may have been executed, or still be.                              *)
(***************************************************************************)
EXTENDS Integers

CONSTANTS Call, NoAnswer

VARIABLES
  status,     \* of each call: "unused", "pending", "answered" or "failed"
  answer,     \* the message that the call returned
  executions  \* how often the server executed the call

vars == <<status, answer, executions>>

Init ==
  /\ status     = [c \in Call |-> "unused"]
  /\ answer     = [c \in Call |-> NoAnswer]
  /\ executions = [c \in Call |-> 0]

Issue(c) ==
  /\ status[c] = "unused"
  /\ status' = [status EXCEPT ![c] = "pending"]
  /\ UNCHANGED <<answer, executions>>

Execute(c) ==
  /\ status[c] # "unused"
  /\ executions[c] = 0
  /\ executions' = [executions EXCEPT ![c] = 1]
  /\ UNCHANGED <<status, answer>>

(* An echo: the reply is the message of the call. *)
Answer(c) ==
  /\ status[c] = "pending"
  /\ executions[c] = 1
  /\ status' = [status EXCEPT ![c] = "answered"]
  /\ answer' = [answer EXCEPT ![c] = c]
  /\ UNCHANGED executions

Fail(c) ==
  /\ status[c] \in {"unused", "pending"}
  /\ status' = [status EXCEPT ![c] = "failed"]
  /\ UNCHANGED <<answer, executions>>

Next == \E c \in Call : Issue(c) \/ Execute(c) \/ Answer(c) \/ Fail(c)

Spec == Init /\ [][Next]_vars
=============================================================================
