----------------------------- MODULE LinRegister ----------------------------
(***************************************************************************)
(* What the replicated register promises to its clients: one atomic        *)
(* register.  Every read and write takes effect on it at one instant       *)
(* between its invocation and its return.  An operation that fails took    *)
(* effect or never will, except for a write that failed half way: it       *)
(* becomes an orphan, which may take effect at any later time.             *)
(***************************************************************************)
EXTENDS Integers

CONSTANTS
  Clients, Values, None,
  Arguments  \* the values that clients write

VARIABLES
  register,  \* the atomic register
  kind,      \* what each client is doing
  arg,       \* the value a client writes
  done,      \* has the client's operation taken effect?
  result,    \* the value that a read which has taken effect has read
  orphans,   \* the writes that failed half way and have not taken effect
  outcome    \* the value that a client's last operation read or wrote; it
             \*   holds nothing while the operation runs, and if it failed

vars == <<register, kind, arg, done, result, orphans, outcome>>

Init ==
  /\ register = None
  /\ kind     = [c \in Clients |-> "idle"]
  /\ arg      = [c \in Clients |-> None]
  /\ done     = [c \in Clients |-> FALSE]
  /\ result   = [c \in Clients |-> None]
  /\ orphans  = {}
  /\ outcome  = [c \in Clients |-> {}]

InvokeRead(c) ==
  /\ kind[c] = "idle"
  /\ kind' = [kind EXCEPT ![c] = "read"]
  /\ \/ UNCHANGED <<done, result>>
     \/ /\ done' = [done EXCEPT ![c] = TRUE]
        /\ result' = [result EXCEPT ![c] = register]
  /\ outcome' = [outcome EXCEPT ![c] = {}]
  /\ UNCHANGED <<register, arg, orphans>>

InvokeWrite(c, v) ==
  /\ kind[c] = "idle"
  /\ kind' = [kind EXCEPT ![c] = "write"]
  /\ arg' = [arg EXCEPT ![c] = v]
  /\ outcome' = [outcome EXCEPT ![c] = {}]
  /\ UNCHANGED <<register, done, result, orphans>>

(***************************************************************************)
(* The writes of the clients W, the reads of the clients R and the orphans *)
(* O take effect: the writes in some order, each read after one of them or *)
(* before them all.  The operations of the clients in leaving end.         *)
(***************************************************************************)
Written(W, O) == {arg[c] : c \in W} \cup {o.value : o \in O}

TakeEffect(W, R, O, leaving) ==
  /\ \A c \in W : kind[c] = "write" /\ ~ done[c]
  /\ \A c \in R : kind[c] = "read" /\ ~ done[c]
  /\ register' \in IF W = {} /\ O = {} THEN {register} ELSE Written(W, O)
  /\ orphans' = orphans \ O
  /\ done' = [c \in Clients |-> c \notin leaving /\ (done[c] \/ c \in W \cup R)]
  /\ \A c \in Clients :
       result'[c] \in CASE c \in leaving     -> {None}
                        [] c \in R \ leaving -> {register} \cup Written(W, O)
                        [] OTHER             -> {result[c]}

Ends(c) ==
  /\ kind[c] # "idle"
  /\ kind' = [kind EXCEPT ![c] = "idle"]
  /\ arg' = [arg EXCEPT ![c] = None]

(* What a returning operation has read or written. *)
Outcomes(c, W, O) ==
  IF kind[c] = "write" THEN {arg[c]}
  ELSE IF done[c] THEN {result[c]}
  ELSE {register} \cup Written(W, O)

Return(c, W, R, O) ==
  /\ Ends(c)
  /\ done[c] \/ c \in W \cup R
  /\ TakeEffect(W, R, O, {c})
  /\ \E v \in Outcomes(c, W, O) : outcome' = [outcome EXCEPT ![c] = {v}]

Fail(c) ==
  /\ Ends(c)
  /\ done' = [done EXCEPT ![c] = FALSE]
  /\ result' = [result EXCEPT ![c] = None]
  /\ \/ UNCHANGED orphans
     \/ /\ kind[c] = "write" /\ ~ done[c]
        /\ \E o \in orphans' \ orphans :
             orphans' = orphans \cup {o} /\ o.value = arg[c]
  /\ UNCHANGED <<register, outcome>>

Next ==
  \E c \in Clients :
    \/ InvokeRead(c)
    \/ \E v \in Arguments : InvokeWrite(c, v)
    \/ \E W, R \in SUBSET Clients, O \in SUBSET orphans : Return(c, W, R, O)
    \/ Fail(c)

Spec == Init /\ [][Next]_vars
=============================================================================
