--------------------------- MODULE StatementCalls ---------------------------
(***************************************************************************)
(* What a program may conclude from the end of a call that executes a      *)
(* statement: nothing is executed twice; a call that succeeded was         *)
(* executed; one that was refused was not and never will be; of one that   *)
(* is open nothing is known, and its statement may still be executed after *)
(* the call has ended.                                                     *)
(***************************************************************************)
EXTENDS Naturals

CONSTANTS
    Calls

VARIABLES
    stage,    \* what the program knows of a call
    executed  \* how often the statement of a call was executed

Stages == {"new", "pending", "succeeded", "refused", "open"}

Init ==
    /\ stage = [c \in Calls |-> "new"]
    /\ executed = [c \in Calls |-> 0]

Issue(c) ==
    /\ stage[c] = "new"
    /\ stage' = [stage EXCEPT ![c] = "pending"]
    /\ UNCHANGED executed

Execute(c) ==
    /\ stage[c] \in {"pending", "open"}
    /\ executed[c] = 0
    /\ executed' = [executed EXCEPT ![c] = 1]
    /\ UNCHANGED stage

Succeed(c) ==
    /\ stage[c] = "pending"
    /\ executed[c] = 1
    /\ stage' = [stage EXCEPT ![c] = "succeeded"]
    /\ UNCHANGED executed

\* new: it was refused before anything was sent
Refuse(c) ==
    /\ stage[c] \in {"new", "pending"}
    /\ executed[c] = 0
    /\ stage' = [stage EXCEPT ![c] = "refused"]
    /\ UNCHANGED executed

Lose(c) ==
    /\ stage[c] = "pending"
    /\ stage' = [stage EXCEPT ![c] = "open"]
    /\ UNCHANGED executed

Next ==
    \E c \in Calls : Issue(c) \/ Execute(c) \/ Succeed(c) \/ Refuse(c) \/ Lose(c)

Spec == Init /\ [][Next]_<<stage, executed>>

=============================================================================
