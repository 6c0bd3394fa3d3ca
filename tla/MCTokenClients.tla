--------------------------- MODULE MCTokenClients ---------------------------
(***************************************************************************)
(* TokenClients with one shell, or with two tasks that share a token.       *)
(***************************************************************************)
EXTENDS TokenClients

CONSTANTS shell, taskA, taskB

OneShell == {shell}
TwoTasks == {taskA, taskB}

\* One task executes twice, so that it finds a token that is there already.
CallsEach == [c \in Callers |-> IF c = taskB THEN 1 ELSE 2]

Either == {{shell}, {taskA, taskB}}
NoStaticToken == {}

\* Without the history variables that no property of the run looks at.
View == <<now, store, minted, restarts, ledger, fleet, pc, call, token, expiresAt,
          rejected, sharedToken, requests, reply, executed, repeated, sentAt, epoch,
          logins, fruitless>>

=============================================================================
