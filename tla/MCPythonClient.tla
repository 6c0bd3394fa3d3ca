--------------------------- MODULE MCPythonClient ---------------------------
(* Model values for the runs of PythonClient.                               *)
EXTENDS PythonClient, TLC

CONSTANTS c1, c2

Sql(m, s, f) == [method |-> m, statement |-> s, fault |-> f]
Login(m, u, p) == [method |-> m, username |-> u, password |-> p]

\* One call is a statement: each method with a text that suits it, those that
\* complain with one that does not, and two faults; or it asks for the
\* health or a token.  The other one is a command, or logs in.
MCMenu ==
    c1 :> ({Sql(m, "read", None) : m \in {"execute", "fetch_all", "fetch_one", "scalar", "command"}}
             \union {Sql(m, "command", None) : m \in {"command", "query"}}
             \union {Sql("execute", "with", None)}
             \union {Sql("raw_execute", "command", f) : f \in {"unencodable", "body"}}
             \union {[method |-> "health"], Login("authenticate", "right", "right")})
    @@ c2 :> {Sql("command", "command", None), Login("login", "right", "right"),
              Login("login", None, "wrong")}

Open(a, c, t, g, i) ==
    [auto |-> a, username |-> c, password |-> c, token |-> t, given |-> g, issuing |-> i]

\* With a password; without one, but with a header; with a password and no use
\* for it; with a password the server has no use for.
MCOpenings ==
    {Open(TRUE, "right", None, None, TRUE),
     Open(TRUE, None, None, GivenToken, TRUE),
     Open(FALSE, "right", None, None, TRUE),
     Open(TRUE, "right", None, None, FALSE)}

\* No row, as many as the limit under two columns with one name, one more.
MCAnswers ==
    {[columns |-> <<"a", "b">>, rows |-> <<>>],
     [columns |-> <<"a", "b", "a">>, rows |-> <<<<1, 2, 3>>, <<4, 5, 6>>>>],
     [columns |-> <<"a", "b">>, rows |-> <<<<1, 2>>, <<3, 4>>, <<5, 6>>>>]}

\* Of a call that ended with an exception the properties only ask what it
\* tells of its statement; no step asks anything, once its request is handled.
Failed(c) == outcome[c] # None /\ outcome[c].error # None
Handled(c) == \A r \in requests : r.by # c

\* The tokens that can still be presented.
InUse ==
    {token, header} \union {r.token : r \in requests}
    \union {reply[c].token : c \in {d \in Calls : reply[d] # None}}

MCView ==
    <<client, pc, reply, requests, issuing, minted, valid \cap InUse, executed, bare, newest,
      [c \in Calls |-> IF pc[c] = "login" THEN known[c] ELSE 0],
      IF token \in Nat THEN before ELSE 0,
      [c \in Calls |-> IF Failed(c) THEN StageOf(c) ELSE outcome[c]],
      [c \in Calls |-> IF Failed(c) /\ Handled(c) THEN IsStatement(c) ELSE call[c]],
      [c \in Calls |-> IF Failed(c) THEN None ELSE produced[c]]>>

=============================================================================
