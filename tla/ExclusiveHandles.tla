-------------------------- MODULE ExclusiveHandles --------------------------
(***************************************************************************)
(* What the Liquid Stoolap adapter promises about its database handles,    *)
(* free of how it keeps the promise: a handle that exists is used by at    *)
(* most one SQL request at a time, a request uses at most one handle, and  *)
(* a handle disappears only while nobody uses it.                          *)
(*                                                                         *)
(* docs/user-guide.md: "Each SQL request uses one handle exclusively, as   *)
(* required by Stoolap's C API."                                           *)
(***************************************************************************)
CONSTANTS Requests, Handles

VARIABLES live,    \* the handles that exist
          users    \* users[h]: the requests that are using handle h

vars == <<live, users>>

Init ==
    /\ live = {}
    /\ users = [h \in Handles |-> {}]

Publish(h) ==
    /\ h \notin live
    /\ live' = live \union {h}
    /\ UNCHANGED users

Grant(r, h) ==
    /\ h \in live
    /\ users[h] = {}
    /\ \A g \in Handles : r \notin users[g]
    /\ users' = [users EXCEPT ![h] = {r}]
    /\ UNCHANGED live

Return(r, h) ==
    /\ users[h] = {r}
    /\ users' = [users EXCEPT ![h] = {}]
    /\ UNCHANGED live

Discard(h) ==
    /\ h \in live
    /\ users[h] = {}
    /\ live' = live \ {h}
    /\ UNCHANGED users

Next == \E h \in Handles :
            \/ Publish(h)
            \/ Discard(h)
            \/ \E r \in Requests : Grant(r, h) \/ Return(r, h)

Spec == Init /\ [][Next]_vars

=============================================================================
