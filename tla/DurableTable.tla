---------------------------- MODULE DurableTable ----------------------------
(***************************************************************************)
(* What the storage of a table promises (docs/storage-reliability.md): an  *)
(* open database has exactly the committed rows, through any number of     *)
(* stops at any moment; it refuses to open rather than to serve fewer      *)
(* rows, and only when the medium has been damaged.                        *)
(***************************************************************************)
CONSTANT Keys  \* what tells rows apart

VARIABLES
    rows,     \* the committed rows
    shown,    \* the rows an open database answers with
    state,    \* open, down, refused
    damaged   \* files have been changed or lost outside the program

tableVars == <<rows, shown, state, damaged>>

Init ==
    /\ rows = {}
    /\ shown = {}
    /\ state = "open"
    /\ damaged = FALSE

Insert(r) ==
    /\ state = "open"
    /\ rows' = rows \union {r}
    /\ shown' = rows'
    /\ UNCHANGED <<state, damaged>>

\* DROP TABLE or TRUNCATE TABLE
Clear ==
    /\ state = "open"
    /\ rows' = {}
    /\ shown' = {}
    /\ UNCHANGED <<state, damaged>>

Stop ==
    /\ state' = "down"
    /\ shown' = {}
    /\ UNCHANGED <<rows, damaged>>

Damage ==
    /\ state = "down"
    /\ damaged' = TRUE
    /\ UNCHANGED <<rows, shown, state>>

Open ==
    /\ state = "down"
    /\ state' = "open"
    /\ shown' = rows
    /\ UNCHANGED <<rows, damaged>>

Refuse ==
    /\ state = "down"
    /\ damaged
    /\ state' = "refused"
    /\ UNCHANGED <<rows, shown, damaged>>

Next ==
    \/ \E r \in Keys : Insert(r)
    \/ Clear \/ Stop \/ Damage \/ Open \/ Refuse

Spec == Init /\ [][Next]_tableVars

=============================================================================
