----------------------------- MODULE ResultSets -----------------------------
(***************************************************************************)
(* The way of a result from the rows of a statement to the program:        *)
(* RowsToJson of server/src/liquidstoolap_server/lsstoolapadapter.pas makes *)
(* the payload, parse_result and the methods of SqlResultSet in            *)
(* sdk/python/src/liquidstoolap/models.py take it apart.                   *)
(*                                                                         *)
(* An answer is what the database has to say to a query: the names of the  *)
(* columns and the values of the rows, each row as long as the names.  The *)
(* conversion of a value and the types of the columns are left out.        *)
(***************************************************************************)
EXTENDS Integers, Sequences

CONSTANTS
    MaxRows,  \* [server] max_result_rows
    Null      \* JSON null, None

\* LoadConfig refuses other values.
ASSUME RowsAssumption == MaxRows \in Nat \ {0}

IsSequence(s) == s \in Seq({s[i] : i \in DOMAIN s})

IsAnswer(a) ==
    /\ IsSequence(a.columns) /\ a.columns # <<>>
    /\ IsSequence(a.rows)
    /\ \A i \in DOMAIN a.rows : IsSequence(a.rows[i]) /\ Len(a.rows[i]) = Len(a.columns)

-----------------------------------------------------------------------------
(* The server.                                                              *)

\* Mutant: the limit is tested after the row was added.
RowsToJsonOneMore(answer) ==
    [kind      |-> "result_set",
     columns   |-> answer.columns,
     rows      |-> SubSeq(answer.rows, 1,
                          IF Len(answer.rows) > MaxRows THEN MaxRows + 1 ELSE Len(answer.rows)),
     row_count |-> IF Len(answer.rows) > MaxRows THEN MaxRows ELSE Len(answer.rows),
     truncated |-> Len(answer.rows) > MaxRows]

\* Rows are fetched one by one; the one after max_result_rows ends the loop.
RowsToJson(answer) ==
    LET sent == IF Len(answer.rows) > MaxRows THEN MaxRows ELSE Len(answer.rows) IN
    [kind      |-> "result_set",
     columns   |-> answer.columns,
     rows      |-> SubSeq(answer.rows, 1, sent),
     row_count |-> sent,
     truncated |-> Len(answer.rows) > MaxRows]

\* CommandJson; last_insert_id is null always.
CommandToJson(affected) ==
    [kind |-> "command", affected_rows |-> affected, last_insert_id |-> Null]

-----------------------------------------------------------------------------
(* The Python client.                                                       *)

\* The dataclasses.  Any other kind of payload is a ValueError, see parse_result.
SqlResultSet(payload) ==
    [kind      |-> "result_set",
     columns   |-> payload.columns,
     rows      |-> payload.rows,
     row_count |-> payload.row_count,
     truncated |-> payload.truncated]

SqlCommandResult(payload) ==
    [kind           |-> "command",
     affected_rows  |-> payload.affected_rows,
     last_insert_id |-> payload.last_insert_id]

parse_result(payload) ==
    IF payload.kind = "result_set" THEN SqlResultSet(payload) ELSE SqlCommandResult(payload)

\* dict(zip(columns, values)): the shorter of both ends it, and of two columns
\* with one name the later one stays.
DictZip(columns, values) ==
    LET places == (1 .. Len(columns)) \cap (1 .. Len(values)) IN
    [name \in {columns[i] : i \in places} |->
        values[CHOOSE i \in places :
                   /\ columns[i] = name
                   /\ \A j \in places : columns[j] = name => j <= i]]

as_dicts(result) ==
    [i \in 1 .. Len(result.rows) |-> DictZip(result.columns, result.rows[i])]

as_tuples(result) == result.rows

first(result) ==
    IF as_dicts(result) = <<>> THEN Null ELSE as_dicts(result)[1]

scalar(result) ==
    IF result.rows = <<>> \/ result.rows[1] = <<>> THEN Null ELSE result.rows[1][1]

\* __len__
LengthOf(result) == result.row_count

=============================================================================
