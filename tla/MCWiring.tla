------------------------------ MODULE MCWiring ------------------------------
(* A small library of nodes for the model checker: a step that branches, with *)
(* a number in and out, a value that takes and gives anything, and the Call    *)
(* of a function.  Columns lie two apart, with room for a mean between them.     *)
EXTENDS Wiring

MCKinds == {"step", "value", "call"}
MCPinsIn ==
  [k \in MCKinds |->
     CASE k = "step" -> <<Pin("exec_in", Exec), Pin("a", "data_number")>>
       [] k = "value" -> <<Pin("s", AnyData)>>
       [] k = "call" -> <<Pin("exec_in", Exec)>>]
MCPinsOut ==
  [k \in MCKinds |->
     CASE k = "step" -> <<Pin("true", Exec), Pin("false", Exec), Pin("r", "data_number")>>
       [] k = "value" -> <<Pin("v", AnyData)>>
       [] k = "call" -> <<Pin("exec_out", Exec)>>]

Row(kinds) == {[id |-> i, kind |-> kinds[i], type |-> AnyData, x |-> 2 * (i % 2)] : i \in DOMAIN kinds}
MCStarts == {Row(<<"value", "step", "step">>)}
=============================================================================
