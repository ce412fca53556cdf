-------------------------- MODULE MCVariableStream --------------------------
(* A small instance of VariableStream: bytes of 18 values, the integers at *)
(* the ends of their ranges and past those of others.                      *)
EXTENDS VariableStream

Number(type, num) == [type |-> type, num |-> num, bytes |-> <<>>, prefix |-> TRUE]
Text(type, bytes, prefix) == [type |-> type, num |-> 0, bytes |-> bytes, prefix |-> prefix]

SomeMessages ==
    {Number("BOOL", 1), Number("INT8", -1), Number("UINT8", 9),
     Number("INT32", -163), Number("UINT64", 52488),
     [Number("INT16", -10) EXCEPT !.prefix = FALSE],
     Text("NULL", <<>>, TRUE), Text("STRING", <<2, 17>>, TRUE),
     Text("BUFFER", <<0, 13>>, FALSE)}
=============================================================================
