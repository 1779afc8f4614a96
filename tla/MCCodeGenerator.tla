-------------------------- MODULE MCCodeGenerator --------------------------
(* Two methods whose names differ in case only, one with options, then one *)
(* more method, then one less and one with other messages.                 *)
EXTENDS CodeGenerator, TLC

MCProtos ==
    LET get == [name |-> "Get", messages |-> "m1", id |-> 1, opt |-> TRUE]
        low == [name |-> "get", messages |-> "m1", id |-> 2, opt |-> FALSE]
        put == [name |-> "Put", messages |-> "m1", id |-> -1, opt |-> TRUE]
    IN  <<<<get>>, <<get, low, put>>, <<low, [put EXCEPT !.messages = "m2"]>>>>

MCFold == "Get" :> "get" @@ "get" :> "get" @@ "Put" :> "put"
=============================================================================
