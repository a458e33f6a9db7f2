---------------------------- MODULE MCResources -----------------------------
EXTENDS Resources, DataTypes

\* Two goroutines with files of two chunks, the first chunk of both the same.
MCProcs == {"p1", "p2"}
MCContent == ("p1" :> <<"head", "tail1">>) @@ ("p2" :> <<"head", "tail2">>)

\* Types with parameters, types nested in each of the ways there are, and a decimal whose
\* parameters the service leaves out inside another type.
IntType == <<"INT">>
MCUnreadable == {<<"ARRAY", <<"DECIMAL">>>>}
NestedType ==
  <<"STRUCT", << <<Word("x"), <<"ARRAY", <<"DECIMAL", 10, 2>>>>>>,
                 <<Word("y"), <<"MAP", <<"CHAR", 255>>, <<"VARCHAR", 65535>>>>>> >>>>
MCNewTypes == {IntType, NestedType}
MCTableTypes == MCNewTypes \cup MCUnreadable

\* Bound: at first, the tables other than the one of the handle are there.
MCInit == Init /\ (kind = "table" => \A n \in Names \ {1} : objs[n] = Plain)
MCSpec == MCInit /\ [][Next]_vars

\* The parser of the repository on the names the service writes.
MCDecoded(t) == ParseDataType(ServiceName(t))
=============================================================================
