------------------------------ MODULE MCLabels ------------------------------
(* Instances of Labels: three addresses, one of them outside any segment.   *)
EXTENDS Labels

A == 1 .. 3
Inside == 1 .. 2

(* A plain name, a mangled one with what it stands for, and a name that     *)
(* somebody chose although makeLabel makes it for another address.          *)
Plain == <<"name", 0>>
Raw == <<"_Zname", 0>>
Stolen == <<"loc", 2>>
Handed == {Raw, Stolen}
Demangling == [n \in {Raw} |-> Plain]

Num == [kind |-> "numeric", name |-> <<"x", 0>>, base |-> "x", members |-> <<>>]
Str == [kind |-> "ascii", name |-> <<"s", 0>>, base |-> "s", members |-> <<>>]
WStr == [kind |-> "wide", name |-> <<"w", 0>>, base |-> "w", members |-> <<>>]

Of(t, wide, item) == [type |-> t, wide |-> wide, size |-> 1, item |-> item]

(* A string field after a number that is as wide as a pointer, and a wide   *)
(* string that gets no label of its own.                                    *)
Pair == [kind |-> "structure", name |-> <<"p", 0>>, base |-> "p",
         members |-> <<Of(Num, TRUE, ""), Of(Str, FALSE, "")>>]
Odd == [kind |-> "structure", name |-> NoName, base |-> "structure",
        members |-> <<Of(Num, FALSE, ""), Of(WStr, FALSE, "")>>]
Numbers == [kind |-> "array", name |-> NoName, base |-> "array",
            members |-> <<Of(Num, FALSE, "x_0"), Of(Num, FALSE, "x_1")>>]
Nested == [kind |-> "array", name |-> NoName, base |-> "array",
           members |-> <<[Of(Odd, FALSE, "structure_0") EXCEPT !.size = 2]>>]
AllTypes == {Num, Str, WStr, Pair, Odd, Numbers, Nested}

Used == MadePrefixes \cup {"name", "_Zname", "x", "s", "w", "p", "structure", "array",
                           "x_0", "x_1", "structure_0"}
Pointing == <<2, 0, 0>>
Contents == <<"data", "code", "ascii">>
Sets == {{"Location"}, {"Imported", "Function"}}
=============================================================================
