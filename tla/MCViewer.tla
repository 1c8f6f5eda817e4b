------------------------------ MODULE MCViewer ------------------------------
(* Two states of a document of two segments with a gap between them: half   *)
(* decoded, its entry not yet known, and decoded into functions of a single *)
(* instruction that follow each other, which make the most rows of a block. *)
EXTENDS Viewer

B(a, type, f, tail) == [at |-> a, type |-> type, flags |-> f, tail |-> tail]
Doc(one, two, entry, branches, callers) ==
  [segments |-> <<[first |-> 1, last |-> 6, blocks |-> one], [first |-> 8, last |-> 10, blocks |-> two]>>,
   entry |-> entry, jumps |-> branches, calls |-> callers]

Half ==
  Doc(<<B(1, "Code", {"Function"}, FALSE), B(2, "Code", {}, TRUE), B(4, "Unknown", {}, FALSE)>>,
      <<B(8, "Data", {"Type"}, FALSE), B(9, "Data", {"TypeEnd"}, FALSE)>>, None,
      {<<2, 4>>}, {})

Decoded ==
  Doc(<<B(1, "Code", {"Function"}, TRUE), B(2, "Code", {"Function"}, TRUE),
        B(3, "Code", {"Location"}, FALSE), B(4, "Code", {}, TRUE), B(5, "Code", {"Function"}, TRUE)>>,
      <<B(8, "String", {"Location"}, FALSE), B(9, "Unknown", {"Imported"}, FALSE)>>, 4,
      {<<4, 3>>, <<3, 1>>, <<1, 9>>, <<5, 5>>}, {<<5, 3>>, <<2, 8>>})

AllDocuments == [half |-> Half, decoded |-> Decoded]
AllAddresses == {3, 9, 10}
AllSizes == {3, 8}
AllRanges == {<<2, 9>>, <<7, 9>>, <<9, 3>>}
AllRows == {0, 2, 9}
AllTurns == {-2, 0, 1}
AllFlagSets == {{"CenterOnCursor"},
                {"NoSegmentLine", "NoFunctionLine", "NoEmptyLine", "NoSeparatorsLine"}}
=============================================================================
