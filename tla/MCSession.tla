------------------------------ MODULE MCSession ------------------------------
(* Two contexts, a link to a library, ids that two libraries have, a        *)
(* library that is no plugin, and analyzers of the same order.              *)
EXTENDS Session

CONSTANTS c1, c2

Both == {c1, c2}
Same == Permutations(Both)

Entry(category, id) == [category |-> category, id |-> id]

Lists == {<<"pe", "link", "tools", "other">>, <<"other", "tools", "link", "pe">>}
LibraryOf == [pe |-> "PE", link |-> "PE", tools |-> "Tools", other |-> "Other"]
RegisteredBy == [
  PE |-> <<Entry("Loader", "pe"), Entry("Assembler", "x86"), Entry("Command", "x86")>>,
  Tools |-> <<Entry("Assembler", "x86"), Entry("Command", "dump"), Entry("Analyzer", "names")>>,
  Other |-> <<>>]
Own == <<Entry("Loader", "binary"), Entry("Analyzer", "functions"), Entry("Analyzer", "strings")>>

Answers == [pe |-> {"x86", "arm", Rejects}, binary |-> {Undecided}]
Orders == [names |-> 0, functions |-> 0, strings |-> 1]
=============================================================================
