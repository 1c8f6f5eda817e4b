---------------------------- MODULE LabelsProofs ----------------------------
(***************************************************************************)
(* The label database, for any addresses, names, types and number of calls *)
(* in any order: every name shown is found, the index by flag agrees with  *)
(* the entries, a rename that returns TRUE is unique, and an entry point   *)
(* keeps the name of its symbol.                                           *)
(***************************************************************************)
EXTENDS Labels, Lemmas

DbType(d) ==
  /\ DOMAIN d = {"known", "weak", "label", "flags", "field", "named", "index"}
  /\ d.known \in SUBSET Addrs /\ d.field \in SUBSET d.known
  /\ d.weak \in [Addrs -> BOOLEAN] /\ d.label \in [Addrs -> Names]
  /\ d.flags \in [Addrs -> SUBSET Flags] /\ d.index \in [IndexKeys -> SUBSET Addrs]
  /\ IsNamed(d.named)

Blank(d) ==
  \A a \in Addrs \ d.known : d.weak[a] /\ d.label[a] = NoName /\ d.flags[a] = {}

Found(d) ==
  \A a \in Addrs :
    d.label[a] # NoName /\ a \notin d.field => d.label[a] \in DOMAIN d.named

Agrees(d) ==
  /\ \A a \in Addrs, f \in IndexFlags : a \in d.index[f] <=> f \in d.flags[a]
  /\ \A a \in Addrs : a \in d.index["String"] <=> d.flags[a] \cap {"Ascii", "Wide"} # {}

DbInv(d) == DbType(d) /\ Blank(d) /\ Found(d) /\ Agrees(d)

(* The inductive invariant. *)
IInv ==
  /\ DbInv(db)
  /\ functions \subseteq Addrs /\ entry \in Addrs \cup {0}
  /\ visit \in Seq(Frames) /\ calls \in 0 .. MaxCalls
-----------------------------------------------------------------------------
LEMMA NamesFacts ==
  /\ NoName \in Names /\ EntryName \in Names
  /\ \A a \in Nat, p \in Prefixes : MakeLabel(p, a) \in Names
  /\ \A n \in Names : Demangle(n) \in Names
  /\ Chosen \subseteq Names /\ Addrs \subseteq Nat
<1>0. "" \in Prefixes /\ "__redasm_entry__" \in Prefixes /\ 0 \in Nat
  BY NamesAssumption DEF MadePrefixes
<1>1. NoName \in Names /\ EntryName \in Names
  BY <1>0 DEF NoName, EntryName, Names
<1>2. \A a \in Nat, p \in Prefixes : MakeLabel(p, a) \in Names
  BY DEF MakeLabel, Names
<1>3. \A n \in Names : Demangle(n) \in Names
  BY NamesAssumption DEF Demangle
<1>. QED BY <1>1, <1>2, <1>3, AddrsAssumption, NamesAssumption

LEMMA Given2 == ASSUME NEW n \in Names, NEW m \in Names PROVE Given(n, m) \in Names
BY DEF Given

LEMMA BindFacts ==
  ASSUME NEW f, IsNamed(f), NEW n \in Names, NEW a \in Addrs
  PROVE  /\ IsNamed(Bind(f, n, a)) /\ DOMAIN Bind(f, n, a) = DOMAIN f \cup {n}
         /\ Bind(f, n, a)[n] = a
BY DEF Bind, IsNamed

LEMMA UnbindFacts ==
  ASSUME NEW f, IsNamed(f), NEW n, n \notin DOMAIN f
  PROVE  IsNamed(Unbind(f, n)) /\ DOMAIN Unbind(f, n) = DOMAIN f
BY DEF Unbind, IsNamed

LEMMA IndexFacts ==
  ASSUME NEW F \in SUBSET IndexFlags
  PROVE  /\ \A f \in IndexFlags : f \in IndexedAs(F) <=> f \in F
         /\ "String" \in IndexedAs(F) <=> F \cap {"Ascii", "Wide"} # {}
         /\ "String" \notin IndexFlags /\ IndexKeys = IndexFlags \cup {"String"}
         /\ IndexFlags \subseteq Flags
BY DEF IndexFlags, IndexedAs, IndexKeys, Flags

(* setLabel keeps names, flags and index in agreement. *)
LEMMA SetLabelInv ==
  ASSUME NEW d, DbInv(d), NEW w \in BOOLEAN, NEW a \in Addrs, NEW n \in Names,
         NEW F \in SUBSET IndexFlags
  PROVE  DbInv(SetLabel(d, w, a, n, F))
<1> DEFINE e == [d EXCEPT !.known = @ \cup {a}, !.weak[a] = w, !.label[a] = Demangle(n),
                          !.flags[a] = @ \cup F, !.named = Bind(@, Demangle(n), a),
                          !.index = [f \in IndexKeys |-> IF f \in IndexedAs(F) THEN @[f] \cup {a} ELSE @[f]]]
<1>1. DOMAIN d = {"known", "weak", "label", "flags", "field", "named", "index"}
  BY DEF DbInv, DbType
<1>2. /\ DOMAIN e = DOMAIN d /\ e.known = d.known \cup {a} /\ e.field = d.field
      /\ e.weak = [d.weak EXCEPT ![a] = w] /\ e.label = [d.label EXCEPT ![a] = Demangle(n)]
      /\ e.flags = [d.flags EXCEPT ![a] = @ \cup F] /\ e.named = Bind(d.named, Demangle(n), a)
      /\ e.index = [f \in IndexKeys |-> IF f \in IndexedAs(F) THEN d.index[f] \cup {a} ELSE d.index[f]]
  BY <1>1
<1> HIDE DEF e
<1> DEFINE m == Demangle(n)
<1>3. m \in Names
  BY NamesFacts
<1> HIDE DEF m
<1>n. /\ IsNamed(d.named) /\ e.named = Bind(d.named, m, a)
      /\ e.label = [d.label EXCEPT ![a] = m]
  BY <1>2 DEF m, DbInv, DbType
<1>v. IsNamed(Bind(d.named, m, a)) /\ DOMAIN Bind(d.named, m, a) = DOMAIN d.named \cup {m}
  BY <1>3, <1>n, BindFacts
<1>b. IsNamed(e.named) /\ DOMAIN e.named = DOMAIN d.named \cup {m}
  BY <1>n, <1>v
<1>4. DbType(e)
  <2>1. /\ e.known \in SUBSET Addrs /\ e.field \in SUBSET e.known
        /\ e.weak \in [Addrs -> BOOLEAN] /\ e.label \in [Addrs -> Names]
    BY <1>2, <1>3, <1>n DEF DbInv, DbType
  <2>2. e.flags \in [Addrs -> SUBSET Flags]
    BY <1>2, IndexFacts DEF DbInv, DbType
  <2>3. e.index \in [IndexKeys -> SUBSET Addrs]
    BY <1>2 DEF DbInv, DbType
  <2>. QED BY <1>1, <1>2, <1>b, <2>1, <2>2, <2>3 DEF DbType
<1>5. Blank(e)
  BY <1>2 DEF DbInv, DbType, Blank
<1>6. Found(e)
  BY <1>2, <1>n, <1>b DEF DbInv, DbType, Found
<1>7. Agrees(e)
  BY <1>2, IndexFacts DEF DbInv, DbType, Agrees
<1>. QED BY <1>4, <1>5, <1>6, <1>7 DEF SetLabel, DbInv, e

(* updateLabel takes no name away: the one it erases is nobody's. *)
LEMMA UpdateLabelInv ==
  ASSUME NEW d, DbInv(d), NEW a, NEW n \in Names
  PROVE  DbInv(UpdateLabel(d, a, n))
<1>. SUFFICES ASSUME a \in d.known, n \notin DOMAIN d.named
              PROVE  DbInv(UpdateLabel(d, a, n))
  BY DEF UpdateLabel
<1>. DEFINE e == [d EXCEPT !.label[a] = n, !.named = Bind(Unbind(@, n), n, a)]
<1>1. DOMAIN d = {"known", "weak", "label", "flags", "field", "named", "index"}
  BY DEF DbInv, DbType
<1>2. /\ DOMAIN e = DOMAIN d /\ e.known = d.known /\ e.field = d.field /\ e.weak = d.weak
      /\ e.label = [d.label EXCEPT ![a] = n] /\ e.flags = d.flags
      /\ e.named = Bind(Unbind(d.named, n), n, a) /\ e.index = d.index
  BY <1>1
<1> HIDE DEF e
<1>3. a \in Addrs /\ IsNamed(d.named)
  BY DEF DbInv, DbType
<1>4. IsNamed(Unbind(d.named, n)) /\ DOMAIN Unbind(d.named, n) = DOMAIN d.named
  BY <1>3, UnbindFacts
<1> DEFINE f == Unbind(d.named, n)
<1>v. IsNamed(f)
  BY <1>4
<1> HIDE DEF f
<1>x. /\ IsNamed(Bind(f, n, a)) /\ DOMAIN Bind(f, n, a) = DOMAIN f \cup {n}
      /\ Bind(f, n, a)[n] = a
  BY <1>3, <1>v, BindFacts
<1>5. IsNamed(e.named) /\ DOMAIN e.named = DOMAIN d.named \cup {n} /\ e.named[n] = a
  BY <1>2, <1>4, <1>x DEF f
<1>6. DbType(e)
  BY <1>1, <1>2, <1>3, <1>5 DEF DbInv, DbType
<1>7. Blank(e)
  BY <1>2 DEF DbInv, DbType, Blank
<1>8. Found(e)
  BY <1>2, <1>5 DEF DbInv, DbType, Found
<1>9. Agrees(e)
  BY <1>2 DEF DbInv, Agrees
<1>10. UpdateLabel(d, a, n) = e \/ UpdateLabel(d, a, n) = d
  BY DEF UpdateLabel, e
<1>. QED BY <1>6, <1>7, <1>8, <1>9, <1>10 DEF DbInv

LEMMA UpdateFlagsInv ==
  ASSUME NEW d, DbInv(d), NEW a, NEW f \in OtherFlags
  PROVE  DbInv(UpdateFlags(d, a, f))
<1>. SUFFICES ASSUME a \in d.known PROVE DbInv(UpdateFlags(d, a, f))
  BY DEF UpdateFlags
<1>. DEFINE e == [d EXCEPT !.flags[a] = @ \cup {f}]
<1>1. DOMAIN d = {"known", "weak", "label", "flags", "field", "named", "index"}
  BY DEF DbInv, DbType
<1>2. /\ DOMAIN e = DOMAIN d /\ e.known = d.known /\ e.field = d.field /\ e.weak = d.weak
      /\ e.label = d.label /\ e.flags = [d.flags EXCEPT ![a] = @ \cup {f}]
      /\ e.named = d.named /\ e.index = d.index
  BY <1>1
<1> HIDE DEF e
<1>3. f \in Flags /\ f \notin IndexFlags /\ f \notin {"Ascii", "Wide"}
  BY DEF Flags, OtherFlags, IndexFlags
<1>4. DbType(e)
  BY <1>1, <1>2, <1>3 DEF DbInv, DbType
<1>5. Blank(e)
  BY <1>2 DEF DbInv, DbType, Blank
<1>6. Found(e)
  BY <1>2 DEF DbInv, Found
<1>7. Agrees(e)
  BY <1>2, <1>3 DEF DbInv, DbType, Agrees
<1>. QED BY <1>4, <1>5, <1>6, <1>7 DEF UpdateFlags, DbInv, e

LEMMA SetTypeFieldInv ==
  ASSUME NEW d, DbInv(d), NEW a \in Addrs, NEW n \in Names
  PROVE  DbInv(SetTypeField(d, a, n))
<1>. DEFINE e == SetTypeField(d, a, n)
<1>1. DOMAIN d = {"known", "weak", "label", "flags", "field", "named", "index"}
  BY DEF DbInv, DbType
<1>2. /\ DOMAIN e = DOMAIN d /\ e.known = d.known \cup {a} /\ e.field = d.field \cup {a}
      /\ e.weak = d.weak /\ e.label = [d.label EXCEPT ![a] = n]
      /\ e.flags = [d.flags EXCEPT ![a] = @ \cup {"TypeField"}]
      /\ e.named = d.named /\ e.index = d.index
  BY <1>1 DEF SetTypeField
<1> HIDE DEF e
<1>3. "TypeField" \in Flags /\ "TypeField" \notin IndexFlags
  BY DEF Flags, OtherFlags, IndexFlags
<1>4. DbType(e)
  BY <1>1, <1>2, <1>3 DEF DbInv, DbType
<1>5. Blank(e)
  BY <1>2 DEF DbInv, DbType, Blank
<1>6. Found(e)
  BY <1>2 DEF DbInv, DbType, Found
<1>7. Agrees(e)
  BY <1>2, <1>3 DEF DbInv, DbType, Agrees
<1>. QED BY <1>4, <1>5, <1>6, <1>7 DEF DbInv, e

LEMMA SetTypeInv ==
  ASSUME NEW d, DbInv(d), NEW a \in Addrs, NEW n \in Names
  PROVE  DbInv(SetType(d, a, n))
<1>. DEFINE e == SetType(d, a, n)
<1>1. DOMAIN d = {"known", "weak", "label", "flags", "field", "named", "index"}
  BY DEF DbInv, DbType
<1>2. /\ DOMAIN e = DOMAIN d /\ e.known = d.known \cup {a} /\ e.field = d.field
      /\ e.weak = d.weak /\ e.label = [d.label EXCEPT ![a] = n]
      /\ e.flags = [d.flags EXCEPT ![a] = @ \cup {"Type"}]
      /\ e.named = Bind(d.named, n, a) /\ e.index = d.index
  BY <1>1 DEF SetType
<1> HIDE DEF e
<1>3. "Type" \in Flags /\ "Type" \notin IndexFlags
  BY DEF Flags, OtherFlags, IndexFlags
<1>b. IsNamed(d.named)
  BY DEF DbInv, DbType
<1>v. IsNamed(Bind(d.named, n, a)) /\ DOMAIN Bind(d.named, n, a) = DOMAIN d.named \cup {n}
  BY <1>b, BindFacts
<1>n. IsNamed(e.named) /\ DOMAIN e.named = DOMAIN d.named \cup {n}
  BY <1>2, <1>v
<1>4. DbType(e)
  BY <1>1, <1>2, <1>3, <1>n DEF DbInv, DbType
<1>5. Blank(e)
  BY <1>2 DEF DbInv, DbType, Blank
<1>6. Found(e)
  BY <1>2, <1>n DEF DbInv, DbType, Found
<1>7. Agrees(e)
  BY <1>2, <1>3 DEF DbInv, DbType, Agrees
<1>. QED BY <1>4, <1>5, <1>6, <1>7 DEF DbInv, e

LEMMA TouchInv ==
  ASSUME NEW d, DbInv(d), NEW a \in Addrs
  PROVE  DbInv(Touch(d, a))
<1>. DEFINE e == Touch(d, a)
<1>1. DOMAIN d = {"known", "weak", "label", "flags", "field", "named", "index"}
  BY DEF DbInv, DbType
<1>2. /\ DOMAIN e = DOMAIN d /\ e.known = d.known \cup {a} /\ e.field = d.field
      /\ e.weak = d.weak /\ e.label = d.label /\ e.flags = d.flags
      /\ e.named = d.named /\ e.index = d.index
  BY <1>1 DEF Touch
<1> HIDE DEF e
<1>. QED BY <1>1, <1>2 DEF DbInv, DbType, Blank, Found, Agrees, e
-----------------------------------------------------------------------------
LEMMA PrefixFacts ==
  /\ \A p \in MadePrefixes, a \in Nat : MakeLabel(p, a) \in Names
  /\ {"loc", "sub", "data", "ptr", "str", "wstr", "inf_loop"} \subseteq MadePrefixes
BY NamesFacts, NamesAssumption DEF MadePrefixes

LEMMA SetLocationInv ==
  ASSUME NEW d, DbInv(d), NEW w \in BOOLEAN, NEW a \in Addrs, NEW n \in Names,
         NEW F \in SUBSET IndexFlags
  PROVE  DbInv(SetLocation(d, w, a, n, F))
<1>1. Given(n, MakeLabel("loc", a)) \in Names
  BY PrefixFacts, NamesFacts DEF Given
<1>. QED BY <1>1, SetLabelInv DEF SetLocation

LEMMA SetFunctionInv ==
  ASSUME NEW d, DbInv(d), NEW w \in BOOLEAN, NEW a \in Addrs, NEW n \in Names
  PROVE  DbInv(SetFunction(d, w, a, n))
<1>1. Given(n, MakeLabel("sub", a)) \in Names /\ {"Function"} \in SUBSET IndexFlags
  BY PrefixFacts, NamesFacts DEF Given, IndexFlags
<1>. QED BY <1>1, SetLocationInv DEF SetFunction

LEMMA SetDataInv ==
  ASSUME NEW d, DbInv(d), NEW w \in BOOLEAN, NEW a \in Addrs, NEW n \in Names
  PROVE  DbInv(SetData(d, w, a, n))
<1>1. Given(n, MakeLabel("data", a)) \in Names /\ {"Location"} \in SUBSET IndexFlags
  BY PrefixFacts, NamesFacts DEF Given, IndexFlags
<1>. QED BY <1>1, SetLabelInv DEF SetData

LEMMA SetPointerInv ==
  ASSUME NEW d, DbInv(d), NEW w \in BOOLEAN, NEW a \in Addrs, NEW n \in Names
  PROVE  DbInv(SetPointer(d, w, a, n))
<1>1. Given(n, MakeLabel("ptr", a)) \in Names /\ "Pointer" \in OtherFlags
  BY PrefixFacts, NamesFacts DEF Given, OtherFlags
<1>2. DbInv(SetData(d, w, a, Given(n, MakeLabel("ptr", a))))
  BY <1>1, SetDataInv
<1>. QED BY <1>1, <1>2, UpdateFlagsInv DEF SetPointer

LEMMA SetStringInv ==
  ASSUME NEW d, DbInv(d), NEW w \in BOOLEAN, NEW a \in Addrs, NEW n \in Names, NEW kind
  PROVE  DbInv(SetString(d, w, a, n, kind))
<1>1. /\ Given(n, MakeLabel("str", a)) \in Names
      /\ (IF n = NoName THEN MakeLabel("wstr", a) ELSE NoName) \in Names
      /\ {"Wide"} \in SUBSET IndexFlags /\ {"Ascii"} \in SUBSET IndexFlags
  BY PrefixFacts, NamesFacts DEF Given, IndexFlags
<1>2. DbInv(SetLabel(d, w, a, Given(n, MakeLabel("str", a)), {"Ascii"}))
  BY <1>1, SetLabelInv
<1>3. DbInv(SetLabel(d, w, a, IF n = NoName THEN MakeLabel("wstr", a) ELSE NoName, {"Wide"}))
  BY <1>1, SetLabelInv
<1>. QED BY <1>2, <1>3 DEF SetString

LEMMA CheckLocationInv ==
  ASSUME NEW d, DbInv(d), NEW w \in BOOLEAN, NEW a
  PROVE  DbInv(CheckLocation(d, w, a))
<1>. SUFFICES ASSUME a \in Mapped PROVE DbInv(CheckLocation(d, w, a))
  BY DEF CheckLocation
<1>1. a \in Addrs /\ NoName \in Names /\ {"Location"} \in SUBSET IndexFlags
  BY AddrsAssumption, NamesFacts DEF IndexFlags
<1>2. DbInv(SetString(d, w, a, NoName, Looks[a]))
  BY <1>1, SetStringInv
<1>3. DbInv(SetLocation(d, w, a, NoName, {"Location"})) /\ DbInv(SetData(d, w, a, NoName))
  BY <1>1, SetLocationInv, SetDataInv
<1>. QED BY <1>2, <1>3 DEF CheckLocation

LEMMA SetEntryInv ==
  ASSUME NEW d, DbInv(d), NEW a \in Addrs
  PROVE  DbInv(SetEntry(d, FALSE, a))
<1> DEFINE n == EntryLabel(d, a)
<1>1. n \in Names
  BY NamesFacts DEF EntryLabel, DbInv, DbType
<1> HIDE DEF n
<1>2. {"Function", "Exported"} \in SUBSET IndexFlags
  BY DEF IndexFlags
<1>3. DbInv(SetLocation(d, FALSE, a, n, {"Function", "Exported"}))
  BY <1>1, <1>2, SetLocationInv
<1>4. DbInv(SetFunction(SetLocation(d, FALSE, a, n, {"Function", "Exported"}), FALSE, a, n))
  BY <1>1, <1>3, SetFunctionInv
<1>. QED BY <1>4 DEF SetEntry, n
-----------------------------------------------------------------------------
LEMMA CallNames == NameOrNone \subseteq Names /\ FlagSets \subseteq SUBSET IndexFlags
BY NamesFacts, NamesAssumption DEF NameOrNone

LEMMA CallCounted == ASSUME IInv, Called PROVE calls' \in 0 .. MaxCalls /\ visit' = visit
BY NamesAssumption DEF IInv, Called

LEMMA LabelCallInv == ASSUME IInv, LabelCall PROVE IInv'
<1>1. /\ calls' \in 0 .. MaxCalls /\ visit' = visit /\ functions' = functions /\ entry' = entry
  BY CallCounted DEF LabelCall
<1>2. PICK w \in BOOLEAN, a \in Addrs, n \in NameOrNone :
        \/ \E F \in FlagSets : db' = SetLocation(db, w, a, n, F)
        \/ db' = SetLocation(db, w, a, MakeLabel("inf_loop", a), {"Location"})
        \/ db' = SetData(db, w, a, MakeLabel("loc", a))
        \/ db' = SetPointer(db, w, a, n)
        \/ db' = SetData(db, w, a, n)
        \/ \E kind \in {"ascii", "wide"} : db' = SetString(db, w, a, NoName, kind)
  BY DEF LabelCall
<1>3. /\ n \in Names /\ NoName \in Names /\ DbInv(db)
      /\ MakeLabel("inf_loop", a) \in Names /\ MakeLabel("loc", a) \in Names
      /\ {"Location"} \in SUBSET IndexFlags /\ FlagSets \subseteq SUBSET IndexFlags
  BY CallNames, NamesFacts, PrefixFacts DEF IInv, IndexFlags
<1>4. /\ \A F \in FlagSets : DbInv(SetLocation(db, w, a, n, F))
      /\ DbInv(SetLocation(db, w, a, MakeLabel("inf_loop", a), {"Location"}))
  BY <1>3, SetLocationInv
<1>5. /\ DbInv(SetData(db, w, a, MakeLabel("loc", a))) /\ DbInv(SetPointer(db, w, a, n))
      /\ DbInv(SetData(db, w, a, n))
  BY <1>3, SetDataInv, SetPointerInv
<1>6. \A kind : DbInv(SetString(db, w, a, NoName, kind))
  BY <1>3, SetStringInv
<1>7. DbInv(db)'
  BY <1>2, <1>4, <1>5, <1>6
<1>. QED BY <1>1, <1>7 DEF IInv

LEMMA OtherCallInv ==
  ASSUME IInv,
         FunctionCall \/ CommentCall \/ ExportCall \/ (\E a \in Addrs : EntryCall(a))
           \/ (\E a \in Addrs, n \in Chosen : RenameCall(a, n))
  PROVE  IInv'
<1>1. /\ calls' \in 0 .. MaxCalls /\ visit' = visit
      /\ functions' \subseteq Addrs /\ entry' \in Addrs \cup {0}
  BY CallCounted DEF IInv, FunctionCall, CommentCall, ExportCall, EntryCall, RenameCall
<1>2. DbInv(db)
  BY DEF IInv
<1>3. CASE FunctionCall
  <2>1. PICK w \in BOOLEAN, a \in Addrs, n \in NameOrNone : db' = SetFunction(db, w, a, n)
    BY <1>3 DEF FunctionCall
  <2>. QED BY <1>1, <1>2, <2>1, CallNames, SetFunctionInv DEF IInv
<1>4. CASE CommentCall
  BY <1>1, <1>2, <1>4, TouchInv DEF IInv, CommentCall
<1>5. CASE ExportCall
  <2>1. PICK a \in Addrs, n \in NameOrNone :
          \/ db' = SetFunction(SetLocation(db, FALSE, a, n, {"Function", "Exported"}), FALSE, a, n)
          \/ \E f \in {"Exported", "Imported"} :
               db' = SetLocation(SetData(db, FALSE, a, n), FALSE, a, n, {f})
    BY <1>5 DEF ExportCall
  <2>2. /\ n \in Names /\ {"Function", "Exported"} \in SUBSET IndexFlags
        /\ \A f \in {"Exported", "Imported"} : {f} \in SUBSET IndexFlags
    BY CallNames DEF IndexFlags
  <2>3. DbInv(SetLocation(db, FALSE, a, n, {"Function", "Exported"})) /\ DbInv(SetData(db, FALSE, a, n))
    BY <1>2, <2>2, SetLocationInv, SetDataInv
  <2>4. DbInv(SetFunction(SetLocation(db, FALSE, a, n, {"Function", "Exported"}), FALSE, a, n))
    BY <2>2, <2>3, SetFunctionInv
  <2>5. \A f \in {"Exported", "Imported"} :
          DbInv(SetLocation(SetData(db, FALSE, a, n), FALSE, a, n, {f}))
    BY <2>2, <2>3, SetLocationInv
  <2>. QED BY <1>1, <2>1, <2>4, <2>5 DEF IInv
<1>6. CASE \E a \in Addrs : EntryCall(a)
  BY <1>1, <1>2, <1>6, SetEntryInv DEF IInv, EntryCall
<1>7. CASE \E a \in Addrs, n \in Chosen : RenameCall(a, n)
  BY <1>1, <1>2, <1>7, NamesFacts, UpdateLabelInv DEF IInv, RenameCall
<1>. QED BY <1>3, <1>4, <1>5, <1>6, <1>7
-----------------------------------------------------------------------------
LEMMA FrameType ==
  ASSUME NEW t \in Types, NEW a \in Nat, NEW l \in Nat PROVE Frame(t, a, l) \in Frames
BY DEF Frame, Frames

LEMMA TopFacts ==
  ASSUME IInv, visit # <<>>
  PROVE  /\ Top \in Frames /\ Returned \in Seq(Frames)
         /\ Top.type.members \in Seq(Member)
         /\ HasMember => TopMember \in Member
         /\ Top.type.name \in Names /\ MakeLabel(Top.type.base, Top.at) \in Names
<1>1. Top \in Frames /\ Returned \in Seq(Frames)
  BY HeadTail DEF IInv, Top, Returned
<1>2. Top.type \in Types /\ Top.at \in Nat /\ Top.i \in Nat \ {0}
  BY <1>1 DEF Frames
<1>3. /\ Top.type.members \in Seq(Member)
      /\ Top.type.name \in Names /\ Top.type.base \in Prefixes
  BY <1>2, TypesAssumption
<1>4. MakeLabel(Top.type.base, Top.at) \in Names
  BY <1>2, <1>3, NamesFacts
<1>5. HasMember => TopMember \in Member
  BY <1>2, <1>3 DEF HasMember, TopMember
<1>. QED BY <1>1, <1>3, <1>4, <1>5

LEMMA Replaced ==
  ASSUME NEW F, NEW s \in Seq(F), s # <<>>, NEW x \in F
  PROVE  [s EXCEPT ![1] = x] \in Seq(F)
OBVIOUS

LEMMA ResumeType ==
  ASSUME NEW S \in Seq(Frames) PROVE Resume(S) \in Seq(Frames)
<1>. SUFFICES ASSUME S # <<>> PROVE [S EXCEPT ![1].done = TRUE] \in Seq(Frames)
  BY DEF Resume
<1>1. S[1] \in Frames
  BY HeadTail
<1>2. [S[1] EXCEPT !.done = TRUE] \in Frames
  BY <1>1 DEF Frames
<1>. QED BY <1>2, Replaced

LEMMA NextMemberType ==
  ASSUME IInv, visit # <<>>, HasMember PROVE NextMember \in Seq(Frames)
<1>1. Top \in Frames /\ TopMember.size \in Nat
  BY TopFacts DEF Member
<1> DEFINE z == TopMember.size
<1>z. z \in Nat
  BY <1>1
<1> HIDE DEF z
<1>2. [Top EXCEPT !.i = @ + 1, !.pos = @ + z, !.done = FALSE] \in Frames
  <2>1. Top.i + 1 \in Nat \ {0} /\ Top.pos + z \in Nat
    BY <1>1, <1>z DEF Frames
  <2>. QED BY <1>1, <2>1 DEF Frames
<1>3. Returned \in Seq(Frames)
  BY TopFacts
<1>. QED BY <1>2, <1>3, Pushed DEF NextMember, z

LEMMA AtLastMemberInv == ASSUME NEW d, DbInv(d) PROVE DbInv(AtLastMember(d))
BY UpdateFlagsInv DEF AtLastMember, OtherFlags

LEMMA TypeStepInv == ASSUME IInv, TypeCall \/ TypeStep PROVE IInv'
<1>1. DbInv(db) /\ visit \in Seq(Frames) /\ calls \in 0 .. MaxCalls /\ MaxCalls \in Nat
  BY NamesAssumption DEF IInv
<1>2. CASE TypeCall
  <2>1. PICK t \in Types, a \in Addrs : visit' = <<Frame(t, a, 0)>>
    BY <1>2 DEF TypeCall
  <2>2. visit' \in Seq(Frames)
    BY <2>1, FrameType, NamesFacts
  <2>3. calls' \in 0 .. MaxCalls
    BY <1>1, <1>2 DEF TypeCall
  <2>. QED BY <1>1, <1>2, <2>2, <2>3 DEF TypeCall, IInv
<1>3. ASSUME visit # <<>>, UNCHANGED <<functions, entry, calls>>,
             visit' \in Seq(Frames), DbInv(db)'
      PROVE  IInv'
  BY <1>3 DEF IInv
<1>4. CASE NumericLeaf
  <2>1. visit # <<>> /\ visit' = Resume(Returned) /\ UNCHANGED <<functions, entry, calls>>
    BY <1>4 DEF NumericLeaf, Leaf
  <2>2. visit' \in Seq(Frames)
    BY <2>1, TopFacts, ResumeType
  <2>3. Top.at \in Mapped => DbInv(SetTypeField(db, Top.at, MakeLabel(Top.type.base, Top.at)))
    BY <1>1, <2>1, TopFacts, SetTypeFieldInv, AddrsAssumption
  <2>4. DbInv(db)'
    BY <1>1, <1>4, <2>3 DEF NumericLeaf
  <2>. QED BY <1>3, <2>1, <2>2, <2>4
<1>5. CASE StringLeaf
  <2>1. visit # <<>> /\ visit' = Resume(Returned) /\ UNCHANGED <<functions, entry, calls>>
    BY <1>5 DEF StringLeaf, Leaf
  <2>2. visit' \in Seq(Frames)
    BY <2>1, TopFacts, ResumeType
  <2>3. PICK w \in BOOLEAN :
          db' \in {db, SetTypeField(SetString(db, w, Top.at, Top.type.name, "ascii"),
                                   Top.at, MakeLabel(Top.type.base, Top.at))}
               /\ (Top.at \notin Mapped => db' = db)
    BY <1>5 DEF StringLeaf
  <2>4. Top.at \in Mapped =>
          DbInv(SetTypeField(SetString(db, w, Top.at, Top.type.name, "ascii"),
                             Top.at, MakeLabel(Top.type.base, Top.at)))
    BY <1>1, <2>1, TopFacts, SetStringInv, SetTypeFieldInv, AddrsAssumption
  <2>. QED BY <1>1, <1>3, <2>1, <2>2, <2>3, <2>4
<1>6. CASE Visit
  <2>1. visit # <<>> /\ HasMember /\ UNCHANGED <<functions, entry, calls, db>>
        /\ visit' = <<Frame(TopMember.type, Top.pos, MemberLevel)>> \o visit
    BY <1>6 DEF Visit, Compound
  <2>2. TopMember.type \in Types /\ Top.pos \in Nat /\ MemberLevel \in Nat
    BY <2>1, TopFacts DEF Member, Frames, MemberLevel
  <2>3. visit' \in Seq(Frames)
    BY <1>1, <2>1, <2>2, FrameType, Pushed
  <2>. QED BY <1>1, <1>3, <2>1, <2>3
<1>7. CASE FieldDone
  <2>1. visit # <<>> /\ HasMember /\ UNCHANGED <<functions, entry, calls>> /\ visit' = NextMember
    BY <1>7 DEF FieldDone, Compound
  <2>2. visit' \in Seq(Frames)
    BY <2>1, NextMemberType
  <2>3. PICK w \in BOOLEAN : \E d \in {db, CheckLocation(db, w, Leads[Top.pos]),
                                       CheckLocation(db, w, Top.pos)} : db' = AtLastMember(d)
    BY <1>7 DEF FieldDone
  <2>4. PICK d \in {db, CheckLocation(db, w, Leads[Top.pos]), CheckLocation(db, w, Top.pos)} :
          db' = AtLastMember(d)
    BY <2>3
  <2>5. DbInv(d)
    BY <1>1, <2>3, <2>4, CheckLocationInv
  <2>. QED BY <1>3, <2>1, <2>2, <2>4, <2>5, AtLastMemberInv
<1>8. CASE ItemDone
  <2>1. visit # <<>> /\ HasMember /\ UNCHANGED <<functions, entry, calls>> /\ visit' = NextMember
        /\ db' = AtLastMember(UpdateLabel(db, Top.pos, MakeLabel(TopMember.item, Top.pos)))
    BY <1>8 DEF ItemDone, Compound
  <2>2. visit' \in Seq(Frames)
    BY <2>1, NextMemberType
  <2>3. MakeLabel(TopMember.item, Top.pos) \in Names
    BY <2>1, TopFacts, NamesFacts DEF Member, Frames
  <2>4. DbInv(UpdateLabel(db, Top.pos, MakeLabel(TopMember.item, Top.pos)))
    BY <1>1, <2>3, UpdateLabelInv
  <2>. QED BY <1>3, <2>1, <2>2, <2>4, AtLastMemberInv
<1>9. CASE TypeDone
  <2>1. visit # <<>> /\ UNCHANGED <<functions, entry, calls>> /\ visit' = Resume(Returned)
        /\ db' = IF Top.at \in Addrs THEN SetType(db, Top.at, TypeName) ELSE db
    BY <1>9 DEF TypeDone, Compound
  <2>2. visit' \in Seq(Frames)
    BY <2>1, TopFacts, ResumeType
  <2>3. TypeName \in Names
    BY <2>1, TopFacts DEF TypeName
  <2>4. DbInv(db)'
    BY <1>1, <2>1, <2>3, SetTypeInv
  <2>. QED BY <1>3, <2>1, <2>2, <2>4
<1>. QED BY <1>2, <1>4, <1>5, <1>6, <1>7, <1>8, <1>9 DEF TypeStep

LEMMA Initially == Init => IInv
<1>1. ASSUME Init PROVE DbInv(db)
  <2>1. NoLabels.named = [n \in {} |-> 0] /\ DOMAIN NoLabels.named = {}
    BY DEF NoLabels
  <2>2. DbType(NoLabels)
    BY <2>1, NamesFacts DEF DbType, NoLabels, IsNamed
  <2>3. Blank(NoLabels) /\ Found(NoLabels) /\ Agrees(NoLabels)
    BY DEF Blank, Found, Agrees, NoLabels, IndexKeys
  <2>. QED BY <1>1, <2>2, <2>3 DEF Init, DbInv
<1>. QED BY <1>1, NamesAssumption DEF Init, IInv

LEMMA Stutters == IInv /\ UNCHANGED vars => IInv'
BY DEF IInv, vars

THEOREM Invariance == Spec => []IInv
<1>1. IInv /\ [Next]_vars => IInv'
  BY LabelCallInv, OtherCallInv, TypeStepInv, Stutters DEF Next
<1>. QED BY <1>1, Initially, PTL DEF Spec

(* The database, the functions and the calls of setTypeFields are as typed. *)
THEOREM TypeCorrect == Spec => []TypeOK
<1>1. IInv => TypeOK
  BY DEF IInv, TypeOK, DbInv, DbType, Blank
<1>. QED BY <1>1, Invariance, PTL

(* A name that an address shows leads to an address, for any sequence of    *)
(* labels, renames, guesses and types.                                      *)
THEOREM NamesFound == Spec => []EveryNameFound
<1>1. IInv => EveryNameFound
  BY DEF IInv, EveryNameFound, DbInv, Found
<1>. QED BY <1>1, Invariance, PTL

(* The index by the flags that setLabel sets and the entries agree.         *)
THEOREM IndexTrue == Spec => []IndexAgrees
<1>1. IInv => IndexAgrees
  BY DEF IInv, IndexAgrees, DbInv, Agrees
<1>. QED BY <1>1, Invariance, PTL

(* A rename that succeeds makes its name lead to its address, for findLabel *)
(* and, unless the name is mangled, for getAddress; a new name is shown at  *)
(* the address and at no other but a field.                                 *)
THEOREM RenamesAreUnique == Spec => RenameIsUnique
<1>1. ASSUME IInv, NEW a \in Addrs, NEW n \in Chosen, RenameCall(a, n), Renames(db, a, n)
      PROVE  /\ n \in DOMAIN db'.named /\ db'.named[n] = a
             /\ n \notin DOMAIN Mangled => GetAddress(db', n) = a
             /\ n \notin DOMAIN db.named =>
                  /\ db'.label[a] = n
                  /\ \A b \in Addrs \ db.field : db'.label[b] = n => b = a
  <2>1. n \in Names /\ n # NoName /\ a \in db.known /\ db' = UpdateLabel(db, a, n)
        /\ DbType(db) /\ Found(db)
    BY <1>1, NamesFacts DEF RenameCall, Renames, IInv, DbInv
  <2>2. CASE n \in DOMAIN db.named
    <3>1. db' = db /\ db.named[n] = a
      BY <1>1, <2>1, <2>2 DEF UpdateLabel, Renames
    <3>. QED BY <2>2, <3>1 DEF GetAddress, Demangle
  <2>3. CASE n \notin DOMAIN db.named
    <3>1. db' = [db EXCEPT !.label[a] = n, !.named = Bind(Unbind(@, n), n, a)]
      BY <2>1, <2>3 DEF UpdateLabel
    <3>2. /\ db'.label = [db.label EXCEPT ![a] = n]
          /\ db'.named = Bind(Unbind(db.named, n), n, a)
      BY <2>1, <3>1 DEF DbType
    <3>3. n \in DOMAIN db'.named /\ db'.named[n] = a
      BY <3>2 DEF Bind
    <3>4. /\ db'.label[a] = n
          /\ \A b \in Addrs \ db.field : db'.label[b] = n => b = a
      BY <2>1, <2>3, <3>2 DEF DbType, Found
    <3>. QED BY <3>3, <3>4 DEF GetAddress, Demangle
  <2>. QED BY <2>2, <2>3
<1>2. IInv /\ [Next]_vars =>
        [\A a \in Addrs, n \in Chosen :
           RenameCall(a, n) /\ Renames(db, a, n) =>
             /\ n \in DOMAIN db'.named /\ db'.named[n] = a
             /\ n \notin DOMAIN Mangled => GetAddress(db', n) = a
             /\ n \notin DOMAIN db.named =>
                  /\ db'.label[a] = n
                  /\ \A b \in Addrs \ db.field : db'.label[b] = n => b = a]_vars
  BY <1>1
<1>. QED BY <1>2, Invariance, PTL DEF Spec, RenameIsUnique

-----------------------------------------------------------------------------
(* What setLabel writes at an address when it is given a fact.              *)
FactStands(e, a, n, F) ==
  /\ e.label[a] = Demangle(n) /\ ~e.weak[a]
  /\ \A f \in F : a \in e.index[f]

LEMMA FactWritten ==
  ASSUME NEW d, DbInv(d), NEW a \in Addrs, NEW n \in Names, NEW F \in SUBSET IndexFlags
  PROVE  /\ FactStands(SetLabel(d, FALSE, a, n, F), a, n, F)
         /\ \A f \in IndexKeys : d.index[f] \subseteq SetLabel(d, FALSE, a, n, F).index[f]
<1> DEFINE e == SetLabel(d, FALSE, a, n, F)
<1>1. /\ DOMAIN d = {"known", "weak", "label", "flags", "field", "named", "index"}
      /\ d.weak \in [Addrs -> BOOLEAN] /\ d.label \in [Addrs -> Names]
  BY DEF DbInv, DbType
<1>2. /\ e.weak = [d.weak EXCEPT ![a] = FALSE] /\ e.label = [d.label EXCEPT ![a] = Demangle(n)]
      /\ e.index = [f \in IndexKeys |-> IF f \in IndexedAs(F) THEN d.index[f] \cup {a} ELSE d.index[f]]
  BY <1>1 DEF SetLabel
<1> HIDE DEF e
<1>3. /\ e.label[a] = Demangle(n) /\ ~e.weak[a]
      /\ \A f \in IndexKeys : d.index[f] \subseteq e.index[f]
  BY <1>1, <1>2
<1>4. \A f \in F : a \in e.index[f]
  BY <1>2, IndexFacts
<1>. QED BY <1>3, <1>4 DEF e, FactStands

(* The name that setEntry goes by in the end: the entry's, or sub_...       *)
LEMMA EntryWritten ==
  ASSUME NEW d, DbInv(d), NEW a \in Addrs
  PROVE  FactStands(SetEntry(d, FALSE, a), a, Given(EntryLabel(d, a), MakeLabel("sub", a)),
                    {"Function", "Exported"})
<1> DEFINE n == EntryLabel(d, a)
           m == Given(n, MakeLabel("sub", a))
           F == {"Function", "Exported"}
           first == SetLocation(d, FALSE, a, n, F)
           second == SetLabel(first, FALSE, a, m, {"Function"})
<1>1. n \in Names
  BY NamesFacts DEF EntryLabel, DbInv, DbType
<1> HIDE DEF n
<1>2. /\ F \in SUBSET IndexFlags /\ {"Function"} \in SUBSET IndexFlags
      /\ F \subseteq IndexKeys /\ F = {"Function", "Exported"}
  BY DEF IndexFlags, IndexKeys
<1> HIDE DEF F
<1>3. Given(n, MakeLabel("loc", a)) \in Names /\ m \in Names
  BY <1>1, PrefixFacts, NamesFacts DEF Given
<1>4. DbInv(first) /\ \A f \in F : a \in first.index[f]
  BY <1>1, <1>2, <1>3, SetLocationInv, FactWritten DEF SetLocation, FactStands
<1>5. Given(m, MakeLabel("loc", a)) = m
  BY DEF Given, MakeLabel, NoName
<1>6. SetEntry(d, FALSE, a) = second
  BY <1>2, <1>5 DEF SetEntry, SetFunction, SetLocation, n
<1> HIDE DEF first, m
<1>7. /\ FactStands(second, a, m, {"Function"})
      /\ \A f \in IndexKeys : first.index[f] \subseteq second.index[f]
  BY <1>2, <1>3, <1>4, FactWritten
<1>8. FactStands(second, a, m, F)
  BY <1>2, <1>4, <1>7 DEF FactStands
<1>. QED BY <1>2, <1>6, <1>8 DEF m, n

(* A symbol that becomes the entry point keeps its name and is found as a   *)
(* function and an export, whatever came before; the demangler gives no     *)
(* name that is empty.                                                      *)
THEOREM EntriesKeepNames ==
  ASSUME \A n \in DOMAIN Mangled : Mangled[n] # NoName
  PROVE  Spec => EntryKeepsName
<1>1. ASSUME IInv, NEW a \in Addrs, EntryCall(a)
      PROVE  /\ a \in functions' \cap db'.index["Function"] \cap db'.index["Exported"]
             /\ ~db'.weak[a] /\ db'.label[a] # NoName
             /\ db.label[a] # NoName => db'.label[a] = Demangle(db.label[a])
  <2> DEFINE m == Given(EntryLabel(db, a), MakeLabel("sub", a))
  <2>1. /\ a \in functions' /\ db' = SetEntry(db, FALSE, a)
        /\ DbInv(db)
    BY <1>1 DEF EntryCall, IInv
  <2>2. FactStands(SetEntry(db, FALSE, a), a, m, {"Function", "Exported"})
    BY <2>1, EntryWritten
  <2>3. m # NoName
    BY DEF Given, MakeLabel, NoName
  <2>4. Demangle(m) # NoName
    BY <2>3 DEF Demangle
  <2>5. db.label[a] # NoName => m = db.label[a]
    BY <2>1 DEF Given, EntryLabel, DbInv, Blank
  <2> HIDE DEF m
  <2>. QED BY <2>1, <2>2, <2>4, <2>5 DEF FactStands
<1>2. IInv /\ [Next]_vars =>
        [\A a \in Addrs :
           EntryCall(a) =>
             /\ a \in functions' \cap db'.index["Function"] \cap db'.index["Exported"]
             /\ ~db'.weak[a] /\ db'.label[a] # NoName
             /\ db.label[a] # NoName => db'.label[a] = Demangle(db.label[a])]_vars
  BY <1>1
<1>. QED BY <1>2, Invariance, PTL DEF Spec, EntryKeepsName
=============================================================================
