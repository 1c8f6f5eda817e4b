------------------------------- MODULE Labels -------------------------------
(***************************************************************************)
(* The AddressDatabase (rdcore/database/addressdatabase) and the calls of  *)
(* the Document that name addresses: an entry per address, the map from    *)
(* names back to addresses, the index of addresses by flag, the functions  *)
(* and the entry point.  Every call holds the Document; setType, which     *)
(* visits the members of a type recursively, is one action per member, and *)
(* nothing else happens until it returns.                                  *)
(*                                                                         *)
(* A name is a prefix and an address (makeLabel), or a prefix and 0 when   *)
(* somebody chose it.  What setData and setString do to the blocks is in   *)
(* Blocks; here they only fail outside of the segments.  What a pointer    *)
(* inside a typed value leads to is no pointer itself (see Locations).     *)
(*                                                                         *)
(* ErasesOldName, AnswersAnyway, ReplacesFlags and IgnoresLabel are faulty *)
(* variants of the operator that follows each of them; nothing uses them   *)
(* here.                                                                   *)
(***************************************************************************)
EXTENDS Integers, Sequences

CONSTANTS
  Addrs,    (* the addresses that calls name                               *)
  Mapped,   (* those inside a segment                                      *)
  Prefixes, (* what names begin with                                       *)
  Chosen,   (* names given by loaders, plugins and users                   *)
  Mangled,  (* what a mangled name stands for: a function of such names    *)
  Types,    (* the types of the database, and those they are made of       *)
  Leads,    (* the address read as a pointer at an address, or 0           *)
  Looks,    (* what StringFinder and the segment make of an address        *)
  FlagSets, (* the flags that setLabel is called with                      *)
  MaxCalls  (* bound: there are no more calls than this                    *)

NoName == <<"", 0>>
EntryName == <<"__redasm_entry__", 0>>

(* The prefixes that the Document uses itself.                              *)
MadePrefixes ==
  {"", "__redasm_entry__", "loc", "sub", "data", "ptr", "str", "wstr", "inf_loop"}

Names == Prefixes \X Nat

(* Flags that only setLabel sets, and those of single calls.                *)
IndexFlags == {"Location", "Exported", "Imported", "Function", "Ascii", "Wide"}
OtherFlags == {"Pointer", "Type", "TypeField", "TypeEnd"}
Flags == IndexFlags \cup OtherFlags

TypeKinds == {"numeric", "ascii", "wide", "structure", "array"}

(* members: the fields of a structure, or the items of an array; wide: the  *)
(* member is as wide as a pointer; item: the prefix of an item's name;      *)
(* base: the prefix that autoName gives the type.                           *)
Member == [type : Types, wide : BOOLEAN, size : Nat, item : Prefixes]

ASSUME AddrsAssumption ==
  /\ Addrs \subseteq Nat \ {0} /\ Mapped \subseteq Addrs
  /\ Leads \in [Addrs -> Nat]
  /\ Looks \in [Addrs -> {"ascii", "wide", "code", "data"}]

ASSUME NamesAssumption ==
  /\ MadePrefixes \subseteq Prefixes
  /\ Chosen \subseteq Names /\ MaxCalls \in Nat
  /\ DOMAIN Mangled \subseteq Names
  /\ \A n \in DOMAIN Mangled : Mangled[n] \in Names \ DOMAIN Mangled
  /\ FlagSets \subseteq SUBSET IndexFlags

ASSUME TypesAssumption ==
  \A t \in Types : /\ t.kind \in TypeKinds
                   /\ t.name \in Names /\ t.base \in Prefixes
                   /\ t.members \in Seq(Member)

VARIABLES
  db,        (* the AddressDatabase                                        *)
  functions, (* m_functions                                                *)
  entry,     (* m_entry, or 0                                              *)
  visit,     (* the calls of setTypeFields, the innermost first            *)
  calls      (* how many calls there were                                  *)

vars == <<db, functions, entry, visit, calls>>
-----------------------------------------------------------------------------
(* Demangler::demangled *)
Demangle(n) == IF n \in DOMAIN Mangled THEN Mangled[n] ELSE n

(* makeLabel *)
MakeLabel(prefix, a) == <<prefix, a>>

Given(n, default) == IF n = NoName THEN default ELSE n

Bind(f, n, a) == [m \in DOMAIN f \cup {n} |-> IF m = n THEN a ELSE f[m]]
Unbind(f, n) == [m \in DOMAIN f \ {n} |-> f[m]]

(* What an entry with flags F is indexed under.  Strings of both kinds are  *)
(* also found under AddressFlags_String.                                    *)
IndexedAs(F) == F \cup (IF F \cap {"Ascii", "Wide"} # {} THEN {"String"} ELSE {})

IndexKeys == IndexFlags \cup {"String"}

(* AddressDatabase::setLabel: a guess never replaces a fact. *)
ReplacesFlags(d, w, a, n, F) ==
  IF w /\ ~d.weak[a] THEN d
  ELSE [d EXCEPT !.known = @ \cup {a}, !.weak[a] = w, !.label[a] = Demangle(n),
                 !.flags[a] = F, !.named = Bind(@, Demangle(n), a),
                 !.index = [f \in IndexKeys |-> IF f \in IndexedAs(F) THEN @[f] \cup {a} ELSE @[f]]]

SetLabel(d, w, a, n, F) ==
  IF w /\ ~d.weak[a] THEN d
  ELSE [d EXCEPT !.known = @ \cup {a}, !.weak[a] = w, !.label[a] = Demangle(n),
                 !.flags[a] = @ \cup F, !.named = Bind(@, Demangle(n), a),
                 !.index = [f \in IndexKeys |-> IF f \in IndexedAs(F) THEN @[f] \cup {a} ELSE @[f]]]

(* AddressDatabase::updateLabel names an address that has an entry with a   *)
(* name that nothing has.  The entry has its new name already when its      *)
(* name is erased from the map, so the old one still leads to the address.  *)
ErasesOldName(d, a, n) ==
  IF a \notin d.known \/ n = NoName \/ n \in DOMAIN d.named THEN d
  ELSE [d EXCEPT !.label[a] = n, !.named = Bind(Unbind(@, d.label[a]), n, a)]

UpdateLabel(d, a, n) ==
  IF a \notin d.known \/ n = NoName \/ n \in DOMAIN d.named THEN d
  ELSE [d EXCEPT !.label[a] = n, !.named = Bind(Unbind(@, n), n, a)]

(* What updateLabel returns. *)
AnswersAnyway(d, a, n) == a \in d.known /\ n # NoName

Renames(d, a, n) ==
  a \in d.known /\ n # NoName /\ (n \in DOMAIN d.named => d.named[n] = a)

UpdateFlags(d, a, f) ==
  IF a \in d.known THEN [d EXCEPT !.flags[a] = @ \cup {f}] ELSE d

SetTypeField(d, a, n) ==
  [d EXCEPT !.known = @ \cup {a}, !.label[a] = n, !.field = @ \cup {a},
            !.flags[a] = @ \cup {"TypeField"}]

SetType(d, a, n) ==
  [d EXCEPT !.known = @ \cup {a}, !.label[a] = n, !.named = Bind(@, n, a),
            !.flags[a] = @ \cup {"Type"}]

(* addComment and setComments; a new entry has no name. *)
Touch(d, a) == [d EXCEPT !.known = @ \cup {a}]

(* getAddress *)
GetAddress(d, n) == IF Demangle(n) \in DOMAIN d.named THEN d.named[Demangle(n)] ELSE 0
-----------------------------------------------------------------------------
(* The setters of the Document; w is the context's weak flag. *)
SetLocation(d, w, a, n, F) == SetLabel(d, w, a, Given(n, MakeLabel("loc", a)), F)

SetFunction(d, w, a, n) == SetLocation(d, w, a, Given(n, MakeLabel("sub", a)), {"Function"})

SetData(d, w, a, n) ==
  IF a \in Mapped THEN SetLabel(d, w, a, Given(n, MakeLabel("data", a)), {"Location"}) ELSE d

SetPointer(d, w, a, n) == UpdateFlags(SetData(d, w, a, Given(n, MakeLabel("ptr", a))), a, "Pointer")

(* The name given to a wide string is lost. *)
SetString(d, w, a, n, kind) ==
  IF a \notin Mapped THEN d
  ELSE IF kind = "wide"
  THEN SetLabel(d, w, a, IF n = NoName THEN MakeLabel("wstr", a) ELSE NoName, {"Wide"})
  ELSE SetLabel(d, w, a, Given(n, MakeLabel("str", a)), {"Ascii"})

(* checkLocation; an address with an entry is only referred to. *)
CheckLocation(d, w, a) ==
  IF a \notin Mapped \/ a \in d.known THEN d
  ELSE CASE Looks[a] \in {"ascii", "wide"} -> SetString(d, w, a, NoName, Looks[a])
         [] Looks[a] = "code" -> SetLocation(d, w, a, NoName, {"Location"})
         [] OTHER -> SetData(d, w, a, NoName)

(* setEntry keeps the name of a symbol. *)
IgnoresLabel(d, a) == EntryName

EntryLabel(d, a) == IF a \in d.known THEN d.label[a] ELSE EntryName

SetEntry(d, w, a) ==
  LET n == EntryLabel(d, a)
  IN  SetFunction(SetLocation(d, w, a, n, {"Function", "Exported"}), w, a, n)
-----------------------------------------------------------------------------
Called == visit = <<>> /\ calls < MaxCalls /\ calls' = calls + 1 /\ visit' = visit

(* What the decoder, the analyzers and the user may ask for. *)
NameOrNone == Chosen \cup {NoName}

LabelCall ==
  /\ Called /\ UNCHANGED <<functions, entry>>
  /\ \E w \in BOOLEAN, a \in Addrs, n \in NameOrNone :
       \/ \E F \in FlagSets : db' = SetLocation(db, w, a, n, F)
       \/ db' = SetLocation(db, w, a, MakeLabel("inf_loop", a), {"Location"})
       \/ db' = SetData(db, w, a, MakeLabel("loc", a))
       \/ db' = SetPointer(db, w, a, n)
       \/ db' = SetData(db, w, a, n)
       \/ \E kind \in {"ascii", "wide"} : db' = SetString(db, w, a, NoName, kind)

FunctionCall ==
  /\ Called /\ UNCHANGED entry
  /\ \E w \in BOOLEAN, a \in Addrs, n \in NameOrNone :
       /\ functions' = functions \cup {a}
       /\ db' = SetFunction(db, w, a, n)

RenameCall(a, n) ==
  /\ Called /\ UNCHANGED <<functions, entry>>
  /\ db' = UpdateLabel(db, a, n)

CommentCall ==
  /\ Called /\ UNCHANGED <<functions, entry>>
  /\ \E a \in Addrs : db' = Touch(db, a)

(* What loaders ask for; nothing is decoded then. *)
EntryCall(a) ==
  /\ Called
  /\ functions' = functions \cup {a} /\ entry' = a
  /\ db' = SetEntry(db, FALSE, a)

ExportCall ==
  /\ Called /\ UNCHANGED entry
  /\ \E a \in Addrs, n \in NameOrNone :
       \/ /\ functions' = functions \cup {a}
          /\ db' = SetFunction(SetLocation(db, FALSE, a, n, {"Function", "Exported"}), FALSE, a, n)
       \/ /\ UNCHANGED functions
          /\ \E f \in {"Exported", "Imported"} :
               db' = SetLocation(SetData(db, FALSE, a, n), FALSE, a, n, {f})
-----------------------------------------------------------------------------
(* setTypeFields: a call for type t at address at; pos is the address of    *)
(* its member i, whose own call is made next or, with done, has returned.   *)
Frame(t, a, level) ==
  [type |-> t, at |-> a, level |-> level, i |-> 1, pos |-> a, done |-> FALSE]

TypeCall ==
  /\ visit = <<>> /\ calls < MaxCalls /\ calls' = calls + 1
  /\ \E t \in Types, a \in Addrs : visit' = <<Frame(t, a, 0)>>
  /\ UNCHANGED <<db, functions, entry>>

Top == visit[1]
Returned == Tail(visit)

(* The caller of the innermost call goes on behind it. *)
Resume(S) == IF S = <<>> THEN S ELSE [S EXCEPT ![1].done = TRUE]

Leaf(kinds) ==
  /\ visit # <<>> /\ Top.type.kind \in kinds
  /\ visit' = Resume(Returned) /\ UNCHANGED <<functions, entry, calls>>

NumericLeaf ==
  /\ Leaf({"numeric"})
  /\ db' = IF Top.at \in Mapped THEN SetTypeField(db, Top.at, MakeLabel(Top.type.base, Top.at)) ELSE db

(* A copy of a wide string's type says it is a structure, and is refused.   *)
StringLeaf ==
  /\ Leaf({"ascii", "wide"})
  /\ \E w \in BOOLEAN :
       db' = IF Top.at \in Mapped /\ Top.type.kind = "ascii"
             THEN SetTypeField(SetString(db, w, Top.at, Top.type.name, "ascii"),
                               Top.at, MakeLabel(Top.type.base, Top.at))
             ELSE db

Compound(kind) ==
  visit # <<>> /\ Top.type.kind = kind /\ UNCHANGED <<functions, entry, calls>>

HasMember == Top.i <= Len(Top.type.members)
TopMember == Top.type.members[Top.i]

(* The items of an array are typed as if each stood alone.                  *)
MemberLevel == IF Top.type.kind = "array" THEN 0 ELSE Top.level + 1

Visit ==
  /\ \E kind \in {"structure", "array"} : Compound(kind)
  /\ HasMember /\ ~Top.done
  /\ visit' = <<Frame(TopMember.type, Top.pos, MemberLevel)>> \o visit
  /\ UNCHANGED db

NextMember == <<[Top EXCEPT !.i = @ + 1, !.pos = @ + TopMember.size, !.done = FALSE]>> \o Returned

AtLastMember(d) ==
  IF Top.level = 0 /\ Top.i = Len(Top.type.members)
  THEN UpdateFlags(d, Top.pos, "TypeEnd") ELSE d

(* A field as wide as a pointer that can be read as one is followed; any    *)
(* other field is referred to, which labels it if its own call did not.     *)
FieldDone ==
  /\ Compound("structure") /\ HasMember /\ Top.done
  /\ visit' = NextMember
  /\ \E w \in BOOLEAN :
       db' = AtLastMember(
         IF TopMember.wide /\ Top.pos \in Mapped /\ Leads[Top.pos] # 0
         THEN IF Leads[Top.pos] = Top.pos THEN db ELSE CheckLocation(db, w, Leads[Top.pos])
         ELSE IF Top.pos = Top.at THEN db ELSE CheckLocation(db, w, Top.pos))

ItemDone ==
  /\ Compound("array") /\ HasMember /\ Top.done
  /\ visit' = NextMember
  /\ db' = AtLastMember(UpdateLabel(db, Top.pos, MakeLabel(TopMember.item, Top.pos)))

TypeName ==
  IF Top.type.kind = "structure" /\ Top.level > 0 THEN Top.type.name
  ELSE MakeLabel(Top.type.base, Top.at)

TypeDone ==
  /\ \E kind \in {"structure", "array"} : Compound(kind)
  /\ ~HasMember
  /\ visit' = Resume(Returned)
  /\ db' = IF Top.at \in Addrs THEN SetType(db, Top.at, TypeName) ELSE db
-----------------------------------------------------------------------------
NoLabels ==
  [known |-> {}, weak |-> [a \in Addrs |-> TRUE], label |-> [a \in Addrs |-> NoName],
   flags |-> [a \in Addrs |-> {}], field |-> {}, named |-> [n \in {} |-> 0],
   index |-> [f \in IndexKeys |-> {}]]

Init == db = NoLabels /\ functions = {} /\ entry = 0 /\ visit = <<>> /\ calls = 0

TypeStep == NumericLeaf \/ StringLeaf \/ Visit \/ FieldDone \/ ItemDone \/ TypeDone

Next ==
  \/ LabelCall \/ FunctionCall \/ CommentCall \/ ExportCall \/ TypeCall \/ TypeStep
  \/ \E a \in Addrs : EntryCall(a)
  \/ \E a \in Addrs, n \in Chosen : RenameCall(a, n)

Spec == Init /\ [][Next]_vars
-----------------------------------------------------------------------------
Frames == [type : Types, at : Nat, level : Nat, i : Nat \ {0}, pos : Nat, done : BOOLEAN]

Databases ==
  [known : SUBSET Addrs, weak : [Addrs -> BOOLEAN], label : [Addrs -> Names],
   flags : [Addrs -> SUBSET Flags], field : SUBSET Addrs,
   named : UNION {[N -> Addrs] : N \in SUBSET Names},
   index : [IndexKeys -> SUBSET Addrs]]

IsNamed(f) == /\ DOMAIN f \subseteq Names
              /\ \A n \in DOMAIN f : f[n] \in Addrs

(* Type invariant.  db is a record of Databases, said field by field        *)
(* because the domain of named is not constant.  Only addresses with an     *)
(* entry have a name, flags or a fact.                                      *)
TypeOK ==
  /\ DOMAIN db = {"known", "weak", "label", "flags", "field", "named", "index"}
  /\ db.known \in SUBSET Addrs /\ db.field \subseteq db.known
  /\ db.weak \in [Addrs -> BOOLEAN] /\ db.label \in [Addrs -> Names]
  /\ db.flags \in [Addrs -> SUBSET Flags] /\ db.index \in [IndexKeys -> SUBSET Addrs]
  /\ IsNamed(db.named)
  /\ \A a \in Addrs \ db.known : db.weak[a] /\ db.label[a] = NoName /\ db.flags[a] = {}
  /\ functions \subseteq Addrs /\ entry \in Addrs \cup {0}
  /\ visit \in Seq(Frames) /\ calls \in 0 .. MaxCalls

(* Every name shown at an address is in the map from names to addresses, so *)
(* that findLabel finds it, unless the address became the field of a type.  *)
(* Names are shared: loaders give one name to several addresses, thunks     *)
(* take the name of their target; a rename must not unname the others.      *)
EveryNameFound ==
  \A a \in Addrs :
    db.label[a] # NoName /\ a \notin db.field => db.label[a] \in DOMAIN db.named

(* An address is found by a flag that setLabel sets exactly if its entry    *)
(* has the flag, however guesses and facts follow each other, and as a      *)
(* string exactly if it is one of either kind; Disassembler::disassemble    *)
(* starts from the index of exported addresses, and the listing shows the   *)
(* entries.  The flags of OtherFlags are set in the entries alone           *)
(* (updateFlags, setType, setTypeField): the index never has them.          *)
IndexAgrees ==
  /\ \A a \in Addrs, f \in IndexFlags : a \in db.index[f] <=> f \in db.flags[a]
  /\ \A a \in Addrs : a \in db.index["String"] <=> db.flags[a] \cap {"Ascii", "Wide"} # {}

(* updateLabel returns TRUE only when findLabel finds the address by the    *)
(* name; a name that nothing had is then shown at the address and at no     *)
(* other, but for fields of types.  getAddress finds the address by the     *)
(* name too, unless the name is mangled: getAddress demangles what it looks *)
(* for, updateLabel keeps the name as it is.                                *)
RenameIsUnique ==
  [][\A a \in Addrs, n \in Chosen :
       RenameCall(a, n) /\ Renames(db, a, n) =>
         /\ n \in DOMAIN db'.named /\ db'.named[n] = a
         /\ n \notin DOMAIN Mangled => GetAddress(db', n) = a
         /\ n \notin DOMAIN db.named =>
              /\ db'.label[a] = n
              /\ \A b \in Addrs \ db.field : db'.label[b] = n => b = a]_vars

(* The entry point is found: it is a function of the Document, is indexed   *)
(* as exported, from where the disassembly starts, and keeps the name of a  *)
(* symbol ("Don't override symbol name, if exists", document.cpp:128).      *)
EntryKeepsName ==
  [][\A a \in Addrs :
       EntryCall(a) =>
         /\ a \in functions' \cap db'.index["Function"] \cap db'.index["Exported"]
         /\ ~db'.weak[a] /\ db'.label[a] # NoName
         /\ db.label[a] # NoName => db'.label[a] = Demangle(db.label[a])]_vars
=============================================================================
