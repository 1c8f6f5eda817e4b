------------------------------- MODULE Session -------------------------------
(***************************************************************************)
(* From a plugin's file to an analyzer that runs: contexts                  *)
(* (rdcore/context.cpp) with their plugin managers and the modules these    *)
(* load (rdcore/plugin/interface), which share the process's libraries.     *)
(*                                                                         *)
(* A context is made with all plugins, asks its loaders for proposals, is   *)
(* bound to a loader and an assembler, lets analyzers be selected and runs  *)
(* them, and is freed.  What plugins answer is open: a loader's verdict, a  *)
(* command's or an analyzer's isenabled, the success of load.  An entry's   *)
(* id is a string that any two plugins may share.                           *)
(*                                                                         *)
(* ErasedEach, StillListed, AnyProposal and CountsAnew are faulty variants  *)
(* of the operator that follows each of them; nothing uses them here.       *)
(***************************************************************************)
EXTENDS Integers, Sequences, SequencesExt, FiniteSetsExt

CONSTANTS
  Contexts,
  Listings,   (* orders in which the plugin paths may list their files     *)
  Library,    (* the shared library of each, one for two paths to it       *)
  Entries,    (* what rdplugin_init of a library registers, in order       *)
  Bare,       (* libraries without rdplugin_init                           *)
  Builtins,   (* the entries of builtin.cpp, in order                      *)
  Verdicts,   (* what loaders may answer: an assembler, Undecided, Rejects *)
  Asked,      (* ids that addresses are given as their assembler           *)
  Order, Once, Preselected, (* of analyzers: order, RunOnce, Selected      *)
  MaxCalls    (* calls to all contexts together                            *)

Libraries == DOMAIN Entries
Builtin == "builtin"

Categories == {"Loader", "Assembler", "Analyzer", "Command"}
IdsOf(E) == {e.id : e \in E}
Ids == IdsOf(Range(Builtins)) \cup UNION {IdsOf(Range(Entries[l])) : l \in Libraries}
Registers == Seq([category : Categories, id : Ids])

ASSUME SessionAssumption ==
  /\ IsFiniteSet(Contexts) /\ Contexts # {} /\ MaxCalls \in Nat
  /\ Library \in [DOMAIN Library -> Libraries] /\ Listings \subseteq Seq(DOMAIN Library)
  /\ Bare \subseteq Libraries /\ Builtin \notin Libraries
  /\ Builtins \in Registers /\ Entries \in [Libraries -> Registers]
  /\ Order \in [DOMAIN Order -> Int]
  /\ \A E \in {Builtins} \cup {Entries[l] : l \in Libraries} : \A i \in DOMAIN E :
       E[i].category = "Analyzer" => E[i].id \in DOMAIN Order

Undecided == "undecided"
Rejects == "rejects"

VARIABLES
  shared,   (* PluginModule::m_sharedhandles                               *)
  opened,   (* dlopen less dlclose of each library                         *)
  manager,  (* the plugin manager of each context                          *)
  session,  (* the rest of a context                                       *)
  calls

sessionVars == <<shared, opened, manager, session, calls>>
-----------------------------------------------------------------------------
(* PluginModule.  A module is one load of a library; it ends when no id of  *)
(* m_modules leads to it.                                                   *)
Loaded(s, l) == [s EXCEPT !.shared[l] = @ + 1, !.opened[l] = @ + 1]

Unloaded(s, l) ==
  [s EXCEPT !.shared[l] = @ - 1, !.opened[l] = IF s.shared[l] = 1 THEN @ - 1 ELSE @]

(* PluginManager: of a module's entries those with a new id.                *)
New(m, registers) ==
  {registers[i] : i \in {j \in DOMAIN registers :
     /\ registers[j].id \notin DOMAIN m.owner
     /\ \A k \in 1 .. j - 1 : registers[k].id # registers[j].id}}

Over(f, g) == [i \in DOMAIN f \cup DOMAIN g |-> IF i \in DOMAIN f THEN f[i] ELSE g[i]]

Registered(m, l, E) ==
  [m EXCEPT !.entries = @ \cup
              {[category |-> e.category, id |-> e.id, lib |-> l] : e \in E},
            !.owner = Over([i \in IdsOf(E) |-> [lib |-> l, load |-> m.loads]], @),
            !.loads = @ + 1]

(* A module none of whose entries is new ends with load.                    *)
LoadFile(s, file) ==
  LET l == Library[file]
      E == New(s.manager, Entries[l])
      m == Registered(s.manager, l, E)
  IN  IF l \in Bare \/ E = {} THEN Unloaded(Loaded(s, l), l)
      ELSE [Loaded(s, l) EXCEPT
              !.manager = [m EXCEPT !.files = Over(@, [i \in IdsOf(E) |-> file])]]

None == [i \in {} |-> i]
NoPlugins == [entries |-> {}, owner |-> None, files |-> None, loads |-> 0]

LoadAll(files) ==
  LET loaded[n \in 0 .. Len(files)] ==
        IF n = 0 THEN [shared |-> shared, opened |-> opened, manager |-> NoPlugins]
        ELSE LoadFile(loaded[n - 1], files[n])
  IN  loaded[Len(files)]

WithBuiltins(s) ==
  [s EXCEPT !.manager = Registered(@, Builtin, New(@, Builtins))]

(* m_modules.erase                                                          *)
ErasedEach(s, id) ==
  LET o == s.manager.owner[id]
      t == [s EXCEPT !.manager.owner =
              [i \in DOMAIN s.manager.owner \ {id} |-> s.manager.owner[i]]]
  IN  IF o.lib = Builtin THEN t ELSE Unloaded(t, o.lib)

Erased(s, id) ==
  LET o == s.manager.owner[id]
      owner == [i \in DOMAIN s.manager.owner \ {id} |-> s.manager.owner[i]]
      t == [s EXCEPT !.manager.owner = owner]
  IN  IF o.lib = Builtin \/ \E i \in DOMAIN owner : owner[i] = o THEN t ELSE Unloaded(t, o.lib)

(* The ids in any order. *)
ErasedAll(s, ids) ==
  LET erased[n \in 0 .. Cardinality(ids)] ==
        IF n = 0 THEN s
        ELSE LET t == erased[n - 1]
                 rest == ids \cap DOMAIN t.manager.owner
             IN  IF rest = {} THEN t ELSE Erased(t, CHOOSE i \in rest : TRUE)
  IN  erased[Cardinality(ids)]

Of(m, category) == {e \in m.entries : e.category = category}
Find(m, category, id) == {e \in Of(m, category) : e.id = id}

(* checkCommands                                                            *)
StillListed(s, disabled) == ErasedAll(s, IdsOf(disabled))

Checked(s, disabled) ==
  [ErasedAll(s, IdsOf(disabled)) EXCEPT !.manager.entries = @ \ disabled]
-----------------------------------------------------------------------------
(* Context: the analyzers are kept in order (SortedContainer), and are told *)
(* apart only where lower_bound finds an analyzer.                          *)
Lower(s, a) == CHOOSE i \in 1 .. Len(s) + 1 :
  /\ \A j \in 1 .. i - 1 : Order[s[j]] < Order[a]
  /\ i \in DOMAIN s => Order[s[i]] >= Order[a]

Upper(s, a) == CHOOSE i \in 1 .. Len(s) + 1 :
  /\ \A j \in 1 .. i - 1 : Order[s[j]] <= Order[a]
  /\ i \in DOMAIN s => Order[s[i]] > Order[a]

Found(s, a) == Lower(s, a) \in DOMAIN s /\ s[Lower(s, a)] = a
Inserted(s, a) == IF Found(s, a) THEN s ELSE InsertAt(s, Upper(s, a), a)

(* loadAnalyzers, from those in the order of the lists                      *)
SelectedFrom(order) ==
  LET selected[n \in 0 .. Len(order)] ==
        IF n = 0 THEN <<>> ELSE Inserted(selected[n - 1], order[n])
  IN  selected[Len(order)]

Removed(s, a) == IF Found(s, a) THEN RemoveAt(s, Lower(s, a)) ELSE s

(* Engine: how often each position has run, 0 or more.  Positions the       *)
(* engine was not made for have no count; what is read there is open.       *)
CountsAnew(x) == [i \in DOMAIN x.selected |-> 0]

Counts(x) == IF x.engine THEN x.counts ELSE [i \in DOMAIN x.selected |-> 0]

Runs(x, unknown) ==
  {i \in DOMAIN x.selected :
     x.selected[i] \in Once =>
       IF i \in DOMAIN Counts(x) THEN Counts(x)[i] = 0 ELSE i \in unknown}

Ran(x, unknown) ==
  LET runs == Runs(x, unknown)
      pass == {x.selected[i] : i \in runs}
  IN  [x EXCEPT !.engine = TRUE,
                !.counts = [i \in DOMAIN Counts(x) |-> IF i \in runs THEN 1 ELSE Counts(x)[i]],
                !.again = @ \cup (x.ran \cap pass), !.ran = @ \cup pass]
-----------------------------------------------------------------------------
Dead == [alive |-> FALSE]

Fresh == [
  alive |-> TRUE, proposals |-> None, bound |-> <<>>, commands |-> {}, assemblers |-> {},
  disabled |-> {}, analyzers |-> {}, selected |-> <<>>, engine |-> FALSE, counts |-> <<>>,
  (* for the properties: who should be selected, whether that has changed   *)
  (* since the engine was made, who has run, and who in more than one pass  *)
  wanted |-> {}, changed |-> FALSE, ran |-> {}, again |-> {}]

CallTo(c) == session[c].alive /\ calls < MaxCalls /\ calls' = calls + 1
Alone(c, x) == session' = [session EXCEPT ![c] = x] /\ UNCHANGED <<shared, opened, manager>>
State(c) == [shared |-> shared, opened |-> opened, manager |-> manager[c]]
Set(c, s) ==
  /\ shared' = s.shared /\ opened' = s.opened
  /\ manager' = [manager EXCEPT ![c] = s.manager]

Create(c) ==
  /\ ~session[c].alive /\ calls < MaxCalls /\ calls' = calls + 1
  /\ \E files \in Listings : Set(c, WithBuiltins(LoadAll(files)))
  /\ session' = [session EXCEPT ![c] = Fresh]

Free(c) ==
  /\ CallTo(c)
  /\ Set(c, [ErasedAll(State(c), DOMAIN manager[c].owner) EXCEPT !.manager = NoPlugins])
  /\ session' = [session EXCEPT ![c] = Dead]

AnyProposal(m, v) == v # Rejects

Proposes(m, v) == v # Rejects /\ (v # Undecided => Find(m, "Assembler", v) # {})

FindLoaderEntries(c) ==
  /\ CallTo(c)
  /\ \E verdict \in [IdsOf(Of(manager[c], "Loader")) ->
                     UNION {Verdicts[i] : i \in DOMAIN Verdicts}] :
       /\ \A i \in DOMAIN verdict : verdict[i] \in Verdicts[i]
       /\ Alone(c, [session[c] EXCEPT !.proposals =
            [i \in {j \in DOMAIN verdict : Proposes(manager[c], verdict[j])} |-> verdict[i]]])

(* The assembler is one the caller names, or what the loader proposed.  A   *)
(* bind whose load fails says so, but the context stays bound.  Analyzers   *)
(* of one order are selected in the order of the plugins' lists: any order. *)
BindTo(c, loader, assembler, disabled) ==
  LET s == Checked(State(c), disabled)
      x == [session[c] EXCEPT !.bound = <<loader, assembler>>,
                              !.commands = Of(s.manager, "Command")]
      candidates == {a.id : a \in Of(s.manager, "Analyzer")} \ x.disabled
  IN  /\ Set(c, s)
      /\ \/ session' = [session EXCEPT ![c] = x]                (* load failed *)
         \/ \E enabled \in SUBSET candidates :
            \E order \in SetToSeqs(enabled \cap Preselected) :
              session' = [session EXCEPT ![c] =
                [x EXCEPT !.analyzers = enabled, !.wanted = enabled \cap Preselected,
                          !.selected = SelectedFrom(order)]]

Bind(c) ==
  /\ CallTo(c) /\ session[c].bound = <<>>
  /\ \E loader \in Of(manager[c], "Loader"), assembler \in Of(manager[c], "Assembler"),
        disabled \in SUBSET Of(manager[c], "Command") : BindTo(c, loader, assembler, disabled)

(* A file is loaded again for an id that is no assembler's.                 *)
WithAssembler(s, id) ==
  IF Find(s.manager, "Assembler", id) = {} /\ id \in DOMAIN s.manager.files
  THEN LoadFile(s, s.manager.files[id]) ELSE s

GetAssembler(c, id) ==
  /\ CallTo(c) /\ session[c].bound # <<>>
  /\ session[c].bound[2].id # id /\ id \notin IdsOf(session[c].assemblers)
  /\ LET s == WithAssembler(State(c), id)
     IN  /\ Set(c, s)
         /\ session' = [session EXCEPT ![c].assemblers = @ \cup Find(s.manager, "Assembler", id)]

DisableAnalyzer(c, id) ==
  CallTo(c) /\ Alone(c, [session[c] EXCEPT !.disabled = @ \cup {id}])

SelectAnalyzer(c, a, select) ==
  LET x == session[c]
  IN  /\ CallTo(c) /\ a \in x.analyzers
      /\ Alone(c, [x EXCEPT
           !.selected = IF select THEN Inserted(@, a) ELSE Removed(@, a),
           !.wanted = IF select THEN @ \cup {a} ELSE @ \ {a},
           !.changed = @ \/ x.engine])

(* The first call makes the engine, and without segments does no more.  A   *)
(* pass over the analyzers is one call here, and more passes more calls.    *)
Disassemble(c) ==
  LET x == session[c]
  IN  /\ CallTo(c) /\ x.bound # <<>>
      /\ \/ ~x.engine /\ Alone(c, [x EXCEPT !.engine = TRUE, !.counts = Counts(x)])
         \/ \E unknown \in SUBSET DOMAIN x.selected : Alone(c, Ran(x, unknown))

SessionInit ==
  /\ shared = [l \in Libraries |-> 0] /\ opened = [l \in Libraries |-> 0]
  /\ manager = [c \in Contexts |-> NoPlugins] /\ session = [c \in Contexts |-> Dead]
  /\ calls = 0

SessionNext == \E c \in Contexts :
  \/ Create(c) \/ Free(c) \/ FindLoaderEntries(c) \/ Bind(c) \/ Disassemble(c)
  \/ \E id \in Asked : GetAssembler(c, id)
  \/ \E a \in DOMAIN Order : DisableAnalyzer(c, a)
  \/ \E a \in DOMAIN Order, select \in BOOLEAN : SelectAnalyzer(c, a, select)

SessionSpec == SessionInit /\ [][SessionNext]_sessionVars
-----------------------------------------------------------------------------
ModulesOf(c) == {<<c, m>> : m \in {o \in Range(manager[c].owner) : o.lib # Builtin}}
Modules == UNION {ModulesOf(c) : c \in Contexts}

(* The process counts its loads of a library: "keep library loaded if       *)
(* needed" (pluginmodule.cpp).  Duplicates, links, disabled commands and    *)
(* contexts that come and go leave the count true, and a library with a     *)
(* module is mapped.                                                        *)
LibrariesCounted == \A l \in Libraries :
  /\ shared[l] = Cardinality({m \in Modules : m[2].lib = l})
  /\ shared[l] > 0 => opened[l] > 0

(* Whatever a context may call, in its lists, bound or cached, belongs to   *)
(* the one module that its id leads to, which is not unloaded: entries are  *)
(* pointers into the library.                                               *)
Callable(c) ==
  LET x == session[c]
  IN  manager[c].entries \cup x.commands \cup x.assemblers
      \cup (IF x.bound = <<>> THEN {} ELSE {x.bound[1], x.bound[2]})

EntriesCallable == \A c \in Contexts : session[c].alive =>
  /\ \A e \in Callable(c) :
       e.id \in DOMAIN manager[c].owner /\ manager[c].owner[e.id].lib = e.lib
  /\ Cardinality(IdsOf(Callable(c))) = Cardinality(Callable(c))

(* A loader that is offered, and has proposed an assembler, can be bound to *)
(* without naming one (tests/main.cpp does): the assembler is there,        *)
(* whatever was loaded, checked or dropped since.                           *)
OffersBind == \A c \in Contexts : session[c].alive =>
  \A i \in DOMAIN session[c].proposals :
    /\ Find(manager[c], "Loader", i) # {}
    /\ session[c].proposals[i] # Undecided =>
         Find(manager[c], "Assembler", session[c].proposals[i]) # {}

(* Analyzers run in order; who has an order of its own runs as was wanted   *)
(* last; and unless the selection changes after the engine was made, who    *)
(* is to run once never runs again, however often passes and disassemble()  *)
(* are repeated (whether it runs at all is not said).                       *)
AnalyzersAsWanted == \A c \in Contexts : session[c].alive =>
  LET x == session[c]
  IN  /\ \A i, j \in DOMAIN x.selected : i < j => Order[x.selected[i]] <= Order[x.selected[j]]
      /\ \A a \in x.analyzers :
           (\A b \in x.analyzers \ {a} : Order[b] # Order[a]) =>
             (a \in Range(x.selected) <=> a \in x.wanted)
      /\ ~x.changed => x.again \cap Once = {}
=============================================================================
