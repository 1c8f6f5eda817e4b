------------------------------- MODULE NetOps -------------------------------
(***************************************************************************)
(* DocumentNet (rdcore/document/documentnet.cpp): the links between        *)
(* instructions.  A net is a record of functions on addresses:             *)
(*   next     the instruction that follows, or NoNext (RD_NVAL)            *)
(*   prev     those that are followed by this one                          *)
(*   jumps    where it branches to, when taken (branchestrue)              *)
(*   skips    where it goes on when the branch is not taken                *)
(*            (branchesfalse)                                              *)
(*   calls    what it calls                                                *)
(*   from     those that branch to this one or call it                     *)
(*   refs     those that refer to this one (m_refs)                        *)
(* The types of branches and references are left out.                      *)
(*                                                                         *)
(* LinkNextOneWay, LinkSkipOneWay and UnlinkPrevsOne are faulty variants   *)
(* of the operator that follows each of them; nothing uses them here.      *)
(***************************************************************************)
EXTENDS Integers

NoNext == -1

EmptyNet(A) ==
  [next |-> [a \in A |-> NoNext], prev |-> [a \in A |-> {}],
   jumps |-> [a \in A |-> {}], skips |-> [a \in A |-> {}],
   calls |-> [a \in A |-> {}], from |-> [a \in A |-> {}],
   refs |-> [a \in A |-> {}]]

NetType(A) ==
  [next : [A -> A \cup {NoNext}], prev : [A -> SUBSET A],
   jumps : [A -> SUBSET A], skips : [A -> SUBSET A],
   calls : [A -> SUBSET A], from : [A -> SUBSET A], refs : [A -> SUBSET A]]

LinkNextOneWay(n, a, b) == [n EXCEPT !.next[a] = b]

LinkNext(n, a, b) == [n EXCEPT !.next[a] = b, !.prev[b] = @ \cup {a}]

LinkJump(n, a, b) ==
  [n EXCEPT !.jumps[a] = @ \cup {b}, !.from[b] = @ \cup {a}, !.refs[b] = @ \cup {a}]

LinkSkipOneWay(n, a, b) == [n EXCEPT !.skips[a] = @ \cup {b}]

LinkSkip(n, a, b) == [n EXCEPT !.skips[a] = @ \cup {b}, !.from[b] = @ \cup {a}]

LinkCall(n, a, b) ==
  [n EXCEPT !.calls[a] = @ \cup {b}, !.from[b] = @ \cup {a}, !.refs[b] = @ \cup {a}]

AddRef(n, a, b) == [n EXCEPT !.refs[b] = @ \cup {a}]

(* unlinkPrev of each address in F: an instruction that goes on to it goes  *)
(* on to none; those of prev that go on elsewhere by now stay in prev.      *)
GoesOnTo(n, p, a) == p \in n.prev[a] /\ n.next[p] = a

UnlinkPrevsOne(n, F) ==
  LET one(f) == CHOOSE p \in DOMAIN n.next : GoesOnTo(n, p, f)
      hit == {p \in DOMAIN n.next : \E f \in F : GoesOnTo(n, p, f) /\ p = one(f)}
  IN  [n EXCEPT !.next = [p \in DOMAIN @ |-> IF p \in hit THEN NoNext ELSE @[p]],
                !.prev = [a \in DOMAIN @ |-> IF a \in F THEN @[a] \ hit ELSE @[a]]]

UnlinkPrevs(n, F) ==
  [n EXCEPT
     !.next = [p \in DOMAIN @ |-> IF \E f \in F : GoesOnTo(n, p, f) THEN NoNext ELSE @[p]],
     !.prev = [a \in DOMAIN @ |->
                 IF a \in F THEN {p \in @[a] : ~GoesOnTo(n, p, a)} ELSE @[a]]]
=============================================================================
