---------------------------- MODULE MCAlgorithm ----------------------------
(* Instances of Algorithm: every program on a few bytes made of a menu of   *)
(* instructions.                                                            *)
EXTENDS Algorithm

Plain(n, results) == [size |-> n, invalid |-> FALSE, slots |-> 0, results |-> results]

Result(k, t) == [kind |-> k, to |-> t, size |-> 1]

Nothing == Plain(0, <<>>)
Skip(n) == Plain(n, <<>>)
Ret == Plain(1, <<Result("Return", 0)>>)
Jump(t) == Plain(1, <<Result("Branch", t)>>)
DelayedJump(t) == [Jump(t) EXCEPT !.slots = 1]
If(t, f) == Plain(1, <<Result("BranchTrue", t), Result("BranchFalse", f)>>)
CallTo(t) == Plain(1, <<Result("Call", t)>>)
Refer(k, t) == Plain(1, <<Result(k, t)>>)
Bad == [Skip(1) EXCEPT !.invalid = TRUE]

Menu(a) ==
  {Nothing, Skip(1), Skip(2), Ret, Bad, DelayedJump(a), [Ret EXCEPT !.slots = 2],
   [CallTo(Limit - 1) EXCEPT !.slots = 1]}
  \cup UNION {{Jump(t), If(t, a + 1), CallTo(t)} : t \in Addrs}
  \cup {Refer(k, t) : k \in {"Ref", "RefData", "RefString"}, t \in {Base, Limit - 1}}

AllPrograms ==
  {p \in [Addrs -> UNION {Menu(a) : a \in Addrs}] : \A a \in Addrs : p[a] \in Menu(a)}

(* Addresses that are accepted again after they were decoded: what gets a   *)
(* weak label, and what decoding leaves unknown.                            *)
Targets(p, kinds) ==
  {p[a].results[i].to : <<a, i>> \in {<<b, j>> \in Addrs \X (1 .. 2) :
      j \in DOMAIN p[b].results /\ p[b].results[j].kind \in kinds}}

Again(p) ==
  {a \in Addrs : p[a].invalid} \cup
  (Addrs \cap Targets(p, {"Branch", "BranchTrue", "Call", "Ref"}))

LeadsTo(p, a, t) ==
  \/ \E i \in DOMAIN p[a].results :
        /\ p[a].results[i].to = t
        /\ p[a].results[i].kind \in {"Branch", "BranchTrue", "BranchFalse", "Call"}
        /\ p[a].results[i].kind \in {"Branch", "BranchTrue"} => t # a
  \/ (CanFlow(p[a]) \/ p[a].slots > 0) /\ t = a + p[a].size

(* Programs with a cycle of such addresses, in which each leads to the next. *)
Spins(p) == \E C \in SUBSET Again(p) \ {{}} :
              \A a \in C : \E t \in C : LeadsTo(p, a, t)

Settling == {p \in AllPrograms : ~Spins(p)}

(* Branches, a delay slot, overlapping instructions and references without  *)
(* a cycle, for the runs with other threads: a label they set may be what   *)
(* lets a cycle spin.                                                       *)
Samples == {
  <<If(3, 2), Ret, Skip(1)>>,
  <<Skip(2), CallTo(3), Ret>>,
  <<DelayedJump(3), Skip(1), Ret>>,
  <<CallTo(3), Refer("RefString", 3), Refer("RefData", 2)>> }

(* The entry leads to two jumps to each other.                             *)
JumpPair == {<<Jump(2), Jump(3), Jump(2)>>}

(* A call with a delay slot, for a sweep of the block.                      *)
DelayedCall == {<<[CallTo(5) EXCEPT !.slots = 1], Skip(1), Skip(2), Ret>>}
=============================================================================
