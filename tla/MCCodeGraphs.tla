---------------------------- MODULE MCCodeGraphs ----------------------------
(* Instances of CodeGraphs: every program on three bytes over a menu of     *)
(* instructions, and larger ones in which loops, switches and functions     *)
(* meet.                                                                    *)
EXTENDS CodeGraphs

Size == 8

I(n, flows, jumps, skips) ==
  [size |-> n, flows |-> flows, jumps |-> jumps, skips |-> skips, calls |-> {}]

Skip(n) == I(n, TRUE, {}, {})
Ret == I(1, FALSE, {}, {})
Jump(T) == I(1, FALSE, T, {})
If(t, f) == I(1, FALSE, {t}, {f})
DelayedJump(t) == I(1, TRUE, {t}, {})
CallTo(t) == [Skip(1) EXCEPT !.calls = {t}]

Small == 1 .. 3
Menu(a) ==
  {Nothing, Skip(1), Skip(2), Ret}
  \cup UNION {{Jump({t}), If(t, a + 1), CallTo(t)} : t \in Small}
SmallCodes ==
  {<<a, b, c>> \o [n \in 1 .. Size - 3 |-> Nothing] : a \in Menu(1), b \in Menu(2), c \in Menu(3)}

Options == <<
  {Jump({3, 5, 7}), Jump({2, 4, 6, 8})},
  {If(4, 3), Jump({7})},
  {If(1, 4), Skip(1), Jump({6})},
  {If(7, 5), DelayedJump(2), Skip(2)},
  {Jump({3}), If(1, 6)},
  {If(6, 7), Skip(1)},
  {If(2, 8), Jump({4})},
  {Ret, Jump({1})} >>
LargeCodes ==
  {<<a, b, c, d, e, f, g, h>> :
     a \in Options[1], b \in Options[2], c \in Options[3], d \in Options[4],
     e \in Options[5], f \in Options[6], g \in Options[7], h \in Options[8]}

AllPrograms ==
  {[code |-> c, functions |-> f] : c \in SmallCodes, f \in {{1}, {1, 3}}}
  \cup {[code |-> c, functions |-> {1, 5}] : c \in LargeCodes}

AllTypes == {"Medium", "Narrow", "Wide"}
Sizes == {[n \in Code |-> <<30 + 25 * (n % 3), 20 + 7 * (n % 4)>>]}
=============================================================================
