------------------------------ MODULE BlockMap ------------------------------
(***************************************************************************)
(* What the block container of a segment promises: every byte of the       *)
(* segment has one type and one info, and marking a range gives exactly    *)
(* that range its new value.  Marking may also forget, that is turn to     *)
(* Unknown, bytes next to the range, but only those that carry the same    *)
(* value as the boundary byte of the range with nothing else in between.   *)
(***************************************************************************)
EXTENDS Integers, BlockOps

CONSTANTS Base, Limit  (* the segment is [Base, Limit) *)

VARIABLE map           (* what is known of each byte *)

Addrs == Base .. Limit - 1

Value == BlockTypes \X Nat

Forgotten == <<"Unknown", 0>>

Init == map = [a \in Addrs |-> Forgotten]

(* Every byte between a and x has the value of a. *)
SameRun(a, x) ==
  \A y \in Addrs : (a <= y /\ y <= x) \/ (x <= y /\ y <= a) => map[y] = map[a]

(* The range [s, e) gets the value v. *)
Paint(s, e, v) ==
  /\ map' \in [Addrs -> Value]
  /\ \A a \in s .. e - 1 : map'[a] = v
  /\ \A a \in Addrs \ (s .. e - 1) :
        \/ map'[a] = map[a]
        \/ /\ map'[a] = Forgotten
           /\ a < s => SameRun(a, s)
           /\ a >= e => SameRun(a, e - 1)

Next ==
  \E s, e \in Base .. Limit : s < e /\ Paint(s, e, map'[s])

Spec == Init /\ [][Next]_map
=============================================================================
