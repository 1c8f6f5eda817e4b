----------------------------- MODULE Exploration -----------------------------
(***************************************************************************)
(* What decoding promises when the queue is empty: whatever an instruction *)
(* that was decoded leads to was decoded too, or looked at and refused.    *)
(*                                                                         *)
(* The blocks do not tell: an instruction is cut when another one is       *)
(* decoded over its end, which may be cut in its turn, and nothing decodes *)
(* the first one again.  So this module adds a history to the Algorithm.   *)
(***************************************************************************)
EXTENDS Algorithm

VARIABLE past

historyVars == <<vars, past>>

(* covered: the bytes that ever were code, data or a string; decoded: the   *)
(* addresses whose instruction was decoded; taken: those of them that were  *)
(* taken out of the queue, and not decoded as a delay slot.                 *)
NoPast == [covered |-> {}, decoded |-> {}, taken |-> {}]

Covered == {a \in Addrs : \E b \in blocks : b.type # "Unknown" /\ b.start <= a /\ a < b.end}

MarkedAt(I) == {stack[i].at : i \in {j \in DOMAIN stack \cap I : stack[j].marked}}

Remember(covered, decoded, taken) ==
  [covered |-> past.covered \cup covered, decoded |-> past.decoded \cup decoded,
   taken |-> past.taken \cup taken]

HistoryInit == Init /\ past = NoPast

HistoryNext ==
  Next /\ past' = Remember(Covered', MarkedAt(DOMAIN stack)', MarkedAt({Len(stack)})')

HistorySpec == HistoryInit /\ [][HistoryNext]_historyVars

(* As in WorkingSpec, the thread that drains the queue keeps running.       *)
FairHistorySpec == HistorySpec /\ ([]<>~Working \/ []<><<Step>>_vars)
-----------------------------------------------------------------------------
(* The results that name more code. *)
Forks == {"Branch", "BranchTrue", "BranchFalse", "Call"}

Forked(results) ==
  {results[i].to : i \in {j \in DOMAIN results : results[j].kind \in Forks}}

(* An address that could be decoded, was not, and never held anything.      *)
Missed(t) ==
  /\ t \in Addrs /\ program[t].size > 0 /\ t + program[t].size <= Limit
  /\ t \notin past.decoded \cup past.covered

(* When the queue is empty, nothing is missed that an instruction branches  *)
(* to or calls, or goes on to if it is no delay slot.  What follows the     *)
(* last delay slot is decoded when the instruction before the slots goes    *)
(* on, and is left out here.                                                *)
Explored ==
  driver = "none" /\ pending = <<>> =>
    /\ \A a \in past.decoded : \A t \in Forked(program[a].results) : ~Missed(t)
    /\ \A a \in past.taken : CanFlow(program[a]) => ~Missed(a + program[a].size)
=============================================================================
