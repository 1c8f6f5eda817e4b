-------------------------------- MODULE Lemmas -------------------------------
(***************************************************************************)
(* What the operators of BlockOps return, for containers of any size, and  *)
(* what pushing and popping does to the stacks of calls that Algorithm,    *)
(* Locations, Labels and Locks keep.                                       *)
(***************************************************************************)
EXTENDS BlockOps, Sequences, FiniteSetTheorems, WellFoundedInduction, TLAPS

(* A set of natural numbers has a least element.  (The strict order on      *)
(* finite sets is well-founded; take the intervals 0 .. x.)                 *)
LEMMA LeastElement ==
  ASSUME NEW T \in SUBSET Nat, T # {}
  PROVE  \E m \in T : \A x \in T : m <= x
<1> DEFINE Upto(x) == 0 .. x
           R == StrictSubsetOrdering(Nat)
           U == {Upto(x) : x \in T}
<1>1. U \subseteq FiniteSubsetsOf(Nat) /\ U # {}
  <2>1. \A x \in T : Upto(x) \subseteq Nat /\ IsFiniteSet(Upto(x))
    BY FS_Interval
  <2>. QED BY <2>1 DEF FiniteSubsetsOf
<1>2. IsWellFoundedOn(R, FiniteSubsetsOf(Nat))
  BY FS_StrictSubsetOrderingWellFounded
<1>3. \E u \in U : \A v \in U : <<v, u>> \notin R
  <2>. HIDE DEF R, U
  <2>. QED BY <1>1, <1>2, WFMin
<1>4. PICK m \in T : \A x \in T : <<Upto(x), Upto(m)>> \notin R
  BY <1>3
<1>5. ASSUME NEW x \in T, x < m PROVE FALSE
  <2>1. Upto(x) \subseteq Upto(m) /\ m \in Upto(m) /\ m \notin Upto(x)
    BY <1>5
  <2>2. Upto(x) # Upto(m) /\ Upto(x) \in SUBSET Nat /\ Upto(m) \in SUBSET Nat
    BY <2>1
  <2>3. <<Upto(x), Upto(m)>> \in R
    BY <2>1, <2>2 DEF StrictSubsetOrdering
  <2>. QED BY <2>3, <1>4
<1>. QED BY <1>5

(* A container holds non-empty blocks that do not overlap; it says that the *)
(* byte at an address has a type and an info when one of its blocks does.   *)
Apart(b, c) == Before(b, c) \/ Before(c, b)

Sound(S) ==
  /\ S \subseteq Block
  /\ \A b \in S : b.start < b.end
  /\ \A b, c \in S : b # c => Apart(b, c)

Within(S, lo, hi) == \A b \in S : lo <= b.start /\ b.end <= hi

Covers(S, lo, hi) == \A a \in lo .. hi - 1 : \E b \in S : Contains(b, a)

Holds(S, a, t, i) == \E b \in S : Contains(b, a) /\ b.type = t /\ b.info = i

(* The end that doInsert reaches: no mergeable block contains it and        *)
(* mergeable blocks contain every address before it, from b.end on.         *)
LEMMA MergeEndReach ==
  ASSUME NEW S, Sound(S), NEW b \in Block,
         NEW hi \in Nat, b.end <= hi, \A n \in S : n.end <= hi
  PROVE  /\ MergeEnd(S, b) \in Nat
         /\ b.end <= MergeEnd(S, b) /\ MergeEnd(S, b) <= hi
         /\ \A n \in S : CanMerge(n, b) => ~Contains(n, MergeEnd(S, b))
         /\ \A a \in b.end .. MergeEnd(S, b) - 1 :
               \E n \in S : CanMerge(n, b) /\ Contains(n, a)
<1> DEFINE Free(e) == \A n \in S : CanMerge(n, b) => ~Contains(n, e)
           T == {e \in Nat : b.end <= e /\ Free(e)}
<1>0. b.end \in Nat /\ \A n \in S : n \in Block /\ n.start \in Nat /\ n.end \in Nat
  BY DEF Sound, Block
<1>1. hi \in T
  BY <1>0 DEF Contains
<1>2. PICK m \in T : \A x \in T : m <= x
  BY <1>1, LeastElement
<1>3. \A a \in b.end .. m - 1 : \E n \in S : CanMerge(n, b) /\ Contains(n, a)
  <2> SUFFICES ASSUME NEW a \in b.end .. m - 1, Free(a) PROVE FALSE
    OBVIOUS
  <2>1. a \in T BY <1>0
  <2>. QED BY <2>1, <1>0, <1>2
<1>4. m \in FreeEnds(S, b)
  <2>1. CASE m = b.end
    BY <2>1, <1>0, <1>2 DEF FreeEnds
  <2>2. CASE m # b.end
    <3>1. m - 1 \in b.end .. m - 1
      BY <2>2, <1>0, <1>2
    <3>2. PICK n \in S : CanMerge(n, b) /\ Contains(n, m - 1)
      BY <3>1, <1>3
    <3>3. n.end = m
      BY <3>2, <1>0, <1>2 DEF Contains
    <3>. QED BY <3>3, <1>0, <1>2 DEF FreeEnds
  <2>. QED BY <2>1, <2>2
<1>5. \A f \in FreeEnds(S, b) : f \in T
  BY <1>0 DEF FreeEnds
<1>6. MergeEnd(S, b) = m
  <2>1. m \in FreeEnds(S, b) /\ \A f \in FreeEnds(S, b) : m <= f
    BY <1>2, <1>4, <1>5
  <2>2. MergeEnd(S, b) \in FreeEnds(S, b)
        /\ \A f \in FreeEnds(S, b) : MergeEnd(S, b) <= f
    BY <2>1 DEF MergeEnd
  <2>3. MergeEnd(S, b) \in Nat /\ m \in Nat
    BY <2>2, <1>5
  <2>. QED BY <2>1, <2>2, <2>3, <1>4
<1>7. m <= hi
  BY <1>1, <1>2
<1>. QED BY <1>2, <1>3, <1>6, <1>7

(* doInsert of a block that overlaps no block: the result is sound, keeps   *)
(* the bounds, adds to what the container says exactly what the block says, *)
(* and its blocks are old blocks or b with a new end.                       *)
LEMMA DoInsertResult ==
  ASSUME NEW S, Sound(S), NEW lo \in Nat, NEW hi \in Nat, Within(S, lo, hi),
         NEW b \in Block, b.start < b.end, lo <= b.start, b.end <= hi,
         \A n \in S : Apart(n, b)
  PROVE  /\ Sound(DoInsert(S, b))
         /\ Within(DoInsert(S, b), lo, hi)
         /\ \A n \in DoInsert(S, b) :
               \/ n \in S
               \/ /\ n.type = b.type /\ n.info = b.info /\ n.start = b.start
                  /\ b.type # "Unknown" => n.end = b.end
         /\ \A a \in Nat : \A t, i :
               Holds(DoInsert(S, b), a, t, i) <=>
                 Holds(S, a, t, i) \/ (Contains(b, a) /\ b.type = t /\ b.info = i)
<1> DEFINE m == MergeEnd(S, b)
           c == [b EXCEPT !.end = m]
           K == S \ Swallowed(S, b)
<1>1. /\ m \in Nat /\ b.end <= m /\ m <= hi
      /\ \A n \in S : CanMerge(n, b) => ~Contains(n, m)
      /\ \A a \in b.end .. m - 1 : \E n \in S : CanMerge(n, b) /\ Contains(n, a)
  BY MergeEndReach DEF Within
<1> HIDE DEF m
<1>2. /\ b.start \in Nat /\ b.end \in Nat
      /\ \A n \in S : n.start \in Nat /\ n.end \in Nat /\ n.start < n.end
      /\ \A n, k \in S : n # k => n.end <= k.start \/ k.end <= n.start
      /\ \A n \in S : n.end <= b.start \/ b.end <= n.start
  BY DEF Sound, Block, Apart, Before
<1>3. c \in Block /\ c.start = b.start /\ c.end = m /\ c.type = b.type /\ c.info = b.info
  BY <1>1 DEF Block
<1> HIDE DEF c
<1>4. \A n \in Swallowed(S, b) :
         n \in S /\ CanMerge(n, b) /\ b.end <= n.start /\ n.start < m /\ n.end <= m
  BY <1>1, <1>2 DEF Swallowed, m, Contains
<1>5. \A n \in K : n.end <= b.start \/ m <= n.start
  <2> SUFFICES ASSUME NEW n \in K, b.end <= n.start, n.start < m PROVE FALSE
    BY <1>1, <1>2
  <2>1. PICK k \in S : CanMerge(k, b) /\ Contains(k, n.start)
    BY <1>1, <1>2
  <2>2. k = n
    BY <2>1, <1>2 DEF Contains
  <2>. QED BY <2>1, <2>2, <1>2 DEF Swallowed, m
<1>6. DoInsert(S, b) = K \cup {c}
  BY <1>1, <1>2, <1>3, <1>5 DEF DoInsert, Insert, Before, m, c
<1> HIDE DEF K
<1>7. K \subseteq S
  BY DEF K
<1>8. Sound(K \cup {c})
  BY <1>1, <1>2, <1>3, <1>5, <1>7 DEF Sound, Apart, Before
<1>9. Within(K \cup {c}, lo, hi)
  BY <1>1, <1>2, <1>3, <1>7 DEF Within
<1>10. ASSUME NEW a \in Nat, NEW t, NEW i
       PROVE  Holds(K \cup {c}, a, t, i) <=>
                Holds(S, a, t, i) \/ (Contains(b, a) /\ b.type = t /\ b.info = i)
  <2>1. ASSUME Holds(K, a, t, i)
        PROVE  Holds(S, a, t, i)
    BY <2>1, <1>7 DEF Holds
  <2>2. ASSUME Contains(c, a), ~Contains(b, a)
        PROVE  Holds(S, a, c.type, c.info)
    <3>1. a \in b.end .. m - 1
      BY <2>2, <1>1, <1>2, <1>3 DEF Contains
    <3>. QED BY <3>1, <1>1, <1>3 DEF Holds, CanMerge
  <2>3. ASSUME Holds(S, a, t, i), ~Holds(K, a, t, i)
        PROVE  Contains(c, a) /\ c.type = t /\ c.info = i
    <3>1. PICK n \in S : Contains(n, a) /\ n.type = t /\ n.info = i /\ n \in Swallowed(S, b)
      BY <2>3 DEF Holds, K
    <3>. QED BY <3>1, <1>1, <1>2, <1>3, <1>4 DEF Contains, CanMerge
  <2>4. Contains(b, a) => Contains(c, a)
    BY <1>1, <1>2, <1>3 DEF Contains
  <2>5. Holds(K \cup {c}, a, t, i) <=>
          Holds(K, a, t, i) \/ (Contains(c, a) /\ c.type = t /\ c.info = i)
    BY DEF Holds
  <2>. QED BY <2>1, <2>2, <2>3, <2>4, <2>5, <1>3
<1>11. b.type # "Unknown" => c.end = b.end
  <2> SUFFICES ASSUME b.type # "Unknown", b.end < m PROVE FALSE
    BY <1>1, <1>2, <1>3
  <2>1. PICK n \in S : CanMerge(n, b)
    BY <1>1, <1>2
  <2>. QED BY <2>1 DEF CanMerge
<1>. QED BY <1>3, <1>6, <1>7, <1>8, <1>9, <1>10, <1>11

(* A block none of whose bytes is in a block of the container overlaps no   *)
(* block of it.                                                             *)
LEMMA ApartWhenFree ==
  ASSUME NEW S, Sound(S), NEW b \in Block, b.start < b.end,
         \A a \in b.start .. b.end - 1 : \A n \in S : ~Contains(n, a)
  PROVE  \A n \in S : Apart(n, b)
<1> SUFFICES ASSUME NEW n \in S, b.start < n.end, n.start < b.end PROVE FALSE
  BY DEF Apart, Before, Sound, Block
<1>1. /\ n.start \in Nat /\ n.end \in Nat /\ n.start < n.end
      /\ b.start \in Nat /\ b.end \in Nat
  BY DEF Sound, Block
<1>2. CASE n.start <= b.start
  <2>1. b.start \in b.start .. b.end - 1 /\ Contains(n, b.start)
    BY <1>1, <1>2 DEF Contains
  <2>. QED BY <2>1
<1>3. CASE b.start < n.start
  <2>1. n.start \in b.start .. b.end - 1 /\ Contains(n, n.start)
    BY <1>1, <1>3 DEF Contains
  <2>. QED BY <2>1
<1>. QED BY <1>1, <1>2, <1>3

(* Inserting a leftover that may be empty.                                  *)
LEMMA DoInsertAllResult ==
  ASSUME NEW S, Sound(S), NEW lo \in Nat, NEW hi \in Nat, Within(S, lo, hi),
         NEW b \in Block, lo <= b.start, b.end <= hi,
         \A a \in b.start .. b.end - 1 : \A n \in S : ~Contains(n, a)
  PROVE  LET D == DoInsertAll(S, Demoted({b}))
         IN  /\ Sound(D)
             /\ Within(D, lo, hi)
             /\ \A n \in D : n \in S \/ (n.type = b.type /\ n.info = b.info)
             /\ \A a \in Nat : \A t, i :
                   Holds(D, a, t, i) <=>
                     Holds(S, a, t, i) \/ (Contains(b, a) /\ b.type = t /\ b.info = i)
<1>1. b.start \in Nat /\ b.end \in Nat
  BY DEF Block
<1>2. CASE b.start < b.end
  <2>1. Demoted({b}) = {b}
    BY <1>1, <1>2 DEF Demoted, Empty
  <2>2. DoInsertAll(S, Demoted({b})) = DoInsert(S, b)
    BY <2>1 DEF DoInsertAll
  <2>3. \A n \in S : Apart(n, b)
    BY <1>2, ApartWhenFree
  <2>4. /\ Sound(DoInsert(S, b)) /\ Within(DoInsert(S, b), lo, hi)
        /\ \A n \in DoInsert(S, b) : n \in S \/ (n.type = b.type /\ n.info = b.info)
        /\ \A a \in Nat : \A t, i :
              Holds(DoInsert(S, b), a, t, i) <=>
                Holds(S, a, t, i) \/ (Contains(b, a) /\ b.type = t /\ b.info = i)
    BY <1>2, <2>3, DoInsertResult
  <2>. QED BY <2>2, <2>4
<1>3. CASE ~(b.start < b.end)
  <2>1. Demoted({b}) = {}
    BY <1>1, <1>3 DEF Demoted, Empty
  <2>2. DoInsertAll(S, Demoted({b})) = S
    BY <2>1 DEF DoInsertAll
  <2>3. \A a \in Nat : ~Contains(b, a)
    BY <1>1, <1>3 DEF Contains
  <2>. QED BY <2>2, <2>3
<1>. QED BY <1>2, <1>3

(* The blocks of a segment, and what a sound container says of a byte.      *)
Tiles(S, lo, hi) == Sound(S) /\ Within(S, lo, hi) /\ Covers(S, lo, hi)

LEMMA HoldsOne ==
  ASSUME NEW S, Sound(S), NEW a \in Nat, NEW b \in S, Contains(b, a)
  PROVE  /\ \A c \in S : Contains(c, a) => c = b
         /\ \A t, i : Holds(S, a, t, i) <=> b.type = t /\ b.info = i
<1>1. \A c \in S : Contains(c, a) => c = b
  BY DEF Sound, Block, Contains, Apart, Before
<1>. QED BY <1>1 DEF Holds

(* What mark erases: the blocks that overlap the range, from the one that   *)
(* contains its first byte to the one that contains its last.               *)
LEMMA ErasedResult ==
  ASSUME NEW S, Sound(S), NEW s \in Nat, NEW e \in Nat, s < e,
         NEW x \in S, Contains(x, s), NEW y \in S, Contains(y, e - 1)
  PROVE  /\ Get(S, s) = {x} /\ Get(S, e - 1) = {y}
         /\ x.start <= s /\ e <= y.end
         /\ \A n \in Erased(S, {x}, {y}) : x.start <= n.start /\ n.end <= y.end
         /\ \A n \in S \ Erased(S, {x}, {y}) : n.end <= x.start \/ y.end <= n.start
<1>1. {b \in S : Contains(b, s)} = {x} /\ {b \in S : Contains(b, e - 1)} = {y}
  BY HoldsOne
<1>2. Get(S, s) = {x} /\ Get(S, e - 1) = {y}
  BY <1>1 DEF Get
<1>3. /\ \A n \in S : n.start \in Nat /\ n.end \in Nat /\ n.start < n.end
      /\ \A n, k \in S : n # k => n.end <= k.start \/ k.end <= n.start
  BY DEF Sound, Block, Apart, Before
<1>4. \A n : n \in Erased(S, {x}, {y}) <=>
               n \in S /\ (n = x \/ x.end <= n.start) /\ (n = y \/ n.end <= y.start)
  BY DEF Erased, Before
<1>5. x.start <= s /\ s < x.end /\ y.start <= e - 1 /\ e - 1 < y.end
  BY DEF Contains
<1>6. x = y \/ x.end <= y.start
  BY <1>3, <1>5
<1>7. \A n \in Erased(S, {x}, {y}) : x.start <= n.start /\ n.end <= y.end
  BY <1>3, <1>4, <1>5, <1>6
<1>8. \A n \in S \ Erased(S, {x}, {y}) : n.end <= x.start \/ y.end <= n.start
  BY <1>3, <1>4, <1>5, <1>6
<1>9. e <= y.end
  BY <1>3, <1>5
<1>. QED BY <1>2, <1>5, <1>7, <1>8, <1>9

(* mark: the result tiles the segment, its bytes in the range have the new  *)
(* type and info, those of the two blocks at the ends of the range become   *)
(* Unknown and all others keep theirs; a new block carries the new type and *)
(* info or is Unknown.                                                      *)
Marked(S, D, lo, hi, s, e, t, i) ==
  /\ Tiles(D, lo, hi)
  /\ \A n \in D :
        \/ n \in S
        \/ n.type = "Unknown" /\ n.info = 0
        \/ n.type = t /\ n.info = i /\ (t # "Unknown" => n.start = s /\ n.end = e)
  /\ \A a \in s .. e - 1 : Holds(D, a, t, i)
  /\ \E x, y \in S :
       /\ Contains(x, s) /\ Contains(y, e - 1)
       /\ \A a \in (lo .. hi - 1) \ (s .. e - 1) :
            IF Contains(x, a) \/ Contains(y, a)
            THEN Holds(D, a, "Unknown", 0)
            ELSE \A u, j : Holds(S, a, u, j) => Holds(D, a, u, j)

LEMMA MarkResult ==
  ASSUME NEW S, NEW lo \in Nat, NEW hi \in Nat, Tiles(S, lo, hi),
         NEW s \in Nat, NEW e \in Nat, lo <= s, s < e, e <= hi,
         NEW t \in BlockTypes, NEW i \in Nat
  PROVE  Marked(S, Mark(S, s, e, t, i), lo, hi, s, e, t, i)
<1>1. PICK x \in S : Contains(x, s)
  BY DEF Tiles, Covers
<1>2. PICK y \in S : Contains(y, e - 1)
  <2>1. e - 1 \in lo .. hi - 1
    OBVIOUS
  <2>. QED BY <2>1 DEF Tiles, Covers
<1> DEFINE l == NewBlock(x.start, s, "Unknown", 0)
           r == NewBlock(e, y.end, "Unknown", 0)
           S0 == S \ Erased(S, {x}, {y})
           M == Mark(S, s, e, t, i)
<1>3. /\ Sound(S) /\ Within(S, lo, hi)
      /\ \A n \in S : n.start \in Nat /\ n.end \in Nat /\ n.start < n.end
      /\ \A n \in S : lo <= n.start /\ n.end <= hi
  BY DEF Tiles, Sound, Within, Block
<1>4. /\ Get(S, s) = {x} /\ Get(S, e - 1) = {y}
      /\ x.start <= s /\ e <= y.end
      /\ \A n \in Erased(S, {x}, {y}) : x.start <= n.start /\ n.end <= y.end
      /\ \A n \in S0 : n.end <= x.start \/ y.end <= n.start
  BY <1>1, <1>2, <1>3, ErasedResult
<1>5. S0 \subseteq S /\ Sound(S0) /\ Within(S0, lo, hi)
  BY <1>3 DEF Sound, Within
<1>6. /\ l \in Block /\ l.start = x.start /\ l.end = s /\ l.type = "Unknown" /\ l.info = 0
      /\ r \in Block /\ r.start = e /\ r.end = y.end /\ r.type = "Unknown" /\ r.info = 0
  BY <1>3, <1>4 DEF NewBlock, Block, BlockTypes
(* What remains of the container says nothing of the bytes in [x.start, y.end). *)
<1>7. \A a \in x.start .. y.end - 1 : \A n \in S0 : ~Contains(n, a)
  <2> SUFFICES ASSUME NEW a \in x.start .. y.end - 1, NEW n \in S0, Contains(n, a)
               PROVE  FALSE
    OBVIOUS
  <2>1. /\ x.start \in Nat /\ y.end \in Nat /\ x.start <= a /\ a < y.end /\ a \in Nat
        /\ n.start \in Nat /\ n.end \in Nat /\ n.start <= a /\ a < n.end
    BY <1>3, <1>5 DEF Contains
  <2>2. n.end <= x.start \/ y.end <= n.start
    BY <1>4
  <2>. QED BY <2>1, <2>2
<1>8. \A a \in lo .. hi - 1 : \A u, j :
         Holds(S0, a, u, j) <=> Holds(S, a, u, j) /\ a \notin x.start .. y.end - 1
  <2> TAKE a \in lo .. hi - 1
  <2> TAKE u, j
  <2>1. Holds(S0, a, u, j) => Holds(S, a, u, j) /\ a \notin x.start .. y.end - 1
    BY <1>5, <1>7 DEF Holds
  <2>2. ASSUME Holds(S, a, u, j), a \notin x.start .. y.end - 1
        PROVE  Holds(S0, a, u, j)
    <3>1. PICK n \in S : Contains(n, a) /\ n.type = u /\ n.info = j
      BY <2>2 DEF Holds
    <3>2. /\ x.start \in Nat /\ y.end \in Nat /\ n.start \in Nat /\ n.end \in Nat
          /\ n.start <= a /\ a < n.end /\ a \in Nat
      BY <3>1, <1>3 DEF Contains
    <3>3. ~(x.start <= n.start /\ n.end <= y.end)
      BY <3>2, <2>2
    <3>4. n \in S0
      BY <3>3, <1>4
    <3>. QED BY <3>1, <3>4 DEF Holds
  <2>. QED BY <2>1, <2>2
<1>9. /\ {Leftover(n, n.start, s) : n \in {x}} = {l}
      /\ {Leftover(n, e, n.end) : n \in {y}} = {r}
      /\ CanMerge(NewBlock(s, e, "Unknown", 0), NewBlock(s, e, t, i))
           <=> t = "Unknown" /\ i = 0
  BY DEF Leftover, CanMerge, NewBlock
<1>10. /\ x.start \in Nat /\ y.end \in Nat /\ lo <= x.start /\ y.end <= hi
       /\ x.start <= s /\ e <= y.end /\ Contains(x, s) /\ Contains(y, e - 1)
  BY <1>1, <1>2, <1>3, <1>4
<1> HIDE DEF l, r, S0
<1>11. /\ Sound(M) /\ Within(M, lo, hi)
       /\ \A n \in M :
             \/ n \in S
             \/ n.type = "Unknown" /\ n.info = 0
             \/ n.type = t /\ n.info = i /\ (t # "Unknown" => n.start = s /\ n.end = e)
       /\ \A a \in lo .. hi - 1 : \A u, j :
             Holds(M, a, u, j) <=>
               \/ Holds(S, a, u, j) /\ a \notin x.start .. y.end - 1
               \/ s <= a /\ a < e /\ u = t /\ j = i
               \/ /\ x.start <= a /\ a < y.end /\ ~(s <= a /\ a < e)
                  /\ u = "Unknown" /\ j = 0
  <2>1. CASE t = "Unknown" /\ i = 0
    <3> DEFINE new == NewBlock(x.start, y.end, t, i)
    <3>1. M = DoInsert(S0, new)
      <4>1. Demoted({l}) = (IF x.start < s THEN {l} ELSE {})
        BY <1>6, <1>10 DEF Demoted, Empty
      <4>2. Demoted({r}) = (IF e < y.end THEN {r} ELSE {})
        BY <1>6, <1>10 DEF Demoted, Empty
      <4>3. (IF Demoted({l}) # {} THEN (CHOOSE k \in Demoted({l}) : TRUE).start ELSE s) = x.start
        <5>1. (CHOOSE k \in {l} : TRUE) = l
          OBVIOUS
        <5>2. CASE x.start < s
          BY <5>1, <5>2, <4>1, <1>6
        <5>3. CASE ~(x.start < s)
          <6>1. x.start = s
            BY <5>3, <1>10
          <6>2. Demoted({l}) = {}
            BY <5>3, <4>1
          <6>. QED BY <6>1, <6>2
        <5>. QED BY <5>2, <5>3
      <4>4. (IF Demoted({r}) # {} THEN (CHOOSE k \in Demoted({r}) : TRUE).end ELSE e) = y.end
        <5>1. (CHOOSE k \in {r} : TRUE) = r
          OBVIOUS
        <5>2. CASE e < y.end
          BY <5>1, <5>2, <4>2, <1>6
        <5>3. CASE ~(e < y.end)
          <6>1. e = y.end
            BY <5>3, <1>10
          <6>2. Demoted({r}) = {}
            BY <5>3, <4>2
          <6>. QED BY <6>1, <6>2
        <5>. QED BY <5>2, <5>3
      <4>. QED BY <4>3, <4>4, <1>4, <1>9, <2>1 DEF Mark, S0
    <3>2. /\ new \in Block /\ new.start = x.start /\ new.end = y.end
          /\ new.type = t /\ new.info = i /\ x.start < y.end
      BY <1>4, <1>10 DEF NewBlock, Block
    <3> HIDE DEF new, M
    <3>3. \A n \in S0 : Apart(n, new)
      BY <1>5, <1>7, <3>2, ApartWhenFree
    <3>4. /\ Sound(M) /\ Within(M, lo, hi)
          /\ \A n \in M : n \in S0 \/ (n.type = t /\ n.info = i)
          /\ \A a \in Nat : \A u, j :
                Holds(M, a, u, j) <=>
                  Holds(S0, a, u, j) \/ (Contains(new, a) /\ t = u /\ i = j)
      BY <1>5, <1>10, <3>1, <3>2, <3>3, DoInsertResult
    <3>5. \A a \in Nat : Contains(new, a) <=> x.start <= a /\ a < y.end
      BY <3>2 DEF Contains
    <3>6. \A a \in Nat : a \in s .. e - 1 <=> s <= a /\ a < e
      OBVIOUS
    <3>. QED BY <1>8, <1>10, <2>1, <3>4, <3>5, <1>5
  <2>2. CASE ~(t = "Unknown" /\ i = 0)
    <3> DEFINE new == NewBlock(s, e, t, i)
               S1 == DoInsertAll(S0, Demoted({l}))
               S2 == DoInsertAll(S1, Demoted({r}))
    <3>1. M = DoInsert(S2, new)
      BY <1>4, <1>9, <2>2 DEF Mark, S0
    <3>2. /\ new \in Block /\ new.start = s /\ new.end = e
          /\ new.type = t /\ new.info = i
      BY DEF NewBlock, Block
    <3>3. /\ \A a \in Nat : Contains(l, a) <=> x.start <= a /\ a < s
          /\ \A a \in Nat : Contains(r, a) <=> e <= a /\ a < y.end
          /\ \A a \in Nat : Contains(new, a) <=> s <= a /\ a < e
      BY <1>6, <3>2 DEF Contains
    <3> HIDE DEF new, M
    <3>4. /\ Sound(S1) /\ Within(S1, lo, hi)
          /\ \A n \in S1 : n \in S0 \/ (n.type = "Unknown" /\ n.info = 0)
          /\ \A a \in Nat : \A u, j :
                Holds(S1, a, u, j) <=>
                  Holds(S0, a, u, j) \/ (Contains(l, a) /\ "Unknown" = u /\ 0 = j)
      <4>1. \A a \in l.start .. l.end - 1 : \A n \in S0 : ~Contains(n, a)
        BY <1>4, <1>6, <1>7, <1>10
      <4>2. lo <= l.start /\ l.end <= hi
        BY <1>6, <1>10
      <4>. QED BY <1>5, <1>6, <4>1, <4>2, DoInsertAllResult
    <3> HIDE DEF S1
    <3>5. /\ Sound(S2) /\ Within(S2, lo, hi)
          /\ \A n \in S2 : n \in S1 \/ (n.type = "Unknown" /\ n.info = 0)
          /\ \A a \in Nat : \A u, j :
                Holds(S2, a, u, j) <=>
                  Holds(S1, a, u, j) \/ (Contains(r, a) /\ "Unknown" = u /\ 0 = j)
      <4>1. \A a \in r.start .. r.end - 1 : \A n \in S1 : ~Contains(n, a)
        <5> SUFFICES ASSUME NEW a \in e .. y.end - 1, NEW n \in S1, Contains(n, a)
                     PROVE  FALSE
          BY <1>6
        <5>1. a \in x.start .. y.end - 1 /\ a \in Nat /\ ~Contains(l, a)
          BY <1>10, <3>3
        <5>2. Holds(S1, a, n.type, n.info)
          BY DEF Holds
        <5>. QED BY <5>1, <5>2, <3>4, <1>7 DEF Holds
      <4>2. e <= r.start /\ lo <= r.start /\ r.end <= hi
        BY <1>6, <1>10
      <4>. QED BY <3>4, <1>6, <4>1, <4>2, DoInsertAllResult
    <3> HIDE DEF S2
    <3>6. /\ Sound(M) /\ Within(M, lo, hi)
          /\ \A n \in M :
                \/ n \in S2
                \/ n.type = t /\ n.info = i /\ n.start = s /\ (t # "Unknown" => n.end = e)
          /\ \A a \in Nat : \A u, j :
                Holds(M, a, u, j) <=>
                  Holds(S2, a, u, j) \/ (Contains(new, a) /\ t = u /\ i = j)
      <4>1. \A a \in new.start .. new.end - 1 : \A n \in S2 : ~Contains(n, a)
        <5> SUFFICES ASSUME NEW a \in s .. e - 1, NEW n \in S2, Contains(n, a)
                     PROVE  FALSE
          BY <3>2
        <5>1. a \in x.start .. y.end - 1 /\ a \in Nat /\ ~Contains(l, a) /\ ~Contains(r, a)
          BY <1>10, <3>3
        <5>2. Holds(S2, a, n.type, n.info)
          BY DEF Holds
        <5>. QED BY <5>1, <5>2, <3>4, <3>5, <1>7, SMTT(30) DEF Holds
      <4>2. \A n \in S2 : Apart(n, new)
        BY <3>2, <3>5, <4>1, ApartWhenFree
      <4>. QED BY <3>1, <3>2, <3>5, <4>2, DoInsertResult
    <3>. QED BY <1>8, <1>10, <2>2, <3>3, <3>4, <3>5, <3>6, <1>5
  <2>. QED BY <2>1, <2>2
<1> HIDE DEF M
<1>12. Covers(M, lo, hi)
  <2> SUFFICES ASSUME NEW a \in lo .. hi - 1 PROVE \E u, j : Holds(M, a, u, j)
    BY DEF Covers, Holds
  <2>1. \E u, j : Holds(S, a, u, j)
    BY DEF Tiles, Covers, Holds
  <2>2. CASE a \in s .. e - 1
    BY <2>2, <1>11
  <2>3. CASE a \in x.start .. y.end - 1 /\ a \notin s .. e - 1
    <3>1. Holds(M, a, "Unknown", 0)
      BY <2>3, <1>10, <1>11
    <3>. QED BY <3>1
  <2>4. CASE a \notin x.start .. y.end - 1
    BY <2>1, <2>4, <1>11
  <2>. QED BY <2>2, <2>3, <2>4
<1>13. \A a \in s .. e - 1 : Holds(M, a, t, i)
  BY <1>11
<1>14. ASSUME NEW a \in (lo .. hi - 1) \ (s .. e - 1)
       PROVE  IF Contains(x, a) \/ Contains(y, a)
              THEN Holds(M, a, "Unknown", 0)
              ELSE \A u, j : Holds(S, a, u, j) => Holds(M, a, u, j)
  <2>1. (Contains(x, a) \/ Contains(y, a)) <=> a \in x.start .. y.end - 1
    <3>1. x = y \/ x.end <= y.start
      BY <1>3, <1>10 DEF Sound, Apart, Before, Contains
    <3>2. y.start \in Nat /\ x.end \in Nat
      BY <1>3
    <3>3. x.start <= s /\ s < x.end /\ y.start <= e - 1 /\ e - 1 < y.end
      BY <1>10 DEF Contains
    <3>. QED BY <3>1, <3>2, <3>3, <1>10 DEF Contains
  <2>2. CASE a \in x.start .. y.end - 1
    <3>1. x.start <= a /\ a < y.end /\ ~(s <= a /\ a < e)
      BY <2>2, <1>10
    <3>2. Holds(M, a, "Unknown", 0)
      BY <3>1, <1>11
    <3>. QED BY <2>1, <2>2, <3>2
  <2>3. CASE a \notin x.start .. y.end - 1
    <3>1. \A u, j : Holds(S, a, u, j) => Holds(M, a, u, j)
      BY <2>3, <1>11
    <3>. QED BY <2>1, <2>3, <3>1
  <2>. QED BY <2>2, <2>3
<1>15. Tiles(M, lo, hi)
  BY <1>11, <1>12 DEF Tiles
<1>16. Marked(S, M, lo, hi, s, e, t, i)
  BY <1>10, <1>11, <1>13, <1>14, <1>15 DEF Marked
<1>. QED BY <1>16 DEF M

(* The outcome of one operation on the container of a segment: the bytes of *)
(* [s, e) have one type and info; any other byte keeps its own, or becomes  *)
(* Unknown because the block that held it also held the first or the last   *)
(* byte of the range.                                                       *)
Outcome(S, D, lo, hi, s, e) ==
  /\ \E t, i : \A a \in s .. e - 1 : Holds(D, a, t, i)
  /\ \A a \in (lo .. hi - 1) \ (s .. e - 1) :
       \/ \A u, j : Holds(S, a, u, j) => Holds(D, a, u, j)
       \/ /\ Holds(D, a, "Unknown", 0)
          /\ a < s => \E x \in S : Contains(x, a) /\ Contains(x, s)
          /\ a >= e => \E y \in S : Contains(y, a) /\ Contains(y, e - 1)

LEMMA MarkOutcome ==
  ASSUME NEW S, NEW lo \in Nat, NEW hi \in Nat, Tiles(S, lo, hi),
         NEW s \in Nat, NEW e \in Nat, lo <= s, s < e, e <= hi,
         NEW t \in BlockTypes, NEW i \in Nat
  PROVE  Outcome(S, Mark(S, s, e, t, i), lo, hi, s, e)
<1> DEFINE M == Mark(S, s, e, t, i)
<1>0. Marked(S, M, lo, hi, s, e, t, i)
  BY MarkResult
<1> HIDE DEF M
<1>1. \A a \in s .. e - 1 : Holds(M, a, t, i)
  BY <1>0 DEF Marked
<1>2. PICK x \in S, y \in S :
         /\ Contains(x, s) /\ Contains(y, e - 1)
         /\ \A a \in (lo .. hi - 1) \ (s .. e - 1) :
              IF Contains(x, a) \/ Contains(y, a)
              THEN Holds(M, a, "Unknown", 0)
              ELSE \A u, j : Holds(S, a, u, j) => Holds(M, a, u, j)
  BY <1>0 DEF Marked
<1>3. ASSUME NEW a \in (lo .. hi - 1) \ (s .. e - 1)
      PROVE  \/ \A u, j : Holds(S, a, u, j) => Holds(M, a, u, j)
             \/ /\ Holds(M, a, "Unknown", 0)
                /\ a < s => \E z \in S : Contains(z, a) /\ Contains(z, s)
                /\ a >= e => \E z \in S : Contains(z, a) /\ Contains(z, e - 1)
  <2>1. CASE Contains(x, a) \/ Contains(y, a)
    <3>1. Holds(M, a, "Unknown", 0)
      BY <2>1, <1>2
    <3>2. \A n \in S : n.start \in Nat /\ n.end \in Nat
      BY DEF Tiles, Sound, Block
    <3>3. a < s /\ Contains(y, a) => Contains(y, s)
      BY <3>2, <1>2 DEF Contains
    <3>4. a >= e /\ Contains(x, a) => Contains(x, e - 1)
      BY <3>2, <1>2 DEF Contains
    <3>. QED BY <2>1, <3>1, <3>3, <3>4, <1>2
  <2>2. CASE ~(Contains(x, a) \/ Contains(y, a))
    BY <2>2, <1>2
  <2>. QED BY <2>1, <2>2
<1>. QED BY <1>1, <1>3 DEF Outcome, M

(* info: the block that contains a gives the bytes from a to its end the    *)
(* new info, every other byte keeps what it had.                            *)
LEMMA MarkInfoOutcome ==
  ASSUME NEW S, NEW lo \in Nat, NEW hi \in Nat, Tiles(S, lo, hi),
         NEW a \in lo .. hi - 1, NEW t \in BlockTypes, NEW i \in Nat, t = "Unknown"
  PROVE  /\ Tiles(MarkInfo(S, a, t, i), lo, hi)
         /\ \E e \in a + 1 .. hi : Outcome(S, MarkInfo(S, a, t, i), lo, hi, a, e)
         /\ \A n \in MarkInfo(S, a, t, i) :
               n.info \in {0, i} \/ \E k \in S : n.info = k.info
<1>1. PICK b \in S : Contains(b, a)
  BY DEF Tiles, Covers
<1>2. /\ b \in Block /\ b.start \in Nat /\ b.end \in Nat /\ b.type \in BlockTypes /\ b.info \in Nat
      /\ lo <= b.start /\ b.start <= a /\ a < b.end /\ b.end <= hi
  BY <1>1 DEF Tiles, Sound, Within, Block, Contains
<1>3. Get(S, a) = {b}
  <2>1. {n \in S : Contains(n, a)} = {b}
    BY <1>1, HoldsOne DEF Tiles
  <2>. QED BY <2>1 DEF Get
<1>4. (CHOOSE n \in {b} : TRUE) = b
  OBVIOUS
<1>5. CASE a = b.start
  <2> DEFINE M == MarkInfo(S, a, t, i)
  <2>1. M = Mark(S, a, b.end, b.type, i)
    BY <1>3, <1>4, <1>5, <1>2 DEF MarkInfo
  <2> HIDE DEF M
  <2>2. Marked(S, M, lo, hi, a, b.end, b.type, i) /\ Outcome(S, M, lo, hi, a, b.end)
    BY <1>2, <1>5, <2>1, MarkResult, MarkOutcome
  <2>3. Tiles(M, lo, hi) /\ \A n \in M : n.info \in {0, i} \/ \E k \in S : n.info = k.info
    BY <2>2 DEF Marked
  <2>4. b.end \in a + 1 .. hi
    BY <1>2
  <2>. QED BY <2>2, <2>3, <2>4 DEF M
<1>6. CASE a > b.start
  <2> DEFINE M == Mark(S, b.start, a, b.type, b.info)
             N == Mark(M, a, b.end, t, i)
  <2>1. MarkInfo(S, a, t, i) = N
    BY <1>3, <1>4, <1>6 DEF MarkInfo
  <2>2. Marked(S, M, lo, hi, b.start, a, b.type, b.info)
    <3>. a \in Nat /\ a <= hi
      OBVIOUS
    <3>. QED BY <1>2, <1>6, MarkResult
  <2> HIDE DEF M
  <2>3. Tiles(M, lo, hi)
    BY <2>2 DEF Marked
  <2>4. Marked(M, N, lo, hi, a, b.end, t, i)
    BY <1>2, <2>3, MarkResult
  <2> HIDE DEF N
  <2>5. Tiles(N, lo, hi) /\ \A c \in a .. b.end - 1 : Holds(N, c, t, i)
    BY <2>4 DEF Marked
  <2>6. \A n \in N : n.info \in {0, i} \/ \E k \in S : n.info = k.info
    BY <2>2, <2>4 DEF Marked
  (* The first mark leaves all bytes before a as they were, the rest of the *)
  (* block Unknown, and everything outside the block as it was.             *)
  <2>7. /\ \A c \in (lo .. hi - 1) \ (a .. b.end - 1) : \A u, j :
              Holds(S, c, u, j) => Holds(M, c, u, j)
        /\ \A c \in a .. b.end - 1 : Holds(M, c, "Unknown", 0)
    <3>1. PICK x \in S, y \in S :
            /\ Contains(x, b.start) /\ Contains(y, a - 1)
            /\ \A c \in (lo .. hi - 1) \ (b.start .. a - 1) :
                 IF Contains(x, c) \/ Contains(y, c)
                 THEN Holds(M, c, "Unknown", 0)
                 ELSE \A u, j : Holds(S, c, u, j) => Holds(M, c, u, j)
      BY <2>2 DEF Marked
    <3>2. /\ Contains(b, b.start) /\ Contains(b, a - 1)
          /\ b.start \in Nat /\ a - 1 \in Nat /\ Sound(S)
      BY <1>2, <1>6 DEF Contains, Tiles
    <3>3. x = b /\ y = b
      BY <3>1, <3>2, HoldsOne
    <3>4. ASSUME NEW c \in b.start .. a - 1, NEW u, NEW j, Holds(S, c, u, j)
          PROVE  Holds(M, c, u, j)
      <4>1. c \in Nat /\ Contains(b, c)
        BY <1>2, <1>6 DEF Contains
      <4>2. u = b.type /\ j = b.info
        BY <3>2, <3>4, <4>1, HoldsOne
      <4>3. Holds(M, c, b.type, b.info)
        BY <2>2 DEF Marked
      <4>. QED BY <4>2, <4>3
    <3>5. ASSUME NEW c \in (lo .. hi - 1) \ (a .. b.end - 1), c \notin b.start .. a - 1
          PROVE  ~Contains(b, c)
      BY <1>2, <1>6, <3>5 DEF Contains
    <3>6. \A c \in a .. b.end - 1 :
             c \in (lo .. hi - 1) \ (b.start .. a - 1) /\ Contains(b, c)
      BY <1>2, <1>6 DEF Contains
    <3>. QED BY <3>1, <3>3, <3>4, <3>5, <3>6
  (* The second forgets only bytes that say Unknown already.                *)
  <2>8. \A c \in (lo .. hi - 1) \ (a .. b.end - 1) : \A u, j :
              Holds(M, c, u, j) => Holds(N, c, u, j)
    <3>1. PICK x \in M, y \in M :
            /\ Contains(x, a) /\ Contains(y, b.end - 1)
            /\ \A c \in (lo .. hi - 1) \ (a .. b.end - 1) :
                 IF Contains(x, c) \/ Contains(y, c)
                 THEN Holds(N, c, "Unknown", 0)
                 ELSE \A u, j : Holds(M, c, u, j) => Holds(N, c, u, j)
      BY <2>4 DEF Marked
    <3>2. /\ a \in a .. b.end - 1 /\ b.end - 1 \in a .. b.end - 1
          /\ a \in Nat /\ b.end - 1 \in Nat /\ Sound(M)
      BY <1>2, <2>3 DEF Tiles
    <3>3. x.type = "Unknown" /\ x.info = 0 /\ y.type = "Unknown" /\ y.info = 0
      BY <2>7, <3>1, <3>2, HoldsOne
    <3>4. ASSUME NEW c \in (lo .. hi - 1) \ (a .. b.end - 1), NEW u, NEW j,
                 Holds(M, c, u, j)
          PROVE  Holds(N, c, u, j)
      <4>1. CASE Contains(x, c) \/ Contains(y, c)
        <5>1. u = "Unknown" /\ j = 0
          BY <3>2, <3>3, <3>4, <4>1, HoldsOne
        <5>2. Holds(N, c, "Unknown", 0)
          BY <3>1, <4>1
        <5>. QED BY <5>1, <5>2
      <4>2. CASE ~(Contains(x, c) \/ Contains(y, c))
        BY <3>1, <3>4, <4>2
      <4>. QED BY <4>1, <4>2
    <3>. QED BY <3>4
  <2>9. Outcome(S, N, lo, hi, a, b.end)
    BY <2>5, <2>7, <2>8 DEF Outcome
  <2>10. b.end \in a + 1 .. hi
    BY <1>2
  <2>. QED BY <2>1, <2>5, <2>6, <2>9, <2>10
<1>. QED BY <1>2, <1>5, <1>6
-----------------------------------------------------------------------------
(* Stacks of calls as sequences, the innermost call first.                  *)
LEMMA HeadTail ==
  ASSUME NEW F, NEW s \in Seq(F), s # <<>>
  PROVE  /\ Head(s) \in F /\ Head(s) = s[1]
         /\ Tail(s) \in Seq(F) /\ Len(s) \in Nat /\ Len(s) > 0 /\ Len(Tail(s)) = Len(s) - 1
         /\ \A i \in 1 .. Len(s) - 1 : Tail(s)[i] = s[i + 1]
OBVIOUS

LEMMA Pushed ==
  ASSUME NEW F, NEW s \in Seq(F), NEW x \in F
  PROVE  /\ <<x>> \o s \in Seq(F) /\ <<x>> \o s # <<>> /\ Len(<<x>> \o s) = Len(s) + 1
         /\ (<<x>> \o s)[1] = x
         /\ \A i \in 1 .. Len(s) : (<<x>> \o s)[i + 1] = s[i]
         /\ Head(<<x>> \o s) = x /\ Tail(<<x>> \o s) = s
OBVIOUS

LEMMA Repushed ==
  ASSUME NEW F, NEW s \in Seq(F), s # <<>>
  PROVE  s = <<Head(s)>> \o Tail(s)
OBVIOUS
-----------------------------------------------------------------------------
(* Induction over an interval, as a fact about the set of those numbers of  *)
(* which something holds.                                                   *)
LEMMA IntervalInduction ==
  ASSUME NEW lo \in Int, NEW hi \in Int, NEW T,
         lo \in T, \A k \in lo .. hi : k # lo /\ k - 1 \in T => k \in T
  PROVE  lo .. hi \subseteq T
<1> SUFFICES ASSUME NEW x \in lo .. hi, x \notin T PROVE FALSE
  OBVIOUS
<1> DEFINE N == {n \in Nat : lo + n <= hi /\ lo + n \notin T}
<1>1. N \in SUBSET Nat /\ N # {}
  <2>1. x - lo \in N
    OBVIOUS
  <2> QED
    BY <2>1
<1>2. PICK m \in N : \A n \in N : m <= n
  <2> HIDE DEF N
  <2> QED
    BY <1>1, LeastElement
<1>3. m \in Nat /\ lo + m <= hi /\ lo + m \notin T
  BY <1>2
<1>4. m # 0
  BY <1>3
<1>5. m - 1 \in Nat /\ m - 1 \notin N
  BY <1>2, <1>3, <1>4
<1>6. lo + (m - 1) \in T
  BY <1>3, <1>5
<1>7. lo + m \in lo .. hi /\ lo + m # lo /\ (lo + m) - 1 = lo + (m - 1)
  BY <1>3, <1>4
<1> QED
  BY <1>3, <1>6, <1>7

(* A function on an interval may be defined by its first value and the      *)
(* value at each number from that at the number before.                     *)
Steps(step, lo, hi, S) == step \in [(lo .. hi) \ {lo} -> [S -> S]]

Follows(f, lo, hi, S, base, step) ==
  /\ f \in [lo .. hi -> S] /\ f[lo] = base
  /\ \A k \in (lo .. hi) \ {lo} : f[k] = step[k][f[k - 1]]

LEMMA Recursion ==
  ASSUME NEW lo \in Int, NEW hi \in Int, lo <= hi, NEW S, NEW base \in S,
         NEW step, Steps(step, lo, hi, S)
  PROVE  \E f : Follows(f, lo, hi, S, base, step)
<1>0. step \in [(lo .. hi) \ {lo} -> [S -> S]]
  BY DEF Steps
<1> DEFINE Good(f, n) == /\ f \in [lo .. n -> S] /\ f[lo] = base
                         /\ \A k \in (lo .. n) \ {lo} : f[k] = step[k][f[k - 1]]
           T == {n \in lo .. hi : \E f : Good(f, n)}
<1>1. lo \in T
  <2> DEFINE f == [k \in lo .. lo |-> base]
  <2>1. Good(f, lo) /\ lo \in lo .. hi
    OBVIOUS
  <2> HIDE DEF Good, f
  <2> QED
    BY <2>1
<1>2. ASSUME NEW n \in lo .. hi, n # lo, n - 1 \in T PROVE n \in T
  <2>1. PICK f : Good(f, n - 1)
    BY <1>2
  <2> DEFINE g == [k \in lo .. n |-> IF k = n THEN step[n][f[n - 1]] ELSE f[k]]
  <2>2. f[n - 1] \in S /\ step[n][f[n - 1]] \in S
    BY <1>0, <1>2, <2>1
  <2>3. g \in [lo .. n -> S] /\ g[lo] = base
    BY <1>2, <2>1, <2>2
  <2>4. ASSUME NEW k \in (lo .. n) \ {lo} PROVE g[k] = step[k][g[k - 1]]
    <3>1. CASE k = n
      <4>1. n # lo /\ n - 1 # n /\ n - 1 \in lo .. n /\ n \in lo .. n
        BY <1>2
      <4>2. g[n] = step[n][f[n - 1]] /\ g[n - 1] = f[n - 1]
        BY <4>1
      <4> QED
        BY <3>1, <4>2, Zenon
    <3>2. CASE k # n
      <4>1. k \in (lo .. n - 1) \ {lo} /\ g[k] = f[k] /\ g[k - 1] = f[k - 1]
        BY <3>2
      <4> QED
        BY <2>1, <4>1
    <3> QED
      BY <3>1, <3>2
  <2>5. Good(g, n)
    BY <2>3, <2>4
  <2> HIDE DEF Good, g
  <2> QED
    BY <2>5
<1>3. hi \in T
  <2> HIDE DEF T
  <2>1. lo .. hi \subseteq T
    BY <1>1, <1>2, IntervalInduction
  <2> QED
    BY <2>1
<1> QED
  BY <1>3 DEF Follows
=============================================================================
