---------------------------- MODULE ScanAngles_proofs ----------------------------
(***************************************************************************)
(* The angles of a scan, for turns, capsules and scans of any size: where a *)
(* revolution begins (CapsuleSync), and what is found at an angle           *)
(* (LidarAngles).  Both are loops over nodes.  An induction over the nodes  *)
(* is a search for the least node that breaks what is to be shown: there is *)
(* a least number in each set that has one (LeastNat).                      *)
(***************************************************************************)
EXTENDS CapsuleSync, LidarAngles, SequenceTheorems, WellFoundedInduction, TLAPS

--------------------------------------------------------------------------------
(* Division with remainder, and the two-element Min and Max.                *)
LEMMA DivUnique ==
  ASSUME NEW b \in Nat \ {0}, NEW q \in Int, NEW r \in 0 .. b - 1
  PROVE  (b * q + r) \div b = q /\ (b * q + r) % b = r
  BY SMT

LEMMA DivMod ==
  ASSUME NEW a \in Int, NEW b \in Nat \ {0}
  PROVE  /\ a \div b \in Int /\ a % b \in 0 .. b - 1
         /\ a = b * (a \div b) + (a % b)
<1>1. a \div b \in Int /\ a % b \in 0 .. b - 1
  BY SMT
<1>2. b * (a \div b) <= a /\ a < b * (a \div b) + b
  BY SMT
<1>3. a - b * (a \div b) \in 0 .. b - 1 /\ a = b * (a \div b) + (a - b * (a \div b))
  BY <1>1, <1>2
<1>4. a % b = a - b * (a \div b)
  BY <1>1, <1>3, DivUnique
<1>. QED BY <1>1, <1>3, <1>4

LEMMA DivNat ==
  ASSUME NEW a \in Nat, NEW b \in Nat \ {0}
  PROVE  a \div b \in Nat /\ b * (a \div b) <= a /\ a = b * (a \div b) + (a % b)
BY DivMod, SMT

LEMMA DivMono ==
  ASSUME NEW a \in Nat, NEW c \in Nat, NEW b \in Nat \ {0}, a <= c
  PROVE  a \div b <= c \div b
BY SMT

LEMMA ModSmall ==
  ASSUME NEW x \in Nat, NEW f \in Nat \ {0}, x < 2 * f
  PROVE  x % f = IF x < f THEN x ELSE x - f
BY SMT

LEMMA MulMono ==
  ASSUME NEW a \in Nat, NEW b \in Nat, NEW c \in Nat, a <= b
  PROVE  a * c <= b * c
BY SMT

LEMMA MinOfTwo ==
  ASSUME NEW a \in Int, NEW b \in Int
  PROVE  Min({a, b}) = IF a <= b THEN a ELSE b
BY DEF Min

LEMMA MaxOfTwo ==
  ASSUME NEW a \in Int, NEW b \in Int
  PROVE  Max({a, b}) = IF a >= b THEN a ELSE b
BY DEF Max

(* A sum or a difference of multiples of g is one.                          *)
LEMMA Multiple ==
  ASSUME NEW g \in Nat \ {0}, NEW x \in Int, NEW y \in Int, x % g = 0, y % g = 0,
         NEW z \in Int, z = x + y \/ z = x - y
  PROVE  z % g = 0
<1> DEFINE p == x \div g
<1> DEFINE q == y \div g
<1>1. p \in Int /\ q \in Int /\ x = g * p /\ y = g * q
  BY DivMod
<1> HIDE DEF p, q
<1>2. p + q \in Int /\ p - q \in Int
  BY <1>1
<1>3. z = g * (p + q) + 0 \/ z = g * (p - q) + 0
  BY <1>1
<1>4. 0 \in 0 .. g - 1
  OBVIOUS
<1>5. (g * (p + q) + 0) % g = 0 /\ (g * (p - q) + 0) % g = 0
  BY DivUnique, <1>2, <1>4
<1>. QED BY <1>3, <1>5

--------------------------------------------------------------------------------
(* Least numbers, and the loops.                                            *)
LEMMA LeastNat ==
  ASSUME NEW S \in SUBSET Nat, S # {}
  PROVE  \E x \in S : \A y \in S : x <= y
<1> DEFINE R == {ss \in Nat \X Nat : ss[1] < ss[2]}
<1>1. IsWellFoundedOn(R, Nat)
  BY NatLessThanWellFounded, Zenon DEF OpToRel
<1> HIDE DEF R
<1>2. PICK x \in S : \A y \in S : << y, x >> \notin R
  BY <1>1, WFMin
<1>3. \A y \in S : ~(y < x)
  BY <1>2 DEF R
<1>4. x \in Nat /\ \A y \in S : y \in Nat
  OBVIOUS
<1>. QED BY <1>3, <1>4

LEMMA LeastIsFound ==
  ASSUME NEW S \in SUBSET Nat, S # {}
  PROVE  Min(S) \in S /\ \A y \in S : Min(S) <= y
BY LeastNat DEF Min

LEMMA GreatestIsFound ==
  ASSUME NEW S \in SUBSET Nat, S # {}, NEW b \in Nat, \A x \in S : x <= b
  PROVE  Max(S) \in S /\ \A y \in S : Max(S) >= y
<1> DEFINE T == {b - x : x \in S}
<1>0. \A x \in S : b - x \in Nat
  OBVIOUS
<1>1. T \in SUBSET Nat /\ T # {}
  BY <1>0
<1>2. PICK t \in T : \A y \in T : t <= y
  BY <1>1, LeastNat
<1>3. PICK x \in S : t = b - x
  BY <1>2
<1>4. \A y \in S : b - y \in T /\ y \in Nat
  OBVIOUS
<1> HIDE DEF T
<1>5. \A y \in S : x >= y
  BY <1>2, <1>3, <1>4
<1>. QED BY <1>5 DEF Max

(* What a loop keeps from one step to the next it has kept at each.          *)
LEMMA LoopKeeps ==
  ASSUME NEW n \in Nat, NEW f, NEW P, f[0] \in P[0],
         \A i \in 1 .. n : f[i - 1] \in P[i - 1] => f[i] \in P[i]
  PROVE  \A i \in 0 .. n : f[i] \in P[i]
<1> DEFINE S == {i \in 0 .. n : f[i] \notin P[i]}
<1>1. SUFFICES ASSUME S # {} PROVE FALSE
  OBVIOUS
<1>2. PICK i \in S : \A y \in S : i <= y
  <2>1. S \in SUBSET Nat
    OBVIOUS
  <2> HIDE DEF S
  <2>. QED BY <1>1, <2>1, LeastNat
<1>3. i \in 0 .. n /\ f[i] \notin P[i]
  OBVIOUS
<1>4. i \in 1 .. n
  BY <1>3
<1>5. i - 1 \in 0 .. n /\ i - 1 \notin S
  BY <1>2, <1>4
<1>. QED BY <1>3, <1>4, <1>5

(* f is what a variable of S is after each of n steps.                       *)
IsLoop(f, n, S, base, F) ==
  f \in [0 .. n -> S] /\ f[0] = base /\ \A i \in 1 .. n : f[i] = F[i][f[i - 1]]

(* Every loop has its f: the least number of steps for which there is none   *)
(* would follow one for which there is.                                      *)
LEMMA LoopDefined ==
  ASSUME NEW n \in Nat, NEW S, NEW base \in S, NEW F \in [1 .. n -> [S -> S]]
  PROVE  \E f : IsLoop(f, n, S, base, F)
<1> USE DEF IsLoop
<1> DEFINE Solves(f, k) == IsLoop(f, k, S, base, F)
<1> DEFINE U == {k \in 0 .. n : ~ \E f : Solves(f, k)}
<1>1. SUFFICES ASSUME n \in U PROVE FALSE
  <2>1. n \in 0 .. n
    OBVIOUS
  <2>2. PICK f : Solves(f, n)
    BY <2>1
  <2>. QED BY <2>2
<1>2. PICK k \in U : \A y \in U : k <= y
  <2>1. U \in SUBSET Nat /\ U # {}
    BY <1>1
  <2>. HIDE DEF U
  <2>. QED BY <2>1, LeastNat
<1>3. k \in 0 .. n /\ ~ \E f : Solves(f, k)
  OBVIOUS
<1>4. k # 0
  <2>1. Solves([i \in 0 .. 0 |-> base], 0)
    OBVIOUS
  <2>. QED BY <2>1, <1>3
<1>5. k \in 1 .. n /\ k - 1 \in 0 .. n /\ k - 1 \notin U
  BY <1>2, <1>3, <1>4
<1>6. PICK f : Solves(f, k - 1)
  BY <1>5
<1>7. F[k][f[k - 1]] \in S
  <2>1. k - 1 \in 0 .. k - 1
    BY <1>5
  <2>. QED BY <1>5, <1>6, <2>1
<1> DEFINE g == [i \in 0 .. k |-> IF i = k THEN F[k][f[k - 1]] ELSE f[i]]
<1>8. g \in [0 .. k -> S] /\ g[0] = base
  <2>1. ASSUME NEW i \in 0 .. k
        PROVE  (IF i = k THEN F[k][f[k - 1]] ELSE f[i]) \in S
    <3>1. CASE i = k
      BY <3>1, <1>7
    <3>2. CASE i # k
      <4>1. i \in 0 .. k - 1
        BY <3>2, <1>5
      <4>. QED BY <4>1, <3>2, <1>6
    <3>. QED BY <3>1, <3>2
  <2>2. 0 \in 0 .. k /\ 0 # k
    BY <1>5
  <2>. QED BY <1>6, <2>1, <2>2
<1>9. ASSUME NEW i \in 1 .. k
      PROVE  g[i] = F[i][g[i - 1]]
  <2>1. CASE i = k
    BY <2>1, <1>5
  <2>2. CASE i # k
    <3>1. i \in 1 .. k - 1 /\ i - 1 # k /\ i \in 0 .. k /\ i - 1 \in 0 .. k
      BY <2>2, <1>5
    <3>. QED BY <2>2, <3>1, <1>6
  <2>. QED BY <2>1, <2>2
<1>10. Solves(g, k)
  BY <1>8, <1>9
<1>. QED BY <1>3, <1>10

--------------------------------------------------------------------------------
(* The sync bits of capsules.                                               *)
(* Among nodes i apart the first beyond F comes after one that is not.       *)
LEMMA Crossing ==
  ASSUME NEW F \in Nat, NEW s \in 0 .. F - 1, NEW i \in Nat, NEW n \in Nat, s + n * i >= F
  PROVE  \E p \in 1 .. n : s + p * i >= F /\ s + (p - 1) * i < F
<1> DEFINE S == {p \in 0 .. n : s + p * i >= F}
<1>1. S \in SUBSET Nat /\ n \in S
  OBVIOUS
<1>2. PICK p \in S : \A y \in S : p <= y
  BY <1>1, LeastNat
<1>3. p \in 0 .. n /\ s + p * i >= F
  OBVIOUS
<1>4. p # 0
  BY <1>3
<1>5. p - 1 \in 0 .. n /\ p - 1 \notin S
  BY <1>2, <1>3, <1>4
<1>6. (p - 1) * i \in Int
  BY <1>3
<1>7. s + (p - 1) * i < F
  BY <1>5, <1>6
<1>. QED BY <1>3, <1>4, <1>7

LEMMA Steps ==
  ASSUME NEW i \in Nat, NEW p \in Nat, NEW q \in Nat
  PROVE  /\ p * i \in Nat
         /\ p < q => p * i + i <= q * i
         /\ p <= q => p * i <= q * i
<1>1. p * i \in Nat /\ q * i \in Nat
  OBVIOUS
<1>2. p <= q => p * i <= q * i
  BY MulMono
<1>3. ASSUME p < q
      PROVE  p * i + i <= q * i
  <2>1. p + 1 \in Nat /\ p + 1 <= q
    BY <1>3
  <2>2. (p + 1) * i <= q * i
    BY <2>1, MulMono
  <2>3. (p + 1) * i = p * i + i
    OBVIOUS
  <2>. QED BY <2>2, <2>3
<1>. QED BY <1>1, <1>2, <1>3

(* The recursion of DenseSyncBits has a solution.                            *)
IsSolution(g, n, last, W) ==
  /\ g \in [0 .. n -> BOOLEAN]
  /\ g[0] = last /\ \A p \in 1 .. n : g[p] = (W[p] /\ ~g[p - 1])

LEMMA DenseSyncBitsDefined ==
  ASSUME NEW n \in Nat, NEW last \in BOOLEAN, NEW W \in [1 .. n -> BOOLEAN]
  PROVE  \E g : IsSolution(g, n, last, W)
<1> DEFINE F == [p \in 1 .. n |-> [bit \in BOOLEAN |-> W[p] /\ ~bit]]
<1>1. F \in [1 .. n -> [BOOLEAN -> BOOLEAN]]
  OBVIOUS
<1>2. PICK g : IsLoop(g, n, BOOLEAN, last, F)
  <2> HIDE DEF F
  <2>. QED BY <1>1, LoopDefined, Zenon
<1>3. ASSUME NEW p \in 1 .. n
      PROVE  g[p] = (W[p] /\ ~g[p - 1])
  <2>1. p - 1 \in 0 .. n
    OBVIOUS
  <2>2. g[p - 1] \in BOOLEAN /\ g[p] = F[p][g[p - 1]]
    BY <1>2, <2>1 DEF IsLoop
  <2>. QED BY <2>2
<1>. QED BY <1>2, <1>3 DEF IsLoop, IsSolution

--------------------------------------------------------------------------------
(* What the sync bits of the n nodes of a capsule say, that start at s and   *)
(* are i apart: a node with the bit is within two steps behind angle zero,   *)
(* or it is the first and the capsule itself starts within a step of it; two *)
(* nodes with the bit are a turn apart; where there is none, or only that    *)
(* first one, angle zero is not passed.                                      *)
SyncFacts(sync, s, i, n, isDense, last) ==
  /\ \A p \in 1 .. n : sync[p] =>
       \/ Full <= s + p * i /\ s + p * i < Full + 2 * i
       \/ isDense /\ ~last /\ p = 1 /\ s < i /\ s + i < Full
  /\ \A p, q \in 1 .. n : sync[p] /\ sync[q] /\ p < q =>
       isDense /\ ~last /\ p = 1 /\ s < i /\ s + i < Full /\ Full <= s + q * i
  /\ (\A p \in 1 .. n : ~sync[p]) => s + n * i < Full
  /\ isDense /\ s + i < Full /\ (\A p \in 2 .. n : ~sync[p]) => s + n * i < Full
  /\ isDense /\ ~last /\ 0 < i /\ s < i => sync[1]

LEMMA PlainSyncFacts ==
  ASSUME NEW s \in 0 .. Full - 1, NEW i \in Nat, NEW n \in Nat \ {0}, s + n * i < 2 * Full,
         NEW last, NEW sync, \A p \in 1 .. n : sync[p] <=> (s + p * i) % Full < i
  PROVE  SyncFacts(sync, s, i, n, FALSE, last)
<1>1. Full \in Nat \ {0}
  BY AnglesAssumption
<1>2. ASSUME NEW p \in 1 .. n
      PROVE  /\ p * i \in Nat /\ i <= p * i /\ s + p * i < 2 * Full
             /\ sync[p] <=> Full <= s + p * i /\ s + p * i < Full + i
  <2>1. p * i \in Nat /\ 1 * i <= p * i /\ p * i <= n * i
    BY Steps
  <2> DEFINE x == s + p * i
  <2>3. x \in Nat /\ x < 2 * Full
    BY <1>1, <2>1
  <2> HIDE DEF x
  <2>2. x % Full = IF x < Full THEN x ELSE x - Full
    BY <1>1, <2>3, ModSmall
  <2> USE DEF x
  <2>. QED BY <1>1, <2>1, <2>2
<1>3. ASSUME NEW p \in 1 .. n, NEW q \in 1 .. n, sync[p], sync[q], p < q
      PROVE  FALSE
  <2>1. p * i + i <= q * i
    BY <1>3, Steps
  <2>. QED BY <1>1, <1>2, <1>3, <2>1
<1>4. ASSUME \A p \in 1 .. n : ~sync[p], ~(s + n * i < Full)
      PROVE  FALSE
  <2>1. n * i \in Nat
    OBVIOUS
  <2>2. PICK p \in 1 .. n : s + p * i >= Full /\ s + (p - 1) * i < Full
    <3>1. s + n * i >= Full
      BY <1>1, <1>4, <2>1
    <3>. QED BY <1>1, <3>1, Crossing
  <2>3. (p - 1) * i = p * i - i
    OBVIOUS
  <2>. QED BY <1>1, <1>2, <1>4, <2>2, <2>3
<1>5. n * i \in Nat
  OBVIOUS
<1>. QED BY <1>1, <1>2, <1>3, <1>4, <1>5 DEF SyncFacts

LEMMA DenseSyncFacts ==
  ASSUME NEW s \in 0 .. Full - 1, NEW i \in Nat, NEW n \in Nat, n > 2, s + n * i < 2 * Full,
         NEW last \in BOOLEAN, NEW sync, sync[0] <=> last,
         \A p \in 1 .. n : sync[p] <=> ((s + p * i) % Full < 2 * i /\ ~sync[p - 1])
  PROVE  SyncFacts(sync, s, i, n, TRUE, last)
<1>1. Full \in Nat \ {0}
  BY AnglesAssumption
<1>2. ASSUME NEW p \in 1 .. n
      PROVE  /\ p * i \in Nat /\ i <= p * i /\ s + p * i < 2 * Full
             /\ s + p * i < Full => (sync[p] <=> s + p * i < 2 * i /\ ~sync[p - 1])
             /\ Full <= s + p * i => (sync[p] <=> s + p * i < Full + 2 * i /\ ~sync[p - 1])
  <2>1. p * i \in Nat /\ 1 * i <= p * i /\ p * i <= n * i
    BY Steps
  <2> DEFINE x == s + p * i
  <2>3. x \in Nat /\ x < 2 * Full
    BY <1>1, <2>1
  <2> HIDE DEF x
  <2>2. x % Full = IF x < Full THEN x ELSE x - Full
    BY <1>1, <2>3, ModSmall
  <2> USE DEF x
  <2>. QED BY <1>1, <2>1, <2>2
<1>3. ASSUME NEW p \in 1 .. n, sync[p], s + p * i < Full
      PROVE  ~last /\ p = 1 /\ s < i /\ s + i < Full
  <2>1. s + p * i < 2 * i /\ ~sync[p - 1]
    BY <1>2, <1>3
  <2>2. p > 1 => 1 * i + i <= p * i
    BY Steps
  <2>3. p = 1
    BY <2>1, <2>2
  <2>. QED BY <1>3, <2>1, <2>3
<1>4. ASSUME NEW p \in 1 .. n, NEW q \in 1 .. n, sync[p], sync[q], p < q
      PROVE  s + p * i < Full /\ Full <= s + q * i
  <2>1. p + 1 <= q /\ p + 1 \in 1 .. n /\ (p + 1) * i = p * i + i
    BY <1>4
  <2>2. q # p + 1
    BY <1>2, <1>4
  <2>3. p + 1 < q
    BY <2>1, <2>2
  <2>4. (p + 1) * i + i <= q * i
    BY <2>1, <2>3, Steps
  <2>5. s + p * i < Full
    BY <1>1, <1>2, <1>4, <2>1, <2>4
  <2>6. Full <= s + q * i
    BY <1>1, <1>2, <1>3, <1>4
  <2>. QED BY <2>5, <2>6
<1>5. ASSUME ~(s + n * i < Full)
      PROVE  \E p \in 1 .. n : /\ Full <= s + p * i /\ s + p * i < Full + i
                               /\ sync[p] \/ sync[p - 1]
                               /\ p = n \/ sync[p] \/ sync[p + 1]
  <2>1. n * i \in Nat
    OBVIOUS
  <2>2. PICK p \in 1 .. n : s + p * i >= Full /\ s + (p - 1) * i < Full
    <3>1. s + n * i >= Full
      BY <1>1, <1>5, <2>1
    <3>. QED BY <1>1, <3>1, Crossing
  <2>3. (p - 1) * i = p * i - i
    OBVIOUS
  <2>4. p * i \in Nat /\ s + p * i < Full + i
    BY <1>1, <1>2, <2>2, <2>3
  <2>5. sync[p] \/ sync[p - 1]
    BY <1>1, <1>2, <2>2, <2>4
  <2>6. ASSUME p # n, ~sync[p]
        PROVE  sync[p + 1]
    <3>1. p + 1 \in 1 .. n /\ (p + 1) * i = p * i + i /\ (p + 1) - 1 = p
      BY <2>6
    <3>. QED BY <1>1, <1>2, <2>2, <2>4, <2>6, <3>1
  <2>. QED BY <2>2, <2>4, <2>5, <2>6
<1>6. ASSUME \A p \in 2 .. n : ~sync[p], s + i < Full \/ ~sync[1]
      PROVE  s + n * i < Full
  <2>1. SUFFICES ASSUME ~(s + n * i < Full) PROVE FALSE
    BY <1>1, Steps
  <2>2. PICK p \in 1 .. n : /\ Full <= s + p * i /\ s + p * i < Full + i
                            /\ sync[p] \/ sync[p - 1]
                            /\ p = n \/ sync[p] \/ sync[p + 1]
    BY <1>5, <2>1
  <2>3. ~sync[p]
    BY <1>1, <1>6, <2>2
  <2>4. p = n
    BY <1>6, <2>2, <2>3
  <2>. QED BY <1>6, <2>2, <2>3, <2>4
<1>7. ASSUME ~last, 0 < i, s < i
      PROVE  sync[1]
  <2>1. 1 \in 1 .. n /\ 1 * i = i /\ 1 - 1 = 0
    OBVIOUS
  <2>. QED BY <1>1, <1>2, <1>7, <2>1
<1>8. ASSUME NEW p \in 1 .. n, sync[p], Full <= s + p * i
      PROVE  s + p * i < Full + 2 * i
  BY <1>2, <1>8
<1>9. n * i \in Nat /\ \A p \in 1 .. n : p * i \in Nat
  BY <1>2
<1>10. ASSUME NEW p \in 1 .. n, sync[p]
       PROVE  \/ Full <= s + p * i /\ s + p * i < Full + 2 * i
              \/ ~last /\ p = 1 /\ s < i /\ s + i < Full
  BY <1>1, <1>3, <1>8, <1>9, <1>10
<1>11. ASSUME NEW p \in 1 .. n, NEW q \in 1 .. n, sync[p], sync[q], p < q
       PROVE  ~last /\ p = 1 /\ s < i /\ s + i < Full /\ Full <= s + q * i
  BY <1>3, <1>4, <1>11
<1>. QED BY <1>6, <1>7, <1>10, <1>11 DEF SyncFacts

--------------------------------------------------------------------------------
(* The bit that the dense handler in use keeps from one capsule to the next. *)
LastBit == IF format = "dense" THEN lastNodeSyncBit ELSE _last_node_sync_bit

Capped(x) == IF x <= MaxTravelled THEN x ELSE MaxTravelled

(* Nothing is travelled before the first capsule of a scan.                  *)
NothingTravelled ==
  ~_is_previous_capsuledataRdy /\ since # "gap" => since = "start" /\ travelled = 0

(* At most one step more was travelled than lies between angle zero and the  *)
(* cached capsule, or it starts so near beyond angle zero, passed in what    *)
(* the division cut off, that its first node will have the bit.              *)
NotMissed ==
  since # "gap" /\ format # "ultra" =>
    \/ travelled <= start + LargestStep
    \/ /\ format \in Dense /\ ~LastBit /\ travelled <= Full + start + LargestStep
       /\ start <= LargestStep
       /\ \A d \in Diffs : d # 0 => start < d \div Points[format]

(* And at most one step less, or almost a turn more; if a node next to angle  *)
(* zero may have the bit although an earlier one had it, the capsule starts  *)
(* a step of the last one beyond.                                            *)
NotShort ==
  since = "sync" =>
    /\ travelled >= start - LargestStep
    /\ format \in Dense /\ ~LastBit =>
         start >= angleInc \/ travelled >= Full + start - LargestStep

IInv == ScanIsNotShort /\ NothingTravelled /\ NotMissed /\ NotShort

LEMMA ConstantsAreNumbers ==
  ASSUME TypeOK
  PROVE  /\ Full \in Nat \ {0} /\ MaxTravelled \in Nat /\ MaxTravelled > 2 * Full
         /\ Points[format] \in Nat \ {0} /\ start \in 0 .. Full - 1
         /\ \A d \in Diffs : d \in 0 .. Full - 1
  BY AnglesAssumption, PointsAssumption DEF TypeOK, Starts

LEMMA StepsAreNatural ==
  ASSUME TypeOK, NEW d \in Diffs
  PROVE  LET n == Points[format]
             i == d \div n
         IN /\ i \in 0 .. Full /\ n * i \in Nat /\ n * i <= d /\ d = n * i + (d % n) /\ i <= LargestStep
            /\ LargestStep \in Nat
<1>1. Points[format] \in Nat \ {0} /\ Full \in Nat
  BY ConstantsAreNumbers
<1>2. d \in Nat /\ d < Full
  BY ConstantsAreNumbers
<1>3. Diffs \in SUBSET Nat /\ Diffs # {} /\ \A x \in Diffs : x <= Full
  BY ConstantsAreNumbers
<1>4. Max(Diffs) \in Diffs /\ Max(Diffs) >= d
  BY <1>1, <1>3, GreatestIsFound
<1>5. Max(Diffs) \in Nat /\ d <= Max(Diffs)
  BY <1>2, <1>3, <1>4
<1>6. d \div Points[format] <= LargestStep
  BY <1>1, <1>2, <1>5, DivMono DEF LargestStep
<1>7. LargestStep \in Nat
  BY <1>1, <1>5, DivNat DEF LargestStep
<1>8. /\ d \div Points[format] \in Nat /\ Points[format] * (d \div Points[format]) <= d
      /\ d = Points[format] * (d \div Points[format]) + (d % Points[format])
  BY <1>1, <1>2, DivNat
<1>9. d \div Points[format] <= d
  BY <1>1, <1>2
<1>10. Points[format] * (d \div Points[format]) \in Nat
  BY <1>1, <1>8
<1>. QED BY <1>1, <1>2, <1>6, <1>7, <1>8, <1>9, <1>10

LEMMA Turning ==
  ASSUME NEW s \in Starts, NEW d \in Diffs
  PROVE  /\ (s + d) % Full \in Starts
         /\ (s + d) % Full = IF s + d < Full THEN s + d ELSE s + d - Full
         /\ diffAngle((s + d) % Full, s) = d
<1>1. /\ Full \in Nat \ {0} /\ Grain \in Nat \ {0} /\ Full % Grain = 0
      /\ d \in Nat /\ d < Full /\ d % Grain = 0 /\ s \in Nat /\ s < Full /\ s % Grain = 0
  BY AnglesAssumption DEF Starts
<1> DEFINE x == s + d
<1> DEFINE y == x - Full
<1>3. x \in Nat /\ x < 2 * Full /\ x = s + d /\ y \in Int /\ y = x - Full
  BY <1>1
<1> HIDE DEF x, y
<1>2. x % Full = IF x < Full THEN x ELSE x - Full
  BY <1>1, <1>3, ModSmall
<1>8. s \in Int /\ d \in Int /\ x \in Int /\ Full \in Int
  BY <1>1, <1>3
<1>4. x % Grain = 0
  BY <1>1, <1>3, <1>8, Multiple, Zenon
<1>7. y % Grain = 0
  BY <1>1, <1>3, <1>4, <1>8, Multiple, Zenon
<1>5. (s + d) % Full \in Starts
  BY <1>1, <1>2, <1>3, <1>4, <1>7 DEF Starts
<1>6. diffAngle((s + d) % Full, s) = d
  BY <1>1, <1>2, <1>3 DEF diffAngle
<1>9. (s + d) % Full = IF s + d < Full THEN s + d ELSE s + d - Full
  BY <1>1, <1>2, <1>3
<1>. QED BY <1>5, <1>6, <1>9, Zenon

LEMMA WithinOfNode ==
  ASSUME TypeOK, NEW i \in Nat, NEW w \in Nat, NEW p \in 1 .. Points[format]
  PROVE  Within(w, p, i) <=> (start + p * i) % Full < w
<1>1. start \in Int /\ p \in Int /\ i \in Int /\ p * i \in Int /\ (p - 1) * i = p * i - i
  BY ConstantsAreNumbers
<1>2. start + (p - 1) * i + i = start + p * i
  BY <1>1
<1>. QED BY <1>2 DEF Within, Raw

LEMMA DenseSyncBitsValues ==
  ASSUME TypeOK, NEW i \in Nat, NEW last \in BOOLEAN
  PROVE  LET sync == DenseSyncBits(i, last)
         IN /\ sync[0] <=> last
            /\ \A p \in 0 .. Points[format] : sync[p] \in BOOLEAN
            /\ \A p \in 1 .. Points[format] :
                 sync[p] <=> ((start + p * i) % Full < 2 * i /\ ~sync[p - 1])
<1> DEFINE n == Points[format]
<1> DEFINE W == [p \in 1 .. n |-> Within(2 * i, p, i)]
<1> DEFINE Recursion(g) == g = [pos \in 0 .. n |-> IF pos = 0 THEN last ELSE Within(2 * i, pos, i) /\ ~g[pos - 1]]
<1>1. n \in Nat \ {0}
  BY ConstantsAreNumbers
<1>2. \A p \in 1 .. n : Within(2 * i, p, i) \in BOOLEAN
  BY DEF Within
<1>3. W \in [1 .. n -> BOOLEAN] /\ \A p \in 1 .. n : W[p] = Within(2 * i, p, i)
  BY <1>2
<1> HIDE DEF W
<1>4. PICK g : IsSolution(g, n, last, W)
  <2>1. n \in Nat
    BY <1>1
  <2> HIDE DEF n
  <2>. QED BY <2>1, <1>3, DenseSyncBitsDefined
<1> USE DEF IsSolution
<1>5. \A p \in 1 .. n : g[p] = (Within(2 * i, p, i) /\ ~g[p - 1])
  BY <1>3, <1>4
<1>6. Recursion(g)
  <2>1. ASSUME NEW p \in 0 .. n
        PROVE  g[p] = IF p = 0 THEN last ELSE Within(2 * i, p, i) /\ ~g[p - 1]
    <3>1. CASE p = 0
      BY <3>1, <1>4
    <3>2. CASE p # 0
      <4>1. p \in 1 .. n
        BY <1>1, <3>2
      <4>. QED BY <4>1, <3>2, <1>5
    <3>. QED BY <3>1, <3>2
  <2>. QED BY <2>1, <1>4
<1> DEFINE f == CHOOSE h : Recursion(h)
<1>7. Recursion(f)
  BY <1>6
<1>8. DenseSyncBits(i, last) = f
  BY DEF DenseSyncBits
<1> HIDE DEF f
<1>9. f[0] = last
  BY <1>1, <1>7
<1>10. ASSUME NEW p \in 1 .. n
       PROVE  f[p] = (Within(2 * i, p, i) /\ ~f[p - 1])
  <2>1. p \in 0 .. n /\ p # 0
    BY <1>1
  <2>. QED BY <1>7, <2>1
<1>11. \A p \in 0 .. n : f[p] \in BOOLEAN
  <2>1. ASSUME NEW p \in 0 .. n
        PROVE  f[p] \in BOOLEAN
    <3>1. CASE p = 0
      BY <3>1, <1>9
    <3>2. CASE p # 0
      <4>1. p \in 1 .. n
        BY <1>1, <3>2
      <4>. QED BY <4>1, <1>10
    <3>. QED BY <3>1, <3>2
  <2>. QED BY <2>1
<1>12. ASSUME NEW p \in 1 .. n
       PROVE  f[p] <=> ((start + p * i) % Full < 2 * i /\ ~f[p - 1])
  <2>1. 2 * i \in Nat
    OBVIOUS
  <2>2. Within(2 * i, p, i) <=> (start + p * i) % Full < 2 * i
    BY <2>1, WithinOfNode
  <2>. QED BY <1>10, <2>2
<1>. QED BY <1>8, <1>9, <1>11, <1>12

LEMMA Capping ==
  ASSUME NEW x \in Int
  PROVE  Min({MaxTravelled, x}) = Capped(x)
BY MinOfTwo, AnglesAssumption DEF Capped

(* What Observe makes of the bits of a capsule: with none, the lidar has     *)
(* travelled on; else it has travelled from the last of them, and each turn  *)
(* told ends at one of them and begins at another or in an earlier capsule.  *)
LEMMA Observed ==
  ASSUME TypeOK, NEW i \in Nat, NEW d \in Nat, NEW sync,
         \A p \in 1 .. Points[format] : sync[p] \in BOOLEAN,
         Observe(sync, i, d)
  PROVE  LET n == Points[format]
         IN /\ faster' = (i > angleInc)
            /\ \/ /\ \A p \in 1 .. n : ~sync[p]
                  /\ turns' = {} /\ since' = since /\ travelled' = Capped(travelled + d)
               \/ /\ since' = "sync"
                  /\ \E m \in 1 .. n : /\ sync[m] /\ \A p \in 1 .. n : m < p => ~sync[p]
                                       /\ travelled' = Capped(d - (m - 1) * i)
                  /\ \A t \in turns' : \E p \in 1 .. n :
                       /\ sync[p]
                       /\ \/ since = "sync" /\ t = Capped(travelled + (p - 1) * i)
                          \/ \E q \in 1 .. n : sync[q] /\ q < p /\ t = Capped((p - q) * i)
<1> DEFINE n == Points[format]
<1> DEFINE at == {pos \in 1 .. n : sync[pos]}
<1> DEFINE before(pos) == {p \in at : p < pos}
<1> DEFINE turn(pos) == IF before(pos) = {} THEN travelled + (pos - 1) * i
                        ELSE (pos - Max(before(pos))) * i
<1> DEFINE seen == {pos \in at : before(pos) # {} \/ since = "sync"}
<1>1. n \in Nat \ {0} /\ at \in SUBSET Nat /\ \A p \in at : p <= n
  BY ConstantsAreNumbers
<1>2. travelled \in Nat
  BY AnglesAssumption DEF TypeOK
<1>3. /\ turns' = {Min({MaxTravelled, turn(pos)}) : pos \in seen}
      /\ since' = IF at = {} THEN since ELSE "sync"
      /\ travelled' = Min({MaxTravelled, IF at = {} THEN travelled + d ELSE d - (Max(at) - 1) * i})
      /\ faster' = (i > angleInc)
  BY DEF Observe
<1>4. CASE at = {}
  <2>1. \A p \in 1 .. n : ~sync[p]
    BY <1>4
  <2>2. turns' = {} /\ since' = since
    BY <1>3, <1>4
  <2>3. travelled' = Capped(travelled + d)
    BY <1>2, <1>3, <1>4, Capping
  <2>. QED BY <1>3, <2>1, <2>2, <2>3
<1>5. CASE at # {}
  <2>1. Max(at) \in at /\ \A y \in at : Max(at) >= y
    <3> HIDE DEF at
    <3>. QED BY <1>1, <1>5, GreatestIsFound
  <2> DEFINE m == Max(at)
  <2>2. m \in 1 .. n /\ sync[m]
    BY <2>1
  <2>3. \A p \in 1 .. n : m < p => ~sync[p]
    <3> SUFFICES ASSUME NEW p \in 1 .. n, m < p, sync[p] PROVE FALSE
      OBVIOUS
    <3>1. p \in at /\ m \in Nat
      BY <2>2
    <3> HIDE DEF at
    <3>. QED BY <2>1, <3>1
  <2>4. travelled' = Capped(d - (m - 1) * i)
    <3>1. d - (m - 1) * i \in Int
      BY <2>2
    <3> HIDE DEF m
    <3>2. Min({MaxTravelled, d - (m - 1) * i}) = Capped(d - (m - 1) * i)
      BY <3>1, Capping
    <3>. QED BY <1>3, <1>5, <3>2 DEF m
  <2>5. ASSUME NEW t \in turns'
        PROVE  \E p \in 1 .. n :
                 /\ sync[p]
                 /\ \/ since = "sync" /\ t = Capped(travelled + (p - 1) * i)
                    \/ \E q \in 1 .. n : sync[q] /\ q < p /\ t = Capped((p - q) * i)
    <3>1. PICK p \in seen : t = Min({MaxTravelled, turn(p)})
      BY <1>3
    <3>2. p \in 1 .. n /\ sync[p]
      OBVIOUS
    <3>3. CASE before(p) = {}
      <4>1. since = "sync" /\ t = Min({MaxTravelled, travelled + (p - 1) * i})
        BY <3>1, <3>3
      <4>2. travelled + (p - 1) * i \in Int
        BY <1>2, <3>2
      <4>3. t = Capped(travelled + (p - 1) * i)
        BY <4>1, <4>2, Capping
      <4>. QED BY <3>2, <4>1, <4>3
    <3>4. CASE before(p) # {}
      <4> DEFINE b == before(p)
      <4> DEFINE q == Max(b)
      <4>1. b \in SUBSET Nat /\ b # {} /\ \A y \in b : y <= n
        BY <1>1, <3>4
      <4>2. q \in b
        <5> HIDE DEF b
        <5>. QED BY <1>1, <4>1, GreatestIsFound
      <4>3. q \in 1 .. n /\ sync[q] /\ q < p
        BY <4>2
      <4>4. t = Min({MaxTravelled, (p - q) * i})
        BY <3>1, <3>4
      <4> HIDE DEF q
      <4>5. (p - q) * i \in Int
        BY <3>2, <4>3
      <4>6. t = Capped((p - q) * i)
        BY <4>4, <4>5, Capping
      <4>. QED BY <3>2, <4>3, <4>6
    <3>. QED BY <3>3, <3>4
  <2>6. since' = "sync"
    BY <1>3, <1>5
  <2> HIDE DEF m
  <2>. QED BY <1>3, <2>2, <2>3, <2>4, <2>5, <2>6
<1>. QED BY <1>4, <1>5

LEMMA PublishedNodes ==
  ASSUME TypeOK, NEW i \in Nat, NEW d, NEW offset \in Nat, NEW sync,
         \A p \in 1 .. Points[format] : sync[p] \in BOOLEAN,
         Publish(sync, i, d, offset)
  PROVE  published' \in [1 .. Points[format] -> Node]
<1>1. ASSUME NEW p \in 1 .. Points[format]
      PROVE  angle_q6(Raw(p, i) - offset) \in Angles
  <2> DEFINE raw == Raw(p, i) - offset
  <2> DEFINE c == Full \div Grain
  <2>1. start \in Int /\ p \in Int /\ (p - 1) * i \in Int
    BY ConstantsAreNumbers
  <2>2. raw \in Int
    BY <2>1 DEF Raw
  <2>3. Full \in Nat \ {0} /\ Grain \in Nat \ {0} /\ Full % Grain = 0
    BY AnglesAssumption
  <2>4. c \in Nat \ {0}
    <3>1. c \in Nat /\ Full = Grain * c + 0
      BY <2>3, DivNat
    <3>. QED BY <2>3, <3>1
  <2> HIDE DEF raw, c
  <2>5. raw \div Grain \in Int
    BY <2>2, <2>3, DivMod
  <2>6. (raw \div Grain) % c \in 0 .. c - 1
    BY <2>4, <2>5, DivMod
  <2>. QED BY <2>6 DEF angle_q6, Angles, raw, c
<1>2. published' = [pos \in 1 .. Points[format] |->
                     [angle |-> angle_q6(Raw(pos, i) - offset), sync |-> sync[pos]]]
  BY DEF Publish
<1>. QED BY <1>1, <1>2 DEF Node

(* A capsule that is unpacked: its bits, and what they leave behind.         *)
LEMMA Unpacking ==
  ASSUME TypeOK, NEW d \in Diffs, CapsuleArrives(d)
  PROVE  LET n == Points[format]
             i == d \div n
         IN /\ start' \in Starts /\ _is_previous_capsuledataRdy' = TRUE /\ format' = format
            /\ start' = IF start + d < Full THEN start + d ELSE start + d - Full
            /\ published' \in [1 .. n -> Node] /\ angleInc' = i
            /\ {lastNodeSyncBit', _last_node_sync_bit'} \subseteq BOOLEAN
            /\ \E sync : /\ \A p \in 1 .. n : sync[p] \in BOOLEAN
                         /\ SyncFacts(sync, start, i, n, format \in Dense, LastBit)
                         /\ Observe(sync, i, d)
                         /\ format \in Dense => (LastBit' <=> sync[n])
<1> DEFINE n == Points[format]
<1> DEFINE i == d \div n
<1>1. /\ n \in Nat \ {0} /\ Full \in Nat \ {0} /\ start \in 0 .. Full - 1 /\ d \in Nat /\ d < Full
      /\ i \in Nat /\ n * i \in Nat /\ n * i <= d /\ start + n * i < 2 * Full
  <2>1. n * i <= d /\ i \in 0 .. Full /\ n * i \in Nat
    BY StepsAreNatural
  <2> HIDE DEF i
  <2>. QED BY <2>1, ConstantsAreNumbers
<1>2. start \in Starts /\ diffAngle(Following(d), start) = d
  BY Turning DEF TypeOK, Following
<1>3. /\ start' \in Starts /\ _is_previous_capsuledataRdy' = TRUE /\ format' = format
      /\ start' = IF start + d < Full THEN start + d ELSE start + d - Full
  BY <1>2, Turning DEF CapsuleArrives, Cache, Following
<1>4. \/ UnpacksCapsule(i, d) \/ UnpacksUltraCapsule(i, d)
      \/ UnpacksDenseCapsule(i, d) \/ UnpacksUltraDenseCapsule(i, d)
  BY <1>2 DEF CapsuleArrives
<1> HIDE DEF i
<1>5. {lastNodeSyncBit, _last_node_sync_bit} \subseteq BOOLEAN
  BY DEF TypeOK
<1>6. ASSUME UnpacksCapsule(i, d) \/ UnpacksUltraCapsule(i, d)
      PROVE  /\ published' \in [1 .. n -> Node] /\ angleInc' = i
             /\ {lastNodeSyncBit', _last_node_sync_bit'} \subseteq BOOLEAN
             /\ \E sync : /\ \A p \in 1 .. n : sync[p] \in BOOLEAN
                          /\ SyncFacts(sync, start, i, n, format \in Dense, LastBit)
                          /\ Observe(sync, i, d)
                          /\ format \in Dense => (LastBit' <=> sync[n])
  <2> DEFINE sync == CapsuleSyncBits(i)
  <2>1. PICK offset \in Offsets : Publish(sync, i, d, offset)
    BY <1>6 DEF UnpacksCapsule, UnpacksUltraCapsule
  <2>2. /\ {lastNodeSyncBit', _last_node_sync_bit'} \subseteq BOOLEAN
        /\ format \notin Dense
    BY <1>5, <1>6 DEF UnpacksCapsule, UnpacksUltraCapsule, syncVars, Dense
  <2>3. \A p \in 1 .. n : sync[p] = Within(i, p, i)
    BY DEF CapsuleSyncBits
  <2>4. \A p \in 1 .. n : sync[p] \in BOOLEAN
    <3>1. \A p \in 1 .. n : Within(i, p, i) \in BOOLEAN
      BY DEF Within
    <3> HIDE DEF sync
    <3>. QED BY <2>3, <3>1
  <2>5. \A p \in 1 .. n : sync[p] <=> (start + p * i) % Full < i
    BY <1>1, <2>3, WithinOfNode
  <2> HIDE DEF sync
  <2> HIDE DEF n
  <2>6. SyncFacts(sync, start, i, n, FALSE, LastBit)
    BY <1>1, <2>5, PlainSyncFacts
  <2>7. SyncFacts(sync, start, i, n, format \in Dense, LastBit)
    BY <2>2, <2>6 DEF SyncFacts
  <2>8. offset \in Nat
    BY AnglesAssumption
  <2>9. published' \in [1 .. n -> Node]
    BY <1>1, <2>1, <2>4, <2>8, PublishedNodes DEF n
  <2>10. angleInc' = i /\ Observe(sync, i, d)
    BY <2>1 DEF Publish
  <2>. QED BY <2>2, <2>4, <2>7, <2>9, <2>10
<1>7. ASSUME UnpacksDenseCapsule(i, d) \/ UnpacksUltraDenseCapsule(i, d)
      PROVE  /\ published' \in [1 .. n -> Node] /\ angleInc' = i
             /\ {lastNodeSyncBit', _last_node_sync_bit'} \subseteq BOOLEAN
             /\ \E sync : /\ \A p \in 1 .. n : sync[p] \in BOOLEAN
                          /\ SyncFacts(sync, start, i, n, format \in Dense, LastBit)
                          /\ Observe(sync, i, d)
                          /\ format \in Dense => (LastBit' <=> sync[n])
  <2> DEFINE sync == DenseSyncBits(i, LastBit)
  <2>1. LastBit \in BOOLEAN /\ format \in Dense /\ format \in Formats
    BY <1>5, <1>7 DEF LastBit, TypeOK, UnpacksDenseCapsule, UnpacksUltraDenseCapsule, Dense
  <2>2. Publish(sync, i, d, 0) /\ LastBit' = sync[n]
    BY <1>3, <1>7 DEF LastBit, UnpacksDenseCapsule, UnpacksUltraDenseCapsule
  <2>3. n > 2
    BY <2>1, StepsAssumption
  <2>4. /\ sync[0] <=> LastBit
        /\ \A p \in 0 .. n : sync[p] \in BOOLEAN
        /\ \A p \in 1 .. n : sync[p] <=> ((start + p * i) % Full < 2 * i /\ ~sync[p - 1])
    BY <1>1, <2>1, DenseSyncBitsValues
  <2> HIDE DEF sync
  <2>5. sync[n] \in BOOLEAN /\ \A p \in 1 .. n : sync[p] \in BOOLEAN
    BY <1>1, <2>4
  <2>6. {lastNodeSyncBit', _last_node_sync_bit'} \subseteq BOOLEAN
    BY <1>5, <1>7, <2>5 DEF sync, LastBit, UnpacksDenseCapsule, UnpacksUltraDenseCapsule
  <2>7. published' \in [1 .. n -> Node]
    BY <1>1, <2>2, <2>5, PublishedNodes
  <2> HIDE DEF n
  <2>8. SyncFacts(sync, start, i, n, TRUE, LastBit)
    BY <1>1, <2>1, <2>3, <2>4, DenseSyncFacts
  <2>9. SyncFacts(sync, start, i, n, format \in Dense, LastBit)
    BY <2>1, <2>8 DEF SyncFacts
  <2>10. angleInc' = i /\ Observe(sync, i, d)
    BY <2>2 DEF Publish
  <2>. QED BY <2>2, <2>5, <2>6, <2>7, <2>9, <2>10
<1>. QED BY <1>3, <1>4, <1>6, <1>7 DEF i

LEMMA CappedRange ==
  ASSUME NEW x \in Nat
  PROVE  /\ Capped(x) \in 0 .. MaxTravelled /\ Capped(x) <= x
         /\ \A y \in Int : y <= 2 * Full /\ y <= x => y <= Capped(x)
BY AnglesAssumption DEF Capped

(* A capsule that is unpacked keeps what the two properties rest on.  The     *)
(* angles are sums now: what was travelled, the start, and how far the node  *)
(* m, the last with the bit, and the last node of all are from it.           *)
LEMMA ArrivalKeeps ==
  ASSUME IInv, NEW d \in Diffs, CapsuleArrives(d)
  PROVE  IInv'
<1> DEFINE n == Points[format]
<1> DEFINE i == d \div n
<1> DEFINE L == LargestStep
<1>1. TypeOK /\ NotMissed /\ NotShort
  BY DEF IInv, ScanIsNotShort
<1>2. /\ n \in Nat \ {0} /\ Full \in Nat \ {0} /\ start \in 0 .. Full - 1
      /\ d \in Nat /\ d < Full /\ i \in 0 .. Full /\ n * i \in Nat /\ n * i <= d
      /\ d = n * i + (d % n) /\ i <= L /\ L \in Nat
      /\ MaxTravelled \in Nat /\ MaxTravelled > 2 * Full
  BY <1>1, ConstantsAreNumbers, StepsAreNatural
<1>3. /\ start' \in Starts /\ _is_previous_capsuledataRdy' = TRUE /\ format' = format
      /\ start' = IF start + d < Full THEN start + d ELSE start + d - Full
      /\ published' \in [1 .. n -> Node] /\ angleInc' = i
      /\ {lastNodeSyncBit', _last_node_sync_bit'} \subseteq BOOLEAN
      /\ \E sync : /\ \A p \in 1 .. n : sync[p] \in BOOLEAN
                   /\ SyncFacts(sync, start, i, n, format \in Dense, LastBit)
                   /\ Observe(sync, i, d)
                   /\ format \in Dense => (LastBit' <=> sync[n])
  BY <1>1, Unpacking
<1>4. L' = L
  BY <1>3 DEF LargestStep
<1>5. PICK sync : /\ \A p \in 1 .. n : sync[p] \in BOOLEAN
                  /\ SyncFacts(sync, start, i, n, format \in Dense, LastBit)
                  /\ Observe(sync, i, d)
                  /\ format \in Dense => (LastBit' <=> sync[n])
  BY <1>3
<1> HIDE DEF i, L
<1>6. travelled \in Nat /\ angleInc \in Nat /\ format \in Formats /\ since \in {"start", "sync", "gap"}
  BY <1>1, <1>2 DEF TypeOK
<1>7. /\ faster' = (i > angleInc)
      /\ \/ /\ \A p \in 1 .. n : ~sync[p]
            /\ turns' = {} /\ since' = since /\ travelled' = Capped(travelled + d)
         \/ /\ since' = "sync"
            /\ \E m \in 1 .. n : /\ sync[m] /\ \A p \in 1 .. n : m < p => ~sync[p]
                                 /\ travelled' = Capped(d - (m - 1) * i)
            /\ \A t \in turns' : \E p \in 1 .. n :
                 /\ sync[p]
                 /\ \/ since = "sync" /\ t = Capped(travelled + (p - 1) * i)
                    \/ \E q \in 1 .. n : sync[q] /\ q < p /\ t = Capped((p - q) * i)
  BY <1>1, <1>2, <1>5, Observed
<1>8. ASSUME NEW p \in 1 .. n
      PROVE  /\ p * i \in Nat /\ (p - 1) * i = p * i - i /\ i <= p * i /\ p * i <= n * i
             /\ sync[p] =>
                  \/ Full <= start + p * i /\ start + p * i < Full + 2 * i
                  \/ format \in Dense /\ ~LastBit /\ p = 1 /\ start < i /\ start + i < Full
  <2>1. p * i \in Nat /\ 1 * i <= p * i /\ p * i <= n * i /\ (p - 1) * i = p * i - i
    BY <1>2, Steps
  <2>. QED BY <1>2, <1>5, <2>1 DEF SyncFacts
<1>9. start' \in Nat /\ start' < Full
  BY <1>2, <1>3
<1>11. /\ n \in Nat /\ 1 <= n /\ Full \in Nat /\ start \in Nat /\ start < Full /\ d \in Nat /\ d < Full
       /\ i \in Nat /\ i <= L /\ L \in Nat
  BY <1>2
<1>10. (ScanIsNotShort /\ NothingTravelled /\ NotMissed /\ NotShort)'
  <2>1. CASE /\ \A p \in 1 .. n : ~sync[p]
             /\ turns' = {} /\ since' = since /\ travelled' = Capped(travelled + d)
    <3>1. start + n * i < Full
      BY <1>5, <2>1 DEF SyncFacts
    <3>2. travelled + d \in Nat
      BY <1>2, <1>6
    <3>3. /\ travelled' \in 0 .. MaxTravelled /\ travelled' <= travelled + d
          /\ \A y \in Int : y <= 2 * Full /\ y <= travelled + d => y <= travelled'
      BY <2>1, <3>2, CappedRange
    <3>4. TypeOK'
      BY <1>1, <1>3, <1>2, <1>7, <2>1, <3>3 DEF TypeOK
    <3>5. NotMissed'
      <4>1. SUFFICES ASSUME since # "gap", format # "ultra"
                     PROVE  \/ travelled' <= start' + L
                            \/ /\ format \in Dense /\ ~LastBit' /\ travelled' <= Full + start' + L
                               /\ start' <= L
                               /\ \A e \in Diffs : e # 0 => start' < e \div n
        BY <1>3, <1>4, <2>1 DEF NotMissed, L
      <4>2. CASE travelled <= start + L
        <5>1. CASE start + d < Full
          BY <1>2, <1>3, <1>6, <3>3, <4>2, <5>1
        <5>2. CASE ~(start + d < Full)
          <6>1. d # n * i /\ d # 0 /\ start' = start + d - Full /\ start' < d % n
            <7>1. start' = start + d - Full /\ d # 0
              BY <1>2, <1>3, <5>2
            <7> DEFINE a == n * i
            <7> DEFINE r == d % n
            <7>2. a \in Nat /\ d = a + r /\ start + a < Full /\ r \in Int
              BY <1>2, <3>1
            <7> HIDE DEF a, r
            <7>3. d # a /\ start' < r
              BY <1>2, <5>2, <7>1, <7>2
            <7>. QED BY <7>1, <7>3 DEF a, r
          <6>2. format # "plain"
            BY <1>2, <1>6, <6>1, StepsAssumption
          <6>3. format \in Dense
            BY <1>6, <4>1, <6>2, FormatsAssumption
          <6>4. \A e \in Diffs : e # 0 => d % n <= e \div n
            BY <1>6, <6>3, StepsAssumption
          <6>5. \A e \in Diffs : e # 0 => start' < e \div n
            <7>1. \A e \in Diffs : e \div n \in Nat
              BY <1>1, StepsAreNatural
            <7>2. d % n \in Nat
              BY <1>2
            <7>. QED BY <1>9, <6>1, <6>4, <7>1, <7>2
          <6>6. start' <= L
            BY <1>2, <1>9, <6>1, <6>5 DEF i
          <6>7. ~LastBit'
            BY <1>2, <1>5, <2>1, <6>3
          <6>8. travelled' <= Full + start' + L
            BY <1>2, <1>6, <3>3, <4>2, <6>1
          <6>. QED BY <6>3, <6>5, <6>6, <6>7, <6>8
        <5>. QED BY <5>1, <5>2
      <4>3. CASE /\ format \in Dense /\ ~LastBit /\ travelled <= Full + start + L
                 /\ start <= L
                 /\ \A e \in Diffs : e # 0 => start < e \div n
        <5>1. d = 0
          <6> SUFFICES ASSUME d # 0 PROVE FALSE
            OBVIOUS
          <6>1. start < i
            BY <4>3 DEF i
          <6>2. sync[1] /\ 1 \in 1 .. n
            BY <1>2, <1>5, <4>3, <6>1 DEF SyncFacts
          <6>. QED BY <2>1, <6>2
        <5>2. start' = start /\ travelled' <= travelled
          BY <1>2, <1>3, <1>6, <3>3, <5>1
        <5>3. ~LastBit'
          BY <1>2, <1>5, <2>1, <4>3
        <5>. QED BY <1>2, <1>6, <3>3, <4>3, <5>2, <5>3
      <4>. QED BY <1>1, <4>1, <4>2, <4>3 DEF NotMissed, L
    <3>6. NotShort'
      <4>1. SUFFICES ASSUME since = "sync"
                     PROVE  /\ travelled' >= start' - L
                            /\ start' >= i \/ travelled' >= Full + start' - L
        BY <1>3, <1>4, <2>1 DEF NotShort, L
      <4>2. travelled >= start - L
        BY <1>1, <4>1 DEF NotShort, L
      <4>3. CASE start + d < Full
        <5>1. i <= n * i
          BY <1>2, <1>8
        <5>2. start' - L \in Int /\ start' - L <= 2 * Full /\ start' - L <= travelled + d
          BY <1>2, <1>3, <1>6, <4>2, <4>3
        <5>. QED BY <1>2, <1>3, <3>3, <4>3, <5>1, <5>2
      <4>4. CASE ~(start + d < Full)
        <5> DEFINE y == Full + start' - L
        <5>1. y \in Int /\ y <= 2 * Full /\ y <= travelled + d /\ start' - L <= y
          BY <1>2, <1>3, <1>6, <4>2, <4>4
        <5>2. y <= travelled'
          BY <3>3, <5>1
        <5>3. travelled' \in Int
          BY <3>3
        <5> HIDE DEF y
        <5>4. travelled' >= start' - L
          <6>1. start' - L \in Int
            BY <1>2, <1>9
          <6>. QED BY <5>1, <5>2, <5>3, <6>1
        <5>. QED BY <5>2, <5>3, <5>4 DEF y
      <4>. QED BY <4>3, <4>4
    <3>. QED BY <1>3, <2>1, <3>4, <3>5, <3>6 DEF ScanIsNotShort, NothingTravelled
  <2>2. CASE /\ since' = "sync"
             /\ \E m \in 1 .. n : /\ sync[m] /\ \A p \in 1 .. n : m < p => ~sync[p]
                                  /\ travelled' = Capped(d - (m - 1) * i)
             /\ \A t \in turns' : \E p \in 1 .. n :
                  /\ sync[p]
                  /\ \/ since = "sync" /\ t = Capped(travelled + (p - 1) * i)
                     \/ \E q \in 1 .. n : sync[q] /\ q < p /\ t = Capped((p - q) * i)
    <3>1. PICK m \in 1 .. n : /\ sync[m] /\ \A p \in 1 .. n : m < p => ~sync[p]
                              /\ travelled' = Capped(d - (m - 1) * i)
      BY <2>2
    <3> DEFINE a == m * i
    <3>2. /\ a \in Nat /\ i <= a /\ a <= n * i /\ travelled' = Capped(d + i - a)
          /\ \/ Full <= start + a /\ start + a < Full + 2 * i
             \/ format \in Dense /\ ~LastBit /\ m = 1 /\ a = i /\ start < i /\ start + i < Full
      <4>1. d - (m - 1) * i = d + i - a
        BY <1>2, <1>8
      <4>2. m = 1 => a = i
        BY <1>2
      <4> HIDE DEF a
      <4>3. a \in Nat /\ i <= a /\ a <= n * i
        BY <1>8 DEF a
      <4>4. \/ Full <= start + a /\ start + a < Full + 2 * i
            \/ format \in Dense /\ ~LastBit /\ m = 1 /\ start < i /\ start + i < Full
        BY <1>8, <3>1 DEF a
      <4>. QED BY <3>1, <4>1, <4>2, <4>3, <4>4
    <3>3. format \in Dense /\ ~LastBit' => a + i <= n * i
      <4>1. format \in Dense /\ ~LastBit' => m < n
        <5>1. ASSUME format \in Dense, ~LastBit', m = n
              PROVE  FALSE
          BY <1>5, <3>1, <5>1
        <5>2. m # n => m < n
          BY <1>11
        <5>. QED BY <5>1, <5>2
      <4>. QED BY <1>2, <4>1, Steps
    <3> HIDE DEF a
    <3>4. d + i - a \in Nat
      BY <1>2, <3>2
    <3>5. /\ travelled' \in 0 .. MaxTravelled /\ travelled' <= d + i - a
          /\ \A y \in Int : y <= 2 * Full /\ y <= d + i - a => y <= travelled'
      BY <3>2, <3>4, CappedRange
    <3>6. ASSUME NEW t \in turns'
          PROVE  /\ t \in 0 .. MaxTravelled
                 /\ (format \in Dense /\ faster') \/ t >= Full - 2 * L
      <4>1. PICK p \in 1 .. n :
              /\ sync[p]
              /\ \/ since = "sync" /\ t = Capped(travelled + (p - 1) * i)
                 \/ \E q \in 1 .. n : sync[q] /\ q < p /\ t = Capped((p - q) * i)
        BY <2>2, <3>6
      <4> DEFINE b == p * i
      <4>2. /\ b \in Nat /\ i <= b /\ (p - 1) * i = b - i
            /\ \/ Full <= start + b
               \/ format \in Dense /\ ~LastBit /\ p = 1 /\ b = i /\ start < i
        <5>1. p = 1 => b = i
          BY <1>2
        <5>. QED BY <1>8, <4>1, <5>1
      <4>3. CASE since = "sync" /\ t = Capped(travelled + (p - 1) * i)
        <5> DEFINE x == travelled + b - i
        <5>1. x \in Nat /\ t = Capped(x)
          <6>1. travelled + (p - 1) * i = x
            BY <1>11, <1>6, <4>2
          <6> HIDE DEF b
          <6>2. x \in Nat
            BY <1>11, <1>6, <4>2
          <6> HIDE DEF x
          <6>. QED BY <4>3, <6>1, <6>2
        <5>2. t \in 0 .. MaxTravelled /\ (Full - 2 * L <= x => Full - 2 * L <= t)
          BY <1>2, <5>1, CappedRange
        <5>3. /\ travelled >= start - L
              /\ format \in Dense /\ ~LastBit =>
                   start >= angleInc \/ travelled >= Full + start - L
          BY <1>1, <4>3 DEF NotShort, L
        <5> HIDE DEF b
        <5>4. (format \in Dense /\ faster') \/ Full - 2 * L <= x
          <6>1. CASE Full <= start + b
            BY <1>11, <1>6, <4>2, <5>3, <6>1
          <6>2. CASE format \in Dense /\ ~LastBit /\ b = i /\ start < i
            <7>1. CASE start >= angleInc
              <8>1. i > angleInc
                BY <1>11, <1>6, <6>2, <7>1
              <8>. QED BY <1>7, <6>2, <8>1
            <7>2. CASE travelled >= Full + start - L
              BY <1>11, <1>6, <6>2, <7>2
            <7>. QED BY <5>3, <6>2, <7>1, <7>2
          <6>. QED BY <4>2, <6>1, <6>2
        <5> HIDE DEF x
        <5>. QED BY <1>2, <5>2, <5>4
      <4>4. CASE \E q \in 1 .. n : sync[q] /\ q < p /\ t = Capped((p - q) * i)
        <5>1. PICK q \in 1 .. n : sync[q] /\ q < p /\ t = Capped((p - q) * i)
          BY <4>4
        <5>2. q = 1 /\ start < i /\ start + i < Full /\ Full <= start + b
          BY <1>5, <4>1, <5>1 DEF SyncFacts
        <5>3. (p - q) * i = b - i
          BY <1>2, <5>2
        <5> HIDE DEF b
        <5>4. b - i \in Nat /\ Full - 2 * L <= b - i /\ t = Capped(b - i)
          <6>1. b \in Nat /\ i <= b
            BY <4>2
          <6>2. b - i \in Nat /\ Full - 2 * L <= b - i
            BY <1>11, <5>2, <6>1
          <6>. QED BY <5>1, <5>3, <6>2
        <5>5. Full - 2 * L \in Int /\ Full - 2 * L <= 2 * Full
          BY <1>2
        <5> DEFINE x == b - i
        <5> HIDE DEF x
        <5>6. x \in Nat /\ Full - 2 * L <= x /\ t = Capped(x)
          BY <5>4 DEF x
        <5>7. t \in 0 .. MaxTravelled /\ Full - 2 * L <= t
          BY <5>5, <5>6, CappedRange
        <5>. QED BY <1>2, <5>5, <5>7
      <4>. QED BY <4>1, <4>3, <4>4
    <3>7. TypeOK'
      <4>1. since' \in {"start", "sync", "gap"} /\ faster' \in BOOLEAN
        BY <1>7, <2>2
      <4>2. turns' \subseteq 0 .. MaxTravelled
        BY <3>6
      <4>. QED BY <1>2, <1>3, <1>6, <3>5, <4>1, <4>2 DEF TypeOK
    <3>8. NotMissed'
      <4>1. SUFFICES ASSUME format # "ultra"
                     PROVE  \/ travelled' <= start' + L
                            \/ /\ format \in Dense /\ ~LastBit' /\ travelled' <= Full + start' + L
                               /\ start' <= L
                               /\ \A e \in Diffs : e # 0 => start' < e \div n
        BY <1>3, <1>4 DEF NotMissed, L
      <4>2. CASE Full <= start + a
        <5>1. start' = start + d - Full
          BY <1>2, <1>3, <3>2, <4>2
        <5>. QED BY <1>2, <3>5, <3>2, <4>2, <5>1
      <4>3. CASE format \in Dense /\ ~LastBit /\ m = 1 /\ a = i /\ start < i /\ start + i < Full
        <5>1. start + n * i < Full
          <6>1. \A p \in 2 .. n : ~sync[p]
            BY <1>2, <3>1, <4>3
          <6>. QED BY <1>5, <4>3, <6>1 DEF SyncFacts
        <5>2. travelled' <= d
          BY <1>2, <3>5, <4>3
        <5>3. CASE start + d < Full
          BY <1>2, <1>3, <3>5, <5>2, <5>3
        <5>4. CASE ~(start + d < Full)
          <6>1. start' = start + d - Full /\ d # 0
            BY <1>2, <1>3, <5>4
          <6> DEFINE r == d % n
          <6> DEFINE e == n * i
          <6>2. e \in Nat /\ d = e + r /\ start + e < Full /\ r \in Int
            BY <1>2, <5>1
          <6> HIDE DEF e, r
          <6>3. start' < r
            BY <1>2, <6>1, <6>2
          <6>4. \A c \in Diffs : c # 0 => r <= c \div n
            BY <1>6, <4>3, StepsAssumption DEF r
          <6>5. \A c \in Diffs : c # 0 => start' < c \div n
            <7>1. \A c \in Diffs : c \div n \in Nat
              BY <1>1, StepsAreNatural
            <7>. QED BY <1>9, <6>2, <6>3, <6>4, <7>1
          <6>6. start' <= L
            BY <1>2, <1>9, <6>1, <6>5 DEF i
          <6>7. ~LastBit'
            <7>1. n > 2
              BY <1>6, <4>3, StepsAssumption
            <7>2. n \in 1 .. n /\ m < n
              BY <1>2, <4>3, <7>1
            <7>. QED BY <1>5, <3>1, <4>3, <7>2
          <6>8. travelled' <= Full + start' + L
            BY <1>2, <3>5, <5>2, <6>1
          <6>. QED BY <4>3, <6>5, <6>6, <6>7, <6>8
        <5>. QED BY <5>3, <5>4
      <4>. QED BY <3>2, <4>2, <4>3
    <3>9. NotShort'
      <4>1. SUFFICES /\ travelled' >= start' - L
                     /\ format \in Dense /\ ~LastBit' =>
                          start' >= i \/ travelled' >= Full + start' - L
        BY <1>3, <1>4 DEF NotShort, L
      <4>2. /\ start' - L \in Int /\ start' - L <= 2 * Full
            /\ Full + start' - L \in Int /\ Full + start' - L <= 2 * Full
        <5>1. start' - L \in Int /\ Full + start' - L \in Int
          BY <1>11, <1>9
        <5>2. Full + Full = 2 * Full /\ Full <= 2 * Full /\ 2 * Full \in Nat
          BY <1>11
        <5>4. start' <= Full + L /\ L \in Int /\ start' \in Int /\ Full \in Int
          BY <1>11, <1>9
        <5>3. start' - L <= Full /\ Full + start' - L <= Full + Full
          <6>1. \A x, y, f \in Int : x <= f + y => x - y <= f /\ f + x - y <= f + f
            OBVIOUS
          <6>. QED BY <5>4, <6>1, Zenon
        <5>. QED BY <1>11, <5>1, <5>2, <5>3
      <4>3. start' - L <= d + i - a => start' - L <= travelled'
        BY <3>5, <4>2
      <4>4. Full + start' - L <= d + i - a => Full + start' - L <= travelled'
        BY <3>5, <4>2
      <4>5. travelled' \in Int
        BY <3>5
      <4> DEFINE e == n * i
      <4>6. e \in Nat /\ a <= e /\ e <= d /\ (format \in Dense /\ ~LastBit' => a + i <= e)
        BY <1>2, <3>2, <3>3
      <4> HIDE DEF e
      <4>7. /\ Full \in Nat /\ start \in Nat /\ i \in Nat /\ L \in Nat /\ i <= L /\ d \in Nat /\ start < Full
        BY <1>2
      <4>8. CASE Full <= start + a /\ start + a < Full + 2 * i
        <5>1. start' = start + d - Full
          BY <1>3, <3>2, <4>6, <4>7, <4>8
        <5>. QED BY <1>9, <3>2, <4>3, <4>5, <4>6, <4>7, <4>8, <5>1
      <4>9. CASE a = i /\ start < i
        <5>1. CASE start + d < Full
          <6>1. start' = start + d
            BY <1>3, <5>1
          <6>. QED BY <1>9, <3>2, <4>3, <4>5, <4>6, <4>7, <4>9, <6>1
        <5>2. CASE ~(start + d < Full)
          <6>1. start' = start + d - Full
            BY <1>3, <5>2
          <6>. QED BY <1>9, <3>2, <4>3, <4>4, <4>5, <4>6, <4>7, <4>9, <6>1
        <5>. QED BY <5>1, <5>2
      <4>. QED BY <3>2, <4>8, <4>9
    <3>10. ScanIsNotShort'
      BY <1>3, <1>4, <3>6, <3>7 DEF ScanIsNotShort, L
    <3>. QED BY <1>3, <3>8, <3>9, <3>10 DEF NothingTravelled
  <2>. QED BY <1>7, <2>1, <2>2
<1>. QED BY <1>10 DEF IInv

--------------------------------------------------------------------------------
LEMMA InitHolds == Init => IInv
<1> SUFFICES ASSUME Init PROVE IInv
  OBVIOUS
<1>1. TypeOK
  <2>1. Full \in Nat /\ MaxTravelled \in Nat
    BY AnglesAssumption
  <2>2. {_is_previous_capsuledataRdy, lastNodeSyncBit, _last_node_sync_bit, faster} \subseteq BOOLEAN
    BY DEF Init
  <2>3. angleInc \in 0 .. Full /\ travelled \in 0 .. MaxTravelled /\ turns \subseteq 0 .. MaxTravelled
    BY <2>1 DEF Init
  <2>. QED BY <2>2, <2>3 DEF Init, TypeOK
<1>2. Full \in Nat /\ start \in Nat /\ LargestStep \in Nat
  <2>1. PICK d : d \in Diffs
    BY StepsAssumption
  <2>. QED BY <1>1, <2>1, ConstantsAreNumbers, StepsAreNatural
<1>3. travelled = 0 /\ since = "start" /\ turns = {}
  BY DEF Init
<1>. QED BY <1>1, <1>2, <1>3 DEF IInv, ScanIsNotShort, NothingTravelled, NotMissed, NotShort

(* A capsule of which nothing is published: one that is discarded or lost    *)
(* leaves a gap, and before the first of a scan nothing is travelled.        *)
LEMMA NothingPublishedKeeps ==
  ASSUME IInv, NEW d \in Diffs,
         CapsuleIsDiscarded(d) \/ FirstCapsuleArrives(d) \/ CapsuleIsLost(d)
  PROVE  IInv'
<1>1. TypeOK /\ NothingTravelled
  BY DEF IInv, ScanIsNotShort
<1>2. /\ format' = format /\ travelled' = travelled
      /\ published' = << >> /\ turns' = {} /\ faster' = FALSE /\ angleInc' = angleInc
      /\ lastNodeSyncBit' = lastNodeSyncBit /\ _last_node_sync_bit' = _last_node_sync_bit
      /\ start' = (start + d) % Full /\ _is_previous_capsuledataRdy' \in BOOLEAN
  BY DEF CapsuleIsDiscarded, FirstCapsuleArrives, CapsuleIsLost, PublishesNothing, Cache,
         Following, syncVars
<1>3. \/ since' = "gap"
      \/ since' = since /\ ~_is_previous_capsuledataRdy /\ _is_previous_capsuledataRdy'
  BY DEF CapsuleIsDiscarded, FirstCapsuleArrives, CapsuleIsLost, Cache
<1>4. start' \in Starts
  BY <1>1, <1>2, Turning DEF TypeOK
<1>5. TypeOK'
  BY <1>1, <1>2, <1>3, <1>4 DEF TypeOK
<1>6. LargestStep' = LargestStep /\ LargestStep \in Nat /\ start' \in Nat
  BY <1>1, <1>2, <1>4, StepsAreNatural DEF LargestStep, Starts
<1>7. since' = "gap" \/ (since' = "start" /\ travelled' = 0)
  BY <1>1, <1>2, <1>3 DEF NothingTravelled
<1>8. NothingTravelled'
  BY <1>3, <1>7 DEF NothingTravelled
<1>9. NotMissed' /\ NotShort'
  BY <1>6, <1>7 DEF NotMissed, NotShort
<1>. QED BY <1>2, <1>5, <1>8, <1>9 DEF IInv, ScanIsNotShort

LEMMA ScanStartsKeeps ==
  ASSUME IInv, ScanStarts
  PROVE  IInv'
<1>1. TypeOK
  BY DEF IInv, ScanIsNotShort
<1>2. TypeOK'
  <2>1. Full \in Nat /\ MaxTravelled \in Nat
    BY AnglesAssumption
  <2>2. {_is_previous_capsuledataRdy', lastNodeSyncBit', _last_node_sync_bit', faster'} \subseteq BOOLEAN
    BY <1>1 DEF TypeOK, ScanStarts
  <2>3. angleInc' \in 0 .. Full /\ travelled' \in 0 .. MaxTravelled /\ turns' \subseteq 0 .. MaxTravelled
    BY <2>1 DEF ScanStarts
  <2>. QED BY <2>2, <2>3 DEF TypeOK, ScanStarts
<1>3. start' \in Nat /\ LargestStep' \in Nat
  <2>1. PICK d : d \in Diffs
    BY StepsAssumption
  <2>2. Points[format'] \in Nat \ {0} /\ start' \in Nat
    BY <1>2, PointsAssumption DEF TypeOK, Starts
  <2>3. Diffs \in SUBSET Nat /\ Diffs # {} /\ Full \in Nat /\ \A x \in Diffs : x <= Full
    BY <2>1, AnglesAssumption
  <2>4. Max(Diffs) \in Nat
    BY <2>3, GreatestIsFound
  <2>. QED BY <2>2, <2>4, DivNat DEF LargestStep
<1>4. travelled' = 0 /\ since' = "start" /\ turns' = {}
  BY DEF ScanStarts
<1>5. NotMissed'
  <2>1. travelled' <= start' + LargestStep'
    <3>1. \A x, y \in Nat : 0 <= x + y
      OBVIOUS
    <3>. QED BY <1>3, <1>4, <3>1, Zenon
  <2>. QED BY <2>1 DEF NotMissed
<1>. QED BY <1>2, <1>4, <1>5 DEF IInv, ScanIsNotShort, NothingTravelled, NotShort

LEMMA Invariant == Spec => []IInv
<1>1. IInv /\ [Next]_vars => IInv'
  <2> SUFFICES ASSUME IInv, [Next]_vars PROVE IInv'
    OBVIOUS
  <2>1. CASE Next
    BY <2>1, ArrivalKeeps, NothingPublishedKeeps, ScanStartsKeeps DEF Next
  <2>2. CASE UNCHANGED vars
    <3>1. UNCHANGED << format, start, _is_previous_capsuledataRdy, lastNodeSyncBit,
                       _last_node_sync_bit, angleInc, published, travelled, since, turns, faster >>
      BY <2>2 DEF vars, cachedVars, syncVars
    <3>. QED BY <3>1 DEF IInv, ScanIsNotShort, TypeOK, NothingTravelled, NotMissed, NotShort,
                         LastBit, LargestStep
  <2>. QED BY <2>1, <2>2
<1>. QED BY <1>1, InitHolds, PTL DEF Spec

(* From one node with the sync bit to the next it is a turn and two steps at *)
(* most, for capsules of any number of nodes and every speed of the lidar,   *)
(* however it changes, but in the ultra format (handler_capsules.cpp:228,    *)
(* 541, 767, 987).                                                           *)
THEOREM EverySyncIsSeen == Spec => []NoSyncIsMissed
<1>1. IInv => NoSyncIsMissed
  <2> SUFFICES ASSUME IInv, format # "ultra", since # "gap"
               PROVE  travelled <= Full + 2 * LargestStep
    BY DEF NoSyncIsMissed
  <2>1. TypeOK /\ NotMissed
    BY DEF IInv, ScanIsNotShort
  <2>2. LargestStep \in Nat
    <3>1. PICK d : d \in Diffs
      BY StepsAssumption
    <3>. QED BY <2>1, <3>1, StepsAreNatural
  <2>3. start \in Nat /\ Full \in Nat /\ start < Full /\ travelled \in Nat
    BY <2>1, ConstantsAreNumbers DEF TypeOK
  <2>. QED BY <2>1, <2>2, <2>3 DEF NotMissed
<1>. QED BY <1>1, Invariant, PTL

(* No scan is shorter than a turn by more than two steps, whatever is        *)
(* remembered of an earlier one, but in a dense format when the lidar speeds *)
(* up at angle zero (handler_capsules.cpp:767, 987).                         *)
THEOREM TurnsAreWhole == Spec => []ScanIsNotShort
<1>1. IInv => ScanIsNotShort
  BY DEF IInv
<1>. QED BY <1>1, Invariant, PTL

--------------------------------------------------------------------------------
(* Scans and detections.                                                    *)
LEMMA Constants ==
  /\ Turn \in Nat \ {0} /\ Ahead \in Nat \ {0} /\ Tolerance \in Nat \ {0} /\ MaxScan \in Nat \ {0}
  /\ 2 * Ahead < Turn /\ Tolerance < 999
  /\ Unmatched \in [delta : Int, dist : {-1} \cup 1 .. MaxScan]
BY TurnAssumption DEF Unmatched

LEMMA DeltaIsInteger ==
  ASSUME NEW angle \in NodeAngles, NEW h \in Views
  PROVE  Delta(angle, h) \in Int
BY Constants DEF NodeAngles, Views, Delta, Distance

(* What the code takes for the difference is the shortest way round.         *)
LEMMA DeltaIsSeparation ==
  ASSUME NEW angle \in NodeAngles, NEW h \in Views, angle - h <= Turn
  PROVE  Delta(angle, h) = Separation(angle, h)
<1> DEFINE d == Distance(angle, h)
<1> DEFINE back == Distance(angle + (-1) * Turn, h)
<1> DEFINE on == Distance(angle + 1 * Turn, h)
<1>1. {Distance(angle + k * Turn, h) : k \in {-1, 0, 1}} = {back, d, on}
  <2>1. angle + 0 * Turn = angle
    BY Constants DEF NodeAngles
  <2>. QED BY <2>1
<1>2. back \in Int /\ d \in Int /\ on \in Int /\ Delta(angle, h) \in {back, d}
      /\ Delta(angle, h) <= back /\ Delta(angle, h) <= d /\ Delta(angle, h) <= on
  BY Constants DEF NodeAngles, Views, Delta, Distance
<1> DEFINE all == {back, d, on}
<1>3. Delta(angle, h) \in all /\ \A x \in all : x \in Int /\ Delta(angle, h) <= x
  BY <1>2
<1>4. Separation(angle, h) = Min(all)
  BY <1>1 DEF Separation
<1> HIDE DEF all
<1>5. Min(all) = Delta(angle, h)
  BY <1>3 DEF Min
<1>. QED BY <1>4, <1>5

--------------------------------------------------------------------------------
(* What may have been found after k points: one of the nearest, or none.     *)
Best(h, k) ==
  LET delta(i) == Delta(nodes[i].angle, h)
  IN {best \in [delta : Int, dist : {-1} \cup 1 .. MaxScan] :
        \/ best = Unmatched /\ \A i \in 1 .. k : delta(i) > Tolerance
        \/ \E i \in 1 .. k :
             /\ best = [delta |-> delta(i), dist |-> nodes[i].dist]
             /\ delta(i) <= Tolerance /\ \A j \in 1 .. k : delta(i) <= delta(j)}

LEMMA CloserIsBest ==
  ASSUME AnglesTypeOK, NEW h \in Views, NEW k \in 1 .. Len(nodes), nodes[k].dist > 0,
         NEW best \in Best(h, k - 1)
  PROVE  Closer(best, nodes[k], h) \in Best(h, k)
<1> DEFINE delta(i) == Delta(nodes[i].angle, h)
<1> DEFINE this == [delta |-> delta(k), dist |-> nodes[k].dist]
<1>1. \A i \in 1 .. k : delta(i) \in Int
  <2>1. \A i \in 1 .. Len(nodes) : nodes[i] \in Echo
    BY ElementOfSeq DEF AnglesTypeOK
  <2>2. 1 .. k \subseteq 1 .. Len(nodes)
    BY LenProperties DEF AnglesTypeOK
  <2>. QED BY <2>1, <2>2, DeltaIsInteger DEF Echo
<1>2. this \in [delta : Int, dist : {-1} \cup 1 .. MaxScan]
  <2>1. nodes[k] \in Echo
    BY ElementOfSeq DEF AnglesTypeOK
  <2>3. nodes[k].dist \in 1 .. MaxScan
    BY <2>1, Constants DEF Echo
  <2>2. k \in 1 .. k
    BY LenProperties DEF AnglesTypeOK
  <2>. QED BY <2>2, <2>3, <1>1
<1>3. Closer(best, nodes[k], h) = IF delta(k) <= Tolerance /\ delta(k) < best.delta THEN this ELSE best
  BY DEF Closer
<1>4. k \in Nat \ {0} /\ 1 .. k = (1 .. k - 1) \cup {k}
  BY LenProperties DEF AnglesTypeOK
<1>5. /\ best \in [delta : Int, dist : {-1} \cup 1 .. MaxScan]
      /\ \/ best = Unmatched /\ \A i \in 1 .. k - 1 : delta(i) > Tolerance
         \/ \E i \in 1 .. k - 1 :
              /\ best = [delta |-> delta(i), dist |-> nodes[i].dist]
              /\ delta(i) <= Tolerance /\ \A j \in 1 .. k - 1 : delta(i) <= delta(j)
  BY DEF Best
<1>6. SUFFICES \/ Closer(best, nodes[k], h) = Unmatched /\ \A i \in 1 .. k : delta(i) > Tolerance
               \/ \E i \in 1 .. k :
                    /\ Closer(best, nodes[k], h) = [delta |-> delta(i), dist |-> nodes[i].dist]
                    /\ delta(i) <= Tolerance /\ \A j \in 1 .. k : delta(i) <= delta(j)
  BY <1>2, <1>3, <1>5 DEF Best
<1> HIDE DEF delta
<1>7. CASE best = Unmatched /\ \A i \in 1 .. k - 1 : delta(i) > Tolerance
  <2>1. best.delta = 999
    BY <1>7 DEF Unmatched
  <2>2. CASE delta(k) <= Tolerance
    <3>1. Closer(best, nodes[k], h) = this
      BY <1>1, <1>3, <1>4, <2>1, <2>2, Constants
    <3>2. \A j \in 1 .. k : delta(k) <= delta(j)
      BY <1>1, <1>4, <1>7, <2>2, Constants
    <3>. QED BY <3>1, <3>2, <2>2, <1>4
  <2>3. CASE ~(delta(k) <= Tolerance)
    BY <1>1, <1>3, <1>4, <1>7, <2>3, Constants
  <2>. QED BY <2>2, <2>3
<1>8. ASSUME NEW i \in 1 .. k - 1, best = [delta |-> delta(i), dist |-> nodes[i].dist],
             delta(i) <= Tolerance, \A j \in 1 .. k - 1 : delta(i) <= delta(j)
      PROVE  \E m \in 1 .. k :
               /\ Closer(best, nodes[k], h) = [delta |-> delta(m), dist |-> nodes[m].dist]
               /\ delta(m) <= Tolerance /\ \A j \in 1 .. k : delta(m) <= delta(j)
  <2>1. best.delta = delta(i)
    BY <1>8
  <2>2. i \in 1 .. k /\ k \in 1 .. k
    BY <1>4
  <2>3. CASE delta(k) < delta(i)
    <3>1. Closer(best, nodes[k], h) = this /\ delta(k) <= Tolerance
      BY <1>1, <1>3, <1>8, <2>1, <2>2, <2>3, Constants
    <3>2. \A j \in 1 .. k : delta(k) <= delta(j)
      BY <1>1, <1>4, <1>8, <2>2, <2>3
    <3>. QED BY <3>1, <3>2, <2>2
  <2>4. CASE ~(delta(k) < delta(i))
    <3>1. Closer(best, nodes[k], h) = best
      BY <1>3, <2>1, <2>4
    <3>2. \A j \in 1 .. k : delta(i) <= delta(j)
      BY <1>1, <1>4, <1>8, <2>2, <2>4
    <3>. QED BY <3>1, <3>2, <2>2, <1>8
  <2>. QED BY <2>3, <2>4
<1>. QED BY <1>5, <1>7, <1>8

LEMMA FoundIsBest ==
  ASSUME AnglesTypeOK, NEW h \in Views, \A i \in DOMAIN nodes : nodes[i].dist > 0
  PROVE  Found(h) \in Best(h, Len(nodes))
<1> DEFINE n == Len(nodes)
<1> DEFINE S == [delta : Int, dist : {-1} \cup 1 .. MaxScan]
<1> DEFINE F == [i \in 1 .. n |-> [best \in S |-> Closer(best, nodes[i], h)]]
<1> DEFINE Loop(f) ==
      f = [i \in 0 .. n |-> IF i = 0 THEN Unmatched ELSE Closer(f[i - 1], nodes[i], h)]
<1>1. n \in Nat /\ DOMAIN nodes = 1 .. n /\ \A i \in 1 .. n : nodes[i] \in Echo /\ nodes[i].dist \in 1 .. MaxScan
  <2>1. n \in Nat /\ DOMAIN nodes = 1 .. n
    BY LenProperties DEF AnglesTypeOK
  <2>2. ASSUME NEW i \in 1 .. n
        PROVE  nodes[i] \in Echo /\ nodes[i].dist \in 1 .. MaxScan
    <3>1. nodes[i] \in Echo
      BY ElementOfSeq DEF AnglesTypeOK
    <3>. QED BY <2>1, <3>1, Constants DEF Echo
  <2>. QED BY <2>1, <2>2
<1>2. F \in [1 .. n -> [S -> S]]
  <2>1. ASSUME NEW i \in 1 .. n, NEW best \in S
        PROVE  Closer(best, nodes[i], h) \in S
    <3>1. Delta(nodes[i].angle, h) \in Int
      BY <1>1, DeltaIsInteger DEF Echo
    <3>. QED BY <3>1, <1>1 DEF Closer
  <2>. QED BY <2>1
<1>3. PICK f : IsLoop(f, n, S, Unmatched, F)
  <2>1. Unmatched \in S
    BY Constants
  <2>2. n \in Nat
    BY <1>1
  <2> HIDE DEF n, F, S
  <2>. QED BY <2>1, <2>2, <1>2, LoopDefined, Zenon
<1> USE DEF IsLoop
<1>4. Loop(f)
  <2>1. ASSUME NEW i \in 0 .. n
        PROVE  f[i] = IF i = 0 THEN Unmatched ELSE Closer(f[i - 1], nodes[i], h)
    <3>1. CASE i = 0
      BY <3>1, <1>3
    <3>2. CASE i # 0
      <4>1. i \in 1 .. n /\ i - 1 \in 0 .. n
        BY <3>2, <1>1
      <4>. QED BY <4>1, <3>2, <1>3
    <3>. QED BY <3>1, <3>2
  <2>. QED BY <2>1, <1>3
<1> DEFINE best == CHOOSE g : Loop(g)
<1>5. Loop(best)
  BY <1>4
<1>6. Found(h) = best[n]
  BY DEF Found
<1> HIDE DEF best
<1> DEFINE P == [i \in 0 .. n |-> Best(h, i)]
<1>7. best[0] \in P[0]
  <2>1. best[0] = Unmatched /\ P[0] = Best(h, 0)
    BY <1>1, <1>5
  <2>. QED BY <2>1, Constants DEF Best
<1>8. ASSUME NEW i \in 1 .. n, best[i - 1] \in P[i - 1]
      PROVE  best[i] \in P[i]
  <2>1. i \in 0 .. n /\ i - 1 \in 0 .. n /\ i # 0
    BY <1>1
  <2>2. best[i] = Closer(best[i - 1], nodes[i], h)
    BY <1>5, <2>1
  <2>3. best[i - 1] \in Best(h, i - 1)
    BY <1>8, <2>1
  <2>4. Closer(best[i - 1], nodes[i], h) \in Best(h, i)
    BY <1>1, <2>3, CloserIsBest
  <2>. QED BY <2>1, <2>2, <2>4
<1> HIDE DEF P
<1>9. \A i \in 0 .. n : best[i] \in P[i]
  BY <1>1, <1>7, <1>8, LoopKeeps
<1>10. n \in 0 .. n
  BY <1>1
<1>. QED BY <1>6, <1>9, <1>10 DEF P

--------------------------------------------------------------------------------
LEMMA setAngleIsAngle ==
  ASSUME NEW parts \in Int, NEW count \in Nat \ {0}
  PROVE  setAngle(parts, count) \in NodeAngles
<1> DEFINE q == parts \div count
<1>1. q \in Int
  BY DivMod
<1> HIDE DEF q
<1>2. q % Turn \in 0 .. Turn - 1
  BY <1>1, Constants, DivMod
<1>. QED BY <1>2 DEF setAngle, NodeAngles, q

(* Tuning the head gives angles, and filling in takes no echo from its own.  *)
LEMMA FrontIsAngle ==
  ASSUME AnglesTypeOK, NEW first \in DOMAIN nodes
  PROVE  FrontAngle(first) \in NodeAngles
<1> DEFINE n == first - 1
<1> DEFINE before(angle) == setAngle(Max({0, angle * Len(nodes) - Turn}), Len(nodes))
<1> DEFINE F == [i \in 1 .. n |-> [angle \in NodeAngles |-> before(angle)]]
<1> DEFINE base == nodes[first].angle
<1> DEFINE Loop(f) == f = [i \in 0 .. n |-> IF i = 0 THEN base ELSE before(f[i - 1])]
<1>1. n \in Nat /\ Len(nodes) \in Nat \ {0}
  BY LenProperties DEF AnglesTypeOK
<1>2. base \in NodeAngles
  <2>1. nodes[first] \in Echo
    BY ElementOfSeq, LenProperties DEF AnglesTypeOK
  <2>. QED BY <2>1 DEF Echo
<1>3. \A angle \in NodeAngles : before(angle) \in NodeAngles
  <2> TAKE angle \in NodeAngles
  <2>1. angle * Len(nodes) - Turn \in Int
    BY <1>1, Constants DEF NodeAngles
  <2>2. Max({0, angle * Len(nodes) - Turn}) \in Int
    BY <2>1, MaxOfTwo
  <2>. QED BY <1>1, <2>2, setAngleIsAngle
<1> HIDE DEF before
<1>4. F \in [1 .. n -> [NodeAngles -> NodeAngles]]
  BY <1>3
<1>5. PICK f : IsLoop(f, n, NodeAngles, base, F)
  <2> HIDE DEF n, F, base
  <2>. QED BY <1>1, <1>2, <1>4, LoopDefined, Zenon
<1> USE DEF IsLoop
<1>6. Loop(f)
  <2>1. ASSUME NEW i \in 0 .. n
        PROVE  f[i] = IF i = 0 THEN base ELSE before(f[i - 1])
    <3>1. CASE i = 0
      BY <3>1, <1>5
    <3>2. CASE i # 0
      <4>1. i \in 1 .. n /\ i - 1 \in 0 .. n
        BY <3>2, <1>1
      <4>. QED BY <4>1, <3>2, <1>5
    <3>. QED BY <3>1, <3>2
  <2>. QED BY <2>1, <1>5
<1> DEFINE back == CHOOSE g : Loop(g)
<1>7. Loop(back)
  BY <1>6
<1>8. FrontAngle(first) = back[first - 1]
  BY DEF FrontAngle, before
<1> HIDE DEF back
<1> DEFINE P == [i \in 0 .. n |-> NodeAngles]
<1>9. back[0] \in P[0]
  BY <1>1, <1>2, <1>7
<1>10. ASSUME NEW i \in 1 .. n, back[i - 1] \in P[i - 1]
       PROVE  back[i] \in P[i]
  BY <1>1, <1>3, <1>7, <1>10
<1>11. \A i \in 0 .. n : P[i] = NodeAngles
  OBVIOUS
<1> HIDE DEF P
<1>12. \A i \in 0 .. n : back[i] \in P[i]
  BY <1>1, <1>9, <1>10, LoopKeeps
<1>. QED BY <1>1, <1>8, <1>11, <1>12

LEMMA FilledKeepsEchoes ==
  ASSUME AnglesTypeOK, WithEcho(nodes) # {}
  PROVE  /\ Filled \in [1 .. Len(nodes) -> Echo] /\ DOMAIN nodes = 1 .. Len(nodes)
         /\ \A i \in 1 .. Len(nodes) :
              /\ Filled[i].dist = nodes[i].dist
              /\ nodes[i].dist > 0 => Filled[i] = nodes[i]
<1> DEFINE first == Min(WithEcho(nodes))
<1> DEFINE front == FrontAngle(first)
<1>1. Len(nodes) \in Nat /\ DOMAIN nodes = 1 .. Len(nodes)
  BY LenProperties DEF AnglesTypeOK
<1>2. first \in DOMAIN nodes
  <2>1. WithEcho(nodes) \in SUBSET Nat /\ WithEcho(nodes) \subseteq DOMAIN nodes
    BY <1>1 DEF WithEcho
  <2>. QED BY <2>1, LeastIsFound
<1>3. front \in NodeAngles
  BY <1>2, FrontIsAngle
<1> HIDE DEF first
<1>4. ASSUME NEW i \in 1 .. Len(nodes)
      PROVE  /\ nodes[i] \in Echo
             /\ Tuned(front * Len(nodes) + (i - 1) * Turn, Len(nodes)) \in NodeAngles
  <2>1. nodes[i] \in Echo
    BY ElementOfSeq DEF AnglesTypeOK
  <2> HIDE DEF front
  <2>2. front * Len(nodes) \in Nat /\ (i - 1) * Turn \in Nat /\ Turn * Len(nodes) \in Nat
    BY <1>1, <1>3, Constants DEF NodeAngles
  <2> DEFINE parts == front * Len(nodes) + (i - 1) * Turn
  <2> DEFINE all == Turn * Len(nodes)
  <2>3. parts \in Int /\ all \in Int /\ Len(nodes) \in Nat \ {0}
    BY <1>1, <2>2
  <2>4. Tuned(parts, Len(nodes)) = setAngle(IF parts > all THEN parts - all ELSE parts, Len(nodes))
    BY DEF Tuned
  <2> HIDE DEF parts, all
  <2>5. Tuned(parts, Len(nodes)) \in NodeAngles
    BY <2>3, <2>4, setAngleIsAngle
  <2>. QED BY <2>1, <2>5 DEF parts
<1> HIDE DEF front
<1> DEFINE angle(i) == IF i = 1 THEN front ELSE Tuned(front * Len(nodes) + (i - 1) * Turn, Len(nodes))
<1>5. \A i \in 1 .. Len(nodes) : angle(i) \in NodeAngles
  BY <1>3, <1>4
<1>6. Filled = [i \in 1 .. Len(nodes) |-> IF nodes[i].dist > 0 THEN nodes[i]
                                          ELSE [nodes[i] EXCEPT !.angle = angle(i)]]
  BY <1>1 DEF Filled, front, first
<1> HIDE DEF angle
<1>. QED BY <1>1, <1>4, <1>5, <1>6 DEF Echo

(* What is saved are echoes of the scan.                                     *)
LEMMA PointsAheadHaveEcho ==
  ASSUME AnglesTypeOK
  PROVE  /\ PointsAhead(nodes) \in Seq(Echo) /\ Len(PointsAhead(nodes)) <= Len(nodes)
         /\ \A i \in DOMAIN PointsAhead(nodes) : PointsAhead(nodes)[i].dist > 0
<1> DEFINE n == Len(nodes)
<1> DEFINE S == Seq(Echo)
<1> DEFINE step(pos, scan) == IF IsAhead(nodes[pos]) THEN Append(scan, nodes[pos]) ELSE scan
<1> DEFINE F == [pos \in 1 .. n |-> [scan \in S |-> step(pos, scan)]]
<1> DEFINE Loop(f) == f = [pos \in 0 .. n |-> IF pos = 0 THEN << >> ELSE step(pos, f[pos - 1])]
<1>1. n \in Nat /\ DOMAIN nodes = 1 .. n
  BY LenProperties DEF AnglesTypeOK
<1>2. \A pos \in 1 .. n : nodes[pos] \in Echo
  BY ElementOfSeq DEF AnglesTypeOK
<1>3. \A pos \in 1 .. n : \A scan \in S : step(pos, scan) \in S
  BY <1>2, AppendProperties
<1>4. F \in [1 .. n -> [S -> S]] /\ << >> \in S
  <2> HIDE DEF step
  <2>. QED BY <1>3
<1>5. PICK f : IsLoop(f, n, S, << >>, F)
  <2> HIDE DEF n, F, S
  <2>. QED BY <1>1, <1>4, LoopDefined, Zenon
<1> USE DEF IsLoop
<1> HIDE DEF step
<1>6. Loop(f)
  <2>1. ASSUME NEW pos \in 0 .. n
        PROVE  f[pos] = IF pos = 0 THEN << >> ELSE step(pos, f[pos - 1])
    <3>1. CASE pos = 0
      BY <3>1, <1>5
    <3>2. CASE pos # 0
      <4>1. pos \in 1 .. n /\ pos - 1 \in 0 .. n
        BY <3>2, <1>1
      <4>. QED BY <4>1, <3>2, <1>5
    <3>. QED BY <3>1, <3>2
  <2>. QED BY <2>1, <1>5
<1> DEFINE saved == CHOOSE g : Loop(g)
<1>7. Loop(saved)
  BY <1>6
<1>8. PointsAhead(nodes) = saved[n]
  BY DEF PointsAhead, step
<1> HIDE DEF saved
<1> DEFINE Good(pos) == {scan \in S : Len(scan) <= pos /\ \A i \in 1 .. Len(scan) : scan[i].dist > 0}
<1> DEFINE P == [pos \in 0 .. n |-> Good(pos)]
<1>9. saved[0] \in P[0]
  BY <1>1, <1>7
<1>10. ASSUME NEW pos \in 1 .. n, saved[pos - 1] \in P[pos - 1]
       PROVE  saved[pos] \in P[pos]
  <2>1. pos \in 0 .. n /\ pos - 1 \in 0 .. n /\ pos # 0
    BY <1>1
  <2>2. saved[pos] = step(pos, saved[pos - 1]) /\ saved[pos - 1] \in Good(pos - 1)
    BY <1>7, <1>10, <2>1
  <2>3. ASSUME NEW scan \in Good(pos - 1)
        PROVE  step(pos, scan) \in Good(pos)
    <3>1. CASE IsAhead(nodes[pos])
      <4>1. step(pos, scan) = Append(scan, nodes[pos]) /\ nodes[pos].dist > 0 /\ nodes[pos] \in Echo
        BY <3>1, <1>2 DEF step, IsAhead
      <4>2. Len(scan) \in Nat /\ Len(scan) <= pos - 1
        BY LenProperties
      <4>3. /\ Append(scan, nodes[pos]) \in S /\ Len(Append(scan, nodes[pos])) = Len(scan) + 1
            /\ \A i \in 1 .. Len(scan) : Append(scan, nodes[pos])[i] = scan[i]
            /\ Append(scan, nodes[pos])[Len(scan) + 1] = nodes[pos]
        BY <4>1, AppendProperties
      <4>4. \A i \in 1 .. Len(scan) + 1 : i \in 1 .. Len(scan) \/ i = Len(scan) + 1
        BY <4>2
      <4> DEFINE longer == Append(scan, nodes[pos])
      <4>5. \A i \in 1 .. Len(longer) : longer[i].dist > 0
        BY <4>1, <4>3, <4>4
      <4>6. longer \in S /\ Len(longer) <= pos
        BY <2>1, <4>2, <4>3
      <4>. QED BY <4>1, <4>5, <4>6
    <3>2. CASE ~IsAhead(nodes[pos])
      BY <2>1, <3>2, LenProperties DEF step
    <3>. QED BY <3>1, <3>2
  <2>. QED BY <2>1, <2>2, <2>3
<1>11. \A pos \in 0 .. n : P[pos] = Good(pos)
  OBVIOUS
<1> HIDE DEF P
<1>12. \A pos \in 0 .. n : saved[pos] \in P[pos]
  BY <1>1, <1>9, <1>10, LoopKeeps
<1>13. saved[n] \in Good(n)
  BY <1>1, <1>11, <1>12
<1>. QED BY <1>8, <1>13, LenProperties

--------------------------------------------------------------------------------
(* Until it is ascended an echo of a scan is told by its place, and what is  *)
(* saved are echoes.                                                         *)
EchoesAreTold ==
  /\ stage = "grabbed" => \A i \in DOMAIN nodes : nodes[i].dist \in {0, i}
  /\ stage \in {"saved", "matched"} => \A i \in DOMAIN nodes : nodes[i].dist > 0

AnglesInv == NearestIsFound /\ EchoesAreTold

LEMMA AnglesInitHolds == AnglesInit => AnglesInv
<1> SUFFICES ASSUME AnglesInit PROVE AnglesInv
  OBVIOUS
<1>1. AnglesTypeOK
  BY EmptySeq, Constants DEF AnglesInit, AnglesTypeOK, Views
<1>. QED BY <1>1 DEF AnglesInit, AnglesInv, NearestIsFound, EchoesAreTold

LEMMA MeasuredKeeps ==
  ASSUME AnglesInv, NEW angle \in NodeAngles, NEW echo \in BOOLEAN, Measured(angle, echo)
  PROVE  AnglesInv'
<1> DEFINE node == IF echo THEN [angle |-> angle, dist |-> Len(nodes) + 1] ELSE [angle |-> 0, dist |-> 0]
<1> DEFINE n == Len(nodes)
<1>1. AnglesTypeOK /\ stage = "grabbed" /\ n < MaxScan /\ nodes' = Append(nodes, node)
      /\ stage' = stage /\ hAngle' = hAngle /\ match' = match
  BY DEF Measured, AnglesInv, NearestIsFound
<1>2. n \in Nat /\ DOMAIN nodes = 1 .. n /\ nodes \in Seq(Echo)
  BY <1>1, LenProperties DEF AnglesTypeOK
<1>3. node \in Echo /\ node.dist \in {0, n + 1}
  BY <1>1, <1>2, Constants DEF Echo, NodeAngles
<1> HIDE DEF node
<1>4. /\ nodes' \in Seq(Echo) /\ Len(nodes') = n + 1
      /\ \A i \in 1 .. n : nodes'[i] = nodes[i]
      /\ nodes'[n + 1] = node
  BY <1>1, <1>2, <1>3, AppendProperties
<1>5. DOMAIN nodes' = 1 .. n + 1
  BY <1>4, LenProperties
<1> HIDE DEF n
<1>6. AnglesTypeOK'
  BY <1>1, <1>2, <1>4, Constants DEF AnglesTypeOK
<1>7. \A i \in 1 .. n + 1 : i \in 1 .. n \/ i = n + 1
  BY <1>2
<1>8. EchoesAreTold'
  BY <1>1, <1>2, <1>3, <1>4, <1>5, <1>7 DEF AnglesInv, EchoesAreTold
<1>. QED BY <1>1, <1>6, <1>8 DEF AnglesInv, NearestIsFound

(* What sorting does: each node of what was filled in goes to a place of     *)
(* its own, and none before one of a lesser angle.                           *)
LEMMA Ascended ==
  ASSUME AnglesTypeOK, ascendScanData, WithEcho(nodes) # {}
  PROVE  \E order \in Bijection(1 .. Len(nodes), 1 .. Len(nodes)) :
           /\ nodes' = [i \in 1 .. Len(nodes) |-> Filled[order[i]]]
           /\ \A i \in 1 .. Len(nodes) - 1 : Filled[order[i]].angle <= Filled[order[i + 1]].angle
<1>1. Len(nodes) \in 1 .. MaxScan /\ DOMAIN nodes = 1 .. Len(nodes)
  BY LenProperties, EmptySeq DEF AnglesTypeOK, ascendScanData
<1>2. Filled \in Seq(Echo) /\ Len(Filled) = Len(nodes) /\ DOMAIN Filled = 1 .. Len(nodes)
  BY <1>1, FilledKeepsEchoes
<1>. QED BY <1>1, <1>2 DEF ascendScanData, Sorts, Orders

LEMMA AscendKeeps ==
  ASSUME AnglesInv, ascendScanData
  PROVE  AnglesInv'
<1>1. AnglesTypeOK /\ stage' = "ascended" /\ hAngle' = hAngle /\ match' = match
  BY DEF ascendScanData, AnglesInv, NearestIsFound
<1>2. nodes' \in Seq(Echo) /\ Len(nodes') <= MaxScan
  <2>1. CASE WithEcho(nodes) = {}
    BY <1>1, <2>1 DEF ascendScanData, AnglesTypeOK
  <2>2. CASE WithEcho(nodes) # {}
    <3>1. PICK order \in Bijection(1 .. Len(nodes), 1 .. Len(nodes)) :
                 nodes' = [i \in 1 .. Len(nodes) |-> Filled[order[i]]]
      BY <1>1, <2>2, Ascended
    <3>2. \A i \in 1 .. Len(nodes) : order[i] \in 1 .. Len(nodes)
      BY <3>1 DEF Bijection, Injection
    <3>3. nodes' \in [1 .. Len(nodes) -> Echo]
      BY <1>1, <2>2, <3>1, <3>2, FilledKeepsEchoes
    <3>4. Len(nodes) \in Nat /\ Len(nodes) <= MaxScan
      BY <1>1, LenProperties DEF AnglesTypeOK
    <3>. QED BY <3>3, <3>4
  <2>. QED BY <2>1, <2>2
<1>3. AnglesTypeOK'
  BY <1>1, <1>2 DEF AnglesTypeOK
<1>. QED BY <1>1, <1>3 DEF AnglesInv, NearestIsFound, EchoesAreTold

LEMMA SavesKeeps ==
  ASSUME AnglesInv, Saves
  PROVE  AnglesInv'
<1>1. AnglesTypeOK /\ stage' = "saved" /\ hAngle' = hAngle /\ match' = match /\ nodes' = PointsAhead(nodes)
  BY DEF Saves, AnglesInv, NearestIsFound
<1>2. Len(nodes) <= MaxScan /\ Len(nodes) \in Nat
  BY <1>1, LenProperties DEF AnglesTypeOK
<1>3. nodes' \in Seq(Echo) /\ Len(nodes') <= Len(nodes) /\ Len(nodes') \in Nat
      /\ \A i \in DOMAIN nodes' : nodes'[i].dist > 0
  BY <1>1, PointsAheadHaveEcho, LenProperties
<1>4. AnglesTypeOK'
  BY <1>1, <1>2, <1>3, Constants DEF AnglesTypeOK
<1>. QED BY <1>1, <1>3, <1>4 DEF AnglesInv, NearestIsFound, EchoesAreTold

LEMMA DetectsKeeps ==
  ASSUME AnglesInv, NEW h \in Views, Detects(h)
  PROVE  AnglesInv'
<1> DEFINE n == Len(nodes)
<1> DEFINE apart(i) == Separation(nodes[i].angle, h)
<1>1. /\ AnglesTypeOK /\ stage' = "matched" /\ hAngle' = h /\ match' = Found(h) /\ nodes' = nodes
      /\ \A i \in DOMAIN nodes : nodes[i].dist > 0
  BY DEF Detects, AnglesInv, NearestIsFound, EchoesAreTold
<1>2. match' \in Best(h, n)
  BY <1>1, FoundIsBest
<1>3. AnglesTypeOK'
  BY <1>1, <1>2 DEF AnglesTypeOK, Best
<1>4. n \in Nat /\ DOMAIN nodes = 1 .. n /\ \A i \in 1 .. n : nodes[i] \in Echo
  BY <1>1, LenProperties, ElementOfSeq DEF AnglesTypeOK
<1>5. ASSUME \A i \in 1 .. n : nodes[i].angle - h <= Turn
      PROVE  IF \A i \in 1 .. n : ~(apart(i) <= Tolerance) THEN match' = Unmatched
             ELSE \E i \in 1 .. n :
                    /\ apart(i) <= Tolerance /\ \A j \in 1 .. n : apart(i) <= apart(j)
                    /\ match'.dist = nodes[i].dist
  <2>1. \A i \in 1 .. n : Delta(nodes[i].angle, h) = apart(i) /\ apart(i) \in Int
    BY <1>4, <1>5, DeltaIsInteger, DeltaIsSeparation DEF Echo
  <2> HIDE DEF n, apart
  <2>2. \/ match' = Unmatched /\ \A i \in 1 .. n : apart(i) > Tolerance
        \/ \E i \in 1 .. n : /\ match'.dist = nodes[i].dist
                             /\ apart(i) <= Tolerance /\ \A j \in 1 .. n : apart(i) <= apart(j)
    BY <1>2, <2>1 DEF Best
  <2>. QED BY <2>1, <2>2, Constants
<1> HIDE DEF n
<1>6. NearestIsFound'
  BY <1>1, <1>3, <1>4, <1>5 DEF NearestIsFound
<1>. QED BY <1>1, <1>6 DEF AnglesInv, EchoesAreTold

LEMMA NextScanKeeps ==
  ASSUME AnglesInv, NextScan
  PROVE  AnglesInv'
<1>1. AnglesTypeOK'
  BY EmptySeq, Constants DEF NextScan, AnglesTypeOK, Views
<1>. QED BY <1>1 DEF NextScan, AnglesInv, NearestIsFound, EchoesAreTold

LEMMA AnglesInvariant == AnglesSpec => []AnglesInv
<1>1. AnglesInv /\ [AnglesNext]_anglesVars => AnglesInv'
  <2> SUFFICES ASSUME AnglesInv, [AnglesNext]_anglesVars PROVE AnglesInv'
    OBVIOUS
  <2>1. CASE UNCHANGED anglesVars
    BY <2>1 DEF anglesVars, AnglesInv, NearestIsFound, AnglesTypeOK, EchoesAreTold
  <2>. QED
    BY <2>1, MeasuredKeeps, AscendKeeps, SavesKeeps, DetectsKeeps, NextScanKeeps DEF AnglesNext
<1>. QED BY <1>1, AnglesInitHolds, PTL DEF AnglesSpec

(* A detection is given the distance of the saved point nearest to it, if    *)
(* one is within the tolerance, and else none, for any number of points in   *)
(* whatever order the sort left those of one angle in (Lidar.cpp:159-172,    *)
(* yoloInference.cpp:560-575).                                               *)
THEOREM DetectionGetsNearest == AnglesSpec => []NearestIsFound
<1>1. AnglesInv => NearestIsFound
  BY DEF AnglesInv
<1>. QED BY <1>1, AnglesInvariant, PTL

(* Who is in order with its neighbours is so with all.                       *)
LEMMA NeighboursInOrder ==
  ASSUME NEW n \in Nat, NEW f \in [1 .. n -> Int], \A i \in 1 .. n - 1 : f[i] <= f[i + 1],
         NEW i \in 1 .. n
  PROVE  \A j \in 1 .. n : i < j => f[i] <= f[j]
<1> DEFINE S == {j \in 1 .. n : i < j /\ ~(f[i] <= f[j])}
<1>1. SUFFICES ASSUME S # {} PROVE FALSE
  OBVIOUS
<1>2. PICK j \in S : \A y \in S : j <= y
  <2>1. S \in SUBSET Nat
    OBVIOUS
  <2> HIDE DEF S
  <2>. QED BY <1>1, <2>1, LeastNat
<1>3. j \in 1 .. n /\ i < j /\ ~(f[i] <= f[j])
  OBVIOUS
<1>4. j - 1 \in 1 .. n /\ j - 1 \in 1 .. n - 1 /\ j - 1 \notin S /\ (j - 1) + 1 = j
  BY <1>2, <1>3
<1>5. f[j - 1] <= f[j]
  BY <1>4
<1>6. f[i] <= f[j - 1]
  BY <1>3, <1>4
<1>7. f[i] \in Int /\ f[j - 1] \in Int /\ f[j] \in Int
  BY <1>3, <1>4
<1>. QED BY <1>3, <1>5, <1>6, <1>7

(* An ascended scan is in ascending order across its whole length, and each  *)
(* echo is in it once, at the angle it was measured at, for scans of any     *)
(* length (sl_lidar_driver.cpp:128-184).                                     *)
THEOREM ScansAreAscended == AnglesSpec => AscendedIsSorted
<1> DEFINE n == Len(nodes)
<1>1. ASSUME AnglesInv, stage = "grabbed", stage' = "ascended", WithEcho(nodes) # {}, ascendScanData
      PROVE  /\ \A i, j \in DOMAIN nodes' : i < j => nodes'[i].angle <= nodes'[j].angle
             /\ Len(nodes') = n
             /\ {nodes'[i] : i \in WithEcho(nodes')} = {nodes[i] : i \in WithEcho(nodes)}
             /\ \A i, j \in WithEcho(nodes') : nodes'[i] = nodes'[j] => i = j
  <2>1. AnglesTypeOK /\ \A i \in DOMAIN nodes : nodes[i].dist \in {0, i}
    BY <1>1 DEF AnglesInv, NearestIsFound, EchoesAreTold
  <2>2. PICK order \in Bijection(1 .. n, 1 .. n) :
               /\ nodes' = [i \in 1 .. n |-> Filled[order[i]]]
               /\ \A i \in 1 .. n - 1 : Filled[order[i]].angle <= Filled[order[i + 1]].angle
    BY <1>1, <2>1, Ascended
  <2>3. /\ order \in [1 .. n -> 1 .. n]
        /\ \A i, j \in 1 .. n : order[i] = order[j] => i = j
        /\ \A k \in 1 .. n : \E i \in 1 .. n : order[i] = k
    BY <2>2 DEF Bijection, Injection, Surjection, IsInjective
  <2>4. n \in Nat
    BY <2>1, LenProperties DEF AnglesTypeOK
  <2>5. /\ Filled \in [1 .. n -> Echo] /\ DOMAIN nodes = 1 .. n
        /\ \A i \in 1 .. n : /\ Filled[i].dist = nodes[i].dist
                             /\ nodes[i].dist > 0 => Filled[i] = nodes[i]
    BY <1>1, <2>1, FilledKeepsEchoes
  <2> HIDE DEF n
  <2>6. /\ nodes' \in [1 .. n -> Echo] /\ DOMAIN nodes' = 1 .. n /\ Len(nodes') = n
        /\ \A i \in 1 .. n : nodes'[i] = Filled[order[i]]
    BY <2>2, <2>3, <2>4, <2>5
  <2>7. \A i, j \in 1 .. n : i < j => nodes'[i].angle <= nodes'[j].angle
    <3> DEFINE f == [i \in 1 .. n |-> nodes'[i].angle]
    <3>1. f \in [1 .. n -> Int]
      BY <2>6 DEF Echo, NodeAngles
    <3>2. \A i \in 1 .. n - 1 : f[i] <= f[i + 1]
      BY <2>2, <2>4, <2>6
    <3> HIDE DEF f
    <3>3. \A i \in 1 .. n : \A j \in 1 .. n : i < j => f[i] <= f[j]
      BY <2>4, <3>1, <3>2, NeighboursInOrder
    <3>. QED BY <3>3 DEF f
  <2>8. \A i \in 1 .. n : nodes'[i].dist = nodes[order[i]].dist
    BY <2>3, <2>5, <2>6
  <2>9. WithEcho(nodes') = {i \in 1 .. n : nodes[order[i]].dist > 0}
        /\ WithEcho(nodes) = {k \in 1 .. n : nodes[k].dist > 0}
    BY <2>5, <2>6, <2>8 DEF WithEcho
  <2>10. \A i \in WithEcho(nodes') : i \in 1 .. n /\ order[i] \in WithEcho(nodes) /\ nodes'[i] = nodes[order[i]]
    BY <2>3, <2>5, <2>6, <2>9
  <2>11. {nodes'[i] : i \in WithEcho(nodes')} = {nodes[i] : i \in WithEcho(nodes)}
    <3>1. ASSUME NEW k \in WithEcho(nodes)
          PROVE  \E i \in WithEcho(nodes') : nodes'[i] = nodes[k]
      <4>1. PICK i \in 1 .. n : order[i] = k
        BY <2>3, <2>9
      <4>2. i \in WithEcho(nodes')
        BY <2>9, <4>1
      <4>. QED BY <2>10, <4>1, <4>2
    <3>. QED BY <2>10, <3>1
  <2>12. ASSUME NEW i \in WithEcho(nodes'), NEW j \in WithEcho(nodes'), nodes'[i] = nodes'[j]
         PROVE  i = j
    <3>1. \A k \in WithEcho(nodes) : nodes[k].dist = k
      BY <2>1, <2>9, <2>5
    <3>2. nodes'[i].dist = order[i] /\ nodes'[j].dist = order[j]
      BY <2>10, <3>1
    <3>. QED BY <2>3, <2>10, <2>12, <3>2
  <2>. QED BY <2>6, <2>7, <2>11, <2>12 DEF n
<1>2. AnglesInv /\ [AnglesNext]_anglesVars =>
        (stage = "grabbed" /\ stage' = "ascended" /\ WithEcho(nodes) # {} =>
           /\ \A i, j \in DOMAIN nodes' : i < j => nodes'[i].angle <= nodes'[j].angle
           /\ Len(nodes') = Len(nodes)
           /\ {nodes'[i] : i \in WithEcho(nodes')} = {nodes[i] : i \in WithEcho(nodes)}
           /\ \A i, j \in WithEcho(nodes') : nodes'[i] = nodes'[j] => i = j)
  <2>1. [AnglesNext]_anglesVars /\ stage = "grabbed" /\ stage' = "ascended" => ascendScanData
    BY DEF AnglesNext, anglesVars, Measured, Saves, NextScan, Detects
  <2>. QED BY <1>1, <2>1
<1>. QED BY <1>2, AnglesInvariant, PTL DEF AnglesSpec, AscendedIsSorted
================================================================================
