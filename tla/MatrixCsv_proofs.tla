------------------------- MODULE MatrixCsv_proofs -------------------------
(***************************************************************************)
(* The generator for matrices of every size: each method leaves the product, *)
(* and writes the file that the analysis says it writes.                    *)
(***************************************************************************)
EXTENDS MatrixCsv, WellFoundedInduction, SequenceTheorems, TLAPS

-----------------------------------------------------------------------------
(* Numbers: a property that goes from each to the next holds for all.       *)

LEMMA NumbersUpTo ==
    ASSUME NEW n \in Nat, NEW S, 0 \in S,
           \A m \in 0 .. n - 1 : m \in S => m + 1 \in S
    PROVE  \A m \in 0 .. n : m \in S
<1> DEFINE T == {m \in 0 .. n : m \notin S}
           R == OpToRel(<, Nat)
<1>1. \A l, m \in Nat : l < m => <<l, m>> \in R
  BY DEF OpToRel
<1>2. IsWellFoundedOn(R, Nat)
  BY NatLessThanWellFounded
<1> HIDE DEF R
<1>3. SUFFICES ASSUME T # {} PROVE FALSE
  OBVIOUS
<1>4. T \in SUBSET Nat
  OBVIOUS
<1>5. PICK m \in T : \A l \in T : ~(<<l, m>> \in R)
  BY <1>2, <1>3, <1>4, WFMin
<1>6. m \in Nat /\ m # 0 /\ m <= n /\ m \notin S
  BY <1>5
<1>7. m - 1 \in T
  <2>1. m - 1 \in 0 .. n - 1
    BY <1>6
  <2>2. m - 1 \notin S
    BY <1>6, <2>1
  <2>3. QED
    BY <1>6, <2>1, <2>2
<1>8. <<m - 1, m>> \in R
  BY <1>1, <1>6, <1>7
<1>9. QED
  BY <1>5, <1>7, <1>8

(* Rows and columns stay inside a matrix and meet in one element.           *)
LEMMA AtRange ==
    ASSUME NEW i \in Position, NEW j \in Position
    PROVE  At(i, j) \in 0 .. Area - 1 /\ At(i, j) \in Nat
<1> DEFINE n == MatrixSize
<1>1. n \in Nat /\ i \in Nat /\ j \in Nat /\ i + 1 <= n /\ j + 1 <= n
  BY MatrixAssumption DEF Position
<1>2. PICK d \in Nat : n = i + 1 + d
  <2>1. n - (i + 1) \in Nat /\ n = i + 1 + (n - (i + 1))
    BY <1>1
  <2>2. QED
    BY <2>1
<1>3. n * n = i * n + n + d * n
  BY <1>1, <1>2
<1>4. i * n \in Nat /\ d * n \in Nat
  BY <1>1, <1>2
<1>5. i * n + j <= n * n - 1 /\ i * n + j \in Nat
  BY <1>1, <1>3, <1>4
<1>6. QED
  BY <1>5 DEF At, Area

LEMMA PositionNext ==
    ASSUME NEW k \in Position
    PROVE  /\ k \in Nat /\ k + 1 \in 0 .. MatrixSize /\ k \in 0 .. MatrixSize
           /\ k + 1 \in Nat /\ k < MatrixSize
<1>1. MatrixSize \in Nat
  BY MatrixAssumption
<1>2. QED
  BY <1>1 DEF Position

LEMMA AtBelow ==
    ASSUME NEW i \in Position, NEW j \in Position,
           NEW r \in Position, NEW c \in Position, i < r
    PROVE  At(i, j) < At(r, c)
<1> DEFINE n == MatrixSize
<1>1. /\ n \in Nat /\ i \in Nat /\ j \in Nat /\ r \in Nat /\ c \in Nat
      /\ j < n
  BY MatrixAssumption DEF Position
<1>2. PICK d \in Nat : r = i + 1 + d
  <2>1. r - (i + 1) \in Nat /\ r = i + 1 + (r - (i + 1))
    BY <1>1
  <2>2. QED
    BY <2>1
<1>3. r * n = i * n + n + d * n
  BY <1>1, <1>2
<1>4. i * n \in Nat /\ d * n \in Nat /\ r * n \in Nat
  BY <1>1, <1>2
<1>5. QED
  BY <1>1, <1>3, <1>4 DEF At

LEMMA AtSame ==
    ASSUME NEW i \in Position, NEW j \in Position,
           NEW r \in Position, NEW c \in Position, At(i, j) = At(r, c)
    PROVE  i = r /\ j = c
<1>1. /\ i \in Nat /\ j \in Nat /\ r \in Nat /\ c \in Nat
      /\ MatrixSize \in Nat
  BY MatrixAssumption DEF Position
<1>2. At(i, j) \in Nat /\ At(r, c) \in Nat
  BY AtRange
<1>3. ~(i < r) /\ ~(r < i)
  BY <1>2, AtBelow
<1>4. i = r
  BY <1>1, <1>3
<1>5. i * MatrixSize \in Nat
  BY <1>1
<1>6. QED
  BY <1>1, <1>4, <1>5 DEF At

(* The sums of a row and a column are what their recursive definition says. *)
LEMMA SumsAre ==
    ASSUME NEW a \in Matrix, NEW b \in Matrix,
           NEW i \in Position, NEW j \in Position
    PROVE  /\ SumsOf(a, b, i, j) \in [0 .. MatrixSize -> Nat]
           /\ SumsOf(a, b, i, j)[0] = 0
           /\ \A k \in Position :
                 SumsOf(a, b, i, j)[k + 1]
                   = SumsOf(a, b, i, j)[k] + a[At(i, k)] * b[At(k, j)]
<1> DEFINE n == MatrixSize
           T(k) == a[At(i, k)] * b[At(k, j)]
           Sums(m, f) == /\ f \in [0 .. m -> Nat] /\ f[0] = 0
                         /\ \A k \in 1 .. m : f[k] = f[k - 1] + T(k - 1)
           S == {m \in 0 .. n : \E f : Sums(m, f)}
<1>1. n \in Nat
  BY MatrixAssumption
<1>2. \A k \in 0 .. n - 1 : T(k) \in Nat
  <2> TAKE k \in 0 .. n - 1
  <2>1. At(i, k) \in 0 .. Area - 1 /\ At(k, j) \in 0 .. Area - 1
    BY AtRange DEF Position
  <2>2. a[At(i, k)] \in Nat /\ b[At(k, j)] \in Nat
    BY <2>1 DEF Matrix
  <2>3. QED
    BY <2>2
<1> HIDE DEF T
<1>3. 0 \in S
  <2>1. Sums(0, [k \in 0 .. 0 |-> 0])
    OBVIOUS
  <2>2. 0 \in 0 .. n
    BY <1>1
  <2> HIDE DEF Sums
  <2>3. QED
    BY <2>1, <2>2
<1>4. \A m \in 0 .. n - 1 : m \in S => m + 1 \in S
  <2> SUFFICES ASSUME NEW m \in 0 .. n - 1, NEW f, Sums(m, f)
               PROVE  m + 1 \in S
    OBVIOUS
  <2> DEFINE g == [k \in 0 .. m + 1 |-> IF k = m + 1 THEN f[m] + T(m) ELSE f[k]]
  <2>1. m \in Nat /\ m \in 0 .. m /\ f[m] \in Nat /\ T(m) \in Nat
    BY <1>1, <1>2
  <2>2. g \in [0 .. m + 1 -> Nat]
    <3>1. \A k \in 0 .. m + 1 : k # m + 1 => f[k] \in Nat
      BY <2>1
    <3>2. QED
      BY <2>1, <3>1
  <2>3. g[0] = 0
    BY <2>1
  <2>4. \A k \in 1 .. m + 1 : g[k] = g[k - 1] + T(k - 1)
    <3> TAKE k \in 1 .. m + 1
    <3>1. CASE k = m + 1
      <4>1. k - 1 = m /\ k \in 0 .. m + 1 /\ m \in 0 .. m + 1 /\ m # m + 1
        BY <2>1, <3>1
      <4>2. g[k] = f[m] + T(m) /\ g[m] = f[m]
        BY <3>1, <4>1
      <4>3. QED
        BY <4>1, <4>2
    <3>2. CASE k # m + 1
      <4>1. k \in 1 .. m /\ k - 1 \in 0 .. m + 1 /\ k - 1 # m + 1 /\ k \in 0 .. m + 1
        BY <2>1, <3>2
      <4>2. g[k] = f[k] /\ g[k - 1] = f[k - 1]
        BY <3>2, <4>1
      <4>3. f[k] = f[k - 1] + T(k - 1)
        BY <4>1
      <4>4. QED
        BY <4>2, <4>3
    <3>3. QED
      BY <3>1, <3>2
  <2>5. m + 1 \in 0 .. n
    BY <1>1
  <2>6. Sums(m + 1, g)
    BY <2>2, <2>3, <2>4
  <2>7. QED
    BY <2>5, <2>6
<1>5. n \in S
  <2> HIDE DEF S
  <2>1. \A m \in 0 .. n : m \in S
    BY <1>1, <1>3, <1>4, NumbersUpTo
  <2>2. QED
    BY <1>1, <2>1
<1>6. PICK f : Sums(n, f)
  BY <1>5
<1> DEFINE Body(g) == [k \in 0 .. n |-> IF k = 0 THEN 0
                                         ELSE g[k - 1] + a[At(i, k - 1)] * b[At(k - 1, j)]]
<1>7. f = Body(f)
  <2>1. \A k \in 0 .. n : k = 0 \/ k \in 1 .. n
    BY <1>1
  <2>2. \A k \in 0 .. n : f[k] = Body(f)[k]
    BY <1>6, <2>1 DEF T
  <2>3. QED
    BY <1>6, <2>2
<1>8. SumsOf(a, b, i, j) = CHOOSE g : g = Body(g)
  BY DEF SumsOf
<1> DEFINE s == SumsOf(a, b, i, j)
<1>9. s = Body(s)
  BY <1>7, <1>8
<1> HIDE DEF s
<1>10. s[0] = 0
  BY <1>1, <1>9
<1>11. \A k \in Position : s[k + 1] = s[k] + a[At(i, k)] * b[At(k, j)]
  <2>1. \A m \in 0 .. n :
          m # 0 => s[m] = s[m - 1] + a[At(i, m - 1)] * b[At(m - 1, j)]
    BY <1>9
  <2> TAKE k \in Position
  <2>2. PICK m \in 0 .. n : m = k + 1 /\ m # 0 /\ m - 1 = k
    <3>1. k \in Nat /\ k + 1 \in 0 .. n /\ k + 1 # 0 /\ k + 1 - 1 = k
      BY <1>1 DEF Position
    <3>2. QED
      BY <3>1
  <2>3. s[m] = s[m - 1] + a[At(i, m - 1)] * b[At(m - 1, j)]
    BY <2>1, <2>2
  <2>4. QED
    BY <2>2, <2>3
<1>12. \A m \in 0 .. n : s[m] \in Nat
  <2> DEFINE U == {m \in 0 .. n : s[m] \in Nat}
  <2>1. 0 \in U
    BY <1>1, <1>10
  <2>2. \A m \in 0 .. n - 1 : m \in U => m + 1 \in U
    <3> SUFFICES ASSUME NEW m \in 0 .. n - 1, s[m] \in Nat PROVE m + 1 \in U
      OBVIOUS
    <3>1. m + 1 \in 0 .. n
      BY <1>1
    <3>2. T(m) \in Nat
      BY <1>2
    <3>3. s[m + 1] = s[m] + T(m)
      BY <1>11 DEF Position, T
    <3>4. QED
      BY <3>1, <3>2, <3>3
  <2> HIDE DEF U
  <2>3. \A m \in 0 .. n : m \in U
    BY <1>1, <2>1, <2>2, NumbersUpTo
  <2>4. QED
    BY <2>3 DEF U
<1>13. s \in [0 .. n -> Nat]
  <2>1. s = [k \in 0 .. n |-> s[k]]
    BY <1>9
  <2>2. QED
    BY <1>12, <2>1
<1>14. QED
  BY <1>10, <1>11, <1>13 DEF s

-----------------------------------------------------------------------------
(* The loops.                                                               *)

LoopVariable == {"i", "j", "k"}
Orders == {<<"i", "j", "k">>, <<"i", "k", "j">>, <<"j", "i", "k">>,
           <<"j", "k", "i">>, <<"k", "i", "j">>, <<"k", "j", "i">>}

(* The counters in the loops and when they have ended.                      *)
Counting(loops) ==
    /\ counter \in [LoopVariable -> 0 .. MatrixSize]
    /\ counter[loops[2]] \in Position /\ counter[loops[3]] \in Position
    /\ LoopsEnded(loops) => counter[loops[2]] = 0 /\ counter[loops[3]] = 0

(* The iteration with the counters t is over.                               *)
Passed(loops, t) ==
    \/ t[loops[1]] < counter[loops[1]]
    \/ t[loops[1]] = counter[loops[1]] /\ t[loops[2]] < counter[loops[2]]
    \/ /\ t[loops[1]] = counter[loops[1]] /\ t[loops[2]] = counter[loops[2]]
       /\ t[loops[3]] < counter[loops[3]]

Iteration == [LoopVariable -> Position]

LEMMA OrderOfLoops ==
    ASSUME NEW loops \in Orders
    PROVE  /\ DOMAIN loops = 1 .. 3
           /\ loops[1] \in LoopVariable /\ loops[2] \in LoopVariable
           /\ loops[3] \in LoopVariable
           /\ loops[1] # loops[2] /\ loops[1] # loops[3] /\ loops[2] # loops[3]
           /\ LoopVariable = {loops[1], loops[2], loops[3]}
  BY DEF Orders, LoopVariable

(* Which loop goes on.                                                      *)
LEMMA AdvanceThree ==
    ASSUME NEW loops \in Orders, Counting(loops), ~LoopsEnded(loops),
           Advance(loops)
    PROVE  LET x == loops[1]  y == loops[2]  z == loops[3]  n == MatrixSize
           IN /\ counter' \in [LoopVariable -> 0 .. n]
              /\ \/ /\ counter[z] + 1 < n
                    /\ counter'[x] = counter[x] /\ counter'[y] = counter[y]
                    /\ counter'[z] = counter[z] + 1
                 \/ /\ counter[z] + 1 = n /\ counter[y] + 1 < n
                    /\ counter'[x] = counter[x] /\ counter'[y] = counter[y] + 1
                    /\ counter'[z] = 0
                 \/ /\ counter[z] + 1 = n /\ counter[y] + 1 = n
                    /\ counter'[x] = counter[x] + 1 /\ counter'[y] = 0
                    /\ counter'[z] = 0
<1> DEFINE x == loops[1]
           y == loops[2]
           z == loops[3]
           n == MatrixSize
           Goes(d) == /\ d = 1 \/ counter[loops[d]] + 1 < n
                      /\ \A e \in DOMAIN loops : e > d => counter[loops[e]] + 1 = n
           After(d) == [v \in DOMAIN counter |->
                          IF v = loops[d] THEN counter[v] + 1
                          ELSE IF \E e \in DOMAIN loops : e > d /\ v = loops[e]
                               THEN 0 ELSE counter[v]]
<1>1. /\ DOMAIN loops = 1 .. 3 /\ LoopVariable = {x, y, z}
      /\ x # y /\ x # z /\ y # z
  BY OrderOfLoops
<1>2. /\ n \in Nat /\ n # 0 /\ DOMAIN counter = LoopVariable
      /\ counter[x] \in Nat /\ counter[y] \in Nat /\ counter[z] \in Nat
      /\ counter[x] + 1 <= n /\ counter[y] + 1 <= n /\ counter[z] + 1 <= n
  BY <1>1, MatrixAssumption DEF Counting, LoopsEnded, Position
<1>3. counter' = After(CHOOSE d \in DOMAIN loops : Goes(d))
  BY DEF Advance
<1>4. /\ Goes(3) <=> counter[z] + 1 < n
      /\ Goes(2) <=> counter[z] + 1 = n /\ counter[y] + 1 < n
      /\ Goes(1) <=> counter[z] + 1 = n /\ counter[y] + 1 = n
  BY <1>1, <1>2
<1>5. /\ After(3)[x] = counter[x] /\ After(3)[y] = counter[y]
      /\ After(3)[z] = counter[z] + 1
  BY <1>1, <1>2
<1>6. /\ After(2)[x] = counter[x] /\ After(2)[y] = counter[y] + 1
      /\ After(2)[z] = 0
  BY <1>1, <1>2
<1>7. /\ After(1)[x] = counter[x] + 1 /\ After(1)[y] = 0
      /\ After(1)[z] = 0
  BY <1>1, <1>2
<1>8. \A d : /\ After(d) = [v \in LoopVariable |-> After(d)[v]]
  BY <1>2
<1> HIDE DEF Goes, After
<1>9. CASE counter[z] + 1 < n
  <2>1. (CHOOSE d \in DOMAIN loops : Goes(d)) = 3
    BY <1>1, <1>2, <1>4, <1>9
  <2>2. counter' = After(3)
    BY <1>3, <2>1
  <2>3. counter' \in [LoopVariable -> 0 .. n]
    BY <1>1, <1>2, <1>5, <1>8, <1>9, <2>2
  <2>4. QED
    BY <1>5, <1>9, <2>2, <2>3
<1>10. CASE counter[z] + 1 = n /\ counter[y] + 1 < n
  <2>1. (CHOOSE d \in DOMAIN loops : Goes(d)) = 2
    BY <1>1, <1>2, <1>4, <1>10
  <2>2. counter' = After(2)
    BY <1>3, <2>1
  <2>3. counter' \in [LoopVariable -> 0 .. n]
    BY <1>1, <1>2, <1>6, <1>8, <1>10, <2>2
  <2>4. QED
    BY <1>6, <1>10, <2>2, <2>3
<1>11. CASE counter[z] + 1 = n /\ counter[y] + 1 = n
  <2>1. (CHOOSE d \in DOMAIN loops : Goes(d)) = 1
    BY <1>1, <1>2, <1>4, <1>11
  <2>2. counter' = After(1)
    BY <1>3, <2>1
  <2>3. counter' \in [LoopVariable -> 0 .. n]
    BY <1>1, <1>2, <1>7, <1>8, <1>11, <2>2
  <2>4. QED
    BY <1>7, <1>11, <2>2, <2>3
<1>12. QED
  BY <1>2, <1>9, <1>10, <1>11

(* An iteration passes when it was the one of the counters.                 *)
LEMMA AdvancePasses ==
    ASSUME NEW loops \in Orders, Counting(loops), ~LoopsEnded(loops),
           Advance(loops)
    PROVE  /\ Counting(loops)'
           /\ counter \in Iteration
           /\ \A t \in Iteration :
                 Passed(loops, t)' <=> Passed(loops, t) \/ t = counter
<1> DEFINE x == loops[1]
           y == loops[2]
           z == loops[3]
           n == MatrixSize
<1>1. /\ LoopVariable = {x, y, z} /\ x # y /\ x # z /\ y # z
  BY OrderOfLoops
<1>2. /\ n \in Nat /\ n # 0 /\ counter \in [LoopVariable -> 0 .. n]
      /\ counter[x] \in Position /\ counter[y] \in Position
      /\ counter[z] \in Position
  BY <1>1, MatrixAssumption DEF Counting, LoopsEnded, Position
<1>3. counter \in Iteration
  BY <1>1, <1>2 DEF Iteration
<1>4. \A t \in Iteration :
        /\ t[x] \in Position /\ t[y] \in Position /\ t[z] \in Position
        /\ t = counter <=> t[x] = counter[x] /\ t[y] = counter[y] /\ t[z] = counter[z]
  BY <1>1, <1>3 DEF Iteration
<1>5. /\ counter' \in [LoopVariable -> 0 .. n]
      /\ \/ /\ counter[z] + 1 < n
            /\ counter'[x] = counter[x] /\ counter'[y] = counter[y]
            /\ counter'[z] = counter[z] + 1
         \/ /\ counter[z] + 1 = n /\ counter[y] + 1 < n
            /\ counter'[x] = counter[x] /\ counter'[y] = counter[y] + 1
            /\ counter'[z] = 0
         \/ /\ counter[z] + 1 = n /\ counter[y] + 1 = n
            /\ counter'[x] = counter[x] + 1 /\ counter'[y] = 0
            /\ counter'[z] = 0
  BY AdvanceThree
<1>6. Counting(loops)'
  BY <1>2, <1>5 DEF Counting, LoopsEnded, Position
<1>7. ASSUME NEW t \in Iteration
      PROVE  Passed(loops, t)' <=> Passed(loops, t) \/ t = counter
  <2>1. /\ t[x] \in 0 .. n - 1 /\ t[y] \in 0 .. n - 1 /\ t[z] \in 0 .. n - 1
        /\ counter[x] \in 0 .. n - 1 /\ counter[y] \in 0 .. n - 1
        /\ counter[z] \in 0 .. n - 1
    BY <1>2, <1>4 DEF Position
  <2>2. t = counter <=> t[x] = counter[x] /\ t[y] = counter[y] /\ t[z] = counter[z]
    BY <1>4
  <2>3. Passed(loops, t)' <=>
          \/ t[x] < counter'[x]
          \/ t[x] = counter'[x] /\ t[y] < counter'[y]
          \/ t[x] = counter'[x] /\ t[y] = counter'[y] /\ t[z] < counter'[z]
    BY DEF Passed
  <2>4. Passed(loops, t) <=>
          \/ t[x] < counter[x]
          \/ t[x] = counter[x] /\ t[y] < counter[y]
          \/ t[x] = counter[x] /\ t[y] = counter[y] /\ t[z] < counter[z]
    BY DEF Passed
  <2>5. QED
    BY <1>2, <1>5, <2>1, <2>2, <2>3, <2>4
<1>8. QED
  BY <1>3, <1>6, <1>7

(* At the start none has passed, in the end all have.                       *)
LEMMA LoopsPass ==
    ASSUME NEW loops \in Orders, Counting(loops)
    PROVE  /\ (\A v \in LoopVariable : counter[v] = 0) =>
                  \A t \in Iteration : ~Passed(loops, t)
           /\ LoopsEnded(loops) => \A t \in Iteration : Passed(loops, t)
<1>1. /\ loops[1] \in LoopVariable /\ loops[2] \in LoopVariable
      /\ loops[3] \in LoopVariable
  BY OrderOfLoops
<1>2. \A t \in Iteration : \A v \in LoopVariable : t[v] \in 0 .. MatrixSize - 1
  BY DEF Iteration, Position
<1>3. MatrixSize \in Nat
  BY MatrixAssumption
<1>4. ASSUME \A v \in LoopVariable : counter[v] = 0, NEW t \in Iteration
      PROVE  ~Passed(loops, t)
  BY <1>1, <1>2, <1>4 DEF Passed
<1>5. ASSUME LoopsEnded(loops), NEW t \in Iteration
      PROVE  Passed(loops, t)
  BY <1>1, <1>2, <1>3, <1>5 DEF Passed, LoopsEnded
<1>6. QED
  BY <1>4, <1>5

(* Of the iterations for one element, those with a smaller k have passed    *)
(* when the element's turn comes.                                           *)
LEMMA PassedOfElement ==
    ASSUME NEW loops \in Orders, Counting(loops), ~LoopsEnded(loops),
           NEW t \in Iteration,
           t["i"] = counter["i"], t["j"] = counter["j"]
    PROVE  Passed(loops, t) <=> t["k"] < counter["k"]
<1>1. /\ \A v \in LoopVariable : t[v] \in Nat /\ counter[v] \in Nat
  BY DEF Iteration, Position, Counting
<1>2. QED
  BY <1>1 DEF Passed, Orders, LoopVariable

-----------------------------------------------------------------------------
(* The table of the methods.                                                *)

LEMMA MethodCount == DOMAIN Methods = 1 .. 17 /\ Len(Methods) = 17
  BY DEF Methods

(* Each method nests the three loops, and create_csv() passes the           *)
(* transposed arrays that the function indexes as such.                     *)
LEMMA MethodTable ==
    ASSUME NEW p \in DOMAIN Methods
    PROVE  /\ Methods[p].loops \in Orders
           /\ Methods[p].opt \in {0, 1, 2}
           /\ PassedTransposed(Methods[p]) = IndexedTransposed(Methods[p])
           /\ Methods[p].name \notin {"a", "b", "c"}
<1>1. p \in 1 .. 17
  BY MethodCount
<1>2. Methods[p].loops \in Orders /\ Methods[p].opt \in {0, 1, 2}
  BY <1>1 DEF Methods, Method, Orders
<1>3. Methods[p].name \notin {"a", "b", "c"}
  BY <1>1 DEF Methods, Method
<1>4. QED
  BY <1>2, <1>3 DEF PassedTransposed, IndexedTransposed

(* No two methods write the same file.                                      *)
LEMMA MethodNames ==
    ASSUME NEW p \in DOMAIN Methods, NEW q \in DOMAIN Methods,
           Methods[p].name = Methods[q].name
    PROVE  p = q
<1>1. p \in 1 .. 17 /\ q \in 1 .. 17
  BY MethodCount
<1>2. QED
  BY <1>1 DEF Methods, Method

-----------------------------------------------------------------------------
(* The heap.                                                                *)

Cell == Nat \cup {Garbage}
HeapType == [ArrayName -> [0 .. Area - 1 -> Cell]]

LEMMA ArrayNames ==
    ArrayName = {"a", "b", "result", "result_transposed",
                 "a_transposed", "b_transposed"}
  BY DEF ArrayName, Arrays

LEMMA AreaNat == Area \in Nat
  BY MatrixAssumption DEF Area

(* An address is a number.                                                  *)
LEMMA AddressNat ==
    ASSUME NEW x \in ArrayName, NEW e \in 0 .. Area - 1
    PROVE  AddressOf(x, e) \in Nat
<1>1. PICK p \in 1 .. 6 : Arrays[p] = x
  BY DEF ArrayName, Arrays
<1>2. DOMAIN Arrays = 1 .. 6
  BY DEF Arrays
<1> DEFINE q == CHOOSE q \in DOMAIN Arrays : Arrays[q] = x
<1>3. q \in 1 .. 6
  BY <1>1, <1>2
<1>4. AddressOf(x, e) = e + Area * (q - 1)
  BY DEF AddressOf
<1> HIDE DEF q
<1>5. Area \in Nat /\ q - 1 \in Nat /\ e \in Nat
  BY <1>3, AreaNat
<1>6. Area * (q - 1) \in Nat
  BY <1>5
<1>7. QED
  BY <1>4, <1>5, <1>6

(* A store changes one element.                                             *)
LEMMA StoreChanges ==
    ASSUME heap \in HeapType,
           NEW e \in [array : ArrayName, index : 0 .. Area - 1],
           NEW value \in Cell, StoreValue(e, value)
    PROVE  /\ heap' \in HeapType
           /\ \A x \in ArrayName : x # e.array => heap'[x] = heap[x]
           /\ \A x \in ArrayName, l \in 0 .. Area - 1 :
                 heap'[x][l] = IF x = e.array /\ l = e.index THEN value
                                                           ELSE heap[x][l]
<1>1. heap' = [heap EXCEPT ![e.array][e.index] = value]
  BY DEF StoreValue
<1>2. e.array \in ArrayName /\ e.index \in 0 .. Area - 1
  OBVIOUS
<1>3. heap[e.array] \in [0 .. Area - 1 -> Cell]
  BY <1>2 DEF HeapType
<1>4. heap' = [heap EXCEPT ![e.array] = [heap[e.array] EXCEPT ![e.index] = value]]
  BY <1>1
<1>5. [heap[e.array] EXCEPT ![e.index] = value] \in [0 .. Area - 1 -> Cell]
  BY <1>2, <1>3
<1>6. heap' \in HeapType
  BY <1>2, <1>4, <1>5 DEF HeapType
<1>7. \A x \in ArrayName : x # e.array => heap'[x] = heap[x]
  BY <1>4 DEF HeapType
<1>8. heap'[e.array] = [heap[e.array] EXCEPT ![e.index] = value]
  BY <1>2, <1>4 DEF HeapType
<1>9. ASSUME NEW x \in ArrayName, NEW l \in 0 .. Area - 1
      PROVE  heap'[x][l] = IF x = e.array /\ l = e.index THEN value
                                                         ELSE heap[x][l]
  BY <1>3, <1>7, <1>8
<1>10. QED
  BY <1>6, <1>7, <1>9

(* The elements of the operands and of the result that a method works on,    *)
(* once the operands have been transposed.                                  *)
TransposedTo(from, to) ==
    \A i, j \in Position : heap[to][At(j, i)] = heap[from][At(i, j)]
OperandsTransposed ==
    TransposedTo("a", "a_transposed") /\ TransposedTo("b", "b_transposed")

ResultArray(m) ==
    IF "result" \in PassedTransposed(m) THEN "result_transposed" ELSE "result"
ResultElement(m, i, j) == ElementOf(m, "result", i, j)

LEMMA Elements ==
    ASSUME NEW p \in DOMAIN Methods, NEW i \in Position, NEW j \in Position,
           NEW x \in {"a", "b", "result"}
    PROVE  /\ ElementOf(Methods[p], x, i, j)
                 \in [array : ArrayName, index : 0 .. Area - 1]
           /\ ElementOf(Methods[p], x, i, j)
                = [array |-> IF x \in PassedTransposed(Methods[p])
                             THEN TransposedName(x) ELSE x,
                   index |-> IF x \in PassedTransposed(Methods[p])
                             THEN At(j, i) ELSE At(i, j)]
           /\ ElementOf(Methods[p], "result", i, j).array = ResultArray(Methods[p])
<1>1. PassedTransposed(Methods[p]) = IndexedTransposed(Methods[p])
  BY MethodTable
<1>2. At(i, j) \in 0 .. Area - 1 /\ At(j, i) \in 0 .. Area - 1
  BY AtRange
<1>3. x \in ArrayName /\ TransposedName(x) \in ArrayName
      /\ TransposedName("result") = "result_transposed"
  BY ArrayNames DEF TransposedName
<1>4. QED
  BY <1>1, <1>2, <1>3 DEF ElementOf, ResultArray

LEMMA OperandValues ==
    ASSUME NEW p \in DOMAIN Methods, NEW i \in Position, NEW j \in Position,
           OperandsTransposed, NEW x \in {"a", "b"}
    PROVE  ValueOf(ElementOf(Methods[p], x, i, j)) = heap[x][At(i, j)]
<1>1. ElementOf(Methods[p], x, i, j)
                = [array |-> IF x \in PassedTransposed(Methods[p])
                             THEN TransposedName(x) ELSE x,
                   index |-> IF x \in PassedTransposed(Methods[p])
                             THEN At(j, i) ELSE At(i, j)]
  BY Elements
<1>2. heap[TransposedName(x)][At(j, i)] = heap[x][At(i, j)]
  BY DEF OperandsTransposed, TransposedTo, TransposedName
<1>3. QED
  BY <1>1, <1>2 DEF ValueOf

(* Different elements of the result are in different places.                *)
LEMMA ResultApart ==
    ASSUME NEW p \in DOMAIN Methods, NEW i \in Position, NEW j \in Position,
           NEW r \in Position, NEW c \in Position,
           ResultElement(Methods[p], i, j).index
             = ResultElement(Methods[p], r, c).index
    PROVE  i = r /\ j = c
<1>1. PassedTransposed(Methods[p]) = IndexedTransposed(Methods[p])
  BY MethodTable
<1>2. At(i, j) = At(r, c) \/ At(j, i) = At(c, r)
  BY <1>1 DEF ResultElement, ElementOf
<1>3. QED
  BY <1>2, AtSame

-----------------------------------------------------------------------------
(* The files.                                                               *)

AccessRow == [we : BOOLEAN, data : Nat \cup {Garbage}, addr : Nat]
FilesType == csv \in [DOMAIN csv -> Seq(AccessRow)]

LEMMA AccessRows ==
    ASSUME NEW e \in [array : ArrayName, index : 0 .. Area - 1],
           NEW value \in Cell
    PROVE  LoadRow(e) \in AccessRow /\ StoreRow(e, value) \in AccessRow
<1>1. AddressOf(e.array, e.index) \in Nat
  BY AddressNat
<1>2. QED
  BY <1>1 DEF LoadRow, StoreRow, AccessRow, Cell

(* Rows go to the end of the file of the function that runs.                *)
LEMMA RowsWritten ==
    ASSUME FilesType, FileName \in DOMAIN csv, NEW rows \in Seq(AccessRow),
           WriteRows(rows)
    PROVE  /\ FilesType' /\ DOMAIN csv' = DOMAIN csv
           /\ \A f \in DOMAIN csv : f # FileName => csv'[f] = csv[f]
           /\ Len(csv'[FileName]) = Len(csv[FileName]) + Len(rows)
<1>1. csv' = [csv EXCEPT ![FileName] = csv[FileName] \o rows]
  BY DEF WriteRows
<1>2. csv[FileName] \in Seq(AccessRow)
  BY DEF FilesType
<1>3. /\ csv[FileName] \o rows \in Seq(AccessRow)
      /\ Len(csv[FileName] \o rows) = Len(csv[FileName]) + Len(rows)
  BY <1>2
<1>4. csv' \in [DOMAIN csv -> Seq(AccessRow)]
  BY <1>1, <1>3 DEF FilesType
<1>5. DOMAIN csv' = DOMAIN csv
  BY <1>4
<1>6. csv'[FileName] = csv[FileName] \o rows
  BY <1>1 DEF FilesType
<1>7. \A f \in DOMAIN csv : f # FileName => csv'[f] = csv[f]
  BY <1>1 DEF FilesType
<1>8. QED
  BY <1>3, <1>4, <1>5, <1>6, <1>7 DEF FilesType

(* A function that begins empties its file and sets its counters to 0.      *)
LEMMA Entered ==
    ASSUME FilesType, NEW function, NEW name, Enter(function, name)
    PROVE  /\ FilesType' /\ DOMAIN csv' = DOMAIN csv \cup {name}
           /\ \A f \in DOMAIN csv : f # name => csv'[f] = csv[f]
           /\ csv'[name] = <<>> /\ Len(csv'[name]) = 0
           /\ call' = function
           /\ counter' \in [LoopVariable -> 0 .. MatrixSize]
           /\ \A v \in LoopVariable : counter'[v] = 0
<1>1. csv' = [f \in DOMAIN csv \cup {name} |-> IF f = name THEN <<>> ELSE csv[f]]
  BY DEF Enter
<1>2. \A f \in DOMAIN csv : csv[f] \in Seq(AccessRow)
  BY DEF FilesType
<1>3. <<>> \in Seq(AccessRow) /\ Len(<<>>) = 0
  OBVIOUS
<1>4. csv' \in [DOMAIN csv \cup {name} -> Seq(AccessRow)]
  BY <1>1, <1>2, <1>3
<1>5. /\ DOMAIN csv' = DOMAIN csv \cup {name}
      /\ \A f \in DOMAIN csv : f # name => csv'[f] = csv[f]
      /\ csv'[name] = <<>>
  BY <1>1
<1>6. /\ call' = function
      /\ counter' \in [LoopVariable -> 0 .. MatrixSize]
      /\ \A v \in LoopVariable : counter'[v] = 0
  BY MatrixAssumption DEF Enter, LoopVariable
<1>7. QED
  BY <1>3, <1>4, <1>5, <1>6 DEF FilesType

-----------------------------------------------------------------------------
(* transpose_matrix()                                                       *)

Copying == call \in {"a", "b", "c"}
CopyCounting ==
    /\ counter \in [LoopVariable -> 0 .. MatrixSize]
    /\ counter["j"] \in Position
    /\ LoopsEnded(<<"i", "j">>) => counter["j"] = 0
CopyPassed(i, j) ==
    i < counter["i"] \/ (i = counter["i"] /\ j < counter["j"])

LEMMA AdvanceTwo ==
    ASSUME CopyCounting, ~LoopsEnded(<<"i", "j">>), Advance(<<"i", "j">>)
    PROVE  /\ CopyCounting' /\ counter["i"] \in Position
           /\ \A i, j \in Position :
                 CopyPassed(i, j)'
                   <=> CopyPassed(i, j) \/ (i = counter["i"] /\ j = counter["j"])
<1> DEFINE n == MatrixSize
           loops == <<"i", "j">>
           Goes(d) == /\ d = 1 \/ counter[loops[d]] + 1 < n
                      /\ \A e \in DOMAIN loops : e > d => counter[loops[e]] + 1 = n
           After(d) == [v \in DOMAIN counter |->
                          IF v = loops[d] THEN counter[v] + 1
                          ELSE IF \E e \in DOMAIN loops : e > d /\ v = loops[e]
                               THEN 0 ELSE counter[v]]
<1>1. /\ n \in Nat /\ n # 0 /\ DOMAIN counter = LoopVariable
      /\ counter["i"] \in 0 .. n - 1 /\ counter["j"] \in 0 .. n - 1
      /\ counter["k"] \in 0 .. n
  BY MatrixAssumption DEF CopyCounting, LoopsEnded, Position, LoopVariable
<1>2. counter' = After(CHOOSE d \in DOMAIN loops : Goes(d))
  BY DEF Advance
<1>3. /\ DOMAIN loops = 1 .. 2
      /\ Goes(2) <=> counter["j"] + 1 < n
      /\ Goes(1) <=> counter["j"] + 1 = n
  BY <1>1
<1>4. /\ After(2)["i"] = counter["i"] /\ After(2)["j"] = counter["j"] + 1
      /\ After(2)["k"] = counter["k"]
  BY <1>1 DEF LoopVariable
<1>5. /\ After(1)["i"] = counter["i"] + 1 /\ After(1)["j"] = 0
      /\ After(1)["k"] = counter["k"]
  BY <1>1 DEF LoopVariable
<1>6. \A d : After(d) = [v \in LoopVariable |-> After(d)[v]]
  BY <1>1
<1> HIDE DEF Goes, After
<1>7. /\ counter' \in [LoopVariable -> 0 .. n]
      /\ \/ /\ counter["j"] + 1 < n /\ counter'["i"] = counter["i"]
            /\ counter'["j"] = counter["j"] + 1
         \/ /\ counter["j"] + 1 = n /\ counter'["i"] = counter["i"] + 1
            /\ counter'["j"] = 0
  <2>1. CASE counter["j"] + 1 < n
    <3>1. (CHOOSE d \in DOMAIN loops : Goes(d)) = 2
      BY <1>1, <1>3, <2>1
    <3>2. counter' = After(2)
      BY <1>2, <3>1
    <3>3. QED
      BY <1>1, <1>4, <1>6, <2>1, <3>2 DEF LoopVariable
  <2>2. CASE counter["j"] + 1 = n
    <3>1. (CHOOSE d \in DOMAIN loops : Goes(d)) = 1
      BY <1>1, <1>3, <2>2
    <3>2. counter' = After(1)
      BY <1>2, <3>1
    <3>3. QED
      BY <1>1, <1>5, <1>6, <2>2, <3>2 DEF LoopVariable
  <2>3. QED
    BY <1>1, <2>1, <2>2
<1>8. CopyCounting'
  BY <1>1, <1>7 DEF CopyCounting, LoopsEnded, Position
<1>9. ASSUME NEW i \in Position, NEW j \in Position
      PROVE  CopyPassed(i, j)'
               <=> CopyPassed(i, j) \/ (i = counter["i"] /\ j = counter["j"])
  BY <1>1, <1>7 DEF CopyPassed, Position
<1>10. QED
  BY <1>1, <1>8, <1>9 DEF Position

(* How far the copy has come.                                               *)
CopiedTo(from, to) ==
    \A i, j \in Position :
        CopyPassed(i, j) => heap[to][At(j, i)] = heap[from][At(i, j)]

(* One iteration copies one element and leaves every other array alone.     *)
LEMMA CopyStep ==
    ASSUME heap \in HeapType, FilesType, FileName \in DOMAIN csv,
           CopyCounting, CopiedTo(Untransposed, Transposed), transpose_matrix
    PROVE  /\ heap' \in HeapType /\ FilesType' /\ DOMAIN csv' = DOMAIN csv
           /\ \A f \in DOMAIN csv : f # FileName => csv'[f] = csv[f]
           /\ CopyCounting'
           /\ \A x \in ArrayName : x # Transposed => heap'[x] = heap[x]
           /\ CopiedTo(Untransposed, Transposed)'
<1> DEFINE ci == counter["i"]
           cj == counter["j"]
           e == [array |-> Untransposed, index |-> At(ci, cj)]
           t == [array |-> Transposed, index |-> At(cj, ci)]
           from == Untransposed
           to == Transposed
<1>1. /\ call \in {"a", "b", "c"} /\ call' = call
      /\ Advance(<<"i", "j">>) /\ ~LoopsEnded(<<"i", "j">>)
      /\ WriteRows(<<LoadRow(e), StoreRow(t, ValueOf(e))>>)
      /\ StoreValue(t, ValueOf(e))
  BY DEF transpose_matrix, TransposeElement
<1>2. /\ from \in ArrayName /\ to \in ArrayName /\ from # to
  BY <1>1, ArrayNames DEF Untransposed, Transposed
<1>3. /\ CopyCounting' /\ ci \in Position /\ cj \in Position
      /\ \A i, j \in Position :
            CopyPassed(i, j)' <=> CopyPassed(i, j) \/ (i = ci /\ j = cj)
  BY <1>1, AdvanceTwo DEF CopyCounting
<1>4. At(ci, cj) \in 0 .. Area - 1 /\ At(cj, ci) \in 0 .. Area - 1
  BY <1>3, AtRange
<1>5. ValueOf(e) = heap[from][At(ci, cj)] /\ ValueOf(e) \in Cell
  BY <1>2, <1>4 DEF ValueOf, HeapType
<1>6. /\ e \in [array : ArrayName, index : 0 .. Area - 1]
      /\ t \in [array : ArrayName, index : 0 .. Area - 1]
  BY <1>2, <1>4
<1>7. <<LoadRow(e), StoreRow(t, ValueOf(e))>> \in Seq(AccessRow)
  BY <1>5, <1>6, AccessRows
<1>8. t.array = to /\ t.index = At(cj, ci)
  OBVIOUS
<1>9. /\ heap' \in HeapType
      /\ \A x \in ArrayName : x # t.array => heap'[x] = heap[x]
      /\ \A x \in ArrayName, l \in 0 .. Area - 1 :
            heap'[x][l] = IF x = t.array /\ l = t.index THEN ValueOf(e)
                                                        ELSE heap[x][l]
  <2> HIDE DEF t, e
  <2>1. QED
    BY <1>1, <1>5, <1>6, StoreChanges
<1>10. from' = from /\ to' = to
  BY <1>1 DEF Untransposed, Transposed
<1>11. ASSUME NEW i \in Position, NEW j \in Position, CopyPassed(i, j)'
       PROVE  heap'[to][At(j, i)] = heap'[from][At(i, j)]
  <2>1. At(i, j) \in 0 .. Area - 1 /\ At(j, i) \in 0 .. Area - 1
    BY AtRange
  <2>2. heap'[from][At(i, j)] = heap[from][At(i, j)]
    BY <1>2, <1>8, <1>9
  <2>3. CASE i = ci /\ j = cj
    <3>1. heap'[to][At(j, i)] = ValueOf(e)
      BY <1>2, <1>8, <1>9, <2>1, <2>3
    <3>2. QED
      BY <1>5, <2>2, <2>3, <3>1
  <2>4. CASE ~(i = ci /\ j = cj)
    <3>1. At(j, i) # At(cj, ci)
      BY <1>3, <2>4, AtSame
    <3>2. heap'[to][At(j, i)] = heap[to][At(j, i)]
      BY <1>2, <1>8, <1>9, <2>1, <3>1
    <3>3. heap[to][At(j, i)] = heap[from][At(i, j)]
      BY <1>3, <1>11, <2>4 DEF CopiedTo
    <3>4. QED
      BY <2>2, <3>2, <3>3
  <2>5. QED
    BY <2>3, <2>4
<1>12. CopiedTo(Untransposed, Transposed)'
  BY <1>10, <1>11 DEF CopiedTo
<1>13. /\ FilesType' /\ DOMAIN csv' = DOMAIN csv
       /\ \A f \in DOMAIN csv : f # FileName => csv'[f] = csv[f]
  BY <1>1, <1>7, RowsWritten
<1>14. QED
  BY <1>3, <1>8, <1>9, <1>12, <1>13

(* In the end all of the array has been copied.                             *)
LEMMA CopyEnds ==
    ASSUME CopyCounting, LoopsEnded(<<"i", "j">>), NEW from, NEW to,
           CopiedTo(from, to)
    PROVE  TransposedTo(from, to)
<1>1. \A i, j \in Position : CopyPassed(i, j)
  BY MatrixAssumption DEF CopyPassed, LoopsEnded, Position
<1>2. QED
  BY <1>1 DEF CopiedTo, TransposedTo

-----------------------------------------------------------------------------
(* The multiplications.                                                     *)

Multiplying == call = "method" /\ next_method \in DOMAIN Methods

Factor_a(i, k) == heap["a"][At(i, k)]
Factor_b(k, j) == heap["b"][At(k, j)]
Sums(i, j) == SumsOf(heap["a"], heap["b"], i, j)
ResultValue(i, j) == ValueOf(ResultElement(method, i, j))
Iterating(i, j, k) ==
    [v \in LoopVariable |-> IF v = "i" THEN i ELSE IF v = "j" THEN j ELSE k]

(* The forms that add to the result in place, and the other one.            *)
InPlace == method.opt = 0 \/ method.loops[3] # "k"

(* An element holds the sum of as many products as have passed for it; in a  *)
(* local variable, only the whole sum reaches it.                           *)
PartialSums ==
    \A i, j \in Position : \E l \in 0 .. MatrixSize :
        /\ \A k \in Position : Passed(method.loops, Iterating(i, j, k)) <=> k < l
        /\ ResultValue(i, j) = Sums(i, j)[l]
WholeSums ==
    \A i, j \in Position :
        (\A k \in Position : Passed(method.loops, Iterating(i, j, k))) =>
            ResultValue(i, j) = Sums(i, j)[MatrixSize]

(* What the local variable holds inside the innermost loop.                 *)
Kept ==
    LET i == counter["i"]  j == counter["j"]  k == counter["k"]
    IN CASE method.loops[3] = "k" -> Sums(i, j)[k]
         [] method.loops[3] = "j" -> Factor_a(i, k)
         [] method.loops[3] = "i" -> Factor_b(k, j)
LocalKept ==
    method.opt # 0 /\ counter[method.loops[3]] # 0 => local = Kept

Progress ==
    /\ Counting(method.loops)
    /\ IF InPlace THEN PartialSums ELSE WholeSums
    /\ LocalKept

(* The rows of the iterations that have passed.                             *)
IterationsOf(m) ==
    (counter[m.loops[1]] * MatrixSize + counter[m.loops[2]]) * MatrixSize
        + counter[m.loops[3]]
InnermostOf(m) == counter[m.loops[1]] * MatrixSize + counter[m.loops[2]]
RowsSoFar(m) ==
    CASE m.opt = 0 -> 4 * IterationsOf(m)
      [] m.opt # 0 /\ m.loops[3] = "k" -> 2 * IterationsOf(m) + InnermostOf(m)
      [] m.opt # 0 /\ m.loops[3] # "k" ->
            3 * IterationsOf(m) + InnermostOf(m)
              + (IF counter[m.loops[3]] = 0 THEN 0 ELSE 1)

LEMMA IteratingType ==
    ASSUME NEW i \in Position, NEW j \in Position, NEW k \in Position
    PROVE  /\ Iterating(i, j, k) \in Iteration
           /\ Iterating(i, j, k)["i"] = i /\ Iterating(i, j, k)["j"] = j
           /\ Iterating(i, j, k)["k"] = k
  BY DEF Iterating, Iteration, LoopVariable

(* The iteration of the counters is the one for their i, j and k.           *)
LEMMA CountersIterate ==
    ASSUME counter \in Iteration,
           NEW i \in Position, NEW j \in Position, NEW k \in Position
    PROVE  Iterating(i, j, k) = counter
             <=> i = counter["i"] /\ j = counter["j"] /\ k = counter["k"]
<1>1. Iterating(i, j, k) = counter
        <=> \A v \in LoopVariable : Iterating(i, j, k)[v] = counter[v]
  BY DEF Iterating, Iteration
<1>2. QED
  BY <1>1, IteratingType DEF LoopVariable

(* What passes with an iteration, for each element of the result.           *)
LEMMA ElementPasses ==
    ASSUME NEW loops \in Orders, Counting(loops), ~LoopsEnded(loops),
           Advance(loops)
    PROVE  /\ counter["i"] \in Position /\ counter["j"] \in Position
           /\ counter["k"] \in Position
           /\ \A i, j, k \in Position :
                 Passed(loops, Iterating(i, j, k))'
                   <=> \/ Passed(loops, Iterating(i, j, k))
                       \/ i = counter["i"] /\ j = counter["j"] /\ k = counter["k"]
           /\ \A k \in Position :
                 Passed(loops, Iterating(counter["i"], counter["j"], k))
                   <=> k < counter["k"]
<1>1. /\ counter \in Iteration
      /\ \A t \in Iteration : Passed(loops, t)' <=> Passed(loops, t) \/ t = counter
  BY AdvancePasses
<1>2. /\ counter["i"] \in Position /\ counter["j"] \in Position
      /\ counter["k"] \in Position
  BY <1>1 DEF Iteration, LoopVariable
<1>3. ASSUME NEW i \in Position, NEW j \in Position, NEW k \in Position
      PROVE  Passed(loops, Iterating(i, j, k))'
               <=> \/ Passed(loops, Iterating(i, j, k))
                   \/ i = counter["i"] /\ j = counter["j"] /\ k = counter["k"]
  <2>1. PICK t \in Iteration : t = Iterating(i, j, k)
    BY IteratingType
  <2>2. Passed(loops, t)' <=> Passed(loops, t) \/ t = counter
    BY <1>1
  <2>3. Passed(loops, t)' <=> Passed(loops, Iterating(i, j, k))'
    BY <2>1 DEF Passed
  <2>4. QED
    BY <1>1, <2>1, <2>2, <2>3, CountersIterate
<1>4. ASSUME NEW k \in Position
      PROVE  Passed(loops, Iterating(counter["i"], counter["j"], k))
               <=> k < counter["k"]
  <2>1. PICK t \in Iteration : t = Iterating(counter["i"], counter["j"], k)
    BY <1>2, IteratingType
  <2>2. t["i"] = counter["i"] /\ t["j"] = counter["j"] /\ t["k"] = k
    BY <1>2, <2>1, IteratingType
  <2>3. Passed(loops, t) <=> t["k"] < counter["k"]
    BY <2>2, PassedOfElement
  <2>4. QED
    BY <2>1, <2>2, <2>3
<1>5. QED
  BY <1>2, <1>3, <1>4

(* The heap while a method runs.                                            *)
HeapOfMethod ==
    /\ heap \in HeapType /\ heap["a"] \in Matrix /\ heap["b"] \in Matrix
    /\ OperandsTransposed

LEMMA SumsOfMethod ==
    ASSUME HeapOfMethod, NEW i \in Position, NEW j \in Position
    PROVE  /\ Sums(i, j) \in [0 .. MatrixSize -> Nat] /\ Sums(i, j)[0] = 0
           /\ \A k \in Position :
                 Sums(i, j)[k + 1]
                   = Sums(i, j)[k] + heap["a"][At(i, k)] * heap["b"][At(k, j)]
<1>1. PICK a \in Matrix : a = heap["a"]
  BY DEF HeapOfMethod
<1>2. PICK b \in Matrix : b = heap["b"]
  BY DEF HeapOfMethod
<1>3. Sums(i, j) = SumsOf(a, b, i, j)
  BY <1>1, <1>2 DEF Sums
<1>4. /\ SumsOf(a, b, i, j) \in [0 .. MatrixSize -> Nat]
      /\ SumsOf(a, b, i, j)[0] = 0
      /\ \A k \in Position :
            SumsOf(a, b, i, j)[k + 1]
              = SumsOf(a, b, i, j)[k] + a[At(i, k)] * b[At(k, j)]
  BY SumsAre
<1>5. QED
  BY <1>1, <1>2, <1>3, <1>4

(* What the iteration of the counters works on.                             *)
LEMMA IterationValues ==
    ASSUME Multiplying, HeapOfMethod, Progress, ~LoopsEnded(method.loops)
    PROVE  LET i == counter["i"]  j == counter["j"]  k == counter["k"]
           IN /\ i \in Position /\ j \in Position /\ k \in Position
              /\ Factor_a(i, k) \in Nat /\ Factor_b(k, j) \in Nat
              /\ ValueOf(ElementOf(method, "a", i, k)) = Factor_a(i, k)
              /\ ValueOf(ElementOf(method, "b", k, j)) = Factor_b(k, j)
              /\ Sums(i, j) \in [0 .. MatrixSize -> Nat]
              /\ Sums(i, j)[0] = 0
              /\ Sums(i, j)[k + 1]
                   = Sums(i, j)[k] + Factor_a(i, k) * Factor_b(k, j)
<1>1. PICK p \in DOMAIN Methods : p = next_method /\ method = Methods[p]
  BY DEF Multiplying, method
<1>2. method.loops \in Orders
  BY <1>1, MethodTable
<1> DEFINE i == counter["i"]
           j == counter["j"]
           k == counter["k"]
<1>3. i \in Position /\ j \in Position /\ k \in Position
  <2>1. /\ method.loops[1] \in LoopVariable /\ method.loops[2] \in LoopVariable
        /\ method.loops[3] \in LoopVariable
        /\ LoopVariable = {method.loops[1], method.loops[2], method.loops[3]}
    BY <1>2, OrderOfLoops
  <2>2. counter[method.loops[1]] \in Position
    BY <2>1, MatrixAssumption DEF Progress, Counting, LoopsEnded, Position
  <2>3. \A v \in LoopVariable : counter[v] \in Position
    BY <2>1, <2>2 DEF Progress, Counting
  <2>4. QED
    BY <2>3 DEF LoopVariable
<1>4. At(i, k) \in 0 .. Area - 1 /\ At(k, j) \in 0 .. Area - 1
  BY <1>3, AtRange
<1>5. Factor_a(i, k) \in Nat /\ Factor_b(k, j) \in Nat
  BY <1>4 DEF HeapOfMethod, Matrix, Factor_a, Factor_b
<1>6. /\ ValueOf(ElementOf(method, "a", i, k)) = Factor_a(i, k)
      /\ ValueOf(ElementOf(method, "b", k, j)) = Factor_b(k, j)
  BY <1>1, <1>3, OperandValues DEF HeapOfMethod, Factor_a, Factor_b
<1>7. /\ Sums(i, j) \in [0 .. MatrixSize -> Nat] /\ Sums(i, j)[0] = 0
      /\ Sums(i, j)[k + 1] = Sums(i, j)[k] + Factor_a(i, k) * Factor_b(k, j)
  BY <1>3, SumsOfMethod DEF Factor_a, Factor_b
<1>8. QED
  BY <1>3, <1>5, <1>6, <1>7

(* The rows of an iteration: only the last one may be a write, and it says   *)
(* what was stored in the heap.                                             *)
OnlyLoads(rows) == \A k \in DOMAIN rows : ~rows[k].we
StoresLast(rows, e, v) ==
    \E k \in DOMAIN rows :
        /\ rows[k] = StoreRow(e, v)
        /\ \A l \in DOMAIN rows : l # k => ~rows[l].we /\ l < k

LEMMA RowsOfIteration ==
    ASSUME NEW x \in AccessRow, NEW y \in AccessRow, NEW z \in AccessRow,
           NEW s \in AccessRow, ~x.we, ~y.we, ~z.we
    PROVE  /\ OnlyLoads(<<x, y>>) /\ <<x, y>> \in Seq(AccessRow)
           /\ Len(<<x, y>>) = 2
           /\ \A e, v : s = StoreRow(e, v) =>
                 /\ StoresLast(<<x, s>>, e, v) /\ StoresLast(<<x, y, s>>, e, v)
                 /\ StoresLast(<<x, y, z, s>>, e, v)
                 /\ StoresLast(<<x>> \o <<y, z, s>>, e, v)
                 /\ StoresLast(<<>> \o <<y, z, s>>, e, v)
<1>1. OnlyLoads(<<x, y>>) /\ <<x, y>> \in Seq(AccessRow) /\ Len(<<x, y>>) = 2
  BY DEF OnlyLoads
<1> SUFFICES ASSUME NEW e, NEW v, s = StoreRow(e, v)
             PROVE  /\ StoresLast(<<x, s>>, e, v) /\ StoresLast(<<x, y, s>>, e, v)
                    /\ StoresLast(<<x, y, z, s>>, e, v)
                    /\ StoresLast(<<x>> \o <<y, z, s>>, e, v)
                    /\ StoresLast(<<>> \o <<y, z, s>>, e, v)
  BY <1>1
<1>2. StoresLast(<<x, s>>, e, v)
  <2>1. DOMAIN <<x, s>> = 1 .. 2
    OBVIOUS
  <2>2. \A l \in 1 .. 2 : l # 2 => ~<<x, s>>[l].we /\ l < 2
    OBVIOUS
  <2>3. QED
    BY <2>1, <2>2 DEF StoresLast
<1>3. \A p \in AccessRow, q \in AccessRow :
         ~p.we /\ ~q.we => StoresLast(<<p, q, s>>, e, v)
  <2> SUFFICES ASSUME NEW p \in AccessRow, NEW q \in AccessRow, ~p.we, ~q.we
               PROVE  StoresLast(<<p, q, s>>, e, v)
    OBVIOUS
  <2>1. DOMAIN <<p, q, s>> = 1 .. 3
    OBVIOUS
  <2>2. \A l \in 1 .. 3 : l # 3 => ~<<p, q, s>>[l].we /\ l < 3
    OBVIOUS
  <2>3. QED
    BY <2>1, <2>2 DEF StoresLast
<1>4. StoresLast(<<x, y, z, s>>, e, v)
  <2>1. DOMAIN <<x, y, z, s>> = 1 .. 4
    OBVIOUS
  <2>2. \A l \in 1 .. 4 : l # 4 => ~<<x, y, z, s>>[l].we /\ l < 4
    OBVIOUS
  <2>3. QED
    BY <2>1, <2>2 DEF StoresLast
<1>5. <<x>> \o <<y, z, s>> = <<x, y, z, s>> /\ <<>> \o <<y, z, s>> = <<y, z, s>>
  <2> DEFINE r == <<x>> \o <<y, z, s>>
             q == <<x, y, z, s>>
  <2>1. <<x>> \in Seq(AccessRow) /\ <<y, z, s>> \in Seq(AccessRow) /\ Len(<<x>>) = 1
        /\ Len(<<y, z, s>>) = 3 /\ q \in Seq(AccessRow) /\ Len(q) = 4
    OBVIOUS
  <2>2. r \in Seq(AccessRow) /\ Len(r) = 4
    BY <2>1, ConcatProperties
  <2>3. \A l \in 1 .. 4 : r[l] = q[l]
    <3>1. \A l \in 1 .. 4 : r[l] = IF l <= 1 THEN <<x>>[l] ELSE <<y, z, s>>[l - 1]
      BY <2>1, ConcatProperties
    <3>2. r[1] = x /\ r[2] = y /\ r[3] = z /\ r[4] = s
      BY <3>1
    <3>3. QED
      BY <3>2
  <2>4. r = q
    BY <2>1, <2>2, <2>3, SeqEqual
  <2>5. <<>> \o <<y, z, s>> = <<y, z, s>>
    BY <2>1, ConcatEmptySeq
  <2>6. QED
    BY <2>4, <2>5
<1>6. QED
  BY <1>2, <1>3, <1>4, <1>5

(* The forms that add in place: the element grows by one product, and the   *)
(* kept element is the one that the loops inside it need.                   *)
LEMMA BodyInPlace ==
    ASSUME Multiplying, HeapOfMethod, Progress, InPlace, matrix_multiplication
    PROVE  LET i == counter["i"]  j == counter["j"]  k == counter["k"]
               e == ResultElement(method, i, j)
               sum == ResultValue(i, j) + Factor_a(i, k) * Factor_b(k, j)
           IN /\ sum \in Nat /\ StoreValue(e, sum)
              /\ e \in [array : ArrayName, index : 0 .. Area - 1]
              /\ method.opt # 0 => local' = Kept
              /\ \E rows \in Seq(AccessRow) :
                    /\ WriteRows(rows) /\ StoresLast(rows, e, sum)
                    /\ Len(rows) = IF \/ method.opt = 0
                                      \/ counter[method.loops[3]] = 0
                                   THEN 4 ELSE 3
<1> DEFINE i == counter["i"]
           j == counter["j"]
           k == counter["k"]
           ea == ElementOf(method, "a", i, k)
           eb == ElementOf(method, "b", k, j)
           e == ElementOf(method, "result", i, j)
           z == method.loops[3]
           sum == ValueOf(e) + Factor_a(i, k) * Factor_b(k, j)
<1>1. ~LoopsEnded(method.loops) /\ method \in {Methods[p] : p \in DOMAIN Methods}
  BY DEF matrix_multiplication, Multiplying, method
<1>2. /\ i \in Position /\ j \in Position /\ k \in Position
      /\ Factor_a(i, k) \in Nat /\ Factor_b(k, j) \in Nat
      /\ ValueOf(ea) = Factor_a(i, k) /\ ValueOf(eb) = Factor_b(k, j)
      /\ Sums(i, j) \in [0 .. MatrixSize -> Nat]
  BY <1>1, IterationValues
<1>3. /\ ea \in [array : ArrayName, index : 0 .. Area - 1]
      /\ eb \in [array : ArrayName, index : 0 .. Area - 1]
      /\ e \in [array : ArrayName, index : 0 .. Area - 1]
  BY <1>1, <1>2, Elements
<1>4. ValueOf(e) \in Nat
  <2>1. PartialSums
    BY DEF Progress
  <2>2. PICK l \in 0 .. MatrixSize : ResultValue(i, j) = Sums(i, j)[l]
    BY <1>2, <2>1 DEF PartialSums
  <2>3. QED
    BY <1>2, <2>2 DEF ResultValue, ResultElement
<1> HIDE DEF ea, eb, e
<1>5. sum \in Nat /\ sum \in Cell
  BY <1>2, <1>4 DEF Cell
<1>6. 0 \in Cell
  BY DEF Cell
<1> DEFINE ra == LoadRow(ea)
           rb == LoadRow(eb)
           rc == LoadRow(e)
           rs == StoreRow(e, sum)
<1>7. ra \in AccessRow /\ rb \in AccessRow /\ rc \in AccessRow /\ rs \in AccessRow
  BY <1>3, <1>5, <1>6, AccessRows
<1>8. \/ method.opt = 0 /\ StandardBody(ea, eb, e)
      \/ method.opt # 0 /\ z = "j" /\ HoistedBody(ea, eb, e, counter[z] = 0)
      \/ method.opt # 0 /\ z = "i" /\ HoistedBody(eb, ea, e, counter[z] = 0)
  BY DEF matrix_multiplication, InPlace, ea, eb, e
<1>9. LocalKept
  BY DEF Progress
<1> SUFFICES /\ StoreValue(e, sum)
             /\ method.opt # 0 => local' = Kept
             /\ \E rows \in Seq(AccessRow) :
                   /\ WriteRows(rows) /\ StoresLast(rows, e, sum)
                   /\ Len(rows) = IF method.opt = 0 \/ counter[z] = 0 THEN 4 ELSE 3
  BY <1>3, <1>5 DEF e, ResultValue, ResultElement
<1>10. CASE method.opt = 0
  <2>1. StandardBody(ea, eb, e)
    BY <1>8, <1>10
  <2>2. StoreValue(e, sum) /\ WriteRows(<<ra, rb, rc, rs>>)
    BY <1>2, <2>1 DEF StandardBody
  <2>3. ~ra.we /\ ~rb.we /\ ~rc.we /\ rs = StoreRow(e, sum)
    BY DEF LoadRow
  <2> HIDE DEF ra, rb, rc, rs, sum
  <2>4. <<ra, rb, rc, rs>> \in Seq(AccessRow) /\ Len(<<ra, rb, rc, rs>>) = 4
    BY <1>7
  <2>5. StoresLast(<<ra, rb, rc, rs>>, e, sum)
    BY <1>7, <2>3, RowsOfIteration
  <2>6. QED
    BY <1>10, <2>2, <2>4, <2>5
<1>11. CASE method.opt # 0
  <2>1. \/ z = "j" /\ HoistedBody(ea, eb, e, counter[z] = 0)
        \/ z = "i" /\ HoistedBody(eb, ea, e, counter[z] = 0)
    BY <1>8, <1>11
  <2>2. CASE z = "j"
    <3>1. HoistedBody(ea, eb, e, counter[z] = 0)
      BY <2>1, <2>2
    <3>2. Kept = Factor_a(i, k)
      BY <2>2 DEF Kept
    <3>3. (IF counter[z] = 0 THEN ValueOf(ea) ELSE local) = Factor_a(i, k)
      BY <1>2, <1>9, <1>11, <3>2 DEF LocalKept
    <3>4. /\ local' = Factor_a(i, k)
          /\ StoreValue(e, sum)
          /\ WriteRows((IF counter[z] = 0 THEN <<ra>> ELSE <<>>) \o <<rb, rc, rs>>)
      BY <1>2, <3>1, <3>3 DEF HoistedBody
    <3>5. ~ra.we /\ ~rb.we /\ ~rc.we /\ rs = StoreRow(e, sum)
      BY DEF LoadRow
    <3> HIDE DEF ra, rb, rc, rs, sum
    <3>6. /\ StoresLast(<<ra>> \o <<rb, rc, rs>>, e, sum)
          /\ StoresLast(<<>> \o <<rb, rc, rs>>, e, sum)
      BY <1>7, <3>5, RowsOfIteration
    <3>7. CASE counter[z] = 0
      <4>1. <<ra>> \o <<rb, rc, rs>> \in Seq(AccessRow)
            /\ Len(<<ra>> \o <<rb, rc, rs>>) = 4
        BY <1>7
      <4>2. QED
        BY <3>2, <3>4, <3>6, <3>7, <4>1
    <3>8. CASE counter[z] # 0
      <4>1. <<>> \o <<rb, rc, rs>> \in Seq(AccessRow)
            /\ Len(<<>> \o <<rb, rc, rs>>) = 3
        BY <1>7
      <4>2. QED
        BY <1>11, <3>2, <3>4, <3>6, <3>8, <4>1
    <3>9. QED
      BY <3>7, <3>8
  <2>3. CASE z = "i"
    <3>1. HoistedBody(eb, ea, e, counter[z] = 0)
      BY <2>1, <2>3
    <3>2. Kept = Factor_b(k, j)
      BY <2>3 DEF Kept
    <3>3. (IF counter[z] = 0 THEN ValueOf(eb) ELSE local) = Factor_b(k, j)
      BY <1>2, <1>9, <1>11, <3>2 DEF LocalKept
    <3>4. Factor_b(k, j) * Factor_a(i, k) = Factor_a(i, k) * Factor_b(k, j)
      BY <1>2
    <3>5. /\ local' = Factor_b(k, j)
          /\ StoreValue(e, ValueOf(e) + Factor_b(k, j) * Factor_a(i, k))
          /\ WriteRows((IF counter[z] = 0 THEN <<rb>> ELSE <<>>)
                \o <<ra, rc,
                     StoreRow(e, ValueOf(e) + Factor_b(k, j) * Factor_a(i, k))>>)
      BY <1>2, <3>1, <3>3 DEF HoistedBody
    <3>6. /\ StoreValue(e, sum)
          /\ WriteRows((IF counter[z] = 0 THEN <<rb>> ELSE <<>>) \o <<ra, rc, rs>>)
      BY <3>4, <3>5
    <3>7. ~ra.we /\ ~rb.we /\ ~rc.we /\ rs = StoreRow(e, sum)
      BY DEF LoadRow
    <3> HIDE DEF ra, rb, rc, rs, sum
    <3>8. /\ StoresLast(<<rb>> \o <<ra, rc, rs>>, e, sum)
          /\ StoresLast(<<>> \o <<ra, rc, rs>>, e, sum)
      BY <1>7, <3>7, RowsOfIteration
    <3>9. CASE counter[z] = 0
      <4>1. <<rb>> \o <<ra, rc, rs>> \in Seq(AccessRow)
            /\ Len(<<rb>> \o <<ra, rc, rs>>) = 4
        BY <1>7
      <4>2. QED
        BY <3>2, <3>5, <3>6, <3>8, <3>9, <4>1
    <3>10. CASE counter[z] # 0
      <4>1. <<>> \o <<ra, rc, rs>> \in Seq(AccessRow)
            /\ Len(<<>> \o <<ra, rc, rs>>) = 3
        BY <1>7
      <4>2. QED
        BY <1>11, <3>2, <3>5, <3>6, <3>8, <3>10, <4>1
    <3>11. QED
      BY <3>9, <3>10
  <2>4. QED
    BY <2>1, <2>2, <2>3
<1>12. QED
  BY <1>10, <1>11

(* The form with a local sum: it has all products so far, and the last      *)
(* iteration stores it.                                                     *)
LEMMA BodyOfSum ==
    ASSUME Multiplying, HeapOfMethod, Progress, ~InPlace, matrix_multiplication
    PROVE  LET i == counter["i"]  j == counter["j"]  k == counter["k"]
               e == ResultElement(method, i, j)
           IN /\ local' = Sums(i, j)[k + 1] /\ local' \in Nat
              /\ e \in [array : ArrayName, index : 0 .. Area - 1]
              /\ IF k = MatrixSize - 1 THEN StoreValue(e, local')
                                       ELSE heap' = heap
              /\ \E rows \in Seq(AccessRow) :
                    /\ WriteRows(rows)
                    /\ Len(rows) = IF k = MatrixSize - 1 THEN 3 ELSE 2
                    /\ IF k = MatrixSize - 1 THEN StoresLast(rows, e, local')
                                             ELSE OnlyLoads(rows)
<1> DEFINE i == counter["i"]
           j == counter["j"]
           k == counter["k"]
           ea == ElementOf(method, "a", i, k)
           eb == ElementOf(method, "b", k, j)
           e == ElementOf(method, "result", i, j)
           sum == local'
<1>1. ~LoopsEnded(method.loops) /\ method \in {Methods[p] : p \in DOMAIN Methods}
  BY DEF matrix_multiplication, Multiplying, method
<1>2. /\ i \in Position /\ j \in Position /\ k \in Position
      /\ Factor_a(i, k) \in Nat /\ Factor_b(k, j) \in Nat
      /\ ValueOf(ea) = Factor_a(i, k) /\ ValueOf(eb) = Factor_b(k, j)
      /\ Sums(i, j) \in [0 .. MatrixSize -> Nat] /\ Sums(i, j)[0] = 0
      /\ Sums(i, j)[k + 1] = Sums(i, j)[k] + Factor_a(i, k) * Factor_b(k, j)
  BY <1>1, IterationValues
<1>3. /\ ea \in [array : ArrayName, index : 0 .. Area - 1]
      /\ eb \in [array : ArrayName, index : 0 .. Area - 1]
      /\ e \in [array : ArrayName, index : 0 .. Area - 1]
  BY <1>1, <1>2, Elements
<1> HIDE DEF ea, eb, e
<1>4. /\ method.opt # 0 /\ method.loops[3] = "k"
      /\ SumBody(ea, eb, e, k = 0, k = MatrixSize - 1)
  BY DEF matrix_multiplication, InPlace, ea, eb, e
<1>5. (IF k = 0 THEN 0 ELSE local) = Sums(i, j)[k]
  <2>1. Kept = Sums(i, j)[k]
    BY <1>4 DEF Kept
  <2>2. QED
    BY <1>2, <1>4, <2>1 DEF Progress, LocalKept
<1>6. sum = Sums(i, j)[k + 1]
  BY <1>2, <1>4, <1>5 DEF SumBody
<1>7. k + 1 \in 0 .. MatrixSize
  BY <1>2, PositionNext
<1>8. sum \in Nat /\ sum \in Cell /\ 0 \in Cell
  BY <1>2, <1>6, <1>7 DEF Cell
<1> DEFINE ra == LoadRow(ea)
           rb == LoadRow(eb)
           rs == StoreRow(e, sum)
<1>9. ra \in AccessRow /\ rb \in AccessRow /\ rs \in AccessRow
  BY <1>3, <1>8, AccessRows
<1> SUFFICES /\ IF k = MatrixSize - 1 THEN StoreValue(e, sum) ELSE heap' = heap
             /\ \E rows \in Seq(AccessRow) :
                    /\ WriteRows(rows)
                    /\ Len(rows) = IF k = MatrixSize - 1 THEN 3 ELSE 2
                    /\ IF k = MatrixSize - 1 THEN StoresLast(rows, e, sum)
                                             ELSE OnlyLoads(rows)
  BY <1>3, <1>6, <1>8 DEF e, ResultElement
<1>10. CASE k = MatrixSize - 1
  <2>1. WriteRows(<<ra, rb, rs>>) /\ StoreValue(e, sum)
    BY <1>4, <1>10 DEF SumBody
  <2>2. ~ra.we /\ ~rb.we /\ rs = StoreRow(e, sum)
    BY DEF LoadRow
  <2> HIDE DEF ra, rb, rs
  <2>3. <<ra, rb, rs>> \in Seq(AccessRow) /\ Len(<<ra, rb, rs>>) = 3
    BY <1>9
  <2>4. StoresLast(<<ra, rb, rs>>, e, sum)
    BY <1>9, <2>2, RowsOfIteration
  <2>5. QED
    BY <1>10, <2>1, <2>3, <2>4
<1>11. CASE k # MatrixSize - 1
  <2>1. WriteRows(<<ra, rb>>) /\ heap' = heap
    BY <1>4, <1>11 DEF SumBody
  <2>2. ~ra.we /\ ~rb.we
    BY DEF LoadRow
  <2> HIDE DEF ra, rb, rs
  <2>3. /\ <<ra, rb>> \in Seq(AccessRow) /\ Len(<<ra, rb>>) = 2
        /\ OnlyLoads(<<ra, rb>>)
    BY <1>9, <2>2, RowsOfIteration
  <2>4. QED
    BY <1>11, <2>1, <2>3
<1>12. QED
  BY <1>10, <1>11

(* A heap in which only the result has changed.                             *)
OperandArrays == {"a", "b", "a_transposed", "b_transposed"}

LEMMA OperandsKept ==
    ASSUME HeapOfMethod, heap' \in HeapType,
           \A x \in OperandArrays : heap'[x] = heap[x]
    PROVE  /\ HeapOfMethod'
           /\ \A i, j : /\ Sums(i, j)' = Sums(i, j)
                        /\ Factor_a(i, j)' = Factor_a(i, j)
                        /\ Factor_b(i, j)' = Factor_b(i, j)
<1>1. /\ heap'["a"] = heap["a"] /\ heap'["b"] = heap["b"]
      /\ heap'["a_transposed"] = heap["a_transposed"]
      /\ heap'["b_transposed"] = heap["b_transposed"]
  BY DEF OperandArrays
<1>2. HeapOfMethod'
  BY <1>1 DEF HeapOfMethod, OperandsTransposed, TransposedTo
<1>3. QED
  BY <1>1, <1>2 DEF Sums, Factor_a, Factor_b

LEMMA ResultIsNoOperand ==
    ASSUME NEW p \in DOMAIN Methods
    PROVE  /\ ResultArray(Methods[p]) \in ArrayName
           /\ ResultArray(Methods[p]) \notin OperandArrays
  BY ArrayNames DEF ResultArray, OperandArrays

(* The counters, the local variable and the operands after an iteration.    *)
LEMMA LocalStays ==
    ASSUME Multiplying, HeapOfMethod, Progress, matrix_multiplication,
           heap' \in HeapType, \A x \in OperandArrays : heap'[x] = heap[x],
           InPlace /\ method.opt # 0 => local' = Kept,
           ~InPlace => local' = Sums(counter["i"], counter["j"])[counter["k"] + 1]
    PROVE  LocalKept'
<1> DEFINE x == method.loops[1]
           y == method.loops[2]
           z == method.loops[3]
<1>1. /\ method' = method /\ Advance(method.loops)
      /\ ~LoopsEnded(method.loops) /\ Counting(method.loops)
  BY DEF matrix_multiplication, method, Progress
<1>2. method.loops \in Orders
  BY MethodTable DEF Multiplying, method
<1>3. SUFFICES ASSUME method.opt # 0, counter'[z] # 0 PROVE local' = Kept'
  BY <1>1 DEF LocalKept
<1>4. /\ counter'[x] = counter[x] /\ counter'[y] = counter[y]
      /\ counter'[z] = counter[z] + 1
  BY <1>1, <1>2, <1>3, AdvanceThree
<1>5. \A i, j : /\ Sums(i, j)' = Sums(i, j)
                /\ Factor_a(i, j)' = Factor_a(i, j)
                /\ Factor_b(i, j)' = Factor_b(i, j)
  BY OperandsKept
<1>6. PICK i, j, k : i = counter["i"] /\ j = counter["j"] /\ k = counter["k"]
  OBVIOUS
<1>7. PICK i1, j1, k1 : i1 = counter'["i"] /\ j1 = counter'["j"] /\ k1 = counter'["k"]
  OBVIOUS
<1>8. CASE z = "k"
  <2>1. i1 = i /\ j1 = j /\ k1 = k + 1
    BY <1>2, <1>4, <1>6, <1>7, <1>8 DEF Orders
  <2>2. local' = Sums(i, j)[k + 1]
    BY <1>3, <1>6, <1>8 DEF InPlace
  <2>3. Kept' = Sums(i1, j1)'[k1]
    BY <1>1, <1>7, <1>8 DEF Kept
  <2>4. QED
    BY <1>5, <2>1, <2>2, <2>3
<1>9. CASE z = "j"
  <2>1. i1 = i /\ k1 = k
    BY <1>2, <1>4, <1>6, <1>7, <1>9 DEF Orders
  <2>2. local' = Factor_a(i, k)
    BY <1>3, <1>6, <1>9 DEF InPlace, Kept
  <2>3. Kept' = Factor_a(i1, k1)'
    BY <1>1, <1>7, <1>9 DEF Kept
  <2>4. QED
    BY <1>5, <2>1, <2>2, <2>3
<1>10. CASE z = "i"
  <2>1. j1 = j /\ k1 = k
    BY <1>2, <1>4, <1>6, <1>7, <1>10 DEF Orders
  <2>2. local' = Factor_b(k, j)
    BY <1>3, <1>6, <1>10 DEF InPlace, Kept
  <2>3. Kept' = Factor_b(k1, j1)'
    BY <1>1, <1>7, <1>10 DEF Kept
  <2>4. QED
    BY <1>5, <2>1, <2>2, <2>3
<1>11. z \in {"i", "j", "k"}
  BY <1>2 DEF Orders
<1>12. QED
  BY <1>8, <1>9, <1>10, <1>11

(* The sums of a form that adds in place.                                   *)
LEMMA PartialSumsStep ==
    ASSUME Multiplying, HeapOfMethod, Progress, InPlace, matrix_multiplication
    PROVE  PartialSums' /\ HeapOfMethod' /\ LocalKept'
           /\ \A x \in ArrayName : x # ResultArray(method) => heap'[x] = heap[x]
<1>1. PICK p \in DOMAIN Methods : method = Methods[p]
  BY DEF Multiplying, method
<1>2. /\ method' = method /\ method.loops \in Orders
      /\ ~LoopsEnded(method.loops) /\ Counting(method.loops)
      /\ Advance(method.loops)
  BY <1>1, MethodTable DEF matrix_multiplication, method, Progress
<1>0. PICK loops \in Orders : loops = method.loops
  BY <1>2
<1>3. PICK ci \in Position, cj \in Position, ck \in Position :
           ci = counter["i"] /\ cj = counter["j"] /\ ck = counter["k"]
  BY <1>2, ElementPasses
<1> DEFINE e == ResultElement(method, ci, cj)
           sum == ResultValue(ci, cj) + Factor_a(ci, ck) * Factor_b(ck, cj)
<1>4. /\ sum \in Nat /\ StoreValue(e, sum)
      /\ e \in [array : ArrayName, index : 0 .. Area - 1]
      /\ method.opt # 0 => local' = Kept
  BY <1>3, BodyInPlace
<1>5. e.array = ResultArray(method)
  BY <1>1, Elements DEF ResultElement
<1> HIDE DEF e
<1>6. /\ heap' \in HeapType
      /\ \A x \in ArrayName : x # e.array => heap'[x] = heap[x]
      /\ \A x \in ArrayName, l \in 0 .. Area - 1 :
            heap'[x][l] = IF x = e.array /\ l = e.index THEN sum ELSE heap[x][l]
  BY <1>4, StoreChanges DEF HeapOfMethod, Cell
<1>7. \A x \in OperandArrays : heap'[x] = heap[x]
  BY <1>1, <1>5, <1>6, ResultIsNoOperand, ArrayNames DEF OperandArrays
<1>8. HeapOfMethod' /\ \A i, j : Sums(i, j)' = Sums(i, j)
  BY <1>6, <1>7, OperandsKept
<1>9. LocalKept'
  BY <1>4, <1>6, <1>7, LocalStays
<1>10. \A i, j, k \in Position :
          Passed(loops, Iterating(i, j, k))'
            <=> \/ Passed(loops, Iterating(i, j, k))
                \/ i = ci /\ j = cj /\ k = ck
  BY <1>0, <1>2, <1>3, ElementPasses
<1>11. ASSUME NEW i \in Position, NEW j \in Position
       PROVE  ResultValue(i, j)' = IF i = ci /\ j = cj THEN sum
                                                       ELSE ResultValue(i, j)
  <2> DEFINE r == ResultElement(method, i, j)
  <2>1. r.array = ResultArray(method)
        /\ r \in [array : ArrayName, index : 0 .. Area - 1]
    BY <1>1, Elements DEF ResultElement
  <2>2. r.index = e.index => i = ci /\ j = cj
    BY <1>1, <1>3, ResultApart DEF e
  <2>3. i = ci /\ j = cj => r.index = e.index
    BY DEF e
  <2>4. ResultElement(method, i, j)' = r
    BY <1>2 DEF ResultElement, ElementOf
  <2>5. ResultValue(i, j)' = heap'[r.array][r.index]
    BY <2>4 DEF ResultValue, ValueOf
  <2>6. ResultValue(i, j) = heap[r.array][r.index]
    BY DEF ResultValue, ValueOf
  <2> HIDE DEF r
  <2>7. QED
    BY <1>5, <1>6, <2>1, <2>2, <2>3, <2>5, <2>6
<1>12. ASSUME NEW i \in Position, NEW j \in Position
       PROVE  \E l \in 0 .. MatrixSize :
                 /\ \A k \in Position :
                       Passed(loops, Iterating(i, j, k))' <=> k < l
                 /\ ResultValue(i, j)' = Sums(i, j)[l]
  <2>1. PICK l \in 0 .. MatrixSize :
             /\ \A k \in Position : Passed(loops, Iterating(i, j, k)) <=> k < l
             /\ ResultValue(i, j) = Sums(i, j)[l]
    BY <1>0 DEF Progress, PartialSums
  <2>2. CASE i = ci /\ j = cj
    <3>1. \A k \in Position :
             Passed(loops, Iterating(i, j, k)) <=> k < ck
      BY <1>0, <1>2, <1>3, <2>2, ElementPasses
    <3>2. l = ck
      <4>1. \A k \in Position : k < l <=> k < ck
        BY <2>1, <3>1
      <4>2. ck \in Nat /\ ck < MatrixSize /\ l \in Nat /\ l <= MatrixSize
            /\ MatrixSize \in Nat
        BY MatrixAssumption, PositionNext
      <4>3. ~(ck < l)
        BY <4>1, <4>2
      <4>4. ~(l < ck)
        <5>1. l < ck => l \in Position
          BY <4>2 DEF Position
        <5>2. QED
          BY <4>1, <4>2, <5>1
      <4>5. QED
        BY <4>2, <4>3, <4>4
    <3>3. ResultValue(i, j)' = Sums(i, j)[ck] + Factor_a(ci, ck) * Factor_b(ck, cj)
      BY <1>11, <2>1, <2>2, <3>2
    <3>4. Sums(i, j)[ck + 1]
            = Sums(i, j)[ck] + Factor_a(ci, ck) * Factor_b(ck, cj)
      BY <2>2, SumsOfMethod DEF Factor_a, Factor_b
    <3>5. ck + 1 \in 0 .. MatrixSize
      BY PositionNext
    <3>6. \A k \in Position :
             Passed(loops, Iterating(i, j, k))' <=> k < ck + 1
      <4> TAKE k \in Position
      <4>1. Passed(loops, Iterating(i, j, k))' <=> k < ck \/ k = ck
        BY <1>10, <2>2, <3>1
      <4>2. k \in Nat /\ ck \in Nat
        BY PositionNext
      <4>3. QED
        BY <4>1, <4>2
    <3>7. QED
      BY <3>3, <3>4, <3>5, <3>6
  <2>3. CASE ~(i = ci /\ j = cj)
    <3>1. \A k \in Position :
             Passed(loops, Iterating(i, j, k))' <=> k < l
      BY <1>10, <2>1, <2>3
    <3>2. ResultValue(i, j)' = Sums(i, j)[l]
      BY <1>11, <2>1, <2>3
    <3>3. QED
      BY <3>1, <3>2
  <2>4. QED
    BY <2>2, <2>3
<1>13. PartialSums'
  <2>1. method'.loops = loops
    BY <1>0, <1>2
  <2>2. QED
    BY <1>8, <1>12, <2>1 DEF PartialSums
<1>14. QED
  BY <1>5, <1>6, <1>8, <1>9, <1>13

(* The sums of a form with a local sum.                                     *)
LEMMA WholeSumsStep ==
    ASSUME Multiplying, HeapOfMethod, Progress, ~InPlace, matrix_multiplication
    PROVE  WholeSums' /\ HeapOfMethod' /\ LocalKept'
           /\ \A x \in ArrayName : x # ResultArray(method) => heap'[x] = heap[x]
<1>1. PICK p \in DOMAIN Methods : method = Methods[p]
  BY DEF Multiplying, method
<1>2. /\ method' = method /\ method.loops \in Orders
      /\ ~LoopsEnded(method.loops) /\ Counting(method.loops)
      /\ Advance(method.loops)
  BY <1>1, MethodTable DEF matrix_multiplication, method, Progress
<1>0. PICK loops \in Orders : loops = method.loops
  BY <1>2
<1>3. PICK ci \in Position, cj \in Position, ck \in Position :
           ci = counter["i"] /\ cj = counter["j"] /\ ck = counter["k"]
  BY <1>2, ElementPasses
<1> DEFINE e == ResultElement(method, ci, cj)
           last == ck = MatrixSize - 1
<1>4. /\ local' = Sums(ci, cj)[ck + 1] /\ local' \in Nat
      /\ e \in [array : ArrayName, index : 0 .. Area - 1]
      /\ IF last THEN StoreValue(e, local') ELSE heap' = heap
  BY <1>3, BodyOfSum
<1>5. e.array = ResultArray(method)
  BY <1>1, Elements DEF ResultElement
<1> HIDE DEF e
<1>6. /\ heap' \in HeapType
      /\ \A x \in ArrayName : x # e.array => heap'[x] = heap[x]
      /\ \A x \in ArrayName, l \in 0 .. Area - 1 :
            heap'[x][l] = IF last /\ x = e.array /\ l = e.index THEN local'
                                                            ELSE heap[x][l]
  <2>1. CASE last
    <3>1. StoreValue(e, local') /\ local' \in Cell
      BY <1>4, <2>1 DEF Cell
    <3>2. PICK sum \in Cell : sum = local'
      BY <3>1
    <3>3. QED
      BY <1>4, <2>1, <3>1, <3>2, StoreChanges DEF HeapOfMethod
  <2>2. CASE ~last
    BY <1>4, <2>2 DEF HeapOfMethod
  <2>3. QED
    BY <2>1, <2>2
<1>7. \A x \in OperandArrays : heap'[x] = heap[x]
  BY <1>1, <1>5, <1>6, ResultIsNoOperand, ArrayNames DEF OperandArrays
<1>8. HeapOfMethod' /\ \A i, j : Sums(i, j)' = Sums(i, j)
  BY <1>6, <1>7, OperandsKept
<1>9. LocalKept'
  BY <1>3, <1>4, <1>6, <1>7, LocalStays
<1>10. /\ \A i, j, k \in Position :
             Passed(loops, Iterating(i, j, k))'
               <=> \/ Passed(loops, Iterating(i, j, k))
                   \/ i = ci /\ j = cj /\ k = ck
       /\ \A k \in Position : Passed(loops, Iterating(ci, cj, k)) <=> k < ck
  BY <1>0, <1>2, <1>3, ElementPasses
<1>11. ASSUME NEW i \in Position, NEW j \in Position
       PROVE  ResultValue(i, j)' = IF last /\ i = ci /\ j = cj
                                   THEN local' ELSE ResultValue(i, j)
  <2> DEFINE r == ResultElement(method, i, j)
  <2>1. r.array = ResultArray(method)
        /\ r \in [array : ArrayName, index : 0 .. Area - 1]
    BY <1>1, Elements DEF ResultElement
  <2>2. r.index = e.index => i = ci /\ j = cj
    BY <1>1, <1>3, ResultApart DEF e
  <2>3. i = ci /\ j = cj => r.index = e.index
    BY DEF e
  <2>4. ResultElement(method, i, j)' = r
    BY <1>2 DEF ResultElement, ElementOf
  <2>5. ResultValue(i, j)' = heap'[r.array][r.index]
    BY <2>4 DEF ResultValue, ValueOf
  <2>6. ResultValue(i, j) = heap[r.array][r.index]
    BY DEF ResultValue, ValueOf
  <2> HIDE DEF r
  <2>7. QED
    BY <1>5, <1>6, <2>1, <2>2, <2>3, <2>5, <2>6
<1>12. ASSUME NEW i \in Position, NEW j \in Position,
              \A k \in Position : Passed(loops, Iterating(i, j, k))'
       PROVE  ResultValue(i, j)' = Sums(i, j)[MatrixSize]
  <2>1. /\ MatrixSize - 1 \in Position
        /\ \A k \in Position : k \in Nat /\ k <= MatrixSize - 1
        /\ MatrixSize - 1 + 1 = MatrixSize
    BY MatrixAssumption DEF Position
  <2>2. CASE i = ci /\ j = cj
    <3>1. Passed(loops, Iterating(i, j, MatrixSize - 1))'
      BY <1>12, <2>1
    <3>2. MatrixSize - 1 < ck \/ MatrixSize - 1 = ck
      BY <1>10, <2>1, <2>2, <3>1
    <3>3. last
      <4>1. ck \in Nat /\ ck <= MatrixSize - 1 /\ MatrixSize - 1 \in Nat
        BY <2>1, MatrixAssumption
      <4>2. QED
        BY <3>2, <4>1
    <3>4. ck + 1 = MatrixSize
      BY <2>1, <3>3
    <3>5. QED
      BY <1>4, <1>11, <2>2, <3>3, <3>4
  <2>3. CASE ~(i = ci /\ j = cj)
    <3>1. \A k \in Position : Passed(loops, Iterating(i, j, k))
      BY <1>10, <1>12, <2>3
    <3>2. ResultValue(i, j) = Sums(i, j)[MatrixSize]
      BY <1>0, <3>1 DEF Progress, WholeSums
    <3>3. QED
      BY <1>11, <2>3, <3>2
  <2>4. QED
    BY <2>2, <2>3
<1>13. WholeSums'
  <2>1. method'.loops = loops
    BY <1>0, <1>2
  <2>2. QED
    BY <1>8, <1>12, <2>1 DEF WholeSums
<1>14. QED
  BY <1>5, <1>6, <1>8, <1>9, <1>13

(* An iteration more, and now and then one of the loops inside is done.     *)
LEMMA IterationsStep ==
    ASSUME NEW m, m.loops \in Orders, Counting(m.loops), ~LoopsEnded(m.loops),
           Advance(m.loops)
    PROVE  LET z == m.loops[3]
           IN /\ IterationsOf(m) \in Nat /\ InnermostOf(m) \in Nat
              /\ IterationsOf(m)' = IterationsOf(m) + 1
              /\ InnermostOf(m)' = IF counter[z] + 1 = MatrixSize
                                   THEN InnermostOf(m) + 1 ELSE InnermostOf(m)
              /\ counter'[z] = 0 <=> counter[z] + 1 = MatrixSize
              /\ counter[z] \in Position
<1> DEFINE n == MatrixSize
<1>1. PICK loops \in Orders : loops = m.loops
  OBVIOUS
<1>2. PICK x \in LoopVariable, y \in LoopVariable, z \in LoopVariable :
           x = loops[1] /\ y = loops[2] /\ z = loops[3]
  BY OrderOfLoops
<1>3. /\ n \in Nat /\ n # 0
      /\ counter[x] \in Position /\ counter[y] \in Position
      /\ counter[z] \in Position
  BY <1>1, <1>2, MatrixAssumption DEF Counting, LoopsEnded, Position
<1>4. PICK X \in Nat, Y \in Nat, Z \in Nat :
           /\ X = counter[x] /\ Y = counter[y] /\ Z = counter[z]
           /\ X < n /\ Y < n /\ Z < n
  BY <1>3 DEF Position
<1>5. \/ /\ Z + 1 < n
         /\ counter'[x] = X /\ counter'[y] = Y /\ counter'[z] = Z + 1
      \/ /\ Z + 1 = n /\ Y + 1 < n
         /\ counter'[x] = X /\ counter'[y] = Y + 1 /\ counter'[z] = 0
      \/ /\ Z + 1 = n /\ Y + 1 = n
         /\ counter'[x] = X + 1 /\ counter'[y] = 0 /\ counter'[z] = 0
  BY <1>1, <1>2, <1>4, AdvanceThree
<1>6. PICK Q \in Nat : Q = X * n
  BY <1>3, <1>4
<1>7. PICK P \in Nat : P = (Q + Y) * n
  BY <1>3, <1>4, <1>6
<1>8. IterationsOf(m) = P + Z /\ InnermostOf(m) = Q + Y
  BY <1>1, <1>2, <1>4, <1>6, <1>7 DEF IterationsOf, InnermostOf
<1>9. /\ IterationsOf(m)' = (counter'[x] * n + counter'[y]) * n + counter'[z]
      /\ InnermostOf(m)' = counter'[x] * n + counter'[y]
  BY <1>1, <1>2 DEF IterationsOf, InnermostOf
<1>10. (X + 1) * n = Q + n /\ (Q + Y + 1) * n = P + n
  BY <1>3, <1>4, <1>6, <1>7
<1>11. CASE Z + 1 < n /\ counter'[x] = X /\ counter'[y] = Y /\ counter'[z] = Z + 1
  <2>1. IterationsOf(m)' = P + (Z + 1) /\ InnermostOf(m)' = Q + Y
    BY <1>6, <1>7, <1>9, <1>11
  <2>2. QED
    BY <1>1, <1>2, <1>3, <1>4, <1>8, <1>11, <2>1
<1>12. CASE /\ Z + 1 = n /\ Y + 1 < n
            /\ counter'[x] = X /\ counter'[y] = Y + 1 /\ counter'[z] = 0
  <2>1. InnermostOf(m)' = Q + (Y + 1)
    BY <1>6, <1>9, <1>12
  <2>2. IterationsOf(m)' = (Q + Y + 1) * n + 0
    BY <1>4, <1>6, <1>9, <1>12
  <2>3. QED
    BY <1>1, <1>2, <1>3, <1>4, <1>8, <1>10, <1>12, <2>1, <2>2
<1>13. CASE /\ Z + 1 = n /\ Y + 1 = n
            /\ counter'[x] = X + 1 /\ counter'[y] = 0 /\ counter'[z] = 0
  <2>1. InnermostOf(m)' = Q + n
    BY <1>3, <1>6, <1>9, <1>10, <1>13
  <2>2. IterationsOf(m)' = (Q + n) * n
    BY <1>3, <1>6, <1>9, <1>10, <1>13
  <2>3. Q + n = Q + Y + 1
    BY <1>3, <1>4, <1>6, <1>13
  <2>4. IterationsOf(m)' = P + n
    BY <1>10, <2>2, <2>3
  <2>5. QED
    BY <1>1, <1>2, <1>3, <1>4, <1>8, <1>13, <2>1, <2>3, <2>4
<1>14. QED
  BY <1>5, <1>11, <1>12, <1>13

(* The file of the method grows with the iterations.                        *)
LEMMA FileGrows ==
    ASSUME Multiplying, HeapOfMethod, Progress, FilesType,
           method.name \in DOMAIN csv,
           Len(csv[method.name]) = RowsSoFar(method), matrix_multiplication
    PROVE  /\ FilesType' /\ DOMAIN csv' = DOMAIN csv
           /\ \A f \in DOMAIN csv : f # method.name => csv'[f] = csv[f]
           /\ Len(csv'[method.name]) = RowsSoFar(method)'
<1>1. PICK m : m = method /\ m \in {Methods[p] : p \in DOMAIN Methods}
  BY DEF Multiplying, method
<1>2. /\ method' = m /\ m.loops \in Orders
      /\ ~LoopsEnded(m.loops) /\ Counting(m.loops)
      /\ Advance(m.loops)
  BY <1>1, MethodTable DEF matrix_multiplication, method, Progress
<1> DEFINE z == m.loops[3]
           n == MatrixSize
<1>3. PICK I \in Nat, J \in Nat, Z \in Nat :
         /\ I = IterationsOf(m) /\ J = InnermostOf(m) /\ Z = counter[z]
  BY <1>2, IterationsStep, PositionNext
<1>4. /\ IterationsOf(m)' = I + 1
      /\ InnermostOf(m)' = IF Z + 1 = n THEN J + 1 ELSE J
      /\ counter'[z] = 0 <=> Z + 1 = n
  BY <1>2, <1>3, IterationsStep
<1>5. FileName = m.name
  BY <1>1 DEF FileName, Multiplying
<1>6. n \in Nat
  BY MatrixAssumption
<1>7. /\ RowsSoFar(m) = CASE m.opt = 0 -> 4 * I
                          [] m.opt # 0 /\ z = "k" -> 2 * I + J
                          [] m.opt # 0 /\ z # "k" ->
                               3 * I + J + (IF Z = 0 THEN 0 ELSE 1)
      /\ RowsSoFar(m)' = CASE m.opt = 0 -> 4 * (I + 1)
                          [] m.opt # 0 /\ z = "k" ->
                               2 * (I + 1) + (IF Z + 1 = n THEN J + 1 ELSE J)
                          [] m.opt # 0 /\ z # "k" ->
                               3 * (I + 1) + (IF Z + 1 = n THEN J + 1 ELSE J)
                                 + (IF Z + 1 = n THEN 0 ELSE 1)
  BY <1>3, <1>4 DEF RowsSoFar
<1>8. \E rows \in Seq(AccessRow) :
         WriteRows(rows) /\ RowsSoFar(m)' = RowsSoFar(m) + Len(rows)
  <2>1. CASE InPlace
    <3>1. PICK rows \in Seq(AccessRow) :
             /\ WriteRows(rows)
             /\ Len(rows) = IF m.opt = 0 \/ Z = 0 THEN 4 ELSE 3
      BY <1>1, <1>3, <2>1, BodyInPlace
    <3>2. m.opt = 0 \/ z # "k"
      BY <1>1, <2>1 DEF InPlace
    <3>3. CASE m.opt = 0
      <4>1. RowsSoFar(m) = 4 * I /\ RowsSoFar(m)' = 4 * (I + 1)
        BY <1>7, <3>3
      <4>2. Len(rows) = 4
        BY <3>1, <3>3
      <4>3. RowsSoFar(m)' = RowsSoFar(m) + Len(rows)
        BY <4>1, <4>2
      <4>4. QED
        BY <3>1, <4>3
    <3>4. CASE m.opt # 0
      <4>1. /\ RowsSoFar(m) = 3 * I + J + (IF Z = 0 THEN 0 ELSE 1)
            /\ RowsSoFar(m)' = 3 * (I + 1) + J + 1
        BY <1>7, <3>2, <3>4
      <4>2. Len(rows) = IF Z = 0 THEN 4 ELSE 3
        BY <3>1, <3>4
      <4>3. RowsSoFar(m)' = RowsSoFar(m) + Len(rows)
        BY <4>1, <4>2
      <4>4. QED
        BY <3>1, <4>3
    <3>5. QED
      BY <3>3, <3>4
  <2>2. CASE ~InPlace
    <3>1. m.opt # 0 /\ z = "k"
      BY <1>1, <2>2 DEF InPlace
    <3>2. PICK rows \in Seq(AccessRow) :
             /\ WriteRows(rows)
             /\ Len(rows) = IF Z = n - 1 THEN 3 ELSE 2
      BY <1>1, <1>3, <2>2, <3>1, BodyOfSum
    <3>3. /\ RowsSoFar(m) = 2 * I + J
          /\ RowsSoFar(m)' = 2 * (I + 1) + (IF Z + 1 = n THEN J + 1 ELSE J)
      BY <1>7, <3>1
    <3>4. Z = n - 1 <=> Z + 1 = n
      BY <1>6
    <3>5. RowsSoFar(m)' = RowsSoFar(m) + Len(rows)
      BY <3>2, <3>3, <3>4
    <3>6. QED
      BY <3>2, <3>5
  <2>3. QED
    BY <2>1, <2>2
<1>9. PICK rows \in Seq(AccessRow) :
         WriteRows(rows) /\ RowsSoFar(m)' = RowsSoFar(m) + Len(rows)
  BY <1>8
<1>10. /\ FilesType' /\ DOMAIN csv' = DOMAIN csv
       /\ \A f \in DOMAIN csv : f # m.name => csv'[f] = csv[f]
       /\ Len(csv'[m.name]) = Len(csv[m.name]) + Len(rows)
  BY <1>1, <1>5, <1>9, RowsWritten
<1>11. Len(csv'[m.name]) = RowsSoFar(m)'
  BY <1>1, <1>9, <1>10
<1>12. RowsSoFar(m)' = RowsSoFar(method)' /\ method.name = m.name
  BY <1>1, <1>2
<1>13. QED
  BY <1>10, <1>11, <1>12

(* The rows that the analysis counts.                                       *)
RowsAnalysed(m) ==
    LET n == MatrixSize
    IN CASE m.opt = 0 -> 4 * n * n * n
         [] m.opt # 0 /\ m.loops[3] = "k" -> 2 * n * n * n + n * n
         [] m.opt # 0 /\ m.loops[3] # "k" -> 3 * n * n * n + n * n

LEMMA RowsInTheEnd ==
    ASSUME NEW m, m.loops \in Orders, Counting(m.loops), LoopsEnded(m.loops)
    PROVE  RowsSoFar(m) = RowsAnalysed(m)
<1> DEFINE n == MatrixSize
<1>1. n \in Nat
  BY MatrixAssumption
<1>2. /\ counter[m.loops[1]] = n /\ counter[m.loops[2]] = 0
      /\ counter[m.loops[3]] = 0
  BY DEF Counting, LoopsEnded
<1>3. PICK A \in Nat : A = n * n
  BY <1>1
<1>4. PICK V \in Nat : V = n * n * n /\ V = A * n
  BY <1>1, <1>3
<1>5. InnermostOf(m) = n * n
  BY <1>1, <1>2 DEF InnermostOf
<1>6. IterationsOf(m) = n * n * n
  BY <1>1, <1>2 DEF IterationsOf
<1>7. 4 * n * n * n = 4 * V /\ 2 * n * n * n = 2 * V /\ 3 * n * n * n = 3 * V
  BY <1>1, <1>3, <1>4
<1>8. QED
  BY <1>2, <1>3, <1>4, <1>5, <1>6, <1>7 DEF RowsSoFar, RowsAnalysed

(* A function begins with nothing passed and an empty file.                 *)
LEMMA LoopsBegin ==
    ASSUME NEW loops \in Orders, counter' \in [LoopVariable -> 0 .. MatrixSize],
           \A v \in LoopVariable : counter'[v] = 0
    PROVE  /\ Counting(loops)' /\ counter'[loops[3]] = 0
           /\ \A t \in Iteration : ~Passed(loops, t)'
<1>1. /\ loops[1] \in LoopVariable /\ loops[2] \in LoopVariable
      /\ loops[3] \in LoopVariable
  BY OrderOfLoops
<1>2. \A t \in Iteration : \A v \in LoopVariable : t[v] \in 0 .. MatrixSize - 1
  BY DEF Iteration, Position
<1>3. Counting(loops)'
  BY <1>1, MatrixAssumption DEF Counting, Position
<1>4. \A t \in Iteration : ~Passed(loops, t)'
  BY <1>1, <1>2 DEF Passed
<1>5. QED
  BY <1>1, <1>3, <1>4

LEMMA RowsBegin ==
    ASSUME NEW m, m.loops \in Orders, \A v \in LoopVariable : counter'[v] = 0
    PROVE  RowsSoFar(m)' = 0
<1>1. /\ counter'[m.loops[1]] = 0 /\ counter'[m.loops[2]] = 0
      /\ counter'[m.loops[3]] = 0
  BY OrderOfLoops
<1>2. IterationsOf(m)' = 0 /\ InnermostOf(m)' = 0
  BY <1>1, MatrixAssumption DEF IterationsOf, InnermostOf
<1>3. m.opt = 0 \/ (m.opt # 0 /\ m.loops[3] = "k") \/ (m.opt # 0 /\ m.loops[3] # "k")
  OBVIOUS
<1>4. QED
  BY <1>1, <1>2, <1>3 DEF RowsSoFar

LEMMA CopyBegins ==
    ASSUME counter' \in [LoopVariable -> 0 .. MatrixSize],
           \A v \in LoopVariable : counter'[v] = 0
    PROVE  /\ CopyCounting'
           /\ \A i, j \in Position : ~CopyPassed(i, j)'
<1>1. counter'["i"] = 0 /\ counter'["j"] = 0 /\ 0 \in Position
  BY MatrixAssumption DEF LoopVariable, Position
<1>2. \A i, j \in Position : ~CopyPassed(i, j)'
  BY <1>1 DEF CopyPassed, Position
<1>3. QED
  BY <1>1, <1>2 DEF CopyCounting

-----------------------------------------------------------------------------
(* The invariant of the generator.                                          *)

Functions == {"none", "a", "b", "c", "method"}
GeneratorTypes ==
    /\ heap \in HeapType /\ heap["a"] \in Matrix /\ heap["b"] \in Matrix
    /\ FilesType
    /\ next_method \in 0 .. 18 /\ call \in Functions
    /\ call \in {"a", "b"} => next_method = 0
    /\ call \in {"c", "method"} => next_method \in DOMAIN Methods
    /\ call # "none" => FileName \in DOMAIN csv
    /\ Copying => CopyCounting

(* The operands are transposed before the first method.                     *)
OperandsReady ==
    /\ call = "a" => CopiedTo("a", "a_transposed")
    /\ call = "b" => TransposedTo("a", "a_transposed")
                       /\ CopiedTo("b", "b_transposed")
    /\ next_method # 0 => OperandsTransposed

(* A method on its way; the copy of a transposed result; a result.          *)
MethodRuns ==
    call = "method" => Progress /\ Len(csv[method.name]) = RowsSoFar(method)
Multiplied(array) ==
    \A i, j \in Position :
        heap[array][IF array = "result" THEN At(i, j) ELSE At(j, i)]
          = Product(heap["a"], heap["b"], i, j)
ResultCopied ==
    call = "c" =>
        /\ "result" \in PassedTransposed(method)
        /\ Multiplied("result_transposed")
        /\ CopiedTo("result_transposed", "result")

(* The file of a method that has ended.                                     *)
FilesWhole ==
    \A p \in DOMAIN Methods :
        p < next_method \/ (p = next_method /\ call = "c") =>
            /\ Methods[p].name \in DOMAIN csv
            /\ Len(csv[Methods[p].name]) = RowsAnalysed(Methods[p])

GeneratorInv ==
    /\ GeneratorTypes /\ OperandsReady /\ MethodRuns /\ ResultCopied
    /\ EveryMethodMultiplies /\ FilesWhole

LEMMA GeneratorBegins ==
    ASSUME GeneratorInit
    PROVE  GeneratorInv
<1>1. PICK a \in Matrix, b \in Matrix :
         heap = [x \in ArrayName |->
                    CASE x = "a" -> a [] x = "b" -> b
                      [] OTHER -> [e \in 0 .. Area - 1 |-> Garbage]]
  <2>1. PICK operands \in Operands :
           heap = [x \in ArrayName |->
                    CASE x = "a" -> operands[1]
                      [] x = "b" -> operands[2]
                      [] OTHER -> [e \in 0 .. Area - 1 |-> Garbage]]
    BY DEF GeneratorInit
  <2>2. operands[1] \in Matrix /\ operands[2] \in Matrix
    BY MatrixAssumption
  <2>3. QED
    BY <2>1, <2>2
<1>2. a \in [0 .. Area - 1 -> Cell] /\ b \in [0 .. Area - 1 -> Cell]
      /\ [e \in 0 .. Area - 1 |-> Garbage] \in [0 .. Area - 1 -> Cell]
  BY DEF Matrix, Cell
<1>3. /\ heap \in HeapType /\ heap["a"] \in Matrix /\ heap["b"] \in Matrix
  <2>1. "a" \in ArrayName /\ "b" \in ArrayName
    BY ArrayNames
  <2>2. heap["a"] = a /\ heap["b"] = b
    BY <1>1, <2>1
  <2>3. \A x \in ArrayName : heap[x] \in [0 .. Area - 1 -> Cell]
    BY <1>1, <1>2
  <2>4. QED
    BY <1>1, <2>2, <2>3 DEF HeapType
<1>4. FilesType /\ next_method = 0 /\ call = "none"
  BY DEF GeneratorInit, FilesType
<1>5. \A p \in DOMAIN Methods : ~(p < next_method)
  BY <1>4, MethodCount
<1>6. QED
  BY <1>3, <1>4, <1>5
     DEF GeneratorInv, GeneratorTypes, OperandsReady, MethodRuns, ResultCopied,
         EveryMethodMultiplies, FilesWhole, Functions, Copying

(* A method that ends leaves the product in its result array and all rows.   *)
LEMMA MethodEnds ==
    ASSUME GeneratorInv, call = "method", LoopsEnded(method.loops)
    PROVE  /\ Multiplied(ResultArray(method))
           /\ Len(csv[method.name]) = RowsAnalysed(method)
<1>1. PICK p \in DOMAIN Methods : p = next_method /\ method = Methods[p]
  BY DEF GeneratorInv, GeneratorTypes, method
<1>2. PICK loops \in Orders : loops = method.loops
  BY <1>1, MethodTable
<1>3. /\ Progress /\ Counting(loops) /\ LoopsEnded(loops)
      /\ Len(csv[method.name]) = RowsSoFar(method)
  BY <1>2 DEF GeneratorInv, MethodRuns, Progress
<1>4. Len(csv[method.name]) = RowsAnalysed(method)
  BY <1>1, <1>3, MethodTable, RowsInTheEnd, <1>2
<1>5. ASSUME NEW i \in Position, NEW j \in Position
      PROVE  ResultValue(i, j) = Sums(i, j)[MatrixSize]
  <2>1. ASSUME NEW k \in Position PROVE Passed(loops, Iterating(i, j, k))
    <3>1. PICK t \in Iteration : t = Iterating(i, j, k)
      BY IteratingType
    <3>2. Passed(loops, t)
      BY <1>3, LoopsPass
    <3>3. QED
      BY <3>1, <3>2
  <2>2. CASE InPlace
    <3>1. PICK l \in 0 .. MatrixSize :
             /\ \A k \in Position : Passed(loops, Iterating(i, j, k)) <=> k < l
             /\ ResultValue(i, j) = Sums(i, j)[l]
      BY <1>2, <1>3, <2>2 DEF Progress, PartialSums
    <3>2. MatrixSize - 1 \in Position
      BY MatrixAssumption DEF Position
    <3>3. MatrixSize - 1 < l
      BY <2>1, <3>1, <3>2
    <3>4. l = MatrixSize
      BY <3>3, MatrixAssumption
    <3>5. QED
      BY <3>1, <3>4
  <2>3. CASE ~InPlace
    BY <1>2, <1>3, <2>1, <2>3 DEF Progress, WholeSums
  <2>4. QED
    BY <2>2, <2>3
<1>6. ASSUME NEW i \in Position, NEW j \in Position
      PROVE  heap[ResultArray(method)]
                 [IF ResultArray(method) = "result" THEN At(i, j) ELSE At(j, i)]
               = Product(heap["a"], heap["b"], i, j)
  <2>1. ResultElement(method, i, j)
          = [array |-> IF "result" \in PassedTransposed(method)
                       THEN TransposedName("result") ELSE "result",
             index |-> IF "result" \in PassedTransposed(method)
                       THEN At(j, i) ELSE At(i, j)]
    BY <1>1, Elements DEF ResultElement
  <2>2. TransposedName("result") = "result_transposed"
    BY DEF TransposedName
  <2>3. ResultValue(i, j)
          = heap[ResultArray(method)]
                [IF ResultArray(method) = "result" THEN At(i, j) ELSE At(j, i)]
    BY <2>1, <2>2 DEF ResultValue, ValueOf, ResultArray
  <2>4. QED
    BY <1>5, <2>3 DEF Sums, Product
<1>7. QED
  BY <1>4, <1>6 DEF Multiplied

LEMMA TransposeOperandsKeeps ==
    ASSUME GeneratorInv, TransposeOperands
    PROVE  GeneratorInv'
<1>1. /\ heap' = heap /\ next_method' = next_method /\ GeneratorTypes
      /\ OperandsReady /\ next_method = 0
      /\ \/ call = "none" /\ Enter("a", "a")
         \/ call = "b" /\ FALSE
         \/ /\ call = "a" /\ LoopsEnded(<<"i", "j">>) /\ Enter("b", "b")
            /\ CopyCounting /\ CopiedTo("a", "a_transposed")
  BY DEF TransposeOperands, GeneratorInv, GeneratorTypes, OperandsReady, Copying
<1>2. PICK function \in {"a", "b"} :
         /\ Enter(function, function)
         /\ function = "b" => TransposedTo("a", "a_transposed")
  BY <1>1, CopyEnds
<1>3. /\ FilesType' /\ DOMAIN csv' = DOMAIN csv \cup {function}
      /\ call' = function
      /\ counter' \in [LoopVariable -> 0 .. MatrixSize]
      /\ \A v \in LoopVariable : counter'[v] = 0
  BY <1>1, <1>2, Entered DEF GeneratorTypes
<1>4. CopyCounting' /\ \A i, j \in Position : ~CopyPassed(i, j)'
  BY <1>3, CopyBegins
<1>5. \A from, to : CopiedTo(from, to)'
  BY <1>4 DEF CopiedTo
<1>6. FileName' = function
  BY <1>3 DEF FileName
<1>7. GeneratorTypes'
  BY <1>1, <1>3, <1>4, <1>6 DEF GeneratorTypes, Functions, Copying
<1>8. OperandsReady'
  BY <1>1, <1>2, <1>3, <1>5 DEF OperandsReady, TransposedTo
<1>9. FilesWhole'
  <2>1. \A p \in DOMAIN Methods : ~(p < next_method')
    BY <1>1, MethodCount
  <2>2. QED
    BY <1>3, <2>1 DEF FilesWhole
<1>10. QED
  BY <1>3, <1>7, <1>8, <1>9
     DEF GeneratorInv, MethodRuns, ResultCopied, EveryMethodMultiplies

LEMMA RunMethodKeeps ==
    ASSUME GeneratorInv, RunMethod
    PROVE  GeneratorInv'
<1>1. PICK p \in DOMAIN Methods : p = next_method
  BY DEF RunMethod
<1>2. PICK m : m = Methods[p] /\ m.loops \in Orders
  BY MethodTable
<1>3. /\ call = "none" /\ Enter("method", m.name)
      /\ heap' = reset_matrix(reset_matrix(heap, "result"), "result_transposed")
      /\ next_method' = p /\ method = m /\ method' = m /\ method'.loops = m.loops
  BY <1>1, <1>2 DEF RunMethod, method
<1>4. /\ GeneratorTypes /\ OperandsReady /\ FilesWhole
  BY DEF GeneratorInv
<1>5. p \in 1 .. 17
  BY MethodCount
<1>6. HeapOfMethod
  BY <1>1, <1>4, <1>5 DEF HeapOfMethod, GeneratorTypes, OperandsReady
<1>7. /\ FilesType' /\ DOMAIN csv' = DOMAIN csv \cup {m.name}
      /\ \A f \in DOMAIN csv : f # m.name => csv'[f] = csv[f]
      /\ Len(csv'[m.name]) = 0
      /\ call' = "method"
      /\ counter' \in [LoopVariable -> 0 .. MatrixSize]
      /\ \A v \in LoopVariable : counter'[v] = 0
  BY <1>3, <1>4, Entered DEF GeneratorTypes
<1> DEFINE zero == [e \in 0 .. Area - 1 |-> 0]
<1>8. /\ heap' \in HeapType
      /\ \A x \in ArrayName : x \notin {"result", "result_transposed"} =>
            heap'[x] = heap[x]
      /\ heap'["result"] = zero /\ heap'["result_transposed"] = zero
  <2>1. zero \in [0 .. Area - 1 -> Cell]
    BY DEF Cell
  <2>2. "result" \in ArrayName /\ "result_transposed" \in ArrayName
    BY ArrayNames
  <2>3. heap' = [[heap EXCEPT !["result"] = zero] EXCEPT !["result_transposed"] = zero]
    BY <1>3 DEF reset_matrix
  <2> HIDE DEF zero
  <2>4. [heap EXCEPT !["result"] = zero] \in HeapType
    BY <2>1, <2>2, <1>6 DEF HeapType, HeapOfMethod
  <2>5. QED
    BY <2>1, <2>2, <2>3, <2>4, <1>6 DEF HeapType, HeapOfMethod
<1>9. \A x \in OperandArrays : heap'[x] = heap[x]
  BY <1>8, ArrayNames DEF OperandArrays
<1>10. HeapOfMethod' /\ \A i, j : Sums(i, j)' = Sums(i, j)
  BY <1>6, <1>8, <1>9, OperandsKept
<1>11. /\ Counting(m.loops)' /\ counter'[m.loops[3]] = 0
       /\ \A t \in Iteration : ~Passed(m.loops, t)'
  <2>1. PICK loops \in Orders : loops = m.loops
    BY <1>2
  <2>2. /\ Counting(loops)' /\ counter'[loops[3]] = 0
        /\ \A t \in Iteration : ~Passed(loops, t)'
    BY <1>7, LoopsBegin
  <2>3. QED
    BY <2>1, <2>2
<1>12. ASSUME NEW i \in Position, NEW j \in Position
       PROVE  /\ ResultValue(i, j)' = Sums(i, j)'[0]
              /\ \A k \in Position : ~Passed(m.loops, Iterating(i, j, k))'
  <2>1. PICK e \in [array : ArrayName, index : 0 .. Area - 1] :
           e = ResultElement(m, i, j) /\ e.array = ResultArray(m)
    BY <1>2, Elements DEF ResultElement
  <2>2. ResultValue(i, j)' = heap'[e.array][e.index]
    <3>1. ResultElement(method, i, j)' = e
      BY <1>3, <2>1 DEF ResultElement, ElementOf
    <3>2. QED
      BY <3>1 DEF ResultValue, ValueOf
  <2>3. e.array \in {"result", "result_transposed"}
    BY <2>1 DEF ResultArray
  <2>4. ResultValue(i, j)' = 0
    BY <1>8, <2>2, <2>3
  <2>5. Sums(i, j)'[0] = 0
    BY <1>6, <1>10, SumsOfMethod
  <2>6. ASSUME NEW k \in Position PROVE ~Passed(m.loops, Iterating(i, j, k))'
    <3>1. PICK t \in Iteration : t = Iterating(i, j, k)
      BY IteratingType
    <3>2. Passed(m.loops, t)' <=> Passed(m.loops, Iterating(i, j, k))'
      BY <3>1 DEF Passed
    <3>3. QED
      BY <1>11, <3>2
  <2>7. QED
    BY <2>4, <2>5, <2>6
<1>13. Progress'
  <2>1. Counting(method.loops)' /\ LocalKept'
    BY <1>3, <1>11 DEF LocalKept, Counting, LoopsEnded
  <2>2. PartialSums'
    <3>1. 0 \in 0 .. MatrixSize /\ \A k \in Position : ~(k < 0)
      BY MatrixAssumption DEF Position
    <3>2. QED
      BY <1>3, <1>12, <3>1 DEF PartialSums
  <2>3. WholeSums'
    <3>1. 0 \in Position
      BY MatrixAssumption DEF Position
    <3>2. QED
      BY <1>3, <1>12, <3>1 DEF WholeSums
  <2>4. QED
    BY <2>1, <2>2, <2>3 DEF Progress
<1>14. RowsSoFar(method)' = 0
  BY <1>2, <1>3, <1>7, RowsBegin
<1>15. FileName' = m.name
  BY <1>3, <1>7 DEF FileName
<1>16. GeneratorTypes'
  BY <1>3, <1>4, <1>5, <1>7, <1>10, <1>15
     DEF GeneratorTypes, Functions, Copying, HeapOfMethod
<1>17. OperandsReady'
  BY <1>7, <1>10 DEF OperandsReady, HeapOfMethod
<1>18. MethodRuns'
  BY <1>3, <1>7, <1>13, <1>14 DEF MethodRuns
<1>19. FilesWhole'
  <2> SUFFICES ASSUME NEW q \in DOMAIN Methods, q < p
               PROVE  /\ Methods[q].name \in DOMAIN csv'
                      /\ Len(csv'[Methods[q].name]) = RowsAnalysed(Methods[q])
    BY <1>3, <1>7 DEF FilesWhole, RowsAnalysed
  <2>1. /\ Methods[q].name \in DOMAIN csv
        /\ Len(csv[Methods[q].name]) = RowsAnalysed(Methods[q])
    BY <1>1, <1>4 DEF FilesWhole
  <2>2. Methods[q].name # m.name
    <3>1. q # p
      BY <1>5, MethodCount
    <3>2. QED
      BY <1>2, <3>1, MethodNames
  <2>3. QED
    BY <1>7, <2>1, <2>2
<1>20. QED
  BY <1>7, <1>16, <1>17, <1>18, <1>19
     DEF GeneratorInv, ResultCopied, EveryMethodMultiplies

LEMMA TransposeResultKeeps ==
    ASSUME GeneratorInv, TransposeResult
    PROVE  GeneratorInv'
<1>1. /\ heap' = heap /\ next_method' = next_method /\ call = "method"
      /\ LoopsEnded(method.loops) /\ "result" \in PassedTransposed(method)
      /\ Enter("c", "c") /\ GeneratorTypes /\ OperandsReady /\ FilesWhole
      /\ method' = method
  BY DEF TransposeResult, GeneratorInv, method
<1>2. PICK p \in DOMAIN Methods : p = next_method /\ method = Methods[p]
  BY <1>1 DEF GeneratorTypes, method
<1>3. /\ FilesType' /\ DOMAIN csv' = DOMAIN csv \cup {"c"}
      /\ \A f \in DOMAIN csv : f # "c" => csv'[f] = csv[f]
      /\ call' = "c"
      /\ counter' \in [LoopVariable -> 0 .. MatrixSize]
      /\ \A v \in LoopVariable : counter'[v] = 0
  BY <1>1, Entered DEF GeneratorTypes
<1>4. CopyCounting' /\ \A i, j \in Position : ~CopyPassed(i, j)'
  BY <1>3, CopyBegins
<1>5. CopiedTo("result_transposed", "result")'
  BY <1>4 DEF CopiedTo
<1>6. /\ Multiplied("result_transposed")
      /\ Len(csv[method.name]) = RowsAnalysed(method)
  BY <1>1, MethodEnds DEF ResultArray
<1>7. FileName' = "c" /\ FileName = method.name
  BY <1>1, <1>3 DEF FileName
<1>8. GeneratorTypes'
  BY <1>1, <1>3, <1>4, <1>7 DEF GeneratorTypes, Functions, Copying
<1>9. OperandsReady'
  <2>1. OperandsTransposed => OperandsTransposed'
    BY <1>1 DEF OperandsTransposed, TransposedTo
  <2>2. QED
    BY <1>1, <1>3, <2>1 DEF OperandsReady
<1>10. ResultCopied'
  <2>1. Multiplied("result_transposed")'
    BY <1>1, <1>6 DEF Multiplied
  <2>2. QED
    BY <1>1, <1>5, <2>1 DEF ResultCopied
<1>11. FilesWhole'
  <2> SUFFICES ASSUME NEW q \in DOMAIN Methods, q < p \/ q = p
               PROVE  /\ Methods[q].name \in DOMAIN csv'
                      /\ Len(csv'[Methods[q].name]) = RowsAnalysed(Methods[q])
    BY <1>1, <1>2, <1>3 DEF FilesWhole, RowsAnalysed
  <2>1. /\ Methods[q].name \in DOMAIN csv
        /\ Len(csv[Methods[q].name]) = RowsAnalysed(Methods[q])
    <3>1. CASE q < p
      BY <1>1, <1>2, <3>1 DEF FilesWhole
    <3>2. CASE q = p
      BY <1>1, <1>2, <1>6, <1>7, <3>2 DEF GeneratorTypes
    <3>3. QED
      BY <3>1, <3>2
  <2>2. Methods[q].name # "c"
    BY MethodTable
  <2>3. QED
    BY <1>3, <2>1, <2>2
<1>12. QED
  BY <1>3, <1>8, <1>9, <1>10, <1>11
     DEF GeneratorInv, MethodRuns, EveryMethodMultiplies

LEMMA NextMethodKeeps ==
    ASSUME GeneratorInv, NextMethod
    PROVE  GeneratorInv'
<1>1. /\ heap' = heap /\ csv' = csv /\ counter' = counter
      /\ next_method' = next_method + 1 /\ call' = "none"
      /\ GeneratorTypes /\ OperandsReady /\ FilesWhole /\ ResultCopied
  BY DEF NextMethod, GeneratorInv
<1>2. \/ call = "b" /\ LoopsEnded(<<"i", "j">>)
      \/ call = "c" /\ LoopsEnded(<<"i", "j">>)
      \/ call = "method" /\ LoopsEnded(method.loops)
           /\ "result" \notin PassedTransposed(method)
  BY DEF NextMethod
<1>3. /\ call = "b" => next_method = 0
      /\ call # "b" => next_method \in 1 .. 17
  BY <1>1, <1>2, MethodCount DEF GeneratorTypes
<1>4. next_method \in 0 .. 17 /\ next_method' \in 1 .. 18
  BY <1>1, <1>3
<1>5. GeneratorTypes'
  BY <1>1, <1>4 DEF GeneratorTypes, Functions, Copying, FilesType
<1>6. OperandsTransposed
  <2>1. CASE call = "b"
    <3>1. TransposedTo("b", "b_transposed")
      BY <1>1, <1>2, <2>1, CopyEnds DEF OperandsReady, GeneratorTypes, Copying
    <3>2. QED
      BY <1>1, <2>1, <3>1 DEF OperandsReady, OperandsTransposed
  <2>2. CASE call # "b"
    BY <1>1, <1>3, <2>2 DEF OperandsReady
  <2>3. QED
    BY <2>1, <2>2
<1>7. OperandsReady'
  BY <1>1, <1>6 DEF OperandsReady, OperandsTransposed, TransposedTo
<1>8. EveryMethodMultiplies'
  <2>1. CASE call = "b"
    BY <1>1, <1>3, <2>1 DEF EveryMethodMultiplies
  <2>2. CASE call # "b"
    <3>1. Multiplied("result")
      <4>1. CASE call = "c"
        <5>1. /\ TransposedTo("result_transposed", "result")
              /\ Multiplied("result_transposed")
          BY <1>1, <1>2, <4>1, CopyEnds DEF ResultCopied, GeneratorTypes, Copying
        <5>2. QED
          BY <5>1 DEF TransposedTo, Multiplied
      <4>2. CASE call # "c"
        BY <1>2, <2>2, <4>2, MethodEnds DEF ResultArray
      <4>3. QED
        BY <4>1, <4>2
    <3>2. QED
      BY <1>1, <3>1 DEF EveryMethodMultiplies, Multiplied
  <2>3. QED
    BY <2>1, <2>2
<1>9. FilesWhole'
  <2> SUFFICES ASSUME NEW q \in DOMAIN Methods, q < next_method \/ q = next_method
               PROVE  /\ Methods[q].name \in DOMAIN csv
                      /\ Len(csv[Methods[q].name]) = RowsAnalysed(Methods[q])
    <3>1. PICK t \in Nat : t = next_method
      BY <1>4
    <3>2. \A q \in 1 .. 17 : q < t + 1 <=> q < t \/ q = t
      OBVIOUS
    <3>3. QED
      BY <1>1, <3>1, <3>2, MethodCount DEF FilesWhole, RowsAnalysed
  <2>1. CASE q < next_method
    BY <1>1, <2>1 DEF FilesWhole
  <2>2. CASE q = next_method /\ call = "c"
    BY <1>1, <2>2 DEF FilesWhole
  <2>3. CASE q = next_method /\ call # "c"
    <3>1. call = "method" /\ LoopsEnded(method.loops)
      BY <1>2, <1>3, <2>3, MethodCount
    <3>2. Len(csv[method.name]) = RowsAnalysed(method) /\ FileName = method.name
      BY <3>1, MethodEnds DEF FileName
    <3>3. QED
      BY <1>1, <2>3, <3>1, <3>2 DEF GeneratorTypes, method
  <2>4. QED
    BY <2>1, <2>2, <2>3
<1>10. QED
  BY <1>1, <1>5, <1>7, <1>8, <1>9 DEF GeneratorInv, MethodRuns, ResultCopied

LEMMA transpose_matrixKeeps ==
    ASSUME GeneratorInv, transpose_matrix
    PROVE  GeneratorInv'
<1>1. /\ call \in {"a", "b", "c"} /\ call' = call /\ next_method' = next_method
      /\ method' = method /\ ~LoopsEnded(<<"i", "j">>)
      /\ GeneratorTypes /\ OperandsReady /\ FilesWhole /\ ResultCopied
  BY DEF transpose_matrix, GeneratorInv, method
<1>2. /\ call = "a" => Untransposed = "a" /\ Transposed = "a_transposed"
      /\ call = "b" => Untransposed = "b" /\ Transposed = "b_transposed"
      /\ call = "c" => Untransposed = "result_transposed" /\ Transposed = "result"
  BY DEF Untransposed, Transposed
<1>3. CopiedTo(Untransposed, Transposed)
  BY <1>1, <1>2 DEF OperandsReady, ResultCopied
<1>4. FileName = call /\ FileName' = call
  BY <1>1 DEF FileName
<1>5. /\ heap' \in HeapType /\ FilesType' /\ DOMAIN csv' = DOMAIN csv
      /\ \A f \in DOMAIN csv : f # call => csv'[f] = csv[f]
      /\ CopyCounting'
      /\ \A x \in ArrayName : x # Transposed => heap'[x] = heap[x]
      /\ CopiedTo(Untransposed, Transposed)'
  BY <1>1, <1>3, <1>4, CopyStep DEF GeneratorTypes, Copying
<1>6. /\ heap'["a"] = heap["a"] /\ heap'["b"] = heap["b"]
      /\ call # "a" => heap'["a_transposed"] = heap["a_transposed"]
      /\ call # "b" => heap'["b_transposed"] = heap["b_transposed"]
      /\ heap'["result_transposed"] = heap["result_transposed"]
  BY <1>1, <1>2, <1>5, ArrayNames
<1>7. GeneratorTypes'
  BY <1>1, <1>4, <1>5, <1>6 DEF GeneratorTypes, Copying
<1>8. next_method = 0 \/ call = "c"
  BY <1>1 DEF GeneratorTypes
<1>9. OperandsReady'
  <2>1. CASE call = "a"
    <3>1. CopiedTo("a", "a_transposed")' /\ next_method = 0
      BY <1>1, <1>2, <1>5, <2>1 DEF GeneratorTypes, CopiedTo, Untransposed, Transposed
    <3>2. QED
      BY <1>1, <2>1, <3>1 DEF OperandsReady
  <2>2. CASE call = "b"
    <3>1. CopiedTo("b", "b_transposed")' /\ next_method = 0
      BY <1>1, <1>2, <1>5, <2>2 DEF GeneratorTypes, CopiedTo, Untransposed, Transposed
    <3>2. TransposedTo("a", "a_transposed")'
      BY <1>1, <1>6, <2>2 DEF OperandsReady, TransposedTo
    <3>3. QED
      BY <1>1, <2>2, <3>1, <3>2 DEF OperandsReady
  <2>3. CASE call = "c"
    BY <1>1, <1>6, <2>3 DEF OperandsReady, OperandsTransposed, TransposedTo
  <2>4. QED
    BY <1>1, <2>1, <2>2, <2>3
<1>10. ResultCopied'
  <2> SUFFICES ASSUME call = "c" PROVE ResultCopied'
    BY <1>1 DEF ResultCopied
  <2>1. CopiedTo("result_transposed", "result")'
    BY <1>1, <1>2, <1>5 DEF CopiedTo, Untransposed, Transposed
  <2>2. Multiplied("result_transposed")'
    BY <1>1, <1>6 DEF ResultCopied, Multiplied
  <2>3. QED
    BY <1>1, <2>1, <2>2 DEF ResultCopied
<1>11. FilesWhole'
  <2> SUFFICES ASSUME NEW q \in DOMAIN Methods,
                      q < next_method \/ (q = next_method /\ call = "c")
               PROVE  /\ Methods[q].name \in DOMAIN csv'
                      /\ Len(csv'[Methods[q].name]) = RowsAnalysed(Methods[q])
    BY <1>1 DEF FilesWhole, RowsAnalysed
  <2>1. /\ Methods[q].name \in DOMAIN csv
        /\ Len(csv[Methods[q].name]) = RowsAnalysed(Methods[q])
    BY <1>1 DEF FilesWhole
  <2>2. Methods[q].name # call
    BY <1>1, MethodTable
  <2>3. QED
    BY <1>5, <2>1, <2>2
<1>12. QED
  BY <1>1, <1>7, <1>9, <1>10, <1>11
     DEF GeneratorInv, MethodRuns, EveryMethodMultiplies

LEMMA matrix_multiplicationKeeps ==
    ASSUME GeneratorInv, matrix_multiplication
    PROVE  GeneratorInv'
<1>1. /\ call = "method" /\ call' = "method" /\ next_method' = next_method
      /\ method' = method /\ Advance(method.loops) /\ ~LoopsEnded(method.loops)
      /\ GeneratorTypes /\ OperandsReady /\ FilesWhole /\ MethodRuns
      /\ Multiplying
  BY DEF matrix_multiplication, GeneratorInv, method, Multiplying, GeneratorTypes
<1>2. PICK p \in DOMAIN Methods : p = next_method /\ method = Methods[p]
  BY <1>1 DEF Multiplying, method
<1>3. HeapOfMethod
  <2>1. next_method # 0
    BY <1>2, MethodCount
  <2>2. QED
    BY <1>1, <2>1 DEF GeneratorTypes, OperandsReady, HeapOfMethod
<1>4. /\ Progress /\ Len(csv[method.name]) = RowsSoFar(method)
      /\ FileName = method.name /\ FileName' = method.name
  BY <1>1 DEF MethodRuns, FileName
<1>5. /\ HeapOfMethod' /\ LocalKept'
      /\ IF InPlace THEN PartialSums' ELSE WholeSums'
  BY <1>1, <1>3, <1>4, PartialSumsStep, WholeSumsStep
<1>6. Counting(method.loops)'
  <2>1. PICK loops \in Orders : loops = method.loops
    BY <1>2, MethodTable
  <2>2. Counting(loops)'
    BY <1>1, <1>4, <2>1, AdvancePasses DEF Progress
  <2>3. method'.loops = loops
    BY <1>1, <2>1
  <2>4. QED
    BY <2>2, <2>3 DEF Counting, LoopsEnded
<1>7. Progress'
  <2>1. InPlace' = InPlace
    BY <1>1 DEF InPlace
  <2>2. QED
    BY <1>5, <1>6, <2>1 DEF Progress
<1>8. /\ FilesType' /\ DOMAIN csv' = DOMAIN csv
      /\ \A f \in DOMAIN csv : f # method.name => csv'[f] = csv[f]
      /\ Len(csv'[method.name]) = RowsSoFar(method)'
  BY <1>1, <1>3, <1>4, FileGrows DEF GeneratorTypes
<1>9. GeneratorTypes'
  BY <1>1, <1>4, <1>5, <1>8 DEF GeneratorTypes, HeapOfMethod, Copying
<1>10. OperandsReady' /\ MethodRuns'
  BY <1>1, <1>5, <1>7, <1>8 DEF OperandsReady, MethodRuns, HeapOfMethod
<1>11. FilesWhole'
  <2> SUFFICES ASSUME NEW q \in DOMAIN Methods, q < p
               PROVE  /\ Methods[q].name \in DOMAIN csv'
                      /\ Len(csv'[Methods[q].name]) = RowsAnalysed(Methods[q])
    BY <1>1, <1>2 DEF FilesWhole, RowsAnalysed
  <2>1. /\ Methods[q].name \in DOMAIN csv
        /\ Len(csv[Methods[q].name]) = RowsAnalysed(Methods[q])
    BY <1>1, <1>2 DEF FilesWhole
  <2>2. Methods[q].name # method.name
    <3>1. q # p
      BY MethodCount
    <3>2. QED
      BY <1>2, <3>1, MethodNames
  <2>3. QED
    BY <1>8, <2>1, <2>2
<1>12. QED
  BY <1>1, <1>9, <1>10, <1>11
     DEF GeneratorInv, ResultCopied, EveryMethodMultiplies

LEMMA GeneratorKeeps ==
    ASSUME GeneratorInv, [Generate]_generatorVars
    PROVE  GeneratorInv'
<1>1. CASE UNCHANGED generatorVars
  <2>1. /\ heap' = heap /\ csv' = csv /\ next_method' = next_method
        /\ call' = call /\ counter' = counter /\ local' = local
        /\ method' = method
    BY <1>1 DEF generatorVars, method
  <2>2. GeneratorTypes' /\ FilesWhole' /\ EveryMethodMultiplies'
    BY <2>1 DEF GeneratorInv, GeneratorTypes, FilesType, FileName, Copying,
                CopyCounting, LoopsEnded, FilesWhole, RowsAnalysed,
                EveryMethodMultiplies
  <2>3. OperandsReady' /\ ResultCopied'
    BY <2>1 DEF GeneratorInv, OperandsReady, OperandsTransposed, TransposedTo,
                CopiedTo, CopyPassed, ResultCopied, Multiplied
  <2>4. MethodRuns'
    <3>1. PICK m : m = method
      OBVIOUS
    <3>2. RowsSoFar(m)' = RowsSoFar(m) /\ RowsSoFar(method)' = RowsSoFar(m)'
      BY <2>1, <3>1 DEF RowsSoFar, IterationsOf, InnermostOf
    <3>3. Progress => Progress'
      <4>1. /\ Counting(method.loops)' = Counting(method.loops)
            /\ InPlace' = InPlace
        BY <2>1 DEF Counting, LoopsEnded, InPlace
      <4>2. \A i, j : /\ ResultValue(i, j)' = ResultValue(i, j)
                      /\ Sums(i, j)' = Sums(i, j)
        BY <2>1 DEF ResultValue, ResultElement, ElementOf, ValueOf, Sums
      <4>3. \A t : Passed(method.loops, t)' = Passed(method.loops, t)
        BY <2>1 DEF Passed
      <4>4. PartialSums => PartialSums'
        BY <2>1, <4>2, <4>3 DEF PartialSums, Iterating
      <4>5. WholeSums => WholeSums'
        BY <2>1, <4>2, <4>3 DEF WholeSums, Iterating
      <4>6. Kept' = Kept
        BY <2>1 DEF Kept, Sums, Factor_a, Factor_b
      <4>7. LocalKept => LocalKept'
        BY <2>1, <4>6 DEF LocalKept
      <4>8. QED
        BY <4>1, <4>4, <4>5, <4>7 DEF Progress
    <3>4. QED
      BY <2>1, <3>1, <3>2, <3>3 DEF GeneratorInv, MethodRuns
  <2>5. QED
    BY <2>2, <2>3, <2>4 DEF GeneratorInv
<1>2. CASE Generate
  BY <1>2, TransposeOperandsKeeps, RunMethodKeeps, TransposeResultKeeps,
     NextMethodKeeps, transpose_matrixKeeps, matrix_multiplicationKeeps
     DEF Generate
<1>3. QED
  BY <1>1, <1>2

(* In every state of the generator, for matrices of every size.             *)
THEOREM GeneratorInvariant == GeneratorSpec => []GeneratorInv
<1>1. GeneratorInit => GeneratorInv
  BY GeneratorBegins
<1>2. GeneratorInv /\ [Generate]_generatorVars => GeneratorInv'
  BY GeneratorKeeps
<1>3. QED
  BY <1>1, <1>2, PTL DEF GeneratorSpec

LEMMA FilesAreAnalysed ==
    ASSUME FilesWhole
    PROVE  AccessesAsAnalysed
  BY DEF FilesWhole, RowsAnalysed, AccessesAsAnalysed

(* Every method leaves A * B in result, for every size and all operands,    *)
(* whatever the order of its loops and what the method before it left in    *)
(* the arrays.                                                              *)
THEOREM MethodsMultiply == GeneratorSpec => []EveryMethodMultiplies
<1>1. GeneratorInv => EveryMethodMultiplies
  BY DEF GeneratorInv
<1>2. QED
  BY <1>1, GeneratorInvariant, PTL

(* The file of every method has as many rows as the analysis in             *)
(* MatrixMultiplication.md gives, as a polynomial in n.                     *)
THEOREM FilesAsAnalysed == GeneratorSpec => []AccessesAsAnalysed
<1>1. GeneratorInv => AccessesAsAnalysed
  BY FilesAreAnalysed DEF GeneratorInv
<1>2. QED
  BY <1>1, GeneratorInvariant, PTL

-----------------------------------------------------------------------------
(* What the rows of a file leave in a memory of zeros: the last write to an *)
(* address decides.                                                         *)

Writes(row, a) == row.we /\ row.addr = a
Untouched(rows, a) == \A k \in DOMAIN rows : ~Writes(rows[k], a)
LastStores(rows, a, v) ==
    \E k \in DOMAIN rows :
        /\ Writes(rows[k], a) /\ rows[k].data = v
        /\ \A l \in DOMAIN rows : l > k => ~Writes(rows[l], a)
Leaves(rows, a, v) == (v = 0 /\ Untouched(rows, a)) \/ LastStores(rows, a, v)

LEMMA LeavesJoined ==
    ASSUME NEW S, NEW s \in Seq(S), NEW t \in Seq(S), NEW a, NEW v
    PROVE  /\ Untouched(s, a) /\ Untouched(t, a) => Untouched(s \o t, a)
           /\ LastStores(t, a, v) => LastStores(s \o t, a, v)
           /\ Leaves(s, a, v) /\ Untouched(t, a) => Leaves(s \o t, a, v)
<1>1. PICK m \in Nat, n \in Nat : m = Len(s) /\ n = Len(t)
  BY LenProperties
<1>2. PICK r \in Seq(S) : r = s \o t
  BY ConcatProperties
<1>3. DOMAIN s = 1 .. m /\ DOMAIN t = 1 .. n /\ DOMAIN r = 1 .. m + n
  BY <1>1, <1>2, ConcatProperties, LenProperties
<1>4. \A k \in 1 .. m + n : r[k] = IF k <= m THEN s[k] ELSE t[k - m]
  BY <1>1, <1>2, ConcatProperties
<1>5. \A k \in 1 .. m : k \in 1 .. m + n /\ k <= m /\ r[k] = s[k]
  BY <1>4
<1>6. \A k \in 1 .. n : /\ m + k \in 1 .. m + n /\ ~(m + k <= m)
                        /\ m + k - m = k /\ r[m + k] = t[k]
  BY <1>4
<1>7. \A k \in 1 .. m + n : k \in 1 .. m \/ k - m \in 1 .. n
  OBVIOUS
<1>8. ASSUME Untouched(s, a), Untouched(t, a) PROVE Untouched(r, a)
  <2> SUFFICES ASSUME NEW k \in 1 .. m + n PROVE ~Writes(r[k], a)
    BY <1>3 DEF Untouched
  <2>1. CASE k \in 1 .. m
    BY <1>3, <1>5, <1>8, <2>1 DEF Untouched
  <2>2. CASE k - m \in 1 .. n
    <3>1. m + (k - m) = k
      OBVIOUS
    <3>2. r[k] = t[k - m]
      BY <1>6, <2>2, <3>1
    <3>3. QED
      BY <1>3, <1>8, <2>2, <3>2 DEF Untouched
  <2>3. QED
    BY <1>7, <2>1, <2>2
<1>9. ASSUME LastStores(t, a, v) PROVE LastStores(r, a, v)
  <2>1. PICK k \in 1 .. n :
           /\ Writes(t[k], a) /\ t[k].data = v
           /\ \A l \in 1 .. n : l > k => ~Writes(t[l], a)
    BY <1>3, <1>9 DEF LastStores
  <2>2. m + k \in 1 .. m + n /\ r[m + k] = t[k]
    BY <1>6
  <2>3. ASSUME NEW l \in 1 .. m + n, l > m + k PROVE ~Writes(r[l], a)
    <3>1. l - m \in 1 .. n /\ l - m > k /\ ~(l <= m)
      BY <2>3
    <3>2. r[l] = t[l - m]
      BY <1>4, <3>1
    <3>3. QED
      BY <2>1, <3>1, <3>2
  <2>4. QED
    BY <1>3, <2>1, <2>2, <2>3 DEF LastStores
<1>10. ASSUME LastStores(s, a, v), Untouched(t, a) PROVE LastStores(r, a, v)
  <2>1. PICK k \in 1 .. m :
           /\ Writes(s[k], a) /\ s[k].data = v
           /\ \A l \in 1 .. m : l > k => ~Writes(s[l], a)
    BY <1>3, <1>10 DEF LastStores
  <2>2. k \in 1 .. m + n /\ r[k] = s[k]
    BY <1>5
  <2>3. ASSUME NEW l \in 1 .. m + n, l > k PROVE ~Writes(r[l], a)
    <3>1. CASE l <= m
      <4>1. l \in 1 .. m /\ r[l] = s[l]
        BY <1>4, <3>1
      <4>2. QED
        BY <2>1, <2>3, <4>1
    <3>2. CASE ~(l <= m)
      <4>1. l - m \in 1 .. n /\ r[l] = t[l - m]
        BY <1>4, <3>2
      <4>2. QED
        BY <1>3, <1>10, <4>1 DEF Untouched
    <3>3. QED
      BY <3>1, <3>2
  <2>4. QED
    BY <1>3, <2>1, <2>2, <2>3 DEF LastStores
<1>11. QED
  BY <1>2, <1>8, <1>9, <1>10 DEF Leaves

(* The arrays do not overlap.                                               *)
LEMMA AddressApart ==
    ASSUME NEW x \in ArrayName, NEW e \in 0 .. Area - 1,
           NEW y \in ArrayName, NEW f \in 0 .. Area - 1,
           AddressOf(x, e) = AddressOf(y, f)
    PROVE  x = y /\ e = f
<1> DEFINE Place(z) == CHOOSE p \in DOMAIN Arrays : Arrays[p] = z
<1>1. \A z \in ArrayName : Place(z) \in 1 .. 6 /\ Arrays[Place(z)] = z
  <2>1. DOMAIN Arrays = 1 .. 6
    BY DEF Arrays
  <2>2. \A z \in ArrayName : \E p \in DOMAIN Arrays : Arrays[p] = z
    BY DEF ArrayName
  <2>3. QED
    BY <2>1, <2>2
<1>2. PICK p \in 1 .. 6, q \in 1 .. 6 :
         /\ p = Place(x) /\ q = Place(y) /\ Arrays[p] = x /\ Arrays[q] = y
  BY <1>1
<1>3. PICK A \in Nat : A = Area
  BY AreaNat
<1>4. e + A * (p - 1) = f + A * (q - 1)
  BY <1>2, <1>3 DEF AddressOf
<1>5. e \in Nat /\ f \in Nat /\ e < A /\ f < A
  BY <1>3
<1>6. ASSUME NEW r \in 1 .. 6, NEW s \in 1 .. 6, r < s
      PROVE  A * (s - 1) >= A * (r - 1) + A /\ A * (s - 1) \in Nat /\ A * (r - 1) \in Nat
  <2>1. PICK d \in Nat : s - 1 = r - 1 + 1 + d
    <3>1. s - 1 - r \in Nat /\ s - 1 = r - 1 + 1 + (s - 1 - r)
      BY <1>6
    <3>2. QED
      BY <3>1
  <2>2. PICK u \in Nat, w \in Nat : u = s - 1 /\ w = r - 1
    OBVIOUS
  <2>3. u = w + 1 + d
    BY <2>1, <2>2
  <2>4. A * u = A * w + A + A * d /\ A * d \in Nat /\ A * w \in Nat /\ A * u \in Nat
    BY <2>3
  <2>5. QED
    BY <2>2, <2>4
<1>7. ~(p < q)
  <2>1. SUFFICES ASSUME p < q PROVE FALSE
    OBVIOUS
  <2>2. A * (q - 1) >= A * (p - 1) + A /\ A * (q - 1) \in Nat /\ A * (p - 1) \in Nat
    BY <1>6, <2>1
  <2>3. QED
    BY <1>4, <1>5, <2>2
<1>8. ~(q < p)
  <2>1. SUFFICES ASSUME q < p PROVE FALSE
    OBVIOUS
  <2>2. A * (p - 1) >= A * (q - 1) + A /\ A * (q - 1) \in Nat /\ A * (p - 1) \in Nat
    BY <1>6, <2>1
  <2>3. QED
    BY <1>4, <1>5, <2>2
<1>9. p = q
  BY <1>7, <1>8
<1>10. PICK c \in Nat : c = A * (p - 1)
  <2>1. p - 1 \in Nat
    OBVIOUS
  <2>2. QED
    BY <2>1
<1>11. e = f
  BY <1>4, <1>5, <1>9, <1>10
<1>12. QED
  BY <1>2, <1>9, <1>11

LEMMA StoreLeaves ==
    ASSUME NEW rows \in Seq(AccessRow),
           NEW e \in [array : ArrayName, index : 0 .. Area - 1],
           NEW v, StoresLast(rows, e, v)
    PROVE  /\ LastStores(rows, AddressOf(e.array, e.index), v)
           /\ \A x \in ArrayName, l \in 0 .. Area - 1 :
                 ~(x = e.array /\ l = e.index) => Untouched(rows, AddressOf(x, l))
<1>1. PICK k \in DOMAIN rows :
         /\ rows[k] = StoreRow(e, v)
         /\ \A l \in DOMAIN rows : l # k => ~rows[l].we /\ l < k
  BY DEF StoresLast
<1>2. PICK n \in Nat : DOMAIN rows = 1 .. n
  BY LenProperties
<1>3. /\ rows[k].we /\ rows[k].addr = AddressOf(e.array, e.index)
      /\ rows[k].data = v
  BY <1>1 DEF StoreRow
<1>4. \A l \in DOMAIN rows : l > k => ~Writes(rows[l], AddressOf(e.array, e.index))
  BY <1>1, <1>2 DEF Writes
<1>5. LastStores(rows, AddressOf(e.array, e.index), v)
  BY <1>3, <1>4 DEF LastStores, Writes
<1>6. ASSUME NEW x \in ArrayName, NEW l \in 0 .. Area - 1,
             ~(x = e.array /\ l = e.index)
      PROVE  Untouched(rows, AddressOf(x, l))
  <2>1. e.array \in ArrayName /\ e.index \in 0 .. Area - 1
    OBVIOUS
  <2>2. AddressOf(x, l) # AddressOf(e.array, e.index)
    BY <1>6, <2>1, AddressApart
  <2>3. QED
    BY <1>1, <1>3, <2>2 DEF Untouched, Writes
<1>7. QED
  BY <1>5, <1>6

LEMMA LoadsLeave ==
    ASSUME NEW rows, OnlyLoads(rows), NEW a
    PROVE  Untouched(rows, a)
  BY DEF OnlyLoads, Untouched, Writes

-----------------------------------------------------------------------------
(* What the files of the generator leave in a memory of zeros.              *)

FileLeaves(f, x) ==
    \A l \in 0 .. Area - 1 : Leaves(csv[f], AddressOf(x, l), heap[x][l])
FileSpares(f, x) ==
    \A l \in 0 .. Area - 1 : Untouched(csv[f], AddressOf(x, l))
FileProduct(f) ==
    \A i, j \in Position :
        Leaves(csv[f], AddressOf("result", At(i, j)),
               Product(heap["a"], heap["b"], i, j))

(* A method that is passed the transposed result does not touch the other   *)
(* one, which the copy fills later; a file that has ended leaves the        *)
(* product, or the one of the copy does.                                    *)
FilesLeave ==
    /\ \A f \in {"a", "b"} :
          /\ next_method # 0 \/ (call = "b" /\ f = "a") => f \in DOMAIN csv
          /\ f \in DOMAIN csv => FileSpares(f, "result")
    /\ call = "method" =>
          IF ResultArray(method) = "result"
          THEN FileLeaves(method.name, "result")
          ELSE /\ FileSpares(method.name, "result")
               /\ \A l \in 0 .. Area - 1 : heap["result"][l] = 0
    /\ call = "c" => FileLeaves("c", "result")
    /\ call # "c" /\ "c" \in DOMAIN csv => FileProduct("c")
    /\ \A p \in DOMAIN Methods :
          p < next_method \/ (p = next_method /\ call = "c") =>
              IF ResultArray(Methods[p]) = "result"
              THEN FileProduct(Methods[p].name)
              ELSE "c" \in DOMAIN csv /\ FileSpares(Methods[p].name, "result")

(* What an iteration of a method writes to its file.                        *)
LEMMA IterationRows ==
    ASSUME Multiplying, HeapOfMethod, Progress, matrix_multiplication
    PROVE  \E rows \in Seq(AccessRow),
              e \in [array : ArrayName, index : 0 .. Area - 1] :
              /\ WriteRows(rows) /\ e.array = ResultArray(method)
              /\ \/ OnlyLoads(rows) /\ heap' = heap
                 \/ \E v \in Cell : StoresLast(rows, e, v) /\ StoreValue(e, v)
<1> DEFINE i == counter["i"]
           j == counter["j"]
           k == counter["k"]
           e == ResultElement(method, i, j)
<1>1. ~LoopsEnded(method.loops) /\ method \in {Methods[p] : p \in DOMAIN Methods}
  BY DEF matrix_multiplication, Multiplying, method
<1>2. i \in Position /\ j \in Position
  BY <1>1, IterationValues
<1>3. /\ e \in [array : ArrayName, index : 0 .. Area - 1]
      /\ e.array = ResultArray(method)
  BY <1>1, <1>2, Elements DEF ResultElement
<1>4. CASE InPlace
  <2> DEFINE sum == ResultValue(i, j) + Factor_a(i, k) * Factor_b(k, j)
  <2>1. /\ sum \in Nat /\ StoreValue(e, sum)
        /\ \E rows \in Seq(AccessRow) : WriteRows(rows) /\ StoresLast(rows, e, sum)
    BY <1>4, BodyInPlace
  <2> HIDE DEF sum, e
  <2>2. sum \in Cell
    BY <2>1 DEF Cell
  <2>3. QED
    BY <1>3, <2>1, <2>2
<1>5. CASE ~InPlace
  <2>1. PICK rows \in Seq(AccessRow) :
           /\ WriteRows(rows)
           /\ IF k = MatrixSize - 1 THEN StoresLast(rows, e, local')
                                    ELSE OnlyLoads(rows)
    BY <1>5, BodyOfSum
  <2>2. /\ local' \in Cell
        /\ IF k = MatrixSize - 1 THEN StoreValue(e, local') ELSE heap' = heap
    BY <1>5, BodyOfSum DEF Cell
  <2> HIDE DEF e
  <2>3. CASE k = MatrixSize - 1
    BY <1>3, <2>1, <2>2, <2>3
  <2>4. CASE k # MatrixSize - 1
    BY <1>3, <2>1, <2>2, <2>4
  <2>5. QED
    BY <2>3, <2>4
<1>6. QED
  BY <1>4, <1>5

(* And one of a transposition.                                              *)
LEMMA CopyRows ==
    ASSUME heap \in HeapType, CopyCounting, transpose_matrix
    PROVE  \E rows \in Seq(AccessRow),
              e \in [array : ArrayName, index : 0 .. Area - 1] :
              /\ WriteRows(rows) /\ e.array = Transposed
              /\ \E v \in Cell : StoresLast(rows, e, v) /\ StoreValue(e, v)
<1> DEFINE from == [array |-> Untransposed, index |-> At(counter["i"], counter["j"])]
           to == [array |-> Transposed, index |-> At(counter["j"], counter["i"])]
           v == ValueOf(from)
           x == LoadRow(from)
           s == StoreRow(to, v)
<1>1. /\ call \in {"a", "b", "c"} /\ Advance(<<"i", "j">>)
      /\ ~LoopsEnded(<<"i", "j">>)
      /\ WriteRows(<<x, s>>) /\ StoreValue(to, v)
  BY DEF transpose_matrix, TransposeElement
<1>2. counter["i"] \in Position /\ counter["j"] \in Position
  BY <1>1, AdvanceTwo DEF CopyCounting
<1>3. Untransposed \in ArrayName /\ Transposed \in ArrayName
  BY <1>1, ArrayNames DEF Untransposed, Transposed
<1>4. /\ from \in [array : ArrayName, index : 0 .. Area - 1]
      /\ to \in [array : ArrayName, index : 0 .. Area - 1]
  BY <1>2, <1>3, AtRange
<1>5. v \in Cell
  BY <1>2, <1>3, AtRange DEF ValueOf, HeapType
<1>6. to.array = Transposed
  OBVIOUS
<1> HIDE DEF from, to, v
<1>7. x \in AccessRow /\ s \in AccessRow /\ s = StoreRow(to, v) /\ ~x.we
  BY <1>4, <1>5, AccessRows DEF LoadRow
<1> HIDE DEF x, s
<1>8. StoresLast(<<x, s>>, to, v)
  BY <1>7, RowsOfIteration
<1>9. <<x, s>> \in Seq(AccessRow)
  BY <1>7
<1>10. QED
  BY <1>1, <1>4, <1>5, <1>6, <1>8, <1>9

(* What such rows leave is what the heap holds, if it was so before.        *)
LEMMA RowsLeave ==
    ASSUME heap \in HeapType, FilesType, FileName \in DOMAIN csv,
           FileName' = FileName, NEW rows \in Seq(AccessRow),
           NEW e \in [array : ArrayName, index : 0 .. Area - 1],
           WriteRows(rows),
           \/ OnlyLoads(rows) /\ heap' = heap
           \/ \E v \in Cell : StoresLast(rows, e, v) /\ StoreValue(e, v)
    PROVE  /\ FilesType' /\ DOMAIN csv' = DOMAIN csv
           /\ \A f \in DOMAIN csv : f # FileName => csv'[f] = csv[f]
           /\ \A x \in ArrayName : x # e.array => heap'[x] = heap[x]
           /\ \A x \in ArrayName :
                 /\ FileLeaves(FileName, x) => FileLeaves(FileName, x)'
                 /\ x # e.array /\ FileSpares(FileName, x)
                      => FileSpares(FileName, x)'
<1>1. /\ FilesType' /\ DOMAIN csv' = DOMAIN csv
      /\ \A f \in DOMAIN csv : f # FileName => csv'[f] = csv[f]
  BY RowsWritten
<1>2. PICK s \in Seq(AccessRow) : s = csv[FileName] /\ csv'[FileName] = s \o rows
  BY DEF WriteRows, FilesType
<1>3. e.array \in ArrayName /\ e.index \in 0 .. Area - 1
  OBVIOUS
<1>4. CASE OnlyLoads(rows) /\ heap' = heap
  <2>1. \A a, v : Leaves(s, a, v) => Leaves(s \o rows, a, v)
    BY <1>4, LoadsLeave, LeavesJoined
  <2>2. \A a : Untouched(s, a) => Untouched(s \o rows, a)
    BY <1>4, LoadsLeave, LeavesJoined
  <2>3. QED
    BY <1>1, <1>2, <1>4, <2>1, <2>2 DEF FileLeaves, FileSpares
<1>5. CASE \E v \in Cell : StoresLast(rows, e, v) /\ StoreValue(e, v)
  <2>1. PICK v \in Cell : StoresLast(rows, e, v) /\ StoreValue(e, v)
    BY <1>5
  <2>2. /\ \A x \in ArrayName : x # e.array => heap'[x] = heap[x]
        /\ \A x \in ArrayName, l \in 0 .. Area - 1 :
              heap'[x][l] = IF x = e.array /\ l = e.index THEN v ELSE heap[x][l]
    BY <2>1, StoreChanges
  <2>3. /\ LastStores(rows, AddressOf(e.array, e.index), v)
        /\ \A x \in ArrayName, l \in 0 .. Area - 1 :
              ~(x = e.array /\ l = e.index) => Untouched(rows, AddressOf(x, l))
    BY <2>1, StoreLeaves
  <2>4. ASSUME NEW x \in ArrayName, NEW l \in 0 .. Area - 1,
               Leaves(s, AddressOf(x, l), heap[x][l])
        PROVE  Leaves(s \o rows, AddressOf(x, l), heap'[x][l])
    <3>1. CASE x = e.array /\ l = e.index
      <4>1. heap'[x][l] = v
        BY <2>2, <3>1
      <4>2. LastStores(s \o rows, AddressOf(x, l), v)
        BY <2>3, <3>1, LeavesJoined
      <4>3. QED
        BY <4>1, <4>2 DEF Leaves
    <3>2. CASE ~(x = e.array /\ l = e.index)
      <4>1. heap'[x][l] = heap[x][l] /\ Untouched(rows, AddressOf(x, l))
        BY <2>2, <2>3, <3>2
      <4>2. QED
        BY <2>4, <4>1, LeavesJoined
    <3>3. QED
      BY <3>1, <3>2
  <2>5. ASSUME NEW x \in ArrayName, x # e.array, NEW l \in 0 .. Area - 1,
               Untouched(s, AddressOf(x, l))
        PROVE  Untouched(s \o rows, AddressOf(x, l))
    <3>1. Untouched(rows, AddressOf(x, l))
      BY <2>3, <2>5
    <3>2. QED
      BY <2>5, <3>1, LeavesJoined
  <2>6. QED
    BY <1>1, <1>2, <2>2, <2>4, <2>5 DEF FileLeaves, FileSpares
<1>6. QED
  BY <1>4, <1>5

LEMMA EmptyFile ==
    ASSUME NEW a
    PROVE  Untouched(<<>>, a) /\ Leaves(<<>>, a, 0)
<1>1. DOMAIN <<>> = {}
  OBVIOUS
<1>2. QED
  BY <1>1 DEF Untouched, Leaves

LEMMA FileUnchanged ==
    ASSUME NEW f, csv'[f] = csv[f],
           heap'["a"] = heap["a"], heap'["b"] = heap["b"]
    PROVE  /\ FileProduct(f) => FileProduct(f)'
           /\ \A x : FileSpares(f, x) => FileSpares(f, x)'
  BY DEF FileProduct, FileSpares

LEMMA TransposeOperandsLeaves ==
    ASSUME GeneratorInv, FilesLeave, TransposeOperands
    PROVE  FilesLeave'
<1>1. /\ heap' = heap /\ next_method' = 0 /\ next_method = 0 /\ GeneratorTypes
      /\ \/ call = "none" /\ Enter("a", "a")
         \/ call = "b" /\ FALSE
         \/ call = "a" /\ Enter("b", "b")
  BY DEF TransposeOperands, GeneratorInv, GeneratorTypes
<1>2. PICK function \in {"a", "b"} :
         /\ Enter(function, function) /\ call # "c"
         /\ function = "b" => call = "a"
  BY <1>1
<1>3. /\ DOMAIN csv' = DOMAIN csv \cup {function} /\ csv'[function] = <<>>
      /\ \A f \in DOMAIN csv : f # function => csv'[f] = csv[f]
      /\ call' = function
  BY <1>1, <1>2, Entered DEF GeneratorTypes
<1>4. FileSpares(function, "result")'
  BY <1>3, EmptyFile DEF FileSpares
<1>5. \A f \in DOMAIN csv : f # function =>
         /\ FileProduct(f) => FileProduct(f)'
         /\ FileSpares(f, "result") => FileSpares(f, "result")'
  BY <1>1, <1>3, FileUnchanged
<1>6. \A p \in DOMAIN Methods : ~(p < next_method') /\ p # next_method'
  BY <1>1, MethodCount
<1>7. call = "a" => "a" \in DOMAIN csv
  BY <1>1 DEF GeneratorTypes, FileName
<1>8. ASSUME NEW f \in {"a", "b"}
      PROVE  /\ next_method' # 0 \/ (call' = "b" /\ f = "a") => f \in DOMAIN csv'
             /\ f \in DOMAIN csv' => FileSpares(f, "result")'
  BY <1>1, <1>2, <1>3, <1>4, <1>5, <1>7 DEF FilesLeave
<1>9. "c" \in DOMAIN csv' => FileProduct("c")'
  BY <1>2, <1>3, <1>5 DEF FilesLeave
<1>10. QED
  BY <1>3, <1>6, <1>8, <1>9 DEF FilesLeave

LEMMA RunMethodLeaves ==
    ASSUME GeneratorInv, FilesLeave, RunMethod
    PROVE  FilesLeave'
<1>1. PICK p \in DOMAIN Methods : p = next_method
  BY DEF RunMethod
<1>2. PICK m : m = Methods[p] /\ m.name \notin {"a", "b", "c"}
  BY MethodTable
<1>3. /\ call = "none" /\ Enter("method", m.name)
      /\ heap' = reset_matrix(reset_matrix(heap, "result"), "result_transposed")
      /\ next_method' = p /\ method' = m /\ FilesType /\ heap \in HeapType
  BY <1>1, <1>2 DEF RunMethod, method, GeneratorInv, GeneratorTypes
<1>4. p \in 1 .. 17
  BY MethodCount
<1>5. /\ DOMAIN csv' = DOMAIN csv \cup {m.name} /\ csv'[m.name] = <<>>
      /\ \A f \in DOMAIN csv : f # m.name => csv'[f] = csv[f]
      /\ call' = "method"
  BY <1>3, Entered
<1>6. /\ heap'["a"] = heap["a"] /\ heap'["b"] = heap["b"]
      /\ \A l \in 0 .. Area - 1 : heap'["result"][l] = 0
  <2>1. DOMAIN heap = ArrayName
    BY <1>3 DEF HeapType
  <2>2. QED
    BY <1>3, <2>1, ArrayNames DEF reset_matrix
<1>7. \A f \in DOMAIN csv : f # m.name =>
         /\ FileProduct(f) => FileProduct(f)'
         /\ FileSpares(f, "result") => FileSpares(f, "result")'
  BY <1>5, <1>6, FileUnchanged
<1>8. FileLeaves(m.name, "result")' /\ FileSpares(m.name, "result")'
  BY <1>5, <1>6, EmptyFile DEF FileLeaves, FileSpares
<1>9. ASSUME NEW f \in {"a", "b"}
      PROVE  f \in DOMAIN csv' /\ FileSpares(f, "result")'
  BY <1>1, <1>2, <1>4, <1>5, <1>7 DEF FilesLeave
<1>10. "c" \in DOMAIN csv' => "c" \in DOMAIN csv /\ FileProduct("c")'
  BY <1>2, <1>3, <1>5, <1>7 DEF FilesLeave
<1>11. ASSUME NEW q \in DOMAIN Methods, q < p
       PROVE  IF ResultArray(Methods[q]) = "result"
              THEN FileProduct(Methods[q].name)'
              ELSE "c" \in DOMAIN csv' /\ FileSpares(Methods[q].name, "result")'
  <2>1. Methods[q].name \in DOMAIN csv
    BY <1>1, <1>11 DEF GeneratorInv, FilesWhole
  <2>2. Methods[q].name # m.name
    <3>1. q # p
      BY <1>4, <1>11, MethodCount
    <3>2. QED
      BY <1>2, <3>1, MethodNames
  <2>3. IF ResultArray(Methods[q]) = "result"
        THEN FileProduct(Methods[q].name)
        ELSE "c" \in DOMAIN csv /\ FileSpares(Methods[q].name, "result")
    BY <1>1, <1>11 DEF FilesLeave
  <2>4. QED
    BY <1>5, <1>7, <2>1, <2>2, <2>3
<1>12. QED
  BY <1>3, <1>5, <1>6, <1>8, <1>9, <1>10, <1>11 DEF FilesLeave

LEMMA TransposeResultLeaves ==
    ASSUME GeneratorInv, FilesLeave, TransposeResult
    PROVE  FilesLeave'
<1>1. /\ heap' = heap /\ next_method' = next_method /\ call = "method"
      /\ "result" \in PassedTransposed(method)
      /\ Enter("c", "c") /\ FilesType /\ FileName \in DOMAIN csv
      /\ FileName = method.name /\ next_method \in DOMAIN Methods
  BY DEF TransposeResult, GeneratorInv, GeneratorTypes, FileName
<1>2. PICK p \in DOMAIN Methods : p = next_method /\ method = Methods[p]
  BY <1>1 DEF method
<1>3. /\ DOMAIN csv' = DOMAIN csv \cup {"c"} /\ csv'["c"] = <<>>
      /\ \A f \in DOMAIN csv : f # "c" => csv'[f] = csv[f]
      /\ call' = "c"
  BY <1>1, Entered
<1>4. \A f \in DOMAIN csv : f # "c" =>
         /\ FileProduct(f) => FileProduct(f)'
         /\ FileSpares(f, "result") => FileSpares(f, "result")'
  BY <1>1, <1>3, FileUnchanged
<1>5. ResultArray(method) = "result_transposed"
  BY <1>1 DEF ResultArray
<1>6. /\ FileSpares(method.name, "result")
      /\ \A l \in 0 .. Area - 1 : heap["result"][l] = 0
  BY <1>1, <1>5 DEF FilesLeave
<1>7. FileLeaves("c", "result")'
  BY <1>1, <1>3, <1>6, EmptyFile DEF FileLeaves
<1>8. ASSUME NEW f \in {"a", "b"}
      PROVE  /\ next_method' # 0 \/ (call' = "b" /\ f = "a") => f \in DOMAIN csv'
             /\ f \in DOMAIN csv' => FileSpares(f, "result")'
  BY <1>1, <1>3, <1>4 DEF FilesLeave
<1>9. ASSUME NEW q \in DOMAIN Methods,
             q < next_method' \/ (q = next_method' /\ call' = "c")
      PROVE  IF ResultArray(Methods[q]) = "result"
             THEN FileProduct(Methods[q].name)'
             ELSE "c" \in DOMAIN csv' /\ FileSpares(Methods[q].name, "result")'
  <2>1. Methods[q].name # "c"
    BY MethodTable
  <2>2. CASE q < p
    <3>1. Methods[q].name \in DOMAIN csv
      BY <1>2, <2>2 DEF GeneratorInv, FilesWhole
    <3>2. IF ResultArray(Methods[q]) = "result"
          THEN FileProduct(Methods[q].name)
          ELSE "c" \in DOMAIN csv /\ FileSpares(Methods[q].name, "result")
      BY <1>2, <2>2 DEF FilesLeave
    <3>3. QED
      BY <1>3, <1>4, <2>1, <3>1, <3>2
  <2>3. CASE q = p
    <3>1. Methods[q] = method /\ method.name \in DOMAIN csv
      BY <1>1, <1>2, <2>3
    <3>2. QED
      BY <1>3, <1>4, <1>5, <1>6, <2>1, <3>1
  <2>4. QED
    BY <1>1, <1>2, <1>9, <2>2, <2>3
<1>10. QED
  BY <1>3, <1>7, <1>8, <1>9 DEF FilesLeave

LEMMA NextMethodLeaves ==
    ASSUME GeneratorInv, GeneratorInv', FilesLeave, NextMethod
    PROVE  FilesLeave'
<1>1. /\ heap' = heap /\ csv' = csv /\ next_method' = next_method + 1
      /\ call' = "none" /\ GeneratorTypes
  BY DEF NextMethod, GeneratorInv
<1>2. \/ call = "b" /\ next_method = 0
      \/ call = "c" /\ next_method \in DOMAIN Methods
      \/ /\ call = "method" /\ next_method \in DOMAIN Methods
         /\ "result" \notin PassedTransposed(method)
  BY DEF NextMethod, GeneratorInv, GeneratorTypes
<1>3. next_method \in 0 .. 17 /\ next_method' \in 1 .. 18
  BY <1>1, <1>2, MethodCount
<1>4. \A f, x : /\ FileProduct(f)' <=> FileProduct(f)
                /\ FileSpares(f, x)' <=> FileSpares(f, x)
  BY <1>1 DEF FileProduct, FileSpares
<1>5. call # "b" => EveryMethodMultiplies' /\ next_method' > 1
  BY <1>1, <1>2, <1>3, MethodCount DEF GeneratorInv
<1>6. ASSUME NEW f, call # "b", FileLeaves(f, "result") PROVE FileProduct(f)
  <2>1. ASSUME NEW i \in Position, NEW j \in Position
        PROVE  Leaves(csv[f], AddressOf("result", At(i, j)),
                      Product(heap["a"], heap["b"], i, j))
    <3>1. heap["result"][At(i, j)] = Product(heap["a"], heap["b"], i, j)
      BY <1>1, <1>5, <1>6 DEF EveryMethodMultiplies
    <3>2. At(i, j) \in 0 .. Area - 1
      BY AtRange
    <3>3. QED
      BY <1>6, <3>1, <3>2 DEF FileLeaves
  <2>2. QED
    BY <2>1 DEF FileProduct
<1>7. ASSUME NEW f \in {"a", "b"}
      PROVE  f \in DOMAIN csv /\ FileSpares(f, "result")
  <2>1. call = "b" => "b" \in DOMAIN csv
    BY <1>1 DEF GeneratorTypes, FileName
  <2>2. next_method # 0 \/ call = "b"
    BY <1>2, <1>3, MethodCount
  <2>3. QED
    BY <2>1, <2>2 DEF FilesLeave
<1>8. "c" \in DOMAIN csv => FileProduct("c")
  BY <1>6 DEF FilesLeave
<1>9. ASSUME NEW p \in DOMAIN Methods, p < next_method'
      PROVE  IF ResultArray(Methods[p]) = "result"
             THEN FileProduct(Methods[p].name)
             ELSE "c" \in DOMAIN csv /\ FileSpares(Methods[p].name, "result")
  <2>1. p < next_method \/ p = next_method
    BY <1>1, <1>3, <1>9, MethodCount
  <2>2. CASE p < next_method
    BY <2>2 DEF FilesLeave
  <2>3. CASE p = next_method /\ call = "c"
    BY <2>3 DEF FilesLeave
  <2>4. CASE p = next_method /\ call # "c"
    <3>1. /\ call = "method" /\ "result" \notin PassedTransposed(method)
          /\ method = Methods[p]
      BY <1>2, <2>4, MethodCount DEF method
    <3>2. ResultArray(method) = "result"
      BY <3>1 DEF ResultArray
    <3>3. FileLeaves(method.name, "result")
      BY <3>1, <3>2 DEF FilesLeave
    <3>4. QED
      BY <1>6, <3>1, <3>2, <3>3
  <2>5. QED
    BY <2>1, <2>2, <2>3, <2>4
<1>10. QED
  BY <1>1, <1>4, <1>7, <1>8, <1>9 DEF FilesLeave

LEMMA transpose_matrixLeaves ==
    ASSUME GeneratorInv, FilesLeave, transpose_matrix
    PROVE  FilesLeave'
<1>1. /\ call \in {"a", "b", "c"} /\ call' = call /\ next_method' = next_method
      /\ FileName = call /\ FileName' = call
      /\ heap \in HeapType /\ FilesType /\ FileName \in DOMAIN csv
      /\ CopyCounting /\ GeneratorTypes
  BY DEF transpose_matrix, GeneratorInv, GeneratorTypes, FileName, Copying
<1>2. PICK rows \in Seq(AccessRow),
           e \in [array : ArrayName, index : 0 .. Area - 1] :
         /\ WriteRows(rows) /\ e.array = Transposed
         /\ \E v \in Cell : StoresLast(rows, e, v) /\ StoreValue(e, v)
  BY <1>1, CopyRows
<1>3. /\ DOMAIN csv' = DOMAIN csv
      /\ \A f \in DOMAIN csv : f # call => csv'[f] = csv[f]
      /\ \A x \in ArrayName : x # e.array => heap'[x] = heap[x]
      /\ \A x \in ArrayName :
            /\ FileLeaves(FileName, x) => FileLeaves(FileName, x)'
            /\ x # e.array /\ FileSpares(FileName, x) => FileSpares(FileName, x)'
  BY <1>1, <1>2, RowsLeave
<1>4. /\ e.array # "a" /\ e.array # "b" /\ (call # "c" => e.array # "result")
      /\ "a" \in ArrayName /\ "b" \in ArrayName /\ "result" \in ArrayName
  BY <1>1, <1>2, ArrayNames DEF Transposed
<1>5. heap'["a"] = heap["a"] /\ heap'["b"] = heap["b"]
  BY <1>3, <1>4
<1>6. \A f \in DOMAIN csv : f # call =>
         /\ FileProduct(f) => FileProduct(f)'
         /\ FileSpares(f, "result") => FileSpares(f, "result")'
  BY <1>3, <1>5, FileUnchanged
<1>7. /\ FileLeaves(call, "result") => FileLeaves(call, "result")'
      /\ call # "c" /\ FileSpares(call, "result") => FileSpares(call, "result")'
  <2>1. /\ FileLeaves(FileName, "result") => FileLeaves(FileName, "result")'
        /\ call # "c" /\ FileSpares(FileName, "result")
             => FileSpares(FileName, "result")'
    BY <1>3, <1>4
  <2>2. QED
    BY <1>1, <2>1 DEF FileLeaves, FileSpares
<1>8. ASSUME NEW f \in {"a", "b"}
      PROVE  /\ next_method' # 0 \/ (call' = "b" /\ f = "a") => f \in DOMAIN csv'
             /\ f \in DOMAIN csv' => FileSpares(f, "result")'
  <2>1. f \in DOMAIN csv => FileSpares(f, "result")
    BY DEF FilesLeave
  <2>2. next_method # 0 \/ (call = "b" /\ f = "a") => f \in DOMAIN csv
    BY DEF FilesLeave
  <2>3. CASE f = call
    BY <1>1, <1>3, <1>7, <2>1, <2>2, <2>3
  <2>4. CASE f # call
    BY <1>1, <1>3, <1>6, <2>1, <2>2, <2>4
  <2>5. QED
    BY <2>3, <2>4
<1>9. call = "c" => FileLeaves("c", "result")'
  BY <1>1, <1>7 DEF FilesLeave, FileLeaves
<1>10. call # "c" /\ "c" \in DOMAIN csv => FileProduct("c")'
  BY <1>6 DEF FilesLeave
<1>11. ASSUME NEW p \in DOMAIN Methods,
              p < next_method \/ (p = next_method /\ call = "c")
       PROVE  IF ResultArray(Methods[p]) = "result"
              THEN FileProduct(Methods[p].name)'
              ELSE "c" \in DOMAIN csv /\ FileSpares(Methods[p].name, "result")'
  <2>1. Methods[p].name # call
    BY <1>1, MethodTable
  <2>2. Methods[p].name \in DOMAIN csv
    BY <1>11 DEF GeneratorInv, FilesWhole
  <2>3. IF ResultArray(Methods[p]) = "result"
        THEN FileProduct(Methods[p].name)
        ELSE "c" \in DOMAIN csv /\ FileSpares(Methods[p].name, "result")
    BY <1>11 DEF FilesLeave
  <2>4. QED
    BY <1>6, <2>1, <2>2, <2>3
<1>12. QED
  BY <1>1, <1>3, <1>8, <1>9, <1>10, <1>11 DEF FilesLeave

LEMMA matrix_multiplicationLeaves ==
    ASSUME GeneratorInv, FilesLeave, matrix_multiplication
    PROVE  FilesLeave'
<1>1. /\ call = "method" /\ call' = "method" /\ next_method' = next_method
      /\ method' = method /\ Multiplying /\ FileName = method.name
      /\ FileName' = FileName
      /\ heap \in HeapType /\ FilesType /\ FileName \in DOMAIN csv /\ Progress
  BY DEF matrix_multiplication, GeneratorInv, method, Multiplying,
         GeneratorTypes, FileName, MethodRuns
<1>2. PICK p \in DOMAIN Methods : p = next_method /\ method = Methods[p]
  BY <1>1 DEF Multiplying, method
<1>3. HeapOfMethod
  <2>1. next_method # 0
    BY <1>2, MethodCount
  <2>2. QED
    BY <2>1 DEF GeneratorInv, GeneratorTypes, OperandsReady, HeapOfMethod
<1>4. PICK rows \in Seq(AccessRow),
           e \in [array : ArrayName, index : 0 .. Area - 1] :
         /\ WriteRows(rows) /\ e.array = ResultArray(method)
         /\ \/ OnlyLoads(rows) /\ heap' = heap
            \/ \E v \in Cell : StoresLast(rows, e, v) /\ StoreValue(e, v)
  BY <1>1, <1>3, IterationRows
<1>5. /\ DOMAIN csv' = DOMAIN csv
      /\ \A f \in DOMAIN csv : f # method.name => csv'[f] = csv[f]
      /\ \A x \in ArrayName : x # e.array => heap'[x] = heap[x]
      /\ \A x \in ArrayName :
            /\ FileLeaves(FileName, x) => FileLeaves(FileName, x)'
            /\ x # e.array /\ FileSpares(FileName, x) => FileSpares(FileName, x)'
  BY <1>1, <1>4, RowsLeave
<1>6. /\ e.array # "a" /\ e.array # "b"
      /\ "a" \in ArrayName /\ "b" \in ArrayName /\ "result" \in ArrayName
  BY <1>4, ArrayNames DEF ResultArray
<1>7. heap'["a"] = heap["a"] /\ heap'["b"] = heap["b"]
  BY <1>5, <1>6
<1>8. \A f \in DOMAIN csv : f # method.name =>
         /\ FileProduct(f) => FileProduct(f)'
         /\ FileSpares(f, "result") => FileSpares(f, "result")'
  BY <1>5, <1>7, FileUnchanged
<1>9. /\ FileLeaves(method.name, "result") => FileLeaves(method.name, "result")'
      /\ ResultArray(method) # "result" =>
            /\ FileSpares(method.name, "result") => FileSpares(method.name, "result")'
            /\ heap'["result"] = heap["result"]
  <2>1. /\ FileLeaves(FileName, "result") => FileLeaves(FileName, "result")'
        /\ ResultArray(method) # "result" /\ FileSpares(FileName, "result")
             => FileSpares(FileName, "result")'
    BY <1>4, <1>5, <1>6
  <2>2. ResultArray(method) # "result" => heap'["result"] = heap["result"]
    BY <1>4, <1>5, <1>6
  <2>3. QED
    BY <1>1, <2>1, <2>2 DEF FileLeaves, FileSpares
<1>10. method.name \notin {"a", "b", "c"}
  BY <1>2, MethodTable
<1>11. ASSUME NEW f \in {"a", "b"}
       PROVE  /\ next_method # 0 => f \in DOMAIN csv
              /\ f \in DOMAIN csv => FileSpares(f, "result")'
  BY <1>8, <1>10 DEF FilesLeave
<1>12. IF ResultArray(method) = "result"
       THEN FileLeaves(method.name, "result")'
       ELSE /\ FileSpares(method.name, "result")'
            /\ \A l \in 0 .. Area - 1 : heap'["result"][l] = 0
  BY <1>1, <1>9 DEF FilesLeave
<1>13. "c" \in DOMAIN csv => FileProduct("c")'
  BY <1>1, <1>8, <1>10 DEF FilesLeave
<1>14. ASSUME NEW q \in DOMAIN Methods, q < p
       PROVE  IF ResultArray(Methods[q]) = "result"
              THEN FileProduct(Methods[q].name)'
              ELSE "c" \in DOMAIN csv /\ FileSpares(Methods[q].name, "result")'
  <2>1. Methods[q].name # method.name
    <3>1. q # p
      BY <1>14, MethodCount
    <3>2. QED
      BY <1>2, <3>1, MethodNames
  <2>2. Methods[q].name \in DOMAIN csv
    BY <1>2, <1>14 DEF GeneratorInv, FilesWhole
  <2>3. IF ResultArray(Methods[q]) = "result"
        THEN FileProduct(Methods[q].name)
        ELSE "c" \in DOMAIN csv /\ FileSpares(Methods[q].name, "result")
    BY <1>2, <1>14 DEF FilesLeave
  <2>4. QED
    BY <1>8, <2>1, <2>2, <2>3
<1>15. QED
  BY <1>1, <1>2, <1>5, <1>11, <1>12, <1>13, <1>14 DEF FilesLeave

LEMMA GeneratorLeaves ==
    ASSUME GeneratorInv, GeneratorInv', FilesLeave, [Generate]_generatorVars
    PROVE  FilesLeave'
<1>1. CASE UNCHANGED generatorVars
  BY <1>1 DEF generatorVars, FilesLeave, FileLeaves, FileSpares, FileProduct,
              method
<1>2. CASE Generate
  BY <1>2, TransposeOperandsLeaves, RunMethodLeaves, TransposeResultLeaves,
     NextMethodLeaves, transpose_matrixLeaves, matrix_multiplicationLeaves
     DEF Generate
<1>3. QED
  BY <1>1, <1>2

LEMMA FilesBegin ==
    ASSUME GeneratorInit
    PROVE  FilesLeave
<1>1. DOMAIN csv = {} /\ next_method = 0 /\ call = "none"
  BY DEF GeneratorInit
<1>2. \A p \in DOMAIN Methods : ~(p < next_method) /\ call # "c"
  BY <1>1, MethodCount
<1>3. QED
  BY <1>1, <1>2 DEF FilesLeave

(* Whoever stores what a finished file stores, in its order, has the         *)
(* product in the result: no access of a method is missing from its file or  *)
(* comes too late, and a method that leaves a transposed result touches      *)
(* nothing that the file of the transposition then fills (the fprintf() of   *)
(* every access in matrix_csv.c), for matrices of every size.                *)
THEOREM FilesHoldProduct == GeneratorSpec => []FilesLeave
<1>1. GeneratorInit => GeneratorInv /\ FilesLeave
  BY GeneratorBegins, FilesBegin
<1>2. (GeneratorInv /\ FilesLeave) /\ [Generate]_generatorVars
        => (GeneratorInv /\ FilesLeave)'
  BY GeneratorKeeps, GeneratorLeaves
<1>3. QED
  BY <1>1, <1>2, PTL DEF GeneratorSpec
=============================================================================
