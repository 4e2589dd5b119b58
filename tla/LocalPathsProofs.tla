-------------------------- MODULE LocalPathsProofs --------------------------
(***************************************************************************)
(* What is proved of the stages of a local path: the speed profiles, the   *)
(* race-line planner's answers and the search of the P3 evaluator.         *)
(***************************************************************************)
EXTENDS P3Search, SplinePlanner, SpeedProfile, WellFoundedInduction, TLAPS

-----------------------------------------------------------------------------
(* Induction over what a pass computes.  The principle is stated for a set,  *)
(* by its least exception, and recursion for a step given as a function.     *)

LEMMA LeastElement ==
  ASSUME NEW T, T \subseteq Nat, T # {}
  PROVE  \E x \in T : \A y \in T : x <= y
  <1>1. PICK x \in T : \A y \in T : ~ (<<y, x>> \in OpToRel(<, Nat))
    BY NatLessThanWellFounded, WFMin
  <1>2. \A y \in T : ~ (y < x)
    BY <1>1 DEF OpToRel
  <1> QED
    BY <1>2

LEMMA SetInduction ==
  ASSUME NEW n \in Nat, NEW P, 0 \in P, \A i \in 0..(n - 1) : i \in P => i + 1 \in P
  PROVE  \A i \in 0..n : i \in P
  <1> DEFINE T == {i \in 0..n : i \notin P}
  <1> SUFFICES ASSUME T # {} PROVE FALSE
    OBVIOUS
  <1>1. T \subseteq Nat
    OBVIOUS
  <1> HIDE DEF T
  <1>2. PICK x \in T : \A y \in T : x <= y
    BY <1>1, LeastElement
  <1>3. x # 0 /\ x - 1 \in 0..(n - 1) /\ x - 1 \notin T
    BY <1>2 DEF T
  <1> QED
    BY <1>2, <1>3 DEF T

\* Values of V, each made of the one before it.
Runs(g, m, V, start, Step) ==
  g \in [0..m -> V] /\ g[0] = start /\ \A i \in 0..(m - 1) : g[i + 1] = Step[<<i, g[i]>>]

LEMMA Recursion ==
  ASSUME NEW n \in Nat, NEW V, NEW start \in V, NEW Step \in [(0..n) \X V -> V]
  PROVE  \E g : Runs(g, n, V, start, Step)
  <1> DEFINE P == {m \in 0..n : \E g : Runs(g, m, V, start, Step)}
  <1>1. 0 \in P
    <2>1. Runs([i \in 0..0 |-> start], 0, V, start, Step)
      BY DEF Runs
    <2> QED
      BY <2>1
  <1>2. ASSUME NEW m \in 0..(n - 1), m \in P PROVE m + 1 \in P
    <2>1. PICK g : Runs(g, m, V, start, Step)
      BY <1>2
    <2> DEFINE next == Step[<<m, g[m]>>]
               h == [i \in 0..(m + 1) |-> IF i = m + 1 THEN next ELSE g[i]]
    <2>2. next \in V
      BY <2>1 DEF Runs
    <2>3. h \in [0..(m + 1) -> V]
      <3>1. \A i \in 0..(m + 1) : i # m + 1 => i \in 0..m
        OBVIOUS
      <3> HIDE DEF next
      <3> QED
        BY <2>1, <2>2, <3>1 DEF Runs
    <2>4. h[0] = start
      BY <2>1 DEF Runs
    <2>5. \A i \in 0..m : h[i] = g[i] /\ i + 1 \in 0..(m + 1)
      OBVIOUS
    <2>6. h[m + 1] = next
      OBVIOUS
    <2>7. ASSUME NEW i \in 0..m PROVE h[i + 1] = Step[<<i, h[i]>>]
      <3> HIDE DEF h
      <3>1. CASE i = m
        BY <2>5, <2>6, <3>1
      <3>2. CASE i # m
        <4>1. i \in 0..(m - 1) /\ i + 1 \in 0..m
          BY <3>2
        <4> QED
          BY <2>1, <2>5, <4>1 DEF Runs
      <3> QED
        BY <3>1, <3>2
    <2>8. (m + 1) - 1 = m /\ m + 1 \in 0..n
      OBVIOUS
    <2> HIDE DEF h, next
    <2>9. Runs(h, m + 1, V, start, Step)
      BY <2>3, <2>4, <2>7, <2>8 DEF Runs
    <2> QED
      BY <2>8, <2>9
  <1> HIDE DEF P
  <1>3. \A m \in 0..n : m \in P
    BY <1>1, <1>2, SetInduction
  <1>4. n \in P
    BY <1>3
  <1> QED
    BY <1>4 DEF P

-----------------------------------------------------------------------------
(* The speeds are natural numbers, and the tables do not ask for less than a *)
(* step.                                                                     *)

LEMMA Tables ==
  /\ N \in Nat /\ N >= 2 /\ Highest \in Nat /\ Highest \in LineSpeeds
  /\ \A e \in LineSpeeds : e \in Nat /\ e <= Highest
  /\ \A e \in Int : /\ AccelLimitAt(e) \in Nat /\ DecelLimitAt(e) \in Nat
                    /\ AccelLimitAt(e) >= 1 /\ DecelLimitAt(e) >= 1
  /\ \A a, b \in Int : a <= b => DecelLimitAt(b) <= DecelLimitAt(a)
  <1>1. Highest \in LineSpeeds /\ \A e \in LineSpeeds : e <= Highest
    BY SpeedProfileAssumption DEF Highest
  <1>2. \A a, b \in Int : a <= b => DecelLimitAt(b) <= DecelLimitAt(a)
    BY SpeedProfileAssumption DEF DecelLimitAt
  <1>3. \A e \in Int : /\ AccelLimitAt(e) \in Nat /\ DecelLimitAt(e) \in Nat
                       /\ AccelLimitAt(e) >= 1 /\ DecelLimitAt(e) >= 1
    BY SpeedProfileAssumption DEF AccelLimitAt, DecelLimitAt
  <1> QED
    BY <1>1, <1>2, <1>3, SpeedProfileAssumption

\* The forward pass, cell by cell.
LEMMA ForwardDef ==
  ASSUME path \in [Cells -> Nat], ego \in Nat
  PROVE  /\ Forward \in [0..N -> Nat]
         /\ Forward[0] = AtLeast(Launch, ego)
         /\ \A i \in Cells :
              Forward[i] = AtMost(path[i], Forward[i - 1] + AccelLimitAt(Forward[i - 1]))
  <1> DEFINE start == AtLeast(Launch, ego)
             Step == [c \in (0..N) \X Nat |->
                        IF c[1] < N THEN AtMost(path[c[1] + 1], c[2] + AccelLimitAt(c[2])) ELSE 0]
  <1>1. start \in Nat
    BY SpeedProfileAssumption DEF AtLeast
  <1>2. Step \in [(0..N) \X Nat -> Nat]
    <2>1. ASSUME NEW k \in 0..N, NEW v \in Nat, k < N
          PROVE  AtMost(path[k + 1], v + AccelLimitAt(v)) \in Nat
      <3>1. k + 1 \in Cells
        BY <2>1, Tables DEF Cells
      <3>2. AccelLimitAt(v) \in Nat
        BY Tables
      <3> QED
        BY <3>1, <3>2 DEF AtMost
    <2>2. \A c \in (0..N) \X Nat : c[1] \in 0..N /\ c[2] \in Nat
      OBVIOUS
    <2> QED
      BY <2>1, <2>2
  <1>3. PICK g : Runs(g, N, Nat, start, Step)
    <2>1. N \in Nat
      BY Tables
    <2> HIDE DEF start, Step
    <2> QED
      BY <1>1, <1>2, <2>1, Recursion
  <1>4. g \in [0..N -> Nat] /\ g[0] = start /\ \A i \in 0..(N - 1) : g[i + 1] = Step[<<i, g[i]>>]
    BY <1>3 DEF Runs
  <1>5. ASSUME NEW i \in Cells
        PROVE  g[i] = AtMost(path[i], g[i - 1] + AccelLimitAt(g[i - 1]))
    <2>1. i - 1 \in 0..(N - 1) /\ (i - 1) + 1 = i /\ i - 1 < N /\ i - 1 \in 0..N
      BY Tables DEF Cells
    <2>2. <<i - 1, g[i - 1]>> \in (0..N) \X Nat
      BY <2>1, <1>4
    <2>3. g[i] = Step[<<i - 1, g[i - 1]>>]
      BY <1>4, <2>1
    <2> QED
      BY <2>1, <2>2, <2>3
  <1> HIDE DEF Step
  <1>6. g = [i \in 0..N |-> IF i = 0 THEN start
                            ELSE AtMost(path[i], g[i - 1] + AccelLimitAt(g[i - 1]))]
    <2>1. \A i \in 0..N : i # 0 => i \in Cells
      BY Tables DEF Cells
    <2> HIDE DEF start
    <2>2. \A i \in 0..N : g[i] = IF i = 0 THEN start
                            ELSE AtMost(path[i], g[i - 1] + AccelLimitAt(g[i - 1]))
      BY <1>4, <1>5, <2>1
    <2> QED
      BY <1>4, <2>2
  <1>7. Forward = [i \in 0..N |-> IF i = 0 THEN start
                            ELSE AtMost(path[i], Forward[i - 1] + AccelLimitAt(Forward[i - 1]))]
    BY <1>6 DEF Forward
  <1> HIDE DEF start
  <1>8. /\ Forward[0] = start
        /\ \A i \in Cells :
              Forward[i] = AtMost(path[i], Forward[i - 1] + AccelLimitAt(Forward[i - 1]))
    <2>1. 0 \in 0..N /\ \A i \in Cells : i \in 0..N /\ i # 0
      BY Tables DEF Cells
    <2> QED
      BY <1>7, <2>1
  <1>9. \A i \in 0..N : i \in {j \in 0..N : Forward[j] \in Nat}
    <2> DEFINE P == {j \in 0..N : Forward[j] \in Nat}
    <2>1. 0 \in P
      <3>1. 0 \in 0..N
        BY Tables
      <3> QED
        BY <1>1, <1>8, <3>1 DEF start
    <2>2. ASSUME NEW j \in 0..(N - 1), j \in P PROVE j + 1 \in P
      <3>1. j + 1 \in Cells /\ (j + 1) - 1 = j /\ Forward[j] \in Nat
        BY <2>2, Tables DEF Cells
      <3>2. Forward[j + 1] = AtMost(path[j + 1], Forward[j] + AccelLimitAt(Forward[j]))
        BY <1>8, <3>1
      <3>3. AccelLimitAt(Forward[j]) \in Nat /\ path[j + 1] \in Nat
        BY <3>1, Tables
      <3>4. Forward[j + 1] \in Nat
        BY <3>1, <3>2, <3>3 DEF AtMost
      <3> QED
        BY <3>1, <3>4 DEF Cells
    <2> HIDE DEF P
    <2>3. \A i \in 0..N : i \in P
      BY <2>1, <2>2, Tables, SetInduction
    <2> QED
      BY <2>3 DEF P
  <1> QED
    BY <1>7, <1>8, <1>9 DEF start

\* The backward pass, from the last cell on.
LEMMA BackwardDef ==
  ASSUME path \in [Cells -> Nat]
  PROVE  /\ Backward \in [Cells -> Nat]
         /\ Backward[N] = path[N]
         /\ \A i \in 1..(N - 1) : Backward[i] = Braked(path[i], Backward[i + 1])
  <1> DEFINE Step == [c \in (0..(N - 1)) \X Nat |->
                        IF c[1] < N - 1 THEN Braked(path[N - 1 - c[1]], c[2]) ELSE 0]
  <1>1. path[N] \in Nat /\ N - 1 \in Nat
    BY Tables DEF Cells
  <1>2. Step \in [(0..(N - 1)) \X Nat -> Nat]
    <2>1. ASSUME NEW k \in 0..(N - 1), NEW v \in Nat, k < N - 1
          PROVE  Braked(path[N - 1 - k], v) \in Nat
      <3>1. N - 1 - k \in Cells
        BY <2>1, Tables DEF Cells
      <3>2. path[N - 1 - k] \in Nat
        BY <3>1
      <3>3. AtLeast(path[N - 1 - k], v) \in Int
        BY <3>2 DEF AtLeast
      <3>4. DecelLimitAt(AtLeast(path[N - 1 - k], v)) \in Nat
        BY <3>3, Tables
      <3> QED
        BY <3>2, <3>4 DEF Braked, AtMost
    <2>2. \A c \in (0..(N - 1)) \X Nat : c[1] \in 0..(N - 1) /\ c[2] \in Nat
      OBVIOUS
    <2> QED
      BY <2>1, <2>2
  <1>3. PICK g : Runs(g, N - 1, Nat, path[N], Step)
    <2> HIDE DEF Step
    <2> QED
      BY <1>1, <1>2, Recursion
  <1>4. /\ g \in [0..(N - 1) -> Nat] /\ g[0] = path[N]
        /\ \A i \in 0..((N - 1) - 1) : g[i + 1] = Step[<<i, g[i]>>]
    BY <1>3 DEF Runs
  <1> DEFINE b == [i \in Cells |-> g[N - i]]
  <1>5. \A i \in Cells : b[i] = g[N - i] /\ N - i \in 0..(N - 1) /\ i # 0 /\ i \in Nat
    BY Tables DEF Cells
  <1>6. ASSUME NEW i \in Cells, i # N
        PROVE  b[i] = Braked(path[i], b[i + 1])
    <2>1. /\ N - i - 1 \in 0..((N - 1) - 1) /\ (N - i - 1) + 1 = N - i /\ N - i - 1 < N - 1
          /\ N - i - 1 \in 0..(N - 1) /\ N - 1 - (N - i - 1) = i /\ i + 1 \in Cells
          /\ N - (i + 1) = N - i - 1
      BY <1>6, Tables DEF Cells
    <2>2. <<N - i - 1, g[N - i - 1]>> \in (0..(N - 1)) \X Nat
      BY <2>1, <1>4
    <2>3. g[N - i] = Step[<<N - i - 1, g[N - i - 1]>>]
      BY <1>4, <2>1
    <2>4. g[N - i] = Braked(path[i], g[N - i - 1])
      BY <2>1, <2>2, <2>3
    <2> QED
      BY <1>5, <2>1, <2>4
  <1>7. b[N] = path[N]
    <2>1. N \in Cells /\ N - N = 0
      BY Tables DEF Cells
    <2> HIDE DEF b
    <2> QED
      BY <1>4, <1>5, <2>1
  <1> HIDE DEF Step
  <1>8. b = [i \in Cells |-> IF i = N THEN path[N] ELSE Braked(path[i], b[i + 1])]
    <2>1. \A i \in Cells : b[i] = IF i = N THEN path[N] ELSE Braked(path[i], b[i + 1])
      BY <1>6, <1>7
    <2> QED
      BY <2>1
  <1> HIDE DEF b
  <1>9. Backward = [i \in Cells |-> IF i = N THEN path[N] ELSE Braked(path[i], Backward[i + 1])]
    BY <1>8 DEF Backward
  <1>10. /\ Backward[N] = path[N]
         /\ \A i \in 1..(N - 1) : Backward[i] = Braked(path[i], Backward[i + 1])
    <2>1. N \in Cells /\ \A i \in 1..(N - 1) : i \in Cells /\ i # N
      BY Tables DEF Cells
    <2> QED
      BY <1>9, <2>1
  <1>11. \A i \in Cells : Backward[i] \in Nat
    <2> DEFINE P == {k \in 0..(N - 1) : Backward[N - k] \in Nat}
    <2>1. 0 \in P
      <3>1. N - 0 = N /\ 0 \in 0..(N - 1)
        BY Tables
      <3> QED
        BY <1>1, <1>10, <3>1
    <2>2. ASSUME NEW k \in 0..((N - 1) - 1), k \in P PROVE k + 1 \in P
      <3>1. /\ N - (k + 1) \in 1..(N - 1) /\ N - (k + 1) + 1 = N - k /\ Backward[N - k] \in Nat
            /\ k + 1 \in 0..(N - 1) /\ N - (k + 1) \in Cells
        BY <2>2, Tables DEF Cells
      <3>2. Backward[N - (k + 1)] = Braked(path[N - (k + 1)], Backward[N - k])
        BY <1>10, <3>1
      <3>3. path[N - (k + 1)] \in Nat
        BY <3>1
      <3>4. AtLeast(path[N - (k + 1)], Backward[N - k]) \in Int
        BY <3>1, <3>3 DEF AtLeast
      <3>5. DecelLimitAt(AtLeast(path[N - (k + 1)], Backward[N - k])) \in Nat
        BY <3>4, Tables
      <3>6. Braked(path[N - (k + 1)], Backward[N - k]) \in Nat
        BY <3>1, <3>3, <3>5 DEF Braked, AtMost
      <3> QED
        BY <3>1, <3>2, <3>6
    <2> HIDE DEF P
    <2>3. \A k \in 0..(N - 1) : k \in P
      BY <1>1, <2>1, <2>2, SetInduction
    <2>4. ASSUME NEW i \in Cells PROVE Backward[i] \in Nat
      <3>1. N - i \in 0..(N - 1) /\ N - (N - i) = i
        BY Tables DEF Cells
      <3> QED
        BY <2>3, <3>1 DEF P
    <2> QED
      BY <2>4
  <1> QED
    BY <1>9, <1>10, <1>11

\* The backward pass of the stop, from the contact on.
LEMMA BrakeDef ==
  ASSUME path \in [Cells -> Nat], PrefixEnd \in Int, PrefixEnd <= N
  PROVE  /\ Brake \in [1..Nowhere -> Nat]
         /\ \A i \in 1..Nowhere : i >= PrefixEnd => Brake[i] = 0
         /\ \A i \in Cells : i < PrefixEnd => Brake[i] = AtMost(path[i], Brake[i + 1] + StopDecel)
  <1> DEFINE Step == [c \in (0..N) \X Nat |->
                        IF c[1] < N /\ N - c[1] < PrefixEnd
                        THEN AtMost(path[N - c[1]], c[2] + StopDecel) ELSE 0]
  <1>1. N \in Nat /\ 0 \in Nat /\ StopDecel \in Nat /\ Nowhere = N + 1
    BY SpeedProfileAssumption DEF Nowhere
  <1>2. Step \in [(0..N) \X Nat -> Nat]
    <2>1. ASSUME NEW k \in 0..N, NEW v \in Nat, k < N
          PROVE  AtMost(path[N - k], v + StopDecel) \in Nat
      <3>1. N - k \in Cells
        BY <2>1, <1>1 DEF Cells
      <3> QED
        BY <1>1, <3>1 DEF AtMost
    <2>2. \A c \in (0..N) \X Nat : c[1] \in 0..N /\ c[2] \in Nat
      OBVIOUS
    <2> QED
      BY <2>1, <2>2
  <1>3. PICK g : Runs(g, N, Nat, 0, Step)
    <2> HIDE DEF Step
    <2> QED
      BY <1>1, <1>2, Recursion
  <1>4. /\ g \in [0..N -> Nat] /\ g[0] = 0
        /\ \A i \in 0..(N - 1) : g[i + 1] = Step[<<i, g[i]>>]
    BY <1>3 DEF Runs
  <1> DEFINE b == [i \in 1..Nowhere |-> g[N + 1 - i]]
  <1>5. \A i \in 1..Nowhere : b[i] = g[N + 1 - i] /\ N + 1 - i \in 0..N /\ i \in Nat
    BY <1>1
  <1>6. ASSUME NEW i \in Cells
        PROVE  b[i] = IF i >= PrefixEnd THEN 0 ELSE AtMost(path[i], b[i + 1] + StopDecel)
    <2>1. /\ N - i \in 0..(N - 1) /\ N - i < N /\ (N - i) + 1 = N + 1 - i /\ N - (N - i) = i
          /\ N - i \in 0..N /\ i + 1 \in 1..Nowhere /\ i \in 1..Nowhere /\ N + 1 - (i + 1) = N - i
      BY <1>1 DEF Cells
    <2>2. <<N - i, g[N - i]>> \in (0..N) \X Nat
      BY <2>1, <1>4
    <2>3. g[N + 1 - i] = Step[<<N - i, g[N - i]>>]
      BY <1>4, <2>1
    <2>4. g[N + 1 - i] = IF i < PrefixEnd THEN AtMost(path[i], g[N - i] + StopDecel) ELSE 0
      BY <2>1, <2>2, <2>3
    <2>5. i >= PrefixEnd <=> ~(i < PrefixEnd)
      BY <2>1
    <2>6. b[i + 1] = g[N - i] /\ b[i] = g[N + 1 - i]
      BY <1>5, <2>1
    <2> HIDE DEF b, Step
    <2> QED
      BY <2>4, <2>5, <2>6
  <1>7. b[Nowhere] = 0 /\ Nowhere >= PrefixEnd
    <2>1. Nowhere \in 1..Nowhere /\ N + 1 - Nowhere = 0 /\ Nowhere >= PrefixEnd
      BY <1>1
    <2> HIDE DEF b
    <2> QED
      BY <1>4, <1>5, <2>1
  <1> HIDE DEF Step
  <1>8. b = [i \in 1..Nowhere |-> IF i >= PrefixEnd THEN 0 ELSE AtMost(path[i], b[i + 1] + StopDecel)]
    <2>1. \A i \in 1..Nowhere : i = Nowhere \/ i \in Cells
      BY <1>1 DEF Cells
    <2>2. \A i \in 1..Nowhere :
             b[i] = IF i >= PrefixEnd THEN 0 ELSE AtMost(path[i], b[i + 1] + StopDecel)
      <3> HIDE DEF b
      <3> QED
        BY <1>6, <1>7, <2>1
    <2> QED
      BY <2>2
  <1> HIDE DEF b
  <1>9. Brake = [i \in 1..Nowhere |-> IF i >= PrefixEnd THEN 0
                                      ELSE AtMost(path[i], Brake[i + 1] + StopDecel)]
    BY <1>8 DEF Brake
  <1>10. /\ \A i \in 1..Nowhere : i >= PrefixEnd => Brake[i] = 0
         /\ \A i \in Cells : i < PrefixEnd => Brake[i] = AtMost(path[i], Brake[i + 1] + StopDecel)
    <2>1. \A i \in Cells : i \in 1..Nowhere /\ (i < PrefixEnd => ~(i >= PrefixEnd))
      BY <1>1 DEF Cells
    <2> QED
      BY <1>9, <2>1
  <1>11. \A i \in 1..Nowhere : Brake[i] \in Nat
    <2> DEFINE P == {k \in 0..N : Brake[N + 1 - k] \in Nat}
    <2>1. 0 \in P
      BY <1>1, <1>7, <1>10
    <2>2. ASSUME NEW k \in 0..(N - 1), k \in P PROVE k + 1 \in P
      <3>1. /\ N + 1 - (k + 1) \in Cells /\ N + 1 - (k + 1) + 1 = N + 1 - k
            /\ Brake[N + 1 - k] \in Nat /\ k + 1 \in 0..N /\ N + 1 - (k + 1) \in 1..Nowhere
            /\ (N + 1 - (k + 1) < PrefixEnd \/ N + 1 - (k + 1) >= PrefixEnd)
        BY <2>2, <1>1 DEF Cells
      <3>2. Brake[N + 1 - (k + 1)] \in {0, AtMost(path[N + 1 - (k + 1)], Brake[N + 1 - k] + StopDecel)}
        BY <1>10, <3>1
      <3>3. AtMost(path[N + 1 - (k + 1)], Brake[N + 1 - k] + StopDecel) \in Nat
        BY <1>1, <3>1 DEF AtMost
      <3> QED
        BY <3>1, <3>2, <3>3
    <2> HIDE DEF P
    <2>3. \A k \in 0..N : k \in P
      BY <1>1, <2>1, <2>2, SetInduction
    <2>4. ASSUME NEW i \in 1..Nowhere PROVE Brake[i] \in Nat
      <3>1. N + 1 - i \in 0..N /\ N + 1 - (N + 1 - i) = i
        BY <1>1
      <3> QED
        BY <2>3, <3>1 DEF P
    <2> QED
      BY <2>4
  <1> QED
    BY <1>9, <1>10, <1>11

\* Products of natural numbers.
LEMMA Products ==
  /\ \A a, b \in Nat : a * b \in Nat
  /\ \A a, b, c \in Nat : a <= b => a * c <= b * c
  /\ \A a, b \in Nat : (a + 1) * b = a * b + b /\ b * (a + 1) = a * b + b /\ b * a = a * b
  OBVIOUS

\* The slow-down over a path: what it leaves of a cell's speed.
LEMMA OverlayDef ==
  ASSUME NEW p \in [Cells -> Nat], NEW front \in Cells, NEW cap \in Nat, NEW slow,
         slow.front = front, slow.cap = cap
  PROVE  \E limit \in [Cells -> Nat] :
           /\ Overlay(p, slow) = [i \in Cells |-> AtMost(p[i], limit[i])]
           /\ \A i \in Cells :
                /\ i <= front => limit[i] = cap + RawDecel * (front - i)
                /\ i > front /\ i <= front + PostHold => limit[i] = cap
                /\ i > front + PostHold =>
                     limit[i] = Released(AtMost(p[i - 1], limit[i - 1]))
  <1> DEFINE Def(limit) == limit = [i \in Cells |->
                IF i <= slow.front THEN slow.cap + RawDecel * (slow.front - i)
                ELSE IF i <= slow.front + PostHold THEN slow.cap
                ELSE Released(IF i = 1 THEN slow.cap ELSE AtMost(p[i - 1], limit[i - 1]))]
             Held(i) == IF i <= front THEN cap + RawDecel * (front - i) ELSE cap
             Limit(i, v) == IF i <= front + PostHold THEN Held(i) ELSE Released(AtMost(p[i - 1], v))
             Step == [c \in (0..(N - 1)) \X Nat |-> IF c[1] < N - 1 THEN Limit(c[1] + 2, c[2]) ELSE 0]
  <1>1. /\ N - 1 \in Nat /\ PostHold \in Nat /\ RawDecel \in Nat /\ front \in Nat /\ front >= 1
        /\ front <= N /\ N \in Nat
    BY SpeedProfileAssumption, Tables DEF Cells
  <1>2. ASSUME NEW v \in Nat PROVE Released(v) \in Nat
    BY Tables DEF Released
  <1>3. ASSUME NEW i \in Cells PROVE Held(i) \in Nat
    <2>1. CASE i <= front
      <3>1. front - i \in Nat
        BY <1>1, <2>1 DEF Cells
      <3>2. RawDecel * (front - i) \in Nat
        BY ONLY <1>1, <3>1, Products
      <3> QED
        BY <2>1, <3>2
    <2>2. CASE ~(i <= front)
      BY <2>2
    <2> QED
      BY <2>1, <2>2
  <1>4. ASSUME NEW i \in Cells, NEW v \in Nat, i > 1 PROVE Limit(i, v) \in Nat
    <2>1. i - 1 \in Cells
      BY <1>1, <1>4 DEF Cells
    <2>2. AtMost(p[i - 1], v) \in Nat
      BY <2>1 DEF AtMost
    <2> HIDE DEF Held
    <2> QED
      BY <1>2, <1>3, <2>2
  <1>5. Step \in [(0..(N - 1)) \X Nat -> Nat]
    <2>1. ASSUME NEW k \in 0..(N - 1), NEW v \in Nat, k < N - 1
          PROVE  Limit(k + 2, v) \in Nat
      <3>1. k + 2 \in Cells /\ k + 2 > 1
        BY <2>1, <1>1 DEF Cells
      <3> HIDE DEF Limit
      <3> QED
        BY <1>4, <3>1
    <2>2. \A c \in (0..(N - 1)) \X Nat : c[1] \in 0..(N - 1) /\ c[2] \in Nat
      OBVIOUS
    <2> HIDE DEF Limit
    <2> QED
      BY <2>1, <2>2
  <1>6. PICK g : Runs(g, N - 1, Nat, Held(1), Step)
    <2>1. Held(1) \in Nat
      <3>1. 1 \in Cells
        BY <1>1 DEF Cells
      <3> HIDE DEF Held
      <3> QED
        BY <1>3, <3>1
    <2> HIDE DEF Step, Held
    <2> QED
      BY <1>1, <1>5, <2>1, Recursion
  <1>7. /\ g \in [0..(N - 1) -> Nat] /\ g[0] = Held(1)
        /\ \A i \in 0..((N - 1) - 1) : g[i + 1] = Step[<<i, g[i]>>]
    BY <1>6 DEF Runs
  <1> DEFINE b == [i \in Cells |-> g[i - 1]]
  <1>8. \A i \in Cells : b[i] = g[i - 1] /\ i - 1 \in 0..(N - 1) /\ i \in Nat
    BY <1>1 DEF Cells
  <1>9. ASSUME NEW i \in Cells
        PROVE  /\ i <= front + PostHold => b[i] = Held(i)
               /\ i > front + PostHold => b[i] = Released(AtMost(p[i - 1], b[i - 1])) /\ i # 1
    <2>1. CASE i = 1
      <3>1. 1 <= front + PostHold /\ ~(1 > front + PostHold) /\ i - 1 = 0
        BY <1>1, <2>1
      <3> HIDE DEF b, Held
      <3> QED
        BY <1>7, <1>8, <2>1, <3>1
    <2>2. CASE i # 1
      <3>1. /\ i - 2 \in 0..((N - 1) - 1) /\ i - 2 < N - 1 /\ (i - 2) + 1 = i - 1 /\ (i - 2) + 2 = i
            /\ i - 2 \in 0..(N - 1) /\ i - 1 \in Cells /\ (i - 1) - 1 = i - 2
            /\ (i > front + PostHold <=> ~(i <= front + PostHold))
        BY <1>1, <2>2 DEF Cells
      <3>2. <<i - 2, g[i - 2]>> \in (0..(N - 1)) \X Nat
        BY <3>1, <1>7
      <3>3. g[i - 1] = Step[<<i - 2, g[i - 2]>>]
        BY <1>7, <3>1
      <3>4. g[i - 1] = Limit(i, g[i - 2])
        <4> HIDE DEF Limit
        <4> QED
          BY <3>1, <3>2, <3>3
      <3>5. b[i] = g[i - 1] /\ b[i - 1] = g[i - 2]
        BY <1>8, <3>1
      <3> HIDE DEF b, Held, Step
      <3> QED
        BY <2>2, <3>1, <3>4, <3>5
    <2> QED
      BY <2>1, <2>2
  <1> HIDE DEF Step
  <1>10. \A i \in Cells : b[i] \in Nat
    BY <1>7, <1>8
  <1>11. \A i \in Cells : (i > front <=> ~(i <= front)) /\ (i <= front => i <= front + PostHold)
                          /\ (i > front + PostHold <=> ~(i <= front + PostHold))
    BY <1>1 DEF Cells
  <1>12. Def(b)
    <2>1. \A i \in Cells : b[i] =
             IF i <= front THEN cap + RawDecel * (front - i)
             ELSE IF i <= front + PostHold THEN cap
             ELSE Released(IF i = 1 THEN cap ELSE AtMost(p[i - 1], b[i - 1]))
      <3> HIDE DEF b
      <3> QED
        BY <1>9, <1>11
    <2> QED
      BY <2>1
  <1> HIDE DEF b, Held, Limit
  <1>13. PICK limit : Def(limit) /\ Overlay(p, slow) = [i \in Cells |-> AtMost(p[i], limit[i])]
    <2>1. Overlay(p, slow) = LET limit == CHOOSE limit : Def(limit)
                             IN [i \in Cells |-> AtMost(p[i], limit[i])]
      BY DEF Overlay
    <2>2. Def(CHOOSE limit : Def(limit))
      <3> HIDE DEF Def
      <3> QED
        BY <1>12
    <2> HIDE DEF Def
    <2> QED
      BY <2>1, <2>2
  <1>14. \A i \in Cells :
           /\ i <= front => limit[i] = cap + RawDecel * (front - i)
           /\ i > front /\ i <= front + PostHold => limit[i] = cap
           /\ i > front + PostHold => limit[i] = Released(AtMost(p[i - 1], limit[i - 1])) /\ i # 1
    <2>1. \A i \in Cells : i > front + PostHold => i # 1 /\ ~(i <= front)
      BY <1>1 DEF Cells
    <2> QED
      BY <1>11, <1>13, <2>1
  <1>15. \A i \in Cells : limit[i] \in Nat
    <2> DEFINE P == {k \in 0..(N - 1) : limit[k + 1] \in Nat}
    <2>1. ASSUME NEW i \in Cells, i <= front + PostHold PROVE limit[i] \in Nat
      <3>1. Held(i) \in Nat
        BY <1>3
      <3> QED
        BY <1>11, <1>14, <2>1, <3>1 DEF Held
    <2>2. 0 \in P
      <3>1. 1 \in Cells /\ 1 <= front + PostHold
        BY <1>1 DEF Cells
      <3> QED
        BY <1>1, <2>1, <3>1
    <2>3. ASSUME NEW k \in 0..((N - 1) - 1), k \in P PROVE k + 1 \in P
      <3>1. /\ k + 1 \in Cells /\ k + 2 \in Cells /\ (k + 2) - 1 = k + 1 /\ limit[k + 1] \in Nat
            /\ k + 1 \in 0..(N - 1) /\ (k + 1) + 1 = k + 2
            /\ (k + 2 <= front + PostHold \/ k + 2 > front + PostHold)
        BY <2>3, <1>1 DEF Cells
      <3>2. AtMost(p[k + 1], limit[k + 1]) \in Nat
        BY <3>1 DEF AtMost
      <3>3. limit[k + 2] \in Nat
        BY <1>2, <1>14, <2>1, <3>1, <3>2
      <3> QED
        BY <3>1, <3>3
    <2> HIDE DEF P
    <2>4. \A k \in 0..(N - 1) : k \in P
      BY <1>1, <2>2, <2>3, SetInduction
    <2>5. ASSUME NEW i \in Cells PROVE limit[i] \in Nat
      <3>1. i - 1 \in 0..(N - 1) /\ (i - 1) + 1 = i
        BY <1>1 DEF Cells
      <3> QED
        BY <2>4, <3>1 DEF P
    <2> QED
      BY <2>5
  <1>16. limit \in [Cells -> Nat]
    BY <1>13, <1>15
  <1> QED
    BY <1>13, <1>14, <1>16

-----------------------------------------------------------------------------
(* What each pass leaves to the next.                                        *)

\* The speed before a cell, and the distance from the car to the contact.
Before(i) == IF i = 1 THEN AtLeast(Launch, ego) ELSE path[i - 1]
Slack(i) == (contact - 1 - i) * Brakes

\* No cell is reached faster than the table accelerates.
Reachable == \A i \in Cells : path[i] <= Before(i) + AccelLimitAt(Before(i))

\* No cell but the first asks for more braking than the limit.
Brakable(limit(_)) == \A i \in Cells : i > 1 => path[i - 1] - path[i] <= limit(path[i - 1])

TableOrRaw(e) == AtLeast(DecelLimitAt(e), RawDecel)

\* The obstacle beside the path is in front of the car and ends on the path.
Spanned == Avoiding => first \in Cells /\ last \in first..N

AtSide == Avoiding /\ pass # "CAP" => \A i \in first..last : path[i] <= AtLeast(Floor, room)
AtCritical == Avoiding /\ pass \notin {"CAP", "HOLD"} => \A i \in first..last : path[i] <= Critical
Approached == Avoiding /\ pass \notin {"CAP", "HOLD", "RAMP"} =>
           \A i \in Cells : HoldStart <= i /\ i < first =>
                path[i] <= AtLeast(Floor, room) /\ path[i] <= Critical

Shaped ==
  /\ pass \in {"DECEL", "PUBLISH", "OUT"} => Reachable
  /\ pass = "PUBLISH" => Brakable(DecelLimitAt)
  /\ pass = "OUT" => Brakable(TableOrRaw)

\* A car that can stop before the contact still can, and the profile does.
Stopping ==
  /\ pass # "STOPPING" => car = 0
  /\ pass = "STOPPING" =>
       /\ \A i \in Cells : i >= contact => path[i] = 0
       /\ \A i \in Cells : i < contact => path[i] <= Slack(i)
       /\ (contact - 1) * Brakes >= ego => car < contact /\ moving <= Slack(car)

ProfileInv == SpeedTypeOK /\ Spanned /\ (pass \in {"HOLD", "RAMP"} => Avoiding)
              /\ AtSide /\ AtCritical /\ Approached /\ Shaped /\ Stopping

\* The types, as what the steps below need.
LEMMA Typed ==
  ASSUME SpeedTypeOK
  PROVE  /\ path \in [Cells -> Nat] /\ \A i \in Cells : path[i] \in Nat /\ path[i] <= Highest
         /\ ego \in Nat /\ room \in Int /\ first \in Nat /\ last \in Nat /\ contact \in Nat
         /\ first >= 1 /\ contact >= 1 /\ contact <= N + 1 /\ car \in Nat /\ car <= N
         /\ moving \in Nat /\ Nowhere = N + 1 /\ N \in Nat
         /\ AtLeast(Floor, room) \in Nat /\ AtLeast(Launch, ego) \in Nat
  <1>1. N \in Nat /\ Highest \in Nat /\ Floor \in Nat /\ Launch \in Nat /\ Nowhere = N + 1
        /\ EgoSpeeds \subseteq Nat
    BY Tables, SpeedProfileAssumption DEF Nowhere
  <1>2. ego \in Nat /\ room \in Int /\ first \in Nat /\ last \in Nat /\ contact \in Nat
        /\ first >= 1 /\ contact >= 1 /\ contact <= N + 1 /\ car \in Nat /\ car <= N
        /\ moving \in Nat
    BY <1>1 DEF SpeedTypeOK, AtLeast
  <1>3. path \in [Cells -> Nat] /\ \A i \in Cells : path[i] \in Nat /\ path[i] <= Highest
    BY <1>1 DEF SpeedTypeOK
  <1> QED
    BY <1>1, <1>2, <1>3 DEF AtLeast

LEMMA CriticalIsNat == ASSUME SpeedTypeOK, Spanned, Avoiding PROVE Critical \in Nat
  <1> DEFINE S == {line[i] : i \in 1..last}
  <1>1. \A i \in 1..last : i \in Cells /\ line[i] \in LineSpeeds /\ line[i] \in Nat
    <2>1. first \in Nat /\ first >= 1 /\ last \in first..N /\ N \in Nat /\ line \in [Cells -> LineSpeeds]
      BY Typed DEF Spanned, SpeedTypeOK
    <2>2. \A i \in 1..last : i \in Cells
      BY <2>1 DEF Cells
    <2>3. \A i \in Cells : line[i] \in LineSpeeds
      BY <2>1
    <2> QED
      BY <2>2, <2>3, Tables
  <1>2. 1 \in 1..last
    BY Typed DEF Spanned, Cells
  <1>3. S \subseteq Nat /\ S # {}
    BY <1>1, <1>2
  <1>4. PICK x \in S : \A y \in S : x <= y
    <2> HIDE DEF S
    <2> QED
      BY <1>3, LeastElement
  <1>5. \A i \in 1..last : x <= line[i]
    BY <1>4
  <1>6. \E e \in S : \A i \in 1..last : e <= line[i]
    BY <1>5
  <1>7. Critical \in S
    <2>1. Critical = CHOOSE e \in S : \A i \in 1..last : e <= line[i]
      BY DEF Critical
    <2> HIDE DEF S
    <2> QED
      BY <1>6, <2>1
  <1> QED
    BY <1>3, <1>7

LEMMA RoadKept ==
  ASSUME UNCHANGED road
  PROVE  /\ Critical' = Critical /\ HoldStart' = HoldStart /\ (Avoiding' <=> Avoiding)
         /\ first' = first /\ last' = last /\ room' = room /\ ego' = ego /\ line' = line
  BY DEF road, Critical, HoldStart, Avoiding

\* What a pass that raises no speed keeps of the caps before it.
LEMMA CapsKept ==
  ASSUME ProfileInv, UNCHANGED road, path' \in [Cells -> Nat], \A i \in Cells : path'[i] <= path[i]
  PROVE  /\ path' \in [Cells -> 0..Highest] /\ Spanned'
         /\ pass # "CAP" => AtSide'
         /\ pass \notin {"CAP", "HOLD"} => AtCritical'
         /\ pass \notin {"CAP", "HOLD", "RAMP"} => Approached'
  <1>1. path' \in [Cells -> 0..Highest]
    <2>1. \A i \in Cells : path'[i] \in 0..Highest
      BY Typed, Tables DEF ProfileInv
    <2> QED
      BY <2>1
  <1>2. Spanned'
    BY RoadKept DEF ProfileInv, Spanned
  <1>3. Avoiding => /\ Critical \in Nat /\ AtLeast(Floor, room) \in Nat
                    /\ \A i \in first..last : i \in Cells
    BY CriticalIsNat, Typed DEF ProfileInv, Spanned, Cells
  <1>4. \A i \in Cells : path[i] \in Nat /\ path'[i] \in Nat
    BY Typed DEF ProfileInv
  <1>5. ASSUME pass # "CAP" PROVE AtSide'
    <2>1. Avoiding => \A i \in first..last : path'[i] <= AtLeast(Floor, room)
      BY <1>3, <1>4, <1>5 DEF ProfileInv, AtSide
    <2> QED
      BY <2>1, RoadKept DEF AtSide, Avoiding
  <1>6. ASSUME pass \notin {"CAP", "HOLD"} PROVE AtCritical'
    <2>1. Avoiding => \A i \in first..last : path'[i] <= Critical
      BY <1>3, <1>4, <1>6 DEF ProfileInv, AtCritical
    <2> QED
      BY <2>1, RoadKept DEF AtCritical
  <1>7. ASSUME pass \notin {"CAP", "HOLD", "RAMP"} PROVE Approached'
    <2>1. Avoiding => \A i \in Cells : HoldStart <= i /\ i < first =>
             path'[i] <= AtLeast(Floor, room) /\ path'[i] <= Critical
      BY <1>3, <1>4, <1>7 DEF ProfileInv, Approached
    <2> QED
      BY <2>1, RoadKept DEF Approached
  <1> QED
    BY <1>1, <1>2, <1>5, <1>6, <1>7

-----------------------------------------------------------------------------
(* One pass after the other.                                                 *)

\* No pass before the stop is made touches what the car does.
LEMMA DriveKept ==
  ASSUME ProfileInv, pass # "STOPPING", pass' # "STOPPING", UNCHANGED drive
  PROVE  Stopping'
  BY DEF ProfileInv, Stopping, drive

Lowers == path' \in [Cells -> Nat] /\ \A i \in Cells : path'[i] <= path[i]

LEMMA ProfileInitInv == SpeedProfileInit => ProfileInv
  <1> SUFFICES ASSUME SpeedProfileInit PROVE ProfileInv
    OBVIOUS
  <1>1. N \in Nat /\ N >= 2 /\ Highest \in Nat /\ Nowhere = N + 1 /\ EgoSpeeds \subseteq Nat
        /\ Highest \in LineSpeeds
    BY Tables, SpeedProfileAssumption DEF Nowhere
  <1>2. path \in [Cells -> 0..Highest]
    <2>1. \A i \in Cells : line[i] \in LineSpeeds
      BY DEF SpeedProfileInit
    <2>2. \A e \in LineSpeeds : e \in 0..Highest
      BY Tables
    <2> QED
      BY <2>1, <2>2 DEF SpeedProfileInit
  <1>3. first \in 1..Nowhere /\ last \in first..Nowhere /\ room \in -1..Highest /\ Spanned
    BY <1>1 DEF SpeedProfileInit, Spanned, Avoiding, Cells
  <1>4. raw \in [front : 0..N, cap : LineSpeeds]
    BY <1>1 DEF SpeedProfileInit, NoRaw
  <1>5. SpeedTypeOK
    BY <1>1, <1>2, <1>3, <1>4 DEF SpeedProfileInit, SpeedTypeOK, AtLeast
  <1> QED
    BY <1>3, <1>5 DEF ProfileInv, SpeedProfileInit, AtSide, AtCritical, Approached, Shaped, Stopping

LEMMA CapBySideRoomInv == ASSUME ProfileInv, CapBySideRoom PROVE ProfileInv' /\ Lowers
  <1>1. Lowers /\ \A i \in Cells : i \in first..last => path'[i] <= AtLeast(Floor, room)
    <2>1. ASSUME NEW e \in Nat
          PROVE  GapLimited(e) \in Nat /\ GapLimited(e) <= e /\ GapLimited(e) <= AtLeast(Floor, room)
      BY Typed, SpeedProfileAssumption DEF ProfileInv, GapLimited, AtMost, AtLeast
    <2>2. \A i \in Cells : path'[i] = IF i \in first..last THEN GapLimited(path[i]) ELSE path[i]
      BY DEF CapBySideRoom
    <2>3. \A i \in Cells : path'[i] \in Nat /\ path'[i] <= path[i]
                           /\ (i \in first..last => path'[i] <= AtLeast(Floor, room))
      BY <2>1, <2>2, Typed DEF ProfileInv
    <2>4. path' \in [Cells -> Nat]
      BY <2>3 DEF CapBySideRoom
    <2> QED
      BY <2>3, <2>4 DEF Lowers
  <1>2. path' \in [Cells -> 0..Highest] /\ Spanned'
    BY <1>1, CapsKept DEF Lowers, CapBySideRoom
  <1>3. AtSide'
    <2>1. \A i \in first..last : i \in Cells
      BY Typed DEF ProfileInv, Spanned, Cells, CapBySideRoom
    <2> QED
      BY <1>1, <2>1, RoadKept DEF AtSide, CapBySideRoom
  <1>4. Stopping'
    BY DriveKept DEF CapBySideRoom
  <1>5. SpeedTypeOK'
    BY <1>2 DEF ProfileInv, SpeedTypeOK, CapBySideRoom, road, drive
  <1> QED
    BY <1>1, <1>2, <1>3, <1>4, <1>5, RoadKept
       DEF ProfileInv, CapBySideRoom, AtCritical, Approached, Shaped

LEMMA HandoffLoopInv == ASSUME ProfileInv, HandoffLoop PROVE ProfileInv' /\ Lowers
  <1>1. Lowers
    <2>1. \A i \in Cells : path'[i] \in Nat /\ path'[i] <= path[i]
      BY Typed, SpeedProfileAssumption DEF ProfileInv, HandoffLoop, AtMost
    <2> QED
      BY <2>1 DEF HandoffLoop, Lowers
  <1>2. path' \in [Cells -> 0..Highest] /\ Spanned'
    BY <1>1, CapsKept DEF Lowers, HandoffLoop
  <1>3. Stopping'
    BY DriveKept DEF HandoffLoop
  <1>4. SpeedTypeOK'
    BY <1>2 DEF ProfileInv, SpeedTypeOK, HandoffLoop, road, drive
  <1>5. ~Avoiding'
    BY RoadKept DEF HandoffLoop
  <1> QED
    BY <1>1, <1>2, <1>3, <1>4, <1>5
       DEF ProfileInv, HandoffLoop, AtSide, AtCritical, Approached, Shaped

LEMMA HoldCriticalSpeedInv == ASSUME ProfileInv, HoldCriticalSpeed PROVE ProfileInv' /\ Lowers
  <1>0. Avoiding /\ Critical \in Nat /\ PostHold \in Nat
    BY CriticalIsNat, SpeedProfileAssumption DEF ProfileInv, HoldCriticalSpeed
  <1>1. Lowers /\ \A i \in Cells : i \in first..last => path'[i] <= Critical
    <2>1. \A i \in Cells : path'[i] = IF i \in first..(last + PostHold)
                                      THEN AtMost(path[i], Critical) ELSE path[i]
      BY DEF HoldCriticalSpeed
    <2>2. \A i \in Cells : i \in first..last => i \in first..(last + PostHold)
      BY <1>0, Typed DEF ProfileInv, Cells
    <2>3. \A i \in Cells : path'[i] \in Nat /\ path'[i] <= path[i]
                           /\ (i \in first..last => path'[i] <= Critical)
      BY <1>0, <2>1, <2>2, Typed DEF ProfileInv, AtMost
    <2>4. path' \in [Cells -> Nat]
      BY <2>3 DEF HoldCriticalSpeed
    <2> QED
      BY <2>3, <2>4 DEF Lowers
  <1>2. path' \in [Cells -> 0..Highest] /\ Spanned' /\ AtSide'
    BY <1>1, CapsKept DEF Lowers, HoldCriticalSpeed
  <1>3. AtCritical'
    <2>1. \A i \in first..last : i \in Cells
      BY <1>0, Typed DEF ProfileInv, Spanned, Cells
    <2> QED
      BY <1>1, <2>1, RoadKept DEF AtCritical, HoldCriticalSpeed
  <1>4. Stopping'
    BY DriveKept DEF HoldCriticalSpeed
  <1>5. SpeedTypeOK'
    BY <1>2 DEF ProfileInv, SpeedTypeOK, HoldCriticalSpeed, road, drive
  <1> QED
    BY <1>0, <1>1, <1>2, <1>3, <1>4, <1>5, RoadKept
       DEF ProfileInv, HoldCriticalSpeed, Approached, Shaped

\* The ramp is at its foot when the response delay starts.
LEMMA ApproachRampInv == ASSUME ProfileInv, ApproachRamp PROVE ProfileInv' /\ Lowers
  <1>0. /\ Avoiding /\ first \in Cells /\ last \in first..N /\ HoldStart \in Nat
        /\ RampDecel \in Nat /\ path[first] \in Nat
    <2>1. Avoiding /\ first \in Cells /\ last \in first..N
      BY DEF ProfileInv, Spanned, ApproachRamp
    <2>2. HoldStart \in Nat
      BY Typed, SpeedProfileAssumption DEF ProfileInv, HoldStart, AtLeast
    <2>3. path[first] \in Nat
      BY <2>1, Typed DEF ProfileInv
    <2>4. RampDecel \in Nat
      <3>1. Comfort \in Nat
        BY SpeedProfileAssumption
      <3>2. \A x \in Int : AtLeast(Comfort, x) \in Nat
        BY <3>1 DEF AtLeast
      <3> DEFINE excess == AtLeast(0, ego - path[first])
                 steep == AtLeast(Comfort, AtMost(RampMax, DecelLimitAt(ego)))
                 needed == IF HoldStart = 0 THEN (IF excess = 0 THEN 0 ELSE steep)
                           ELSE (excess + HoldStart - 1) \div HoldStart
      <3>3. excess \in Nat
        BY <2>3, Typed DEF ProfileInv, AtLeast
      <3>4. steep \in Nat
        <4>1. DecelLimitAt(ego) \in Nat
          BY Typed, Tables DEF ProfileInv
        <4>2. RampMax \in Nat
          BY SpeedProfileAssumption
        <4>3. AtMost(RampMax, DecelLimitAt(ego)) \in Int
          BY <4>1, <4>2 DEF AtMost
        <4> QED
          BY <3>2, <4>3
      <3>5. needed \in Int
        <4> HIDE DEF excess, steep
        <4> QED
          BY <2>2, <3>3, <3>4
      <3>6. RampDecel = AtLeast(Comfort, AtMost(needed, steep))
        BY DEF RampDecel
      <3> HIDE DEF needed, steep
      <3> QED
        BY <3>2, <3>4, <3>5, <3>6 DEF AtMost
    <2> QED
      BY <2>1, <2>2, <2>3, <2>4
  <1>1. \A i \in Cells :
          /\ path'[i] \in Nat /\ path'[i] <= path[i]
          /\ HoldStart <= i /\ i < first => path'[i] <= path[first]
    <2> TAKE i \in Cells
    <2>1. path'[i] = IF i >= first THEN path[i]
                     ELSE AtMost(path[i], path[first] + RampDecel * AtLeast(0, HoldStart - i))
      BY DEF ApproachRamp
    <2>2. AtLeast(0, HoldStart - i) \in Nat /\ (HoldStart <= i => AtLeast(0, HoldStart - i) = 0)
      BY <1>0 DEF AtLeast, Cells
    <2>3. RampDecel * AtLeast(0, HoldStart - i) \in Nat /\ RampDecel * 0 = 0
      BY ONLY <1>0, <2>2, Products
    <2>4. path[i] \in Nat /\ first \in Nat /\ i \in Nat
      BY Typed DEF ProfileInv, Cells
    <2>5. CASE i >= first
      BY <2>1, <2>4, <2>5
    <2>6. CASE ~(i >= first)
      <3>1. path'[i] = AtMost(path[i], path[first] + RampDecel * AtLeast(0, HoldStart - i))
        BY <2>1, <2>6
      <3>2. ASSUME HoldStart <= i PROVE path'[i] <= path[first]
        <4>1. path'[i] = AtMost(path[i], path[first] + 0)
          BY <2>2, <2>3, <3>1, <3>2
        <4> QED
          BY <1>0, <2>4, <4>1 DEF AtMost
      <3>3. path'[i] \in Nat /\ path'[i] <= path[i]
        BY <1>0, <2>3, <2>4, <3>1 DEF AtMost
      <3> QED
        BY <3>2, <3>3
    <2> QED
      BY <2>5, <2>6
  <1>2. Lowers
    BY <1>1 DEF ApproachRamp, Lowers
  <1>3. path' \in [Cells -> 0..Highest] /\ Spanned' /\ AtSide' /\ AtCritical'
    BY <1>2, CapsKept DEF Lowers, ApproachRamp
  <1>4. Approached'
    <2>1. first \in first..last
      BY <1>0, Typed DEF ProfileInv
    <2>2. path[first] <= AtLeast(Floor, room) /\ path[first] <= Critical
      BY <1>0, <2>1 DEF ProfileInv, AtSide, AtCritical, ApproachRamp
    <2>3. Critical \in Nat /\ AtLeast(Floor, room) \in Nat
      BY <1>0, CriticalIsNat, Typed DEF ProfileInv
    <2>4. \A i \in Cells : HoldStart <= i /\ i < first =>
             path'[i] <= AtLeast(Floor, room) /\ path'[i] <= Critical
      BY <1>0, <1>1, <2>2, <2>3
    <2> QED
      BY <2>4, RoadKept DEF Approached, ApproachRamp
  <1>5. Stopping'
    BY DriveKept DEF ApproachRamp
  <1>6. SpeedTypeOK'
    BY <1>3 DEF ProfileInv, SpeedTypeOK, ApproachRamp, road, drive
  <1> QED
    BY <1>2, <1>3, <1>4, <1>5, <1>6 DEF ProfileInv, ApproachRamp, Shaped

LEMMA AccelerationPassInv == ASSUME ProfileInv, AccelerationPass PROVE ProfileInv' /\ Lowers
  <1>0. /\ path \in [Cells -> Nat] /\ Forward \in [0..N -> Nat] /\ Forward[0] = AtLeast(Launch, ego)
        /\ \A i \in Cells :
             Forward[i] = AtMost(path[i], Forward[i - 1] + AccelLimitAt(Forward[i - 1]))
    BY Typed, ForwardDef DEF ProfileInv
  <1>1. \A i \in Cells : i \in 0..N /\ i - 1 \in 0..N /\ (i # 1 => i - 1 \in Cells) /\ 1 - 1 = 0
    BY Tables DEF Cells
  <1>2. \A i \in Cells : path'[i] = Forward[i]
    BY DEF AccelerationPass
  <1>3. \A i \in Cells : /\ path'[i] \in Nat /\ path'[i] <= path[i]
                         /\ path'[i] <= Forward[i - 1] + AccelLimitAt(Forward[i - 1])
    <2> TAKE i \in Cells
    <2>1. Forward[i - 1] \in Nat /\ path[i] \in Nat /\ Forward[i] \in Nat
      BY <1>0, <1>1
    <2>2. AccelLimitAt(Forward[i - 1]) \in Nat
      BY <2>1, Tables
    <2> QED
      BY <1>0, <1>2, <2>1, <2>2 DEF AtMost
  <1>4. Lowers
    BY <1>3 DEF AccelerationPass, Lowers
  <1>5. path' \in [Cells -> 0..Highest] /\ Spanned' /\ AtSide' /\ AtCritical' /\ Approached'
    BY <1>4, CapsKept DEF Lowers, AccelerationPass
  <1>6. Reachable'
    <2>1. \A i \in Cells : Before(i)' = Forward[i - 1]
      BY <1>0, <1>1, <1>2, RoadKept DEF Before, AccelerationPass
    <2> QED
      BY <1>3, <2>1 DEF Reachable, AccelLimitAt
  <1>7. Stopping'
    BY DriveKept DEF AccelerationPass
  <1>8. SpeedTypeOK'
    BY <1>5 DEF ProfileInv, SpeedTypeOK, AccelerationPass, road, drive
  <1> QED
    BY <1>4, <1>5, <1>6, <1>7, <1>8 DEF ProfileInv, AccelerationPass, Shaped

LEMMA BrakingPassInv == ASSUME ProfileInv, BrakingPass PROVE ProfileInv' /\ Lowers
  <1>0. /\ path \in [Cells -> Nat] /\ Backward \in [Cells -> Nat] /\ Backward[N] = path[N]
        /\ \A i \in 1..(N - 1) : Backward[i] = Braked(path[i], Backward[i + 1])
    BY Typed, BackwardDef DEF ProfileInv
  <1>1. \A i \in Cells : path'[i] = Backward[i] /\ path[i] \in Nat /\ path'[i] \in Nat
    BY <1>0 DEF BrakingPass
  <1>2. \A i \in Cells : path'[i] <= path[i] /\ (i = N \/ i \in 1..(N - 1))
    <2> TAKE i \in Cells
    <2>1. i = N \/ (i \in 1..(N - 1) /\ i + 1 \in Cells)
      BY Tables DEF Cells
    <2>2. ASSUME i \in 1..(N - 1), i + 1 \in Cells PROVE Backward[i] <= path[i]
      <3>1. AtLeast(path[i], Backward[i + 1]) \in Int /\ Backward[i + 1] \in Nat
        BY <1>0, <2>2 DEF AtLeast
      <3>2. DecelLimitAt(AtLeast(path[i], Backward[i + 1])) \in Nat
        BY <3>1, Tables
      <3> QED
        BY <1>0, <1>1, <2>2, <3>1, <3>2 DEF Braked, AtMost
    <2> QED
      BY <1>0, <1>1, <2>1, <2>2
  <1>3. Lowers
    BY <1>1, <1>2 DEF BrakingPass, Lowers
  <1>4. path' \in [Cells -> 0..Highest] /\ Spanned' /\ AtSide' /\ AtCritical' /\ Approached'
    BY <1>3, CapsKept DEF Lowers, BrakingPass
  <1>5. Reachable
    BY DEF ProfileInv, Shaped, BrakingPass
  \* a cell after the first, and the one before it
  <1>6. ASSUME NEW i \in Cells, i > 1
        PROVE  /\ path'[i] <= path'[i - 1] + AccelLimitAt(path'[i - 1])
               /\ path'[i - 1] - path'[i] <= DecelLimitAt(path'[i - 1])
    <2>1. i - 1 \in 1..(N - 1) /\ i - 1 \in Cells /\ (i - 1) + 1 = i /\ i # 1
      BY <1>6, Tables DEF Cells
    <2> DEFINE e == path[i - 1]
               was == path[i]
               next == path'[i]
               now == path'[i - 1]
    <2>2. e \in Nat /\ was \in Nat /\ next \in Nat /\ now \in Nat /\ next <= was /\ now <= e
      BY <1>1, <1>2, <2>1
    <2>3. now = AtMost(e, next + DecelLimitAt(AtLeast(e, next)))
      BY <1>0, <1>1, <2>1 DEF Braked
    <2>4. was <= e + AccelLimitAt(e)
      BY <1>5, <2>1 DEF Reachable, Before
    <2> HIDE DEF e, was, next, now
    <2>5. AtLeast(e, next) \in Nat
      BY <2>2 DEF AtLeast
    <2>6. /\ AccelLimitAt(e) \in Nat /\ AccelLimitAt(now) \in Nat /\ DecelLimitAt(now) \in Nat
          /\ DecelLimitAt(AtLeast(e, next)) \in Nat
      BY <2>2, <2>5, Tables
    <2>7. next <= now + AccelLimitAt(now)
      <3>1. CASE now = e
        BY <2>2, <2>4, <2>6, <3>1
      <3>2. CASE now = next + DecelLimitAt(AtLeast(e, next))
        BY <2>2, <2>6, <3>2
      <3> QED
        BY <2>3, <3>1, <3>2 DEF AtMost
    <2>8. now - next <= DecelLimitAt(now)
      <3>1. CASE now <= next
        BY <2>2, <2>6, <3>1
      <3>2. CASE now > next
        <4>1. AtLeast(e, next) = e
          BY <2>2, <3>2 DEF AtLeast
        <4>2. now <= next + DecelLimitAt(e) /\ DecelLimitAt(e) \in Nat
          BY <2>2, <2>3, <2>6, <4>1 DEF AtMost
        <4>3. DecelLimitAt(e) <= DecelLimitAt(now)
          BY <2>2, Tables
        <4> QED
          BY <2>2, <2>6, <4>2, <4>3
      <3> QED
        BY <2>2, <3>1, <3>2
    <2> QED
      BY <2>7, <2>8 DEF now, next
  <1>7. Reachable'
    <2>1. ASSUME NEW i \in Cells PROVE path'[i] <= Before(i)' + AccelLimitAt(Before(i)')
      <3>1. CASE i = 1
        <4>1. Before(i)' = Before(i)
          BY <3>1, RoadKept DEF Before, BrakingPass
        <4>2. path[i] <= Before(i) + AccelLimitAt(Before(i))
          BY <1>5 DEF Reachable
        <4>3. Before(i) \in Nat
          BY <3>1, Typed DEF ProfileInv, Before
        <4> QED
          BY <1>1, <1>2, <4>1, <4>2, <4>3, Tables
      <3>2. CASE i # 1
        <4>1. i > 1 /\ Before(i)' = path'[i - 1]
          BY <3>2 DEF Before, Cells
        <4> QED
          BY <1>6, <4>1
      <3> QED
        BY <3>1, <3>2
    <2> QED
      BY <2>1 DEF Reachable, AccelLimitAt
  <1>8. Brakable(DecelLimitAt)'
    BY <1>6 DEF Brakable, DecelLimitAt
  <1>9. Stopping'
    BY DriveKept DEF BrakingPass
  <1>10. SpeedTypeOK'
    BY <1>4 DEF ProfileInv, SpeedTypeOK, BrakingPass, road, drive
  <1> QED
    BY <1>3, <1>4, <1>7, <1>8, <1>9, <1>10 DEF ProfileInv, BrakingPass, Shaped

\* Between two cells the slow-down brakes at its own rate or releases at the table's.
LEMMA SlowDown ==
  ASSUME ProfileInv, NEW front \in Cells, NEW cap \in Nat, NEW slow,
         slow.front = front, slow.cap = cap
  PROVE  \E limit \in [Cells -> Nat] :
           /\ Overlay(path, slow) = [i \in Cells |-> AtMost(path[i], limit[i])]
           /\ \A i \in Cells : i > 1 =>
                \/ limit[i] <= limit[i - 1] /\ limit[i - 1] <= limit[i] + RawDecel
                \/ limit[i] = Released(AtMost(path[i - 1], limit[i - 1]))
  <1>1. path \in [Cells -> Nat]
    BY Typed DEF ProfileInv
  <1>2. PICK limit \in [Cells -> Nat] :
           /\ Overlay(path, slow) = [i \in Cells |-> AtMost(path[i], limit[i])]
           /\ \A i \in Cells :
                /\ i <= front => limit[i] = cap + RawDecel * (front - i)
                /\ i > front /\ i <= front + PostHold => limit[i] = cap
                /\ i > front + PostHold =>
                     limit[i] = Released(AtMost(path[i - 1], limit[i - 1]))
    BY <1>1, OverlayDef
  <1>3. ASSUME NEW i \in Cells, i > 1
        PROVE  \/ limit[i] <= limit[i - 1] /\ limit[i - 1] <= limit[i] + RawDecel
               \/ limit[i] = Released(AtMost(path[i - 1], limit[i - 1]))
    <2>0. i - 1 \in Cells
      BY <1>3, Tables DEF Cells
    <2>1. /\ i - 1 \in Cells /\ i \in Nat /\ front \in Nat /\ PostHold \in Nat /\ RawDecel \in Nat
          /\ limit[i] \in Nat /\ limit[i - 1] \in Nat
      <3>1. PostHold \in Nat /\ RawDecel \in Nat
        BY SpeedProfileAssumption
      <3>3. i \in Nat /\ front \in Nat
        BY Tables DEF Cells
      <3>2. limit[i] \in Nat /\ limit[i - 1] \in Nat
        BY <2>0
      <3> QED
        BY <2>0, <3>1, <3>2, <3>3
    <2>2. CASE i <= front
      <3>1. front - i \in Nat /\ front - (i - 1) = (front - i) + 1 /\ i - 1 <= front
        BY <2>1, <2>2
      <3>2. RawDecel * ((front - i) + 1) = RawDecel * (front - i) + RawDecel
            /\ RawDecel * (front - i) \in Nat
        BY ONLY <2>1, <3>1, Products
      <3>3. limit[i] = cap + RawDecel * (front - i)
        BY <1>2, <2>2
      <3>4. limit[i - 1] = cap + RawDecel * ((front - i) + 1)
        BY <1>2, <2>1, <3>1
      <3> QED
        BY ONLY <2>1, <3>2, <3>3, <3>4, cap \in Nat
    <2>3. CASE i > front /\ i <= front + PostHold
      <3>1. limit[i] = cap
        BY <1>2, <2>3
      <3>2. limit[i - 1] = cap
        <4>1. CASE i - 1 > front
          BY <1>2, <2>1, <2>3, <4>1
        <4>2. CASE ~(i - 1 > front)
          <5>1. i - 1 <= front /\ front - (i - 1) = 0
            BY <2>1, <2>3, <4>2
          <5>2. limit[i - 1] = cap + RawDecel * 0
            BY <1>2, <2>1, <5>1
          <5> QED
            BY <2>1, <5>2
        <4> QED
          BY <4>1, <4>2
      <3> QED
        BY <2>1, <3>1, <3>2
    <2>4. CASE i > front + PostHold
      BY <1>2, <2>4
    <2> QED
      BY <2>1, <2>2, <2>3, <2>4
  <1> QED
    BY <1>2, <1>3

\* The slow-down leaves a path that can be driven.
LEMMA PublishInv == ASSUME ProfileInv, Publish PROVE ProfileInv' /\ Lowers
  <1>0. /\ path \in [Cells -> Nat] /\ \A i \in Cells : path[i] \in Nat
        /\ Reachable /\ Brakable(DecelLimitAt)
    BY Typed DEF ProfileInv, Shaped, Publish
  <1>1. \A i \in Cells : i > 1 => i - 1 \in Cells /\ i # 1
    BY Tables DEF Cells
  <1>2. Lowers /\ Reachable' /\ Brakable(TableOrRaw)' /\ raw' \in [front : 0..N, cap : LineSpeeds]
    <2>1. CASE UNCHANGED <<path, raw>>
      <3>1. Lowers
        <4>1. \A i \in Cells : path'[i] = path[i]
          BY <2>1
        <4> QED
          BY <1>0, <2>1, <4>1 DEF Lowers
      <3>2. Reachable'
        BY <1>0, <2>1, RoadKept DEF Reachable, Before, AccelLimitAt, Publish
      <3>3. ASSUME NEW i \in Cells, i > 1 PROVE path[i - 1] - path[i] <= TableOrRaw(path[i - 1])
        <4>1. path[i - 1] \in Nat /\ path[i] \in Nat /\ RawDecel \in Nat
          BY <1>0, <1>1, <3>3, SpeedProfileAssumption
        <4>2. DecelLimitAt(path[i - 1]) \in Nat
          BY <4>1, Tables
        <4>3. path[i - 1] - path[i] <= DecelLimitAt(path[i - 1])
          BY <1>0, <3>3 DEF Brakable
        <4> QED
          BY <4>1, <4>2, <4>3 DEF TableOrRaw, AtLeast
      <3>4. Brakable(TableOrRaw)'
        BY <2>1, <3>3 DEF Brakable, TableOrRaw, DecelLimitAt
      <3> QED
        BY <2>1, <3>1, <3>2, <3>4 DEF ProfileInv, SpeedTypeOK
    <2>2. ASSUME NEW front \in Cells, NEW cap \in LineSpeeds \ {0},
                 raw' = [front |-> front, cap |-> cap], path' = Overlay(path, raw')
          PROVE  Lowers /\ Reachable' /\ Brakable(TableOrRaw)'
                 /\ raw' \in [front : 0..N, cap : LineSpeeds]
      <3>1. raw'.front = front /\ raw'.cap = cap /\ cap \in Nat
            /\ raw' \in [front : 0..N, cap : LineSpeeds]
        BY <2>2, Tables DEF Cells
      <3>2. PICK limit \in [Cells -> Nat] :
               /\ Overlay(path, raw') = [i \in Cells |-> AtMost(path[i], limit[i])]
               /\ \A i \in Cells : i > 1 =>
                    \/ limit[i] <= limit[i - 1] /\ limit[i - 1] <= limit[i] + RawDecel
                    \/ limit[i] = Released(AtMost(path[i - 1], limit[i - 1]))
        <4>1. \A slow : slow.front = front /\ slow.cap = cap =>
                \E limit \in [Cells -> Nat] :
                   /\ Overlay(path, slow) = [i \in Cells |-> AtMost(path[i], limit[i])]
                   /\ \A i \in Cells : i > 1 =>
                        \/ limit[i] <= limit[i - 1] /\ limit[i - 1] <= limit[i] + RawDecel
                        \/ limit[i] = Released(AtMost(path[i - 1], limit[i - 1]))
          BY <3>1, SlowDown
        <4> QED
          BY <3>1, <4>1
      <3>3. \A i \in Cells : path'[i] = AtMost(path[i], limit[i])
        BY <2>2, <3>2
      <3>4. \A i \in Cells : path'[i] \in Nat /\ path'[i] <= path[i] /\ limit[i] \in Nat
        BY <1>0, <3>2, <3>3 DEF AtMost
      <3>5. path' = [i \in Cells |-> AtMost(path[i], limit[i])]
        BY <2>2, <3>2
      <3>6. Lowers
        BY <3>4, <3>5 DEF Lowers
      <3>7. ASSUME NEW i \in Cells, i > 1
            PROVE  /\ path'[i] <= path'[i - 1] + AccelLimitAt(path'[i - 1])
                   /\ path'[i - 1] - path'[i] <= TableOrRaw(path'[i - 1])
        <4> DEFINE e == path[i - 1]
                   was == path[i]
                   m == limit[i - 1]
                   l == limit[i]
                   now == path'[i - 1]
                   next == path'[i]
        <4>1. i - 1 \in Cells
          BY <1>1, <3>7
        <4>2. /\ e \in Nat /\ was \in Nat /\ m \in Nat /\ l \in Nat /\ now \in Nat /\ next \in Nat
              /\ now = AtMost(e, m) /\ next = AtMost(was, l) /\ RawDecel \in Nat
          BY <1>0, <3>3, <3>4, <4>1, SpeedProfileAssumption
        <4>3. (l <= m /\ m <= l + RawDecel) \/ l = Released(AtMost(e, m))
          BY <3>2, <3>7
        <4>4. was <= e + AccelLimitAt(e)
          <5>1. Before(i) = e
            BY <1>1, <3>7 DEF Before
          <5> QED
            BY <1>0, <5>1 DEF Reachable
        <4>5. e - was <= DecelLimitAt(e)
          BY <1>0, <3>7 DEF Brakable
        <4> HIDE DEF e, was, m, l, now, next
        <4>6. /\ AccelLimitAt(e) \in Nat /\ AccelLimitAt(now) \in Nat /\ DecelLimitAt(now) \in Nat
              /\ DecelLimitAt(e) \in Nat /\ now <= e /\ DecelLimitAt(e) <= DecelLimitAt(now)
          <5>1. now <= e /\ now \in Int /\ e \in Int
            BY <4>2 DEF AtMost
          <5> QED
            BY <5>1, Tables
        <4>7. TableOrRaw(now) >= DecelLimitAt(now) /\ TableOrRaw(now) >= RawDecel
              /\ TableOrRaw(now) \in Nat
          BY <4>2, <4>6 DEF TableOrRaw, AtLeast
        <4>8. l = Released(AtMost(e, m)) => l = now + AccelLimitAt(now)
          BY <4>2 DEF Released
        <4>9. next <= now + AccelLimitAt(now)
          <5>1. CASE now = e
            BY <4>2, <4>4, <4>6, <5>1 DEF AtMost
          <5>2. CASE now = m
            BY <4>2, <4>3, <4>6, <4>8, <5>2 DEF AtMost
          <5> QED
            BY <4>2, <5>1, <5>2 DEF AtMost
        <4>10. now - next <= TableOrRaw(now)
          <5>1. CASE next = was
            BY <4>2, <4>5, <4>6, <4>7, <5>1
          <5>2. CASE next = l
            <6>1. now <= m
              BY <4>2 DEF AtMost
            <6> QED
              BY <4>2, <4>3, <4>6, <4>7, <4>8, <5>2, <6>1
          <5> QED
            BY <4>2, <5>1, <5>2 DEF AtMost
        <4> QED
          BY <4>9, <4>10 DEF now, next
      <3>8. Reachable'
        <4>1. ASSUME NEW i \in Cells PROVE path'[i] <= Before(i)' + AccelLimitAt(Before(i)')
          <5>1. CASE i = 1
            <6>1. Before(i)' = Before(i)
              BY <5>1, RoadKept DEF Before, Publish
            <6>2. path[i] <= Before(i) + AccelLimitAt(Before(i))
              BY <1>0 DEF Reachable
            <6>3. Before(i) \in Nat
              BY <5>1, Typed DEF ProfileInv, Before
            <6>4. AccelLimitAt(Before(i)) \in Nat
              BY <6>3, Tables
            <6>5. path[i] \in Nat /\ path'[i] \in Nat /\ path'[i] <= path[i]
              BY <1>0, <3>4
            <6> QED
              BY <6>1, <6>2, <6>3, <6>4, <6>5
          <5>2. CASE i # 1
            <6>1. i > 1 /\ Before(i)' = path'[i - 1]
              BY <5>2 DEF Before, Cells
            <6> QED
              BY <3>7, <6>1
          <5> QED
            BY <5>1, <5>2
        <4> QED
          BY <4>1 DEF Reachable, AccelLimitAt
      <3>9. Brakable(TableOrRaw)'
        BY <3>7 DEF Brakable, TableOrRaw, DecelLimitAt
      <3> QED
        BY <3>1, <3>6, <3>8, <3>9
    <2> QED
      BY <2>1, <2>2 DEF Publish
  <1>3. path' \in [Cells -> 0..Highest] /\ Spanned' /\ AtSide' /\ AtCritical' /\ Approached'
    BY <1>2, CapsKept DEF Lowers, Publish
  <1>4. Stopping'
    BY DriveKept DEF Publish
  <1>5. SpeedTypeOK'
    BY <1>2, <1>3 DEF ProfileInv, SpeedTypeOK, Publish, road, drive
  <1> QED
    BY <1>2, <1>3, <1>4, <1>5 DEF ProfileInv, Publish, Shaped

-----------------------------------------------------------------------------
(* The stop.                                                                 *)

\* The unpublished path is the published one.
LEMMA SamePath == ASSUME ProfileInv, path' = path PROVE Lowers
  <1>1. path \in [Cells -> Nat] /\ \A i \in Cells : path[i] \in Nat
    BY Typed DEF ProfileInv
  <1>2. \A i \in Cells : path'[i] = path[i]
    OBVIOUS
  <1> QED
    BY <1>1, <1>2 DEF Lowers

LEMMA ObstacleAppearsInv == ASSUME ProfileInv, ObstacleAppears PROVE ProfileInv' /\ Lowers
  <1>1. Lowers /\ path' = path
    BY SamePath DEF ObstacleAppears
  <1>2. ~Avoiding'
    BY DEF Avoiding, ObstacleAppears
  <1>3. SpeedTypeOK'
    <2>1. line' \in [Cells -> LineSpeeds] /\ room' \in -1..Highest
      BY Tables DEF ObstacleAppears
    <2>2. raw' \in [front : 0..N, cap : LineSpeeds]
      BY Tables DEF ObstacleAppears, NoRaw
    <2>3. first' \in 1..Nowhere /\ last' \in first'..Nowhere
      BY Tables DEF ObstacleAppears, Nowhere
    <2> QED
      BY <2>1, <2>2, <2>3 DEF ProfileInv, SpeedTypeOK, ObstacleAppears
  <1>4. Stopping'
    BY DEF ProfileInv, Stopping, ObstacleAppears
  <1> QED
    BY <1>1, <1>2, <1>3, <1>4
       DEF ProfileInv, ObstacleAppears, Spanned, AtSide, AtCritical, Approached, Shaped

LEMMA CommittedPathRejectedInv ==
  ASSUME ProfileInv, CommittedPathRejected PROVE ProfileInv' /\ Lowers
  <1>1. Lowers /\ path' = path
    BY SamePath DEF CommittedPathRejected
  <1>2. path' \in [Cells -> 0..Highest] /\ Spanned' /\ AtSide' /\ AtCritical' /\ Approached'
    BY <1>1, CapsKept DEF Lowers, CommittedPathRejected
  <1>3. Stopping'
    BY DriveKept DEF CommittedPathRejected
  <1>4. SpeedTypeOK'
    BY <1>2 DEF ProfileInv, SpeedTypeOK, CommittedPathRejected, road, drive
  <1> QED
    BY <1>1, <1>2, <1>3, <1>4 DEF ProfileInv, CommittedPathRejected, Shaped

\* What is left of the braking distance.
LEMMA SlackIs ==
  ASSUME ProfileInv
  PROVE  /\ \A i \in Nat : i < contact => Slack(i) \in Nat
         /\ \A i \in Nat : i + 1 < contact => Slack(i) = Slack(i + 1) + Brakes
         /\ Slack(0) = (contact - 1) * Brakes
         /\ contact >= 1 => Slack(contact - 1) = 0
  <1>1. contact \in Nat /\ Brakes \in Nat
    BY Typed, SpeedProfileAssumption DEF ProfileInv
  <1>2. ASSUME NEW i \in Nat, i < contact PROVE Slack(i) \in Nat
    <2>1. contact - 1 - i \in Nat
      BY <1>1, <1>2
    <2> QED
      BY ONLY <1>1, <2>1, Products DEF Slack
  <1>3. ASSUME NEW i \in Nat, i + 1 < contact PROVE Slack(i) = Slack(i + 1) + Brakes
    <2>1. PICK k \in Nat : k = contact - 1 - (i + 1)
      BY <1>1, <1>3
    <2>2. contact - 1 - i = k + 1
      BY <1>1, <2>1
    <2>3. (k + 1) * Brakes = k * Brakes + Brakes
      BY ONLY <1>1, <2>1, Products
    <2> QED
      BY <2>1, <2>2, <2>3 DEF Slack
  <1>4. Slack(0) = (contact - 1) * Brakes
    <2>1. contact - 1 - 0 = contact - 1
      BY <1>1
    <2> QED
      BY <2>1 DEF Slack
  <1>5. contact >= 1 => Slack(contact - 1) = 0
    <2>1. contact - 1 - (contact - 1) = 0 /\ 0 * Brakes = 0
      BY <1>1
    <2> QED
      BY <2>1 DEF Slack
  <1> QED
    BY <1>2, <1>3, <1>4, <1>5

\* Speeds that brake at the stop's deceleration to zero before the contact leave the
\* car its braking distance.
LEMMA StopInv ==
  ASSUME ProfileInv, pass # "CAP", pass \notin {"HOLD", "RAMP", "STOPPING"},
         NEW end \in Int, end > 1 => end <= contact - 1,
         NEW speeds, StopAt(end, speeds),
         \A i \in Cells : i < end => /\ speeds[i] \in Nat /\ speeds[i] <= path[i]
                                     /\ speeds[i] <= StopDecel * (end - i)
  PROVE  ProfileInv' /\ Lowers
  <1>0. /\ \A i \in Cells : path[i] \in Nat
        /\ contact \in Nat /\ contact >= 1 /\ ego \in Nat /\ Highest \in Nat
        /\ StopDecel \in Nat /\ Brakes \in Nat /\ StopDecel <= Brakes
    BY Typed, Tables, SpeedProfileAssumption DEF ProfileInv
  <1>1. \A i \in Cells : path'[i] = IF i < end THEN speeds[i] ELSE 0
    BY DEF StopAt
  <1>2. Lowers
    <2>1. \A i \in Cells : path'[i] \in Nat /\ path'[i] <= path[i]
      BY <1>0, <1>1
    <2> QED
      BY <2>1 DEF Lowers, StopAt
  <1>3. path' \in [Cells -> 0..Highest] /\ Spanned' /\ AtSide' /\ AtCritical' /\ Approached'
    BY <1>2, CapsKept DEF Lowers, StopAt
  <1>4. \A i \in Cells : i >= contact => path'[i] = 0
    <2>1. \A i \in Cells : i >= contact => ~(i < end)
      BY <1>0 DEF Cells
    <2> QED
      BY <1>1, <2>1
  <1>5. ASSUME NEW i \in Cells, i < contact PROVE path'[i] <= Slack(i)
    <2>1. i \in Nat /\ i >= 1
      BY DEF Cells
    <2>2. Slack(i) \in Nat
      BY <1>5, <2>1, SlackIs
    <2>3. CASE i < end
      <3>1. PICK k \in Nat : k = end - i
        BY <2>1, <2>3
      <3>2. PICK m \in Nat : m = contact - 1 - i /\ k <= m
        BY <1>0, <2>1, <2>3, <3>1
      <3>3. StopDecel * k <= Brakes * k /\ Brakes * k <= Brakes * m
        BY ONLY <1>0, <3>1, <3>2, Products
      <3>4. Slack(i) = Brakes * m
        BY ONLY <1>0, <3>2, Products DEF Slack
      <3>5. path'[i] \in Nat /\ path'[i] <= StopDecel * k
        BY <1>1, <2>3, <3>1
      <3>6. StopDecel * k \in Nat /\ Brakes * k \in Nat /\ Brakes * m \in Nat
        BY ONLY <1>0, <3>1, <3>2, Products
      <3> QED
        BY ONLY <3>3, <3>4, <3>5, <3>6
    <2>4. CASE ~(i < end)
      BY <1>1, <2>2, <2>4
    <2> QED
      BY <2>3, <2>4
  <1>6. car' = 0 /\ contact' = contact /\ ego' = ego /\ moving' = ego /\ pass' = "STOPPING"
    BY DEF ProfileInv, Stopping, StopAt, road
  <1>7. Stopping'
    <2>1. Slack(0)' = (contact - 1) * Brakes /\ \A i \in Cells : Slack(i)' = Slack(i)
      BY <1>6, SlackIs DEF Slack
    <2>2. car' < contact'
      BY <1>0, <1>6
    <2>3. Slack(car)' = (contact - 1) * Brakes
      BY <1>6, <2>1 DEF Slack
    <2> QED
      BY <1>4, <1>5, <1>6, <2>1, <2>2, <2>3 DEF Stopping
  <1>8. SpeedTypeOK'
    <2>1. moving' \in 0..AtLeast(Highest, ego')
      BY <1>0, <1>6 DEF AtLeast
    <2>2. car' \in 0..N
      BY <1>6, Tables
    <2> QED
      BY <1>3, <2>1, <2>2 DEF ProfileInv, SpeedTypeOK, StopAt, road
  <1> QED
    BY <1>2, <1>3, <1>6, <1>7, <1>8 DEF ProfileInv, Shaped

LEMMA CommittedPathStopInv == ASSUME ProfileInv, CommittedPathStop PROVE ProfileInv' /\ Lowers
  <1>0. /\ path \in [Cells -> Nat] /\ \A i \in Cells : path[i] \in Nat
        /\ contact \in Nat /\ contact <= N /\ N \in Nat /\ StopDecel \in Nat
        /\ Buffer \in Nat /\ Buffer >= 1 /\ Nowhere = N + 1
    BY Typed, SpeedProfileAssumption DEF ProfileInv, CommittedPathStop
  <1>1. PrefixEnd \in Int /\ PrefixEnd <= contact - 1 /\ PrefixEnd <= N /\ PrefixEnd >= 2
    BY <1>0 DEF CommittedPathStop, PrefixEnd
  <1>2. /\ Brake \in [1..Nowhere -> Nat]
        /\ \A i \in 1..Nowhere : i >= PrefixEnd => Brake[i] = 0
        /\ \A i \in Cells : i < PrefixEnd => Brake[i] = AtMost(path[i], Brake[i + 1] + StopDecel)
    BY <1>0, <1>1, BrakeDef
  <1>3. \A i \in Cells : i \in 1..Nowhere /\ i + 1 \in 1..Nowhere
    BY <1>0 DEF Cells
  <1>4. ASSUME NEW i \in Cells, i < PrefixEnd
        PROVE  Brake[i] \in Nat /\ Brake[i] <= path[i] /\ Brake[i] <= Brake[i + 1] + StopDecel
    <2>1. Brake[i] \in Nat /\ Brake[i + 1] \in Nat
      BY <1>2, <1>3
    <2> QED
      BY <1>0, <1>2, <1>4, <2>1 DEF AtMost
  <1>5. \A k \in 0..(PrefixEnd - 1) : Brake[PrefixEnd - k] <= StopDecel * k
    <2> DEFINE P == {k \in 0..(PrefixEnd - 1) : Brake[PrefixEnd - k] <= StopDecel * k}
    <2>1. 0 \in P
      <3>1. PrefixEnd - 0 \in 1..Nowhere /\ PrefixEnd - 0 >= PrefixEnd /\ StopDecel * 0 = 0
        BY <1>0, <1>1
      <3>2. Brake[PrefixEnd - 0] = 0
        BY <1>2, <3>1
      <3> QED
        BY <1>1, <3>1, <3>2
    <2>2. ASSUME NEW k \in 0..((PrefixEnd - 1) - 1), k \in P PROVE k + 1 \in P
      <3>1. /\ PrefixEnd - (k + 1) \in Cells /\ PrefixEnd - (k + 1) < PrefixEnd
            /\ (PrefixEnd - (k + 1)) + 1 = PrefixEnd - k /\ k \in Nat /\ k + 1 \in 0..(PrefixEnd - 1)
            /\ PrefixEnd - k \in 1..Nowhere
        BY <2>2, <1>0, <1>1 DEF Cells
      <3>2. Brake[PrefixEnd - (k + 1)] <= Brake[PrefixEnd - k] + StopDecel
            /\ Brake[PrefixEnd - (k + 1)] \in Nat /\ Brake[PrefixEnd - k] \in Nat
        BY <1>2, <1>4, <3>1
      <3>3. Brake[PrefixEnd - k] <= StopDecel * k
        BY <2>2
      <3>4. StopDecel * (k + 1) = StopDecel * k + StopDecel /\ StopDecel * k \in Nat
        BY ONLY <1>0, <3>1, Products
      <3>5. Brake[PrefixEnd - (k + 1)] <= StopDecel * (k + 1)
        BY ONLY <1>0, <3>2, <3>3, <3>4
      <3> QED
        BY <3>1, <3>5
    <2>3. PrefixEnd - 1 \in Nat
      BY <1>1
    <2> HIDE DEF P
    <2>4. \A k \in 0..(PrefixEnd - 1) : k \in P
      BY <2>1, <2>2, <2>3, SetInduction
    <2> QED
      BY <2>4 DEF P
  <1>6. \A i \in Cells : i < PrefixEnd => Brake[i] <= StopDecel * (PrefixEnd - i)
    <2>1. \A i \in Cells : i < PrefixEnd =>
            PrefixEnd - i \in 0..(PrefixEnd - 1) /\ PrefixEnd - (PrefixEnd - i) = i
      BY <1>0, <1>1 DEF Cells
    <2> QED
      BY <1>5, <2>1
  <1>7. StopAt(PrefixEnd, Brake) /\ pass = "COMMITTED"
    BY DEF CommittedPathStop
  <1> QED
    BY <1>1, <1>4, <1>6, <1>7, StopInv

LEMMA LastIncludedIs ==
  ASSUME ProfileInv, Included # {}
  PROVE  LastIncluded \in Cells /\ LastIncluded < contact
  <1> DEFINE T == {N - i : i \in Included}
  <1>1. \A i \in Included : i \in Cells /\ N - i \in Nat /\ i \in Nat /\ i < contact
    BY Tables DEF Included, Cells
  <1>2. T \subseteq Nat /\ T # {}
    BY <1>1
  <1>3. PICK x \in T : \A y \in T : x <= y
    <2> HIDE DEF T
    <2> QED
      BY <1>2, LeastElement
  <1>4. PICK i \in Included : x = N - i
    BY <1>3
  <1>5. \A other \in Included : other <= i
    <2> TAKE other \in Included
    <2>1. x <= N - other
      BY <1>3
    <2> QED
      BY <1>1, <1>4, <2>1, Tables
  <1>6. LastIncluded \in Included
    BY <1>5 DEF LastIncluded
  <1> QED
    BY <1>1, <1>6

LEMMA LastPathBrakeInv == ASSUME ProfileInv, LastPathBrake PROVE ProfileInv' /\ Lowers
  <1>1. LastIncluded \in Cells /\ LastIncluded < contact
    BY LastIncludedIs DEF LastPathBrake
  <1>2. LastIncluded \in Int /\ contact \in Nat /\ StopDecel \in Nat /\ LastIncluded <= contact - 1
    <2>1. contact \in Nat
      BY Typed DEF ProfileInv
    <2>2. StopDecel \in Nat
      BY SpeedProfileAssumption
    <2> QED
      BY <1>1, <2>1, <2>2 DEF Cells
  <1> DEFINE speeds == [i \in Cells |-> AtMost(path[i], StopDecel * (LastIncluded - i))]
  <1>3. ASSUME NEW i \in Cells, i < LastIncluded
        PROVE  /\ speeds[i] \in Nat /\ speeds[i] <= path[i]
               /\ speeds[i] <= StopDecel * (LastIncluded - i)
    <2>1. PICK k \in Nat : k = LastIncluded - i
      BY <1>2, <1>3 DEF Cells
    <2>2. StopDecel * k \in Nat
      BY ONLY <1>2, <2>1, Products
    <2>3. path[i] \in Nat
      BY Typed DEF ProfileInv
    <2>4. speeds[i] = AtMost(path[i], StopDecel * k)
      BY <2>1
    <2> HIDE DEF speeds
    <2> QED
      BY <2>1, <2>2, <2>3, <2>4 DEF AtMost
  <1>4. StopAt(LastIncluded, speeds) /\ pass = "LASTPATH"
    BY DEF LastPathBrake
  <1> HIDE DEF speeds
  <1> QED
    BY <1>2, <1>3, <1>4, StopInv

LEMMA EmergencyStopInv == ASSUME ProfileInv, EmergencyStop PROVE ProfileInv' /\ Lowers
  <1>1. StopAt(1, path) /\ pass = "LASTPATH"
    BY DEF EmergencyStop
  <1>2. \A i \in Cells : ~(i < 1)
    BY DEF Cells
  <1> QED
    BY <1>1, <1>2, StopInv

LEMMA DriveInv == ASSUME ProfileInv, Drive PROVE ProfileInv' /\ Lowers
  <1>1. Lowers /\ path' = path /\ UNCHANGED <<pass, road, raw, contact>> /\ pass = "STOPPING"
        /\ ego' = ego /\ contact' = contact
    BY SamePath DEF Drive, road
  <1>2. path' \in [Cells -> 0..Highest] /\ Spanned' /\ AtSide' /\ AtCritical' /\ Approached'
    BY <1>1, CapsKept DEF Lowers
  <1>3. PICK command : command = path[car + 1]
    OBVIOUS
  <1>4. /\ car \in Nat /\ car + 1 \in Cells /\ moving \in Nat /\ Brakes \in Nat /\ contact \in Nat
        /\ contact >= 1 /\ car' = car + 1 /\ car + 1 \in 0..N
    <2>1. car \in Nat /\ moving \in Nat /\ contact \in Nat /\ contact >= 1 /\ N \in Nat
      BY Typed DEF ProfileInv
    <2>2. car' = car + 1 /\ car < N
      BY DEF Drive
    <2>3. Brakes \in Nat
      BY SpeedProfileAssumption
    <2> QED
      BY <2>1, <2>2, <2>3 DEF Cells
  <1>5. command \in Nat /\ command <= Highest /\ AccelLimitAt(moving) \in Nat
    BY <1>3, <1>4, Typed, Tables DEF ProfileInv
  <1>6. /\ moving > 0 \/ command > 0
        /\ moving' = IF command >= moving THEN AtMost(command, moving + AccelLimitAt(moving))
                     ELSE AtLeast(command, moving - Brakes)
    BY <1>3 DEF Drive
  <1>7. moving' \in Nat /\ (moving' <= command \/ (moving' <= moving /\ moving' = moving - Brakes))
    BY <1>4, <1>5, <1>6 DEF AtMost, AtLeast
  <1>8. SpeedTypeOK'
    <2>1. moving <= AtLeast(Highest, ego) /\ Highest <= AtLeast(Highest, ego)
          /\ AtLeast(Highest, ego) \in Nat
      <3>1. Highest \in Nat /\ ego \in Nat
        BY Typed, Tables DEF ProfileInv
      <3>2. moving \in 0..AtLeast(Highest, ego)
        BY DEF ProfileInv, SpeedTypeOK
      <3> QED
        BY ONLY <3>1, <3>2 DEF AtLeast
    <2>2. moving' \in 0..AtLeast(Highest, ego')
      BY <1>1, <1>4, <1>5, <1>7, <2>1, Tables
    <2> QED
      BY <1>1, <1>2, <1>4, <2>2 DEF ProfileInv, SpeedTypeOK, road
  <1>9. Stopping'
    <2>1. /\ \A i \in Cells : i >= contact => path[i] = 0
          /\ \A i \in Cells : i < contact => path[i] <= Slack(i)
          /\ (contact - 1) * Brakes >= ego => car < contact /\ moving <= Slack(car)
      BY <1>1 DEF ProfileInv, Stopping
    <2>2. ASSUME (contact - 1) * Brakes >= ego
          PROVE  car + 1 < contact /\ moving' <= Slack(car + 1)
      <3>1. car < contact /\ moving <= Slack(car)
        BY <2>1, <2>2
      <3>2. car + 1 < contact
        <4> SUFFICES ASSUME ~(car + 1 < contact) PROVE FALSE
          OBVIOUS
        <4>1. car + 1 >= contact /\ car = contact - 1
          BY <1>4, <3>1
        <4>2. command = 0
          BY <1>3, <1>4, <2>1, <4>1
        <4>3. moving <= 0
          BY <1>4, <3>1, <4>1, SlackIs
        <4> QED
          BY <1>4, <1>6, <4>2, <4>3
      <3>3. Slack(car) = Slack(car + 1) + Brakes
        BY <1>4, <3>2, SlackIs
      <3>4. Slack(car + 1) \in Nat
        BY <1>4, <3>2, SlackIs
      <3>5. command <= Slack(car + 1)
        BY <1>3, <1>4, <2>1, <3>2
      <3> QED
        BY <1>4, <1>5, <1>7, <3>1, <3>2, <3>3, <3>4, <3>5
    <2>3. Slack(car)' = Slack(car + 1) /\ \A i \in Cells : Slack(i)' = Slack(i)
      BY <1>1, <1>4 DEF Slack
    <2> QED
      BY <1>1, <1>4, <2>1, <2>2, <2>3 DEF Stopping
  <1> QED
    BY <1>1, <1>2, <1>8, <1>9 DEF ProfileInv, Shaped

LEMMA ProfileStep == ASSUME ProfileInv, [SpeedProfileNext]_profileVars PROVE ProfileInv' /\ Lowers
  <1>1. CASE SpeedProfileNext
    BY <1>1, CapBySideRoomInv, HandoffLoopInv, HoldCriticalSpeedInv, ApproachRampInv,
       AccelerationPassInv, BrakingPassInv, PublishInv, ObstacleAppearsInv, CommittedPathStopInv,
       CommittedPathRejectedInv, LastPathBrakeInv, EmergencyStopInv, DriveInv
       DEF SpeedProfileNext
  <1>2. CASE UNCHANGED profileVars
    <2>1. Lowers /\ UNCHANGED road
      BY <1>2, SamePath DEF profileVars, road
    <2>2. ProfileInv'
      BY <1>2, RoadKept
         DEF ProfileInv, profileVars, SpeedTypeOK, Spanned, Avoiding, AtSide, AtCritical, Approached,
             Shaped, Stopping, Reachable, Before, Brakable, TableOrRaw, DecelLimitAt, AccelLimitAt,
             Slack, Critical, HoldStart, road
    <2> QED
      BY <2>1, <2>2
  <1> QED
    BY <1>1, <1>2

\* ProfileInv holds for every number of waypoints, table and speed.
THEOREM ProfileInvariant == SpeedProfileSpec => []ProfileInv
  <1>1. ProfileInv /\ [SpeedProfileNext]_profileVars => ProfileInv'
    BY ProfileStep
  <1> QED
    BY <1>1, ProfileInitInv, PTL DEF SpeedProfileSpec

LEMMA PublishedProfile == ASSUME ProfileInv PROVE ProfileIsDrivable /\ PassesSlowly /\ RestsBeforeContact
  <1>1. ProfileIsDrivable
    <2>1. ASSUME pass = "OUT", NEW i \in Cells
          PROVE  /\ path[i] <= Before(i) + AccelLimitAt(Before(i))
                 /\ i > 1 => Before(i) - path[i] <= AtLeast(DecelLimitAt(Before(i)), RawDecel)
      <3>1. Reachable /\ Brakable(TableOrRaw)
        BY <2>1 DEF ProfileInv, Shaped
      <3>2. i > 1 => i # 1
        BY DEF Cells
      <3> QED
        BY <3>1, <3>2 DEF Reachable, Brakable, TableOrRaw, Before
    <2> QED
      BY <2>1 DEF ProfileIsDrivable, Before
  <1>2. PassesSlowly
    <2> SUFFICES ASSUME pass = "OUT", Avoiding, NEW i \in Cells,
                        i \in (first - (IF ego < Knee THEN 0 ELSE Delay))..last
                 PROVE  path[i] <= AtLeast(Floor, room) /\ path[i] <= Critical
      BY DEF PassesSlowly
    <2>1. first \in Nat /\ last \in Nat /\ i \in Nat /\ first \in Cells
      BY Typed DEF ProfileInv, Spanned, Cells
    <2>2. CASE i >= first
      <3>1. i \in first..last
        BY <2>1, <2>2
      <3> QED
        BY <3>1 DEF ProfileInv, AtSide, AtCritical
    <2>3. CASE ~(i >= first)
      <3>1. i < first /\ HoldStart <= i
        BY <2>1, <2>3, Typed, SpeedProfileAssumption DEF ProfileInv, HoldStart, AtLeast
      <3> QED
        BY <3>1 DEF ProfileInv, Approached
    <2> QED
      BY <2>2, <2>3
  <1>3. RestsBeforeContact
    BY Typed DEF ProfileInv, Stopping, RestsBeforeContact
  <1> QED
    BY <1>1, <1>2, <1>3

\* Every property of ProfileFits, for every line, speed limit, brake and buffer: what a
\* pass publishes can be driven by the brakes, is slow enough where it passes close,
\* stops before contact, and no later step of the passes raises what an earlier one
\* lowered.
THEOREM ProfilesFit == SpeedProfileSpec => ProfileFits
  <1>1. ProfileInv => SpeedTypeOK /\ ProfileIsDrivable /\ PassesSlowly /\ RestsBeforeContact
    BY PublishedProfile DEF ProfileInv
  <1>2. ProfileInv /\ [SpeedProfileNext]_profileVars => [\A i \in Cells : path'[i] <= path[i]]_profileVars
    BY ProfileStep DEF Lowers
  <1>3. SpeedProfileSpec => NeverRaised
    BY <1>2, ProfileInvariant, PTL DEF SpeedProfileSpec, NeverRaised
  <1> QED
    BY <1>1, <1>3, ProfileInvariant, PTL DEF ProfileFits

-----------------------------------------------------------------------------
(* The race-line planner.  Least and greatest members, and steps on a ring.  *)

LEMMA MaxIs ==
  ASSUME NEW S, S \subseteq Int, S # {}, NEW b \in Int, \A x \in S : x <= b
  PROVE  Max(S) \in S /\ \A x \in S : x <= Max(S)
  <1> DEFINE T == {b - x : x \in S}
  <1>1. T \subseteq Nat /\ T # {}
    <2>1. \A x \in S : x \in Int /\ b - x \in Nat
      OBVIOUS
    <2> QED
      BY <2>1
  <1>2. PICK t \in T : \A y \in T : t <= y
    <2> HIDE DEF T
    <2> QED
      BY <1>1, LeastElement
  <1>3. PICK x \in S : t = b - x
    BY <1>2
  <1>4. \A y \in S : x >= y
    <2> TAKE y \in S
    <2>1. t <= b - y
      BY <1>2
    <2> QED
      BY <1>3, <2>1
  <1>5. Max(S) \in S /\ \A y \in S : Max(S) >= y
    BY <1>4 DEF Max
  <1> QED
    BY <1>5

LEMMA MinIs ==
  ASSUME NEW S, S \subseteq Int, S # {}, NEW b \in Int, \A x \in S : b <= x
  PROVE  Min(S) \in S /\ \A x \in S : Min(S) <= x
  <1> DEFINE T == {x - b : x \in S}
  <1>1. T \subseteq Nat /\ T # {}
    <2>1. \A x \in S : x \in Int /\ x - b \in Nat
      OBVIOUS
    <2> QED
      BY <2>1
  <1>2. PICK t \in T : \A y \in T : t <= y
    <2> HIDE DEF T
    <2> QED
      BY <1>1, LeastElement
  <1>3. PICK x \in S : t = x - b
    BY <1>2
  <1>4. \A y \in S : x <= y
    <2> TAKE y \in S
    <2>1. t <= y - b
      BY <1>2
    <2> QED
      BY <1>3, <2>1
  <1>5. Min(S) \in S /\ \A y \in S : Min(S) <= y
    BY <1>4 DEF Min
  <1> QED
    BY <1>5

LEMMA OfTwo ==
  ASSUME NEW a \in Int, NEW b \in Int
  PROVE  /\ Max({a, b}) = IF a <= b THEN b ELSE a
         /\ Min({a, b}) = IF a <= b THEN a ELSE b
  <1>1. Max({a, b}) \in {a, b} /\ \A x \in {a, b} : Max({a, b}) >= x
    <2>1. \E x \in {a, b} : \A y \in {a, b} : x >= y
      OBVIOUS
    <2> QED
      BY <2>1 DEF Max
  <1>2. Min({a, b}) \in {a, b} /\ \A x \in {a, b} : Min({a, b}) <= x
    <2>1. \E x \in {a, b} : \A y \in {a, b} : x <= y
      OBVIOUS
    <2> QED
      BY <2>1 DEF Min
  <1> HIDE DEF Max, Min
  <1>3. PICK m : m = Max({a, b})
    OBVIOUS
  <1>4. PICK n : n = Min({a, b})
    OBVIOUS
  <1>5. m \in {a, b} /\ m >= a /\ m >= b /\ n \in {a, b} /\ n <= a /\ n <= b
    BY <1>1, <1>2, <1>3, <1>4
  <1>6. (m = IF a <= b THEN b ELSE a) /\ (n = IF a <= b THEN a ELSE b)
    BY ONLY <1>5, a \in Int, b \in Int
  <1> QED
    BY <1>3, <1>4, <1>6

LEMMA RemainderIs ==
  ASSUME NEW n \in Nat \ {0}, NEW q \in Int, NEW r \in 0..(n - 1), NEW a \in Int, a = n * q + r
  PROVE  a % n = r
  <1>1. PICK p \in Int : p = a \div n
    OBVIOUS
  <1>2. PICK m \in 0..(n - 1) : m = a % n
    OBVIOUS
  <1>3. a = n * p + m
    BY <1>1, <1>2
  <1>4. \A k, l \in Int : k < l => n * k + n <= n * l
    <2>1. ASSUME NEW k \in Int, NEW d \in Nat PROVE n * k + n <= n * (k + (d + 1))
      <3>1. n * (k + (d + 1)) = n * k + n + n * d
        OBVIOUS
      <3>2. n * d \in Nat
        BY ONLY n \in Nat, d \in Nat, Products
      <3> QED
        BY <3>1, <3>2
    <2>2. ASSUME NEW k \in Int, NEW l \in Int, k < l PROVE n * k + n <= n * l
      <3>1. PICK d \in Nat : l = k + (d + 1)
        <4>1. l - k - 1 \in Nat /\ l = k + ((l - k - 1) + 1)
          BY <2>2
        <4> QED
          BY <4>1
      <3> QED
        BY <2>1, <3>1
    <2> QED
      BY <2>2
  <1>5. n * p \in Int /\ n * q \in Int
    OBVIOUS
  <1>6. ~(p < q) /\ ~(q < p)
    BY ONLY <1>3, <1>4, <1>5, a = n * q + r, n \in Nat, m \in 0..(n - 1), r \in 0..(n - 1),
       p \in Int, q \in Int
  <1>7. p = q
    BY <1>6
  <1> QED
    BY <1>2, <1>3, <1>5, <1>7

\* One cell further on the ring.
LEMMA RingStep ==
  ASSUME NEW n \in Nat \ {0}, NEW s \in 0..(n - 1)
  PROVE  /\ \A a \in Int : a % n \in 0..(n - 1)
         /\ s % n = s
         /\ (s + 1) % n = IF s = n - 1 THEN 0 ELSE s + 1
         /\ \A f \in Int : (((s + 1) % n) + (f - 1)) % n = (s + f) % n
  <1>1. \A a \in Int : a % n \in 0..(n - 1)
    OBVIOUS
  <1>2. s % n = s
    OBVIOUS
  <1>3. (s + 1) % n = IF s = n - 1 THEN 0 ELSE s + 1
    <2>1. s = n - 1 => (s + 1) % n = 0
      OBVIOUS
    <2>2. s # n - 1 => (s + 1) % n = s + 1
      OBVIOUS
    <2> QED
      BY <2>1, <2>2
  <1>4. ASSUME NEW f \in Int PROVE (((s + 1) % n) + (f - 1)) % n = (s + f) % n
    <2>1. CASE s = n - 1
      <3>1. PICK a \in Int : a = f - 1
        OBVIOUS
      <3>2. s + f = a + n
        BY <2>1, <3>1
      <3>3. PICK q \in Int : q = a \div n
        OBVIOUS
      <3>4. PICK r \in 0..(n - 1) : r = a % n
        OBVIOUS
      <3>5. a = n * q + r
        BY <3>3, <3>4
      <3>6. a + n = n * (q + 1) + r /\ a + n \in Int /\ q + 1 \in Int
        BY <3>5
      <3>7. (a + n) % n = r
        <4>1. PICK c \in Int : c = a + n
          OBVIOUS
        <4>2. PICK p \in Int : p = q + 1
          OBVIOUS
        <4>3. c = n * p + r
          BY <3>6, <4>1, <4>2
        <4>4. c % n = r
          BY <4>3, RemainderIs
        <4> QED
          BY <4>1, <4>4
      <3>8. ((s + 1) % n) + (f - 1) = a
        BY <1>3, <2>1, <3>1
      <3> QED
        BY <3>2, <3>4, <3>7, <3>8
    <2>2. CASE s # n - 1
      <3>1. ((s + 1) % n) + (f - 1) = s + f
        BY <1>3, <2>2
      <3> QED
        BY <3>1
    <2> QED
      BY <2>1, <2>2
  <1> QED
    BY <1>1, <1>2, <1>3, <1>4

-----------------------------------------------------------------------------
(* What is seen.                                                             *)

LEMMA Planner ==
  /\ Ring \in Nat \ {0} /\ Ring \in Nat /\ Ring >= 1 /\ Half \in Nat /\ NarrowHalf \in Nat
  /\ Body \in Nat /\ Corner \in Nat /\ HalfSpan \in Nat /\ Lookahead \in Nat /\ ClusterGap \in Nat
  /\ Clearance \in Nat /\ FastReserve \in Nat /\ SlowReserve \in Nat /\ KeptReserve \in Nat
  /\ MinOffset \in Nat /\ MaxOffset \in Nat /\ Slope \in Nat /\ PostMerge \in Nat /\ MinPoints \in Nat
  /\ StopBuffer \in Nat /\ Probes \in Nat /\ SlowReserve <= FastReserve /\ Body <= Half
  /\ NarrowHalf <= Half /\ Starts \subseteq Cell /\ Rates \subseteq Nat \ {0}
  /\ \A e \in Extents : e.right \in Int /\ e.left \in Int
  BY SplinePlannerAssumption DEF Cell

BoxType == box \in [Obstacles -> [at : Cell, right : Int, left : Int]]

LEMMA ReserveIs ==
  ASSUME NEW s, NEW a, NEW b
  PROVE  ReserveOver(s, a, b) \in Nat
  BY Planner DEF ReserveOver

\* An obstacle from a cell.
LEMMA ExpandedIs ==
  ASSUME BoxType, NEW s \in Cell, NEW i \in Obstacles
  PROVE  /\ Expanded(s, i).id = i
         /\ Ahead(s, box[i].at) \in 0..(Ring - 1)
         /\ Expanded(s, i).start = Ahead(s, box[i].at) - HalfSpan
         /\ Expanded(s, i).end = Ahead(s, box[i].at) + HalfSpan
         /\ Expanded(s, i).right = box[i].right /\ Expanded(s, i).right \in Int
         /\ Expanded(s, i).left = box[i].left /\ Expanded(s, i).left \in Int
         /\ Expanded(s, i).strict = Clearance + ReserveOver(s, Expanded(s, i).start, Expanded(s, i).end)
         /\ Expanded(s, i).strict \in Nat
  <1>1. box[i].at \in Cell /\ box[i].right \in Int /\ box[i].left \in Int
    BY DEF BoxType
  <1>2. Ahead(s, box[i].at) \in 0..(Ring - 1)
    <2>1. box[i].at - s \in Int
      BY <1>1, Planner DEF Cell
    <2> QED
      BY <2>1, Planner, RingStep DEF Ahead
  <1>3. Expanded(s, i).strict =
            Clearance + ReserveOver(s, Expanded(s, i).start, Expanded(s, i).end)
    BY DEF Expanded
  <1>4. Expanded(s, i).strict \in Nat
    BY <1>3, ReserveIs, Planner
  <1> QED
    BY <1>1, <1>2, <1>3, <1>4 DEF Expanded

\* What an obstacle that is seen tells of itself.
Sighted(o) ==
  /\ o.id \in Obstacles /\ o.start \in Int /\ o.end \in Int /\ o.right \in Int /\ o.left \in Int
  /\ o.strict \in Nat /\ o.end = o.start + HalfSpan + HalfSpan
  /\ 0 <= o.start + HalfSpan /\ o.start + HalfSpan <= Ring - 1
  /\ 0 <= o.end /\ o.start <= Lookahead

LEMMA VisibleIs ==
  ASSUME BoxType, NEW s \in Cell, NEW known, known \subseteq Obstacles
  PROVE  /\ \A o \in Visible(s, known) : Sighted(o) /\ o.id \in known /\ o = Expanded(s, o.id)
         /\ \A i \in known : Expanded(s, i).end >= 0 /\ Expanded(s, i).start <= Lookahead
                                => Expanded(s, i) \in Visible(s, known)
  <1>1. ASSUME NEW o \in Visible(s, known)
        PROVE  Sighted(o) /\ o.id \in known /\ o = Expanded(s, o.id)
    <2>1. PICK i \in known : o = Expanded(s, i) /\ o.end >= 0 /\ o.start <= Lookahead
      BY DEF Visible
    <2>2. i \in Obstacles
      BY <2>1
    <2>3. o.id = i
      BY <2>1, <2>2, ExpandedIs
    <2>4. PICK c \in 0..(Ring - 1) : c = Ahead(s, box[i].at)
      BY <2>2, ExpandedIs
    <2>5. o.start = c - HalfSpan /\ o.end = c + HalfSpan /\ o.right \in Int /\ o.left \in Int
          /\ o.strict \in Nat
      BY <2>1, <2>2, <2>4, ExpandedIs
    <2> QED
      BY <2>1, <2>2, <2>3, <2>4, <2>5, Planner DEF Sighted
  <1>2. \A i \in known : Expanded(s, i).end >= 0 /\ Expanded(s, i).start <= Lookahead
                            => Expanded(s, i) \in Visible(s, known)
    BY DEF Visible
  <1> QED
    BY <1>1, <1>2

\* The first of some obstacles.
LEMMA FirstOfIs ==
  ASSUME NEW S, S # {}, \A o \in S : Sighted(o)
  PROVE  FirstOf(S) \in S /\ \A o \in S : FirstOf(S).start <= o.start
  <1> DEFINE T == {o.start + HalfSpan : o \in S}
  <1>1. \A o \in S : o.start \in Int /\ o.start + HalfSpan \in Nat
    BY Planner DEF Sighted
  <1>2. T \subseteq Nat /\ T # {}
    BY <1>1
  <1>3. PICK t \in T : \A y \in T : t <= y
    <2> HIDE DEF T
    <2> QED
      BY <1>2, LeastElement
  <1>4. PICK x \in S : t = x.start + HalfSpan
    BY <1>3
  <1>5. \A o \in S : x.start <= o.start
    <2> TAKE o \in S
    <2>1. t <= o.start + HalfSpan
      BY <1>3
    <2> QED
      BY <1>1, <1>4, <2>1, Planner
  <1> QED
    BY <1>5 DEF FirstOf

\* The obstacles that are answered together: one or two of those that are seen, if one of
\* them blocks the line; the first of them is the first that blocks it.
Blockers(visible) == {o \in visible : Blocking(o)}

LEMMA ClusterIs ==
  ASSUME NEW visible, \A o \in visible : Sighted(o), \A a, b \in visible : a.id = b.id => a = b
  PROVE  /\ Cluster(visible) \subseteq visible
         /\ Cluster(visible) = {} <=> Blockers(visible) = {}
         /\ Cluster(visible) # {} =>
              /\ FirstOf(Cluster(visible)).start = FirstOf(Blockers(visible)).start
              /\ \A o \in visible \ Cluster(visible) :
                   \/ o.start < FirstOf(Cluster(visible)).start
                   \/ \A c \in Cluster(visible) : c.end < o.start
  <1> DEFINE blocking == Blockers(visible)
             leading == FirstOf(blocking)
             behind == {o \in visible \ {leading} : o.start >= leading.start}
             next == FirstOf(behind)
  <1>1. blocking \subseteq visible
    BY DEF Blockers
  <1>2. Cluster(visible) = IF blocking = {} THEN {}
                           ELSE IF behind = {} \/ next.start > leading.end + ClusterGap THEN {leading}
                           ELSE {leading, next}
    BY DEF Cluster, Blockers
  <1>3. CASE blocking = {}
    BY <1>2, <1>3
  <1>4. CASE blocking # {}
    <2>1. leading \in visible /\ leading \in blocking
      <3> HIDE DEF blocking
      <3> QED
        BY <1>1, <1>4, FirstOfIs
    <2>2. behind # {} => next \in behind /\ \A o \in behind : next.start <= o.start
      <3>1. \A o \in behind : Sighted(o)
        OBVIOUS
      <3> HIDE DEF behind
      <3> QED
        BY <3>1, FirstOfIs
    <2>3. behind \subseteq visible /\ \A o \in behind : o.start >= leading.start
      OBVIOUS
    <2>4. \A o \in visible : o = leading \/ o \in behind \/ o.start < leading.start
      <3>1. \A o \in visible : o.start \in Int /\ leading.start \in Int
        <4> HIDE DEF leading
        <4> QED
          BY <2>1 DEF Sighted
      <3>2. \A o \in visible : o.start >= leading.start \/ o.start < leading.start
        <4> HIDE DEF leading
        <4> QED
          BY <3>1
      <3> HIDE DEF leading
      <3> QED
        BY <3>2
    <2>5. Cluster(visible) = IF behind = {} \/ next.start > leading.end + ClusterGap THEN {leading}
                             ELSE {leading, next}
      BY <1>2, <1>4
    <2> HIDE DEF behind, next, leading, blocking
    <2>6. Cluster(visible) \subseteq visible /\ leading \in Cluster(visible) /\ Cluster(visible) # {}
      BY <2>1, <2>2, <2>3, <2>5
    <2>7. \A c \in Cluster(visible) : leading.start <= c.start
      <3>1. leading.start \in Int
        BY <2>1 DEF Sighted
      <3> QED
        BY <2>1, <2>2, <2>3, <2>5, <3>1
    <2>8. FirstOf(Cluster(visible)).start = leading.start
      <3>1. \A o \in Cluster(visible) : Sighted(o)
        BY <2>6
      <3>2. FirstOf(Cluster(visible)) \in Cluster(visible)
            /\ \A o \in Cluster(visible) : FirstOf(Cluster(visible)).start <= o.start
        BY <2>6, <3>1, FirstOfIs
      <3>3. FirstOf(Cluster(visible)).start <= leading.start
            /\ leading.start <= FirstOf(Cluster(visible)).start
        BY <2>6, <2>7, <3>2
      <3>4. FirstOf(Cluster(visible)).start \in Int /\ leading.start \in Int
        BY <2>1, <3>1, <3>2 DEF Sighted
      <3> QED
        BY <3>3, <3>4
    <2>9. ASSUME NEW o \in visible \ Cluster(visible)
          PROVE  o.start < leading.start \/ \A c \in Cluster(visible) : c.end < o.start
      <3>1. o # leading
        BY <2>6
      <3>2. CASE o \in behind
        <4>1. next \in behind /\ next.start <= o.start /\ Sighted(next) /\ Sighted(leading) /\ Sighted(o)
              /\ leading.start <= next.start
          BY <2>1, <2>2, <2>3, <3>2
        <4>2. CASE next.start > leading.end + ClusterGap
          <5>1. Cluster(visible) = {leading}
            BY <2>5, <4>2
          <5> QED
            BY <4>1, <4>2, <5>1, Planner DEF Sighted
        <4>3. CASE ~(next.start > leading.end + ClusterGap)
          \* there are only two obstacles
          <5>1. o \notin {leading, next}
            BY <2>5, <3>2, <4>3
          <5>2. next # leading /\ next \in visible /\ leading \in visible
            BY <2>1, <2>3, <4>1 DEF behind
          <5>3. o.id # leading.id /\ o.id # next.id /\ next.id # leading.id
            BY <5>1, <5>2
          <5>4. o.id \in {1, 2} /\ leading.id \in {1, 2} /\ next.id \in {1, 2}
            BY <5>2 DEF Sighted, Obstacles
          <5> QED
            BY <5>3, <5>4
        <4> QED
          BY <4>2, <4>3
      <3> QED
        BY <2>4, <3>1, <3>2
    <2> QED
      BY <2>6, <2>8, <2>9, <1>4 DEF blocking, leading
  <1> QED
    BY <1>3, <1>4

\* The end of a cluster.
LEMMA EndOfIs ==
  ASSUME NEW S, S # {}, \A o \in S : Sighted(o)
  PROVE  EndOf(S) \in Nat /\ (\A o \in S : o.end <= EndOf(S)) /\ \E o \in S : o.end = EndOf(S)
  <1> DEFINE T == {o.end : o \in S}
  <1>1. \A o \in S : o.end \in Int /\ o.end >= 0 /\ o.end <= Ring + HalfSpan
    BY Planner DEF Sighted
  <1>2. T \subseteq Int /\ T # {} /\ (\A x \in T : x <= Ring + HalfSpan) /\ Ring + HalfSpan \in Int
    BY <1>1, Planner
  <1>3. Max(T) \in T /\ \A x \in T : x <= Max(T)
    <2> HIDE DEF T
    <2> QED
      BY <1>2, MaxIs
  <1>4. EndOf(S) = Max(T)
    BY DEF EndOf
  <1> HIDE DEF Max
  <1>5. \A o \in S : o.end \in T
    OBVIOUS
  <1>6. \A x \in T : x \in Nat /\ \E o \in S : o.end = x
    BY <1>1
  <1> HIDE DEF T
  <1> QED
    BY <1>3, <1>4, <1>5, <1>6

\* What begins behind the scope of a manoeuvre is not reached within it, and the scope
\* goes as far as the cluster.
LEMMA ScopeIs ==
  ASSUME NEW visible, \A o \in visible : Sighted(o), NEW ids, NEW end \in Nat
  PROVE  /\ ScopeEnd(visible, ids, end) \in Int
         /\ end <= ScopeEnd(visible, ids, end)
         /\ \A o \in visible : o.id \notin ids /\ o.start > end
                                  => end = ScopeEnd(visible, ids, end) \/ ScopeEnd(visible, ids, end) < o.start
  <1> DEFINE others == {o.start : o \in {v \in visible : v.id \notin ids /\ v.start > end}}
  <1>1. ScopeEnd(visible, ids, end) = IF others = {} THEN end + PostMerge
                                      ELSE Max({end, Min({end + PostMerge, Min(others) - 1})})
    BY DEF ScopeEnd
  <1>2. CASE others = {}
    <2>1. ~\E o \in visible : o.id \notin ids /\ o.start > end
      BY <1>2
    <2> HIDE DEF others
    <2> QED
      BY <1>1, <1>2, <2>1, Planner
  <1>3. CASE others # {}
    <2>1. \A x \in others : x \in Int /\ end <= x
      BY DEF Sighted
    <2>2. \A o \in visible : o.id \notin ids /\ o.start > end => o.start \in others
      OBVIOUS
    <2> HIDE DEF others
    <2>3. Min(others) \in others /\ \A x \in others : Min(others) <= x
      <3>1. others \subseteq Int /\ end \in Int /\ \A x \in others : end <= x
        BY <2>1
      <3> QED
        BY <1>3, <3>1, MinIs
    <2>4. PICK m \in Int : m = Min(others)
      BY <2>1, <2>3
    <2>5. PICK n \in Int : n = Min({end + PostMerge, m - 1})
      <3>1. end + PostMerge \in Int /\ m - 1 \in Int
        BY Planner
      <3> QED
        BY <3>1, OfTwo
    <2>6. n <= m - 1
      <3>1. end + PostMerge \in Int /\ m - 1 \in Int
        BY Planner
      <3>2. n = IF end + PostMerge <= m - 1 THEN end + PostMerge ELSE m - 1
        BY <2>5, <3>1, OfTwo
      <3> QED
        BY <3>1, <3>2
    <2>7. ScopeEnd(visible, ids, end) = IF end <= n THEN n ELSE end
      <3>1. ScopeEnd(visible, ids, end) = Max({end, n})
        BY <1>1, <1>3, <2>4, <2>5
      <3>2. Max({end, n}) = IF end <= n THEN n ELSE end
        BY OfTwo
      <3> QED
        BY <3>1, <3>2
    <2>8. \A o \in visible : o.id \notin ids /\ o.start > end => m <= o.start /\ o.start \in Int
      BY <2>1, <2>2, <2>3, <2>4
    <2> QED
      BY <2>6, <2>7, <2>8
  <1> QED
    BY <1>2, <1>3

-----------------------------------------------------------------------------
(* The bisection of the stop.                                                *)

LEMMA HalvedDef ==
  /\ Halved \in [0..Probes -> Nat] /\ Halved[0] = Lookahead
  /\ \A i \in 0..(Probes - 1) : Halved[i + 1] = (Halved[i] + 1) \div 2
  <1> DEFINE Step == [c \in (0..Probes) \X Nat |-> (c[2] + 1) \div 2]
  <1>1. Step \in [(0..Probes) \X Nat -> Nat]
    <2>1. \A c \in (0..Probes) \X Nat : c[2] \in Nat
      OBVIOUS
    <2>2. \A v \in Nat : (v + 1) \div 2 \in Nat
      OBVIOUS
    <2> QED
      BY <2>1, <2>2
  <1>2. PICK g : Runs(g, Probes, Nat, Lookahead, Step)
    <2> HIDE DEF Step
    <2> QED
      BY <1>1, Planner, Recursion
  <1>3. /\ g \in [0..Probes -> Nat] /\ g[0] = Lookahead
        /\ \A i \in 0..(Probes - 1) : g[i + 1] = (g[i] + 1) \div 2
    <2>1. g \in [0..Probes -> Nat] /\ g[0] = Lookahead
          /\ \A i \in 0..(Probes - 1) : g[i + 1] = Step[<<i, g[i]>>]
      BY <1>2 DEF Runs
    <2>2. \A i \in 0..(Probes - 1) : i \in 0..Probes
      BY Planner
    <2>3. \A i \in 0..(Probes - 1) : <<i, g[i]>> \in (0..Probes) \X Nat
      BY <2>1, <2>2
    <2>4. \A i \in 0..(Probes - 1) : Step[<<i, g[i]>>] = (g[i] + 1) \div 2
      BY <2>3
    <2> HIDE DEF Step
    <2> QED
      BY <2>1, <2>4
  <1>4. g = [i \in 0..Probes |-> IF i = 0 THEN Lookahead ELSE (g[i - 1] + 1) \div 2]
    <2>1. \A i \in 0..Probes : i # 0 => i - 1 \in 0..(Probes - 1) /\ (i - 1) + 1 = i
      BY Planner
    <2>2. \A i \in 0..Probes : g[i] = IF i = 0 THEN Lookahead ELSE (g[i - 1] + 1) \div 2
      BY <1>3, <2>1
    <2> QED
      BY <1>3, <2>2
  <1>5. Halved = [i \in 0..Probes |-> IF i = 0 THEN Lookahead ELSE (Halved[i - 1] + 1) \div 2]
    BY <1>4 DEF Halved
  <1>6. /\ Halved[0] = Lookahead
        /\ \A i \in 0..(Probes - 1) : Halved[i + 1] = (Halved[i] + 1) \div 2
    <2>1. 0 \in 0..Probes /\ \A i \in 0..(Probes - 1) :
             i + 1 \in 0..Probes /\ i + 1 # 0 /\ (i + 1) - 1 = i
      BY Planner
    <2> QED
      BY <1>5, <2>1
  <1> DEFINE P == {i \in 0..Probes : Halved[i] \in Nat}
  <1>7. 0 \in P
    BY <1>6, Planner
  <1>8. ASSUME NEW i \in 0..(Probes - 1), i \in P PROVE i + 1 \in P
    <2>1. i + 1 \in 0..Probes /\ Halved[i] \in Nat
      BY <1>8, Planner
    <2>2. (Halved[i] + 1) \div 2 \in Nat
      BY <2>1
    <2> QED
      BY <1>6, <2>1, <2>2
  <1> HIDE DEF P
  <1>9. \A i \in 0..Probes : i \in P
    BY <1>7, <1>8, Planner, SetInduction
  <1> QED
    BY <1>5, <1>6, <1>9 DEF P

\* The stop that the bisection ends with: the car gets away from it, and not from the
\* next cell.
LEMMA RetreatIs ==
  ASSUME NEW from, NEW known, NEW requested \in Nat, requested > 0, requested <= Lookahead,
         Escapable(from, 0, known), ~Escapable(from, requested, known)
  PROVE  \E stop \in Nat :
           /\ Retreated(from, known, requested) = stop /\ stop < requested
           /\ Escapable(from, stop, known) /\ ~Escapable(from, stop + 1, known)
  <1> DEFINE Away(x) == Escapable(from, x, known)
             Half2(b) == (b[1] + b[2]) \div 2
             Narrower(b) == IF b[2] - b[1] <= 1 THEN b
                            ELSE IF Away(Half2(b)) THEN <<Half2(b), b[2]>> ELSE <<b[1], Half2(b)>>
             Brackets == Nat \X Nat
             Step == [c \in (0..Probes) \X Brackets |-> Narrower(c[2])]
             Def(bracket) == bracket = [i \in 0..Probes |->
                IF i = 0 THEN <<0, requested>>
                ELSE LET b == bracket[i - 1]
                         middle == (b[1] + b[2]) \div 2
                     IN IF b[2] - b[1] <= 1 THEN b
                        ELSE IF Escapable(from, middle, known) THEN <<middle, b[2]>>
                        ELSE <<b[1], middle>>]
  <1>1. ASSUME NEW b \in Brackets
        PROVE  /\ Narrower(b) \in Brackets
               /\ b[1] < b[2] /\ Away(b[1]) /\ ~Away(b[2])
                    => /\ Narrower(b)[1] < Narrower(b)[2] /\ Narrower(b)[2] <= b[2]
                       /\ Away(Narrower(b)[1]) /\ ~Away(Narrower(b)[2])
                       /\ \A w \in Nat : b[2] - b[1] <= w =>
                            Narrower(b)[2] - Narrower(b)[1] <= (w + 1) \div 2
    <2>1. PICK x \in Nat, y \in Nat : b = <<x, y>> /\ b[1] = x /\ b[2] = y
      OBVIOUS
    <2>2. PICK m \in Nat : m = (x + y) \div 2
      <3>1. (x + y) \div 2 \in Nat
        OBVIOUS
      <3> QED
        BY <3>1
    <2>3. Half2(b) = m
      BY <2>1, <2>2
    <2>4. x < y /\ ~(y - x <= 1) => x < m /\ m < y
      BY <2>2
    <2>5. ASSUME NEW w \in Nat, y - x <= w, x < y
          PROVE  /\ y - x <= 1 => y - x <= (w + 1) \div 2
                 /\ y - m <= (w + 1) \div 2 /\ m - x <= (w + 1) \div 2
      BY <2>2, <2>5
    <2> HIDE DEF Away, Half2
    <2>6. CASE y - x <= 1
      <3>1. Narrower(b) = b
        BY <2>1, <2>6
      <3> HIDE DEF Narrower
      <3> QED
        BY <2>1, <2>5, <2>6, <3>1
    <2>7. CASE ~(y - x <= 1) /\ Away(m)
      <3>1. Narrower(b) = <<m, y>>
        BY <2>1, <2>3, <2>7
      <3>2. Narrower(b)[1] = m /\ Narrower(b)[2] = y /\ Narrower(b) \in Brackets
        BY <3>1
      <3> HIDE DEF Narrower
      <3> QED
        BY <2>1, <2>4, <2>5, <2>7, <3>2
    <2>8. CASE ~(y - x <= 1) /\ ~Away(m)
      <3>1. Narrower(b) = <<x, m>>
        BY <2>1, <2>3, <2>8
      <3>2. Narrower(b)[1] = x /\ Narrower(b)[2] = m /\ Narrower(b) \in Brackets
        BY <3>1
      <3> HIDE DEF Narrower
      <3> QED
        BY <2>1, <2>4, <2>5, <2>8, <3>2
    <2> QED
      BY <2>6, <2>7, <2>8
  <1>2. <<0, requested>> \in Brackets
    OBVIOUS
  <1>3. Step \in [(0..Probes) \X Brackets -> Brackets]
    <2>1. \A c \in (0..Probes) \X Brackets : c[2] \in Brackets
      OBVIOUS
    <2> HIDE DEF Narrower, Brackets
    <2> QED
      BY <1>1, <2>1
  <1>4. PICK g : Runs(g, Probes, Brackets, <<0, requested>>, Step)
    <2> HIDE DEF Step, Brackets
    <2> QED
      BY <1>2, <1>3, Planner, Recursion
  <1>5. /\ g \in [0..Probes -> Brackets] /\ g[0] = <<0, requested>>
        /\ \A i \in 0..(Probes - 1) : g[i + 1] = Narrower(g[i])
    <2>1. g \in [0..Probes -> Brackets] /\ g[0] = <<0, requested>>
          /\ \A i \in 0..(Probes - 1) : g[i + 1] = Step[<<i, g[i]>>]
      <3> HIDE DEF Step, Brackets
      <3> QED
        BY <1>4 DEF Runs
    <2>2. \A i \in 0..(Probes - 1) : i \in 0..Probes
      BY Planner
    <2> HIDE DEF Brackets, Narrower
    <2>3. \A i \in 0..(Probes - 1) : <<i, g[i]>> \in (0..Probes) \X Brackets
      BY <2>1, <2>2
    <2>4. \A i \in 0..(Probes - 1) : Step[<<i, g[i]>>] = Narrower(g[i])
      BY <2>3
    <2> HIDE DEF Step
    <2> QED
      BY <2>1, <2>4
  <1>6. Def(g)
    <2>1. \A i \in 0..Probes : i # 0 => i - 1 \in 0..(Probes - 1) /\ (i - 1) + 1 = i
      BY Planner
    <2>2. \A i \in 0..Probes : g[i] = IF i = 0 THEN <<0, requested>> ELSE Narrower(g[i - 1])
      <3> HIDE DEF Narrower, Brackets
      <3> QED
        BY <1>5, <2>1
    <2>3. g = [i \in 0..Probes |-> IF i = 0 THEN <<0, requested>> ELSE Narrower(g[i - 1])]
      <3> HIDE DEF Narrower, Brackets
      <3> QED
        BY <1>5, <2>2
    <2> QED
      BY <2>3, Zenon
  <1>7. PICK h : Def(h) /\ Retreated(from, known, requested) = h[Probes][1]
    <2>1. Retreated(from, known, requested) = (CHOOSE h : Def(h))[Probes][1]
      BY Zenon DEF Retreated, Bracket
    <2>2. Def(CHOOSE h : Def(h))
      <3> HIDE DEF Def
      <3> QED
        BY <1>6
    <2> HIDE DEF Def
    <2> QED
      BY <2>1, <2>2
  <1>8. /\ h[0] = <<0, requested>>
        /\ \A i \in 0..(Probes - 1) : h[i + 1] = Narrower(h[i])
    <2>1. h = [i \in 0..Probes |-> IF i = 0 THEN <<0, requested>> ELSE Narrower(h[i - 1])]
      BY <1>7, Zenon
    <2>2. 0 \in 0..Probes /\ \A i \in 0..(Probes - 1) :
             i + 1 \in 0..Probes /\ i + 1 # 0 /\ (i + 1) - 1 = i
      BY Planner
    <2> HIDE DEF Narrower, Def
    <2> QED
      BY <2>1, <2>2
  <1> DEFINE P == {i \in 0..Probes :
                     /\ h[i] \in Brackets /\ h[i][1] < h[i][2] /\ h[i][2] <= requested
                     /\ Away(h[i][1]) /\ ~Away(h[i][2])
                     /\ h[i][2] - h[i][1] <= Halved[i]}
  <1>9. 0 \in P
    <2>1. h[0][1] = 0 /\ h[0][2] = requested /\ h[0] \in Brackets
      BY <1>2, <1>8
    <2>2. 0 \in 0..Probes
      BY Planner
    <2> HIDE DEF Brackets
    <2> QED
      BY <2>1, <2>2, HalvedDef, Planner
  <1>10. ASSUME NEW i \in 0..(Probes - 1), i \in P PROVE i + 1 \in P
    <2>1. i \in 0..Probes /\ i + 1 \in 0..Probes
      BY Planner
    <2>2. Halved[i] \in Nat /\ Halved[i + 1] = (Halved[i] + 1) \div 2
      BY <2>1, HalvedDef
    <2>3. h[i + 1] = Narrower(h[i])
      BY <1>8
    <2> HIDE DEF Narrower, Away
    <2>4. /\ h[i] \in Brackets /\ h[i][1] < h[i][2] /\ Away(h[i][1]) /\ ~Away(h[i][2])
          /\ h[i][2] - h[i][1] <= Halved[i] /\ h[i][2] <= requested
      BY <1>10
    <2>5. /\ h[i + 1] \in Brackets /\ h[i + 1][1] < h[i + 1][2] /\ h[i + 1][2] <= h[i][2]
          /\ Away(h[i + 1][1]) /\ ~Away(h[i + 1][2])
          /\ h[i + 1][2] - h[i + 1][1] <= Halved[i + 1]
      <3> HIDE DEF Brackets
      <3> QED
        BY <1>1, <2>2, <2>3, <2>4
    <2>6. h[i][2] \in Nat /\ h[i + 1][2] \in Nat
      BY <2>4, <2>5
    <2>7. h[i + 1][2] <= requested
      BY <2>4, <2>5, <2>6
    <2> HIDE DEF Brackets
    <2> QED
      BY <2>1, <2>5, <2>7
  <1>11. \A i \in 0..Probes : i \in P
    <2> HIDE DEF P
    <2> QED
      BY <1>9, <1>10, Planner, SetInduction
  <1>12. Probes \in P /\ Halved[Probes] <= 1 /\ Halved[Probes] \in Nat
    <2>1. Probes \in 0..Probes
      BY Planner
    <2> HIDE DEF P
    <2> QED
      BY <1>11, <2>1, RetreatAssumption, HalvedDef
  <1>13. PICK x \in Nat, y \in Nat : h[Probes][1] = x /\ h[Probes][2] = y
    BY <1>12
  <1>14. x < y /\ y <= requested /\ Away(x) /\ ~Away(y) /\ y - x <= 1
    <2> HIDE DEF Away
    <2> QED
      BY <1>12, <1>13
  <1>15. y = x + 1 /\ x < requested
    BY <1>14
  <1>16. Retreated(from, known, requested) = x
    BY <1>7, <1>13, Zenon
  <1> HIDE DEF Def
  <1> QED
    BY <1>14, <1>15, <1>16

-----------------------------------------------------------------------------
(* The car gets to the next waypoint.                                        *)

\* What a plan sees, and whether a stop can be left, is a matter of the obstacles only.
LEMMA BoxKept ==
  ASSUME box' = box, NEW s, NEW known
  PROVE  /\ Visible(s, known)' = Visible(s, known)
         /\ \A i : Expanded(s, i)' = Expanded(s, i)
         /\ \A from, forward : Escapable(from, forward, known)' = Escapable(from, forward, known)
  <1>1. \A i : Expanded(s, i)' = Expanded(s, i)
    BY DEF Expanded
  <1>2. \A u : Visible(u, known)' = Visible(u, known)
    BY DEF Visible, Expanded
  <1>3. \A from, forward : Escapable(from, forward, known)' = Escapable(from, forward, known)
    BY <1>2 DEF Escapable
  <1> QED
    BY <1>1, <1>2, <1>3

LEMMA EscapableMoved ==
  ASSUME NEW s \in Cell, NEW d, NEW f \in Int, NEW known
  PROVE  Escapable([s |-> (s + 1) % Ring, d |-> d], f - 1, known)
           = Escapable([s |-> s, d |-> d], f, known)
  <1>1. (((s + 1) % Ring) + (f - 1)) % Ring = (s + f) % Ring
    BY Planner, RingStep DEF Cell
  <1> DEFINE here == [s |-> s, d |-> d]
             there == [s |-> (s + 1) % Ring, d |-> d]
  <1>2. [there EXCEPT !.s = (@ + (f - 1)) % Ring] = [s |-> (((s + 1) % Ring) + (f - 1)) % Ring, d |-> d]
    OBVIOUS
  <1>3. [here EXCEPT !.s = (@ + f) % Ring] = [s |-> (s + f) % Ring, d |-> d]
    OBVIOUS
  <1> HIDE DEF here, there
  <1>4. Escapable(there, f - 1, known) = Escapable(here, f, known)
    BY <1>1, <1>2, <1>3 DEF Escapable
  <1> QED
    BY <1>4 DEF here, there

LEMMA AheadMoved ==
  ASSUME NEW s \in Cell, NEW spot \in Cell
  PROVE  /\ (s + 1) % Ring \in Cell
         /\ Ahead(s, spot) \in 0..(Ring - 1)
         /\ Ahead((s + 1) % Ring, spot) = IF Ahead(s, spot) = 0 THEN Ring - 1 ELSE Ahead(s, spot) - 1
  <1>1. /\ Ring \in Nat \ {0} /\ s \in 0..(Ring - 1) /\ spot \in 0..(Ring - 1)
    BY Planner DEF Cell
  <1>2. /\ \A a \in 0..(Ring - 1) : a % Ring = a
        /\ \A a \in (-Ring)..(-1) : a % Ring = a + Ring
    BY <1>1
  <1>3. (s + 1) % Ring = IF s = Ring - 1 THEN 0 ELSE s + 1
    BY <1>1, RingStep
  <1>4. \A u \in 0..(Ring - 1) : Ahead(u, spot) = IF u <= spot THEN spot - u ELSE spot - u + Ring
    <2> TAKE u \in 0..(Ring - 1)
    <2>1. Ahead(u, spot) = (spot - u) % Ring
      BY DEF Ahead
    <2>2. u <= spot => spot - u \in 0..(Ring - 1)
      BY <1>1
    <2>3. ~(u <= spot) => spot - u \in (-Ring)..(-1)
      BY <1>1
    <2> QED
      BY <1>2, <2>1, <2>2, <2>3
  <1>5. (s + 1) % Ring \in 0..(Ring - 1)
    BY <1>1, <1>3
  <1> QED
    BY <1>1, <1>3, <1>4, <1>5 DEF Cell

LEMMA NextCell == \A s \in Cell : (s + 1) % Ring \in Cell
  BY AheadMoved

LEMMA ReserveMoved ==
  ASSUME NEW s \in Cell, NEW a \in Int, NEW b \in Int
  PROVE  /\ ReserveOver((s + 1) % Ring, a - 1, b - 1) <= ReserveOver(s, a, b)
         /\ a >= 1 => ReserveOver((s + 1) % Ring, a - 1, b - 1) = ReserveOver(s, a, b)
  <1>1. \A k \in Int : (((s + 1) % Ring) + (k - 1)) % Ring = (s + k) % Ring
    BY Planner, RingStep DEF Cell
  <1>2. PICK t : t = (s + 1) % Ring
    OBVIOUS
  <1>3. PICK m \in Nat : m = Max({0, a}) /\ m >= a /\ (a >= 1 => m = a)
    BY OfTwo
  <1>4. PICK n \in Nat : n = Max({0, a - 1}) /\ n >= a - 1 /\ n + 1 >= m /\ (a >= 1 => n + 1 = m)
    <2>1. Max({0, a - 1}) = IF 0 <= a - 1 THEN a - 1 ELSE 0
      BY OfTwo
    <2>2. Max({0, a}) = IF 0 <= a THEN a ELSE 0
      BY OfTwo
    <2> QED
      BY <1>3, <2>1, <2>2
  <1>5. (\E k \in n..(b - 1) : (t + k) % Ring \notin Bends) => \E k \in m..b : (s + k) % Ring \notin Bends
    <2> SUFFICES ASSUME NEW k \in n..(b - 1), (t + k) % Ring \notin Bends
                 PROVE  \E l \in m..b : (s + l) % Ring \notin Bends
      OBVIOUS
    <2>1. k + 1 \in m..b /\ (k + 1) - 1 = k /\ k + 1 \in Int
      BY <1>4
    <2>2. (t + ((k + 1) - 1)) % Ring = (s + (k + 1)) % Ring
      BY <1>1, <1>2, <2>1
    <2> QED
      BY <2>1, <2>2
  <1>6. ASSUME a >= 1
        PROVE  (\E k \in m..b : (s + k) % Ring \notin Bends) => \E k \in n..(b - 1) : (t + k) % Ring \notin Bends
    <2> SUFFICES ASSUME NEW k \in m..b, (s + k) % Ring \notin Bends
                 PROVE  \E l \in n..(b - 1) : (t + l) % Ring \notin Bends
      OBVIOUS
    <2>1. k - 1 \in n..(b - 1) /\ k \in Int
      BY <1>4, <1>6
    <2>2. (t + (k - 1)) % Ring = (s + k) % Ring
      BY <1>1, <1>2, <2>1
    <2> QED
      BY <2>1, <2>2
  <1>7. ReserveOver(t, a - 1, b - 1)
          = IF \E k \in n..(b - 1) : (t + k) % Ring \notin Bends THEN FastReserve ELSE SlowReserve
    BY <1>4 DEF ReserveOver
  <1>8. ReserveOver(s, a, b) = IF \E k \in m..b : (s + k) % Ring \notin Bends THEN FastReserve ELSE SlowReserve
    BY <1>3 DEF ReserveOver
  <1> QED
    BY <1>2, <1>5, <1>6, <1>7, <1>8, Planner

\* An obstacle that lies ahead comes a cell nearer, and does not block more than before.
LEMMA ExpandedMoved ==
  ASSUME BoxType, NEW s \in Cell, NEW i \in Obstacles, NEW e, e = Expanded(s, i),
         NEW moved, moved = Expanded((s + 1) % Ring, i)
  PROVE  /\ e.start + HalfSpan = 0 => moved.start + HalfSpan = Ring - 1
         /\ e.start + HalfSpan # 0 =>
              /\ moved.start = e.start - 1 /\ moved.end = e.end - 1
              /\ Blocking(moved) => Blocking(e)
              /\ e.start >= 1 => (Blocking(e) => Blocking(moved))
  <1>1. PICK t \in Cell : t = (s + 1) % Ring
    BY NextCell
  <1>2. box[i].at \in Cell
    BY DEF BoxType
  <1>3. PICK c \in 0..(Ring - 1) : c = Ahead(s, box[i].at)
    BY <1>2, AheadMoved
  <1>4. Ahead(t, box[i].at) = IF c = 0 THEN Ring - 1 ELSE c - 1
    BY <1>1, <1>2, <1>3, AheadMoved
  <1>5. /\ e.start = c - HalfSpan /\ e.end = c + HalfSpan /\ e.right \in Int /\ e.left \in Int
        /\ e.right = box[i].right /\ e.left = box[i].left
        /\ e.strict = Clearance + ReserveOver(s, e.start, e.end) /\ e.strict \in Nat
    BY <1>3, ExpandedIs
  <1>6. /\ moved.start = Ahead(t, box[i].at) - HalfSpan /\ moved.end = Ahead(t, box[i].at) + HalfSpan
        /\ moved.right = box[i].right /\ moved.left = box[i].left
        /\ moved.strict = Clearance + ReserveOver(t, moved.start, moved.end) /\ moved.strict \in Nat
    BY <1>1, ExpandedIs
  <1>7. e.start + HalfSpan = c /\ e.start \in Int /\ e.end \in Int
    BY <1>5, Planner
  <1>8. CASE c = 0
    <2>1. moved.start + HalfSpan = Ring - 1
      BY <1>4, <1>6, <1>8, Planner
    <2> QED
      BY <1>7, <1>8, <2>1
  <1>9. CASE c # 0
    <2>1. moved.start = e.start - 1 /\ moved.end = e.end - 1
      BY <1>4, <1>5, <1>6, <1>9, Planner
    <2>2. PICK r \in Nat, q \in Nat : r = ReserveOver(s, e.start, e.end)
                                   /\ q = ReserveOver(t, e.start - 1, e.end - 1)
      BY ReserveIs
    <2>3. q <= r /\ (e.start >= 1 => q = r)
      BY <1>1, <1>7, <2>2, ReserveMoved
    <2>4. e.strict = Clearance + r /\ moved.strict = Clearance + q
      BY <1>5, <1>6, <2>1, <2>2
    <2>5. moved.strict <= e.strict /\ (e.start >= 1 => moved.strict = e.strict)
      BY <2>3, <2>4, Planner
    <2>6. Blocking(moved) => Blocking(e)
      BY <1>5, <1>6, <2>5 DEF Blocking, Straddles
    <2>7. e.start >= 1 => (Blocking(e) => Blocking(moved))
      BY <1>5, <1>6, <2>5 DEF Blocking, Straddles
    <2> QED
      BY <1>7, <1>9, <2>1, <2>6, <2>7
  <1> QED
    BY <1>8, <1>9

LEMMA RequestedIs ==
  ASSUME NEW visible, \A o \in visible : Sighted(o), \A a, b \in visible : a.id = b.id => a = b,
         Cluster(visible) # {}
  PROVE  /\ Requested(Cluster(visible)) \in Nat /\ Requested(Cluster(visible)) <= Lookahead
         /\ FirstOf(Blockers(visible)) \in Blockers(visible)
         /\ Blockers(visible) \subseteq visible
         /\ \A o \in Blockers(visible) : FirstOf(Blockers(visible)).start <= o.start
         /\ Requested(Cluster(visible)) = IF 0 <= FirstOf(Blockers(visible)).start - StopBuffer
                                          THEN FirstOf(Blockers(visible)).start - StopBuffer ELSE 0
         /\ Requested(Cluster(visible)) <= Ring - 1
  <1>1. Blockers(visible) # {} /\ Blockers(visible) \subseteq visible
        /\ FirstOf(Cluster(visible)).start = FirstOf(Blockers(visible)).start
    BY ClusterIs DEF Blockers
  <1>2. FirstOf(Blockers(visible)) \in Blockers(visible)
        /\ \A o \in Blockers(visible) : FirstOf(Blockers(visible)).start <= o.start
    <2>1. \A o \in Blockers(visible) : Sighted(o)
      BY <1>1
    <2> QED
      BY <1>1, <2>1, FirstOfIs
  <1>3. PICK a \in Int : a = FirstOf(Blockers(visible)).start /\ a <= Lookahead /\ a + HalfSpan <= Ring - 1
    BY <1>1, <1>2 DEF Sighted
  <1>4. Requested(Cluster(visible)) = Max({0, a - StopBuffer})
    BY <1>1, <1>3 DEF Requested
  <1>5. Max({0, a - StopBuffer}) = IF 0 <= a - StopBuffer THEN a - StopBuffer ELSE 0
    BY <1>3, Planner, OfTwo
  <1> QED
    BY <1>1, <1>2, <1>3, <1>4, <1>5, Planner

LEMMA OneOfEach ==
  ASSUME BoxType, NEW s \in Cell, NEW known, known \subseteq Obstacles
  PROVE  \A a, b \in Visible(s, known) : a.id = b.id => a = b
  BY VisibleIs

\* The stop that is asked for stays where it is.
LEMMA RequestedMoved ==
  ASSUME BoxType, NEW s \in Cell, NEW known, known \subseteq Obstacles,
         Cluster(Visible(s, known)) # {}, Requested(Cluster(Visible(s, known))) >= 1
  PROVE  /\ Cluster(Visible((s + 1) % Ring, known)) # {}
         /\ Requested(Cluster(Visible((s + 1) % Ring, known))) = Requested(Cluster(Visible(s, known))) - 1
  <1>1. PICK t \in Cell : t = (s + 1) % Ring
    BY NextCell
  <1>2. PICK v : v = Visible(s, known)
    OBVIOUS
  <1>3. PICK w : w = Visible(t, known)
    OBVIOUS
  <1>4. /\ \A o \in v : Sighted(o) /\ o.id \in known /\ o = Expanded(s, o.id)
        /\ \A i \in known : Expanded(s, i).end >= 0 /\ Expanded(s, i).start <= Lookahead
                               => Expanded(s, i) \in v
        /\ \A a, b \in v : a.id = b.id => a = b
    BY <1>2, VisibleIs, OneOfEach
  <1>5. /\ \A o \in w : Sighted(o) /\ o.id \in known /\ o = Expanded(t, o.id)
        /\ \A i \in known : Expanded(t, i).end >= 0 /\ Expanded(t, i).start <= Lookahead
                               => Expanded(t, i) \in w
        /\ \A a, b \in w : a.id = b.id => a = b
    BY <1>3, VisibleIs, OneOfEach
  <1>6. PICK f : f = FirstOf(Blockers(v))
    OBVIOUS
  <1>7. /\ Cluster(v) # {} /\ f \in Blockers(v) /\ f \in v /\ \A o \in Blockers(v) : f.start <= o.start
        /\ Requested(Cluster(v)) = IF 0 <= f.start - StopBuffer THEN f.start - StopBuffer ELSE 0
    BY <1>2, <1>4, <1>6, RequestedIs
  <1>8. Sighted(f) /\ f.id \in known /\ f = Expanded(s, f.id) /\ Blocking(f) /\ f.start >= 1 + StopBuffer
        /\ Requested(Cluster(v)) = f.start - StopBuffer
    BY <1>2, <1>4, <1>7, Planner DEF Blockers, Sighted
  <1>9. PICK g : g = Expanded(t, f.id)
    OBVIOUS
  <1>10. g \in w /\ Blocking(g) /\ g.start = f.start - 1
    <2>1. f.id \in Obstacles /\ f.start \in Int /\ f.end = f.start + HalfSpan + HalfSpan
          /\ f.start <= Lookahead
      BY <1>8 DEF Sighted
    <2>2. f.start + HalfSpan # 0 /\ f.start >= 1
      BY <1>8, <2>1, Planner
    <2>3. g.start = f.start - 1 /\ g.end = f.end - 1 /\ Blocking(g)
      BY <1>1, <1>8, <1>9, <2>1, <2>2, ExpandedMoved
    <2>4. g.end >= 0 /\ g.start <= Lookahead
      BY <2>1, <2>2, <2>3, Planner
    <2> QED
      BY <1>5, <1>8, <1>9, <2>3, <2>4
  <1>11. ASSUME NEW b \in Blockers(w) PROVE f.start - 1 <= b.start
    <2>1. b \in w /\ Blocking(b)
      BY DEF Blockers
    <2>2. b.id \in known /\ b.id \in Obstacles /\ b = Expanded(t, b.id) /\ Sighted(b) /\ Sighted(f)
      BY <1>5, <1>8, <2>1
    <2>3. PICK e : e = Expanded(s, b.id)
      OBVIOUS
    <2>4. /\ e.start + HalfSpan = 0 => b.start + HalfSpan = Ring - 1
          /\ e.start + HalfSpan # 0 =>
               b.start = e.start - 1 /\ b.end = e.end - 1 /\ (Blocking(b) => Blocking(e))
      BY <1>1, <2>2, <2>3, ExpandedMoved
    <2>5. e.start \in Int /\ e.end \in Int
      BY <2>2, <2>3, ExpandedIs, Planner
    <2>6. CASE e.start + HalfSpan = 0
      BY <2>2, <2>4, <2>6, Planner DEF Sighted
    <2>7. CASE e.start + HalfSpan # 0 /\ e.start > Lookahead
      BY <2>2, <2>4, <2>5, <2>7, Planner DEF Sighted
    <2>8. CASE e.start + HalfSpan # 0 /\ ~(e.start > Lookahead)
      <3>1. e.end >= 0 /\ e.start <= Lookahead /\ Blocking(e) /\ b.start = e.start - 1
        BY <2>1, <2>2, <2>4, <2>5, <2>8, Planner DEF Sighted
      <3>2. e \in Blockers(v)
        BY <1>4, <2>2, <2>3, <3>1 DEF Blockers
      <3>3. f.start <= e.start
        BY <1>7, <3>2
      <3> QED
        BY <2>2, <2>5, <3>1, <3>3 DEF Sighted
    <2> QED
      BY <2>6, <2>7, <2>8
  <1>12. g \in Blockers(w)
    BY <1>10 DEF Blockers
  <1>13. Cluster(w) # {}
    <2>1. \A o \in w : Sighted(o)
      BY <1>5
    <2> QED
      BY <1>5, <1>12, <2>1, ClusterIs
  <1>14. PICK h : h = FirstOf(Blockers(w))
    OBVIOUS
  <1>15. /\ h \in Blockers(w) /\ h \in w /\ \A o \in Blockers(w) : h.start <= o.start
         /\ Requested(Cluster(w)) = IF 0 <= h.start - StopBuffer THEN h.start - StopBuffer ELSE 0
    BY <1>5, <1>13, <1>14, RequestedIs
  <1>16. h.start = f.start - 1
    <2>1. h.start <= f.start - 1 /\ f.start - 1 <= h.start /\ h.start \in Int /\ f.start \in Int
      BY <1>5, <1>8, <1>10, <1>11, <1>12, <1>15 DEF Sighted
    <2> QED
      BY <2>1
  <1>17. Requested(Cluster(w)) = Requested(Cluster(v)) - 1
    BY <1>8, <1>15, <1>16, Planner DEF Sighted
  <1> QED
    BY <1>1, <1>2, <1>3, <1>13, <1>17

-----------------------------------------------------------------------------
(* The answers.                                                              *)

Poses   == [s : Cell, d : Lane]
Answers == [kind : Kinds, side : Sides \cup {Free}, path : Seq(Waypoints), ids : SUBSET Obstacles,
            end : Cell, verified : BOOLEAN, known : SUBSET Obstacles]

LEMMA LaneIs ==
  /\ \A d : d \in Lane <=> d \in Int /\ Body - Half <= d /\ d <= Half - Body
  /\ 0 \in Lane /\ 0 \in Cell /\ \A d \in Int : Distance(d, 0) + Body <= Half => d \in Lane
  <1>1. \A d : d \in Lane <=> d \in Int /\ Body - Half <= d /\ d <= Half - Body
    BY Planner DEF Lane
  <1>2. 0 \in Lane /\ 0 \in Cell
    BY Planner DEF Lane, Cell
  <1>3. \A d \in Int : Distance(d, 0) + Body <= Half => d \in Lane
    BY Planner DEF Lane, Distance
  <1> QED
    BY <1>1, <1>2, <1>3

LEMMA TowardIs ==
  ASSUME NEW a \in Int, NEW b \in Int, NEW step \in Int
  PROVE  /\ Toward(a, b, step) \in Int
         /\ step >= 0 /\ a \in Lane /\ b \in Lane => Toward(a, b, step) \in Lane
         /\ step >= 0 /\ a = b => Toward(a, b, step) = a
  <1>1. PICK up \in Int : up = a + step
    OBVIOUS
  <1>2. PICK down \in Int : down = a - step
    OBVIOUS
  <1>3. Min({b, up}) = (IF b <= up THEN b ELSE up) /\ Max({b, down}) = (IF b <= down THEN down ELSE b)
    BY OfTwo
  <1>4. Toward(a, b, step) = IF a <= b THEN (IF b <= up THEN b ELSE up)
                             ELSE (IF b <= down THEN down ELSE b)
    BY <1>1, <1>2, <1>3 DEF Toward
  <1>5. Toward(a, b, step) \in Int
    BY <1>4
  <1>6. step >= 0 /\ a \in Lane /\ b \in Lane => Toward(a, b, step) \in Lane
    BY <1>1, <1>2, <1>4, Planner DEF Lane
  <1>7. step >= 0 /\ a = b => Toward(a, b, step) = a
    BY <1>1, <1>2, <1>4
  <1> QED
    BY <1>5, <1>6, <1>7

\* What is known of a stop that can be left: it lies in the lane of the car, not behind
\* the stop that was asked for, and one cell further on the car would not get away.
Rests(a, from, known) ==
  LET visible == Visible(from.s, known)
      asked   == Requested(Cluster(visible))
  IN \E stop \in Nat :
       /\ Len(a.path) = stop + 1 /\ \A i \in 1..(stop + 1) : a.path[i].d = from.d
       /\ Cluster(visible) # {} /\ stop <= asked
       /\ Escapable(from, stop, known)
       /\ stop < asked => ~Escapable(from, stop + 1, known)

LEMMA StopPointIs ==
  ASSUME NEW from, NEW known, NEW requested \in Nat, requested <= Lookahead,
         NEW point, point = StopPoint(from, known, requested)
  PROVE  /\ point.at \in Nat /\ point.verified \in BOOLEAN /\ point.at <= requested
         /\ point.verified => Escapable(from, point.at, known)
         /\ point.verified /\ point.at < requested => ~Escapable(from, point.at + 1, known)
  <1>1. CASE Escapable(from, requested, known)
    <2>1. point = [at |-> requested, verified |-> TRUE]
      BY <1>1 DEF StopPoint
    <2>2. point.at = requested /\ point.verified /\ point.verified \in BOOLEAN
      BY <2>1
    <2>3. Escapable(from, point.at, known) /\ ~(point.at < requested)
      BY <1>1, <2>2
    <2>4. point.at \in Nat /\ point.at <= requested
      BY <2>2
    <2> QED
      BY <2>2, <2>3, <2>4, Zenon
  <1>2. CASE ~Escapable(from, requested, known) /\ requested > 0 /\ Escapable(from, 0, known)
    <2>1. PICK stop \in Nat :
            /\ Retreated(from, known, requested) = stop /\ stop < requested
            /\ Escapable(from, stop, known) /\ ~Escapable(from, stop + 1, known)
      BY <1>2, RetreatIs
    <2>2. point = [at |-> stop, verified |-> TRUE]
      BY <1>2, <2>1 DEF StopPoint
    <2>3. point.at = stop /\ point.verified /\ point.verified \in BOOLEAN
      BY <2>2
    <2>4. Escapable(from, point.at, known) /\ ~Escapable(from, point.at + 1, known)
      BY <2>1, <2>3
    <2>5. point.at \in Nat /\ point.at <= requested
      BY <2>1, <2>3
    <2> QED
      BY <2>3, <2>4, <2>5, Zenon
  <1>3. CASE ~Escapable(from, requested, known) /\ ~(requested > 0 /\ Escapable(from, 0, known))
    <2>1. point = [at |-> requested, verified |-> FALSE]
      BY <1>3 DEF StopPoint
    <2>2. point.at = requested /\ ~point.verified /\ point.verified \in BOOLEAN
      BY <2>1
    <2>3. point.at \in Nat /\ point.at <= requested
      BY <2>2
    <2> QED
      BY <2>2, <2>3, Zenon
  <1> QED
    BY <1>1, <1>2, <1>3

LEMMA StopPathIs ==
  ASSUME NEW from \in Poses, NEW stop \in Nat
  PROVE  /\ StopPath(from, stop) \in Seq(Waypoints) /\ Len(StopPath(from, stop)) = stop + 1
         /\ \A i \in 1..(stop + 1) : StopPath(from, stop)[i].d = from.d
  <1> DEFINE fast(i) == (from.s + i - 1) % Ring \notin Bends /\ stop - (i - 1) >= BrakingFast
  <1>1. from.d \in Lane
    BY DEF Poses
  <1>2. \A i \in 1..(stop + 1) : [d |-> from.d, fast |-> fast(i)] \in Waypoints
    <2>1. \A i \in 1..(stop + 1) : fast(i) \in BOOLEAN
      OBVIOUS
    <2> HIDE DEF fast
    <2> QED
      BY <1>1, <2>1 DEF Waypoints
  <1>3. StopPath(from, stop) = [i \in 1..(stop + 1) |-> [d |-> from.d, fast |-> fast(i)]]
    BY DEF StopPath
  <1> HIDE DEF fast
  <1> QED
    BY <1>2, <1>3

\* What is said of a safe stop.
Halting(a, from, known, kind) ==
  /\ a \in Answers /\ a.known = known /\ Len(a.path) <= Ring
  /\ a.kind \in {kind, "NO_PATH"}
  /\ a.kind = kind /\ a.verified => Rests(a, from, known)

LEMMA SafeStopIs ==
  ASSUME BoxType, NEW from \in Poses, NEW known \in SUBSET Obstacles,
         NEW kind \in {"STOP", "PREPARATION"}, Cluster(Visible(from.s, known)) # {},
         NEW a, a = SafeStop(from, known, Visible(from.s, known), Cluster(Visible(from.s, known)), kind)
  PROVE  Halting(a, from, known, kind)
  <1>1. PICK visible : visible = Visible(from.s, known)
    OBVIOUS
  <1>2. PICK cluster : cluster = Cluster(visible)
    OBVIOUS
  <1>3. from.s \in Cell /\ from.d \in Lane
    BY DEF Poses
  <1>4. /\ \A o \in visible : Sighted(o) /\ o.id \in known /\ o = Expanded(from.s, o.id)
        /\ \A b, c \in visible : b.id = c.id => b = c
    BY <1>1, <1>3, VisibleIs, OneOfEach
  <1>5. PICK requested \in Nat : requested = Requested(cluster) /\ requested <= Lookahead
                                 /\ requested <= Ring - 1
    BY <1>1, <1>2, <1>4, RequestedIs
  <1>13. PICK point : point = StopPoint(from, known, requested)
    OBVIOUS
  <1>14. /\ point.at \in Nat /\ point.verified \in BOOLEAN /\ point.at <= requested
         /\ point.verified => Escapable(from, point.at, known)
         /\ point.verified /\ point.at < requested => ~Escapable(from, point.at + 1, known)
    BY <1>5, <1>13, StopPointIs
  <1>15. PICK verified \in BOOLEAN : verified = point.verified
    BY <1>14
  <1>6. PICK spot \in Nat :
           /\ spot = point.at /\ spot <= requested
           /\ verified => Escapable(from, spot, known)
           /\ verified /\ spot < requested => ~Escapable(from, spot + 1, known)
    BY <1>14, <1>15
  <1>7. PICK ids \in SUBSET Obstacles : ids = {o.id : o \in cluster}
    <2>1. cluster \subseteq visible
      BY <1>2, <1>4, ClusterIs
    <2> QED
      BY <1>4, <2>1
  <1>8. kind \in Kinds /\ "NO_PATH" \in Kinds /\ Free \in Sides \cup {Free} /\ 0 \in Cell
        /\ <<>> \in Seq(Waypoints) /\ Len(<<>>) = 0 /\ FALSE \in BOOLEAN
    BY LaneIs DEF Kinds
  <1>9. PICK p \in Seq(Waypoints) : p = StopPath(from, spot) /\ Len(p) = spot + 1
                                    /\ \A i \in 1..(spot + 1) : p[i].d = from.d
    BY StopPathIs
  <1>10. \/ a = [kind |-> kind, side |-> Free, path |-> p, ids |-> ids, end |-> 0,
                 verified |-> verified, known |-> known]
         \/ a = [kind |-> "NO_PATH", side |-> Free, path |-> <<>>, ids |-> ids, end |-> 0,
                 verified |-> FALSE, known |-> known]
    <2>1. a = StopAnswer(from, known, visible, cluster, kind, point)
      BY <1>1, <1>2, <1>5, <1>13 DEF SafeStop
    <2>2. \/ a = [Unanswered(kind, known) EXCEPT !.path = p, !.verified = verified, !.ids = ids]
          \/ a = [Unanswered("NO_PATH", known) EXCEPT !.ids = ids]
      BY <1>6, <1>7, <1>9, <1>15, <2>1 DEF StopAnswer
    <2> QED
      BY <2>2 DEF Unanswered
  <1>11. CASE a = [kind |-> kind, side |-> Free, path |-> p, ids |-> ids, end |-> 0,
                   verified |-> verified, known |-> known]
    <2>1. a \in Answers
      BY ONLY <1>8, <1>11, kind \in Kinds, p \in Seq(Waypoints), ids \in SUBSET Obstacles,
         verified \in BOOLEAN, known \in SUBSET Obstacles DEF Answers
    <2>2. a.known = known /\ a.kind = kind /\ a.path = p /\ a.verified = verified
      BY <1>11
    <2>3. Len(a.path) <= Ring
      BY <1>5, <1>6, <1>9, <2>2, Planner
    <2>4. verified => Rests(a, from, known)
      BY <1>1, <1>2, <1>5, <1>6, <1>9, <2>2 DEF Rests
    <2> QED
      BY <2>1, <2>2, <2>3, <2>4 DEF Halting
  <1>12. CASE a = [kind |-> "NO_PATH", side |-> Free, path |-> <<>>, ids |-> ids, end |-> 0,
                   verified |-> FALSE, known |-> known]
    <2>1. a \in Answers
      <3>1. PICK k \in Kinds, side \in Sides \cup {Free}, e \in Seq(Waypoints), z \in Cell, f \in BOOLEAN :
               k = "NO_PATH" /\ side = Free /\ e = <<>> /\ z = 0 /\ f = FALSE
        BY <1>8
      <3>2. a = [kind |-> k, side |-> side, path |-> e, ids |-> ids, end |-> z,
                 verified |-> f, known |-> known]
        BY <1>12, <3>1
      <3> QED
        BY ONLY <3>1, <3>2, ids \in SUBSET Obstacles, known \in SUBSET Obstacles DEF Answers
    <2>2. a.known = known /\ a.kind = "NO_PATH" /\ a.path = <<>>
      BY <1>12
    <2>3. Len(a.path) <= Ring
      BY <1>8, <2>2, Planner
    <2> QED
      BY <2>1, <2>2, <2>3 DEF Halting
  <1> QED
    BY <1>10, <1>11, <1>12

-----------------------------------------------------------------------------
(* The candidates.                                                           *)

\* There are only two obstacles.
LEMMA TwoAtMost ==
  ASSUME NEW S, S # {}, \A o \in S : Sighted(o), \A a, b \in S : a.id = b.id => a = b
  PROVE  \E a, b \in S : S = {a, b}
  <1>1. PICK a \in S : TRUE
    OBVIOUS
  <1>2. CASE S = {a}
    BY <1>1, <1>2
  <1>3. CASE S # {a}
    <2>1. PICK b \in S : b # a
      BY <1>1, <1>3
    <2>2. \A c \in S : c.id = 1 \/ c.id = 2
      BY DEF Sighted, Obstacles
    <2>3. \A c \in S : c = a \/ c = b
      BY <1>1, <2>1, <2>2
    <2> QED
      BY <1>1, <2>1, <2>3
  <1> QED
    BY <1>2, <1>3

LEMMA NearestIs ==
  ASSUME NEW cluster, cluster # {}, \A o \in cluster : Sighted(o),
         \A a, b \in cluster : a.id = b.id => a = b, NEW side \in Sides, NEW relaxed \in BOOLEAN
  PROVE  Nearest(cluster, side, relaxed) \in Int
  <1> DEFINE At(o) == Edge(o, side) + (IF relaxed THEN Clearance + SlowReserve ELSE o.strict)
  <1>1. PICK a \in cluster, b \in cluster : cluster = {a, b}
    BY TwoAtMost
  <1>2. \A o \in cluster : At(o) \in Int
    <2> TAKE o \in cluster
    <2>1. o.right \in Int /\ o.left \in Int /\ o.strict \in Nat
      BY DEF Sighted
    <2>2. Edge(o, side) \in Int
      BY <2>1 DEF Edge
    <2> QED
      BY <2>1, <2>2, Planner
  <1>3. Nearest(cluster, side, relaxed) = Max({MinOffset} \cup {At(o) : o \in cluster})
    BY DEF Nearest
  <1> HIDE DEF At
  <1>4. PICK x \in Int, y \in Int : x = At(a) /\ y = At(b)
    BY <1>1, <1>2
  <1>5. {MinOffset} \cup {At(o) : o \in cluster} = {MinOffset, x, y}
    BY <1>1, <1>4
  <1>6. PICK top \in Int : MinOffset <= top /\ x <= top /\ y <= top
    <2>1. PICK m \in Int : MinOffset <= m /\ x <= m
      BY Planner
    <2>2. y <= m \/ m <= y
      OBVIOUS
    <2> QED
      BY <2>1, <2>2, Planner
  <1>7. Max({MinOffset, x, y}) \in {MinOffset, x, y}
    <2> DEFINE S == {MinOffset, x, y}
    <2>1. S \subseteq Int /\ S # {} /\ \A z \in S : z <= top
      BY <1>6, Planner
    <2> HIDE DEF S
    <2>2. Max(S) \in S
      BY <2>1, MaxIs
    <2> QED
      BY <2>2 DEF S
  <1> QED
    BY <1>3, <1>5, <1>7, Planner

LEMMA HalfAtIs == \A cell : HalfAt(cell) \in Nat /\ HalfAt(cell) <= Half
  BY Planner DEF HalfAt

LEMMA FarthestIs == ASSUME NEW s, NEW cluster PROVE Farthest(s, cluster) \in Int
  <1> DEFINE S == {MaxOffset} \cup {HalfAt((s + k) % Ring) - Body
                                    : k \in Max({0, FirstOf(cluster).start})..EndOf(cluster)}
  <1>1. Farthest(s, cluster) = Min(S)
    BY DEF Farthest
  <1>2. S \subseteq Int /\ \A x \in S : -Body <= x
    BY HalfAtIs, Planner
  <1>3. S # {} /\ -Body \in Int
    BY Planner
  <1> HIDE DEF S
  <1> QED
    BY <1>1, <1>2, <1>3, MinIs

LEMMA TargetRangeIs ==
  ASSUME NEW s, NEW cluster, cluster # {}, \A o \in cluster : Sighted(o),
         \A a, b \in cluster : a.id = b.id => a = b, NEW side \in Sides, NEW relaxed \in BOOLEAN,
         NEW range, range = TargetRange(s, cluster, side, relaxed), range # {}
  PROVE  Min(range) \in Int /\ Max(range) \in Int
  <1>1. PICK near \in Int, slow \in Int :
           near = Nearest(cluster, side, relaxed) /\ slow = Nearest(cluster, side, TRUE)
    BY NearestIs
  <1>2. PICK far \in Int : far = Farthest(s, cluster)
    BY FarthestIs
  <1>3. range = near..far \/ range = slow..far
    BY <1>1, <1>2 DEF TargetRange
  <1>4. ASSUME NEW lo \in Int, range = lo..far PROVE Min(range) \in Int /\ Max(range) \in Int
    <2>1. range \subseteq Int /\ (\A x \in range : lo <= x) /\ \A x \in range : x <= far
      BY <1>4
    <2> QED
      BY <2>1, MinIs, MaxIs
  <1> QED
    BY <1>3, <1>4

LEMMA QuotientIs ==
  ASSUME NEW a \in Nat, NEW b \in Nat \ {0}
  PROVE  (a + b - 1) \div b \in Nat
  <1>1. PICK x \in Nat : x = a + b - 1
    <2>1. a + b - 1 \in Nat
      OBVIOUS
    <2> QED
      BY <2>1
  <1>2. PICK q \in Int : q = x \div b
    OBVIOUS
  <1>3. PICK r \in 0..(b - 1) : r = x % b
    OBVIOUS
  <1>4. x = b * q + r
    BY <1>2, <1>3
  <1>5. q >= 0
    <2> SUFFICES ASSUME q < 0 PROVE FALSE
      OBVIOUS
    <2>1. PICK m \in Nat : q = -(m + 1)
      <3>1. -(q + 1) \in Nat /\ q = -(-(q + 1) + 1)
        OBVIOUS
      <3> QED
        BY <3>1
    <2>2. b * m \in Nat
      BY ONLY b \in Nat, m \in Nat, Products
    <2>3. b * q = -(b * m) - b
      BY <2>1
    <2> QED
      BY <1>4, <2>2, <2>3
  <1> QED
    BY <1>1, <1>2, <1>5

LEMMA DistanceIs == \A a, b \in Int : Distance(a, b) \in Nat
  BY DEF Distance

LEMMA ManoeuvreIs ==
  ASSUME NEW from \in Poses, NEW target \in Int, NEW entry \in Rates, NEW exit \in Rates,
         NEW cluster, NEW visible, EndOf(cluster) \in Nat
  PROVE  \E n \in Nat : /\ n <= Ring - 1
                        /\ Manoeuvre(from, target, entry, exit, cluster, visible)
                              \in [1..n -> [d : Int, fast : BOOLEAN]]
  <1> DEFINE end  == EndOf(cluster)
             size == Min({Ring - 1, end + 2 + (Distance(target, 0) + exit - 1) \div exit})
             lane(k) == IF k <= end THEN Toward(from.d, target, entry * k)
                        ELSE Toward(Toward(from.d, target, entry * end), 0, exit * (k - end))
             full(k) == [d |-> lane(k), fast |-> (from.s + k) % Ring \notin Bends]
             free(k) == \A o \in visible : ~Hits(full(k), k, o, ClearanceOf(full(k)))
  <1>1. Manoeuvre(from, target, entry, exit, cluster, visible) =
           [i \in 1..size |-> [full(i - 1) EXCEPT !.fast = @ /\ free(i - 1)]]
    BY DEF Manoeuvre
  <1>2. size \in Nat /\ size <= Ring - 1
    <2>1. PICK q \in Nat : q = (Distance(target, 0) + exit - 1) \div exit
      <3>1. exit \in Nat \ {0}
        BY Planner
      <3>2. PICK d \in Nat : d = Distance(target, 0)
        BY DistanceIs
      <3>3. (d + exit - 1) \div exit \in Nat
        BY <3>1, QuotientIs
      <3> QED
        BY <3>2, <3>3
    <2>2. PICK e \in Nat : e = end
      OBVIOUS
    <2>3. size = Min({Ring - 1, e + 2 + q})
      BY <2>1, <2>2
    <2>4. PICK u \in Nat, v \in Nat : u = Ring - 1 /\ v = e + 2 + q
      <3>1. Ring - 1 \in Nat /\ e + 2 + q \in Nat
        BY Planner
      <3> QED
        BY <3>1
    <2>5. Min({u, v}) = IF u <= v THEN u ELSE v
      BY OfTwo
    <2> HIDE DEF size
    <2> QED
      BY <2>3, <2>4, <2>5
  <1>3. \A k \in Int : lane(k) \in Int
    <2> TAKE k \in Int
    <2>1. from.d \in Int
      BY LaneIs DEF Poses
    <2>2. entry \in Int /\ exit \in Int /\ end \in Int
      BY Planner
    <2>3. PICK e \in Int : e = end
      BY <2>2
    <2>4. entry * k \in Int /\ entry * e \in Int /\ exit * (k - e) \in Int
      BY <2>2
    <2>5. Toward(from.d, target, entry * k) \in Int /\ Toward(from.d, target, entry * e) \in Int
      BY <2>1, <2>4, TowardIs
    <2>6. Toward(Toward(from.d, target, entry * e), 0, exit * (k - e)) \in Int
      BY <2>4, <2>5, TowardIs
    <2> QED
      BY <2>3, <2>5, <2>6
  <1>4. \A k \in Int : [full(k) EXCEPT !.fast = @ /\ free(k)] \in [d : Int, fast : BOOLEAN]
    <2> TAKE k \in Int
    <2>1. PICK d \in Int : d = lane(k)
      BY <1>3
    <2>2. full(k) = [d |-> d, fast |-> (from.s + k) % Ring \notin Bends]
      BY <2>1
    <2>3. PICK w : w = full(k)
      OBVIOUS
    <2>4. w = [d |-> d, fast |-> (from.s + k) % Ring \notin Bends]
      BY <2>2, <2>3
    <2>5. [w EXCEPT !.fast = @ /\ free(k)] = [d |-> d, fast |-> w.fast /\ free(k)]
      <3> HIDE DEF free
      <3> QED
        BY <2>4
    <2>6. (w.fast /\ free(k)) \in BOOLEAN
      <3> HIDE DEF free
      <3> QED
        OBVIOUS
    <2> HIDE DEF full, free
    <2> QED
      BY <2>3, <2>5, <2>6
  <1>5. \A i \in 1..size : i - 1 \in Int
    OBVIOUS
  <1> HIDE DEF full, free, size, lane, end
  <1>6. Manoeuvre(from, target, entry, exit, cluster, visible) \in [1..size -> [d : Int, fast : BOOLEAN]]
    BY <1>1, <1>4, <1>5
  <1> QED
    BY <1>2, <1>6

\* What the validator passes lies on the lanes of the track.
LEMMA ValidIs ==
  ASSUME NEW from, NEW p, NEW n \in Nat, p \in [1..n -> [d : Int, fast : BOOLEAN]],
         NEW visible, NEW horizon, NEW points, NEW kept, Valid(from, p, visible, horizon, points, kept)
  PROVE  p \in Seq(Waypoints) /\ Len(p) = n
  <1>1. DOMAIN p = 1..n /\ Len(p) = n
    BY Z3
  <1>2. \A i \in 1..n : p[i] \in Waypoints
    <2> TAKE i \in 1..n
    <2>1. FootprintFits(from.s, p, i)
      BY <1>1 DEF Valid
    <2>2. PICK w : w = p[i] /\ w \in [d : Int, fast : BOOLEAN]
      OBVIOUS
    <2>3. PICK h \in Nat : h = HalfAt((from.s + i - 1) % Ring) /\ h <= Half
      BY HalfAtIs
    <2>4. Distance(w.d, 0) + Body + (IF Turned(p, i) THEN Corner ELSE 0) <= h
      BY <2>1, <2>2, <2>3 DEF FootprintFits
    <2>5. w.d \in Int /\ Distance(w.d, 0) \in Nat
      BY <2>2, DistanceIs
    <2>6. Distance(w.d, 0) + Body <= Half
      BY <2>3, <2>4, <2>5, Planner
    <2>7. w.d \in Lane
      BY <2>5, <2>6, LaneIs
    <2>8. w \in Waypoints
      BY <2>2, <2>7 DEF Waypoints
    <2> QED
      BY <2>2, <2>8
  <1>3. p \in [1..n -> Waypoints]
    BY <1>2
  <1> QED
    BY <1>1, <1>3

\* A candidate that passes.
Passing(c, from, visible, cluster) ==
  /\ c.side \in Sides /\ c.path \in Seq(Waypoints) /\ Len(c.path) <= Ring
  /\ Valid(from, c.path, visible, ScopeEnd(visible, {o.id : o \in cluster}, EndOf(cluster)),
           MinPoints, FALSE)

LEMMA FeasibleIs ==
  ASSUME NEW from \in Poses, NEW visible, NEW cluster, cluster # {}, \A o \in cluster : Sighted(o),
         \A a, b \in cluster : a.id = b.id => a = b, NEW c \in Feasible(from, visible, cluster)
  PROVE  Passing(c, from, visible, cluster)
  <1>1. ASSUME NEW relaxed \in BOOLEAN, c \in Passes(from, visible, cluster, relaxed)
        PROVE  Passing(c, from, visible, cluster)
    <2> DEFINE range(side) == TargetRange(from.s, cluster, side, relaxed)
               targets(side) == IF range(side) = {} THEN {} ELSE {Min(range(side)), Max(range(side))}
               all == UNION {{[side |-> side,
                       path |-> Manoeuvre(from, side * target, entry, exit, cluster, visible)]
                      : target \in targets(side), entry \in Rates, exit \in Rates}
                     : side \in Sides}
               valid(p) == Valid(from, p, visible, ScopeEnd(visible, {o.id : o \in cluster}, EndOf(cluster)),
                                 MinPoints, FALSE)
    <2>11. Passes(from, visible, cluster, relaxed) = {x \in all : valid(x.path)}
      BY DEF Passes
    <2>13. valid(c.path)
      <3> HIDE DEF all, valid
      <3> QED
        BY <1>1, <2>11
    <2>12. c \in all
      <3> HIDE DEF all, valid
      <3> QED
        BY <1>1, <2>11
    <2>1. Valid(from, c.path, visible, ScopeEnd(visible, {o.id : o \in cluster}, EndOf(cluster)),
                MinPoints, FALSE)
      BY <2>13
    <2>2. PICK side \in Sides : \E target \in targets(side), entry \in Rates, exit \in Rates :
             c = [side |-> side,
                  path |-> Manoeuvre(from, side * target, entry, exit, cluster, visible)]
      <3> HIDE DEF valid
      <3> QED
        BY <2>12
    <2>10. PICK target \in targets(side), entry \in Rates, exit \in Rates :
             c = [side |-> side,
                  path |-> Manoeuvre(from, side * target, entry, exit, cluster, visible)]
      BY <2>2
    <2>3. target \in Int
      <3>1. range(side) # {} /\ target \in {Min(range(side)), Max(range(side))}
        BY <2>10
      <3>2. PICK span : span = TargetRange(from.s, cluster, side, relaxed)
        OBVIOUS
      <3>3. span # {} /\ target \in {Min(span), Max(span)}
        BY <3>1, <3>2
      <3> QED
        BY <3>2, <3>3, TargetRangeIs
    <2>4. side * target \in Int
      BY <2>3 DEF Sides
    <2>5. EndOf(cluster) \in Nat
      BY EndOfIs
    <2>6. PICK n \in Nat : /\ n <= Ring - 1
                           /\ Manoeuvre(from, side * target, entry, exit, cluster, visible)
                                 \in [1..n -> [d : Int, fast : BOOLEAN]]
      BY <2>4, <2>5, ManoeuvreIs
    <2>7. PICK p : p = Manoeuvre(from, side * target, entry, exit, cluster, visible)
      OBVIOUS
    <2>8. c.side = side /\ c.path = p
      BY <2>10, <2>7
    <2> HIDE DEF targets, all, valid
    <2>9. p \in Seq(Waypoints) /\ Len(p) = n
      <3>1. PICK horizon : Valid(from, p, visible, horizon, MinPoints, FALSE)
        BY <2>1, <2>8
      <3> QED
        BY <2>6, <2>7, <3>1, ValidIs
    <2> QED
      <3>1. n <= Ring
        BY <2>6, Planner
      <3> QED
        BY <2>1, <2>8, <2>9, <3>1 DEF Passing
  <1>2. c \in Passes(from, visible, cluster, FALSE) \/ c \in Passes(from, visible, cluster, TRUE)
    BY DEF Feasible, FirstOffer
  <1> QED
    BY <1>1, <1>2

-----------------------------------------------------------------------------
(* The plans.                                                                *)

LEMMA UnansweredIs ==
  ASSUME NEW kind \in Kinds, NEW known \in SUBSET Obstacles, NEW a, a = Unanswered(kind, known)
  PROVE  a \in Answers /\ a.kind = kind /\ a.known = known /\ a.path = <<>> /\ Len(a.path) <= Ring
         /\ ~a.verified /\ a.ids = {} /\ a.side = Free
  <1>1. PICK side \in Sides \cup {Free}, e \in Seq(Waypoints), z \in Cell, f \in BOOLEAN, s \in SUBSET Obstacles :
           side = Free /\ e = <<>> /\ z = 0 /\ f = FALSE /\ s = {}
    <2>1. Free \in Sides \cup {Free} /\ <<>> \in Seq(Waypoints) /\ 0 \in Cell /\ FALSE \in BOOLEAN
          /\ {} \in SUBSET Obstacles
      BY LaneIs
    <2> QED
      BY <2>1
  <1>2. a = [kind |-> kind, side |-> side, path |-> e, ids |-> s, end |-> z,
             verified |-> f, known |-> known]
    BY <1>1 DEF Unanswered
  <1>3. a \in Answers
    BY ONLY <1>1, <1>2, kind \in Kinds, known \in SUBSET Obstacles DEF Answers
  <1>4. a.kind = kind /\ a.known = known /\ a.path = <<>> /\ a.ids = {} /\ a.side = Free
    BY <1>1, <1>2
  <1>5. ~a.verified
    BY <1>1, <1>2
  <1>6. Len(a.path) <= Ring
    BY <1>4, Planner
  <1> QED
    BY <1>3, <1>4, <1>5, <1>6

\* The end of a cluster, as a cell.
LEMMA EndCell ==
  ASSUME NEW from \in Poses, NEW S, EndOf(S) \in Nat
  PROVE  (from.s + EndOf(S)) % Ring \in Cell
  <1>1. from.s + EndOf(S) \in Int
    BY Planner DEF Poses, Cell
  <1> QED
    BY <1>1, Planner, RingStep DEF Cell

LEMMA MarginPassIs ==
  ASSUME NEW from \in Poses, NEW known \in SUBSET Obstacles, NEW cluster, EndOf(cluster) \in Nat,
         (\A o \in cluster : o.id \in Obstacles), NEW a, a = MarginPass(from, known, cluster)
  PROVE  a \in Answers /\ a.kind = "MARGIN" /\ a.known = known /\ Len(a.path) <= Ring
  <1>1. PICK n \in Nat : n = Min({Ring - 1, EndOf(cluster) + StopBuffer + 1}) /\ n <= Ring - 1
    <2>1. PICK u \in Nat, v \in Nat : u = Ring - 1 /\ v = EndOf(cluster) + StopBuffer + 1
      <3>1. Ring - 1 \in Nat /\ EndOf(cluster) + StopBuffer + 1 \in Nat
        BY Planner
      <3> QED
        BY <3>1
    <2>2. Min({u, v}) = IF u <= v THEN u ELSE v
      <3>1. u \in Int /\ v \in Int
        OBVIOUS
      <3> QED
        BY ONLY <3>1, OfTwo
    <2>3. Min({u, v}) \in Nat /\ Min({u, v}) <= u
      BY <2>2
    <2> QED
      BY <2>1, <2>3
  <1>2. PICK p : p = [i \in 1..n |-> [d |-> 0, fast |-> FALSE]]
    OBVIOUS
  <1>3. p \in Seq(Waypoints) /\ Len(p) = n
    <2>1. PICK lane \in Lane, f \in BOOLEAN : lane = 0 /\ f = FALSE
      BY LaneIs
    <2>2. PICK w \in Waypoints : w = [d |-> 0, fast |-> FALSE]
      <3>1. [d |-> lane, fast |-> f] \in Waypoints
        BY DEF Waypoints
      <3> QED
        BY <2>1, <3>1
    <2>3. p = [i \in 1..n |-> w]
      BY <1>2, <2>2
    <2> QED
      BY <2>3
  <1>4. PICK kind \in Kinds, side \in Sides \cup {Free}, ids \in SUBSET Obstacles, end \in Cell, f \in BOOLEAN :
           kind = "MARGIN" /\ side = Free /\ ids = {o.id : o \in cluster}
           /\ end = (from.s + EndOf(cluster)) % Ring /\ f = FALSE
    <2>1. "MARGIN" \in Kinds /\ Free \in Sides \cup {Free} /\ FALSE \in BOOLEAN
      BY DEF Kinds
    <2>2. PICK e \in Cell : e = (from.s + EndOf(cluster)) % Ring
      BY EndCell
    <2> QED
      BY <2>1, <2>2
  <1>5. a = [kind |-> kind, side |-> side, path |-> p, ids |-> ids, end |-> end,
             verified |-> f, known |-> known]
    <2>1. a = [Unanswered("MARGIN", known) EXCEPT !.path = p, !.ids = ids, !.end = end]
      BY <1>1, <1>2, <1>4 DEF MarginPass
    <2> QED
      BY <1>4, <2>1 DEF Unanswered
  <1>6. a \in Answers /\ a.kind = kind /\ a.path = p /\ a.known = known
    BY ONLY <1>3, <1>4, <1>5, known \in SUBSET Obstacles DEF Answers
  <1>7. Len(a.path) <= Ring
    BY <1>1, <1>3, <1>6, Planner
  <1> QED
    BY <1>4, <1>6, <1>7

\* What is said of a selection.
Choosing(a, from, known, cluster, c) ==
  /\ a \in Answers /\ a.kind = "AVOIDANCE" /\ a.known = known /\ a.path = c.path
  /\ a.ids = {o.id : o \in cluster} /\ a.end = (from.s + EndOf(cluster)) % Ring

LEMMA SelectedIs ==
  ASSUME NEW from \in Poses, NEW known \in SUBSET Obstacles, NEW cluster, EndOf(cluster) \in Nat,
         (\A o \in cluster : o.id \in Obstacles), NEW c, c.side \in Sides,
         c.path \in Seq(Waypoints), NEW a, a = Selected(from, known, cluster, c)
  PROVE  Choosing(a, from, known, cluster, c)
  <1>1. PICK kind \in Kinds, side \in Sides \cup {Free}, p \in Seq(Waypoints), ids \in SUBSET Obstacles,
             f \in BOOLEAN :
           kind = "AVOIDANCE" /\ side = c.side /\ p = c.path /\ ids = {o.id : o \in cluster} /\ f = FALSE
    <2>1. "AVOIDANCE" \in Kinds /\ c.side \in Sides \cup {Free} /\ FALSE \in BOOLEAN
      BY DEF Kinds
    <2> QED
      BY <2>1
  <1>2. PICK end \in Cell : end = (from.s + EndOf(cluster)) % Ring
    BY EndCell
  <1>3. a = [kind |-> kind, side |-> side, path |-> p, ids |-> ids, end |-> end,
             verified |-> f, known |-> known]
    <2>1. a = [Unanswered("AVOIDANCE", known) EXCEPT !.side = side, !.path = p, !.ids = ids, !.end = end]
      BY <1>1, <1>2 DEF Selected
    <2> QED
      BY <1>1, <2>1 DEF Unanswered
  <1>4. a \in Answers /\ a.kind = kind /\ a.path = p /\ a.ids = ids /\ a.end = end /\ a.known = known
    BY ONLY <1>1, <1>2, <1>3, known \in SUBSET Obstacles DEF Answers
  <1> QED
    BY <1>1, <1>2, <1>4 DEF Choosing

\* What a plan made at a pose, of the obstacles that are known, says.
Answering(a, from, known) ==
  LET visible == Visible(from.s, known)
      cluster == Cluster(visible)
  IN /\ a \in Answers /\ a.known = known /\ Len(a.path) <= Ring
     /\ a.kind = "LINE" => cluster = {}
     /\ a.kind \in {"STOP", "PREPARATION"} /\ a.verified => Rests(a, from, known)
     /\ a.kind = "AVOIDANCE" =>
          cluster # {} /\ \E c \in Feasible(from, visible, cluster) : a = Selected(from, known, cluster, c)

LEMMA WithoutCandidateIs ==
  ASSUME BoxType, NEW from \in Poses, NEW known \in SUBSET Obstacles,
         Cluster(Visible(from.s, known)) # {}, NEW kind \in {"STOP", "PREPARATION"},
         EndOf(Cluster(Visible(from.s, known))) \in Nat,
         (\A o \in Cluster(Visible(from.s, known)) : o.id \in Obstacles), NEW a,
         a = WithoutCandidate(from, known, Visible(from.s, known), Cluster(Visible(from.s, known)), kind)
  PROVE  Answering(a, from, known) /\ a.kind \in {"MARGIN", kind, "NO_PATH"}
  <1>1. CASE a = MarginPass(from, known, Cluster(Visible(from.s, known)))
    <2>1. a \in Answers /\ a.kind = "MARGIN" /\ a.known = known /\ Len(a.path) <= Ring
      BY <1>1, MarginPassIs
    <2> QED
      BY <2>1 DEF Answering
  <1>2. CASE a = SafeStop(from, known, Visible(from.s, known), Cluster(Visible(from.s, known)), kind)
    <2>1. /\ a \in Answers /\ a.known = known /\ Len(a.path) <= Ring
          /\ a.kind \in {kind, "NO_PATH"}
          /\ a.kind = kind /\ a.verified => Rests(a, from, known)
      <3>1. Halting(a, from, known, kind)
        BY <1>2, SafeStopIs
      <3> QED
        BY <3>1 DEF Halting
    <2>2. a.kind # "LINE" /\ a.kind # "AVOIDANCE"
      BY <2>1
    <2>3. a.kind \in {"STOP", "PREPARATION"} => a.kind = kind
      BY <2>1
    <2> QED
      BY <2>1, <2>2, <2>3 DEF Answering
  <1> QED
    BY <1>1, <1>2 DEF WithoutCandidate

\* What is known of the obstacles that are answered together.
Clustered(cluster, visible) ==
  /\ EndOf(cluster) \in Nat /\ (\A o \in cluster : o.id \in Obstacles)
  /\ cluster \subseteq visible
  /\ \A o \in cluster : Sighted(o) /\ o.end <= EndOf(cluster)
  /\ \A a, b \in cluster : a.id = b.id => a = b

LEMMA Seen ==
  ASSUME BoxType, NEW from \in Poses, NEW known \in SUBSET Obstacles, NEW cluster,
         cluster = Cluster(Visible(from.s, known)), cluster # {}
  PROVE  Clustered(cluster, Visible(from.s, known))
  <1>1. from.s \in Cell
    BY DEF Poses
  <1>2. PICK visible : visible = Visible(from.s, known)
    OBVIOUS
  <1>3. /\ \A o \in visible : Sighted(o) /\ o.id \in known
        /\ \A a, b \in visible : a.id = b.id => a = b
    BY <1>1, <1>2, VisibleIs, OneOfEach
  <1>4. cluster \subseteq visible
    BY <1>2, <1>3, ClusterIs
  <1>5. \A o \in cluster : Sighted(o)
    BY <1>3, <1>4
  <1>6. EndOf(cluster) \in Nat /\ \A o \in cluster : o.end <= EndOf(cluster)
    BY <1>5, EndOfIs
  <1>7. (\A o \in cluster : o.id \in Obstacles)
    BY <1>3, <1>4
  <1>8. \A a, b \in cluster : a.id = b.id => a = b
    BY <1>3, <1>4
  <1> QED
    BY <1>2, <1>4, <1>5, <1>6, <1>7, <1>8 DEF Clustered

LEMMA LineIs ==
  ASSUME NEW from, NEW known \in SUBSET Obstacles, Cluster(Visible(from.s, known)) = {}, NEW a,
         a = Unanswered("LINE", known)
  PROVE  Answering(a, from, known) /\ a.kind = "LINE"
  <1>1. "LINE" \in Kinds
    BY DEF Kinds
  <1>2. a \in Answers /\ a.kind = "LINE" /\ a.known = known /\ Len(a.path) <= Ring
    BY <1>1, UnansweredIs
  <1> QED
    BY <1>2 DEF Answering

LEMMA PlanIs ==
  ASSUME BoxType, NEW from \in Poses, NEW known \in SUBSET Obstacles, NEW side,
         NEW a \in Plan(from, known, side)
  PROVE  Answering(a, from, known) /\ a.kind # "PREPARATION"
  <1>1. PICK visible : visible = Visible(from.s, known)
    OBVIOUS
  <1>2. PICK cluster : cluster = Cluster(visible)
    OBVIOUS
  <1>3. a \in PlanAround(from, known, side, visible, cluster)
    BY <1>1, <1>2 DEF Plan, PlanAmong
  <1>4. CASE cluster = {}
    <2>1. a = Unanswered("LINE", known)
      BY <1>3, <1>4 DEF PlanAround
    <2> QED
      BY <1>1, <1>2, <1>4, <2>1, LineIs
  <1>5. CASE cluster # {}
    <2>1. /\ EndOf(cluster) \in Nat /\ (\A o \in cluster : o.id \in Obstacles)
          /\ \A o \in cluster : Sighted(o)
          /\ \A b, c \in cluster : b.id = c.id => b = c
      BY <1>1, <1>2, <1>5, Seen DEF Clustered
    <2>2. \/ a \in Selections(from, known, cluster, {c \in Feasible(from, visible, cluster) : side \in {Free, c.side}})
          \/ a = WithoutCandidate(from, known, visible, cluster, "STOP")
      BY <1>3, <1>5 DEF PlanAround, FirstOffer
    <2>3. CASE a \in Selections(from, known, cluster, {c \in Feasible(from, visible, cluster) : side \in {Free, c.side}})
      <3>1. PICK c \in Feasible(from, visible, cluster) : a = Selected(from, known, cluster, c)
        BY <2>3 DEF Selections
      <3>2. c.side \in Sides /\ c.path \in Seq(Waypoints) /\ Len(c.path) <= Ring
        BY <1>5, <2>1, FeasibleIs DEF Passing
      <3>4. Choosing(a, from, known, cluster, c)
        BY <2>1, <3>1, <3>2, SelectedIs
      <3>3. a \in Answers /\ a.kind = "AVOIDANCE" /\ a.known = known /\ a.path = c.path
        BY <3>4 DEF Choosing
      <3> QED
        BY <1>1, <1>2, <1>5, <3>1, <3>2, <3>3 DEF Answering
    <2>4. CASE a = WithoutCandidate(from, known, visible, cluster, "STOP")
      BY <1>1, <1>2, <1>5, <2>1, <2>4, WithoutCandidateIs
    <2> QED
      BY <2>2, <2>3, <2>4
  <1> QED
    BY <1>4, <1>5

LEMMA PrepareIs ==
  ASSUME BoxType, NEW from \in Poses, NEW known \in SUBSET Obstacles, NEW a, a = Prepare(from, known)
  PROVE  Answering(a, from, known) /\ a.kind # "AVOIDANCE"
  <1>1. PICK cluster : cluster = Cluster(Visible(from.s, known))
    OBVIOUS
  <1>2. CASE cluster = {}
    <2>1. a = Unanswered("LINE", known)
      BY <1>1, <1>2 DEF Prepare
    <2> QED
      BY <1>1, <1>2, <2>1, LineIs
  <1>3. CASE cluster # {}
    <2>1. a = WithoutCandidate(from, known, Visible(from.s, known), Cluster(Visible(from.s, known)), "PREPARATION")
      BY <1>1, <1>3 DEF Prepare
    <2>2. EndOf(cluster) \in Nat /\ (\A o \in cluster : o.id \in Obstacles)
      BY <1>1, <1>3, Seen DEF Clustered
    <2>3. PICK kind \in {"STOP", "PREPARATION"} : kind = "PREPARATION"
      OBVIOUS
    <2>4. Answering(a, from, known) /\ a.kind \in {"MARGIN", kind, "NO_PATH"}
      BY <1>1, <1>3, <2>1, <2>2, <2>3, WithoutCandidateIs
    <2> QED
      BY <2>3, <2>4
  <1> QED
    BY <1>2, <1>3

\* From where the car gets away, the plan for both sides is no stop.
LEMMA AwayIs ==
  ASSUME BoxType, NEW from \in Poses, NEW known \in SUBSET Obstacles, Escapable(from, 0, known),
         NEW a \in Plan(from, known, Free)
  PROVE  a.kind \notin {"STOP", "NO_PATH"}
  <1>1. PICK visible : visible = Visible(from.s, known)
    OBVIOUS
  <1>2. PICK cluster : cluster = Cluster(visible)
    OBVIOUS
  <1>3. a \in PlanAround(from, known, Free, visible, cluster)
    BY <1>1, <1>2 DEF Plan, PlanAmong
  <1>4. cluster # {} => Feasible(from, visible, cluster) # {}
    <2>1. [from EXCEPT !.s = (@ + 0) % Ring] = from
      <3>1. from.s \in Cell /\ from = [s |-> from.s, d |-> from.d]
        BY DEF Poses
      <3>2. (from.s + 0) % Ring = from.s
        <4>1. from.s + 0 = from.s /\ from.s % Ring = from.s
          BY <3>1, Planner, RingStep DEF Cell
        <4> QED
          BY <4>1
      <3> QED
        BY <3>1, <3>2
    <2> QED
      BY <1>1, <1>2, <2>1 DEF Escapable, GetsAway
  <1>5. CASE cluster = {}
    <2>1. a = Unanswered("LINE", known)
      BY <1>3, <1>5 DEF PlanAround
    <2>2. Answering(a, from, known) /\ a.kind = "LINE"
      BY <1>1, <1>2, <1>5, <2>1, LineIs
    <2> QED
      BY <2>2
  <1>6. CASE cluster # {}
    <2>1. {c \in Feasible(from, visible, cluster) : Free \in {Free, c.side}} # {}
      BY <1>4, <1>6
    <2>2. PICK c \in Feasible(from, visible, cluster) : a = Selected(from, known, cluster, c)
      BY <1>3, <1>6, <2>1 DEF PlanAround, FirstOffer, Selections
    <2>3. /\ EndOf(cluster) \in Nat /\ (\A o \in cluster : o.id \in Obstacles)
          /\ \A o \in cluster : Sighted(o)
          /\ \A b, e \in cluster : b.id = e.id => b = e
      BY <1>1, <1>2, <1>6, Seen DEF Clustered
    <2>4. c.side \in Sides /\ c.path \in Seq(Waypoints)
      BY <1>6, <2>3, FeasibleIs DEF Passing
    <2>6. Choosing(a, from, known, cluster, c)
      BY <2>2, <2>3, <2>4, SelectedIs
    <2>5. a.kind = "AVOIDANCE"
      BY <2>6 DEF Choosing
    <2> QED
      BY <2>5
  <1> QED
    BY <1>5, <1>6

-----------------------------------------------------------------------------
(* A manoeuvre that was selected is kept.                                    *)

\* The end of the cluster, seen again as a cell ahead, is no further away.
LEMMA AheadEnd ==
  ASSUME NEW s \in Cell, NEW e \in Nat
  PROVE  Ahead(s, (s + e) % Ring) \in Nat /\ Ahead(s, (s + e) % Ring) <= e
  <1>1. Ring \in Nat \ {0} /\ s \in 0..(Ring - 1)
    BY Planner DEF Cell
  <1>2. PICK q \in Int : q = e \div Ring
    BY <1>1
  <1>3. PICK r \in 0..(Ring - 1) : r = e % Ring
    BY <1>1
  <1>4. e = Ring * q + r
    BY <1>1, <1>2, <1>3
  <1>5. r <= e
    <2>1. q >= 0
      <3> SUFFICES ASSUME q < 0 PROVE FALSE
        OBVIOUS
      <3>1. PICK m \in Nat : q = -(m + 1)
        <4>1. -(q + 1) \in Nat /\ q = -(-(q + 1) + 1)
          OBVIOUS
        <4> QED
          BY <4>1
      <3>2. Ring * m \in Nat
        BY ONLY <1>1, m \in Nat, Products
      <3>3. Ring * q = -(Ring * m) - Ring
        BY <1>1, <3>1
      <3> QED
        BY <1>1, <1>4, <3>2, <3>3
    <2>2. Ring * q \in Nat
      BY ONLY <1>1, <2>1, q \in Int, Products
    <2> QED
      BY <1>4, <2>2
  <1>6. (s + e) % Ring = IF s + r < Ring THEN s + r ELSE s + r - Ring
    <2>1. CASE s + r < Ring
      <3>1. PICK t \in 0..(Ring - 1) : t = s + r
        BY <1>1, <2>1
      <3>2. PICK a \in Int : a = s + e
        BY <1>1
      <3>3. a = Ring * q + t
        BY <1>1, <1>4, <3>1, <3>2
      <3>4. a % Ring = t
        BY <1>1, <3>3, RemainderIs
      <3> QED
        BY <2>1, <3>1, <3>2, <3>4
    <2>2. CASE ~(s + r < Ring)
      <3>1. PICK t \in 0..(Ring - 1) : t = s + r - Ring
        BY <1>1, <2>2
      <3>2. PICK a \in Int : a = s + e
        BY <1>1
      <3>5. PICK p \in Int : p = q + 1
        OBVIOUS
      <3>3. a = Ring * p + t
        <4>1. Ring * p = Ring * q + Ring
          BY <1>1, <3>5
        <4> QED
          BY <1>1, <1>4, <3>1, <3>2, <4>1
      <3>4. a % Ring = t
        BY <1>1, <3>3, RemainderIs
      <3> QED
        BY <2>2, <3>1, <3>2, <3>4
    <2> QED
      BY <2>1, <2>2
  <1>7. PICK t \in 0..(Ring - 1) : t = (s + e) % Ring /\ t = IF s + r < Ring THEN s + r ELSE s + r - Ring
    BY <1>1, <1>6
  <1>8. /\ \A a \in 0..(Ring - 1) : a % Ring = a
        /\ \A a \in (-Ring)..(-1) : a % Ring = a + Ring
    BY <1>1
  <1>9. Ahead(s, t) = r
    <2>1. CASE s + r < Ring
      <3>1. t - s = r
        BY <1>1, <1>7, <2>1
      <3> QED
        BY <1>8, <3>1 DEF Ahead
    <2>2. CASE ~(s + r < Ring)
      <3>1. t - s = r - Ring /\ r - Ring \in (-Ring)..(-1)
        BY <1>1, <1>7, <2>2
      <3>2. (r - Ring) % Ring = (r - Ring) + Ring
        BY <1>8, <3>1
      <3> QED
        BY <1>1, <3>1, <3>2 DEF Ahead
    <2> QED
      BY <2>1, <2>2
  <1> QED
    BY <1>5, <1>7, <1>9

LEMMA RetainedIs ==
  ASSUME NEW w
  PROVE  RetainedOf(w) \in Nat /\ ClearanceOf(w) \in Nat /\ RetainedOf(w) <= ClearanceOf(w)
  <1>1. PICK c \in Nat : c = ClearanceOf(w)
    <2>1. Clearance + FastReserve \in Nat /\ Clearance + SlowReserve \in Nat
      BY Planner
    <2> QED
      BY <2>1 DEF ClearanceOf
  <1>2. PICK k \in Nat : k = Clearance + KeptReserve
    <2>1. Clearance + KeptReserve \in Nat
      BY Planner
    <2> QED
      BY <2>1
  <1>3. RetainedOf(w) = Min({c, k})
    BY <1>1, <1>2 DEF RetainedOf
  <1>4. Min({c, k}) = IF c <= k THEN c ELSE k
    <2>1. c \in Int /\ k \in Int
      OBVIOUS
    <2> QED
      BY ONLY <2>1, OfTwo
  <1>5. Min({c, k}) \in Nat /\ Min({c, k}) <= c
    BY <1>4
  <1> QED
    BY <1>1, <1>3, <1>5

\* The validation of a commitment, by a scope that is no longer than the cluster's end
\* and with no more obstacles than the planner saw, finds nothing the planner passed.
LEMMA PassesAgain ==
  ASSUME NEW visible, \A o \in visible : Sighted(o), \A a, b \in visible : a.id = b.id => a = b,
         NEW cluster, cluster = Cluster(visible), cluster # {}, NEW from,
         NEW ids, ids = {o.id : o \in cluster}, NEW c, c.path \in Seq(Waypoints), Len(c.path) > 1,
         Passing(c, from, visible, cluster),
         NEW w, w \subseteq visible, NEW end \in Nat, end <= EndOf(cluster)
  PROVE  Valid(from, c.path, w, ScopeEnd(w, ids, end), 1, TRUE)
  <1>1. cluster \subseteq visible /\ \A o \in visible \ cluster :
           \/ o.start < FirstOf(cluster).start
           \/ \A x \in cluster : x.end < o.start
    BY ClusterIs
  <1>2. \A o \in cluster : Sighted(o)
    BY <1>1
  <1>3. PICK E \in Nat : E = EndOf(cluster) /\ (\A o \in cluster : o.end <= E) /\ \E o \in cluster : o.end = E
    BY <1>2, EndOfIs
  <1>4. FirstOf(cluster) \in cluster
    BY <1>2, FirstOfIs
  <1>5. PICK scope \in Int : scope = ScopeEnd(visible, ids, E) /\ E <= scope
    BY ScopeIs
  <1>6. PICK again \in Int :
           /\ again = ScopeEnd(w, ids, end)
           /\ \A o \in w : o.id \notin ids /\ o.start > end => end = again \/ again < o.start
    <2>1. \A o \in w : Sighted(o)
      OBVIOUS
    <2> QED
      BY <2>1, ScopeIs
  <1>7. Valid(from, c.path, visible, scope, MinPoints, FALSE)
    BY <1>3, <1>5 DEF Passing
  <1>8. ASSUME NEW i \in DOMAIN c.path, i - 1 <= again, NEW o \in w,
               Hits(c.path[i], i - 1, o, RetainedOf(c.path[i]))
        PROVE  FALSE
    <2>1. i \in Nat /\ i >= 1 /\ o \in visible /\ Sighted(o)
      OBVIOUS
    <2>2. PICK forward \in Nat : forward = i - 1
      BY <2>1
    <2>3. PICK p \in Waypoints : p = c.path[i]
      OBVIOUS
    <2>4. PICK held \in Nat, full \in Nat : held = RetainedOf(p) /\ full = ClearanceOf(p) /\ held <= full
      BY RetainedIs
    <2>5. o.start <= forward /\ forward <= o.end /\ o.right - held < p.d /\ p.d < o.left + held
      BY <1>8, <2>2, <2>3, <2>4 DEF Hits
    <2>6. o.right - full < p.d /\ p.d < o.left + full
      <3>1. PICK right \in Int, left \in Int, d \in Int : right = o.right /\ left = o.left /\ d = p.d
        <4>1. o.right \in Int /\ o.left \in Int
          BY <2>1 DEF Sighted
        <4>2. p.d \in Int
          BY LaneIs DEF Waypoints
        <4> QED
          BY <4>1, <4>2
      <3>2. right - held < d /\ d < left + held
        BY <2>5, <3>1
      <3>3. right - full < d /\ d < left + full
        BY <2>4, <3>2
      <3> QED
        BY <3>1, <3>3
    <2>7. Hits(p, forward, o, full)
      BY <2>5, <2>6 DEF Hits
    <2>8. ~(forward <= scope)
      BY <1>7, <2>1, <2>2, <2>3, <2>4, <2>7 DEF Valid
    <2>9. E < forward
      BY <1>5, <2>8
    <2>10. o \notin cluster
      BY <1>3, <2>1, <2>5, <2>9 DEF Sighted
    <2>11. o.id \notin ids
      BY <1>1, <2>1, <2>10
    <2>12. E < o.start
      <3>1. CASE o.start < FirstOf(cluster).start
        <4>1. PICK f \in cluster : f = FirstOf(cluster) /\ Sighted(f) /\ f.end <= E
          BY <1>2, <1>3, <1>4
        <4>2. /\ o.start \in Int /\ o.end = o.start + HalfSpan + HalfSpan
              /\ f.start \in Int /\ f.end = f.start + HalfSpan + HalfSpan /\ HalfSpan \in Nat
          BY <2>1, <4>1, Planner DEF Sighted
        <4>3. o.end < f.end /\ forward <= o.end /\ E < forward
          BY <2>5, <2>9, <3>1, <4>1, <4>2
        <4>4. f.end \in Int /\ o.end \in Int /\ f.end <= E
          BY <4>1, <4>2
        <4> QED
          BY ONLY <4>3, <4>4, forward \in Nat, E \in Nat
      <3>2. CASE \A x \in cluster : x.end < o.start
        BY <1>3, <3>2
      <3> QED
        BY <1>1, <2>1, <2>10, <3>1, <3>2
    <2>13. end <= E /\ o.start > end
      BY <1>3, <2>1, <2>12 DEF Sighted
    <2>14. end = again \/ again < o.start
      BY <1>6, <2>11, <2>13
    <2> QED
      BY <1>8, <2>1, <2>2, <2>5, <2>9, <2>13, <2>14 DEF Sighted
  <1>9. /\ Len(c.path) >= 1 /\ EntryContinuous(from.d, c.path)
        /\ \A i \in DOMAIN c.path : /\ FootprintFits(from.s, c.path, i)
                                    /\ i > 1 => Distance(c.path[i].d, c.path[i - 1].d) <= Slope
    BY <1>7 DEF Valid
  <1> QED
    BY <1>6, <1>8, <1>9 DEF Valid

\* In the next state: the answer is a selection of this plan.
LEMMA SelectionKept ==
  ASSUME BoxType, pose \in Poses, seen \in SUBSET Obstacles, UNCHANGED <<box, seen, pose>>,
         NEW cluster, cluster = Cluster(Visible(pose.s, seen)), cluster # {},
         NEW c \in Feasible(pose, Visible(pose.s, seen), cluster), Choosing(answer', pose, seen, cluster, c),
         Len(c.path) > 1
  PROVE  StillValid'
  <1>1. PICK visible : visible = Visible(pose.s, seen)
    OBVIOUS
  <1>2. pose.s \in Cell
    BY DEF Poses
  <1>3. /\ \A o \in visible : Sighted(o)
        /\ \A a, b \in visible : a.id = b.id => a = b
    BY <1>1, <1>2, VisibleIs, OneOfEach
  <1>4. /\ EndOf(cluster) \in Nat /\ \A o \in cluster : Sighted(o)
        /\ \A a, b \in cluster : a.id = b.id => a = b
    <2>1. Clustered(cluster, Visible(pose.s, seen))
      BY Seen
    <2> QED
      BY <2>1 DEF Clustered
  <1>5. Passing(c, pose, visible, cluster) /\ c.path \in Seq(Waypoints)
    <2>1. Passing(c, pose, visible, cluster)
      BY <1>1, <1>4, FeasibleIs
    <2> QED
      BY <2>1 DEF Passing
  <1>6. /\ answer'.kind = "AVOIDANCE" /\ answer'.path = c.path
        /\ answer'.ids = {o.id : o \in cluster} /\ answer'.end = (pose.s + EndOf(cluster)) % Ring
    BY DEF Choosing
  <1>7. PICK end \in Nat : end = CommittedEnd' /\ end <= EndOf(cluster)
    <2>1. CommittedEnd' = 0 \/ CommittedEnd' = Ahead(pose.s, (pose.s + EndOf(cluster)) % Ring)
      BY <1>6 DEF CommittedEnd
    <2>2. PICK e \in Nat : e = EndOf(cluster)
      BY <1>4
    <2>3. Ahead(pose.s, (pose.s + e) % Ring) \in Nat /\ Ahead(pose.s, (pose.s + e) % Ring) <= e
      BY <1>2, AheadEnd
    <2> QED
      BY <2>1, <2>2, <2>3
  <1>8. PICK cur : cur = Current' /\ cur \subseteq seen
    BY DEF Current
  <1>9. PICK w : w = Visible(pose.s, cur) /\ w \subseteq visible
    <2>1. Visible(pose.s, cur) \subseteq Visible(pose.s, seen)
      BY <1>8 DEF Visible
    <2> QED
      BY <1>1, <2>1
  <1>10. PICK ids : ids = {o.id : o \in cluster}
    OBVIOUS
  <1>11. Valid(pose, c.path, w, ScopeEnd(w, ids, end), 1, TRUE)
    <2>1. cluster = Cluster(visible) /\ cluster # {} /\ Len(c.path) > 1
      BY <1>1
    <2>2. PICK from : from = pose
      OBVIOUS
    <2>3. Passing(c, from, visible, cluster)
      BY <1>5, <2>2
    <2>4. Valid(from, c.path, w, ScopeEnd(w, ids, end), 1, TRUE)
      BY ONLY <1>3, <1>5, <1>7, <1>9, <1>10, <2>1, <2>3, PassesAgain
    <2> QED
      BY <2>2, <2>4
  <1>12. Visible(pose.s, Current)' = w
    BY <1>8, <1>9 DEF Visible, Expanded
  <1> QED
    BY <1>6, <1>7, <1>10, <1>11, <1>12 DEF StillValid

-----------------------------------------------------------------------------
(* The car and its planning cycle.                                           *)

\* The answer that is followed, and whether it was made of what is known now.
SplineTyped ==
  /\ BoxType /\ seen \in SUBSET Obstacles /\ pose \in Poses /\ answer \in Answers
  /\ Len(answer.path) <= Ring /\ fresh \in BOOLEAN /\ slipped \in BOOLEAN
  /\ answer.known \subseteq seen

\* A stop that was called verified stays one that can be left, all the way to it.
StopHeld ==
  answer.kind \in {"STOP", "PREPARATION"} /\ answer.verified /\ Undisturbed => Rests(answer, pose, seen)

SplineInv == SplineTyped /\ StopHeld /\ SelectedIsKept

LEMMA SplineInitInv == SplineInit => SplineInv
  <1> SUFFICES ASSUME SplineInit PROVE SplineInv
    OBVIOUS
  <1>1. BoxType
    <2>1. PICK a \in Starts, b \in Cell, e1 \in Extents, e2 \in Extents :
            box = [i \in Obstacles |-> [at    |-> IF i = 1 THEN a ELSE b,
                                        right |-> IF i = 1 THEN e1.right ELSE e2.right,
                                        left  |-> IF i = 1 THEN e1.left ELSE e2.left]]
      BY DEF SplineInit
    <2>2. a \in Cell /\ e1.right \in Int /\ e1.left \in Int /\ e2.right \in Int /\ e2.left \in Int
      BY Planner
    <2>3. \A i \in Obstacles : [at    |-> IF i = 1 THEN a ELSE b,
                                right |-> IF i = 1 THEN e1.right ELSE e2.right,
                                left  |-> IF i = 1 THEN e1.left ELSE e2.left]
                                  \in [at : Cell, right : Int, left : Int]
      BY ONLY <2>2, b \in Cell
    <2> QED
      BY <2>1, <2>3 DEF BoxType
  <1>2. seen \in SUBSET Obstacles
    BY DEF SplineInit, Obstacles
  <1>3. pose \in Poses
    <2>1. pose = [s |-> 0, d |-> 0]
      BY DEF SplineInit
    <2> QED
      BY <2>1, LaneIs DEF Poses
  <1>4. answer \in Answers /\ answer.kind = "LINE" /\ answer.known = {} /\ Len(answer.path) <= Ring
    <2>1. PICK kind \in Kinds, none \in SUBSET Obstacles : kind = "LINE" /\ none = {}
      <3>1. "LINE" \in Kinds /\ {} \in SUBSET Obstacles
        BY DEF Kinds
      <3> QED
        BY <3>1
    <2>2. answer = Unanswered(kind, none)
      BY <2>1 DEF SplineInit
    <2> QED
      BY <2>1, <2>2, UnansweredIs
  <1>5. fresh \in BOOLEAN /\ slipped \in BOOLEAN
    BY DEF SplineInit
  <1>6. SplineTyped
    BY <1>1, <1>2, <1>3, <1>4, <1>5 DEF SplineTyped
  <1> QED
    BY <1>4, <1>6 DEF SplineInv, StopHeld, SelectedIsKept

\* A plan that is taken over as the answer.
LEMMA PlannedInv ==
  ASSUME SplineInv, UNCHANGED <<box, seen, pose, slipped>>, fresh' \in BOOLEAN,
         NEW known \in SUBSET Obstacles, known \subseteq seen, Answering(answer', pose, known)
  PROVE  SplineInv'
  <1>1. /\ BoxType /\ pose \in Poses /\ seen \in SUBSET Obstacles /\ slipped \in BOOLEAN
    BY DEF SplineInv, SplineTyped
  <1>2. answer' \in Answers /\ answer'.known = known /\ Len(answer'.path) <= Ring
    BY DEF Answering
  <1>3. SplineTyped'
    BY <1>1, <1>2 DEF SplineTyped, BoxType
  <1>4. Undisturbed' => known = seen
    BY <1>2 DEF Undisturbed
  <1>5. StopHeld'
    <2> SUFFICES ASSUME answer'.kind \in {"STOP", "PREPARATION"}, answer'.verified, Undisturbed'
                 PROVE  Rests(answer', pose', seen')
      <3>1. Rests(answer, pose, seen)' = Rests(answer', pose', seen')
        BY BoxKept DEF Rests
      <3> QED
        BY <3>1 DEF StopHeld
    <2>1. Rests(answer', pose, seen)
      BY <1>4 DEF Answering
    <2> QED
      BY <2>1
  <1>6. SelectedIsKept'
    <2> SUFFICES ASSUME answer'.kind = "AVOIDANCE", Len(answer'.path) > 1, Undisturbed'
                 PROVE  StillValid'
      BY DEF SelectedIsKept
    <2>1. PICK cluster : cluster = Cluster(Visible(pose.s, seen))
      OBVIOUS
    <2>2. cluster # {} /\ \E c \in Feasible(pose, Visible(pose.s, seen), cluster) :
                             answer' = Selected(pose, seen, cluster, c)
      BY <1>4, <2>1 DEF Answering
    <2>3. PICK c \in Feasible(pose, Visible(pose.s, seen), cluster) : answer' = Selected(pose, seen, cluster, c)
      BY <2>2
    <2>4. Clustered(cluster, Visible(pose.s, seen))
      BY <1>1, <2>1, <2>2, Seen
    <2>5. Passing(c, pose, Visible(pose.s, seen), cluster)
      BY <1>1, <2>2, <2>4, FeasibleIs DEF Clustered
    <2>6. Choosing(answer', pose, seen, cluster, c)
      <3>1. c.side \in Sides /\ c.path \in Seq(Waypoints)
        BY <2>5 DEF Passing
      <3>2. EndOf(cluster) \in Nat /\ \A o \in cluster : o.id \in Obstacles
        BY <2>4 DEF Clustered
      <3> QED
        BY <1>1, <2>3, <3>1, <3>2, SelectedIs
    <2>7. Len(c.path) > 1
      BY <2>6 DEF Choosing
    <2> QED
      BY <1>1, <2>1, <2>2, <2>6, <2>7, SelectionKept
  <1> QED
    BY <1>3, <1>5, <1>6 DEF SplineInv

\* With nothing changed, nothing is judged otherwise.
LEMMA JudgedTheSame ==
  ASSUME UNCHANGED <<box, seen, pose, answer>>
  PROVE  /\ StillValid' = StillValid /\ Current' = Current
         /\ Cluster(Visible(pose.s, Current))' = Cluster(Visible(pose.s, Current))
  <1>1. Current' = Current
    BY DEF Current, Committed, MergeAhead, Expanded
  <1>2. PICK cur : cur = Current
    OBVIOUS
  <1>3. Visible(pose.s, Current)' = Visible(pose.s, cur)
    BY <1>1, <1>2 DEF Visible, Expanded
  <1>4. CommittedEnd' = CommittedEnd
    BY DEF CommittedEnd, Cleared
  <1>5. StillValid' = StillValid
    BY <1>2, <1>3, <1>4 DEF StillValid
  <1> QED
    BY <1>1, <1>2, <1>3, <1>5

\* Neither the answer nor what it was made of changes.
LEMMA AnswerKept ==
  ASSUME SplineInv, UNCHANGED <<box, seen, pose, answer, slipped>>, fresh' \in BOOLEAN,
         \/ ~fresh' \/ StillValid \/ answer.kind # "AVOIDANCE"
         \/ Cluster(Visible(pose.s, Current)) = {}
  PROVE  SplineInv'
  <1>1. SplineTyped'
    BY DEF SplineInv, SplineTyped, BoxType
  <1>2. StopHeld'
    <2>1. Rests(answer, pose, seen)' = Rests(answer, pose, seen)
      BY BoxKept DEF Rests
    <2> QED
      BY <2>1 DEF SplineInv, StopHeld, Undisturbed
  <1>3. SelectedIsKept'
    BY JudgedTheSame DEF SelectedIsKept
  <1> QED
    BY <1>1, <1>2, <1>3 DEF SplineInv

LEMMA ChainInv == ASSUME SplineInv, Chain PROVE SplineInv'
  <1>1. PICK a : a \in Plan(pose, seen \ answer.ids, Free) /\ answer' = a
    BY DEF Chain, Chained
  <1>2. PICK known \in SUBSET Obstacles : known = seen \ answer.ids /\ known \subseteq seen
    BY DEF SplineInv, SplineTyped
  <1>3. BoxType /\ pose \in Poses
    BY DEF SplineInv, SplineTyped
  <1>4. Answering(a, pose, known)
    BY <1>1, <1>2, <1>3, PlanIs
  <1>5. UNCHANGED <<box, seen, pose, slipped>> /\ fresh' \in BOOLEAN
    BY DEF Chain
  <1> QED
    BY <1>1, <1>2, <1>4, <1>5, PlannedInv

LEMMA MergeInv == ASSUME SplineInv, Merge PROVE SplineInv'
  <1>1. PICK kind \in Kinds : kind = "LINE"
    BY DEF Kinds
  <1>2. answer' = Unanswered(kind, seen) /\ seen \in SUBSET Obstacles
    BY <1>1 DEF Merge, SplineInv, SplineTyped
  <1>3. answer' \in Answers /\ answer'.kind = kind /\ answer'.known = seen /\ Len(answer'.path) <= Ring
    <2>1. PICK a : a = answer'
      OBVIOUS
    <2>2. a \in Answers /\ a.kind = kind /\ a.known = seen /\ Len(a.path) <= Ring
      BY <1>2, <2>1, UnansweredIs
    <2> QED
      BY <2>1, <2>2
  <1>4. SplineTyped'
    BY <1>3 DEF Merge, SplineInv, SplineTyped, BoxType
  <1> QED
    BY <1>1, <1>3, <1>4 DEF SplineInv, StopHeld, SelectedIsKept

LEMMA KeepInv == ASSUME SplineInv, Keep PROVE SplineInv'
  <1>1. UNCHANGED <<box, seen, pose, answer, slipped>> /\ fresh' \in BOOLEAN /\ StillValid
    BY DEF Keep
  <1> QED
    BY <1>1, AnswerKept

LEMMA ReplanInv == ASSUME SplineInv, Replan PROVE SplineInv'
  <1>1. PICK side : \E a \in Plan(pose, Current, side) :
           answer' = IF Committed /\ a.kind = "LINE" THEN answer ELSE a
    BY DEF Replan
  <1>2. PICK a \in Plan(pose, Current, side) :
           answer' = IF Committed /\ a.kind = "LINE" THEN answer ELSE a
    BY <1>1
  <1>3. BoxType /\ pose \in Poses
    BY DEF SplineInv, SplineTyped
  <1>4. PICK known \in SUBSET Obstacles : known = Current /\ known \subseteq seen
    BY DEF Current, SplineInv, SplineTyped
  <1>5. Answering(a, pose, known)
    BY <1>2, <1>3, <1>4, PlanIs
  <1>6. UNCHANGED <<box, seen, pose, slipped>> /\ fresh' \in BOOLEAN
    BY DEF Replan
  <1>7. CASE answer' = a
    <2>1. Answering(answer', pose, known)
      BY <1>5, <1>7
    <2> QED
      BY <1>4, <1>6, <2>1, PlannedInv
  <1>8. CASE answer' = answer /\ a.kind = "LINE"
    <2>1. Cluster(Visible(pose.s, Current)) = {}
      BY <1>4, <1>5, <1>8 DEF Answering
    <2> QED
      BY <1>6, <1>8, <2>1, AnswerKept
  <1> QED
    BY <1>2, <1>7, <1>8

LEMMA StabilizeInv == ASSUME SplineInv, Stabilize PROVE SplineInv'
  <1>1. PICK a : a = Prepare(pose, seen) /\ answer' = a
    BY DEF Stabilize
  <1>2. BoxType /\ pose \in Poses
    BY DEF SplineInv, SplineTyped
  <1>3. PICK known \in SUBSET Obstacles : known = seen
    BY DEF SplineInv, SplineTyped
  <1>4. Answering(a, pose, known)
    BY <1>1, <1>2, <1>3, PrepareIs
  <1>5. UNCHANGED <<box, seen, pose, slipped>> /\ fresh' \in BOOLEAN
    BY DEF Stabilize
  <1>6. Answering(answer', pose, known)
    BY <1>1, <1>4
  <1> QED
    BY <1>3, <1>5, <1>6, PlannedInv

LEMMA HoldStopInv == ASSUME SplineInv, HoldStop PROVE SplineInv'
  <1>1. UNCHANGED <<box, seen, pose, answer, slipped>> /\ fresh' \in BOOLEAN /\ answer.kind # "AVOIDANCE"
    BY DEF HoldStop
  <1> QED
    BY <1>1, AnswerKept

LEMMA RestInv == ASSUME SplineInv, Rest PROVE SplineInv'
  <1>1. UNCHANGED <<box, seen, pose, answer, slipped>> /\ fresh' \in BOOLEAN /\ ~fresh'
    BY DEF Rest
  <1> QED
    BY <1>1, AnswerKept

\* The car moves a cell towards the stop.
LEMMA FollowInv == ASSUME SplineInv, Follow PROVE SplineInv'
  <1>1. /\ BoxType /\ pose \in Poses /\ seen \in SUBSET Obstacles /\ answer \in Answers
        /\ Len(answer.path) <= Ring /\ answer.known \subseteq seen /\ slipped \in BOOLEAN
    BY DEF SplineInv, SplineTyped
  <1>2. UNCHANGED <<box, seen, slipped>> /\ fresh' = FALSE /\ Len(answer.path) > 1
    BY DEF Follow
  <1>3. PICK p \in Seq(Waypoints) : p = answer.path /\ Len(p) > 1 /\ Len(p) <= Ring
    BY <1>1, <1>2 DEF Answers
  <1>4. PICK t \in Seq(Waypoints) : t = Tail(p) /\ Len(t) = Len(p) - 1 /\ \A i \in 1..Len(t) : t[i] = p[i + 1]
    <2>1. p # <<>>
      BY <1>3
    <2>2. Tail(p) \in Seq(Waypoints) /\ Len(Tail(p)) = Len(p) - 1 /\ \A i \in 1..Len(Tail(p)) : Tail(p)[i] = p[i + 1]
      BY <2>1
    <2> QED
      BY <2>2
  <1>5. answer' = [answer EXCEPT !.path = t]
    BY <1>3, <1>4 DEF Follow
  <1>6. /\ answer' \in Answers /\ answer'.path = t /\ answer'.kind = answer.kind /\ answer'.known = answer.known
        /\ answer'.verified = answer.verified
    BY ONLY <1>1, <1>5, t \in Seq(Waypoints) DEF Answers
  <1>7. PICK s \in Cell, d \in Lane : pose.s = s /\ pose.d = d /\ pose = [s |-> s, d |-> d]
    BY <1>1 DEF Poses
  <1>8. PICK u \in Cell : u = (s + 1) % Ring
    BY NextCell
  <1>9. p[2] \in Waypoints
    BY <1>3
  <1>10. PICK e \in Lane : e = Toward(d, p[2].d, Slope) /\ (p[2].d = d => e = d)
    <2>1. PICK g \in Lane : g = p[2].d
      BY <1>9 DEF Waypoints
    <2>2. d \in Int /\ g \in Int /\ Slope \in Int /\ Slope >= 0
      BY LaneIs, Planner
    <2>3. Toward(d, g, Slope) \in Lane /\ (d = g => Toward(d, g, Slope) = d)
      BY <2>2, TowardIs
    <2> QED
      BY <2>1, <2>3
  <1>11. pose' = [s |-> u, d |-> e]
    BY <1>3, <1>7, <1>8, <1>10 DEF Follow
  <1>12. pose' \in Poses /\ pose'.s = u /\ pose'.d = e
    BY <1>11 DEF Poses
  <1>13. SplineTyped'
    <2>1. Len(t) <= Ring
      BY <1>3, <1>4, Planner
    <2> QED
      BY <1>1, <1>2, <1>6, <1>12, <2>1 DEF SplineTyped, BoxType
  <1>14. StopHeld'
    <2> SUFFICES ASSUME answer.kind \in {"STOP", "PREPARATION"}, answer.verified, Undisturbed
                 PROVE  Rests(answer, pose, seen)'
      BY <1>2, <1>6 DEF StopHeld, Undisturbed
    <2>1. Rests(answer, pose, seen)
      BY DEF SplineInv, StopHeld
    <2>2. PICK visible : visible = Visible(s, seen)
      OBVIOUS
    <2>3. PICK stop \in Nat :
             /\ Len(p) = stop + 1 /\ \A i \in 1..(stop + 1) : p[i].d = d
             /\ Cluster(visible) # {} /\ stop <= Requested(Cluster(visible))
             /\ Escapable(pose, stop, seen)
             /\ stop < Requested(Cluster(visible)) => ~Escapable(pose, stop + 1, seen)
      BY <1>3, <1>7, <2>1, <2>2 DEF Rests
    <2>4. PICK asked \in Nat : asked = Requested(Cluster(visible))
      <3>1. \A o \in visible : Sighted(o)
        BY <1>1, <2>2, VisibleIs
      <3>2. \A a, b \in visible : a.id = b.id => a = b
        BY <1>1, <2>2, OneOfEach
      <3>3. Requested(Cluster(visible)) \in Nat
        BY <2>3, <3>1, <3>2, RequestedIs
      <3> QED
        BY <3>3
    <2>5. stop >= 1 /\ asked >= 1
      BY <1>3, <2>3, <2>4
    <2>6. PICK moved : moved = Visible(u, seen) /\ Cluster(moved) # {} /\ Requested(Cluster(moved)) = asked - 1
      BY <1>1, <1>8, <2>2, <2>3, <2>4, <2>5, RequestedMoved
    <2>7. e = d
      <3>1. p[2].d = d
        BY <2>3, <2>5
      <3> QED
        BY <1>10, <3>1
    <2>8. PICK left \in Nat : left = stop - 1
      <3>1. stop - 1 \in Nat
        BY <2>5
      <3> QED
        BY <3>1
    <2>9. Escapable(pose', left, seen) /\ (left < asked - 1 => ~Escapable(pose', left + 1, seen))
      <3>1. Escapable([s |-> u, d |-> d], stop - 1, seen) = Escapable(pose, stop, seen)
        BY <1>7, <1>8, EscapableMoved
      <3>2. Escapable([s |-> u, d |-> d], (stop + 1) - 1, seen) = Escapable(pose, stop + 1, seen)
        <4>1. PICK f \in Int : f = stop + 1
          OBVIOUS
        <4>2. Escapable([s |-> u, d |-> d], f - 1, seen) = Escapable(pose, f, seen)
          BY <1>7, <1>8, EscapableMoved
        <4> QED
          BY <4>1, <4>2
      <3>3. (stop + 1) - 1 = stop /\ left + 1 = stop
        BY <2>8
      <3>4. left < asked - 1 => stop < asked
        BY <2>8
      <3> QED
        BY <1>11, <2>3, <2>4, <2>7, <2>8, <3>1, <3>2, <3>3, <3>4
    <2>10. Len(t) = left + 1 /\ \A i \in 1..(left + 1) : t[i].d = e
      <3>1. Len(t) = left + 1
        BY <1>4, <2>3, <2>8
      <3>2. \A i \in 1..(left + 1) : i + 1 \in 1..(stop + 1)
        BY <2>8
      <3> QED
        BY <1>4, <2>3, <2>7, <3>1, <3>2
    <2>11. left <= asked - 1
      BY <2>3, <2>4, <2>8
    <2>12. Visible(pose.s, seen)' = moved
      BY <1>2, <1>12, <2>6 DEF Visible, Expanded
    <2>13. Escapable(pose, left, seen)' /\ (left < asked - 1 => ~Escapable(pose, left + 1, seen)')
      <3>1. \A f : Escapable(pose, f, seen)' = Escapable(pose', f, seen)
        BY <1>2, BoxKept DEF Escapable, Visible, Expanded
      <3> QED
        BY <2>9, <3>1
    <2> QED
      BY <1>6, <1>12, <2>6, <2>10, <2>11, <2>12, <2>13 DEF Rests
  <1>15. SelectedIsKept'
    BY <1>2 DEF SelectedIsKept
  <1> QED
    BY <1>13, <1>14, <1>15 DEF SplineInv

LEMMA FollowLineInv == ASSUME SplineInv, FollowLine PROVE SplineInv'
  <1>1. /\ BoxType /\ pose \in Poses
    BY DEF SplineInv, SplineTyped
  <1>2. UNCHANGED <<box, seen, answer, slipped>> /\ fresh' = FALSE /\ answer.kind = "LINE"
    BY DEF FollowLine
  <1>3. pose' \in Poses
    <2>1. PICK s \in Cell, d \in Lane : pose = [s |-> s, d |-> d]
      BY <1>1 DEF Poses
    <2>2. (s + 1) % Ring \in Cell
      BY NextCell
    <2>3. pose' = [s |-> (s + 1) % Ring, d |-> d]
      BY <2>1 DEF FollowLine
    <2> QED
      BY <2>2, <2>3 DEF Poses
  <1>4. SplineTyped'
    BY <1>2, <1>3 DEF SplineInv, SplineTyped, BoxType
  <1> QED
    BY <1>2, <1>4 DEF SplineInv, StopHeld, SelectedIsKept

LEMMA SeeInv == ASSUME SplineInv, See PROVE SplineInv'
  <1>1. UNCHANGED <<box, pose, answer, slipped>> /\ fresh' = FALSE /\ seen' = Obstacles /\ 2 \notin seen
    BY DEF See
  <1>2. SplineTyped'
    BY <1>1 DEF SplineInv, SplineTyped, BoxType
  <1>3. ~Undisturbed'
    <2>1. answer.known \subseteq seen /\ 2 \in Obstacles
      BY DEF SplineInv, SplineTyped, Obstacles
    <2> QED
      BY <1>1, <2>1 DEF Undisturbed
  <1> QED
    BY <1>2, <1>3 DEF SplineInv, StopHeld, SelectedIsKept

LEMMA SlipInv == ASSUME SplineInv, Slip PROVE SplineInv'
  <1>1. UNCHANGED <<box, seen, answer>> /\ fresh' = FALSE /\ slipped' = TRUE /\ pose \in Poses
    BY DEF Slip, SplineInv, SplineTyped
  <1>2. PICK lane \in {pose.d - 2, pose.d + 2} : /\ Distance(lane, 0) + Body <= HalfAt(pose.s)
                                                 /\ pose' = [pose EXCEPT !.d = lane]
    BY DEF Slip
  <1>3. lane \in Lane
    <2>1. lane \in Int
      <3>1. pose.d \in Int
        BY <1>1, LaneIs DEF Poses
      <3> QED
        BY <1>2, <3>1
    <2>2. HalfAt(pose.s) \in Nat /\ HalfAt(pose.s) <= Half /\ Distance(lane, 0) \in Nat
      <3>1. HalfAt(pose.s) \in Nat /\ HalfAt(pose.s) <= Half
        BY HalfAtIs
      <3>2. Distance(lane, 0) \in Nat
        BY <2>1, DistanceIs
      <3> QED
        BY <3>1, <3>2
    <2>3. Distance(lane, 0) + Body <= Half
      BY <1>2, <2>2, Planner
    <2> QED
      BY <2>1, <2>3, LaneIs
  <1>4. pose' \in Poses
    BY <1>1, <1>2, <1>3 DEF Poses
  <1>5. SplineTyped'
    BY <1>1, <1>4 DEF SplineInv, SplineTyped, BoxType
  <1>6. ~Undisturbed'
    BY <1>1 DEF Undisturbed
  <1> QED
    BY <1>5, <1>6 DEF SplineInv, StopHeld, SelectedIsKept

LEMMA SplineStep == ASSUME SplineInv, [SplineNext]_splineVars PROVE SplineInv'
  <1>1. CASE UNCHANGED splineVars
    <2>1. UNCHANGED <<box, seen, pose, answer, slipped>> /\ fresh' = fresh
      BY <1>1 DEF splineVars
    <2>2. fresh \in BOOLEAN
      BY DEF SplineInv, SplineTyped
    <2>3. SplineTyped'
      BY <2>1 DEF SplineInv, SplineTyped, BoxType
    <2>4. StopHeld'
      <3>1. Rests(answer, pose, seen)' = Rests(answer, pose, seen)
        BY <2>1, BoxKept DEF Rests
      <3> QED
        BY <2>1, <3>1 DEF SplineInv, StopHeld, Undisturbed
    <2>5. SelectedIsKept'
      <3>1. /\ StillValid' = StillValid
            /\ Cluster(Visible(pose.s, Current))' = Cluster(Visible(pose.s, Current))
        BY <2>1, JudgedTheSame
      <3> QED
        BY <2>1, <3>1 DEF SplineInv, SelectedIsKept, Undisturbed
    <2> QED
      BY <2>3, <2>4, <2>5 DEF SplineInv
  <1> QED
    BY <1>1, ChainInv, MergeInv, KeepInv, ReplanInv, StabilizeInv, HoldStopInv, FollowInv,
       FollowLineInv, RestInv, SeeInv, SlipInv DEF SplineNext

\* The inductive invariant.
THEOREM SplineInvariant == SplineSpec => []SplineInv
  <1>1. SplineInv /\ [SplineNext]_splineVars => SplineInv'
    BY SplineStep
  <1> QED
    BY SplineInitInv, <1>1, PTL DEF SplineSpec

\* Every state of the planner and its car is well typed: the answers are paths inside the
\* track, no longer than a lap, whatever the obstacles and the widths.
THEOREM SplineTypeCorrect == SplineSpec => []SplineTypeOK
  <1>1. SplineInv => SplineTypeOK
    <2> SUFFICES ASSUME SplineInv PROVE SplineTypeOK
      OBVIOUS
    <2>1. SplineTyped
      BY DEF SplineInv
    <2>2. box \in [Obstacles -> [at : Cell, right : Int, left : Int]] /\ seen \subseteq Obstacles
          /\ pose \in [s : Cell, d : Lane] /\ fresh \in BOOLEAN /\ slipped \in BOOLEAN
      BY <2>1 DEF SplineTyped, BoxType, Poses
    <2>3. /\ answer.kind \in Kinds /\ answer.side \in Sides \cup {Free} /\ answer.path \in Seq(Waypoints)
          /\ answer.ids \subseteq Obstacles /\ answer.end \in Cell /\ answer.verified \in BOOLEAN
          /\ answer.known \subseteq Obstacles /\ Len(answer.path) <= Ring
      BY <2>1 DEF SplineTyped, Answers
    <2>4. \A i \in DOMAIN answer.path : answer.path[i] \in Waypoints
      BY <2>3
    <2> QED
      BY <2>2, <2>3, <2>4 DEF SplineTypeOK
  <1> QED
    BY SplineInvariant, <1>1, PTL

\* What the planner says of its own answers holds at the next plan, which is made from
\* another place: a stop that is called verified can be left once the car rests there, and
\* is the latest such stop; a manoeuvre that was selected or kept is not rejected at once.
THEOREM PlannedAnswersHold == SplineSpec => []AnswersHold
  <1>1. SplineInv => AnswersHold
    <2> SUFFICES ASSUME SplineInv PROVE AnswersHold
      OBVIOUS
    <2>1. BoxType /\ pose \in Poses /\ seen \in SUBSET Obstacles /\ SelectedIsKept /\ StopHeld
          /\ answer.path \in Seq(Waypoints)
      BY DEF SplineInv, SplineTyped, Answers
    <2>2. ASSUME answer.kind \in {"STOP", "PREPARATION"}, answer.verified, Undisturbed
          PROVE  \E stop \in Nat :
             /\ Len(answer.path) = stop + 1
             /\ Escapable(pose, stop, seen)
             /\ stop < Requested(Cluster(Visible(pose.s, seen))) => ~Escapable(pose, stop + 1, seen)
      BY <2>1, <2>2 DEF StopHeld, Rests
    <2>3. VerifiedStopIsLeft
      <3> SUFFICES ASSUME answer.kind = "STOP", answer.verified, Len(answer.path) = 1, Undisturbed,
                          NEW a \in Plan(pose, seen, Free)
                   PROVE  a.kind \notin {"STOP", "NO_PATH"}
        BY DEF VerifiedStopIsLeft
      <3>1. PICK stop \in Nat : Len(answer.path) = stop + 1 /\ Escapable(pose, stop, seen)
        BY <2>2
      <3>2. Escapable(pose, 0, seen)
        <4>2. 1 = stop + 1
          BY <3>1
        <4>1. stop = 0
          BY ONLY <4>2, stop \in Nat
        <4> QED
          BY <3>1, <4>1
      <3> QED
        BY <2>1, <3>2, AwayIs
    <2>4. StopIsTheLatest
      <3> SUFFICES ASSUME answer.kind \in {"STOP", "PREPARATION"}, answer.verified, Undisturbed,
                          Len(answer.path) - 1 < Requested(Cluster(Visible(pose.s, seen)))
                   PROVE  ~Escapable(pose, Len(answer.path) - 1 + 1, seen)
        BY DEF StopIsTheLatest
      <3>1. PICK stop \in Nat :
             /\ Len(answer.path) = stop + 1
             /\ stop < Requested(Cluster(Visible(pose.s, seen))) => ~Escapable(pose, stop + 1, seen)
        BY <2>2
      <3>2. Len(answer.path) - 1 = stop /\ Len(answer.path) - 1 + 1 = stop + 1
        BY <3>1
      <3> QED
        BY <3>1, <3>2
    <2> QED
      BY <2>1, <2>3, <2>4 DEF AnswersHold
  <1> QED
    BY SplineInvariant, <1>1, PTL
-----------------------------------------------------------------------------
(* The search of the P3 evaluator.  The invariant says where an offer can be  *)
(* made, that no family exceeds its cap, that a rejection which steers has    *)
(* been seen on the side of the bracket it closes, and that some pool of the  *)
(* attempt still holds a rank that covers every one found.                    *)

Families == {"EXTENSION", "M1"}
ExtensionTemplates == {"inset", "long", "center", "quarter", "analytic", "bisect"}
M1Templates == {"boundary", "span", "near", "far", "bisect"}
Placed ==
  /\ stage \in SideStages =>
       /\ at \in {"enter", "leave"} \cup Offers /\ turn <= Exits
       /\ stage \notin domains => at \in {"enter", "leave"} /\ pool.best = Unknown
       /\ at = "enter" => pool.steer = Unknown
       /\ stage = "LEFT" /\ "RIGHT" \notin domains => m0best = Unknown
  /\ stage = "EXTENSION" => at \in ExtensionTemplates
  /\ stage = "M1" => at \in M1Templates
  /\ stage \in Families => turn <= contexts
  /\ stage = "DONE" => at = "leave" /\ turn = 1
  /\ at \in {"enter", "leave"} => roots = Unsolved
InBudget ==
  /\ stage # "FAILED" /\ m0 <= TotalCap
  /\ stage \in SideStages \cup {"EXTENSION"} => m0 <= FrozenCap
  /\ stage # "DONE" => pool.size <= Cap
Bracketing ==
  stage \in SideStages =>
     /\ at = "short" /\ pool.steer = Longer => 0 < terrain.lo
     /\ at = "long" => (pool.low => 0 < terrain.lo) /\ (pool.steer = Shorter => terrain.hi < Grid)
     /\ at = "bisect" => /\ lower < terrain.lo /\ terrain.hi < upper
                         /\ pool.steer = Longer => Middle < terrain.lo
                         /\ pool.steer = Shorter => terrain.hi < Middle
Offering ==
  ~aborted => \A r \in found : \/ stage = "DONE" /\ selected \in 1..r
                               \/ stage # "DONE" /\ pool.best \in 1..r
                               \/ stage = "LEFT" /\ m0best \in 1..r
SearchInv == P3SearchTypeOK /\ Placed /\ InBudget /\ Bracketing /\ Offering

LEMMA SearchIs ==
  /\ FrozenCap \in Nat /\ ExtensionCap \in Nat /\ TotalCap \in Nat /\ FrozenCap <= TotalCap
  /\ Exits \in Nat /\ Exits >= 1 /\ Roots \in Nat /\ Roots >= 1 /\ Ranks \in Nat /\ Ranks >= 1
  /\ MaxContexts \in Nat /\ MaxContexts >= 1 /\ Grid \in Nat /\ Grid >= 1
  BY P3SearchAssumption

LEMMA EmptyIs == Empty \in Pools /\ Empty.size = 0 /\ Empty.best = Unknown /\ Empty.steer = Unknown
                 /\ ~Empty.low /\ ~Empty.high /\ ~Empty.capped
  <1>1. 0 \in 0..TotalCap /\ Unknown \in 0..Ranks
    BY SearchIs DEF Unknown
  <1> QED
    BY <1>1 DEF Empty, Pools

\* The bookkeeping of a pool, with its steer forgotten or not.
LEMMA PoolKept ==
  ASSUME NEW p \in Pools, NEW b, b \in BOOLEAN
  PROVE  /\ [p EXCEPT !.low = b, !.steer = Unknown] \in Pools
         /\ [p EXCEPT !.high = b, !.steer = Unknown] \in Pools
         /\ [p EXCEPT !.steer = Unknown] \in Pools
         /\ [p EXCEPT !.capped = b] \in Pools
  BY DEF Pools

LEMMA FlatIs == Flat \in Terrain
  BY SearchIs DEF Flat, Terrain

LEMMA EnterSideInv == ASSUME SearchInv, EnterSide PROVE SearchInv'
  <1>0. P3SearchTypeOK /\ Placed /\ InBudget /\ Bracketing /\ Offering
    BY DEF SearchInv
  <1>1. P3SearchTypeOK'
    BY <1>0, SearchIs, EmptyIs, FlatIs DEF EnterSide, scales, result, P3SearchTypeOK, Placed, InBudget, Cap, Offers, Unsolved, Unknown, SideStages, Pools
  <1>2. Placed'
    BY <1>0, SearchIs, EmptyIs DEF EnterSide, scales, result, P3SearchTypeOK, Placed, LastTurn, Offers, SideStages, Families, ExtensionTemplates, M1Templates, Pools
  <1>3. InBudget'
    BY <1>0, SearchIs, EmptyIs DEF EnterSide, scales, result, P3SearchTypeOK, InBudget, Cap, SideStages, Pools
  <1>4. Bracketing'
    BY <1>0, SearchIs, EmptyIs DEF EnterSide, scales, result, P3SearchTypeOK, Bracketing, Placed, SideStages, Longer, Shorter, Unknown
  <1>5. Offering'
    BY <1>0, SearchIs, EmptyIs DEF EnterSide, scales, result, P3SearchTypeOK, Offering, Placed, Pools, SideStages, Unknown
  <1> QED
    BY <1>1, <1>2, <1>3, <1>4, <1>5 DEF SearchInv

LEMMA NextExitInv == ASSUME SearchInv, NextExit PROVE SearchInv'
  <1>0. P3SearchTypeOK /\ Placed /\ InBudget /\ Bracketing /\ Offering
    BY DEF SearchInv
  <1>1. P3SearchTypeOK'
    BY <1>0, SearchIs, EmptyIs, FlatIs DEF NextExit, scales, result, P3SearchTypeOK, Placed, InBudget, Cap, Offers, Unsolved, Unknown, SideStages, Pools
  <1>2. Placed'
    BY <1>0, SearchIs, EmptyIs DEF NextExit, scales, result, P3SearchTypeOK, Placed, LastTurn, Offers, SideStages, Families, ExtensionTemplates, M1Templates, Pools
  <1>3. InBudget'
    BY <1>0, SearchIs, EmptyIs DEF NextExit, scales, result, P3SearchTypeOK, InBudget, Cap, SideStages, Pools
  <1>4. Bracketing'
    BY <1>0, SearchIs, EmptyIs DEF NextExit, scales, result, P3SearchTypeOK, Bracketing, Middle, Pools, Longer, Shorter, Unknown
  <1>5. Offering'
    BY <1>0, SearchIs, EmptyIs DEF NextExit, scales, result, P3SearchTypeOK, Offering, Placed, Pools, SideStages, Unknown
  <1> QED
    BY <1>1, <1>2, <1>3, <1>4, <1>5 DEF SearchInv

LEMMA ShortOfferedInv == ASSUME SearchInv, ShortOffered PROVE SearchInv'
  <1>0. P3SearchTypeOK /\ Placed /\ InBudget /\ Bracketing /\ Offering
    BY DEF SearchInv
  <1>6. pool' \in Pools /\ pool'.size = pool.size
    <2>1. PICK b \in BOOLEAN : b = (pool.steer = Longer)
      OBVIOUS
    <2>2. pool' = [pool EXCEPT !.low = b, !.steer = Unknown] /\ pool \in Pools
      BY <1>0, <2>1 DEF ShortOffered, P3SearchTypeOK
    <2>3. pool'.size = pool.size
      BY <2>2 DEF Pools
    <2> QED
      BY <2>2, <2>3, PoolKept
  <1>1. P3SearchTypeOK'
    BY <1>0, <1>6, SearchIs, EmptyIs, FlatIs DEF ShortOffered, Go, Offered, scales, result, P3SearchTypeOK, Placed, InBudget, Cap, Offers, Unsolved, Unknown, SideStages
  <1>2. Placed'
    BY <1>0, SearchIs, EmptyIs DEF ShortOffered, Go, Offered, scales, result, P3SearchTypeOK, Placed, LastTurn, Offers, SideStages, Families, ExtensionTemplates, M1Templates, Pools
  <1>3. InBudget'
    BY <1>0, SearchIs, EmptyIs DEF ShortOffered, Go, Offered, scales, result, P3SearchTypeOK, InBudget, Cap, SideStages, Pools
  <1>4. Bracketing'
    BY <1>0, SearchIs, EmptyIs DEF ShortOffered, Go, Offered, scales, result, P3SearchTypeOK, Bracketing, Middle, Pools, Longer, Shorter, Unknown
  <1>5. Offering'
    BY <1>0, SearchIs, EmptyIs DEF ShortOffered, Go, Offered, scales, result, P3SearchTypeOK, Offering, Placed, Pools, SideStages, Unknown
  <1> QED
    BY <1>1, <1>2, <1>3, <1>4, <1>5 DEF SearchInv

LEMMA LongOfferedInv == ASSUME SearchInv, LongOffered PROVE SearchInv'
  <1>0. P3SearchTypeOK /\ Placed /\ InBudget /\ Bracketing /\ Offering
    BY DEF SearchInv
  <1>6. pool' \in Pools /\ pool'.size = pool.size
    <2>1. PICK b \in BOOLEAN : b = (pool.steer = Shorter)
      OBVIOUS
    <2>2. pool' = [pool EXCEPT !.high = b, !.steer = Unknown] /\ pool \in Pools
      BY <1>0, <2>1 DEF LongOffered, P3SearchTypeOK
    <2>3. pool'.size = pool.size
      BY <2>2 DEF Pools
    <2> QED
      BY <2>2, <2>3, PoolKept
  <1>1. P3SearchTypeOK'
    BY <1>0, <1>6, SearchIs, EmptyIs, FlatIs DEF LongOffered, Go, Offered, scales, result, P3SearchTypeOK, Placed, InBudget, Cap, Offers, Unsolved, Unknown, SideStages
  <1>2. Placed'
    BY <1>0, SearchIs, EmptyIs DEF LongOffered, Go, Offered, scales, result, P3SearchTypeOK, Placed, LastTurn, Offers, SideStages, Families, ExtensionTemplates, M1Templates, Pools
  <1>3. InBudget'
    BY <1>0, SearchIs, EmptyIs DEF LongOffered, Go, Offered, scales, result, P3SearchTypeOK, InBudget, Cap, SideStages, Pools
  <1>4. Bracketing'
    BY <1>0, SearchIs, EmptyIs DEF LongOffered, Go, Offered, scales, result, P3SearchTypeOK, Bracketing, Middle, Pools, Longer, Shorter, Unknown
  <1>5. Offering'
    BY <1>0, SearchIs, EmptyIs DEF LongOffered, Go, Offered, scales, result, P3SearchTypeOK, Offering, Placed, Pools, SideStages, Unknown
  <1> QED
    BY <1>1, <1>2, <1>3, <1>4, <1>5 DEF SearchInv

LEMMA RestOfferedInv == ASSUME SearchInv, RestOffered PROVE SearchInv'
  <1>0. P3SearchTypeOK /\ Placed /\ InBudget /\ Bracketing /\ Offering
    BY DEF SearchInv
  <1>1. P3SearchTypeOK'
    BY <1>0, SearchIs, EmptyIs, FlatIs DEF RestOffered, Go, Offered, scales, result, P3SearchTypeOK, Placed, InBudget, Cap, Offers, Unsolved, Unknown, SideStages, Pools
  <1>2. Placed'
    BY <1>0, SearchIs, EmptyIs DEF RestOffered, Go, Offered, scales, result, P3SearchTypeOK, Placed, LastTurn, Offers, SideStages, Families, ExtensionTemplates, M1Templates, Pools
  <1>3. InBudget'
    BY <1>0, SearchIs, EmptyIs DEF RestOffered, Go, Offered, scales, result, P3SearchTypeOK, InBudget, Cap, SideStages, Pools
  <1>4. Bracketing'
    BY <1>0, SearchIs, EmptyIs DEF RestOffered, Go, Offered, scales, result, P3SearchTypeOK, Bracketing, Middle, Pools, Longer, Shorter, Unknown
  <1>5. Offering'
    BY <1>0, SearchIs, EmptyIs DEF RestOffered, Go, Offered, scales, result, P3SearchTypeOK, Offering, Placed, Pools, SideStages, Unknown
  <1> QED
    BY <1>1, <1>2, <1>3, <1>4, <1>5 DEF SearchInv

LEMMA LeaveRightInv == ASSUME SearchInv, LeaveRight PROVE SearchInv'
  <1>0. P3SearchTypeOK /\ Placed /\ InBudget /\ Bracketing /\ Offering
    BY DEF SearchInv
  <1>1. P3SearchTypeOK'
    BY <1>0, SearchIs, EmptyIs, FlatIs DEF LeaveRight, scales, result, P3SearchTypeOK, Placed, InBudget, Cap, Offers, Unsolved, Unknown, SideStages, Pools
  <1>2. Placed'
    BY <1>0, SearchIs, EmptyIs DEF LeaveRight, scales, result, P3SearchTypeOK, Placed, LastTurn, Offers, SideStages, Families, ExtensionTemplates, M1Templates, Pools
  <1>3. InBudget'
    BY <1>0, SearchIs, EmptyIs DEF LeaveRight, scales, result, P3SearchTypeOK, InBudget, Cap, SideStages, Pools
  <1>4. Bracketing'
    BY <1>0, SearchIs, EmptyIs DEF LeaveRight, scales, result, P3SearchTypeOK, Bracketing, Middle, Pools, Longer, Shorter, Unknown
  <1>5. Offering'
    BY <1>0, SearchIs, EmptyIs DEF LeaveRight, scales, result, P3SearchTypeOK, Offering, Placed, Pools, SideStages, Unknown
  <1> QED
    BY <1>1, <1>2, <1>3, <1>4, <1>5 DEF SearchInv

LEMMA RetryInv == ASSUME SearchInv, Retry PROVE SearchInv'
  <1>0. P3SearchTypeOK /\ Placed /\ InBudget /\ Bracketing /\ Offering
    BY DEF SearchInv
  <1>6. pool' \in Pools /\ pool'.size = 0
    BY EmptyIs DEF Retry, Start
  <1>7. domains' \subseteq SideStages /\ attempt' = "relaxed" /\ stage' = "RIGHT" /\ at' = "enter"
        /\ turn' = 1 /\ roots' = Unsolved /\ m0' = 0 /\ m0best' = Unknown /\ selected' = Unknown
        /\ found' = {} /\ aborted' = FALSE /\ UNCHANGED <<contexts, terrain, lower, upper>>
    BY DEF Retry, Start, scales
  <1>1. P3SearchTypeOK'
    <2>1. /\ stage' \in SideStages /\ pool'.size <= FrozenCap /\ found' \subseteq 1..Ranks
          /\ turn' \in 1..(Exits + MaxContexts) /\ roots' \in Unsolved..(Roots + 1)
          /\ m0' \in 0..(FrozenCap + ExtensionCap) /\ m0best' \in 0..Ranks /\ selected' \in 0..Ranks
      BY <1>6, <1>7, SearchIs DEF Unsolved, Unknown, SideStages
    <2> QED
      BY <1>0, <1>6, <1>7, <2>1 DEF P3SearchTypeOK
  <1>2. Placed'
    BY <1>0, SearchIs, EmptyIs DEF Retry, Start, scales, result, P3SearchTypeOK, Placed, LastTurn, Offers, SideStages, Families, ExtensionTemplates, M1Templates, Pools
  <1>3. InBudget'
    BY <1>0, SearchIs, EmptyIs DEF Retry, Start, scales, result, P3SearchTypeOK, InBudget, Cap, SideStages, Pools
  <1>4. Bracketing'
    BY <1>0, SearchIs, EmptyIs DEF Retry, Start, scales, result, P3SearchTypeOK, Bracketing, Middle, Pools, Longer, Shorter, Unknown
  <1>5. Offering'
    BY <1>0, SearchIs, EmptyIs DEF Retry, Start, scales, result, P3SearchTypeOK, Offering, Placed, Pools, SideStages, Unknown
  <1> QED
    BY <1>1, <1>2, <1>3, <1>4, <1>5 DEF SearchInv


LEMMA SearchInitInv == P3SearchInit => SearchInv
  <1> SUFFICES ASSUME P3SearchInit PROVE SearchInv
    OBVIOUS
  <1>1. P3SearchTypeOK
    <2>1. /\ pool \in Pools /\ pool.size = 0 /\ terrain \in Terrain
      BY EmptyIs, FlatIs DEF P3SearchInit
    <2>2. /\ stage \in SideStages /\ pool.size <= FrozenCap /\ found \subseteq 1..Ranks
          /\ turn \in 1..(Exits + MaxContexts) /\ roots \in Unsolved..(Roots + 1)
          /\ m0 \in 0..(FrozenCap + ExtensionCap) /\ m0best \in 0..Ranks /\ selected \in 0..Ranks
          /\ contexts \in 1..MaxContexts /\ lower \in 0..Grid /\ upper \in 0..Grid
      BY <2>1, SearchIs DEF P3SearchInit, Unsolved, Unknown, SideStages
    <2> QED
      BY <2>1, <2>2 DEF P3SearchInit, P3SearchTypeOK
  <1>2. Placed /\ InBudget /\ Bracketing /\ Offering
    BY SearchIs, EmptyIs DEF P3SearchInit, Placed, InBudget, Bracketing, Offering, Cap, SideStages, Families
  <1> QED
    BY <1>1, <1>2 DEF SearchInv

LEMMA MiddleIs ==
  ASSUME lower \in 0..Grid, upper \in 0..Grid
  PROVE  Middle \in 0..Grid
  BY SearchIs DEF Middle

\* The search ends with a rank that covers what was found.
LEMMA FinishInv ==
  ASSUME SearchInv, NEW rank \in 0..Ranks, Finish(rank), ~aborted => \A r \in found : rank \in 1..r
  PROVE  SearchInv'
  <1>0. P3SearchTypeOK /\ Placed /\ InBudget /\ Bracketing /\ Offering
    BY DEF SearchInv
  <1>1. P3SearchTypeOK'
    <2>1. /\ pool' \in Pools /\ pool'.size = 0 /\ terrain' \in Terrain
      BY EmptyIs, FlatIs DEF Finish
    <2>2. /\ turn' \in 1..(Exits + MaxContexts) /\ roots' \in Unsolved..(Roots + 1)
          /\ contexts' \in 1..MaxContexts /\ lower' \in 0..Grid /\ upper' \in 0..Grid
      BY SearchIs DEF Finish, Unsolved
    <2> QED
      BY <1>0, <2>1, <2>2 DEF Finish, P3SearchTypeOK, SideStages
  <1>2. Placed' /\ Bracketing' /\ Offering'
    BY DEF Finish, Placed, Bracketing, Offering, SideStages, Families
  <1>3. InBudget'
    BY <1>0 DEF Finish, InBudget, SideStages
  <1> QED
    BY <1>1, <1>2, <1>3 DEF SearchInv

\* M1 begins with what is left of the budget; nothing was found, or M0 was aborted.
LEMMA EnterM1Inv ==
  ASSUME SearchInv, NEW count \in 0..(FrozenCap + ExtensionCap), count <= TotalCap, EnterM1(count),
         UNCHANGED <<attempt, domains, selected, found>>, contexts' \in 1..MaxContexts,
         aborted' \in BOOLEAN, ~aborted' => found = {}
  PROVE  SearchInv'
  <1>0. P3SearchTypeOK
    BY DEF SearchInv
  <1>1. P3SearchTypeOK'
    <2>1. /\ pool' \in Pools /\ pool'.size = 0 /\ terrain' \in Terrain
      BY EmptyIs, FlatIs DEF EnterM1
    <2>2. /\ turn' \in 1..(Exits + MaxContexts) /\ roots' \in Unsolved..(Roots + 1)
          /\ m0' \in 0..(FrozenCap + ExtensionCap) /\ m0best' \in 0..Ranks
          /\ lower' \in 0..Grid /\ upper' \in 0..Grid
      BY SearchIs DEF EnterM1, Unsolved, Unknown
    <2> QED
      BY <1>0, <2>1, <2>2 DEF EnterM1, P3SearchTypeOK, SideStages, Templates
  <1>2. stage' = "M1" /\ at' = "boundary" /\ turn' = 1 /\ m0' = count /\ pool'.size = 0
    BY SearchIs, EmptyIs DEF EnterM1
  <1>3. Placed' /\ Bracketing' /\ Offering'
    BY <1>2 DEF Placed, Bracketing, Offering, SideStages, Families, M1Templates
  <1>4. InBudget'
    BY <1>2, SearchIs DEF InBudget, SideStages, Cap
  <1> QED
    BY <1>1, <1>3, <1>4 DEF SearchInv

LEMMA SolveInv == ASSUME SearchInv, Solve PROVE SearchInv'
  <1>0. P3SearchTypeOK /\ Placed /\ InBudget /\ Bracketing /\ Offering
    BY DEF SearchInv
  <1>1. CASE Abort
    <2>1. aborted' = TRUE /\ EnterM1(0) /\ contexts' \in 1..MaxContexts
          /\ UNCHANGED <<attempt, domains, selected, found>>
      BY <1>1 DEF Abort
    <2>2. PICK count \in 0..(FrozenCap + ExtensionCap) : count = 0 /\ count <= TotalCap
      BY SearchIs
    <2> QED
      BY <2>1, <2>2, EnterM1Inv
  <1>2. CASE /\ roots' \in RootCounts
             /\ UNCHANGED <<attempt, stage, at, turn, domains, contexts, terrain, scales, pool,
                            result, found, aborted>>
    <2>1. roots' \in Unsolved..(Roots + 1)
      BY <1>2, SearchIs DEF RootCounts, Unsolved
    <2>2. P3SearchTypeOK'
      BY <1>0, <1>2, <2>1 DEF P3SearchTypeOK, scales, result
    <2>4. at \notin {"enter", "leave"}
      BY DEF Solve
    <2>3. Placed' /\ InBudget' /\ Bracketing' /\ Offering'
      BY <1>0, <1>2, <2>4 DEF Placed, InBudget, Cap, Bracketing, Middle, Offering, scales, result
    <2> QED
      BY <2>2, <2>3 DEF SearchInv
  <1> QED
    BY <1>1, <1>2 DEF Solve

\* A candidate is added to the pool.
LEMMA BuiltIs ==
  ASSUME pool \in Pools, pool.size < TotalCap, NEW v \in Verdict
  PROVE  /\ Built(v) \in Pools /\ Built(v).size = pool.size + 1
         /\ Built(v).best = IF Better(v, pool.best) THEN v ELSE pool.best
         /\ Built(v).steer = IF Steering THEN Steered(pool.steer, v) ELSE pool.steer
         /\ stage \in SideStages => Built(v).low = pool.low /\ Built(v).high = pool.high
  <1>1. pool.size \in Nat /\ pool.best \in 0..Ranks /\ pool.steer \in {Unknown, Longer, Shorter}
        /\ pool.low \in BOOLEAN /\ pool.high \in BOOLEAN /\ pool.capped \in BOOLEAN
    BY DEF Pools
  <1>2. PICK grown \in 0..TotalCap : grown = pool.size + 1
    BY <1>1, SearchIs
  <1>3. PICK better \in 0..Ranks : better = IF Better(v, pool.best) THEN v ELSE pool.best
    BY <1>1, SearchIs DEF Verdict, Better
  <1>4. PICK steered \in {Unknown, Longer, Shorter} :
           steered = IF Steering THEN Steered(pool.steer, v) ELSE pool.steer
    BY <1>1, SearchIs DEF Steered, Verdict, Unknown, Longer, Shorter
  <1>5. PICK low \in BOOLEAN : low = (pool.low \/ (stage \notin SideStages /\ LowEnd /\ v = Longer))
    OBVIOUS
  <1>6. PICK high \in BOOLEAN : high = (pool.high \/ (HighEnd /\ v = Shorter))
    OBVIOUS
  <1>7. Built(v) = [pool EXCEPT !.size = grown, !.best = better, !.steer = steered, !.low = low, !.high = high]
    BY <1>2, <1>3, <1>4, <1>5, <1>6 DEF Built
  <1>8. /\ Built(v) \in Pools /\ Built(v).size = grown /\ Built(v).best = better
        /\ Built(v).steer = steered
    BY ONLY <1>7, pool \in Pools, grown \in 0..TotalCap, better \in 0..Ranks,
       steered \in {Unknown, Longer, Shorter}, low \in BOOLEAN, high \in BOOLEAN DEF Pools
  <1>9. (Built(v).low = low) /\ (Built(v).high = high)
    BY <1>7 DEF Pools
  <1>10. stage \in SideStages => (low = pool.low) /\ (high = pool.high)
    BY <1>1, <1>5, <1>6 DEF HighEnd, SideStages
  <1> QED
    BY <1>2, <1>3, <1>4, <1>8, <1>9, <1>10, Zenon

LEMMA TryRootInv == ASSUME SearchInv, TryRoot PROVE SearchInv'
  <1>0. P3SearchTypeOK /\ Placed /\ InBudget /\ Bracketing /\ Offering
    BY DEF SearchInv
  <1>3. at \notin {"enter", "leave"} /\ roots \in Nat
    BY <1>0 DEF TryRoot, Placed, Unsolved, P3SearchTypeOK
  <1>1. CASE pool.size >= Cap
    <2>1. PICK b \in BOOLEAN : b = (stage \in SideStages)
      <3>1. CASE stage \in SideStages
        <4>1. TRUE = (stage \in SideStages)
          BY <3>1
        <4> QED
          BY <4>1
      <3>2. CASE stage \notin SideStages
        <4>1. FALSE = (stage \in SideStages)
          BY <3>2
        <4> QED
          BY <4>1
      <3> QED
        BY <3>1, <3>2
    <2>2. pool' = [pool EXCEPT !.capped = b] /\ pool \in Pools /\ roots' = 0 /\ found' = found
      BY <1>0, <1>1, <2>1 DEF TryRoot, P3SearchTypeOK
    <2>3. pool' \in Pools /\ pool'.size = pool.size /\ pool'.best = pool.best /\ pool'.steer = pool.steer
          /\ (pool'.low = pool.low)
      BY <2>2, PoolKept DEF Pools
    <2>4. UNCHANGED <<attempt, stage, at, turn, domains, contexts, terrain, lower, upper, m0, m0best,
                      selected, aborted>>
      BY DEF TryRoot, scales, result
    <2>5. P3SearchTypeOK'
      BY <1>0, <2>2, <2>3, <2>4, SearchIs DEF P3SearchTypeOK, Unsolved
    <2>6. Placed' /\ InBudget' /\ Bracketing' /\ Offering'
      BY <1>0, <1>3, <2>2, <2>3, <2>4 DEF Placed, InBudget, Cap, Bracketing, Middle, Offering
    <2> QED
      BY <2>5, <2>6 DEF SearchInv
  <1>2. CASE ~(pool.size >= Cap)
    <2>1. PICK v \in Verdicts : pool' = Built(v) /\ found' = found \cup ({v} \cap 1..Ranks)
      BY <1>2 DEF TryRoot
    <2>2. /\ UNCHANGED <<attempt, stage, at, turn, domains, contexts, terrain, lower, upper, m0, m0best,
                         selected, aborted>>
          /\ roots' = roots - 1 /\ roots > 0
      BY <1>2 DEF TryRoot, scales, result
    <2>3. v \in Verdict
      BY <2>1 DEF Verdicts
    <2>4. pool \in Pools /\ pool.size \in 0..TotalCap /\ Cap \in Int /\ Cap <= TotalCap /\ pool.size < Cap
      BY <1>0, <1>2, SearchIs DEF P3SearchTypeOK, Pools, Cap, Lesser
    <2>5. /\ pool' \in Pools /\ pool'.size = pool.size + 1
          /\ pool'.best = IF Better(v, pool.best) THEN v ELSE pool.best
          /\ pool'.steer = IF Steering THEN Steered(pool.steer, v) ELSE pool.steer
          /\ stage \in SideStages => (pool'.low = pool.low)
      <3>1. pool.size < TotalCap
        BY <2>4, SearchIs
      <3> QED
        BY <2>1, <2>3, <2>4, <3>1, BuiltIs
    <2>6. P3SearchTypeOK'
      <3>1. found' \subseteq 1..Ranks
        BY <1>0, <2>1 DEF P3SearchTypeOK
      <3>2. roots' \in Unsolved..(Roots + 1)
        BY <1>0, <2>2, SearchIs DEF P3SearchTypeOK, Unsolved
      <3>3. stage \in SideStages => pool'.size <= FrozenCap
        BY <2>4, <2>5, SearchIs DEF Cap
      <3> QED
        BY <1>0, <2>2, <2>5, <3>1, <3>2, <3>3 DEF P3SearchTypeOK
    <2>7. Placed'
      <3>1. stage \in SideStages => at \notin {"enter", "leave"}
        BY <1>3
      <3> QED
        BY <1>0, <1>3, <2>2, <3>1 DEF Placed
    <2>8. InBudget'
      BY <1>0, <2>2, <2>4, <2>5, SearchIs DEF InBudget, Cap
    <2>9. Bracketing'
      <3> SUFFICES ASSUME stage \in SideStages PROVE Bracketing'
        BY <2>2 DEF Bracketing
      <3>1. pool'.steer = Steered(pool.steer, v)
        BY <2>5 DEF Steering
      <3>2. /\ v = Longer => Entry < terrain.lo
            /\ v = Shorter => Entry > terrain.hi
        BY <2>1 DEF Verdicts, Longer, Shorter, Unknown
      <3>3. /\ at = "short" => Entry = 0
            /\ at = "long" => Entry = Grid
            /\ at = "bisect" => Entry = Middle
        BY DEF Entry
      <3>4. terrain.lo \in Int /\ terrain.hi \in Int /\ Middle \in Int /\ Grid \in Int
        BY <1>0, MiddleIs, SearchIs DEF P3SearchTypeOK, Terrain
      <3>5. pool'.steer = pool.steer \/ pool'.steer = v
        BY <3>1 DEF Steered
      <3> QED
        BY <1>0, <2>2, <2>5, <3>2, <3>3, <3>4, <3>5 DEF Bracketing, Middle
    <2>10. Offering'
      <3>1. v \in Int /\ pool.best \in 0..Ranks
        BY <1>0, <2>3, SearchIs DEF Verdict, P3SearchTypeOK, Pools
      <3>2. \A r \in Nat : pool.best \in 1..r => pool'.best \in 1..r
        BY <2>5, <3>1 DEF Better, Unknown
      <3>3. v \in 1..Ranks => pool'.best \in 1..v
        BY <2>5, <3>1, SearchIs DEF Better, Unknown
      <3>4. \A r \in found : r \in Nat
        BY <1>0 DEF P3SearchTypeOK
      <3>5. stage # "DONE"
        BY <1>0, <1>3 DEF Placed
      <3>6. \A r \in found' : r \in found \/ (r = v /\ v \in 1..Ranks)
        BY <2>1
      <3> QED
        BY <1>0, <2>2, <3>2, <3>3, <3>4, <3>5, <3>6 DEF Offering
    <2> QED
      BY <2>6, <2>7, <2>8, <2>9, <2>10 DEF SearchInv
  <1> QED
    BY <1>1, <1>2

\* The search goes on with another offer of the same side or family.
LEMMA GoOnInv ==
  ASSUME SearchInv, NEW where, NEW next \in 1..(Exits + MaxContexts), Go(where, next),
         stage \in SideStages \cup Families,
         pool' \in Pools, pool'.size = pool.size, pool'.best = pool.best,
         lower' \in 0..Grid, upper' \in 0..Grid,
         stage \in SideStages => where \in {"leave"} \cup Offers /\ stage \in domains /\ next <= Exits,
         stage = "EXTENSION" => where \in ExtensionTemplates /\ next <= contexts,
         stage = "M1" => where \in M1Templates /\ next <= contexts,
         Bracketing'
  PROVE  SearchInv'
  <1>0. P3SearchTypeOK /\ Placed /\ InBudget /\ Bracketing /\ Offering
    BY DEF SearchInv
  <1>1. at' = where /\ turn' = next /\ roots' = Unsolved
        /\ UNCHANGED <<attempt, stage, domains, contexts, terrain, m0, m0best, selected, found, aborted>>
    BY DEF Go, result
  <1>2. stage # "DONE" /\ stage # "FAILED"
    BY DEF SideStages, Families
  <1>3. P3SearchTypeOK'
    <2>1. roots' \in Unsolved..(Roots + 1)
      BY <1>1, SearchIs DEF Unsolved
    <2>2. at' \in {"enter", "leave"} \cup Offers \cup Templates
      BY <1>1, <1>2 DEF Families, Templates, ExtensionTemplates, M1Templates
    <2> QED
      BY <1>0, <1>1, <2>1, <2>2 DEF P3SearchTypeOK
  <1>4. Placed'
    BY <1>0, <1>1, <1>2 DEF Placed, Offers, ExtensionTemplates, M1Templates, SideStages, Families
  <1>5. InBudget' /\ Offering'
    BY <1>0, <1>1, <1>2 DEF InBudget, Cap, Offering
  <1> QED
    BY <1>3, <1>4, <1>5 DEF SearchInv

LEMMA NarrowedIs ==
  ASSUME P3SearchTypeOK
  PROVE  /\ pool.steer = Longer => Narrowed(pool.steer) = <<Middle, upper>>
         /\ pool.steer = Shorter => Narrowed(pool.steer) = <<lower, Middle>>
         /\ pool.steer = Unknown => Narrowed(pool.steer) = <<>>
         /\ pool.steer \in {Unknown, Longer, Shorter}
         /\ Middle \in 0..Grid /\ lower \in 0..Grid /\ upper \in 0..Grid
  <1>1. pool.steer \in {Unknown, Longer, Shorter} /\ lower \in 0..Grid /\ upper \in 0..Grid
    BY DEF P3SearchTypeOK, Pools
  <1> QED
    BY <1>1, MiddleIs DEF Narrowed, Longer, Shorter, Unknown

\* A bracket that is halved stays in range, and a pool without its steer is a pool.
LEMMA HalfIs ==
  ASSUME P3SearchTypeOK, Narrowed(pool.steer) # <<>>
  PROVE  /\ Narrowed(pool.steer)[1] \in 0..Grid /\ Narrowed(pool.steer)[2] \in 0..Grid
         /\ pool.steer # Unknown
         /\ pool.steer = Longer => Narrowed(pool.steer)[1] = Middle /\ Narrowed(pool.steer)[2] = upper
         /\ pool.steer = Shorter => Narrowed(pool.steer)[1] = lower /\ Narrowed(pool.steer)[2] = Middle
  <1>1. CASE pool.steer = Longer
    BY <1>1, NarrowedIs DEF Longer, Shorter, Unknown
  <1>2. CASE pool.steer = Shorter
    BY <1>2, NarrowedIs DEF Longer, Shorter, Unknown
  <1> QED
    BY <1>1, <1>2, NarrowedIs

LEMMA SteerForgotten ==
  ASSUME P3SearchTypeOK, pool' = [pool EXCEPT !.steer = Unknown]
  PROVE  pool' \in Pools /\ pool'.size = pool.size /\ pool'.best = pool.best /\ pool'.steer = Unknown
  BY PoolKept DEF P3SearchTypeOK, Pools

LEMMA SideProbedInv == ASSUME SearchInv, SideProbed PROVE SearchInv'
  <1>0. P3SearchTypeOK /\ Placed /\ InBudget /\ Bracketing /\ Offering
    BY DEF SearchInv
  <1>1. stage \in SideStages /\ at = "bisect" /\ stage \in domains
    BY <1>0 DEF SideProbed, Placed
  <1>2. lower \in 0..Grid /\ upper \in 0..Grid /\ pool \in Pools
        /\ 1 \in 1..(Exits + MaxContexts) /\ 1 <= Exits /\ stage \in SideStages \cup Families
        /\ stage # "EXTENSION" /\ stage # "M1"
    BY <1>0, <1>1, SearchIs DEF P3SearchTypeOK, SideStages
  <1>3. CASE Exits > 1 /\ Go("rest", 2) /\ UNCHANGED <<pool, scales>>
    <2>1. 2 \in 1..(Exits + MaxContexts) /\ 2 <= Exits
      BY <1>3, SearchIs
    <2>2. Bracketing' /\ UNCHANGED <<pool, lower, upper>>
      BY <1>3 DEF Bracketing, Go, scales
    <2> QED
      BY <1>1, <1>2, <1>3, <2>1, <2>2, GoOnInv DEF Offers
  <1>4. CASE Go("leave", 1) /\ UNCHANGED <<pool, scales>>
    <2>1. Bracketing' /\ UNCHANGED <<pool, lower, upper>>
      BY <1>4 DEF Bracketing, Go, scales
    <2> QED
      BY <1>1, <1>2, <1>4, <2>1, GoOnInv
  <1>5. CASE /\ Narrowed(pool.steer) # <<>>
             /\ lower' = Narrowed(pool.steer)[1] /\ upper' = Narrowed(pool.steer)[2]
             /\ pool' = [pool EXCEPT !.steer = Unknown]
             /\ Go("bisect", 1) \/ Go("leave", 1)
    <2>1. pool' \in Pools /\ pool'.size = pool.size /\ pool'.best = pool.best /\ pool'.steer = Unknown
      BY <1>0, <1>5, SteerForgotten
    <2>2. lower' \in 0..Grid /\ upper' \in 0..Grid
      BY <1>0, <1>5, HalfIs
    <2>3. Bracketing'
      <3>1. UNCHANGED <<stage, terrain>>
        BY <1>5 DEF Go
      <3>2. pool.steer \in {Longer, Shorter}
        BY <1>0, <1>5, HalfIs, NarrowedIs
      <3>3. lower' < terrain.lo /\ terrain.hi < upper'
        BY <1>0, <1>1, <1>5, <3>2, HalfIs DEF Bracketing
      <3>4. at' # "short" /\ at' # "long"
        BY <1>5 DEF Go
      <3> QED
        BY <2>1, <3>1, <3>3, <3>4 DEF Bracketing, Unknown, Longer, Shorter
    <2> QED
      BY <1>1, <1>2, <1>5, <2>1, <2>2, <2>3, GoOnInv DEF Offers
  <1> QED
    BY <1>3, <1>4, <1>5 DEF SideProbed

\* What LeaveLeft keeps of the two sides covers what either found.
LEMMA LeaveLeftInv == ASSUME SearchInv, LeaveLeft PROVE SearchInv'
  <1>0. P3SearchTypeOK /\ Placed /\ InBudget /\ Bracketing /\ Offering
    BY DEF SearchInv
  <1>1. stage = "LEFT" /\ stage \in SideStages /\ at = "leave"
    BY DEF LeaveLeft, SideStages
  <1>2. PICK size : size = IF LeftTakesOver THEN pool.size ELSE m0
    OBVIOUS
  <1>3. PICK best : best = IF LeftTakesOver THEN pool.best ELSE m0best
    OBVIOUS
  <1>4. pool.size \in 0..FrozenCap /\ m0 \in 0..FrozenCap /\ pool.best \in 0..Ranks /\ m0best \in 0..Ranks
        /\ \A r \in found : r \in Nat
    BY <1>0, <1>1, SearchIs DEF P3SearchTypeOK, Pools, InBudget
  <1>5. size \in 0..FrozenCap /\ best \in 0..Ranks
    BY <1>2, <1>3, <1>4
  <1>6. ~aborted => \A r \in found : best \in 1..r
    <2> SUFFICES ASSUME ~aborted, NEW r \in found PROVE best \in 1..r
      OBVIOUS
    <2>1. pool.best \in 1..r \/ m0best \in 1..r
      BY <1>0, <1>1 DEF Offering
    <2>2. /\ "LEFT" \notin domains => pool.best = Unknown
          /\ "RIGHT" \notin domains => m0best = Unknown
      BY <1>0, <1>1 DEF Placed
    <2>3. CASE LeftTakesOver
      BY <1>3, <1>4, <2>1, <2>2, <2>3 DEF LeftTakesOver, Better, Unknown
    <2>4. CASE ~LeftTakesOver
      BY <1>3, <1>4, <2>1, <2>2, <2>4 DEF LeftTakesOver, Better, Unknown
    <2> QED
      BY <2>3, <2>4
  <1>7. CASE Finish(best)
    BY <1>5, <1>6, <1>7, FinishInv
  <1>8. CASE /\ best = 0
             /\ stage' = "EXTENSION" /\ at' = "inset" /\ turn' = 1 /\ roots' = Unsolved
             /\ m0' = size /\ m0best' = best /\ pool' = Empty
             /\ lower' = 0 /\ upper' = Grid /\ terrain' = Flat /\ contexts' \in 1..MaxContexts
             /\ UNCHANGED <<attempt, domains, selected, found, aborted>>
    <2>1. pool' \in Pools /\ pool'.size = 0 /\ terrain' \in Terrain
      BY <1>8, EmptyIs, FlatIs
    <2>2. P3SearchTypeOK'
      <3>1. /\ turn' \in 1..(Exits + MaxContexts) /\ roots' \in Unsolved..(Roots + 1)
            /\ m0' \in 0..(FrozenCap + ExtensionCap)
            /\ lower' \in 0..Grid /\ upper' \in 0..Grid
        BY <1>5, <1>8, SearchIs DEF Unsolved
      <3> QED
        BY <1>0, <1>5, <1>8, <2>1, <3>1 DEF P3SearchTypeOK, SideStages, Templates
    <2>3. Placed' /\ Bracketing'
      BY <1>8 DEF Placed, Bracketing, SideStages, Families, ExtensionTemplates
    <2>4. InBudget'
      BY <1>5, <1>8, <2>1, SearchIs DEF InBudget, SideStages, Cap, Lesser
    <2>5. Offering'
      BY <1>4, <1>6, <1>8 DEF Offering
    <2> QED
      BY <2>2, <2>3, <2>4, <2>5 DEF SearchInv
  <1>9. \/ Finish(best)
        \/ /\ ~(best > 0)
           /\ stage' = "EXTENSION" /\ at' = "inset" /\ turn' = 1 /\ roots' = Unsolved
           /\ m0' = size /\ m0best' = best /\ pool' = Empty
           /\ lower' = 0 /\ upper' = Grid /\ terrain' = Flat /\ contexts' \in 1..MaxContexts
           /\ UNCHANGED <<attempt, domains, selected, found, aborted>>
    BY <1>2, <1>3 DEF LeaveLeft
  <1> QED
    BY <1>5, <1>7, <1>8, <1>9

\* After the sides, what was found is covered by the pool of the family.
LEMMA FamilyIs ==
  ASSUME SearchInv, stage \in Families
  PROVE  /\ pool \in Pools /\ pool.size \in Nat /\ pool.best \in 0..Ranks /\ m0 \in Nat
         /\ ~aborted => \A r \in found : pool.best \in 1..r
         /\ \A r \in found : r \in Nat
         /\ turn \in 1..contexts /\ contexts \in 1..MaxContexts
         /\ stage = "EXTENSION" =>
              m0 + pool.size \in 0..(FrozenCap + ExtensionCap) /\ m0 + pool.size <= TotalCap
         /\ stage = "M1" => m0 + pool.size <= TotalCap
         /\ lower \in 0..Grid /\ upper \in 0..Grid
         /\ aborted \in BOOLEAN
  <1>0. P3SearchTypeOK /\ Placed /\ InBudget /\ Offering
    BY DEF SearchInv
  <1>1. stage # "DONE" /\ stage \notin SideStages /\ stage # "LEFT"
    BY DEF Families, SideStages
  <1>2. /\ pool \in Pools /\ m0 \in Nat /\ turn \in Nat /\ turn >= 1 /\ contexts \in 1..MaxContexts
        /\ lower \in 0..Grid /\ upper \in 0..Grid /\ \A r \in found : r \in Nat
        /\ aborted \in BOOLEAN
    BY <1>0, SearchIs DEF P3SearchTypeOK
  <1>3. pool.size \in Nat /\ pool.best \in 0..Ranks
    BY <1>2 DEF Pools
  <1>4. ~aborted => \A r \in found : pool.best \in 1..r
    BY <1>0, <1>1 DEF Offering
  <1>5. turn \in 1..contexts
    BY <1>0, <1>2 DEF Placed
  <1>6. stage = "EXTENSION" =>
          m0 + pool.size \in 0..(FrozenCap + ExtensionCap) /\ m0 + pool.size <= TotalCap
    BY <1>0, <1>1, <1>2, <1>3, SearchIs DEF InBudget, Cap, Lesser
  <1>7. stage = "M1" => m0 + pool.size <= TotalCap
    BY <1>0, <1>1, <1>2, <1>3, SearchIs DEF InBudget, Cap
  <1> QED
    BY <1>2, <1>3, <1>4, <1>5, <1>6, <1>7

LEMMA LeaveExtensionInv == ASSUME SearchInv, stage = "EXTENSION", LeaveExtension PROVE SearchInv'
  <1>1. stage \in Families
    BY DEF Families
  <1>2. CASE pool.best > 0 /\ Finish(pool.best)
    BY <1>1, <1>2, FamilyIs, FinishInv
  <1>3. CASE /\ ~(pool.best > 0) /\ EnterM1(m0 + pool.size)
             /\ UNCHANGED <<attempt, domains, contexts, selected, found, aborted>>
    <2>1. PICK count \in 0..(FrozenCap + ExtensionCap) : count = m0 + pool.size /\ count <= TotalCap
      BY <1>1, FamilyIs
    <2>2. ~aborted' => found = {}
      BY <1>1, <1>3, FamilyIs
    <2>3. EnterM1(count) /\ contexts' \in 1..MaxContexts /\ aborted' \in BOOLEAN
          /\ UNCHANGED <<attempt, domains, selected, found>>
      BY <1>1, <1>3, <2>1, FamilyIs
    <2> QED
      BY <2>1, <2>2, <2>3, EnterM1Inv
  <1> QED
    BY <1>2, <1>3 DEF LeaveExtension

LEMMA LeaveM1Inv == ASSUME SearchInv, stage = "M1", LeaveM1 PROVE SearchInv'
  <1>1. stage \in Families
    BY DEF Families
  <1>2. Finish(pool.best)
    BY <1>1, FamilyIs, SearchIs DEF LeaveM1
  <1> QED
    BY <1>1, <1>2, FamilyIs, FinishInv

\* A family goes on with a template, or a bisection, of this context or another.
LEMMA FamilyGoesOn ==
  ASSUME SearchInv, stage \in Families, NEW where, NEW next \in 1..contexts, Go(where, next),
         pool' = pool \/ pool' = [pool EXCEPT !.steer = Unknown],
         lower' \in 0..Grid, upper' \in 0..Grid,
         stage = "EXTENSION" => where \in ExtensionTemplates,
         stage = "M1" => where \in M1Templates
  PROVE  SearchInv'
  <1>1. pool' \in Pools /\ pool'.size = pool.size /\ pool'.best = pool.best
    BY FamilyIs, SteerForgotten DEF SearchInv
  <1>2. next \in 1..(Exits + MaxContexts) /\ next <= contexts
    BY FamilyIs, SearchIs
  <1>3. stage \notin SideStages /\ stage \in SideStages \cup Families
    BY DEF Families, SideStages
  <1>4. Bracketing'
    BY <1>3 DEF Bracketing, Go
  <1> QED
    BY <1>1, <1>2, <1>3, <1>4, GoOnInv

LEMMA RebisectInv == ASSUME SearchInv, stage \in Families, ProbeContinues, Rebisect PROVE SearchInv'
  <1>1. lower' \in 0..Grid /\ upper' \in 0..Grid
    BY HalfIs DEF SearchInv, ProbeContinues, Rebisect
  <1>2. turn \in 1..contexts
    BY FamilyIs
  <1> QED
    BY <1>1, <1>2, FamilyGoesOn DEF Rebisect, ExtensionTemplates, M1Templates

LEMMA ExtensionOfferedInv == ASSUME SearchInv, ExtensionOffered PROVE SearchInv'
  <1>1. stage = "EXTENSION" /\ stage \in Families /\ at # "bisect"
    BY DEF ExtensionOffered, Families
  <1>2. turn \in 1..contexts /\ lower \in 0..Grid /\ upper \in 0..Grid /\ contexts \in Nat
    BY <1>1, FamilyIs
  <1>3. at \in ExtensionTemplates
    BY <1>1 DEF SearchInv, Placed
  <1>4. CASE at # "analytic" /\ Go(ExtensionOrder[at], turn) /\ UNCHANGED <<pool, scales>>
    <2>1. ExtensionOrder[at] \in ExtensionTemplates
      BY <1>1, <1>3, <1>4 DEF ExtensionTemplates, ExtensionOrder
    <2>2. lower' \in 0..Grid /\ upper' \in 0..Grid /\ pool' = pool
      BY <1>2, <1>4 DEF scales
    <2> QED
      BY <1>1, <1>2, <1>4, <2>1, <2>2, FamilyGoesOn
  <1>5. CASE /\ Go("bisect", turn) /\ pool' = [pool EXCEPT !.steer = Unknown]
             /\ lower' = Grid \div 4 /\ upper' = Grid
    <2>1. lower' \in 0..Grid /\ upper' \in 0..Grid
      BY <1>5, SearchIs
    <2> QED
      BY <1>1, <1>2, <1>5, <2>1, FamilyGoesOn DEF ExtensionTemplates
  <1>6. CASE turn < contexts /\ Go("inset", turn + 1) /\ UNCHANGED <<pool, scales>>
    <2>1. lower' \in 0..Grid /\ upper' \in 0..Grid /\ pool' = pool
      BY <1>2, <1>6 DEF scales
    <2>2. turn + 1 \in 1..contexts
      BY <1>2, <1>6
    <2> QED
      BY <1>1, <1>6, <2>1, <2>2, FamilyGoesOn DEF ExtensionTemplates
  <1>7. CASE LeaveExtension
    BY <1>1, <1>7, LeaveExtensionInv
  <1> QED
    BY <1>4, <1>5, <1>6, <1>7 DEF ExtensionOffered

LEMMA ExtensionProbedInv == ASSUME SearchInv, ExtensionProbed PROVE SearchInv'
  <1>1. stage = "EXTENSION" /\ stage \in Families
    BY DEF ExtensionProbed, Families
  <1>2. turn \in 1..contexts /\ lower \in 0..Grid /\ upper \in 0..Grid /\ contexts \in Nat
    BY <1>1, FamilyIs
  <1>3. CASE ProbeContinues /\ Rebisect
    BY <1>1, <1>3, RebisectInv
  <1>4. CASE turn < contexts /\ Go("inset", turn + 1) /\ UNCHANGED <<pool, scales>>
    <2>1. lower' \in 0..Grid /\ upper' \in 0..Grid /\ pool' = pool
      BY <1>2, <1>4 DEF scales
    <2>2. turn + 1 \in 1..contexts
      BY <1>2, <1>4
    <2> QED
      BY <1>1, <1>4, <2>1, <2>2, FamilyGoesOn DEF ExtensionTemplates
  <1>5. CASE LeaveExtension
    BY <1>1, <1>5, LeaveExtensionInv
  <1> QED
    BY <1>3, <1>4, <1>5 DEF ExtensionProbed

LEMMA M1OfferedInv == ASSUME SearchInv, M1Offered PROVE SearchInv'
  <1>1. stage = "M1" /\ stage \in Families /\ at # "bisect"
    BY DEF M1Offered, Families
  <1>2. turn \in 1..contexts /\ lower \in 0..Grid /\ upper \in 0..Grid /\ contexts \in Nat
    BY <1>1, FamilyIs
  <1>3. at \in M1Templates /\ 1 \in 1..contexts /\ contexts >= 1
    BY <1>1, <1>2 DEF SearchInv, Placed
  <1>4. CASE turn < contexts /\ Go(at, turn + 1) /\ UNCHANGED <<pool, scales>>
    <2>1. lower' \in 0..Grid /\ upper' \in 0..Grid /\ pool' = pool
      BY <1>2, <1>4 DEF scales
    <2>2. turn + 1 \in 1..contexts
      BY <1>2, <1>4
    <2> QED
      BY <1>1, <1>3, <1>4, <2>1, <2>2, FamilyGoesOn
  <1>5. CASE at # "far" /\ Go(M1Order[at], 1) /\ UNCHANGED <<pool, scales>>
    <2>1. M1Order[at] \in M1Templates
      BY <1>1, <1>3, <1>5 DEF M1Templates, M1Order
    <2>2. lower' \in 0..Grid /\ upper' \in 0..Grid /\ pool' = pool
      BY <1>2, <1>5 DEF scales
    <2> QED
      BY <1>1, <1>3, <1>5, <2>1, <2>2, FamilyGoesOn
  <1>6. CASE /\ Go("bisect", 1) /\ pool' = [pool EXCEPT !.steer = Unknown]
             /\ lower' = 0 /\ upper' = Grid
    <2>1. lower' \in 0..Grid /\ upper' \in 0..Grid
      BY <1>6, SearchIs
    <2> QED
      BY <1>1, <1>3, <1>6, <2>1, FamilyGoesOn DEF M1Templates
  <1>7. CASE LeaveM1
    BY <1>1, <1>7, LeaveM1Inv
  <1> QED
    BY <1>4, <1>5, <1>6, <1>7 DEF M1Offered

LEMMA M1ProbedInv == ASSUME SearchInv, M1Probed PROVE SearchInv'
  <1>1. stage = "M1" /\ stage \in Families
    BY DEF M1Probed, Families
  <1>2. turn \in 1..contexts /\ contexts \in Nat
    BY <1>1, FamilyIs
  <1>3. CASE ProbeContinues /\ Rebisect
    BY <1>1, <1>3, RebisectInv
  <1>4. CASE /\ turn < contexts /\ Go("bisect", turn + 1) /\ pool' = [pool EXCEPT !.steer = Unknown]
             /\ lower' = 0 /\ upper' = Grid
    <2>1. lower' \in 0..Grid /\ upper' \in 0..Grid
      BY <1>4, SearchIs
    <2>2. turn + 1 \in 1..contexts
      BY <1>2, <1>4
    <2> QED
      BY <1>1, <1>4, <2>1, <2>2, FamilyGoesOn DEF M1Templates
  <1>5. CASE LeaveM1
    BY <1>1, <1>5, LeaveM1Inv
  <1> QED
    BY <1>3, <1>4, <1>5 DEF M1Probed

LEMMA SearchStutters == ASSUME SearchInv, UNCHANGED searchVars PROVE SearchInv'
  BY DEF searchVars, SearchInv, P3SearchTypeOK, Placed, InBudget, Cap, Bracketing, Middle, Offering

\* SearchInv is inductive.
LEMMA SearchStep == SearchInv /\ [P3SearchNext]_searchVars => SearchInv'
  <1> SUFFICES ASSUME SearchInv, [P3SearchNext]_searchVars PROVE SearchInv'
    OBVIOUS
  <1>1. CASE UNCHANGED searchVars
    BY <1>1, SearchStutters
  <1>2. CASE EnterSide \/ Solve \/ TryRoot \/ NextExit \/ ShortOffered \/ LongOffered
    BY <1>2, EnterSideInv, SolveInv, TryRootInv, NextExitInv, ShortOfferedInv, LongOfferedInv
  <1>3. CASE SideProbed \/ RestOffered \/ LeaveRight \/ LeaveLeft \/ Retry
    BY <1>3, SideProbedInv, RestOfferedInv, LeaveRightInv, LeaveLeftInv, RetryInv
  <1>4. CASE ExtensionOffered \/ ExtensionProbed \/ M1Offered \/ M1Probed
    BY <1>4, ExtensionOfferedInv, ExtensionProbedInv, M1OfferedInv, M1ProbedInv
  <1> QED
    BY <1>1, <1>2, <1>3, <1>4 DEF P3SearchNext

\* The safety half of SearchIsSound, for every budget, number of exits, roots and
\* contexts: run() never exceeds its total cap, its bisection keeps the passing entry
\* scales inside the bracket, and what it selects is at least as good as every
\* hard-valid candidate it built.
THEOREM SearchStaysSound ==
  P3SearchSpec => [](P3SearchTypeOK /\ BudgetKept /\ BracketKept /\ BestIsOffered)
  <1>1. SearchInv => P3SearchTypeOK /\ BudgetKept /\ BracketKept /\ BestIsOffered
    BY DEF SearchInv, InBudget, BudgetKept, Bracketing, BracketKept, Offering, BestIsOffered, SideStages
  <1> QED
    BY <1>1, SearchInitInv, SearchStep, PTL DEF P3SearchSpec
=============================================================================
