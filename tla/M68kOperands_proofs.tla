------------------------ MODULE M68kOperands_proofs -------------------------
(*****************************************************************************)
(* The numbers of the data path and its operands, for every width of the   *)
(* sizes: comparisons, loops, shifts, products and quotients, and what     *)
(* reading or writing an operand of every addressing mode may do.          *)
(*****************************************************************************)
EXTENDS M68kOperands, TLAPS, WellFoundedInduction

Limb(sz) == 0 .. Top(sz) - 1

LEMMA Positive == \A sz \in Size : MSB[sz] \in Nat \ {0} /\ Top(sz) \in Nat \ {0}
  BY SignBits DEF Top

LEMMA NotLess == ASSUME NEW a \in Int, NEW b \in Int PROVE ~(a < b) <=> a >= b
  OBVIOUS

LEMMA Mod1 == ASSUME NEW T \in Nat \ {0}, NEW t \in 0 .. 2 * T - 1
              PROVE  t % T = IF t < T THEN t ELSE t - T
  OBVIOUS

LEMMA Mod2 == ASSUME NEW T \in Nat \ {0}, NEW t \in -T .. T - 1
              PROVE  t % T = IF t < 0 THEN t + T ELSE t
  OBVIOUS

LEMMA Div1 == ASSUME NEW T \in Nat \ {0}, NEW t \in 0 .. 2 * T - 1
              PROVE  t \div T = IF t < T THEN 0 ELSE 1
  OBVIOUS

LEMMA Div2 == ASSUME NEW T \in Nat \ {0}, NEW t \in -T .. T - 1
              PROVE  t \div T = IF t < 0 THEN -1 ELSE 0
  OBVIOUS

\* Low() on the sums and differences of limbs.
LEMMA LowSum == ASSUME NEW sz \in Size, NEW t \in 0 .. 2 * Top(sz) - 1
                PROVE  Low(t, sz) = IF t < Top(sz) THEN t ELSE t - Top(sz)
  BY Positive, Mod1, Zenon DEF Low

LEMMA LowDifference == ASSUME NEW sz \in Size, NEW t \in -Top(sz) .. Top(sz) - 1
                       PROVE  Low(t, sz) = IF t < 0 THEN t + Top(sz) ELSE t
  BY Positive, Mod2 DEF Low

LEMMA LowLimb == ASSUME NEW sz \in Size, NEW t \in Limb(sz) PROVE Low(t, sz) = t
  BY Positive, LowSum DEF Limb

-----------------------------------------------------------------------------
(***************************************************************************)
(* Comparisons.  M is the weight of the sign bit, r the difference that    *)
(* wraps.                                                                  *)
(***************************************************************************)
LEMMA Borrow ==
  ASSUME NEW M \in Nat \ {0}, NEW s \in 0 .. 2 * M - 1, NEW d \in 0 .. 2 * M - 1, NEW r \in Int,
         r = IF d - s < 0 THEN d - s + 2 * M ELSE d - s
  PROVE  ((s >= M /\ ~(d >= M)) \/ (r >= M /\ ~(d >= M)) \/ (s >= M /\ r >= M)) <=> d < s
  OBVIOUS

\* The sign of the difference, corrected by overflow, is the signed order.
LEMMA SignedOrder ==
  ASSUME NEW M \in Nat \ {0}, NEW s \in 0 .. 2 * M - 1, NEW d \in 0 .. 2 * M - 1, NEW r \in Int,
         r = IF d - s < 0 THEN d - s + 2 * M ELSE d - s
  PROVE  (r >= M <=> ~((s >= M <=> ~(d >= M)) /\ (r >= M <=> ~(d >= M))))
         <=> (IF d >= M THEN d - 2 * M ELSE d) < (IF s >= M THEN s - 2 * M ELSE s)
  OBVIOUS

LEMMA CmpFlags ==
  ASSUME NEW sz \in Size, NEW s \in Limb(sz), NEW d \in Limb(sz), NEW cc
  PROVE  LET f == setFlagsCmp(cc, s, d, d - s, sz)
         IN /\ flagC \in f <=> d < s
            /\ flagZ \in f <=> d = s
            /\ (flagN \in f <=> ~(flagV \in f)) <=> Signed(d, sz) < Signed(s, sz)
  <1> DEFINE T == Top(sz)
             M == MSB[sz]
             t == d - s
             r == Low(t, sz)
             f == setFlagsCmp(cc, s, d, t, sz)
  <1>1. M \in Nat \ {0} /\ T = 2 * M /\ T \in Nat \ {0}
    BY Positive DEF Top
  <1>2. s \in 0 .. T - 1 /\ d \in 0 .. T - 1 /\ t \in -T .. T - 1
    BY <1>1 DEF Limb
  <1>3. r = IF t < 0 THEN t + T ELSE t
    BY <1>1, <1>2, LowDifference
  <1>4. Low(s, sz) = s /\ Low(d, sz) = d
    BY LowLimb
  <1>5. /\ Neg(s, sz) <=> s >= M
        /\ Neg(d, sz) <=> d >= M
        /\ Neg(t, sz) <=> r >= M
    BY <1>4 DEF Neg
  <1>6. /\ flagC \in f <=> \/ Neg(s, sz) /\ ~Neg(d, sz)
                           \/ Neg(t, sz) /\ ~Neg(d, sz)
                           \/ Neg(s, sz) /\ Neg(t, sz)
        /\ flagN \in f <=> Neg(t, sz)
        /\ flagZ \in f <=> r = 0
        /\ flagV \in f <=> (Neg(s, sz) <=> ~Neg(d, sz)) /\ (Neg(t, sz) <=> ~Neg(d, sz))
    BY DEF setFlagsCmp, Is, flagX, flagC, flagN, flagZ, flagV
  <1>7. flagC \in f <=> d < s
    BY <1>1, <1>2, <1>3, <1>5, <1>6, Borrow
  <1>8. flagZ \in f <=> d = s
    BY <1>1, <1>2, <1>3, <1>6
  <1>9. /\ Signed(d, sz) = IF d >= M THEN d - 2 * M ELSE d
        /\ Signed(s, sz) = IF s >= M THEN s - 2 * M ELSE s
    BY <1>1, <1>4, <1>5 DEF Signed
  <1>10. (flagN \in f <=> ~(flagV \in f)) <=> Signed(d, sz) < Signed(s, sz)
    <2>1. (r >= M <=> ~((s >= M <=> ~(d >= M)) /\ (r >= M <=> ~(d >= M))))
          <=> (IF d >= M THEN d - 2 * M ELSE d) < (IF s >= M THEN s - 2 * M ELSE s)
      BY <1>1, <1>2, <1>3, SignedOrder
    <2>2. /\ flagN \in f <=> r >= M
          /\ flagV \in f <=> (s >= M <=> ~(d >= M)) /\ (r >= M <=> ~(d >= M))
      BY <1>5, <1>6
    <2> QED BY <2>1, <2>2, <1>9
  <1> QED BY <1>7, <1>8, <1>10

LEMMA Conditions ==
  ASSUME NEW f
  PROVE  /\ testCondition(f, 2) <=> ~(flagC \in f) /\ ~(flagZ \in f)
         /\ testCondition(f, 3) <=> flagC \in f \/ flagZ \in f
         /\ testCondition(f, 4) <=> ~(flagC \in f)
         /\ testCondition(f, 5) <=> flagC \in f
         /\ testCondition(f, 6) <=> ~(flagZ \in f)
         /\ testCondition(f, 7) <=> flagZ \in f
         /\ testCondition(f, 12) <=> ~(flagN \in f <=> ~(flagV \in f))
         /\ testCondition(f, 13) <=> (flagN \in f <=> ~(flagV \in f))
         /\ testCondition(f, 14) <=> ~(flagN \in f <=> ~(flagV \in f)) /\ ~(flagZ \in f)
         /\ testCondition(f, 15) <=> flagZ \in f \/ (flagN \in f <=> ~(flagV \in f))
  BY DEF testCondition

\* After setFlagsCmp, the conditions that Bcc, DBcc and Scc test are the orders
\* their names say, unsigned and signed, for every width and all operands:
\* CMP, CMPA, CMPI and CMPM compare right.
THEOREM CompareOrders ==
  ASSUME NEW sz \in Size, NEW s \in 0 .. Top(sz) - 1, NEW d \in 0 .. Top(sz) - 1, NEW cc
  PROVE  TellsOrder(setFlagsCmp(cc, s, d, d - s, sz), s, d, sz)
  <1> DEFINE f == setFlagsCmp(cc, s, d, d - s, sz)
             sd == Signed(d, sz)
             ss == Signed(s, sz)
  <1>1. s \in Limb(sz) /\ d \in Limb(sz)
    BY DEF Limb
  <1>2. /\ flagC \in f <=> d < s
        /\ flagZ \in f <=> d = s
        /\ (flagN \in f <=> ~(flagV \in f)) <=> sd < ss
    BY <1>1, CmpFlags
  <1>3. s \in Int /\ d \in Int /\ sd \in Int /\ ss \in Int /\ (d = s => sd = ss)
        /\ (sd = ss => d = s)
    <2>1. /\ Low(s, sz) = s /\ Low(d, sz) = d
          /\ MSB[sz] \in Nat /\ Top(sz) = 2 * MSB[sz]
      BY <1>1, LowLimb, Positive DEF Top
    <2> QED BY <2>1 DEF Signed, Neg
  <1>4. TellsOrder(f, s, d, sz)
    <2> HIDE DEF f, sd, ss
    <2> QED BY <1>2, <1>3, Conditions DEF TellsOrder, sd, ss
  <1> QED BY <1>4

-----------------------------------------------------------------------------
(***************************************************************************)
(* Loops.  A loop of a handler is a recursive function on 0 .. N.          *)
(***************************************************************************)
LEMMA Least ==
  ASSUME NEW T \in SUBSET Nat, T # {} PROVE \E m \in T : \A k \in T : m <= k
  <1> DEFINE R == OpToRel(<, Nat)
  <1>1. IsWellFoundedOn(R, Nat)
    BY NatLessThanWellFounded, Zenon
  <1>2. \A x, y \in Nat : y < x => <<y, x>> \in R
    BY DEF OpToRel
  <1> HIDE DEF R
  <1>3. PICK m \in T : \A k \in T : ~(<<k, m>> \in R)
    BY <1>1, WFMin, Zenon
  <1>4. ASSUME NEW k \in T PROVE m <= k
    <2>1. k \in Nat /\ m \in Nat /\ ~(k < m)
      BY <1>2, <1>3, Zenon
    <2> QED
      BY <2>1
  <1> QED
    BY <1>4

LEMMA Induction ==
  ASSUME NEW N \in Nat, NEW S, 0 \in S, \A n \in 1 .. N : n - 1 \in S => n \in S
  PROVE  0 .. N \subseteq S
  <1> DEFINE T == (0 .. N) \ S
  <1> SUFFICES ASSUME T # {} PROVE FALSE
    OBVIOUS
  <1>1. T \in SUBSET Nat
    OBVIOUS
  <1>2. PICK m \in T : \A k \in T : m <= k
    <2> HIDE DEF T
    <2> QED
      BY <1>1, Least
  <1>3. m \in 1 .. N /\ m - 1 \in 0 .. N
    BY <1>2
  <1>4. m - 1 \in S
    BY <1>2, <1>3
  <1> QED
    BY <1>2, <1>3, <1>4

\* What each turn of a loop keeps holds after each turn.
LEMMA LoopKeeps ==
  ASSUME NEW N \in Nat, NEW W, NEW g, g[0] \in W[0],
         \A n \in 1 .. N : g[n - 1] \in W[n - 1] => g[n] \in W[n]
  PROVE  \A n \in 0 .. N : g[n] \in W[n]
  <1> DEFINE S == {n \in 0 .. N : g[n] \in W[n]}
  <1>1. 0 \in S
    OBVIOUS
  <1>2. \A n \in 1 .. N : n - 1 \in S => n \in S
    OBVIOUS
  <1> HIDE DEF S
  <1>3. 0 .. N \subseteq S
    BY <1>1, <1>2, Induction
  <1> QED
    BY <1>3 DEF S

\* A loop whose turns F stay within V is defined.
Turns(N, V) == [(1 .. N) \X V -> V]

Loop(N, V, a, F, g) ==
  g \in [0 .. N -> V] /\ g[0] = a /\ \A n \in 1 .. N : g[n] = F[<<n, g[n - 1]>>]

LEMMA LoopExists ==
  ASSUME NEW V, NEW a \in V, NEW N \in Nat, NEW F \in Turns(N, V)
  PROVE  \E g : Loop(N, V, a, F, g)
  <1> DEFINE Good(n, g) == g[0] = a /\ \A k \in 1 .. n : g[k] = F[<<k, g[k - 1]>>]
             S == {n \in 0 .. N : \E g \in [0 .. n -> V] : Good(n, g)}
  <1>1. 0 \in S
    <2> DEFINE g == [k \in 0 .. 0 |-> a]
    <2>1. g \in [0 .. 0 -> V] /\ Good(0, g) /\ 0 \in 0 .. N
      OBVIOUS
    <2> HIDE DEF g, Good
    <2> QED
      BY <2>1
  <1>2. ASSUME NEW n \in 1 .. N, n - 1 \in S PROVE n \in S
    <2>1. PICK g \in [0 .. n - 1 -> V] : Good(n - 1, g)
      BY <1>2
    <2> DEFINE h == [k \in 0 .. n |-> IF k = n THEN F[<<n, g[n - 1]>>] ELSE g[k]]
    <2>2. h \in [0 .. n -> V]
      <3>1. F[<<n, g[n - 1]>>] \in V
        BY DEF Turns
      <3> QED
        BY <3>1
    <2>3. h[n] = F[<<n, g[n - 1]>>] /\ \A k \in 0 .. n - 1 : h[k] = g[k]
      OBVIOUS
    <2>4. n \in 0 .. N /\ n - 1 \in 0 .. n - 1 /\ 0 \in 0 .. n - 1
      OBVIOUS
    <2> HIDE DEF h
    <2>5. ASSUME NEW k \in 1 .. n PROVE h[k] = F[<<k, h[k - 1]>>]
      <3>1. CASE k = n
        BY <3>1, <2>3, <2>4
      <3>2. CASE k # n
        <4>1. k \in 1 .. n - 1 /\ k \in 0 .. n - 1 /\ k - 1 \in 0 .. n - 1
          BY <3>2
        <4> QED
          BY <2>1, <2>3, <4>1
      <3> QED
        BY <3>1, <3>2
    <2>6. Good(n, h)
      BY <2>1, <2>3, <2>4, <2>5
    <2> HIDE DEF Good
    <2> QED
      BY <2>2, <2>4, <2>6
  <1>3. N \in S
    <2> HIDE DEF S
    <2>1. 0 .. N \subseteq S /\ N \in 0 .. N
      BY <1>1, <1>2, Induction
    <2> QED
      BY <2>1
  <1> QED
    BY <1>3 DEF Loop

\* A recursive function h whose turns are F's is that loop.
LEMMA LoopStays ==
  ASSUME NEW V, NEW a \in V, NEW N \in Nat, NEW F \in Turns(N, V), NEW h, h[0] = a,
         \A n \in 1 .. N : h[n - 1] \in V => h[n] = F[<<n, h[n - 1]>>]
  PROVE  \A n \in 0 .. N : h[n] \in V
  <1> DEFINE W == [n \in 0 .. N |-> V]
  <1>1. h[0] \in W[0]
    OBVIOUS
  <1>2. ASSUME NEW n \in 1 .. N, h[n - 1] \in W[n - 1] PROVE h[n] \in W[n]
    <2>1. h[n - 1] \in V
      BY <1>2
    <2>2. F[<<n, h[n - 1]>>] \in V
      BY <2>1 DEF Turns
    <2> QED
      BY <2>1, <2>2
  <1>3. \A n \in 0 .. N : h[n] \in W[n]
    <2> HIDE DEF W
    <2> QED
      BY <1>1, <1>2, LoopKeeps
  <1> QED
    BY <1>3

-----------------------------------------------------------------------------
(***************************************************************************)
(* Powers of two, and the widths of the sizes.                             *)
(***************************************************************************)
LEMMA BitsOK == \A sz \in Size : Bits(sz) \in Nat \ {0} /\ Bits(sz) <= Bits(4)
  BY BitWidths DEF BitWidths, Bits, Size

LEMMA Pow2Def ==
  /\ Pow2[0] = 1 /\ \A n \in 1 .. Bits(4) : Pow2[n] = 2 * Pow2[n - 1]
  <1> DEFINE N == Bits(4)
             V == Int
             a == 1
             F == [x \in (1 .. N) \X V |-> 2 * x[2]]
             Body(g) == [n \in 0 .. N |-> IF n = 0 THEN 1 ELSE 2 * g[n - 1]]
  <1>1. N \in Nat
    BY BitsOK DEF Size
  <1> HIDE DEF N
  <1>2. F \in Turns(N, V) /\ a \in V
    BY DEF Turns
  <1>3. PICK g : Loop(N, V, a, F, g)
    <2> HIDE DEF F, V, a
    <2> QED
      BY <1>1, <1>2, LoopExists
  <1>4. \A n \in 1 .. N : g[n] = 2 * g[n - 1]
    <2> SUFFICES ASSUME NEW n \in 1 .. N PROVE g[n] = 2 * g[n - 1]
      OBVIOUS
    <2>1. g[n - 1] \in V
      BY <1>1, <1>3 DEF Loop
    <2>2. F[<<n, g[n - 1]>>] = 2 * g[n - 1]
      BY <2>1
    <2> QED
      BY <1>3, <2>2, Zenon DEF Loop
  <1>5. g = Body(g)
    BY <1>1, <1>3, <1>4 DEF Loop
  <1>6. Pow2 = Body(Pow2)
    BY <1>5, Zenon DEF Pow2, N
  <1> QED
    BY <1>1, <1>6 DEF N

LEMMA Pow2Nat == \A n \in 0 .. Bits(4) : Pow2[n] \in Nat \ {0}
  <1> DEFINE W == [n \in 0 .. Bits(4) |-> Nat \ {0}]
  <1>1. Bits(4) \in Nat
    BY BitsOK DEF Size
  <1>2. Pow2[0] \in W[0]
    BY Pow2Def, <1>1
  <1>3. \A n \in 1 .. Bits(4) : Pow2[n - 1] \in W[n - 1] => Pow2[n] \in W[n]
    BY Pow2Def, <1>1
  <1>4. \A n \in 0 .. Bits(4) : Pow2[n] \in W[n]
    <2> HIDE DEF W
    <2> QED
      BY <1>1, <1>2, <1>3, LoopKeeps
  <1> QED
    BY <1>4, <1>1

LEMMA Pow2Sum ==
  ASSUME NEW a \in Nat, NEW b \in Nat, a + b <= Bits(4) PROVE Pow2[a + b] = Pow2[a] * Pow2[b]
  <1> DEFINE S == {n \in 0 .. b : Pow2[a + n] = Pow2[a] * Pow2[n]}
  <1>1. Bits(4) \in Nat
    BY BitsOK DEF Size
  <1>2. \A x, y \in Nat : 2 * (x * y) = x * (2 * y)
    OBVIOUS
  <1>3. 0 \in S
    <2>1. Pow2[a] \in Nat /\ a + 0 = a
      BY <1>1, Pow2Nat
    <2> QED
      BY <2>1, Pow2Def
  <1>4. ASSUME NEW n \in 1 .. b, n - 1 \in S PROVE n \in S
    <2>1. Pow2[n] = 2 * Pow2[n - 1] /\ Pow2[a + n] = 2 * Pow2[(a + n) - 1]
      BY <1>1, Pow2Def
    <2>2. Pow2[a] \in Nat /\ Pow2[n - 1] \in Nat
      BY <1>1, Pow2Nat
    <2>3. Pow2[(a + n) - 1] = Pow2[a] * Pow2[n - 1]
      <3>1. (a + n) - 1 = a + (n - 1)
        OBVIOUS
      <3> QED
        BY <1>4, <3>1
    <2>4. 2 * (Pow2[a] * Pow2[n - 1]) = Pow2[a] * (2 * Pow2[n - 1])
      BY <1>2, <2>2
    <2> QED
      BY <2>1, <2>3, <2>4
  <1> HIDE DEF S
  <1>5. 0 .. b \subseteq S /\ b \in 0 .. b
    BY <1>3, <1>4, Induction
  <1> QED
    BY <1>5 DEF S

\* A word has room for two bytes and a long for two words.
LEMMA Tops ==
  /\ \A sz \in Size : Top(sz) = Pow2[Bits(sz)]
  /\ Top(2) = Top(1) * Top(1) /\ Top(4) = Top(2) * Top(2)
  <1>1. \A sz \in Size : Top(sz) = Pow2[Bits(sz)]
    <2> SUFFICES ASSUME NEW sz \in Size PROVE Top(sz) = Pow2[Bits(sz)]
      OBVIOUS
    <2>1. Bits(sz) \in 1 .. Bits(4)
      BY BitsOK DEF Size
    <2>2. Pow2[Bits(sz)] = 2 * Pow2[Bits(sz) - 1]
      BY <2>1, Pow2Def
    <2> QED
      BY <2>2, BitWidths DEF BitWidths, Top
  <1>2. Bits(2) = Bits(1) + Bits(1) /\ Bits(4) = Bits(2) + Bits(2)
    BY BitWidths DEF BitWidths, Bits
  <1>3. Bits(1) \in Nat /\ Bits(2) \in Nat /\ Bits(4) \in Nat /\ Bits(2) <= Bits(4)
    BY BitsOK DEF Size
  <1>4. Pow2[Bits(1) + Bits(1)] = Pow2[Bits(1)] * Pow2[Bits(1)]
    BY <1>2, <1>3, Pow2Sum
  <1>5. Pow2[Bits(2) + Bits(2)] = Pow2[Bits(2)] * Pow2[Bits(2)]
    BY <1>2, <1>3, Pow2Sum
  <1> QED
    BY <1>1, <1>2, <1>4, <1>5 DEF Size

LEMMA LowOK == ASSUME NEW v \in Int, NEW sz \in Size PROVE Low(v, sz) \in 0 .. Top(sz) - 1
  BY Positive DEF Low

LEMMA SignedOK == ASSUME NEW v \in Int, NEW sz \in Size PROVE Signed(v, sz) \in Int
  BY Positive, LowOK DEF Signed

LEMMA ExtOK ==
  ASSUME NEW v \in Int, NEW from \in Size, NEW to \in Size PROVE Ext(v, from, to) \in 0 .. Top(to) - 1
  BY SignedOK, LowOK DEF Ext

\* Two numbers of two limbs each are below the square of the limb.
LEMMA TwoLimbs ==
  ASSUME NEW T \in Nat \ {0}, NEW h \in 0 .. T - 1, NEW l \in 0 .. T - 1
  PROVE  h * T + l \in 0 .. T * T - 1
  <1>1. h * T \in Nat /\ T * T \in Nat
    OBVIOUS
  <1>2. h * T <= (T - 1) * T
    OBVIOUS
  <1>3. (T - 1) * T = T * T - T
    OBVIOUS
  <1> QED
    BY <1>1, <1>2, <1>3

\* A limb of T is replaced in a number of several.
LEMMA ReplaceLow ==
  ASSUME NEW T \in Nat \ {0}, NEW m \in Nat \ {0}, NEW x \in 0 .. m * T - 1, NEW l \in 0 .. T - 1
  PROVE  /\ x - (x % T) + l \in 0 .. m * T - 1
         /\ (x - (x % T) + l) \div T = x \div T
  <1> DEFINE q == x \div T
             r == x % T
  <1>1. q \in Nat /\ r \in 0 .. T - 1 /\ x = q * T + r
    OBVIOUS
  <1> HIDE DEF q, r
  <1>2. q * T \in Nat /\ m * T \in Nat
    BY <1>1
  <1>3. q <= m - 1
    <2> SUFFICES ASSUME q >= m PROVE FALSE
      BY <1>1
    <2>1. q * T >= m * T
      BY <1>1
    <2> QED
      BY <1>1, <1>2, <2>1
  <1>4. q * T <= (m - 1) * T /\ (m - 1) * T = m * T - T
    BY <1>1, <1>3
  <1>5. x - r + l = q * T + l
    BY <1>1, <1>2
  <1>6. (q * T + l) \div T = q
    BY <1>1, <1>2
  <1> QED
    BY <1>2, <1>4, <1>5, <1>6 DEF q, r

-----------------------------------------------------------------------------
(***************************************************************************)
(* Effective addresses.                                                    *)
(***************************************************************************)
LEMMA ParityLow == ASSUME NEW v \in Int PROVE Low(v, 4) % 2 = v % 2
  <1> DEFINE M == MSB[4]
             T == 2 * M
             q == v \div T
             r == v % T
             p == M * q
  <1>1. M \in Nat \ {0}
    BY Positive DEF Size
  <1> HIDE DEF M
  <1>2. T \in Nat \ {0}
    BY <1>1
  <1> HIDE DEF T
  <1>3. q \in Int /\ r \in Int /\ v = T * q + r
    BY <1>2
  <1> HIDE DEF q, r
  <1>4. p \in Int /\ T * q = 2 * p
    BY <1>1, <1>3 DEF T
  <1> HIDE DEF p
  <1>5. r % 2 = v % 2
    BY <1>3, <1>4
  <1>6. Low(v, 4) = r
    BY DEF Low, Top, r, T, M
  <1> QED
    BY <1>5, <1>6

Even(n) == n % 2 = 0

LEMMA EvenLow == ASSUME NEW v \in Int, Even(v) PROVE Even(Low(v, 4))
  BY ParityLow DEF Even

LEMMA LowSame == ASSUME NEW sz \in Size, NEW v \in 0 .. Top(sz) - 1 PROVE Low(v, sz) = v
  <1> DEFINE T == Top(sz)
  <1>1. T \in Nat \ {0}
    BY Positive
  <1> HIDE DEF T
  <1>2. v \in 0 .. T - 1
    BY DEF T
  <1>3. v % T = v
    BY <1>1, <1>2
  <1> QED
    BY <1>3 DEF Low, T

LEMMA LowAgain == ASSUME NEW sz \in Size, NEW v \in Int PROVE Low(Low(v, sz), sz) = Low(v, sz)
  BY LowOK, LowSame

LEMMA ShrOK == ASSUME NEW v \in Int, NEW n PROVE Shr(v, n) \in Int
  <1>1. CASE n \in 0 .. Bits(4) - 1
    <2>1. Bits(4) \in Nat
      BY BitsOK DEF Size
    <2>2. Pow2[n] \in Nat \ {0}
      BY <1>1, <2>1, Pow2Nat
    <2> QED
      BY <1>1, <2>2 DEF Shr
  <1>2. CASE ~(n \in 0 .. Bits(4) - 1)
    BY <1>2 DEF Shr
  <1> QED
    BY <1>1, <1>2

LEMMA LowInt == ASSUME NEW v \in Int, NEW sz \in Size PROVE Low(v, sz) \in Int
  BY LowOK, Positive

Result(o) == o.v \in Int /\ o.f \subseteq CCRBits

-----------------------------------------------------------------------------
(***************************************************************************)
(* Every operation gives a number and condition codes.                     *)
(***************************************************************************)
LEMMA FlagNames ==
  flagC \in CCRBits /\ flagV \in CCRBits /\ flagZ \in CCRBits /\ flagN \in CCRBits /\ flagX \in CCRBits
  BY DEF flagC, flagV, flagZ, flagN, flagX, CCRBits

LEMMA FlagSets ==
  ASSUME NEW ccr \in SUBSET CCRBits, NEW s, NEW d, NEW r, NEW sz
  PROVE  /\ setFlagsAdd(s, d, r, sz) \subseteq CCRBits
         /\ setFlagsSub(s, d, r, sz) \subseteq CCRBits
         /\ setFlagsCmp(ccr, s, d, r, sz) \subseteq CCRBits
         /\ setFlagsLogical(ccr, r, sz) \subseteq CCRBits
         /\ (ccr \cap {flagX}) \cup {flagZ} \subseteq CCRBits
         /\ (ccr \cap {flagX}) \cup {flagN} \subseteq CCRBits
         /\ ccr \cap {flagX} \subseteq CCRBits
  <1>1. \A f \in CCRBits : \A yes : Is(f, yes) \subseteq CCRBits
    BY DEF Is
  <1>2. flagC \in CCRBits /\ flagV \in CCRBits /\ flagZ \in CCRBits /\ flagN \in CCRBits /\ flagX \in CCRBits
    BY FlagNames
  <1>3. setFlagsAdd(s, d, r, sz) \subseteq CCRBits
    BY <1>1, <1>2, Zenon DEF setFlagsAdd
  <1>4. setFlagsSub(s, d, r, sz) \subseteq CCRBits
    BY <1>1, <1>2, Zenon DEF setFlagsSub
  <1>5. setFlagsCmp(ccr, s, d, r, sz) \subseteq CCRBits
    BY <1>1, <1>2, Zenon DEF setFlagsCmp
  <1>6. setFlagsLogical(ccr, r, sz) \subseteq CCRBits
    BY <1>1, <1>2, Zenon DEF setFlagsLogical
  <1> QED
    BY <1>2, <1>3, <1>4, <1>5, <1>6

LEMMA KeepZOK ==
  ASSUME NEW ccr \in SUBSET CCRBits, NEW f \in SUBSET CCRBits, NEW r, NEW sz
  PROVE  KeepZ(ccr, f, r, sz) \subseteq CCRBits
  BY DEF KeepZ

LEMMA AndOK == ASSUME NEW x, NEW y PROVE And(x, y) \in Int
  <1> DEFINE N == Bits(4)
             V == Int
             a == 0
             bit(n) == IF IsSet(x, n - 1) /\ IsSet(y, n - 1) THEN Pow2[n - 1] ELSE 0
             F == [p \in (1 .. N) \X V |-> p[2] + bit(p[1])]
             Body(g) == [n \in 0 .. N |-> IF n = 0 THEN 0 ELSE g[n - 1] + bit(n)]
             loop == CHOOSE g : g = Body(g)
  <1>1. And(x, y) = loop[N]
    BY DEF And
  <1>2. N \in Nat /\ \A n \in 1 .. N : bit(n) \in Int
    BY BitsOK, Pow2Nat DEF Size
  <1> HIDE DEF N, bit
  <1>3. F \in Turns(N, V) /\ a \in V
    BY <1>2 DEF Turns
  <1>4. \A n \in 1 .. N : \A v \in V : F[<<n, v>>] = v + bit(n)
    OBVIOUS
  <1>5. PICK g : Loop(N, V, a, F, g)
    <2> HIDE DEF F, V, a
    <2> QED
      BY <1>2, <1>3, LoopExists
  <1> HIDE DEF F
  <1>6. g = Body(g)
    <2>1. \A n \in 1 .. N : g[n - 1] \in V /\ g[n] = F[<<n, g[n - 1]>>]
      BY <1>2, <1>5 DEF Loop
    <2>2. \A n \in 1 .. N : g[n] = g[n - 1] + bit(n)
      BY <1>4, <2>1, Zenon
    <2> QED
      BY <1>2, <1>5, <2>2 DEF Loop
  <1>7. loop = Body(loop)
    BY <1>6, Zenon
  <1> HIDE DEF loop
  <1>8. loop[0] = a /\ \A n \in 1 .. N : loop[n - 1] \in V => loop[n] = F[<<n, loop[n - 1]>>]
    BY <1>2, <1>4, <1>7
  <1>9. loop[N] \in V
    <2> HIDE DEF V, a
    <2> QED
      BY <1>2, <1>3, <1>8, LoopStays
  <1> QED
    BY <1>1, <1>9

LEMMA ASLOK ==
  ASSUME NEW val \in Int, NEW count \in Nat, NEW sz \in Size PROVE ASL(val, count, sz).v \in Int
  <1> DEFINE V == [v : Int, over : BOOLEAN]
             a == [v |-> val, over |-> FALSE]
             turn(r) == LET v == Low(2 * r.v, sz)
                        IN [v |-> v, over |-> r.over \/ Neg(v, sz) # Neg(r.v, sz)]
             F == [p \in (1 .. count) \X V |-> turn(p[2])]
             Body(g) == [i \in 0 .. count |-> IF i = 0 THEN a ELSE turn(g[i - 1])]
             loop == CHOOSE g : g = Body(g)
  <1>1. ASL(val, count, sz).v = loop[count].v
    BY DEF ASL, Shifted
  <1>2. a \in V /\ \A r \in V : turn(r) \in V
    <2>1. \A n \in Int : Low(2 * n, sz) \in Int
      BY LowInt
    <2> QED
      BY <2>1
  <1> HIDE DEF turn
  <1>3. F \in Turns(count, V)
    BY <1>2 DEF Turns
  <1>4. \A i \in 1 .. count : \A r \in V : F[<<i, r>>] = turn(r)
    OBVIOUS
  <1>5. PICK g : Loop(count, V, a, F, g)
    <2> HIDE DEF F, V, a
    <2> QED
      BY <1>2, <1>3, LoopExists
  <1> HIDE DEF F
  <1>6. g = Body(g)
    <2>1. \A i \in 1 .. count : g[i - 1] \in V /\ g[i] = F[<<i, g[i - 1]>>]
      BY <1>5 DEF Loop
    <2>2. \A i \in 1 .. count : g[i] = turn(g[i - 1])
      BY <1>4, <2>1, Zenon
    <2> QED
      BY <1>5, <2>2 DEF Loop
  <1>7. loop = Body(loop)
    BY <1>6, Zenon
  <1> HIDE DEF loop
  <1>8. loop[0] = a /\ \A i \in 1 .. count : loop[i - 1] \in V => loop[i] = F[<<i, loop[i - 1]>>]
    <2> HIDE DEF V, a
    <2> QED
      BY <1>4, <1>7
  <1>9. loop[count] \in V
    <2> HIDE DEF V, a
    <2> QED
      BY <1>2, <1>3, <1>8, LoopStays
  <1> QED
    BY <1>1, <1>9

LEMMA ASROK ==
  ASSUME NEW val \in Int, NEW count \in Nat, NEW sz \in Size PROVE ASR(val, count, sz).v \in Int
  <1> DEFINE V == Int
             a == val
             sign == IF Neg(val, sz) THEN MSB[sz] ELSE 0
             turn(r) == (r \div 2) + sign
             F == [p \in (1 .. count) \X V |-> turn(p[2])]
             Body(g) == [i \in 0 .. count |-> IF i = 0 THEN a ELSE turn(g[i - 1])]
             loop == CHOOSE g : g = Body(g)
  <1>1. ASR(val, count, sz).v = loop[count]
    BY DEF ASR, Shifted
  <1>2. a \in V /\ \A r \in V : turn(r) \in V
    <2>1. sign \in Int
      BY Positive
    <2> HIDE DEF sign
    <2> QED
      BY <2>1
  <1> HIDE DEF turn
  <1>3. F \in Turns(count, V)
    BY <1>2 DEF Turns
  <1>4. \A i \in 1 .. count : \A r \in V : F[<<i, r>>] = turn(r)
    OBVIOUS
  <1>5. PICK g : Loop(count, V, a, F, g)
    <2> HIDE DEF F, V, a
    <2> QED
      BY <1>2, <1>3, LoopExists
  <1> HIDE DEF F
  <1>6. g = Body(g)
    <2>1. \A i \in 1 .. count : g[i - 1] \in V /\ g[i] = F[<<i, g[i - 1]>>]
      BY <1>5 DEF Loop
    <2>2. \A i \in 1 .. count : g[i] = turn(g[i - 1])
      BY <1>4, <2>1, Zenon
    <2> QED
      BY <1>5, <2>2 DEF Loop
  <1>7. loop = Body(loop)
    BY <1>6, Zenon
  <1> HIDE DEF loop
  <1>8. loop[0] = a /\ \A i \in 1 .. count : loop[i - 1] \in V => loop[i] = F[<<i, loop[i - 1]>>]
    <2> HIDE DEF V, a
    <2> QED
      BY <1>4, <1>7
  <1>9. loop[count] \in V
    <2> HIDE DEF V, a
    <2> QED
      BY <1>2, <1>3, <1>8, LoopStays
  <1> QED
    BY <1>1, <1>9

LEMMA ROXLOK ==
  ASSUME NEW x \in {0, 1}, NEW val \in Int, NEW count \in Nat, NEW sz \in Size
  PROVE  ROXL(x, val, count, sz).v \in Int
  <1> DEFINE V == [v : Int, x : {0, 1}]
             a == [v |-> val, x |-> x]
             turn(r) == [v |-> Low(2 * r.v + r.x, sz), x |-> IF Neg(r.v, sz) THEN 1 ELSE 0]
             F == [p \in (1 .. count) \X V |-> turn(p[2])]
             Body(g) == [i \in 0 .. count |-> IF i = 0 THEN a ELSE turn(g[i - 1])]
             loop == CHOOSE g : g = Body(g)
  <1>1. ROXL(x, val, count, sz).v = loop[count].v
    BY DEF ROXL, Shifted
  <1>2. a \in V /\ \A r \in V : turn(r) \in V
    <2>1. \A n \in Int, m \in {0, 1} : 2 * n + m \in Int
      OBVIOUS
    <2>2. \A n \in Int, m \in {0, 1} : Low(2 * n + m, sz) \in Int
      BY <2>1, LowInt
    <2> QED
      BY <2>2
  <1> HIDE DEF turn
  <1>3. F \in Turns(count, V)
    BY <1>2 DEF Turns
  <1>4. \A i \in 1 .. count : \A r \in V : F[<<i, r>>] = turn(r)
    OBVIOUS
  <1>5. PICK g : Loop(count, V, a, F, g)
    <2> HIDE DEF F, V, a
    <2> QED
      BY <1>2, <1>3, LoopExists
  <1> HIDE DEF F
  <1>6. g = Body(g)
    <2>1. \A i \in 1 .. count : g[i - 1] \in V /\ g[i] = F[<<i, g[i - 1]>>]
      BY <1>5 DEF Loop
    <2>2. \A i \in 1 .. count : g[i] = turn(g[i - 1])
      BY <1>4, <2>1, Zenon
    <2> QED
      BY <1>5, <2>2 DEF Loop
  <1>7. loop = Body(loop)
    BY <1>6, Zenon
  <1> HIDE DEF loop
  <1>8. loop[0] = a /\ \A i \in 1 .. count : loop[i - 1] \in V => loop[i] = F[<<i, loop[i - 1]>>]
    <2> HIDE DEF V, a
    <2> QED
      BY <1>4, <1>7
  <1>9. loop[count] \in V
    <2> HIDE DEF V, a
    <2> QED
      BY <1>2, <1>3, <1>8, LoopStays
  <1> QED
    BY <1>1, <1>9

LEMMA ROXROK ==
  ASSUME NEW x \in {0, 1}, NEW val \in Int, NEW count \in Nat, NEW sz \in Size
  PROVE  ROXR(x, val, count, sz).v \in Int
  <1> DEFINE V == [v : Int, x : {0, 1}]
             a == [v |-> val, x |-> x]
             turn(r) == [v |-> (r.v \div 2) + r.x * MSB[sz], x |-> r.v % 2]
             F == [p \in (1 .. count) \X V |-> turn(p[2])]
             Body(g) == [i \in 0 .. count |-> IF i = 0 THEN a ELSE turn(g[i - 1])]
             loop == CHOOSE g : g = Body(g)
  <1>1. ROXR(x, val, count, sz).v = loop[count].v
    BY DEF ROXR, Shifted
  <1>2. a \in V /\ \A r \in V : turn(r) \in V
    <2>1. MSB[sz] \in Int
      BY Positive
    <2>2. \A n \in Int, m \in {0, 1} : (n \div 2) + m * MSB[sz] \in Int /\ n % 2 \in {0, 1}
      BY <2>1
    <2> QED
      BY <2>2
  <1> HIDE DEF turn
  <1>3. F \in Turns(count, V)
    BY <1>2 DEF Turns
  <1>4. \A i \in 1 .. count : \A r \in V : F[<<i, r>>] = turn(r)
    OBVIOUS
  <1>5. PICK g : Loop(count, V, a, F, g)
    <2> HIDE DEF F, V, a
    <2> QED
      BY <1>2, <1>3, LoopExists
  <1> HIDE DEF F
  <1>6. g = Body(g)
    <2>1. \A i \in 1 .. count : g[i - 1] \in V /\ g[i] = F[<<i, g[i - 1]>>]
      BY <1>5 DEF Loop
    <2>2. \A i \in 1 .. count : g[i] = turn(g[i - 1])
      BY <1>4, <2>1, Zenon
    <2> QED
      BY <1>5, <2>2 DEF Loop
  <1>7. loop = Body(loop)
    BY <1>6, Zenon
  <1> HIDE DEF loop
  <1>8. loop[0] = a /\ \A i \in 1 .. count : loop[i - 1] \in V => loop[i] = F[<<i, loop[i - 1]>>]
    <2> HIDE DEF V, a
    <2> QED
      BY <1>4, <1>7
  <1>9. loop[count] \in V
    <2> HIDE DEF V, a
    <2> QED
      BY <1>2, <1>3, <1>8, LoopStays
  <1> QED
    BY <1>1, <1>9

LEMMA ShlOK == ASSUME NEW v \in Int, NEW n \in Nat, NEW sz \in Size PROVE Shl(v, n, sz) \in Int
  <1>1. CASE n < Bits(sz)
    <2>1. n \in 0 .. Bits(4)
      BY <1>1, BitsOK DEF Size
    <2>2. Pow2[n] \in Int
      BY <2>1, Pow2Nat
    <2>3. v * Pow2[n] \in Int
      BY <2>2
    <2> QED
      BY <1>1, <2>3, LowInt DEF Shl
  <1>2. CASE ~(n < Bits(sz))
    BY <1>2 DEF Shl
  <1> QED
    BY <1>1, <1>2

LEMMA doShiftOK ==
  ASSUME NEW ccr \in SUBSET CCRBits, NEW val \in Int, NEW count \in Nat, NEW left \in BOOLEAN,
         NEW typ \in {"AS", "LS", "ROX", "RO"}, NEW sz \in Size
  PROVE  Result(doShift(ccr, val, count, left, typ, sz))
  <1> DEFINE o == doShift(ccr, val, count, left, typ, sz)
  <1>1. \A f \in CCRBits : \A yes : Is(f, yes) \subseteq CCRBits
    BY DEF Is
  <1>2. CASE count = 0
    <2>1. o.v = val
      BY <1>2 DEF doShift
    <2>2. setFlagsLogical(ccr, val, sz) \subseteq CCRBits
      BY FlagSets, Zenon
    <2>3. o.f = setFlagsLogical(ccr, val, sz) \cup Is(flagC, typ = "ROX" /\ flagX \in ccr)
      BY <1>2 DEF doShift
    <2>4. o.f \subseteq CCRBits
      BY <1>1, <2>2, <2>3, FlagNames, Zenon
    <2> QED
      BY <2>1, <2>4 DEF Result
  <1>3. CASE count # 0
    <2> DEFINE shift == count % Bits(sz)
               r == CASE typ = "AS"  -> IF left THEN ASL(val, count, sz) ELSE ASR(val, count, sz)
                      [] typ = "LS"  -> IF left THEN LSL(val, count, sz) ELSE LSR(val, count, sz)
                      [] typ = "ROX" -> IF left THEN ROXL(Extend(ccr), val, count, sz)
                                                ELSE ROXR(Extend(ccr), val, count, sz)
                      [] typ = "RO"  -> IF left THEN ROL(val, count, sz) ELSE ROR(val, count, sz)
               f == (IF typ = "RO" THEN ccr \cap {flagX} ELSE Is(flagX, r.out))
                    \cup Is(flagC, r.out) \cup Is(flagV, r.over)
                    \cup Is(flagN, Neg(r.v, sz)) \cup Is(flagZ, Low(r.v, sz) = 0)
    <2>1. o = [v |-> r.v, f |-> f]
      BY <1>3 DEF doShift
    <2>2. shift \in Nat /\ Bits(sz) - shift \in Nat
      BY BitsOK
    <2>3. LSL(val, count, sz).v \in Int /\ LSR(val, count, sz).v \in Int
      BY ShlOK, ShrOK DEF LSL, LSR, Shifted
    <2>4. ROL(val, count, sz).v \in Int /\ ROR(val, count, sz).v \in Int
      <3>1. Shl(val, shift, sz) \in Int /\ Shr(val, Bits(sz) - shift) \in Int
        BY <2>2, ShlOK, ShrOK
      <3>2. Shl(val, Bits(sz) - shift, sz) \in Int /\ Shr(val, shift) \in Int
        BY <2>2, ShlOK, ShrOK
      <3>3. Shl(val, shift, sz) + Shr(val, Bits(sz) - shift) \in Int
        BY <3>1
      <3>4. Shr(val, shift) + Shl(val, Bits(sz) - shift, sz) \in Int
        BY <3>2
      <3> QED
        BY <3>3, <3>4 DEF ROL, ROR, Shifted
    <2>5. Extend(ccr) \in {0, 1}
      BY DEF Extend
    <2>6. ROXL(Extend(ccr), val, count, sz).v \in Int /\ ROXR(Extend(ccr), val, count, sz).v \in Int
      BY <2>5, ROXLOK, ROXROK
    <2>7. r.v \in Int
      BY <2>3, <2>4, <2>6, ASLOK, ASROK
    <2> HIDE DEF r
    <2>8. f \subseteq CCRBits
      BY <1>1, FlagNames, Zenon
    <2> HIDE DEF f
    <2> QED
      BY <2>1, <2>7, <2>8 DEF Result
  <1> QED
    BY <1>2, <1>3

LEMMA Products ==
  ASSUME NEW ccr \in SUBSET CCRBits, NEW s \in Int, NEW d \in Int
  PROVE  Result(mulu(ccr, s, d)) /\ Result(muls(ccr, s, d))
  <1>1. Low(d, 2) \in Int /\ Signed(s, 2) \in Int /\ Signed(d, 2) \in Int
    BY LowInt, SignedOK DEF Size
  <1>2. s * Low(d, 2) \in Int /\ Signed(s, 2) * Signed(d, 2) \in Int
    BY <1>1
  <1>3. Low(s * Low(d, 2), 4) \in Int /\ Low(Signed(s, 2) * Signed(d, 2), 4) \in Int
    BY <1>2, LowInt DEF Size
  <1> QED
    BY <1>3, FlagSets, Zenon DEF mulu, muls, Result

LEMMA dividedOK ==
  ASSUME NEW ccr \in SUBSET CCRBits, NEW q \in Int, NEW r \in Int, NEW d \in Int
  PROVE  Result(divided(ccr, q, r)) /\ Result(divOverflow(ccr, d))
  <1>1. Low(r, 2) \in Int /\ Low(q, 2) \in Int /\ Top(2) \in Int
    BY LowInt, Positive DEF Size
  <1>2. Low(r, 2) * Top(2) + Low(q, 2) \in Int
    BY <1>1
  <1>3. (ccr \ {flagC, flagZ}) \cup {flagV, flagN} \subseteq CCRBits
    BY FlagNames
  <1> QED
    BY <1>2, <1>3, FlagSets, Zenon DEF divided, divOverflow, Result

LEMMA Quotients ==
  ASSUME NEW ccr \in SUBSET CCRBits, NEW s \in 1 .. Top(2) - 1, NEW d \in Int
  PROVE  Result(divu(ccr, s, d)) /\ Result(divs(ccr, s, d))
  <1>1. s \in Nat \ {0} /\ s \in Int /\ s \in 0 .. Top(2) - 1
    BY Positive DEF Size
  <1>2. d \div s \in Int /\ d % s \in Int
    BY <1>1
  <1>3. Result(divu(ccr, s, d))
    BY <1>2, dividedOK DEF divu
  <1> DEFINE n == Signed(d, 4)
             m == Signed(s, 2)
             p == Quo(n, m)
             q == Signed(p, 4)
  <1>4. n \in Int /\ m \in Int /\ m # 0
    <2>1. Low(s, 2) = s /\ Top(2) \in Int
      BY <1>1, LowSame, Positive DEF Size
    <2> QED
      BY <1>1, <2>1, SignedOK DEF Signed, Size
  <1> HIDE DEF n, m
  <1>5. p \in Int
    <2>1. Magnitude(n) \in Nat /\ Magnitude(m) \in Nat \ {0}
      BY <1>4 DEF Magnitude
    <2>2. Magnitude(n) \div Magnitude(m) \in Int
      BY <2>1
    <2> QED
      BY <2>2 DEF Quo
  <1>6. Rem(n, m) \in Int
    BY <1>4, <1>5 DEF Rem
  <1> HIDE DEF p
  <1>7. q \in Int
    BY <1>5, SignedOK DEF Size
  <1> HIDE DEF q
  <1>8. divs(ccr, s, d) = IF q >= MSB[2] \/ q < -MSB[2] THEN divOverflow(ccr, d)
                          ELSE divided(ccr, q, Rem(n, m))
    BY DEF divs, q, p, n, m
  <1>9. Result(divs(ccr, s, d))
    BY <1>6, <1>7, <1>8, dividedOK
  <1> QED
    BY <1>3, <1>9

-----------------------------------------------------------------------------
(***************************************************************************)
(* Products and quotients.                                                 *)
(***************************************************************************)
LEMMA Monotone ==
  ASSUME NEW b \in Nat, NEW x \in Int, NEW y \in Int, x <= y PROVE b * x <= b * y
  OBVIOUS

LEMMA DivisionUnique ==
  ASSUME NEW a \in Nat, NEW b \in Nat \ {0}, NEW w \in Int, NEW r \in 0 .. b - 1, a = b * w + r
  PROVE  w \in Nat /\ a \div b = w /\ a % b = r
  <1> DEFINE q == a \div b
             e == a % b
  <1>1. q \in Int /\ e \in 0 .. b - 1 /\ a = b * q + e
    OBVIOUS
  <1> HIDE DEF q, e
  <1>2. ~(w + 1 <= q)
    <2> SUFFICES ASSUME w + 1 <= q PROVE FALSE
      OBVIOUS
    <2>1. b * (w + 1) <= b * q /\ b * (w + 1) = b * w + b
      BY <1>1, Monotone
    <2> QED
      BY <1>1, <2>1
  <1>3. ~(q + 1 <= w)
    <2> SUFFICES ASSUME q + 1 <= w PROVE FALSE
      OBVIOUS
    <2>1. b * (q + 1) <= b * w /\ b * (q + 1) = b * q + b
      BY <1>1, Monotone
    <2> QED
      BY <1>1, <2>1
  <1>4. q = w
    BY <1>1, <1>2, <1>3
  <1>5. b * q \in Int
    BY <1>1
  <1>6. e = r
    BY <1>1, <1>4, <1>5
  <1>7. ~(w + 1 <= 0)
    <2> SUFFICES ASSUME w + 1 <= 0 PROVE FALSE
      OBVIOUS
    <2>1. b * (w + 1) <= b * 0 /\ b * (w + 1) = b * w + b /\ b * 0 = 0
      BY Monotone
    <2> QED
      BY <2>1
  <1> QED
    BY <1>4, <1>6, <1>7 DEF q, e

LEMMA SignedRange ==
  ASSUME NEW v \in Int, NEW sz \in Size PROVE Signed(v, sz) \in -MSB[sz] .. MSB[sz] - 1
  <1>1. Low(v, sz) \in 0 .. Top(sz) - 1 /\ MSB[sz] \in Nat \ {0} /\ Top(sz) = 2 * MSB[sz]
    BY LowOK, Positive DEF Top
  <1> QED
    BY <1>1 DEF Signed, Neg

LEMMA SignedOfLow ==
  ASSUME NEW sz \in Size, NEW p \in -MSB[sz] .. MSB[sz] - 1
  PROVE  Signed(Low(p, sz), sz) = p /\ Signed(p, sz) = p
  <1> DEFINE M == MSB[sz]
             T == Top(sz)
             l == Low(p, sz)
  <1>1. M \in Nat \ {0} /\ T = 2 * M /\ p \in Int
    BY Positive DEF Top
  <1>2. l = IF p < 0 THEN p + T ELSE p
    <2>1. p \in -T .. T - 1
      BY <1>1
    <2> QED
      BY <1>1, <2>1, LowDifference
  <1>3. l \in 0 .. T - 1
    BY <1>1, <1>2
  <1>4. Low(l, sz) = l
    BY <1>3, LowSame
  <1>5. Signed(p, sz) = IF l >= M THEN l - T ELSE l
    BY DEF Signed, Neg
  <1>6. Signed(l, sz) = IF l >= M THEN l - T ELSE l
    BY <1>4 DEF Signed, Neg
  <1> QED
    BY <1>1, <1>2, <1>3, <1>5, <1>6

LEMMA SignedLow ==
  ASSUME NEW v \in Int, NEW sz \in Size PROVE Signed(Low(v, sz), sz) = Signed(v, sz)
  <1>1. Low(Low(v, sz), sz) = Low(v, sz)
    BY LowOK, LowSame
  <1> QED
    BY <1>1 DEF Signed, Neg

LEMMA SignedZero == ASSUME NEW v \in Int PROVE Low(v, 2) = 0 <=> Signed(v, 2) = 0
  <1> DEFINE l == Low(v, 2)
             M == MSB[2]
             T == Top(2)
  <1>1. l \in 0 .. T - 1 /\ M \in Nat \ {0} /\ T = 2 * M
    BY LowOK, Positive DEF Size, Top
  <1>2. Signed(v, 2) = IF l >= M THEN l - T ELSE l
    BY DEF Signed, Neg
  <1> HIDE DEF l, M, T
  <1> QED
    BY <1>1, <1>2 DEF l

\* A long holds twice as many numbers as the square of the words' half.
LEMMA LongOfWord == /\ MSB[4] = 2 * (MSB[2] * MSB[2]) /\ MSB[2] \in Nat \ {0} /\ MSB[4] \in Nat \ {0}
                    /\ MSB[2] <= MSB[2] * MSB[2] /\ Top(2) = 2 * MSB[2] /\ Top(4) = 2 * MSB[4]
                    /\ Top(4) = Top(2) * Top(2)
  <1> DEFINE m == MSB[2]
             l == MSB[4]
  <1>1. m \in Nat \ {0} /\ l \in Nat \ {0} /\ Top(2) = 2 * m /\ Top(4) = 2 * l
    BY Positive DEF Top, Size
  <1>2. 2 * l = (2 * m) * (2 * m)
    BY <1>1, Tops
  <1> HIDE DEF m, l
  <1>3. (2 * m) * (2 * m) = 4 * (m * m) /\ m * m \in Nat /\ m <= m * m
    <2>1. m * 1 <= m * m
      BY <1>1, Monotone
    <2> QED
      BY <1>1, <2>1
  <1>4. l = 2 * (m * m)
    BY <1>1, <1>2, <1>3
  <1> QED
    BY <1>1, <1>3, <1>4, Tops DEF m, l

\* No product of two words wraps a long.
LEMMA ProductsExact ==
  ASSUME NEW s \in Int, NEW d \in Int, NEW ccr
  PROVE  /\ Low(Low(mulu(ccr, Low(s, 2), d).v, 4), 4) = Low(s, 2) * Low(d, 2)
         /\ Signed(Low(muls(ccr, Low(s, 2), d).v, 4), 4) = Signed(s, 2) * Signed(d, 2)
  <1> DEFINE m == MSB[2]
             l == MSB[4]
             u == Low(s, 2)
             v == Low(d, 2)
             x == Signed(s, 2)
             y == Signed(d, 2)
             z == 2
             w == 4
  <1>0. z \in Size /\ w \in Size
    BY DEF Size
  <1>1. m \in Nat \ {0} /\ l = 2 * (m * m) /\ Top(2) = 2 * m /\ Top(4) = 2 * l
    BY LongOfWord
  <1>2. u \in 0 .. Top(2) - 1 /\ v \in 0 .. Top(2) - 1
    BY <1>0, LowOK
  <1>3. x \in -m .. m - 1 /\ y \in -m .. m - 1
    BY <1>0, SignedRange
  <1>4. mulu(ccr, u, d).v = Low(u * v, 4) /\ muls(ccr, u, d).v = Low(x * y, 4)
    BY <1>0, SignedLow DEF mulu, muls
  <1> HIDE DEF m, l, u, v, x, y, z, w
  <1>5. u * v \in 0 .. Top(4) - 1
    <2>1. u \in 0 .. 2 * m - 1 /\ v \in 0 .. 2 * m - 1
      BY <1>1, <1>2
    <2>2. u * v <= u * (2 * m - 1) /\ (2 * m - 1) * u <= (2 * m - 1) * (2 * m - 1)
      BY <1>1, <2>1, Monotone
    <2>3. /\ u * (2 * m - 1) = (2 * m - 1) * u /\ u * v \in Int /\ m * m \in Int
          /\ (2 * m - 1) * (2 * m - 1) = 4 * (m * m) - 4 * m + 1
      BY <1>1, <2>1
    <2>4. 0 <= u * v
      <3>1. u * 0 <= u * v /\ u * 0 = 0
        BY <2>1, Monotone
      <3> QED
        BY <3>1
    <2> QED
      BY <1>1, <2>1, <2>2, <2>3, <2>4
  <1>6. x * y \in -l .. l - 1
    <2>1. -(m * m) <= x * y /\ x * y <= m * m
      <3> DEFINE a == IF x < 0 THEN -x ELSE x
                 b == IF y < 0 THEN -y ELSE y
      <3>1. a \in 0 .. m /\ b \in 0 .. m /\ x \in Int /\ y \in Int
        BY <1>1, <1>3
      <3>2. (x = a \/ x = -a) /\ (y = b \/ y = -b)
        BY <1>1, <1>3
      <3> HIDE DEF a, b
      <3>5. x * y = a * b \/ x * y = -(a * b)
        <4>1. (-a) * b = -(a * b) /\ a * (-b) = -(a * b) /\ (-a) * (-b) = a * b
          BY <3>1
        <4> QED
          BY <3>2, <4>1
      <3>3. a * b <= a * m /\ m * a <= m * m /\ a * 0 <= a * b
        BY <1>1, <3>1, Monotone
      <3>4. a * m = m * a /\ a * 0 = 0 /\ a * b \in Int /\ m * m \in Int /\ x * y \in Int
        BY <1>1, <3>1
      <3>6. 0 <= a * b /\ a * b <= m * m
        BY <1>1, <3>1, <3>3, <3>4
      <3> QED
        BY <1>1, <3>1, <3>4, <3>5, <3>6
    <2>2. m * m \in Nat /\ 1 <= m * m /\ x * y \in Int
      <3>1. m * 1 <= m * m
        BY <1>1, Monotone
      <3> QED
        BY <1>1, <1>3, <3>1
    <2> QED
      BY <1>1, <2>1, <2>2
  <1> DEFINE p == u * v
             n == x * y
  <1>7. Low(p, w) = p
    BY <1>0, <1>5, LowSame DEF w
  <1>8. Low(Low(n, w), w) = Low(n, w)
    <2>1. n \in Int
      BY <1>1, <1>3
    <2> HIDE DEF n
    <2> QED
      BY <1>0, <2>1, LowOK, LowSame
  <1>9. Signed(Low(n, w), w) = n
    <2>1. n \in -MSB[w] .. MSB[w] - 1
      BY <1>6 DEF l, w
    <2> HIDE DEF n
    <2> QED
      BY <1>0, <2>1, SignedOfLow
  <1> QED
    BY <1>4, <1>7, <1>8, <1>9 DEF u, v, x, y, w

\* Truncated division: the quotient and remainder that Go's operators give are
\* the only ones whose remainder is smaller than the divisor and has the sign of
\* the dividend.
Truncates(n, m, q, r) ==
  n = m * q + r /\ Magnitude(r) < Magnitude(m) /\ (r = 0 \/ (r < 0) = (n < 0))

LEMMA QuoRem ==
  ASSUME NEW n \in Int, NEW m \in Int, m # 0
  PROVE  /\ Quo(n, m) \in Int /\ Rem(n, m) \in Int /\ Truncates(n, m, Quo(n, m), Rem(n, m))
         /\ Magnitude(Quo(n, m)) <= Magnitude(n)
  <1> DEFINE a == Magnitude(n)
             b == Magnitude(m)
             q == a \div b
             e == a % b
  <1>1. a \in Nat /\ b \in Nat \ {0}
    BY DEF Magnitude
  <1>2. /\ n = IF n < 0 THEN -a ELSE a
        /\ m = IF m < 0 THEN -b ELSE b
    BY DEF Magnitude
  <1>3. Quo(n, m) = (IF (n < 0) = (m < 0) THEN q ELSE -q) /\ Rem(n, m) = n - m * Quo(n, m)
    BY DEF Quo, Rem
  <1>4. q \in Nat /\ e \in 0 .. b - 1 /\ a = b * q + e
    <2> HIDE DEF a, b
    <2>1. q \in Int /\ e \in 0 .. b - 1 /\ a = b * q + e
      BY <1>1
    <2> HIDE DEF q, e
    <2> QED
      BY <1>1, <2>1, DivisionUnique
  <1> HIDE DEF a, b, q, e
  <1>5. q <= a
    <2>1. q * 1 <= q * b /\ q * b = b * q /\ b * q \in Int
      BY <1>1, <1>4, Monotone
    <2> QED
      BY <1>1, <1>4, <2>1
  <1>6. Quo(n, m) \in Int /\ m * Quo(n, m) = (IF n < 0 THEN -(b * q) ELSE b * q) /\ b * q \in Int
    <2>1. Quo(n, m) \in Int /\ b * q \in Int
      BY <1>1, <1>3, <1>4
    <2>2. CASE n < 0 /\ m < 0
      <3>1. Quo(n, m) = q /\ m = -b
        BY <1>2, <1>3, <2>2
      <3> QED
        BY <1>1, <1>4, <2>1, <2>2, <3>1
    <2>3. CASE n < 0 /\ ~(m < 0)
      <3>1. Quo(n, m) = -q /\ m = b
        BY <1>2, <1>3, <2>3
      <3> QED
        BY <1>1, <1>4, <2>1, <2>3, <3>1
    <2>4. CASE ~(n < 0) /\ m < 0
      <3>1. Quo(n, m) = -q /\ m = -b
        BY <1>2, <1>3, <2>4
      <3> QED
        BY <1>1, <1>4, <2>1, <2>4, <3>1
    <2>5. CASE ~(n < 0) /\ ~(m < 0)
      <3>1. Quo(n, m) = q /\ m = b
        BY <1>2, <1>3, <2>5
      <3> QED
        BY <1>1, <1>4, <2>1, <2>5, <3>1
    <2> QED
      BY <2>2, <2>3, <2>4, <2>5
  <1>7. Rem(n, m) = IF n < 0 THEN -e ELSE e
    BY <1>1, <1>2, <1>3, <1>4, <1>6
  <1>8. Magnitude(Rem(n, m)) = e /\ Magnitude(Quo(n, m)) = q /\ Magnitude(m) = b /\ Magnitude(n) = a
    BY <1>1, <1>3, <1>4, <1>7 DEF Magnitude, a, b
  <1>9. n = m * Quo(n, m) + Rem(n, m) /\ Rem(n, m) \in Int
    BY <1>3, <1>4, <1>6, <1>7
  <1>10. Rem(n, m) = 0 \/ (Rem(n, m) < 0) = (n < 0)
    BY <1>4, <1>7
  <1> QED
    BY <1>1, <1>4, <1>5, <1>6, <1>8, <1>9, <1>10 DEF Truncates

LEMMA TruncatedUnique ==
  ASSUME NEW n \in Int, NEW m \in Int, m # 0, NEW q \in Int, NEW r \in Int, Truncates(n, m, q, r)
  PROVE  q = Quo(n, m)
  <1> DEFINE a == Magnitude(n)
             b == Magnitude(m)
             e == Magnitude(r)
             w == IF (n < 0) = (m < 0) THEN q ELSE -q
  <1>1. a \in Nat /\ b \in Nat \ {0} /\ e \in Nat /\ e < b /\ w \in Int
    BY DEF Magnitude, Truncates
  <1>2. /\ n = IF n < 0 THEN -a ELSE a
        /\ m = IF m < 0 THEN -b ELSE b
        /\ r = IF n < 0 THEN -e ELSE e
        /\ n = m * q + r
    BY DEF Magnitude, Truncates
  <1>3. q = IF (n < 0) = (m < 0) THEN w ELSE -w
    OBVIOUS
  <1>4. Quo(n, m) = IF (n < 0) = (m < 0) THEN a \div b ELSE -(a \div b)
    BY DEF Quo
  <1> HIDE DEF a, b, e, w
  <1>5. m * q = IF n < 0 THEN -(b * w) ELSE b * w
    <2>2. CASE n < 0 /\ m < 0
      <3>1. q = w /\ m = -b
        BY <1>2, <1>3, <2>2
      <3> QED
        BY <1>1, <2>2, <3>1
    <2>3. CASE n < 0 /\ ~(m < 0)
      <3>1. q = -w /\ m = b
        BY <1>2, <1>3, <2>3
      <3> QED
        BY <1>1, <2>3, <3>1
    <2>4. CASE ~(n < 0) /\ m < 0
      <3>1. q = -w /\ m = -b
        BY <1>2, <1>3, <2>4
      <3> QED
        BY <1>1, <2>4, <3>1
    <2>5. CASE ~(n < 0) /\ ~(m < 0)
      <3>1. q = w /\ m = b
        BY <1>2, <1>3, <2>5
      <3> QED
        BY <1>1, <2>5, <3>1
    <2> QED
      BY <2>2, <2>3, <2>4, <2>5
  <1>6. b * w \in Int /\ e \in 0 .. b - 1
    BY <1>1
  <1>7. a = b * w + e
    BY <1>1, <1>2, <1>5, <1>6
  <1>8. a \div b = w
    BY <1>1, <1>6, <1>7, DivisionUnique
  <1> QED
    BY <1>3, <1>4, <1>8

\* What a quotient and a remainder become in a register, and what V tells.
LEMMA PackedResult ==
  ASSUME NEW ccr, NEW q \in Int, NEW r \in Int
  PROVE  LET new == Low(divided(ccr, q, r).v, 4)
         IN /\ flagV \notin divided(ccr, q, r).f
            /\ Low(new, 2) = Low(q, 2) /\ new \div Top(2) = Low(r, 2) /\ new \in Int
  <1> DEFINE z == 2
             T == Top(z)
             x == Low(r, z)
             y == Low(q, z)
             v == x * T + y
  <1>1. z \in Size /\ T \in Nat \ {0} /\ x \in 0 .. T - 1 /\ y \in 0 .. T - 1 /\ Top(4) = T * T
    BY LongOfWord, LowOK, Positive DEF Size
  <1>2. divided(ccr, q, r).v = v /\ divided(ccr, q, r).f = setFlagsLogical(ccr, q, z)
    BY DEF divided
  <1>3. flagV \notin setFlagsLogical(ccr, q, z)
    BY DEF setFlagsLogical, Is, flagV, flagX, flagZ, flagN
  <1> HIDE DEF z, T, x, y
  <1>4. v \in 0 .. T * T - 1
    <2>1. T * (x + 1) <= T * T /\ T * 0 <= T * x /\ T * 0 = 0
      BY <1>1, Monotone
    <2>2. T * (x + 1) = x * T + T /\ T * x = x * T /\ x * T \in Int /\ T * T \in Int
      BY <1>1
    <2> QED
      BY <1>1, <2>1, <2>2
  <1>5. Low(v, 4) = v
    <2> DEFINE l == 4
    <2>1. l \in Size /\ v \in 0 .. Top(l) - 1
      BY <1>1, <1>4 DEF Size
    <2> HIDE DEF l, v
    <2>2. Low(v, l) = v
      BY <2>1, LowSame
    <2> QED
      BY <2>2 DEF l
  <1>6. v \div T = x /\ v % T = y
    <2>1. v \in Nat /\ v = T * x + y
      BY <1>1, <1>4
    <2> HIDE DEF v
    <2> QED
      BY <1>1, <2>1, DivisionUnique
  <1>7. Low(v, z) = y /\ v \in Int
    BY <1>1, <1>4, <1>6 DEF Low, T
  <1> HIDE DEF v
  <1> QED
    BY <1>2, <1>3, <1>5, <1>6, <1>7 DEF T, z, x, y

LEMMA KeptResult ==
  ASSUME NEW ccr, NEW d \in 0 .. Top(4) - 1
  PROVE  flagV \in divOverflow(ccr, d).f /\ Low(divOverflow(ccr, d).v, 4) = d
  <1> DEFINE l == 4
  <1>1. l \in Size
    BY DEF Size
  <1>2. divOverflow(ccr, d).v = d /\ flagV \in divOverflow(ccr, d).f
    BY DEF divOverflow
  <1>3. d \in 0 .. Top(l) - 1
    OBVIOUS
  <1> HIDE DEF l
  <1>4. Low(d, l) = d
    BY <1>1, <1>3, LowSame
  <1> QED
    BY <1>2, <1>4 DEF l

LEMMA DivuExact ==
  ASSUME NEW ccr, NEW s \in 1 .. Top(2) - 1, NEW d \in 0 .. Top(4) - 1
  PROVE  LET o == divu(ccr, s, d)
             new == Low(o.v, 4)
         IN IF flagV \notin o.f THEN Truncates(d, s, Low(new, 2), Low(new \div Top(2), 2))
            ELSE /\ new = d
                 /\ \A w \in 0 .. Top(2) - 1 : ~Truncates(d, s, Low(w, 2), d - s * Low(w, 2))
  <1> DEFINE T == Top(2)
             q == d \div s
             r == d % s
             o == divu(ccr, s, d)
             new == Low(o.v, 4)
  <1>1. T \in Nat \ {0} /\ s \in Nat \ {0} /\ d \in Nat /\ s < T
    BY LongOfWord
  <1>2. q \in Int /\ r \in 0 .. s - 1 /\ d = s * q + r
    BY <1>1
  <1>3. q \in Nat
    <2> HIDE DEF q, r
    <2> QED
      BY <1>1, <1>2, DivisionUnique
  <1>4. o = IF q >= T THEN divOverflow(ccr, d) ELSE divided(ccr, q, r)
    BY DEF divu
  <1>5. \A w \in 0 .. T - 1 : Low(w, 2) = w
    BY LowSame DEF Size
  <1>6. \A w \in Int : Truncates(d, s, w, d - s * w) => w = q
    <2> SUFFICES ASSUME NEW w \in Int, Truncates(d, s, w, d - s * w) PROVE w = q
      OBVIOUS
    <2> DEFINE e == d - s * w
    <2>1. e \in Int /\ s * w \in Int
      BY <1>1
    <2>2. d = s * w + e
      BY <1>1, <2>1
    <2>3. Magnitude(e) < Magnitude(s) /\ (e = 0 \/ (e < 0) = (d < 0))
      BY DEF Truncates
    <2> HIDE DEF e
    <2>4. e \in 0 .. s - 1
      BY <1>1, <2>1, <2>3 DEF Magnitude
    <2> QED
      BY <1>1, <2>2, <2>4, DivisionUnique
  <1>7. Truncates(d, s, q, r)
    BY <1>1, <1>2 DEF Truncates, Magnitude
  <1> HIDE DEF q, r, T, o
  <1>8. CASE q >= T
    <2>1. flagV \in o.f /\ new = d
      BY <1>4, <1>8, KeptResult
    <2>2. \A w \in 0 .. T - 1 : ~Truncates(d, s, w, d - s * w)
      BY <1>1, <1>3, <1>6, <1>8
    <2> QED
      BY <1>5, <2>1, <2>2 DEF T, o
  <1>9. CASE ~(q >= T)
    <2>1. q \in 0 .. T - 1 /\ r \in 0 .. T - 1 /\ r \in Int
      BY <1>1, <1>2, <1>3, <1>9
    <2>2. o = divided(ccr, q, r)
      BY <1>4, <1>9
    <2>3. flagV \notin o.f /\ Low(new, 2) = Low(q, 2) /\ new \div T = Low(r, 2)
      BY <2>1, <2>2, PackedResult DEF T
    <2>4. Low(q, 2) = q /\ Low(r, 2) = r
      BY <1>5, <2>1
    <2> QED
      BY <1>7, <2>3, <2>4 DEF T, o
  <1> QED
    BY <1>8, <1>9

LEMMA SignedSame ==
  ASSUME NEW a \in Int, NEW b \in Int, NEW sz \in Size, Low(a, sz) = Low(b, sz)
  PROVE  Signed(a, sz) = Signed(b, sz)
  BY DEF Signed, Neg

LEMMA DivsExact ==
  ASSUME NEW ccr, NEW s \in 1 .. Top(2) - 1, NEW d \in 0 .. Top(4) - 1
  PROVE  LET o == divs(ccr, s, d)
             new == Low(o.v, 4)
             n == Signed(d, 4)
             m == Signed(s, 2)
         IN IF flagV \notin o.f THEN Truncates(n, m, Signed(new, 2), Signed(new \div Top(2), 2))
            ELSE /\ new = d
                 /\ \A w \in 0 .. Top(2) - 1 : ~Truncates(n, m, Signed(w, 2), n - m * Signed(w, 2))
  <1> DEFINE z == 2
             l == 4
             M == MSB[z]
             L == MSB[l]
             n == Signed(d, l)
             m == Signed(s, z)
             p == Quo(n, m)
             q == Signed(p, l)
             r == Rem(n, m)
             o == divs(ccr, s, d)
             new == Low(o.v, l)
  <1>1. z \in Size /\ l \in Size
    BY DEF Size
  <1>2. M \in Nat \ {0} /\ L \in Nat \ {0} /\ M < L /\ Top(z) = 2 * M /\ Top(l) = 2 * L
    <2>1. M * M \in Int
      BY LongOfWord
    <2> QED
      BY <2>1, LongOfWord
  <1>3. s \in Int /\ d \in Int
    BY <1>2
  <1>4. o = IF q >= M \/ q < -M THEN divOverflow(ccr, d) ELSE divided(ccr, q, r)
    BY DEF divs
  <1> HIDE DEF z, l
  <1>5. n \in -L .. L - 1 /\ m \in -M .. M - 1 /\ n \in Int /\ m \in Int
    <2>1. n \in -L .. L - 1 /\ m \in -M .. M - 1
      BY <1>1, <1>3, SignedRange
    <2> HIDE DEF n, m
    <2> QED
      BY <1>2, <2>1
  <1>6. m # 0
    <2>1. s \in 0 .. Top(z) - 1
      BY <1>2 DEF z
    <2>2. Low(s, z) = s
      BY <1>1, <2>1, LowSame
    <2> QED
      BY <1>2, <2>1, <2>2 DEF Signed, z
  <1> HIDE DEF n, m
  <1>7. p \in Int /\ r \in Int /\ Truncates(n, m, p, r) /\ Magnitude(p) <= Magnitude(n)
    BY <1>5, <1>6, QuoRem, Zenon
  <1> HIDE DEF p, r
  <1>8. q \in -L .. L - 1 /\ q \in Int
    <2>1. q \in -L .. L - 1
      BY <1>1, <1>7, SignedRange
    <2> HIDE DEF q
    <2> QED
      BY <1>2, <2>1
  <1>9. p \in -M .. M - 1 => q = p
    <2> SUFFICES ASSUME p \in -M .. M - 1 PROVE q = p
      OBVIOUS
    <2>1. p \in -L .. L - 1
      BY <1>2
    <2> QED
      BY <1>1, <2>1, SignedOfLow
  <1>10. q \in -M .. M - 1 => q = p
    <2> SUFFICES ASSUME q \in -M .. M - 1 PROVE q = p
      OBVIOUS
    <2>1. p \in -L .. L
      BY <1>2, <1>5, <1>7 DEF Magnitude
    <2>2. p # L
      <3> SUFFICES ASSUME p = L PROVE FALSE
        OBVIOUS
      <3>1. p \in 0 .. Top(l) - 1
        BY <1>2
      <3>2. Low(p, l) = p
        BY <1>1, <3>1, LowSame
      <3>3. q = L - Top(l)
        BY <1>2, <3>2 DEF Signed, Neg
      <3> QED
        BY <1>2, <3>3
    <2>3. p \in -L .. L - 1
      BY <1>2, <2>1, <2>2
    <2> QED
      BY <1>1, <2>3, SignedOfLow
  <1>11. \A w \in 0 .. Top(z) - 1 : Signed(w, z) \in -M .. M - 1
    BY <1>1, <1>2, SignedRange
  <1>12. \A w \in -M .. M - 1 : Truncates(n, m, w, n - m * w) => w = p
    <2> SUFFICES ASSUME NEW w \in -M .. M - 1, Truncates(n, m, w, n - m * w) PROVE w = p
      OBVIOUS
    <2> DEFINE e == n - m * w
    <2>1. w \in Int /\ e \in Int /\ Truncates(n, m, w, e)
      BY <1>2, <1>5
    <2> HIDE DEF e
    <2> QED
      BY <1>5, <1>6, <2>1, TruncatedUnique, Zenon DEF p
  <1> HIDE DEF q, o, M, L
  <1>13. CASE q >= M \/ q < -M
    <2>1. flagV \in o.f /\ new = d
      BY <1>4, <1>13, KeptResult DEF l
    <2>2. \A w \in -M .. M - 1 : ~Truncates(n, m, w, n - m * w)
      BY <1>2, <1>8, <1>9, <1>12, <1>13
    <2>3. \A w \in 0 .. Top(z) - 1 : ~Truncates(n, m, Signed(w, z), n - m * Signed(w, z))
      BY <1>11, <2>2
    <2> QED
      BY <2>1, <2>3 DEF z, l, o, n, m
  <1>14. CASE ~(q >= M \/ q < -M)
    <2>1. q \in -M .. M - 1 /\ q = p
      BY <1>2, <1>8, <1>10, <1>14
    <2>2. r \in -M .. M - 1
      BY <1>2, <1>5, <1>7 DEF Truncates, Magnitude
    <2>3. o = divided(ccr, q, r)
      BY <1>4, <1>14
    <2>4. flagV \notin o.f /\ Low(new, z) = Low(q, z) /\ new \div Top(z) = Low(r, z) /\ new \in Int
      BY <1>7, <1>8, <2>3, PackedResult DEF z, l
    <2> HIDE DEF new
    <2>5. Signed(new, z) = Signed(q, z)
      BY <1>1, <1>8, <2>4, SignedSame
    <2>6. Signed(q, z) = q /\ Signed(Low(r, z), z) = r
      BY <1>1, <2>1, <2>2, SignedOfLow DEF M
    <2>7. Truncates(n, m, Signed(new, z), Signed(new \div Top(z), z))
      BY <1>7, <2>1, <2>4, <2>5, <2>6
    <2> QED
      BY <2>4, <2>7 DEF z, l, o, n, m, new
  <1> QED
    BY <1>13, <1>14

-----------------------------------------------------------------------------
(***************************************************************************)
(* The state of the CPU, and what an operand's access may do to it: it     *)
(* leaves data registers and memory alone, keeps an even A7 even, and      *)
(* takes at most n cycles on the bus, four a word, and k extension words.  *)
(***************************************************************************)
Registers == [0 .. 7 -> Register]

State ==
  [D : Registers, A : Registers, pc : Register, ccr : SUBSET CCRBits, mem : Memory, ext : Seq(Word),
   halted : BOOLEAN, trap : {0, 5, 6}, cycles : Nat, bus : Nat]

Accesses(c, d, n, k) ==
  /\ d \in State
  /\ d.D = c.D /\ d.mem = c.mem /\ d.trap = c.trap /\ d.cycles = c.cycles
  /\ Even(c.A[7]) => Even(d.A[7])
  /\ 4 * d.bus <= 4 * c.bus + n
  /\ Len(d.ext) >= Len(c.ext) - k

LEMMA RegisterRange == Register = 0 .. Top(4) - 1 /\ Top(4) \in Nat \ {0} /\ 0 \in Register
  BY Positive DEF Register, Size

LEMMA LowRegister == ASSUME NEW v \in Int PROVE Low(v, 4) \in Register
  BY LowOK DEF Register, Size

LEMMA StateFields ==
  ASSUME NEW c \in State
  PROVE  /\ c.D \in Registers /\ c.A \in Registers /\ c.mem \in Memory /\ c.ccr \subseteq CCRBits
         /\ c.bus \in Nat /\ c.cycles \in Nat /\ c.ext \in Seq(Word) /\ Len(c.ext) \in Nat
         /\ c.pc \in Register /\ c.pc \in Int
         /\ \A r \in 0 .. 7 : c.D[r] \in Register /\ c.D[r] \in Int /\ c.A[r] \in Register /\ c.A[r] \in Int
  <1>1. /\ c.D \in Registers /\ c.A \in Registers /\ c.mem \in Memory /\ c.ccr \subseteq CCRBits
        /\ c.bus \in Nat /\ c.cycles \in Nat /\ c.ext \in Seq(Word) /\ c.pc \in Register
    BY DEF State
  <1>2. Register \subseteq Int
    BY RegisterRange
  <1>3. Len(c.ext) \in Nat
    BY <1>1
  <1> QED
    BY <1>1, <1>2, <1>3, Zenon DEF Registers

LEMMA AccessesNothing == ASSUME NEW c \in State, NEW n \in Nat, NEW k \in Nat PROVE Accesses(c, c, n, k)
  <1>1. c.bus \in Nat /\ Len(c.ext) \in Nat
    BY DEF State
  <1> QED
    BY <1>1 DEF Accesses

LEMMA AccessesTwice ==
  ASSUME NEW c \in State, NEW d, NEW e, NEW n \in Nat, NEW k \in Nat, NEW m \in Nat, NEW l \in Nat,
         Accesses(c, d, n, k), Accesses(d, e, m, l)
  PROVE  Accesses(c, e, n + m, k + l)
  <1>1. d \in State /\ e \in State
    BY DEF Accesses
  <1>2. 4 * e.bus <= 4 * c.bus + (n + m)
    <2>1. c.bus \in Nat /\ d.bus \in Nat /\ e.bus \in Nat
      BY <1>1, StateFields
    <2>2. 4 * d.bus <= 4 * c.bus + n /\ 4 * e.bus <= 4 * d.bus + m
      BY DEF Accesses
    <2> QED
      BY <2>1, <2>2
  <1>3. Len(e.ext) >= Len(c.ext) - (k + l)
    <2>1. Len(c.ext) \in Nat /\ Len(d.ext) \in Nat /\ Len(e.ext) \in Nat
      BY <1>1, StateFields
    <2>2. Len(d.ext) >= Len(c.ext) - k /\ Len(e.ext) >= Len(d.ext) - l
      BY DEF Accesses
    <2> QED
      BY <2>1, <2>2
  <1> QED
    BY <1>1, <1>2, <1>3 DEF Accesses

LEMMA ByteOK == ASSUME NEW mem \in Memory, NEW a \in Int PROVE mem[a % BusMod] \in 0 .. Top(1) - 1
  <1>1. a % BusMod \in 0 .. BusMod - 1
    BY Sizes DEF Sizes
  <1> QED
    BY <1>1 DEF Memory

LEMMA BusReadOK ==
  ASSUME NEW mem \in Memory, NEW a \in Int, NEW sz \in Size
  PROVE  BusRead(mem, a, sz) \in 0 .. Top(sz) - 1
  <1> DEFINE byte(k) == mem[(a + k) % BusMod]
             word(k) == byte(k) * Top(1) + byte(k + 1)
  <1>1. Top(1) \in Nat \ {0} /\ Top(2) \in Nat \ {0}
    BY Positive DEF Size
  <1>2. \A k \in Int : byte(k) \in 0 .. Top(1) - 1
    BY ByteOK
  <1>3. \A k \in Int : word(k) \in 0 .. Top(2) - 1
    <2> HIDE DEF byte
    <2> SUFFICES ASSUME NEW k \in Int PROVE word(k) \in 0 .. Top(2) - 1
      OBVIOUS
    <2>1. byte(k) \in 0 .. Top(1) - 1 /\ byte(k + 1) \in 0 .. Top(1) - 1
      BY <1>2
    <2> QED
      BY <1>1, <2>1, Tops, TwoLimbs, Zenon
  <1>4. word(0) * Top(2) + word(2) \in 0 .. Top(4) - 1
    <2> HIDE DEF word
    <2> QED
      BY <1>1, <1>3, Tops, TwoLimbs
  <1>5. BusRead(mem, a, sz) = CASE sz = 1 -> byte(0)
                                [] sz = 2 -> word(0)
                                [] sz = 4 -> word(0) * Top(2) + word(2)
    BY DEF BusRead
  <1> HIDE DEF byte, word
  <1> QED
    BY <1>2, <1>3, <1>4, <1>5 DEF Size

LEMMA readBusOK ==
  ASSUME NEW c \in State, NEW sz \in Size, NEW a \in Int
  PROVE  LET r == readBus(c, sz, a)
         IN /\ Accesses(c, r.c, 4 * Words(sz), 0) /\ r.c.ext = c.ext /\ r.c.A = c.A /\ r.c.ccr = c.ccr
            /\ r.v \in 0 .. Top(sz) - 1
  <1> DEFINE r == readBus(c, sz, a)
             e == BusRead(c.mem, a % BusMod, sz)
  <1>1. Words(sz) \in Nat /\ Top(sz) \in Nat \ {0}
    BY Positive DEF Words, Size
  <1>2. c.bus \in Nat /\ c.mem \in Memory /\ Len(c.ext) \in Nat /\ a % BusMod \in Int
    BY Sizes DEF Sizes, State
  <1>3. e \in 0 .. Top(sz) - 1
    BY <1>2, BusReadOK
  <1> HIDE DEF e
  <1>4. CASE r = At(c, 0)
    BY <1>1, <1>3, <1>4, AccessesNothing DEF At
  <1>5. CASE r = At([c EXCEPT !.halted = TRUE], 0)
    <2> DEFINE d == [c EXCEPT !.halted = TRUE]
    <2>1. /\ d \in State /\ d.D = c.D /\ d.A = c.A /\ d.mem = c.mem /\ d.trap = c.trap
          /\ d.cycles = c.cycles /\ d.ext = c.ext /\ d.ccr = c.ccr /\ d.bus = c.bus
      BY Zenon DEF State
    <2>2. r.c = d /\ r.v = 0
      BY <1>5 DEF At
    <2> HIDE DEF d
    <2> QED
      BY <1>1, <1>2, <2>1, <2>2 DEF Accesses
  <1>6. CASE r = At([c EXCEPT !.bus = @ + Words(sz)], e)
    <2> DEFINE d == [c EXCEPT !.bus = @ + Words(sz)]
    <2>1. /\ d \in State /\ d.D = c.D /\ d.A = c.A /\ d.mem = c.mem /\ d.trap = c.trap
          /\ d.cycles = c.cycles /\ d.ext = c.ext /\ d.ccr = c.ccr /\ d.bus = c.bus + Words(sz)
      BY <1>1, <1>2 DEF State
    <2>2. r.c = d /\ r.v = e
      BY <1>6 DEF At
    <2> HIDE DEF d, e
    <2>3. 4 * d.bus <= 4 * c.bus + 4 * Words(sz) /\ Len(d.ext) >= Len(c.ext) - 0
      BY <1>1, <1>2, <2>1
    <2>4. Accesses(c, d, 4 * Words(sz), 0)
      BY <2>1, <2>3 DEF Accesses
    <2> QED
      BY <1>3, <2>1, <2>2, <2>4
  <1> QED
    BY <1>4, <1>5, <1>6 DEF readBus, e

\* The instruction stream.
Follows(c, d) == d.halted = c.halted /\ d.A = c.A /\ d.ccr = c.ccr

LEMMA fetchPCOK ==
  ASSUME NEW c \in State, Len(c.ext) >= 1
  PROVE  LET f == fetchPC(c)
         IN Accesses(c, f.c, 4, 1) /\ Follows(c, f.c) /\ f.v \in Word
  <1> DEFINE f == fetchPC(c)
  <1>1. c.bus \in Nat /\ c.pc \in Int /\ c.ext \in Seq(Word) /\ Len(c.ext) \in Nat
    BY RegisterRange DEF State
  <1>2. Low(c.pc + 2, 4) \in Register /\ 0 \in Word
    BY <1>1, LowRegister, Positive DEF Word, Size
  <1>3. Head(c.ext) \in Word /\ Tail(c.ext) \in Seq(Word) /\ Len(Tail(c.ext)) = Len(c.ext) - 1
    BY <1>1
  <1>4. CASE c.halted
    <2> DEFINE d == [c EXCEPT !.pc = Low(@ + 2, 4)]
    <2>1. /\ d \in State /\ d.D = c.D /\ d.A = c.A /\ d.mem = c.mem /\ d.trap = c.trap
          /\ d.cycles = c.cycles /\ d.ext = c.ext /\ d.ccr = c.ccr /\ d.bus = c.bus
          /\ d.halted = c.halted
      BY <1>2 DEF State
    <2>2. f.c = d /\ f.v = 0
      BY <1>4 DEF At, fetchPC
    <2> HIDE DEF d
    <2>3. 4 * d.bus <= 4 * c.bus + 4 /\ Len(d.ext) >= Len(c.ext) - 1
      BY <1>1, <2>1
    <2> QED
      BY <1>2, <2>1, <2>2, <2>3 DEF Accesses, Follows
  <1>5. CASE ~c.halted
    <2> DEFINE d == [c EXCEPT !.pc = Low(@ + 2, 4), !.ext = Tail(@), !.bus = @ + 1]
    <2>1. d \in State
      <3>1. c.bus + 1 \in Nat
        BY <1>1
      <3> QED
        BY <1>2, <1>3, <3>1, ZenonT(60) DEF State
    <2>2. /\ d.D = c.D /\ d.A = c.A /\ d.mem = c.mem /\ d.trap = c.trap
          /\ d.cycles = c.cycles /\ d.ext = Tail(c.ext) /\ d.ccr = c.ccr /\ d.bus = c.bus + 1
          /\ d.halted = c.halted
      BY DEF State
    <2>3. f.c = d /\ f.v = Head(c.ext)
      BY <1>5 DEF At, fetchPC
    <2> HIDE DEF d
    <2>4. 4 * d.bus <= 4 * c.bus + 4 /\ Len(d.ext) >= Len(c.ext) - 1
      BY <1>1, <1>3, <2>2
    <2> QED
      BY <1>3, <2>1, <2>2, <2>3, <2>4, Zenon DEF Accesses, Follows
  <1> QED
    BY <1>4, <1>5

LEMMA fetchPCLongOK ==
  ASSUME NEW c \in State, Len(c.ext) >= 2
  PROVE  LET f == fetchPCLong(c)
         IN Accesses(c, f.c, 8, 2) /\ Follows(c, f.c) /\ f.v \in Register
  <1> DEFINE hi == fetchPC(c)
             lo == fetchPC(hi.c)
  <1>1. Accesses(c, hi.c, 4, 1) /\ Follows(c, hi.c) /\ hi.v \in Word
    BY fetchPCOK DEF State
  <1>2. hi.c \in State /\ Len(hi.c.ext) >= 1
    BY <1>1 DEF Accesses, State
  <1> HIDE DEF hi
  <1>3. Accesses(hi.c, lo.c, 4, 1) /\ Follows(hi.c, lo.c) /\ lo.v \in Word
    BY <1>2, fetchPCOK
  <1> HIDE DEF lo
  <1>4. Accesses(c, lo.c, 4 + 4, 1 + 1)
    BY <1>1, <1>3, AccessesTwice
  <1>5. hi.v * Top(2) + lo.v \in Register
    BY <1>1, <1>3, Tops, TwoLimbs, Positive, Zenon DEF Word, Register, Size
  <1>6. fetchPCLong(c) = At(lo.c, hi.v * Top(2) + lo.v)
    BY DEF fetchPCLong, hi, lo
  <1> QED
    BY <1>1, <1>3, <1>4, <1>5, <1>6 DEF At, Follows

LEMMA fetchImmOK ==
  ASSUME NEW c \in State, Len(c.ext) >= 2, NEW sz \in Size
  PROVE  LET f == fetchImm(c, sz)
         IN /\ Accesses(c, f.c, 4 * Words(sz), 2) /\ Follows(c, f.c)
            /\ f.v \in 0 .. Top(sz) - 1
  <1> DEFINE f == fetchPC(c)
  <1>1. CASE sz = 4
    BY <1>1, fetchPCLongOK DEF fetchImm, Words, Register
  <1>2. CASE sz # 4
    <2>1. Accesses(c, f.c, 4, 1) /\ Follows(c, f.c) /\ f.v \in Int
      <3>1. Len(c.ext) >= 1
        BY StateFields
      <3> QED
        BY <3>1, fetchPCOK, Positive DEF Word, Size
    <2> HIDE DEF f
    <2>2. Accesses(f.c, f.c, 0, 1)
      BY <2>1, AccessesNothing DEF Accesses
    <2>3. Accesses(c, f.c, 4 + 0, 1 + 1)
      BY <2>1, <2>2, AccessesTwice
    <2>4. fetchImm(c, sz) = At(f.c, Low(f.v, sz)) /\ Words(sz) = 1
      BY <1>2 DEF fetchImm, Words, f
    <2> QED
      BY <2>1, <2>3, <2>4, LowOK DEF At
  <1> QED
    BY <1>1, <1>2

LEMMA setAOK ==
  ASSUME NEW c \in State, NEW r \in 0 .. 7, NEW v \in Int
  PROVE  LET d == setA(c, r, v)
         IN /\ d \in State /\ d.D = c.D /\ d.mem = c.mem /\ d.trap = c.trap /\ d.cycles = c.cycles
            /\ d.ext = c.ext /\ d.ccr = c.ccr /\ d.bus = c.bus /\ d.halted = c.halted /\ d.pc = c.pc
            /\ d.A[r] = Low(v, 4) /\ \A q \in 0 .. 7 : q # r => d.A[q] = c.A[q]
  <1> DEFINE A == [c.A EXCEPT ![r] = Low(v, 4)]
             d == [c EXCEPT !.A = A]
  <1>1. c.A \in Registers /\ A \in Registers
    BY StateFields, LowRegister DEF Registers
  <1>2. A[r] = Low(v, 4) /\ \A q \in 0 .. 7 : q # r => A[q] = c.A[q]
    BY <1>1 DEF Registers
  <1>3. setA(c, r, v) = d
    BY DEF setA, State
  <1> HIDE DEF A
  <1>4. /\ d \in State /\ d.D = c.D /\ d.mem = c.mem /\ d.trap = c.trap /\ d.cycles = c.cycles
        /\ d.ext = c.ext /\ d.ccr = c.ccr /\ d.bus = c.bus /\ d.halted = c.halted /\ d.pc = c.pc
        /\ d.A = A
    BY <1>1 DEF State
  <1> QED
    BY <1>2, <1>3, <1>4

\* Moving an address register by the size of an operand.
LEMMA StepOK ==
  ASSUME NEW c \in State, NEW reg \in 0 .. 7, NEW k \in Int, reg = 7 => Even(k)
  PROVE  LET d == setA(c, reg, c.A[reg] + k)
         IN /\ Accesses(c, d, 0, 0) /\ d.halted = c.halted /\ d.ccr = c.ccr
            /\ d.A[reg] = Low(c.A[reg] + k, 4) /\ d.A[reg] \in Register
  <1> DEFINE d == setA(c, reg, c.A[reg] + k)
  <1>1. c.A[reg] \in Int /\ c.A[reg] + k \in Int
    BY StateFields
  <1>2. /\ d \in State /\ d.D = c.D /\ d.mem = c.mem /\ d.trap = c.trap /\ d.cycles = c.cycles
        /\ d.ext = c.ext /\ d.ccr = c.ccr /\ d.bus = c.bus /\ d.halted = c.halted
        /\ d.A[reg] = Low(c.A[reg] + k, 4) /\ \A q \in 0 .. 7 : q # reg => d.A[q] = c.A[q]
    BY <1>1, setAOK, Zenon
  <1>3. d.A[reg] \in Register
    BY <1>1, <1>2, LowRegister
  <1> HIDE DEF d
  <1>4. ASSUME Even(c.A[7]) PROVE Even(d.A[7])
    <2>1. CASE reg = 7
      <3>1. Even(c.A[7] + k)
        BY <1>1, <1>4, <2>1 DEF Even
      <3> QED
        BY <1>1, <1>2, <2>1, <3>1, EvenLow
    <2>2. CASE reg # 7
      BY <1>2, <1>4, <2>2
    <2> QED
      BY <2>1, <2>2
  <1>5. 4 * d.bus <= 4 * c.bus + 0
    BY <1>2, StateFields
  <1>6. Len(d.ext) >= Len(c.ext) - 0
    BY <1>2, StateFields
  <1> QED
    BY <1>2, <1>3, <1>4, <1>5, <1>6 DEF Accesses, d

LEMMA closureStepOK ==
  ASSUME NEW reg \in 0 .. 7, NEW sz \in Size
  PROVE  LET k == closureStep(reg, sz) IN k \in Int /\ -k \in Int /\ (reg = 7 => Even(k) /\ Even(-k))
  BY DEF closureStep, Size, Even

LEMMA calcIndexOK ==
  ASSUME NEW c \in State, NEW base \in Int, NEW w \in Word PROVE calcIndex(c, base, w) \in Register
  <1> DEFINE x == Index[w]
             reg == IF x.addr THEN c.A[x.xn] ELSE c.D[x.xn]
  <1>1. x.xn \in 0 .. 7 /\ x.disp \in Int
    BY Layouts, Positive DEF Layouts, Word, Size
  <1>2. reg \in Int
    BY <1>1, StateFields, Zenon
  <1> HIDE DEF x, reg
  <1>3. Signed(reg, 2) \in Int /\ Signed(x.disp, 1) \in Int
    BY <1>1, <1>2, SignedOK DEF Size
  <1>4. base + (IF x.long THEN reg ELSE Signed(reg, 2)) + Signed(x.disp, 1) \in Int
    BY <1>2, <1>3
  <1> QED
    BY <1>4, LowRegister DEF calcIndex, x, reg

\* The modes that name an operand in memory, and the time the bus needs for
\* the extension words of its address.
Operands(mode, reg) == mode \in 0 .. 7 /\ reg \in 0 .. 7 /\ (mode = 7 => reg < 5)

AddressTime(mode, reg) ==
  IF mode < 5 THEN 0 ELSE IF mode = 7 /\ reg = 1 THEN 8 ELSE 4

LEMMA AccessesMore ==
  ASSUME NEW c \in State, NEW d, NEW n \in Nat, NEW k \in Nat, NEW m \in Nat, NEW l \in Nat,
         Accesses(c, d, n, k), n <= m, k <= l
  PROVE  Accesses(c, d, m, l)
  <1>1. d \in State
    BY DEF Accesses
  <1>2. 4 * d.bus <= 4 * c.bus + m
    <2>1. c.bus \in Nat /\ d.bus \in Nat
      BY <1>1, StateFields
    <2>2. 4 * d.bus <= 4 * c.bus + n
      BY DEF Accesses
    <2> QED
      BY <2>1, <2>2
  <1>3. Len(d.ext) >= Len(c.ext) - l
    <2>1. Len(c.ext) \in Nat /\ Len(d.ext) \in Nat
      BY <1>1, StateFields
    <2>2. Len(d.ext) >= Len(c.ext) - k
      BY DEF Accesses
    <2> QED
      BY <2>1, <2>2
  <1> QED
    BY <1>1, <1>2, <1>3 DEF Accesses

Reaches(c, s, n) ==
  /\ Accesses(c, s.c, n, 2) /\ s.c.halted = c.halted /\ s.c.ccr = c.ccr /\ s.v \in Register

LEMMA makeEAMemAddrOK ==
  ASSUME NEW c \in State, Len(c.ext) >= 2, NEW mode, NEW reg, Operands(mode, reg), IsMem(mode, reg),
         NEW sz \in Size
  PROVE  Reaches(c, makeEAMemAddr(c, mode, reg, sz), AddressTime(mode, reg))
  <1> DEFINE a == makeEAMemAddr(c, mode, reg, sz)
             w == fetchPC(c)
             l == fetchPCLong(c)
             step == closureStep(reg, sz)
             base == IF mode = 7 THEN c.pc ELSE c.A[reg]
  <1>1. mode \in 2 .. 7 /\ reg \in 0 .. 7 /\ (mode = 7 => reg \in 0 .. 3)
    BY DEF Operands, IsMem
  <1>2. c.A[reg] \in Register /\ c.A[reg] \in Int /\ c.pc \in Int /\ base \in Int /\ Len(c.ext) \in Nat
    BY <1>1, StateFields
  <1>3. CASE mode = 2
    <2>1. a = At(c, c.A[reg]) /\ AddressTime(mode, reg) = 0
      BY <1>3 DEF makeEAMemAddr, AddressTime
    <2> QED
      BY <1>2, <2>1, AccessesNothing DEF Reaches, At
  <1>4. CASE mode \in {3, 4}
    <2> DEFINE k == IF mode = 3 THEN step ELSE -step
               d == setA(c, reg, c.A[reg] + k)
               v == IF mode = 3 THEN c.A[reg] ELSE d.A[reg]
    <2>1. k \in Int /\ (reg = 7 => Even(k))
      BY <1>1, closureStepOK, Zenon
    <2>2. Accesses(c, d, 0, 0) /\ d.halted = c.halted /\ d.ccr = c.ccr /\ d.A[reg] \in Register
      <3> HIDE DEF k
      <3> QED
        BY <1>1, <2>1, StepOK, Zenon
    <2>3. a = At(d, v) /\ AddressTime(mode, reg) = 0
      <3>1. step \in Int /\ c.A[reg] - step = c.A[reg] + (-step)
        BY <1>1, <1>2, closureStepOK, Zenon
      <3> HIDE DEF step
      <3> QED
        BY <1>4, <3>1 DEF makeEAMemAddr, AddressTime, step
    <2>4. v \in Register
      BY <1>2, <2>2
    <2> HIDE DEF d, v
    <2>5. Accesses(c, d, 0, 2)
      BY <2>2, AccessesMore
    <2> QED
      BY <2>2, <2>3, <2>4, <2>5 DEF Reaches, At
  <1>5. CASE mode = 7 /\ reg = 1
    <2>1. a = l /\ AddressTime(mode, reg) = 8
      BY <1>5 DEF makeEAMemAddr, AddressTime
    <2>2. Accesses(c, l.c, 8, 2) /\ Follows(c, l.c) /\ l.v \in Register
      BY fetchPCLongOK
    <2> HIDE DEF l
    <2> QED
      BY <2>1, <2>2 DEF Reaches, Follows
  <1>6. CASE mode \in {5, 6} \/ (mode = 7 /\ reg # 1)
    <2> DEFINE v == IF mode = 7 /\ reg = 0 THEN Ext(w.v, 2, 4)
                    ELSE IF mode = 6 \/ (mode = 7 /\ reg = 3) THEN calcIndex(w.c, base, w.v)
                    ELSE Low(base + Signed(w.v, 2), 4)
    <2>1. Accesses(c, w.c, 4, 1) /\ Follows(c, w.c) /\ w.v \in Word
      BY <1>2, fetchPCOK
    <2>2. a = At(w.c, v)
      BY <1>1, <1>6 DEF makeEAMemAddr
    <2>3. AddressTime(mode, reg) = 4
      BY <1>1, <1>6 DEF AddressTime
    <2> HIDE DEF w, base
    <2>4. w.c \in State /\ w.v \in Int
      BY <2>1, Positive DEF Accesses, Word, Size
    <2>5. Signed(w.v, 2) \in Int /\ base + Signed(w.v, 2) \in Int
      <3>1. Signed(w.v, 2) \in Int
        BY <2>4, SignedOK, Zenon DEF Size
      <3> QED
        BY <1>2, <3>1
    <2>6. v \in Register
      <3>1. Ext(w.v, 2, 4) \in Register
        BY <2>5, LowRegister DEF Ext
      <3>2. calcIndex(w.c, base, w.v) \in Register
        BY <1>2, <2>1, <2>4, calcIndexOK
      <3>3. Low(base + Signed(w.v, 2), 4) \in Register
        BY <2>5, LowRegister
      <3> QED
        BY <3>1, <3>2, <3>3
    <2> HIDE DEF v
    <2>7. Accesses(c, w.c, 4, 2)
      BY <2>1, AccessesMore
    <2> QED
      BY <2>1, <2>2, <2>3, <2>6, <2>7 DEF Reaches, Follows, At
  <1> QED
    BY <1>1, <1>3, <1>4, <1>5, <1>6

\* What the closures read, and how the two implementations agree.
LEMMA ChargeFetch ==
  ASSUME NEW mode, NEW reg, Operands(mode, reg), NEW sz \in Size
  PROVE  /\ Charge(eaFetchConst(mode, reg), sz) = eaFetchCycles(mode, reg, sz)
         /\ Charge(eaFetchConst(mode, reg), sz) \in Nat
         /\ IsMem(mode, reg) =>
              AddressTime(mode, reg) + 4 * Words(sz) <= Charge(eaFetchConst(mode, reg), sz)
         /\ mode = 7 /\ reg = 4 => 4 * Words(sz) <= Charge(eaFetchConst(mode, reg), sz)
  <1>1. mode \in 0 .. 7 /\ reg \in 0 .. 7 /\ (mode = 7 => reg < 5)
    BY DEF Operands
  <1>2. CASE mode \in {0, 1}
    BY <1>2, <1>1 DEF Charge, eaFetchConst, eaFetchCycles, IsMem, AddressTime, Words, Size
  <1>3. CASE mode \in {2, 3} \/ (mode = 7 /\ reg = 4)
    BY <1>3, <1>1 DEF Charge, eaFetchConst, eaFetchCycles, IsMem, AddressTime, Words, Size
  <1>4. CASE mode = 4
    BY <1>4, <1>1 DEF Charge, eaFetchConst, eaFetchCycles, IsMem, AddressTime, Words, Size
  <1>5. CASE mode = 5 \/ (mode = 7 /\ reg \in {0, 2})
    BY <1>5, <1>1 DEF Charge, eaFetchConst, eaFetchCycles, IsMem, AddressTime, Words, Size
  <1>6. CASE mode = 6 \/ (mode = 7 /\ reg = 3)
    BY <1>6, <1>1 DEF Charge, eaFetchConst, eaFetchCycles, IsMem, AddressTime, Words, Size
  <1>7. CASE mode = 7 /\ reg = 1
    BY <1>7, <1>1 DEF Charge, eaFetchConst, eaFetchCycles, IsMem, AddressTime, Words, Size
  <1> QED
    BY <1>1, <1>2, <1>3, <1>4, <1>5, <1>6, <1>7

LEMMA ChargeWrite ==
  ASSUME NEW mode, NEW reg, Operands(mode, reg), mode = 7 => reg < 2, NEW sz \in Size
  PROVE  /\ Charge(eaWriteConst(mode, reg), sz) = eaWriteCycles(mode, reg, sz)
         /\ Charge(eaWriteConst(mode, reg), sz) \in Nat
         /\ IsMem(mode, reg) =>
              AddressTime(mode, reg) + 4 * Words(sz) <= Charge(eaWriteConst(mode, reg), sz)
  <1>1. mode \in 0 .. 7 /\ reg \in 0 .. 7
    BY DEF Operands
  <1>2. CASE mode \in {0, 1}
    BY <1>2, <1>1 DEF Charge, eaWriteConst, eaWriteCycles, IsMem, AddressTime, Words, Size
  <1>3. CASE mode \in {2, 3, 4}
    BY <1>3, <1>1 DEF Charge, eaWriteConst, eaWriteCycles, IsMem, AddressTime, Words, Size
  <1>4. CASE mode = 5 \/ (mode = 7 /\ reg = 0)
    BY <1>4, <1>1 DEF Charge, eaWriteConst, eaWriteCycles, IsMem, AddressTime, Words, Size
  <1>5. CASE mode = 6
    BY <1>5, <1>1 DEF Charge, eaWriteConst, eaWriteCycles, IsMem, AddressTime, Words, Size
  <1>6. CASE mode = 7 /\ reg = 1
    BY <1>6, <1>1 DEF Charge, eaWriteConst, eaWriteCycles, IsMem, AddressTime, Words, Size
  <1> QED
    BY <1>1, <1>2, <1>3, <1>4, <1>5, <1>6

Reads(c, s, n, sz) ==
  Accesses(c, s.c, n, 2) /\ s.c.ccr = c.ccr /\ s.v \in 0 .. Top(sz) - 1 /\ s.v \in Int

LEMMA makeEAReadOK ==
  ASSUME NEW c \in State, Len(c.ext) >= 2, NEW mode, NEW reg, Operands(mode, reg), NEW sz \in Size
  PROVE  Reads(c, makeEARead(c, mode, reg, sz), Charge(eaFetchConst(mode, reg), sz), sz)
  <1> DEFINE s == makeEARead(c, mode, reg, sz)
             n == Charge(eaFetchConst(mode, reg), sz)
  <1>1. mode \in 0 .. 7 /\ reg \in 0 .. 7
    BY DEF Operands
  <1>2. n \in Nat /\ Words(sz) \in Nat /\ 4 * Words(sz) \in Nat /\ AddressTime(mode, reg) \in Nat
    BY <1>1, ChargeFetch DEF Words, AddressTime
  <1>3. Accesses(c, s.c, n, 2) /\ s.c.ccr = c.ccr /\ s.v \in 0 .. Top(sz) - 1
    <2>1. CASE mode \in {0, 1}
      <3> DEFINE x == IF mode = 0 THEN c.D[reg] ELSE c.A[reg]
      <3>1. s = At(c, Low(x, sz))
        BY <2>1 DEF makeEARead
      <3>2. x \in Int
        BY <1>1, StateFields
      <3> HIDE DEF x
      <3>3. Low(x, sz) \in 0 .. Top(sz) - 1
        BY <3>2, LowOK
      <3> QED
        BY <1>2, <3>1, <3>3, AccessesNothing DEF At
    <2>2. CASE mode = 7 /\ reg = 4
      <3>1. s = fetchImm(c, sz)
        BY <2>2 DEF makeEARead
      <3>2. Accesses(c, s.c, 4 * Words(sz), 2) /\ Follows(c, s.c) /\ s.v \in 0 .. Top(sz) - 1
        BY <3>1, fetchImmOK
      <3> HIDE DEF s
      <3>3. Accesses(c, s.c, n, 2)
        <4>1. 4 * Words(sz) <= n
          BY <2>2, ChargeFetch
        <4> QED
          BY <1>2, <3>2, <4>1, AccessesMore
      <3> QED
        BY <3>2, <3>3 DEF Follows
    <2>3. CASE IsMem(mode, reg)
      <3> DEFINE a == makeEAMemAddr(c, mode, reg, sz)
                 t == AddressTime(mode, reg)
      <3>1. s = readBus(a.c, sz, a.v)
        BY <1>1, <2>3 DEF makeEARead, IsMem
      <3>2. Reaches(c, a, t)
        BY <2>3, makeEAMemAddrOK
      <3> HIDE DEF a
      <3>3. Accesses(c, a.c, t, 2) /\ a.c.ccr = c.ccr /\ a.c \in State /\ a.v \in Int
        BY <3>2, RegisterRange DEF Reaches, Accesses
      <3>4. Accesses(a.c, s.c, 4 * Words(sz), 0) /\ s.c.ccr = a.c.ccr /\ s.v \in 0 .. Top(sz) - 1
        BY <3>1, <3>3, readBusOK
      <3>5. t + 4 * Words(sz) <= n
        BY <2>3, ChargeFetch
      <3> HIDE DEF s, n, t
      <3>6. Accesses(c, s.c, t + 4 * Words(sz), 2 + 0)
        BY <1>2, <3>3, <3>4, AccessesTwice, Zenon DEF t
      <3>7. Accesses(c, s.c, n, 2)
        BY <1>2, <3>5, <3>6, AccessesMore DEF t
      <3> QED
        BY <3>3, <3>4, <3>7
    <2> QED
      BY <1>1, <2>1, <2>2, <2>3 DEF IsMem
  <1>4. Top(sz) \in Nat
    BY Positive
  <1> HIDE DEF s, n
  <1> QED
    BY <1>3, <1>4 DEF Reads, s, n

LEMMA BothEAs ==
  ASSUME NEW c \in State, Len(c.ext) >= 2, NEW mode, NEW reg, Operands(mode, reg), NEW sz \in Size
  PROVE  LET r == resolveEA(c, mode, reg, sz)
         IN /\ makeEARead(c, mode, reg, sz) = read(r.c, r.e, sz)
            /\ IsMem(mode, reg) => makeEAMemAddr(c, mode, reg, sz) = At(r.c, r.e.addr)
  <1> DEFINE r == resolveEA(c, mode, reg, sz)
             w == fetchPC(c)
             l == fetchPCLong(c)
             a == makeEAMemAddr(c, mode, reg, sz)
  <1>1. mode \in 0 .. 7 /\ reg \in 0 .. 7 /\ (mode = 7 => reg \in 0 .. 4)
    BY DEF Operands
  <1>2. c.A[reg] \in Register /\ c.A[reg] \in Int /\ c.pc \in Int /\ Len(c.ext) \in Nat
    BY <1>1, StateFields, Zenon
  <1>3. w.c \in State /\ w.v \in Word /\ w.v \in Int /\ w = At(w.c, w.v)
    <2>1. Accesses(c, w.c, 4, 1) /\ w.v \in Word
      BY <1>2, fetchPCOK
    <2>2. w = At(w.c, w.v)
      BY DEF fetchPC, At
    <2> HIDE DEF w
    <2> QED
      BY <2>1, <2>2, Positive DEF Accesses, Word, Size
  <1>4. l.v \in Register /\ l = At(l.c, l.v)
    <2>1. l.v \in Register
      BY fetchPCLongOK
    <2>2. l = At(l.c, l.v)
      BY DEF fetchPCLong, At
    <2> QED
      BY <2>1, <2>2
  <1>5. CASE mode \in {0, 1}
    <2>1. r = Operand(c, IF mode = 0 THEN "eaDataReg" ELSE "eaAddrReg", reg, 0, 0)
      BY <1>5 DEF resolveEA
    <2>2. ~IsMem(mode, reg)
      BY <1>5 DEF IsMem
    <2>3. makeEARead(c, mode, reg, sz) = At(c, Low(IF mode = 0 THEN c.D[reg] ELSE c.A[reg], sz))
      BY <1>5 DEF makeEARead
    <2>4. r.c = c /\ r.e.reg = reg /\ r.e.mode = IF mode = 0 THEN "eaDataReg" ELSE "eaAddrReg"
      BY <2>1 DEF Operand
    <2> HIDE DEF r
    <2>5. read(r.c, r.e, sz) = At(c, Low(IF mode = 0 THEN c.D[reg] ELSE c.A[reg], sz))
      BY <1>5, <2>4 DEF read
    <2> QED
      BY <2>2, <2>3, <2>5 DEF r
  <1>6. CASE mode = 7 /\ reg = 4
    <2> DEFINE i == IF sz = 4 THEN l ELSE w
               imm == IF sz = 1 THEN Low(i.v, 1) ELSE i.v
    <2>1. r = Operand(i.c, "eaImmediate", 0, 0, imm)
      BY <1>6 DEF resolveEA
    <2>2. ~IsMem(mode, reg)
      BY <1>6 DEF IsMem
    <2>3. makeEARead(c, mode, reg, sz) = fetchImm(c, sz)
      BY <1>6 DEF makeEARead
    <2>4. r.c = i.c /\ r.e.imm = imm /\ r.e.mode = "eaImmediate"
      BY <2>1 DEF Operand
    <2>5. fetchImm(c, sz) = At(i.c, Low(imm, sz))
      <3>1. CASE sz = 4
        <4>1. Low(l.v, 4) = l.v
          BY <1>4, LowSame DEF Register, Size
        <4> HIDE DEF l
        <4> QED
          BY <1>4, <3>1, <4>1 DEF fetchImm, l
      <3>2. CASE sz # 4
        <4>1. fetchImm(c, sz) = At(w.c, Low(w.v, sz))
          BY <3>2 DEF fetchImm
        <4>2. sz = 1 => Low(Low(w.v, 1), sz) = Low(w.v, sz)
          BY <1>3, LowAgain
        <4> HIDE DEF w, l
        <4> QED
          BY <3>2, <4>1, <4>2
      <3> QED
        BY <3>1, <3>2
    <2> HIDE DEF r, i, imm
    <2>6. read(r.c, r.e, sz) = At(i.c, Low(imm, sz))
      BY <2>4 DEF read
    <2> QED
      BY <2>2, <2>3, <2>5, <2>6 DEF r
  <1>7. CASE IsMem(mode, reg)
    <2>1. mode \in 2 .. 7 /\ (mode = 7 => reg \in 0 .. 3)
      BY <1>1, <1>7 DEF IsMem
    <2>2. \A x \in Register : Low(x, 4) = x
      BY LowSame DEF Register, Size
    <2>3. a.v \in Register
      BY <1>7, makeEAMemAddrOK DEF Reaches
    <2>4. r = Operand(a.c, "eaMemory", 0, a.v, 0) /\ a = At(a.c, a.v)
      <3>1. CASE mode = 2
        BY <1>2, <2>2, <3>1 DEF resolveEA, makeEAMemAddr, Operand, At
      <3>2. CASE mode = 3
        BY <1>2, <2>2, <3>2 DEF resolveEA, makeEAMemAddr, Operand, At, resolveStep, closureStep
      <3>3. CASE mode = 4
        <4> DEFINE k == closureStep(reg, sz)
                   d == setA(c, reg, c.A[reg] - k)
        <4>1. k \in Int /\ resolveStep(reg, sz) = k
          BY <1>1, closureStepOK DEF closureStep, resolveStep
        <4> HIDE DEF k
        <4>2. d.A[reg] = Low(c.A[reg] - k, 4)
          <5>1. c.A[reg] - k \in Int
            BY <1>2, <4>1
          <5> QED
            BY <1>1, <5>1, setAOK, Zenon
        <4>3. a = At(d, d.A[reg])
          BY <3>3 DEF makeEAMemAddr, k
        <4>4. r = Operand(d, "eaMemory", 0, Low(c.A[reg] - k, 4), 0)
          BY <3>3, <4>1 DEF resolveEA
        <4> HIDE DEF d
        <4> QED
          BY <4>2, <4>3, <4>4 DEF At
      <3>4. CASE mode = 7 /\ reg = 1
        <4>1. a = l /\ r = Operand(l.c, "eaMemory", 0, Low(l.v, 4), 0)
          BY <3>4 DEF resolveEA, makeEAMemAddr
        <4> QED
          BY <1>4, <2>2, <4>1
      <3>5. CASE mode = 7 /\ reg = 0
        BY <3>5 DEF resolveEA, makeEAMemAddr, At, Ext
      <3>6. CASE mode = 5 \/ (mode = 7 /\ reg = 2)
        BY <3>6 DEF resolveEA, makeEAMemAddr, At
      <3>7. CASE mode = 6 \/ (mode = 7 /\ reg = 3)
        <4> DEFINE base == IF mode = 7 THEN c.pc ELSE c.A[reg]
                   x == calcIndex(w.c, base, w.v)
        <4>1. a = At(w.c, x) /\ r = Operand(w.c, "eaMemory", 0, Low(x, 4), 0)
          BY <3>7 DEF resolveEA, makeEAMemAddr
        <4>2. x \in Register
          BY <1>2, <1>3, calcIndexOK
        <4> HIDE DEF x
        <4> QED
          BY <2>2, <4>1, <4>2 DEF At
      <3> QED
        BY <2>1, <3>1, <3>2, <3>3, <3>4, <3>5, <3>6, <3>7
    <2>5. makeEARead(c, mode, reg, sz) = readBus(a.c, sz, a.v)
      BY <1>7, <2>1 DEF makeEARead, IsMem
    <2> HIDE DEF r, a
    <2>6. r.c = a.c /\ r.e.addr = a.v /\ r.e.mode = "eaMemory"
      BY <2>4 DEF Operand
    <2>7. read(r.c, r.e, sz) = readBus(a.c, sz, a.v)
      BY <2>6 DEF read
    <2> QED
      BY <2>4, <2>5, <2>6, <2>7 DEF r, a
  <1> QED
    BY <1>1, <1>5, <1>6, <1>7 DEF IsMem

-----------------------------------------------------------------------------
(***************************************************************************)
(* What an instruction may do.  From c to d it takes at most n cycles on   *)
(* the bus, has changed no memory if it faulted, leaves what is above the  *)
(* size sz of each data register alone and, if keep, an even A7 even.      *)
(***************************************************************************)
Changes(c, d, n, sz, keep) ==
  /\ d \in State
  /\ d.halted => d.mem = c.mem
  /\ keep /\ Even(c.A[7]) => Even(d.A[7])
  /\ \A r \in 0 .. 7 : d.D[r] \div Top(sz) = c.D[r] \div Top(sz)
  /\ 4 * d.bus <= 4 * c.bus + n
  /\ d.cycles = c.cycles

\* The same of a whole instruction, charged for the bus unless it traps.
Done(c, d, sz, keep) ==
  /\ d \in State
  /\ d.halted => d.mem = c.mem
  /\ keep /\ Even(c.A[7]) => Even(d.A[7])
  /\ \A r \in 0 .. 7 : d.D[r] \div Top(sz) = c.D[r] \div Top(sz)
  /\ d.trap = 0 => 4 * d.bus <= d.cycles

\* The state that the opcode's fetch leaves.
Started == {c \in State : c.bus = 1 /\ c.cycles = 0 /\ c.trap = 0 /\ Len(c.ext) = 4}

LEMMA AccessChanges ==
  ASSUME NEW c \in State, NEW d, NEW n, NEW k, Accesses(c, d, n, k), NEW sz
  PROVE  Changes(c, d, n, sz, TRUE)
  BY DEF Accesses, Changes

LEMMA setCCROK ==
  ASSUME NEW c \in State, NEW f \in SUBSET CCRBits
  PROVE  LET d == setCCR(c, f)
         IN /\ d \in State /\ d.D = c.D /\ d.A = c.A /\ d.mem = c.mem /\ d.trap = c.trap
            /\ d.cycles = c.cycles /\ d.ext = c.ext /\ d.bus = c.bus /\ d.halted = c.halted
            /\ d.ccr = f
  BY DEF setCCR, State

LEMMA ThenFlags ==
  ASSUME NEW c \in State, NEW d, NEW n, NEW sz, NEW keep, Changes(c, d, n, sz, keep),
         NEW f \in SUBSET CCRBits
  PROVE  Changes(c, setCCR(d, f), n, sz, keep)
  <1> DEFINE e == setCCR(d, f)
  <1>1. d \in State
    BY DEF Changes
  <1>2. /\ e \in State /\ e.D = d.D /\ e.A = d.A /\ e.mem = d.mem
        /\ e.cycles = d.cycles /\ e.bus = d.bus /\ e.halted = d.halted
    BY <1>1, setCCROK
  <1> HIDE DEF e
  <1> QED
    BY <1>2 DEF Changes, e

LEMMA AccessFlags ==
  ASSUME NEW c \in State, NEW d, NEW n, NEW k, Accesses(c, d, n, k), NEW f \in SUBSET CCRBits
  PROVE  Accesses(c, setCCR(d, f), n, k)
  <1> DEFINE e == setCCR(d, f)
  <1>1. d \in State
    BY DEF Accesses
  <1>2. /\ e \in State /\ e.D = d.D /\ e.A = d.A /\ e.mem = d.mem /\ e.trap = d.trap
        /\ e.cycles = d.cycles /\ e.bus = d.bus /\ e.ext = d.ext
    BY <1>1, setCCROK
  <1> HIDE DEF e
  <1> QED
    BY <1>2 DEF Accesses, e

LEMMA setDOK ==
  ASSUME NEW c \in State, NEW r \in 0 .. 7, NEW v \in Int, NEW sz \in Size
  PROVE  LET d == setD(c, r, sz, v)
         IN /\ d \in State /\ d.A = c.A /\ d.mem = c.mem /\ d.trap = c.trap
            /\ d.cycles = c.cycles /\ d.ext = c.ext /\ d.bus = c.bus /\ d.halted = c.halted
            /\ d.ccr = c.ccr
            /\ \A q \in 0 .. 7 : d.D[q] \div Top(sz) = c.D[q] \div Top(sz)
  <1> DEFINE x == c.D[r]
             y == x - Low(x, sz) + Low(v, sz)
             D == [c.D EXCEPT ![r] = y]
             d == [c EXCEPT !.D = D]
             T == Top(sz)
  <1>1. x \in 0 .. Top(4) - 1 /\ x \in Int /\ c.D \in Registers /\ T \in Nat \ {0}
    BY StateFields, Positive DEF Register
  <1>2. \E m \in Nat \ {0} : Top(4) = m * T
    <2>1. Top(1) \in Nat \ {0} /\ Top(2) \in Nat \ {0} /\ Top(4) \in Nat \ {0}
      BY Positive DEF Size
    <2>2. Top(1) * Top(2) \in Nat \ {0} /\ Top(4) = (Top(1) * Top(2)) * Top(1)
      <3> DEFINE a == Top(1)
      <3>1. a \in Nat \ {0} /\ Top(2) = a * a /\ Top(4) = (a * a) * (a * a)
        BY <2>1, Tops
      <3> HIDE DEF a
      <3>2. a * (a * a) \in Nat \ {0} /\ (a * a) * (a * a) = (a * (a * a)) * a
        BY <3>1
      <3> QED
        BY <3>1, <3>2 DEF a
    <2>3. CASE sz = 1
      BY <2>2, <2>3
    <2>4. CASE sz = 2
      BY <2>1, <2>4, Tops
    <2>5. CASE sz = 4
      BY <2>1, <2>5
    <2> QED
      BY <2>3, <2>4, <2>5 DEF Size
  <1>3. PICK m \in Nat \ {0} : Top(4) = m * T
    BY <1>2
  <1>4. Low(v, sz) \in 0 .. T - 1
    BY LowOK
  <1>5. y \in Register /\ y \div T = x \div T
    <2> DEFINE l == Low(v, sz)
    <2>1. y = x - (x % T) + l
      BY DEF Low
    <2> HIDE DEF x, y, T, l
    <2>2. x \in 0 .. m * T - 1
      BY <1>1, <1>3
    <2>3. x - (x % T) + l \in 0 .. m * T - 1 /\ (x - (x % T) + l) \div T = x \div T
      BY <1>1, <1>4, <2>2, ReplaceLow, Zenon DEF l
    <2> QED
      BY <1>3, <2>1, <2>3 DEF Register
  <1>6. setD(c, r, sz, v) = d
    BY DEF setD, State
  <1> HIDE DEF y, x, T
  <1>7. D \in Registers /\ D[r] = y /\ \A q \in 0 .. 7 : q # r => D[q] = c.D[q]
    BY <1>1, <1>5 DEF Registers
  <1> HIDE DEF D
  <1>8. /\ d \in State /\ d.A = c.A /\ d.mem = c.mem /\ d.trap = c.trap
        /\ d.cycles = c.cycles /\ d.ext = c.ext /\ d.bus = c.bus /\ d.halted = c.halted
        /\ d.ccr = c.ccr /\ d.D = D
    BY <1>7 DEF State
  <1>9. ASSUME NEW q \in 0 .. 7 PROVE D[q] \div T = c.D[q] \div T
    BY <1>5, <1>7 DEF x
  <1> HIDE DEF d
  <1> QED
    BY <1>6, <1>8, <1>9 DEF T

LEMMA ThenD ==
  ASSUME NEW c \in State, NEW d, NEW n, NEW k, Accesses(c, d, n, k),
         NEW r \in 0 .. 7, NEW v \in Int, NEW sz \in Size
  PROVE  Changes(c, setD(d, r, sz, v), n, sz, TRUE)
  <1> DEFINE e == setD(d, r, sz, v)
  <1>1. d \in State
    BY DEF Accesses
  <1>2. /\ e \in State /\ e.A = d.A /\ e.mem = d.mem /\ e.cycles = d.cycles /\ e.bus = d.bus
        /\ \A q \in 0 .. 7 : e.D[q] \div Top(sz) = d.D[q] \div Top(sz)
    BY <1>1, setDOK
  <1> HIDE DEF e
  <1> QED
    BY <1>2 DEF Accesses, Changes, e

LEMMA ThenA ==
  ASSUME NEW c \in State, NEW d, NEW n, NEW k, Accesses(c, d, n, k),
         NEW r \in 0 .. 7, NEW v \in Int, NEW sz, NEW keep \in BOOLEAN, keep => r # 7
  PROVE  Changes(c, setA(d, r, v), n, sz, keep)
  <1> DEFINE e == setA(d, r, v)
  <1>1. d \in State
    BY DEF Accesses
  <1>2. /\ e \in State /\ e.D = d.D /\ e.mem = d.mem /\ e.cycles = d.cycles /\ e.bus = d.bus
        /\ \A q \in 0 .. 7 : q # r => e.A[q] = d.A[q]
    BY <1>1, setAOK, Zenon
  <1>3. keep => e.A[7] = d.A[7]
    BY <1>2
  <1> HIDE DEF e
  <1> QED
    BY <1>2, <1>3 DEF Accesses, Changes, e

LEMMA BusWriteOK ==
  ASSUME NEW mem \in Memory, NEW a, NEW sz, NEW v \in Int PROVE BusWrite(mem, a, sz, v) \in Memory
  <1>1. \A x : Low(Shr(v, Unit * (sz - 1 - x)), 1) \in 0 .. Top(1) - 1
    BY ShrOK, LowOK DEF Size
  <1> QED
    BY <1>1 DEF BusWrite, Memory

LEMMA writeBusOK ==
  ASSUME NEW c \in State, NEW sz \in Size, NEW a \in Int, NEW v \in Int
  PROVE  LET d == writeBus(c, sz, a, v)
         IN /\ d \in State /\ d.D = c.D /\ d.A = c.A /\ d.trap = c.trap
            /\ d.cycles = c.cycles /\ d.ext = c.ext /\ d.ccr = c.ccr
            /\ 4 * d.bus <= 4 * c.bus + 4 * Words(sz)
            /\ d.halted <=> c.halted \/ OddAccess(sz, a)
            /\ d.halted => d.mem = c.mem
  <1> DEFINE d == writeBus(c, sz, a, v)
             m == BusWrite(c.mem, a % BusMod, sz, Low(v, sz))
  <1>1. Words(sz) \in Nat /\ c.bus \in Nat /\ c.bus + Words(sz) \in Nat /\ c.mem \in Memory
    BY StateFields DEF Words
  <1>2. m \in Memory
    <2>1. Low(v, sz) \in Int
      BY LowOK, Positive
    <2> QED
      BY <1>1, <2>1, BusWriteOK
  <1> HIDE DEF m
  <1>3. CASE c.halted
    BY <1>1, <1>3 DEF writeBus
  <1>4. CASE ~c.halted /\ OddAccess(sz, a)
    <2> DEFINE e == [c EXCEPT !.halted = TRUE]
    <2>1. /\ e \in State /\ e.D = c.D /\ e.A = c.A /\ e.mem = c.mem /\ e.trap = c.trap
          /\ e.cycles = c.cycles /\ e.ext = c.ext /\ e.ccr = c.ccr /\ e.bus = c.bus /\ e.halted
      BY Zenon DEF State
    <2>2. d = e
      BY <1>4 DEF writeBus
    <2> HIDE DEF d, e
    <2> QED
      BY <1>1, <1>4, <2>1, <2>2 DEF d
  <1>5. CASE ~c.halted /\ ~OddAccess(sz, a)
    <2> DEFINE e == [c EXCEPT !.bus = @ + Words(sz), !.mem = m]
    <2>1. e \in State
      BY <1>1, <1>2, ZenonT(60) DEF State
    <2>2. /\ e.D = c.D /\ e.A = c.A /\ e.trap = c.trap /\ e.bus = c.bus + Words(sz)
          /\ e.cycles = c.cycles /\ e.ext = c.ext /\ e.ccr = c.ccr /\ e.halted = c.halted
      BY DEF State
    <2>3. d = e
      BY <1>5 DEF writeBus, m
    <2> HIDE DEF d, e
    <2>4. 4 * e.bus <= 4 * c.bus + 4 * Words(sz)
      BY <1>1, <2>2
    <2> QED
      BY <1>5, <2>1, <2>2, <2>3, <2>4 DEF d
  <1> QED
    BY <1>3, <1>4, <1>5

LEMMA ThenMemory ==
  ASSUME NEW c \in State, NEW d, NEW n \in Nat, NEW k, Accesses(c, d, n, k),
         NEW sz \in Size, NEW a \in Int, NEW v \in Int, NEW ks
  PROVE  Changes(c, writeBus(d, sz, a, v), n + 4 * Words(sz), ks, TRUE)
  <1> DEFINE e == writeBus(d, sz, a, v)
  <1>1. d \in State
    BY DEF Accesses
  <1>2. /\ e \in State /\ e.D = d.D /\ e.A = d.A /\ e.cycles = d.cycles
        /\ 4 * e.bus <= 4 * d.bus + 4 * Words(sz) /\ (e.halted => e.mem = d.mem)
    BY <1>1, writeBusOK
  <1> HIDE DEF e
  <1>3. 4 * e.bus <= 4 * c.bus + (n + 4 * Words(sz))
    <2>1. c.bus \in Nat /\ d.bus \in Nat /\ e.bus \in Nat /\ Words(sz) \in Nat
      BY <1>1, <1>2, StateFields DEF Words
    <2>2. 4 * d.bus <= 4 * c.bus + n
      BY DEF Accesses
    <2> QED
      BY <1>2, <2>1, <2>2
  <1> QED
    BY <1>2, <1>3 DEF Accesses, Changes, e

LEMMA SpendDone ==
  ASSUME NEW c \in Started, NEW d, NEW n \in Nat, NEW sz, NEW keep, Changes(c, d, n, sz, keep),
         NEW m \in Nat, n + 4 <= m
  PROVE  Done(c, Spend(d, m), sz, keep)
  <1> DEFINE e == Spend(d, m)
  <1>1. d \in State /\ c \in State /\ c.bus = 1 /\ c.cycles = 0 /\ d.cycles = 0
    BY DEF Changes, Started
  <1>2. d.cycles + m \in Nat /\ d.cycles + m = m
    BY <1>1
  <1>3. /\ e \in State /\ e.D = d.D /\ e.A = d.A /\ e.mem = d.mem /\ e.bus = d.bus
        /\ e.halted = d.halted /\ e.cycles = d.cycles + m
    BY <1>1, <1>2, Zenon DEF Spend, State
  <1> HIDE DEF e
  <1>4. 4 * e.bus <= e.cycles
    <2>1. 4 * d.bus <= 4 * c.bus + n /\ d.bus \in Nat
      BY <1>1, StateFields DEF Changes
    <2> QED
      BY <1>1, <1>2, <1>3, <2>1
  <1> QED
    BY <1>3, <1>4 DEF Changes, Done, e

LEMMA TrapDone ==
  ASSUME NEW c \in State, NEW d, NEW n, NEW sz, NEW keep, Changes(c, d, n, sz, keep),
         NEW vec \in {5, 6}
  PROVE  Done(c, exception(d, vec), sz, keep)
  <1> DEFINE e == exception(d, vec)
  <1>1. d \in State
    BY DEF Changes
  <1>2. /\ e \in State /\ e.D = d.D /\ e.A = d.A /\ e.mem = d.mem /\ e.halted = d.halted /\ e.trap = vec
    BY <1>1, Zenon DEF exception, State
  <1> HIDE DEF e
  <1> QED
    BY <1>2 DEF Changes, Done, e

-----------------------------------------------------------------------------
(***************************************************************************)
(* The shapes of handlers: how one ends after it has read its operands.    *)
(***************************************************************************)
LEMMA RegisterDone ==
  ASSUME NEW c \in Started, NEW d, NEW n \in Nat, NEW k, Accesses(c, d, n, k), NEW r \in 0 .. 7,
         NEW sz \in Size, NEW o, Result(o), NEW m \in Nat, n + 4 <= m
  PROVE  Done(c, Spend(setCCR(setD(d, r, sz, o.v), o.f), m), sz, TRUE)
  <1>1. c \in State /\ o.v \in Int /\ o.f \in SUBSET CCRBits
    BY DEF Started, Result
  <1>2. Changes(c, setD(d, r, sz, o.v), n, sz, TRUE)
    BY <1>1, ThenD, Zenon
  <1>3. Changes(c, setCCR(setD(d, r, sz, o.v), o.f), n, sz, TRUE)
    BY <1>1, <1>2, ThenFlags, Zenon
  <1> QED
    BY <1>3, SpendDone, Zenon

LEMMA FlagsDone ==
  ASSUME NEW c \in Started, NEW d, NEW n \in Nat, NEW k, Accesses(c, d, n, k), NEW sz,
         NEW f \in SUBSET CCRBits, NEW m \in Nat, n + 4 <= m
  PROVE  Done(c, Spend(setCCR(d, f), m), sz, TRUE)
  <1>1. c \in State
    BY DEF Started
  <1>2. Changes(c, d, n, sz, TRUE)
    BY <1>1, AccessChanges, Zenon
  <1>3. Changes(c, setCCR(d, f), n, sz, TRUE)
    BY <1>1, <1>2, ThenFlags, Zenon
  <1> QED
    BY <1>3, SpendDone, Zenon

LEMMA MemoryDone ==
  ASSUME NEW c \in Started, NEW d, NEW n \in Nat, NEW k, Accesses(c, d, n, k), NEW sz \in Size,
         NEW a \in Int, NEW v \in Int, NEW m \in Nat, n + 4 * Words(sz) + 4 <= m, NEW ks
  PROVE  Done(c, Spend(writeBus(d, sz, a, v), m), ks, TRUE)
  <1>1. c \in State /\ n + 4 * Words(sz) \in Nat
    BY DEF Started, Words
  <1>2. Changes(c, writeBus(d, sz, a, v), n + 4 * Words(sz), ks, TRUE)
    BY <1>1, ThenMemory, Zenon
  <1> QED
    BY <1>1, <1>2, SpendDone, Zenon

LEMMA AddressDone ==
  ASSUME NEW c \in Started, NEW d, NEW n \in Nat, NEW k, Accesses(c, d, n, k), NEW r \in 0 .. 7,
         NEW v \in Int, NEW m \in Nat, n + 4 <= m, NEW sz, NEW keep \in BOOLEAN, keep => r # 7
  PROVE  Done(c, Spend(setA(d, r, v), m), sz, keep)
  <1>1. c \in State
    BY DEF Started
  <1>2. Changes(c, setA(d, r, v), n, sz, keep)
    BY <1>1, ThenA
  <1> QED
    BY <1>2, SpendDone

LEMMA Starts ==
  ASSUME NEW c \in Started
  PROVE  /\ c \in State /\ c.ccr \in SUBSET CCRBits /\ Len(c.ext) >= 2 /\ Len(c.ext) >= 1
         /\ Accesses(c, c, 0, 0)
         /\ \A r \in 0 .. 7 : c.D[r] \in Int /\ c.A[r] \in Int
         /\ \A r \in 0 .. 7, sz \in Size : Low(c.D[r], sz) \in Int
  <1>1. c \in State /\ Len(c.ext) = 4
    BY DEF Started
  <1>2. c.ccr \in SUBSET CCRBits /\ \A r \in 0 .. 7 : c.D[r] \in Int /\ c.A[r] \in Int
    BY <1>1, StateFields
  <1> QED
    BY <1>1, <1>2, AccessesNothing, LowInt

\* The operand in memory that an instruction reads and writes back.
InMemory(c, i, sz) ==
  LET a == makeEAMemAddr(c, i.mode, i.reg, sz) IN readBus(a.c, sz, a.v)

\* An operand of (An)+ or -(An), whose address has no extension words.
LEMMA StackOperand ==
  ASSUME NEW c \in State, Len(c.ext) >= 2, NEW mode \in {3, 4}, NEW reg \in 0 .. 7, NEW sz \in Size
  PROVE  LET r == resolveEA(c, mode, reg, sz)
             s == read(r.c, r.e, sz)
         IN /\ Accesses(c, s.c, 4 * Words(sz), 0) /\ s.c.ccr = c.ccr /\ s.v \in Int
            /\ r.e.mode = "eaMemory" /\ r.e.addr \in Int
  <1> DEFINE r == resolveEA(c, mode, reg, sz)
             k == IF mode = 3 THEN resolveStep(reg, sz) ELSE -resolveStep(reg, sz)
             d == setA(c, reg, c.A[reg] + k)
             a == IF mode = 3 THEN Low(c.A[reg], 4) ELSE Low(c.A[reg] + k, 4)
             s == readBus(d, sz, a)
  <1>1. resolveStep(reg, sz) = closureStep(reg, sz)
    BY DEF resolveStep, closureStep
  <1>2. k \in Int /\ (reg = 7 => Even(k)) /\ c.A[reg] \in Int
    BY <1>1, closureStepOK, StateFields, Zenon
  <1>3. Accesses(c, d, 0, 0) /\ d.ccr = c.ccr
    <2> HIDE DEF k
    <2> QED
      BY <1>2, StepOK, Zenon
  <1>4. r = Operand(d, "eaMemory", 0, a, 0)
    <2>1. resolveStep(reg, sz) \in Int /\ c.A[reg] - resolveStep(reg, sz) = c.A[reg] + (-resolveStep(reg, sz))
      BY <1>1, <1>2, closureStepOK, Zenon
    <2>2. CASE mode = 3
      BY <2>2 DEF resolveEA
    <2>3. CASE mode = 4
      BY <2>1, <2>3 DEF resolveEA
    <2> QED
      BY <2>2, <2>3
  <1> HIDE DEF k, d
  <1>5. a \in Int
    <2>1. c.A[reg] + k \in Int
      BY <1>2
    <2> QED
      BY <1>2, <2>1, LowInt, Zenon DEF Size
  <1> HIDE DEF a, r
  <1>6. r.c = d /\ r.e.mode = "eaMemory" /\ r.e.addr = a
    BY <1>4 DEF Operand
  <1>7. read(r.c, r.e, sz) = s
    BY <1>6 DEF read
  <1>8. Accesses(d, s.c, 4 * Words(sz), 0) /\ s.c.ccr = d.ccr /\ s.v \in 0 .. Top(sz) - 1
    BY <1>3, <1>5, readBusOK DEF Accesses
  <1> DEFINE n == 0
             m == 4 * Words(sz)
  <1>9. n \in Nat /\ m \in Nat /\ n + m = m /\ n + n = n /\ Top(sz) \in Nat
    BY Positive DEF Words
  <1> HIDE DEF s
  <1>10. Accesses(c, d, n, n) /\ Accesses(d, s.c, m, n)
    BY <1>3, <1>8
  <1>11. Accesses(c, s.c, m, n)
    <2> HIDE DEF n, m
    <2>1. Accesses(c, s.c, n + m, n + n)
      BY <1>9, <1>10, AccessesTwice
    <2> QED
      BY <1>9, <2>1
  <1>12. s.v \in Int
    BY <1>8, <1>9
  <1> QED
    BY <1>3, <1>5, <1>6, <1>7, <1>8, <1>11, <1>12 DEF r

\* The state after an immediate, and what ModifiedOK needs of it.
LEMMA AfterImm ==
  ASSUME NEW c \in Started, NEW sz \in Size
  PROVE  LET m == fetchImm(c, sz)
         IN /\ Accesses(c, m.c, 4 * Words(sz), 2) /\ m.c \in State /\ Len(m.c.ext) >= 2
            /\ m.c.ccr = c.ccr /\ m.c.D = c.D /\ m.v \in Int
  <1> DEFINE m == fetchImm(c, sz)
  <1>1. Accesses(c, m.c, 4 * Words(sz), 2) /\ Follows(c, m.c) /\ m.v \in 0 .. Top(sz) - 1
    BY Starts, fetchImmOK
  <1>2. Top(sz) \in Nat /\ Len(c.ext) = 4
    BY Positive DEF Started
  <1> HIDE DEF m
  <1>3. m.c \in State /\ m.c.D = c.D /\ Len(m.c.ext) >= Len(c.ext) - 2
    BY <1>1 DEF Accesses
  <1>4. Len(m.c.ext) >= 2
    BY <1>2, <1>3, StateFields
  <1>5. m.v \in Int
    BY <1>1, <1>2
  <1> QED
    BY <1>1, <1>3, <1>4, <1>5 DEF Follows, m

\* The state after a word of the instruction stream.
LEMMA AfterWord ==
  ASSUME NEW c \in Started
  PROVE  LET w == fetchPC(c)
         IN /\ Accesses(c, w.c, 4, 1) /\ w.c \in State /\ Len(w.c.ext) >= 2
            /\ w.c.ccr = c.ccr /\ w.c.D = c.D /\ w.c.A = c.A /\ w.c.halted = c.halted
            /\ w.v \in Word /\ w.v \in Int
  <1> DEFINE w == fetchPC(c)
  <1>1. Accesses(c, w.c, 4, 1) /\ Follows(c, w.c) /\ w.v \in Word
    BY Starts, fetchPCOK
  <1>2. w.v \in Int /\ Len(c.ext) = 4
    BY <1>1, Positive DEF Started, Word, Size
  <1> HIDE DEF w
  <1>3. w.c \in State /\ w.c.D = c.D /\ Len(w.c.ext) >= Len(c.ext) - 1
    BY <1>1 DEF Accesses
  <1>4. Len(w.c.ext) >= 2
    BY <1>2, <1>3, StateFields
  <1> QED
    BY <1>1, <1>2, <1>3, <1>4 DEF Follows, w

LEMMA DoneKeeps ==
  ASSUME NEW c, NEW d, NEW sz, NEW keep, Done(c, d, sz, TRUE) PROVE Done(c, d, sz, keep)
  BY DEF Done

\* A long is the whole of a register.
LEMMA WholeRegister ==
  ASSUME NEW D \in Registers, NEW E \in Registers
  PROVE  \A r \in 0 .. 7 : E[r] \div Top(4) = D[r] \div Top(4)
  <1>1. \A x \in Register : x \div Top(4) = 0
    BY RegisterRange
  <1> QED
    BY <1>1 DEF Registers

LEMMA DoneFlags ==
  ASSUME NEW c, NEW d, NEW sz, NEW keep, Done(c, d, sz, keep), NEW f \in SUBSET CCRBits
  PROVE  Done(c, setCCR(d, f), sz, keep)
  <1> DEFINE e == setCCR(d, f)
  <1>1. d \in State
    BY DEF Done
  <1>2. /\ e \in State /\ e.D = d.D /\ e.A = d.A /\ e.mem = d.mem /\ e.trap = d.trap
        /\ e.cycles = d.cycles /\ e.bus = d.bus /\ e.halted = d.halted
    BY <1>1, setCCROK
  <1> HIDE DEF e
  <1> QED
    BY <1>2 DEF Done, e

\* A result from registers alone.
LEMMA RegisterOnly ==
  ASSUME NEW c \in Started, NEW r \in 0 .. 7, NEW sz \in Size, NEW v \in Int, NEW f \in SUBSET CCRBits,
         NEW m \in Nat, 4 <= m
  PROVE  Done(c, Spend(setCCR(setD(c, r, sz, v), f), m), sz, TRUE)
  <1> DEFINE n == 0
             o == [v |-> v, f |-> f]
  <1>1. n \in Nat /\ n + 4 <= m /\ Accesses(c, c, n, 0) /\ o.v = v /\ o.f = f /\ Result(o)
    BY Starts DEF Result
  <1> HIDE DEF n, o
  <1>2. Done(c, Spend(setCCR(setD(c, r, sz, o.v), o.f), m), sz, TRUE)
    BY <1>1, RegisterDone, Zenon
  <1> QED
    BY <1>1, <1>2, Zenon
=============================================================================
