-------------------------- MODULE M68kChain_proofs --------------------------
(*****************************************************************************)
(* Multi-precision arithmetic is exact for every width of the sizes, every *)
(* number of limbs and every operand.                                      *)
(*****************************************************************************)
EXTENDS M68kChain, TLAPS

-----------------------------------------------------------------------------
(***************************************************************************)
(* What Low() does to sums and differences of limbs.                       *)
(***************************************************************************)
Limb(sz) == 0 .. Top(sz) - 1

LEMMA Positive == \A sz \in Size : MSB[sz] \in Nat \ {0} /\ Top(sz) \in Nat \ {0}
  BY SignBits DEF Top

LEMMA NotLess == ASSUME NEW a \in Int, NEW b \in Int PROVE ~(a < b) <=> a >= b
  OBVIOUS

LEMMA Mod1 == ASSUME NEW T \in Nat \ {0}, NEW t \in 0 .. 2 * T - 1
              PROVE  t % T = IF t < T THEN t ELSE t - T
  OBVIOUS

LEMMA Mod2 == ASSUME NEW T \in Nat \ {0}, NEW t \in -T .. T - 1
              PROVE  t % T = IF t < 0 THEN t + T ELSE t
  OBVIOUS

LEMMA Div1 == ASSUME NEW T \in Nat \ {0}, NEW t \in 0 .. 2 * T - 1
              PROVE  t \div T = IF t < T THEN 0 ELSE 1
  OBVIOUS

LEMMA Div2 == ASSUME NEW T \in Nat \ {0}, NEW t \in -T .. T - 1
              PROVE  t \div T = IF t < 0 THEN -1 ELSE 0
  OBVIOUS

\* Low() on the sums and differences of limbs.
LEMMA LowSum == ASSUME NEW sz \in Size, NEW t \in 0 .. 2 * Top(sz) - 1
                PROVE  Low(t, sz) = IF t < Top(sz) THEN t ELSE t - Top(sz)
  BY Positive, Mod1, Zenon DEF Low

LEMMA LowDifference == ASSUME NEW sz \in Size, NEW t \in -Top(sz) .. Top(sz) - 1
                       PROVE  Low(t, sz) = IF t < 0 THEN t + Top(sz) ELSE t
  BY Positive, Mod2 DEF Low

LEMMA LowLimb == ASSUME NEW sz \in Size, NEW t \in Limb(sz) PROVE Low(t, sz) = t
  BY Positive, LowSum DEF Limb

-----------------------------------------------------------------------------
(***************************************************************************)
(* One limb.  S(v) is the signed value of a limb.                          *)
(***************************************************************************)
S(v, sz) == IF v >= MSB[sz] THEN v - Top(sz) ELSE v

LEMMA OverflowAdd ==
  ASSUME NEW M \in Nat \ {0}, NEW s \in 0 .. 2 * M - 1, NEW d \in 0 .. 2 * M - 1,
         NEW x \in {0, 1}, NEW r \in Int,
         r = IF d + s + x < 2 * M THEN d + s + x ELSE d + s + x - 2 * M
  PROVE  ((s >= M <=> ~(r >= M)) /\ (d >= M <=> ~(r >= M)))
         <=> (IF r >= M THEN r - 2 * M ELSE r)
             # (IF d >= M THEN d - 2 * M ELSE d) + (IF s >= M THEN s - 2 * M ELSE s) + x
  OBVIOUS

LEMMA OverflowSub ==
  ASSUME NEW M \in Nat \ {0}, NEW s \in 0 .. 2 * M - 1, NEW d \in 0 .. 2 * M - 1,
         NEW x \in {0, 1}, NEW r \in Int,
         r = IF d - s - x < 0 THEN d - s - x + 2 * M ELSE d - s - x
  PROVE  ((s >= M <=> ~(d >= M)) /\ (r >= M <=> ~(d >= M)))
         <=> (IF r >= M THEN r - 2 * M ELSE r)
             # (IF d >= M THEN d - 2 * M ELSE d) - (IF s >= M THEN s - 2 * M ELSE s) - x
  OBVIOUS

\* What a limb's instruction must do: exact with its carry c (added or
\* borrowed, by sign), and flags that describe the limb.
LimbOK(o, exact, signed, sz, sign) ==
  /\ o.v \in Limb(sz)
  /\ o.f \in SUBSET CCRBits
  /\ o.v + sign * Extend(o.f) * Top(sz) = exact
  /\ flagN \in o.f <=> o.v >= MSB[sz]
  /\ flagC \in o.f <=> flagX \in o.f
  /\ flagV \in o.f <=> S(o.v, sz) # signed

\* The carry computed from sign bits, or read above the mask, is the carry.
LEMMA AddFlags ==
  ASSUME NEW sz \in Size, NEW s \in Limb(sz), NEW d \in Limb(sz), NEW x \in {0, 1}
  PROVE  LET o == [v |-> Low(d + s + x, sz), f |-> setFlagsAdd(s, d, d + s + x, sz)]
         IN LimbOK(o, d + s + x, S(d, sz) + S(s, sz) + x, sz, 1)
            /\ (flagZ \in o.f <=> o.v = 0)
  <1> DEFINE T == Top(sz)
             M == MSB[sz]
             t == d + s + x
             r == Low(t, sz)
             f == setFlagsAdd(s, d, t, sz)
             carry == IF sz = 4 THEN (Neg(s, sz) /\ Neg(d, sz)) \/ ((Neg(s, sz) \/ Neg(d, sz)) /\ ~Neg(t, sz))
                                ELSE (t \div T) % 2 = 1
  <1>1. M \in Nat \ {0} /\ T = 2 * M /\ T \in Nat \ {0}
    BY Positive DEF Top
  <1>2. s \in 0 .. T - 1 /\ d \in 0 .. T - 1 /\ t \in 0 .. 2 * T - 1
    BY <1>1 DEF Limb
  <1>3. r = IF t < T THEN t ELSE t - T
    BY <1>1, <1>2, LowSum
  <1>4. Low(s, sz) = s /\ Low(d, sz) = d
    BY LowLimb
  <1>5. /\ Neg(s, sz) <=> s >= M
        /\ Neg(d, sz) <=> d >= M
        /\ Neg(t, sz) <=> r >= M
    BY <1>4 DEF Neg
  <1>6. carry <=> t >= T
    <2>1. CASE sz = 4
      <3> HIDE DEF T, M
      <3> QED BY <2>1, <1>1, <1>2, <1>3, <1>5
    <2>2. CASE sz # 4
      <3>1. t \div T = IF t < T THEN 0 ELSE 1
        BY <1>1, <1>2, Div1, Zenon
      <3> QED BY <2>2, <3>1, <1>1, <1>2
    <2> QED BY <2>1, <2>2
  <1>7. /\ flagX \in f <=> carry
        /\ flagC \in f <=> carry
        /\ flagN \in f <=> Neg(t, sz)
        /\ flagZ \in f <=> r = 0
        /\ flagV \in f <=> (Neg(s, sz) <=> ~Neg(t, sz)) /\ (Neg(d, sz) <=> ~Neg(t, sz))
        /\ f \in SUBSET CCRBits
    BY DEF setFlagsAdd, Is, flagX, flagC, flagN, flagZ, flagV, CCRBits
  <1>8. Extend(f) = IF t >= T THEN 1 ELSE 0
    BY <1>6, <1>7 DEF Extend
  <1>9. flagV \in f <=> S(r, sz) # S(d, sz) + S(s, sz) + x
    <2>1. flagV \in f <=> (s >= M <=> ~(r >= M)) /\ (d >= M <=> ~(r >= M))
      BY <1>5, <1>7
    <2>2. ((s >= M <=> ~(r >= M)) /\ (d >= M <=> ~(r >= M)))
          <=> S(r, sz) # S(d, sz) + S(s, sz) + x
      BY <1>1, <1>2, <1>3, OverflowAdd DEF S
    <2> QED BY <2>1, <2>2
  <1>10. r \in Limb(sz) /\ r + 1 * Extend(f) * T = t
    BY <1>1, <1>2, <1>3, <1>8 DEF Limb
  <1> HIDE DEF f, r, T, M, t
  <1> QED BY <1>5, <1>6, <1>7, <1>9, <1>10 DEF LimbOK, f, r, t, T, M

\* The borrow computed from sign bits is the borrow.
LEMMA SubFlags ==
  ASSUME NEW sz \in Size, NEW s \in Limb(sz), NEW d \in Limb(sz), NEW x \in {0, 1}
  PROVE  LET o == [v |-> Low(d - s - x, sz), f |-> setFlagsSub(s, d, d - s - x, sz)]
         IN LimbOK(o, d - s - x, S(d, sz) - S(s, sz) - x, sz, -1)
            /\ (flagZ \in o.f <=> o.v = 0)
  <1> DEFINE T == Top(sz)
             M == MSB[sz]
             t == d - s - x
             r == Low(t, sz)
             f == setFlagsSub(s, d, t, sz)
             borrow == \/ Neg(s, sz) /\ ~Neg(d, sz)
                       \/ Neg(t, sz) /\ ~Neg(d, sz)
                       \/ Neg(s, sz) /\ Neg(t, sz)
  <1>1. M \in Nat \ {0} /\ T = 2 * M /\ T \in Nat \ {0}
    BY Positive DEF Top
  <1>2. s \in 0 .. T - 1 /\ d \in 0 .. T - 1 /\ t \in -T .. T - 1
    BY <1>1 DEF Limb
  <1>3. r = IF t < 0 THEN t + T ELSE t
    BY <1>1, <1>2, LowDifference
  <1>4. Low(s, sz) = s /\ Low(d, sz) = d
    BY LowLimb
  <1>5. /\ Neg(s, sz) <=> s >= M
        /\ Neg(d, sz) <=> d >= M
        /\ Neg(t, sz) <=> r >= M
    BY <1>4 DEF Neg
  <1>6. borrow <=> t < 0
    <2> HIDE DEF T, M
    <2> QED BY <1>1, <1>2, <1>3, <1>5
  <1>7. /\ flagX \in f <=> borrow
        /\ flagC \in f <=> borrow
        /\ flagN \in f <=> Neg(t, sz)
        /\ flagZ \in f <=> r = 0
        /\ flagV \in f <=> (Neg(s, sz) <=> ~Neg(d, sz)) /\ (Neg(t, sz) <=> ~Neg(d, sz))
        /\ f \in SUBSET CCRBits
    BY DEF setFlagsSub, Is, flagX, flagC, flagN, flagZ, flagV, CCRBits
  <1>8. Extend(f) = IF t < 0 THEN 1 ELSE 0
    BY <1>6, <1>7 DEF Extend
  <1>9. flagV \in f <=> S(r, sz) # S(d, sz) - S(s, sz) - x
    <2>1. flagV \in f <=> (s >= M <=> ~(d >= M)) /\ (r >= M <=> ~(d >= M))
      BY <1>5, <1>7
    <2>2. ((s >= M <=> ~(d >= M)) /\ (r >= M <=> ~(d >= M)))
          <=> S(r, sz) # S(d, sz) - S(s, sz) - x
      BY <1>1, <1>2, <1>3, OverflowSub DEF S
    <2> QED BY <2>1, <2>2
  <1>10. r \in Limb(sz) /\ r + (-1) * Extend(f) * T = t
    BY <1>1, <1>2, <1>3, <1>8 DEF Limb
  <1> HIDE DEF f, r, T, M, t
  <1> QED BY <1>5, <1>6, <1>7, <1>9, <1>10 DEF LimbOK, f, r, t, T, M

\* The extended forms differ in Z alone.
LEMMA KeepZFlags ==
  ASSUME NEW cc \in SUBSET CCRBits, NEW f \in SUBSET CCRBits, NEW t \in Int, NEW sz \in Size,
         flagZ \in f <=> Low(t, sz) = 0
  PROVE  LET g == KeepZ(cc, f, t, sz)
         IN /\ g \in SUBSET CCRBits
            /\ \A fl \in {flagX, flagN, flagV, flagC} : fl \in g <=> fl \in f
            /\ flagZ \in g <=> flagZ \in cc /\ Low(t, sz) = 0
  BY DEF KeepZ, flagX, flagC, flagN, flagZ, flagV, CCRBits

LEMMA AddxLimb ==
  ASSUME NEW sz \in Size, NEW s \in Limb(sz), NEW d \in Limb(sz), NEW cc \in SUBSET CCRBits
  PROVE  LET o == addx(cc, s, d, sz)
         IN LimbOK(o, d + s + Extend(cc), S(d, sz) + S(s, sz) + Extend(cc), sz, 1)
            /\ (flagZ \in o.f <=> flagZ \in cc /\ o.v = 0)
  <1> DEFINE x == Extend(cc)
             t == d + s + x
             f == setFlagsAdd(s, d, t, sz)
             p == [v |-> Low(t, sz), f |-> f]
             g == KeepZ(cc, f, t, sz)
             o == [v |-> Low(t, sz), f |-> g]
  <1>1. x \in {0, 1} /\ t \in Int
    BY Positive DEF Extend, Limb
  <1>2. LimbOK(p, t, S(d, sz) + S(s, sz) + x, sz, 1) /\ (flagZ \in p.f <=> p.v = 0)
    BY <1>1, AddFlags, Zenon
  <1>3. f \in SUBSET CCRBits /\ (flagZ \in f <=> Low(t, sz) = 0)
    BY <1>2 DEF LimbOK
  <1>4. /\ g \in SUBSET CCRBits
        /\ \A fl \in {flagX, flagN, flagV, flagC} : fl \in g <=> fl \in f
        /\ flagZ \in g <=> flagZ \in cc /\ Low(t, sz) = 0
    BY <1>1, <1>3, KeepZFlags, Zenon
  <1>5. Extend(g) = Extend(f)
    BY <1>4 DEF Extend
  <1>6. addx(cc, s, d, sz) = o
    BY DEF addx
  <1> HIDE DEF x, t, f, g
  <1> QED BY <1>2, <1>4, <1>5, <1>6 DEF LimbOK, x, t

LEMMA SubxLimb ==
  ASSUME NEW sz \in Size, NEW s \in Limb(sz), NEW d \in Limb(sz), NEW cc \in SUBSET CCRBits
  PROVE  LET o == subx(cc, s, d, sz)
         IN LimbOK(o, d - s - Extend(cc), S(d, sz) - S(s, sz) - Extend(cc), sz, -1)
            /\ (flagZ \in o.f <=> flagZ \in cc /\ o.v = 0)
  <1> DEFINE x == Extend(cc)
             t == d - s - x
             f == setFlagsSub(s, d, t, sz)
             p == [v |-> Low(t, sz), f |-> f]
             g == KeepZ(cc, f, t, sz)
             o == [v |-> Low(t, sz), f |-> g]
  <1>1. x \in {0, 1} /\ t \in Int
    BY Positive DEF Extend, Limb
  <1>2. LimbOK(p, t, S(d, sz) - S(s, sz) - x, sz, -1) /\ (flagZ \in p.f <=> p.v = 0)
    BY <1>1, SubFlags, Zenon
  <1>3. f \in SUBSET CCRBits /\ (flagZ \in f <=> Low(t, sz) = 0)
    BY <1>2 DEF LimbOK
  <1>4. /\ g \in SUBSET CCRBits
        /\ \A fl \in {flagX, flagN, flagV, flagC} : fl \in g <=> fl \in f
        /\ flagZ \in g <=> flagZ \in cc /\ Low(t, sz) = 0
    BY <1>1, <1>3, KeepZFlags, Zenon
  <1>5. Extend(g) = Extend(f)
    BY <1>4 DEF Extend
  <1>6. subx(cc, s, d, sz) = o
    BY DEF subx
  <1> HIDE DEF x, t, f, g
  <1> QED BY <1>2, <1>4, <1>5, <1>6 DEF LimbOK, x, t

-----------------------------------------------------------------------------
(***************************************************************************)
(* Appending a limb to a number: w is the weight of the limb, R its radix. *)
(***************************************************************************)
LEMMA Append ==
  ASSUME NEW w \in Nat \ {0}, NEW R \in Nat \ {0}, NEW a \in 0 .. w - 1, NEW d \in 0 .. R - 1
  PROVE  /\ w * R \in Nat \ {0}
         /\ a + w * d \in 0 .. w * R - 1
         /\ a + w * d = 0 <=> a = 0 /\ d = 0
  <1>1. w * d \in Nat /\ w * R \in Nat /\ w * R >= w
    OBVIOUS
  <1>2. w * d <= w * (R - 1)
    OBVIOUS
  <1>3. w * (R - 1) = w * R - w
    OBVIOUS
  <1>4. d # 0 => w * d >= w
    OBVIOUS
  <1>5. d = 0 => w * d = 0
    OBVIOUS
  <1> QED BY <1>1, <1>2, <1>3, <1>4, <1>5

\* The sign of the number is the sign of its last limb.
LEMMA AppendSign ==
  ASSUME NEW w \in Nat \ {0}, NEW M \in Nat \ {0}, NEW a \in 0 .. w - 1, NEW d \in 0 .. 2 * M - 1
  PROVE  2 * (a + w * d) < w * (2 * M) <=> d < M
  <1>1. w * (2 * M) = 2 * (w * M) /\ w * d \in Nat /\ w * M \in Nat
    OBVIOUS
  <1>2. CASE d < M
    <2>1. w * d <= w * (M - 1)
      BY <1>2
    <2>2. w * (M - 1) = w * M - w
      OBVIOUS
    <2> QED BY <1>1, <1>2, <2>1, <2>2
  <1>3. CASE d >= M
    <2>1. w * d >= w * M
      BY <1>3
    <2> QED BY <1>1, <1>3, <2>1
  <1> QED BY <1>2, <1>3

LEMMA AppendSum ==
  ASSUME NEW w \in Nat \ {0}, NEW R \in Nat \ {0},
         NEW a \in Int, NEW b \in Int, NEW r \in Int, NEW cin \in Int, NEW x \in {0, 1},
         NEW s \in Int, NEW d \in Int, NEW v \in Int, NEW c \in {0, 1},
         r + x * w = a + b + cin,
         v + c * R = d + s + x
  PROVE  (r + w * v) + c * (w * R) = (a + w * d) + (b + w * s) + cin
  <1>1. w * (v + c * R) = w * v + c * (w * R)
    OBVIOUS
  <1>2. w * (d + s + x) = w * d + w * s + x * w
    OBVIOUS
  <1> QED BY <1>1, <1>2

LEMMA AppendDifference ==
  ASSUME NEW w \in Nat \ {0}, NEW R \in Nat \ {0},
         NEW a \in Int, NEW b \in Int, NEW r \in Int, NEW cin \in Int, NEW x \in {0, 1},
         NEW s \in Int, NEW d \in Int, NEW v \in Int, NEW c \in {0, 1},
         r - x * w = a - b - cin,
         v - c * R = d - s - x
  PROVE  (r + w * v) - c * (w * R) = (a + w * d) - (b + w * s) - cin
  <1>1. w * (v - c * R) = w * v - c * (w * R)
    OBVIOUS
  <1>2. w * (d - s - x) = w * d - w * s - x * w
    OBVIOUS
  <1> QED BY <1>1, <1>2

\* Signed values: equal limbs above, equal numbers.
LEMMA SignedSum ==
  ASSUME NEW w \in Nat \ {0}, NEW a \in Int, NEW b \in Int, NEW r \in Int, NEW cin \in Int,
         NEW x \in {0, 1}, NEW s \in Int, NEW d \in Int, NEW v \in Int,
         r + x * w = a + b + cin
  PROVE  r + w * v = (a + w * d) + (b + w * s) + cin <=> v = d + s + x
  <1>1. w * (d + s + x) = w * d + w * s + x * w
    OBVIOUS
  <1>2. w * v = w * (d + s + x) <=> v = d + s + x
    OBVIOUS
  <1> QED BY <1>1, <1>2

LEMMA SignedDifference ==
  ASSUME NEW w \in Nat \ {0}, NEW a \in Int, NEW b \in Int, NEW r \in Int, NEW cin \in Int,
         NEW x \in {0, 1}, NEW s \in Int, NEW d \in Int, NEW v \in Int,
         r - x * w = a - b - cin
  PROVE  r + w * v = (a + w * d) - (b + w * s) - cin <=> v = d - s - x
  <1>1. w * (d - s - x) = w * d - w * s - x * w
    OBVIOUS
  <1>2. w * v = w * (d - s - x) <=> v = d - s - x
    OBVIOUS
  <1> QED BY <1>1, <1>2

-----------------------------------------------------------------------------
(***************************************************************************)
(* One decimal limb.                                                       *)
(***************************************************************************)
LEMMA DivMod == ASSUME NEW T \in Nat \ {0}, NEW t \in Int
                PROVE  /\ t \div T \in Int /\ t % T \in 0 .. T - 1
                       /\ t = T * (t \div T) + (t % T)
  OBVIOUS

\* Division with remainder is unique.
LEMMA Digit == ASSUME NEW T \in Nat \ {0}, NEW h \in Int, NEW l \in 0 .. T - 1
               PROVE  (T * h + l) \div T = h /\ (T * h + l) % T = l
  <1> DEFINE t == T * h + l
             q == t \div T
             m == t % T
  <1>1. t = T * q + m /\ q \in Int /\ m \in 0 .. T - 1
    <2>1. t \in Int
      OBVIOUS
    <2> HIDE DEF t
    <2> QED BY <2>1, DivMod
  <1> HIDE DEF q, m
  <1>2. T * (h - q) = m - l
    BY <1>1
  <1>3. CASE h - q >= 1
    <2>1. T * (h - q) >= T
      BY <1>1, <1>3
    <2> QED BY <1>1, <1>2, <2>1
  <1>4. CASE h - q <= -1
    <2>1. T * (h - q) <= -T
      BY <1>1, <1>4
    <2> QED BY <1>1, <1>2, <2>1
  <1> QED BY <1>1, <1>2, <1>3, <1>4 DEF q, m

LEMMA Radix == /\ Nib \in Nat \ {0} /\ Base \in Nat \ {0} /\ Base <= Nib
               /\ Top(1) = Nib * Nib /\ Nib * Nib \in Nat \ {0}
               /\ Base * Base \in Nat \ {0}
  BY Digits DEF Top

\* The byte with digits h and l, wrapped or not, is that byte.
LEMMA Byte ==
  ASSUME NEW h \in 0 .. Base - 1, NEW l \in 0 .. Base - 1, NEW n \in {-1, 0, 1}
  PROVE  /\ Low(Nib * Nib * n + (Nib * h + l), 1) = Nib * h + l
         /\ IsBcd(Nib * h + l)
         /\ Dec(Nib * h + l) = Base * h + l
         /\ Base * h + l \in 0 .. Base * Base - 1
         /\ Nib * h + l = 0 <=> Base * h + l = 0
  <1>1. Nib * h + l \in 0 .. Nib * Nib - 1
    <2>1. Nib * h <= Nib * (Nib - 1)
      BY Radix
    <2>2. Nib * (Nib - 1) = Nib * Nib - Nib
      BY Radix
    <2>3. Nib * h \in Nat
      BY Radix
    <2> QED BY <2>1, <2>2, <2>3, Radix
  <1>2. Low(Nib * Nib * n + (Nib * h + l), 1) = Nib * h + l
    <2> DEFINE T == Nib * Nib
               l2 == Nib * h + l
    <2>1. T \in Nat \ {0} /\ l2 \in 0 .. T - 1 /\ n \in Int
      BY <1>1, Radix
    <2> HIDE DEF T, l2
    <2>2. (T * n + l2) % T = l2
      BY <2>1, Digit
    <2> QED BY <2>2, Radix DEF Low, T, l2
  <1>3. (Nib * h + l) \div Nib = h /\ (Nib * h + l) % Nib = l
    BY Radix, Digit
  <1>4. /\ Base * h + l \in 0 .. Base * Base - 1
        /\ Nib * h + l = 0 <=> h = 0 /\ l = 0
        /\ Base * h + l = 0 <=> h = 0 /\ l = 0
    <2>1. Base * h <= Base * (Base - 1) /\ Base * (Base - 1) = Base * Base - Base
      BY Radix
    <2>2. /\ Base * h \in Nat /\ Nib * h \in Nat
          /\ h # 0 => Base * h >= Base /\ Nib * h >= Nib
          /\ h = 0 => Base * h = 0 /\ Nib * h = 0
      BY Radix
    <2> QED BY <2>1, <2>2, Radix
  <1>5. IsBcd(Nib * h + l) /\ Dec(Nib * h + l) = Base * h + l
    <2> HIDE DEF IsBcd
    <2>1. h < Base /\ l < Base
      BY Radix
    <2> QED BY <2>1, <1>3 DEF IsBcd, Dec
  <1> QED BY <1>2, <1>4, <1>5

DecimalOK(o, cc, exact, sign) ==
  /\ o.v \in Limb(1) /\ IsBcd(o.v) /\ o.f \in SUBSET CCRBits
  /\ Dec(o.v) \in 0 .. Base * Base - 1
  /\ Dec(o.v) + sign * Extend(o.f) * (Base * Base) = exact
  /\ flagZ \in o.f <=> flagZ \in cc /\ Dec(o.v) = 0

LEMMA BcdFlagsOK ==
  ASSUME NEW cc \in SUBSET CCRBits, NEW carry \in BOOLEAN, NEW over \in BOOLEAN, NEW r8 \in Int
  PROVE  LET f == BcdFlags(cc, carry, over, r8)
         IN /\ f \in SUBSET CCRBits
            /\ flagX \in f <=> carry
            /\ flagZ \in f <=> flagZ \in cc /\ r8 = 0
  BY DEF BcdFlags, Is, flagX, flagC, flagN, flagZ, flagV, CCRBits

LEMMA BcdAddLimb ==
  ASSUME NEW s \in Limb(1), NEW d \in Limb(1), IsBcd(s), IsBcd(d), NEW cc \in SUBSET CCRBits
  PROVE  DecimalOK(bcdAdd(cc, s, d), cc, Dec(d) + Dec(s) + Extend(cc), 1)
  <1> DEFINE x == Extend(cc)
             sh == s \div Nib
             sl == s % Nib
             dh == d \div Nib
             dl == d % Nib
             sum == sl + dl + x
             lo == IF sum >= Base THEN sum + (Nib - Base) ELSE sum
             hi == sh + dh + (lo \div Nib)
             carry == hi >= Base
             hi2 == IF carry THEN hi + (Nib - Base) ELSE hi
             r8 == Low(hi2 * Nib + (lo % Nib), 1)
             over == ~Neg(s + d + x, 1) /\ r8 >= MSB[1]
             rh == IF carry THEN hi - Base ELSE hi
             rl == IF sum >= Base THEN sum - Base ELSE sum
  <1>1. bcdAdd(cc, s, d) = [v |-> r8, f |-> BcdFlags(cc, carry, over, r8)]
    BY DEF bcdAdd
  <1>2. /\ sh \in 0 .. Base - 1 /\ sl \in 0 .. Base - 1 /\ dh \in 0 .. Base - 1
        /\ dl \in 0 .. Base - 1 /\ x \in {0, 1}
    <2>1. s \in 0 .. Nib * Nib - 1 /\ d \in 0 .. Nib * Nib - 1
      BY Radix DEF Limb
    <2>2. s \div Nib >= 0 /\ d \div Nib >= 0 /\ s \div Nib \in Int /\ d \div Nib \in Int
      BY <2>1, Radix
    <2>3. s % Nib \in Nat /\ d % Nib \in Nat
      BY <2>1, Radix, DivMod
    <2> QED BY <2>2, <2>3, Radix DEF IsBcd, Extend
  <1> HIDE DEF sh, sl, dh, dl, x
  <1>3. /\ lo \div Nib = IF sum >= Base THEN 1 ELSE 0
        /\ lo % Nib = rl
        /\ rl \in 0 .. Base - 1
    <2>1. lo \in 0 .. 2 * Nib - 1
      BY <1>2, Radix
    <2>2. lo \div Nib = (IF lo < Nib THEN 0 ELSE 1) /\ lo % Nib = (IF lo < Nib THEN lo ELSE lo - Nib)
      BY <2>1, Radix, Div1, Mod1, Zenon
    <2> QED BY <2>2, <1>2, Radix
  <1>4. rh \in 0 .. Base - 1 /\ hi \in 0 .. 2 * Base - 1
    BY <1>2, <1>3, Radix
  <1>5. hi2 * Nib + (lo % Nib) = Nib * Nib * (IF carry THEN 1 ELSE 0) + (Nib * rh + rl)
    <2>1. CASE carry
      <3>1. hi2 = Nib + rh
        BY <2>1, <1>4, Radix
      <3>2. (Nib + rh) * Nib = Nib * Nib + Nib * rh
        BY <1>4, Radix
      <3> HIDE DEF hi2, rh, hi, lo, rl, carry
      <3> QED BY <3>1, <3>2, <2>1, <1>3, <1>4, Radix
    <2>2. CASE ~carry
      BY <2>2, <1>3, <1>4, Radix
    <2> QED BY <2>1, <2>2
  <1>6. r8 = Nib * rh + rl
    <2> HIDE DEF hi2, rh, hi, lo, rl
    <2> QED BY <1>3, <1>4, <1>5, Byte
  <1>7. /\ IsBcd(r8) /\ Dec(r8) = Base * rh + rl
        /\ Base * rh + rl \in 0 .. Base * Base - 1
        /\ r8 = 0 <=> Dec(r8) = 0
    <2> HIDE DEF rh, rl, r8
    <2> QED BY <1>3, <1>4, <1>6, Byte
  <1>8. r8 \in Limb(1) /\ r8 \in Int
    <2> HIDE DEF hi2, lo
    <2>1. hi2 * Nib + (lo % Nib) \in Int
      BY <1>3, <1>4, Radix DEF hi2
    <2> DEFINE u == hi2 * Nib + (lo % Nib)
               T == Nib * Nib
    <2>2. u \in Int /\ T \in Nat \ {0}
      BY <2>1, Radix
    <2>3. r8 = u % T
      BY Radix DEF Low
    <2> HIDE DEF u, T
    <2>4. u % T \in 0 .. T - 1
      BY <2>2, DivMod
    <2> QED BY <2>3, <2>4, Radix DEF Limb, T
  <1>9. Base * rh + rl + (IF carry THEN 1 ELSE 0) * (Base * Base) = (Base * dh + dl) + (Base * sh + sl) + x
    <2> DEFINE c1 == IF sum >= Base THEN 1 ELSE 0
               c2 == IF carry THEN 1 ELSE 0
    <2>1. rh + c2 * Base = sh + dh + c1 /\ rl + c1 * Base = sl + dl + x
      <3>1. hi = sh + dh + c1
        BY <1>3
      <3>2. rl + c1 * Base = sl + dl + x
        BY <1>2, Radix
      <3>3. hi \in Int /\ rh = (IF hi >= Base THEN hi - Base ELSE hi) /\ c2 = IF hi >= Base THEN 1 ELSE 0
        BY <1>4
      <3> HIDE DEF hi, c1, c2, rh, rl
      <3>4. rh + c2 * Base = hi
        BY <3>3, Radix
      <3> QED BY <3>1, <3>2, <3>4
    <2>2. c1 \in {0, 1} /\ c2 \in {0, 1}
      OBVIOUS
    <2> HIDE DEF c1, c2, rh, rl
    <2>3. Base * (rh + c2 * Base) = Base * rh + c2 * (Base * Base)
      BY <1>4, <2>2, Radix
    <2>4. Base * (sh + dh + c1) = Base * sh + Base * dh + c1 * Base
      BY <1>2, <2>2, Radix
    <2>5. Base * rh + rl + c2 * (Base * Base) = (Base * dh + dl) + (Base * sh + sl) + x
      BY <1>2, <1>3, <1>4, <2>1, <2>2, <2>3, <2>4, Radix
    <2> QED BY <2>5 DEF c2
  <1>10. LET f == BcdFlags(cc, carry, over, r8)
         IN /\ f \in SUBSET CCRBits
            /\ Extend(f) = IF carry THEN 1 ELSE 0
            /\ flagZ \in f <=> flagZ \in cc /\ r8 = 0
    <2> HIDE DEF r8, carry, over
    <2>1. carry \in BOOLEAN /\ over \in BOOLEAN
      BY DEF carry, over
    <2> QED BY <1>8, <2>1, BcdFlagsOK DEF Extend
  <1>11. Dec(s) = Base * sh + sl /\ Dec(d) = Base * dh + dl
    BY DEF Dec, sh, sl, dh, dl
  <1> HIDE DEF r8, carry, over, rh, rl
  <1> QED BY <1>1, <1>7, <1>8, <1>9, <1>10, <1>11 DEF DecimalOK, x

\* One borrowed digit: the correction of binary subtraction.  e is the high
\* digit's difference after the low digit's borrow.
LEMMA BcdSubLimb ==
  ASSUME NEW s \in Limb(1), NEW d \in Limb(1), IsBcd(s), IsBcd(d), NEW cc \in SUBSET CCRBits
  PROVE  DecimalOK(bcdSub(cc, s, d), cc, Dec(d) - Dec(s) - Extend(cc), -1)
  <1> DEFINE x == Extend(cc)
             sh == s \div Nib
             sl == s % Nib
             dh == d \div Nib
             dl == d % Nib
             T == Nib * Nib
             binary == d - s - x
             lo == dl - sl - x
             fixed == IF (lo \div Nib) % 2 = 1 THEN binary - (Nib - Base) ELSE binary
             binBorrow == d < s + x
             borrow == binBorrow \/ (fixed \div Top(1)) % 2 = 1
             u == IF binBorrow THEN fixed - (Nib - Base) * Nib ELSE fixed
             r8 == Low(u, 1)
             over == Neg(binary, 1) /\ r8 < MSB[1]
             c1 == IF lo < 0 THEN 1 ELSE 0
             e == dh - sh - c1
             c2 == IF e < 0 THEN 1 ELSE 0
             rl == lo + c1 * Base
             rh == e + c2 * Base
  <1>1. bcdSub(cc, s, d) = [v |-> r8, f |-> BcdFlags(cc, borrow, over, r8)]
    BY DEF bcdSub
  <1>2. /\ sh \in 0 .. Base - 1 /\ sl \in 0 .. Base - 1 /\ dh \in 0 .. Base - 1
        /\ dl \in 0 .. Base - 1 /\ x \in {0, 1}
        /\ s = Nib * sh + sl /\ d = Nib * dh + dl
    <2>1. s \in 0 .. Nib * Nib - 1 /\ d \in 0 .. Nib * Nib - 1
      BY Radix DEF Limb
    <2>2. s \div Nib >= 0 /\ d \div Nib >= 0 /\ s \div Nib \in Int /\ d \div Nib \in Int
      BY <2>1, Radix
    <2>3. s % Nib \in Nat /\ d % Nib \in Nat
      BY <2>1, Radix, DivMod
    <2>4. s = Nib * sh + sl /\ d = Nib * dh + dl
      BY <2>1, Radix, DivMod
    <2> QED BY <2>2, <2>3, <2>4, Radix DEF IsBcd, Extend
  <1> HIDE DEF sh, sl, dh, dl, x
  <1>3. lo \in -Base .. Base - 1 /\ c1 \in {0, 1} /\ c2 \in {0, 1}
        /\ e \in -Base .. Base - 1 /\ rl \in 0 .. Base - 1 /\ rh \in 0 .. Base - 1
    BY <1>2, Radix
  <1>4. (lo \div Nib) % 2 = 1 <=> lo < 0
    <2> HIDE DEF lo
    <2>0. lo \in -Nib .. Nib - 1
      BY <1>3, Radix
    <2>1. lo \div Nib = IF lo < 0 THEN -1 ELSE 0
      BY <2>0, Radix, Div2, Zenon
    <2> QED BY <2>1
  <1>5. binary = Nib * e + (lo + c1 * Nib) /\ fixed = Nib * e + rl
    <2>1. binary = Nib * (dh - sh) + lo
      BY <1>2, Radix
    <2>2. Nib * (dh - sh) = Nib * e + c1 * Nib
      <3>1. dh - sh = e + c1
        BY <1>2, <1>3
      <3> HIDE DEF e, c1
      <3> QED BY <3>1, <1>3, Radix
    <2>3. Nib * e \in Int
      BY <1>3, Radix
    <2>4. fixed = binary - c1 * (Nib - Base)
      BY <1>2, <1>3, <1>4, Radix
    <2>5. c1 * (Nib - Base) = c1 * Nib - c1 * Base
      BY <1>3, Radix
    <2> HIDE DEF binary, fixed, e
    <2> QED BY <1>2, <1>3, <2>1, <2>2, <2>3, <2>4, <2>5, Radix
  <1>6. binBorrow <=> e < 0
    <2>1. binBorrow <=> binary < 0
      BY <1>2, Radix
    <2>2. lo + c1 * Nib \in 0 .. Nib - 1
      BY <1>3, Radix
    <2>3. e < 0 => Nib * e <= -Nib
      BY <1>3, Radix
    <2>4. e >= 0 => Nib * e >= 0
      BY <1>3, Radix
    <2>5. Nib * e \in Int
      BY <1>3, Radix
    <2> HIDE DEF binBorrow, binary, e, lo, c1
    <2> QED BY <1>3, <1>5, <2>1, <2>2, <2>3, <2>4, <2>5, Radix
  <1>7. borrow <=> e < 0
    <2>1. Nib * e \in Int /\ (e < 0 => Nib * e <= -Nib) /\ (e >= 0 => Nib * e >= 0)
      BY <1>3, Radix
    <2>2. Nib * e <= Nib * (Nib - 1) /\ Nib * (Nib - 1) = T - Nib
      BY <1>3, Radix
    <2>3. Nib * e >= Nib * (-Nib) /\ Nib * (-Nib) = -T
      BY <1>3, Radix
    <2>4. T \in Nat \ {0}
      BY Radix
    <2> HIDE DEF T
    <2>5. fixed \in -T .. T - 1 /\ (fixed < 0 <=> e < 0)
      <3> HIDE DEF fixed, e, rl
      <3> QED BY <1>3, <1>5, <2>1, <2>2, <2>3, <2>4, Radix
    <2>6. Top(1) = T
      BY Radix DEF T
    <2> HIDE DEF fixed, binBorrow, e
    <2>7. fixed \div T = IF fixed < 0 THEN -1 ELSE 0
      BY <2>4, <2>5, Div2
    <2> QED BY <1>6, <2>5, <2>6, <2>7
  <1>8. u = T * ((-1) * c2) + (Nib * rh + rl)
    <2>1. CASE e < 0
      <3>1. (Nib - Base) * Nib = T - Base * Nib
        BY Radix
      <3>2. Nib * rh = Nib * e + Base * Nib /\ Nib * e \in Int /\ Base * Nib \in Int
        BY <2>1, <1>3, Radix
      <3>3. u = fixed - (Nib - Base) * Nib
        BY <2>1, <1>6
      <3>4. T * ((-1) * c2) = -T /\ T \in Int
        BY <2>1, Radix
      <3> HIDE DEF u, fixed, rl, rh, T, e
      <3> QED BY <1>3, <1>5, <3>1, <3>2, <3>3, <3>4
    <2>2. CASE e >= 0
      <3>1. u = fixed
        BY <2>2, <1>3, <1>6
      <3>1a. rh = e
        <4> HIDE DEF e
        <4> QED BY <2>2, <1>3, Radix
      <3>2. T * ((-1) * c2) = 0
        BY <2>2, <1>3, Radix
      <3>3. Nib * e \in Int
        BY <1>3, Radix
      <3> HIDE DEF u, fixed, rl, rh, T, e, c2
      <3> QED BY <1>3, <1>5, <3>1, <3>1a, <3>2, <3>3
    <2> QED BY <1>3, <2>1, <2>2
  <1>9. r8 = Nib * rh + rl
    <2>1. (-1) * c2 \in {-1, 0, 1}
      BY <1>3
    <2> HIDE DEF u, rh, rl, c2
    <2> QED BY <1>3, <1>8, <2>1, Byte DEF T
  <1>10. /\ IsBcd(r8) /\ Dec(r8) = Base * rh + rl
         /\ Base * rh + rl \in 0 .. Base * Base - 1
         /\ r8 = 0 <=> Dec(r8) = 0
    <2> HIDE DEF rh, rl, r8
    <2> QED BY <1>3, <1>9, Byte
  <1>11. r8 \in Limb(1) /\ r8 \in Int
    <2>1. u \in Int
      BY <1>3, <1>8, Radix
    <2>2. r8 = u % T /\ T \in Nat \ {0}
      BY Radix DEF Low
    <2> HIDE DEF u, T, r8
    <2>3. u % T \in 0 .. T - 1
      BY <2>1, <2>2, DivMod
    <2> QED BY <2>2, <2>3, Radix DEF Limb, T
  <1>12. Base * rh + rl + (-1) * c2 * (Base * Base) = (Base * dh + dl) - (Base * sh + sl) - x
    <2>1. rh - c2 * Base = dh - sh - c1 /\ rl - c1 * Base = dl - sl - x
      <3> HIDE DEF c1, c2
      <3> QED BY <1>2, <1>3, Radix
    <2> HIDE DEF c1, c2, rh, rl
    <2>2. Base * (rh - c2 * Base) = Base * rh - c2 * (Base * Base)
      BY <1>3, Radix
    <2>3. Base * (dh - sh - c1) = Base * dh - Base * sh - c1 * Base
      BY <1>2, <1>3, Radix
    <2> QED BY <1>2, <1>3, <2>1, <2>2, <2>3, Radix
  <1>13. LET f == BcdFlags(cc, borrow, over, r8)
         IN /\ f \in SUBSET CCRBits
            /\ Extend(f) = c2
            /\ flagZ \in f <=> flagZ \in cc /\ r8 = 0
    <2>1. borrow \in BOOLEAN /\ over \in BOOLEAN
      OBVIOUS
    <2>2. c2 = IF borrow THEN 1 ELSE 0
      BY <1>7
    <2> HIDE DEF r8, borrow, over, c2
    <2> QED BY <1>11, <2>1, <2>2, BcdFlagsOK DEF Extend
  <1>14. Dec(s) = Base * sh + sl /\ Dec(d) = Base * dh + dl
    BY DEF Dec, sh, sl, dh, dl
  <1> HIDE DEF r8, borrow, over, rh, rl, c2
  <1> QED BY <1>1, <1>10, <1>11, <1>12, <1>13, <1>14 DEF DecimalOK, x

-----------------------------------------------------------------------------
(***************************************************************************)
(* The chain.  Fresh is what a plain first instruction relies on.          *)
(***************************************************************************)
Fresh == k = 0 => weight = 1 /\ dst = 0 /\ src = 0 /\ res = 0

Inv == TypeOK /\ ChainExact /\ ZeroOfWhole /\ FlagsOfWhole /\ Fresh

\* v as a signed number below the weight w.
SignedBelow(v, w) == IF 2 * v < w THEN v ELSE v - w

LEMMA SignedNumber ==
  ASSUME NEW w \in Nat \ {0}, NEW sz \in Size, NEW a \in 0 .. w - 1, NEW d \in Limb(sz)
  PROVE  /\ SignedBelow(a + w * d, w * Top(sz)) = a + w * S(d, sz)
         /\ 2 * (a + w * d) < w * Top(sz) <=> d < MSB[sz]
  <1> DEFINE M == MSB[sz]
  <1>1. M \in Nat \ {0} /\ Top(sz) = 2 * M /\ d \in 0 .. 2 * M - 1
    BY Positive DEF Top, Limb
  <1>2. 2 * (a + w * d) < w * (2 * M) <=> d < M
    <2> HIDE DEF M
    <2> QED BY <1>1, AppendSign
  <1>3. w * (d - 2 * M) = w * d - w * (2 * M) /\ w * d \in Int /\ w * (2 * M) \in Int
    BY <1>1
  <1> QED BY <1>1, <1>2, <1>3 DEF S, SignedBelow

LEMMA DecRange == ASSUME NEW b \in Limb(1), IsBcd(b) PROVE Dec(b) \in 0 .. Base * Base - 1
  <1> DEFINE h == b \div Nib
             l == b % Nib
  <1>1. h \in 0 .. Base - 1 /\ l \in 0 .. Base - 1
    <2>1. b \in 0 .. Nib * Nib - 1
      BY Radix DEF Limb
    <2>2. h >= 0 /\ h \in Int
      BY <2>1, Radix
    <2>3. l \in Nat
      BY <2>1, Radix, DivMod
    <2> QED BY <2>2, <2>3, Radix DEF IsBcd
  <1> HIDE DEF h, l
  <1> QED BY <1>1, Byte DEF Dec, h, l

\* What a limb adds to the numbers keeps their types.
LEMMA Joined ==
  ASSUME TypeOK, NEW R \in Nat \ {0}, NEW s \in 0 .. R - 1, NEW d \in 0 .. R - 1,
         NEW v \in 0 .. R - 1, Record(R, s, d, v),
         ccr' \in SUBSET CCRBits, xin' \in {0, 1}, zin' \in BOOLEAN
  PROVE  TypeOK' /\ (res' = 0 <=> res = 0 /\ v = 0) /\ k' > 0 /\ Fresh'
  <1>1. weight' \in Nat \ {0} /\ dst' \in 0 .. weight' - 1 /\ src' \in 0 .. weight' - 1
        /\ res' \in 0 .. weight' - 1 /\ (res' = 0 <=> res = 0 /\ v = 0)
    BY Append DEF TypeOK, Record
  <1>2. k' \in Nat /\ k' > 0 /\ prog' \in Programs
    BY DEF TypeOK, Record
  <1>3. Fresh'
    BY <1>2 DEF Fresh
  <1>4. TypeOK'
    BY <1>1, <1>2, Zenon DEF TypeOK
  <1> QED BY <1>1, <1>2, <1>3, <1>4

LEMMA SumStep ==
  ASSUME Inv, prog.kind \in {"add"}, NEW s \in Limb(prog.sz), NEW d \in Limb(prog.sz),
         NEW x \in {0, 1}, NEW z \in BOOLEAN, NEW o,
         LimbOK(o, d + s + x, S(d, prog.sz) + S(s, prog.sz) + x, prog.sz, 1),
         flagZ \in o.f <=> z /\ o.v = 0,
         Record(Top(prog.sz), s, d, o.v), ccr' = o.f,
         xin' \in {0, 1}, zin' \in BOOLEAN,
         res + x * weight = dst + src + xin', z <=> zin' /\ res = 0
  PROVE  Inv'
  <1> DEFINE sz == prog.sz
             R == Top(sz)
             c == Extend(o.f)
  <1>1. sz \in Size /\ R \in Nat \ {0} /\ MSB[sz] \in Nat \ {0} /\ R = 2 * MSB[sz]
    BY ChainBounds, Positive DEF Inv, TypeOK, Top
  <1>2. s \in 0 .. R - 1 /\ d \in 0 .. R - 1 /\ o.v \in 0 .. R - 1 /\ c \in {0, 1}
    BY DEF LimbOK, Limb, Extend
  <1> HIDE DEF R, c
  <1>3. TypeOK' /\ (res' = 0 <=> res = 0 /\ o.v = 0) /\ k' > 0 /\ Fresh'
    BY <1>1, <1>2, Joined DEF Inv, LimbOK, R
  <1>4. Sum' /\ prog' = prog /\ prog'.kind \notin Decimal
    BY DEF Record, Sum, Decimal
  <1>5. weight \in Nat \ {0} /\ res \in Int /\ dst \in Int /\ src \in Int /\ xin' \in Int
    BY DEF Inv, TypeOK
  <1>6. o.v + c * R = d + s + x
    BY <1>1, <1>2 DEF LimbOK, c, R
  <1>7. ChainExact'
    <2>1. (res + weight * o.v) + c * (weight * R) = (dst + weight * d) + (src + weight * s) + xin'
      <3> DEFINE v == o.v
      <3>1. v \in Int /\ s \in Int /\ d \in Int /\ v + c * R = d + s + x
        BY <1>1, <1>2, <1>6
      <3> HIDE DEF v
      <3>2. (res + weight * v) + c * (weight * R) = (dst + weight * d) + (src + weight * s) + xin'
        <4> DEFINE cin == xin'
        <4>1. cin \in Int /\ res + x * weight = dst + src + cin
          BY <1>5, Zenon
        <4> HIDE DEF cin
        <4>2. (res + weight * v) + c * (weight * R) = (dst + weight * d) + (src + weight * s) + cin
          <5>1. R \in Nat \ {0} /\ c \in {0, 1} /\ s \in Int /\ d \in Int /\ v \in Int
            BY <1>1, <1>2, <3>1
          <5>2. v + c * R = d + s + x
            BY <3>1
          <5> QED BY <1>5, <4>1, <5>1, <5>2, AppendSum
        <4> QED BY <4>2 DEF cin
      <3> QED BY <3>2 DEF v
    <2> QED BY <1>4, <2>1 DEF ChainExact, Record, c, R
  <1>8. ZeroOfWhole'
    BY <1>3 DEF ZeroOfWhole
  <1>9. FlagsOfWhole'
    <2>1. /\ AsSigned(res)' = res + weight * S(o.v, sz)
          /\ AsSigned(dst)' = dst + weight * S(d, sz)
          /\ AsSigned(src)' = src + weight * S(s, sz)
          /\ 2 * res' < weight' <=> o.v < MSB[sz]
      <3>1. weight \in Nat \ {0} /\ res \in 0 .. weight - 1 /\ dst \in 0 .. weight - 1
            /\ src \in 0 .. weight - 1 /\ o.v \in Limb(sz)
        BY DEF Inv, TypeOK, LimbOK
      <3>2. /\ weight' = weight * Top(sz) /\ res' = res + weight * o.v
            /\ dst' = dst + weight * d /\ src' = src + weight * s
        BY DEF Record
      <3>3. 2 * res' < weight' <=> o.v < MSB[sz]
        BY <1>1, <3>1, <3>2, SignedNumber
      <3>4. AsSigned(res)' = res + weight * S(o.v, sz)
        <4>1. SignedBelow(res + weight * o.v, weight * Top(sz)) = res + weight * S(o.v, sz)
          BY <1>1, <3>1, SignedNumber
        <4>2. AsSigned(res)' = SignedBelow(res', weight')
          BY DEF AsSigned, SignedBelow
        <4> QED BY <3>2, <4>1, <4>2, Zenon
      <3>5. AsSigned(dst)' = dst + weight * S(d, sz)
        <4>1. SignedBelow(dst + weight * d, weight * Top(sz)) = dst + weight * S(d, sz)
          BY <1>1, <3>1, SignedNumber
        <4>2. AsSigned(dst)' = SignedBelow(dst', weight')
          BY DEF AsSigned, SignedBelow
        <4> QED BY <3>2, <4>1, <4>2, Zenon
      <3>6. AsSigned(src)' = src + weight * S(s, sz)
        <4>1. SignedBelow(src + weight * s, weight * Top(sz)) = src + weight * S(s, sz)
          BY <1>1, <3>1, SignedNumber
        <4>2. AsSigned(src)' = SignedBelow(src', weight')
          BY DEF AsSigned, SignedBelow
        <4> QED BY <3>2, <4>1, <4>2, Zenon
      <3> QED BY <3>3, <3>4, <3>5, <3>6
    <2>2. S(o.v, sz) \in Int /\ S(d, sz) \in Int /\ S(s, sz) \in Int
      BY <1>1, <1>2 DEF S, R
    <2>3. S(o.v, sz) # S(d, sz) + S(s, sz) + x
             <=> AsSigned(res)' # AsSigned(dst)' + AsSigned(src)' + xin'
      <3> DEFINE vs == S(o.v, sz)
                 ds == S(d, sz)
                 ss == S(s, sz)
      <3>1. vs \in Int /\ ds \in Int /\ ss \in Int
        BY <2>2
      <3> HIDE DEF vs, ds, ss
      <3>2. res + weight * vs = (dst + weight * ds) + (src + weight * ss) + xin'
            <=> vs = ds + ss + x
        <4> DEFINE cin == xin'
        <4>1. cin \in Int /\ res + x * weight = dst + src + cin
          BY <1>5, Zenon
        <4> HIDE DEF cin
        <4>2. res + weight * vs = (dst + weight * ds) + (src + weight * ss) + cin
              <=> vs = ds + ss + x
          BY <1>5, <3>1, <4>1, SignedSum
        <4> QED BY <4>2 DEF cin
      <3> QED BY <2>1, <3>2 DEF vs, ds, ss
    <2>4. flagN \in o.f <=> 2 * res' >= weight'
      <3> DEFINE r2 == 2 * res'
                 w2 == weight'
      <3>1. r2 \in Int /\ w2 \in Int
        BY <1>3 DEF TypeOK
      <3>2. ~(r2 < w2) <=> r2 >= w2
        <4> HIDE DEF r2, w2
        <4> QED BY <3>1, NotLess
      <3>3. ~(o.v < MSB[sz]) <=> o.v >= MSB[sz]
        <4> DEFINE v == o.v
                   M == MSB[sz]
        <4>1. v \in Int /\ M \in Int
          BY <1>1, <1>2
        <4> HIDE DEF v, M
        <4>2. ~(v < M) <=> v >= M
          BY <4>1, NotLess
        <4> QED BY <4>2 DEF v, M
      <3>4. flagN \in o.f <=> o.v >= MSB[sz]
        BY DEF LimbOK
      <3> QED BY <2>1, <3>2, <3>3, <3>4, Zenon
    <2>5. (flagC \in o.f <=> flagX \in o.f)
          /\ (flagV \in o.f <=> S(o.v, sz) # S(d, sz) + S(s, sz) + x)
      BY DEF LimbOK
    <2> QED BY <1>4, <2>3, <2>4, <2>5 DEF FlagsOfWhole
  <1> QED BY <1>3, <1>7, <1>8, <1>9 DEF Inv

LEMMA DifferenceStep ==
  ASSUME Inv, prog.kind \in {"sub", "neg"}, NEW s \in Limb(prog.sz), NEW d \in Limb(prog.sz),
         NEW x \in {0, 1}, NEW z \in BOOLEAN, NEW o,
         LimbOK(o, d - s - x, S(d, prog.sz) - S(s, prog.sz) - x, prog.sz, -1),
         flagZ \in o.f <=> z /\ o.v = 0,
         Record(Top(prog.sz), s, d, o.v), ccr' = o.f,
         xin' \in {0, 1}, zin' \in BOOLEAN,
         res - x * weight = dst - src - xin', z <=> zin' /\ res = 0
  PROVE  Inv'
  <1> DEFINE sz == prog.sz
             R == Top(sz)
             c == Extend(o.f)
  <1>1. sz \in Size /\ R \in Nat \ {0} /\ MSB[sz] \in Nat \ {0} /\ R = 2 * MSB[sz]
    BY ChainBounds, Positive DEF Inv, TypeOK, Top
  <1>2. s \in 0 .. R - 1 /\ d \in 0 .. R - 1 /\ o.v \in 0 .. R - 1 /\ c \in {0, 1}
    BY DEF LimbOK, Limb, Extend
  <1> HIDE DEF R, c
  <1>3. TypeOK' /\ (res' = 0 <=> res = 0 /\ o.v = 0) /\ k' > 0 /\ Fresh'
    BY <1>1, <1>2, Joined DEF Inv, LimbOK, R
  <1>4. ~Sum' /\ prog' = prog /\ prog'.kind \notin Decimal
    BY DEF Record, Sum, Decimal
  <1>5. weight \in Nat \ {0} /\ res \in Int /\ dst \in Int /\ src \in Int /\ xin' \in Int
    BY DEF Inv, TypeOK
  <1>6. o.v - c * R = d - s - x
    BY <1>1, <1>2 DEF LimbOK, c, R
  <1>7. ChainExact'
    <2>1. (res + weight * o.v) - c * (weight * R) = (dst + weight * d) - (src + weight * s) - xin'
      <3> DEFINE v == o.v
      <3>1. v \in Int /\ s \in Int /\ d \in Int /\ v - c * R = d - s - x
        BY <1>1, <1>2, <1>6
      <3> HIDE DEF v
      <3>2. (res + weight * v) - c * (weight * R) = (dst + weight * d) - (src + weight * s) - xin'
        <4> DEFINE cin == xin'
        <4>1. cin \in Int /\ res - x * weight = dst - src - cin
          BY <1>5, Zenon
        <4> HIDE DEF cin
        <4>2. (res + weight * v) - c * (weight * R) = (dst + weight * d) - (src + weight * s) - cin
          <5>1. R \in Nat \ {0} /\ c \in {0, 1} /\ s \in Int /\ d \in Int /\ v \in Int
            BY <1>1, <1>2, <3>1
          <5>2. v - c * R = d - s - x
            BY <3>1
          <5> QED BY <1>5, <4>1, <5>1, <5>2, AppendDifference
        <4> QED BY <4>2 DEF cin
      <3> QED BY <3>2 DEF v
    <2> QED BY <1>4, <2>1 DEF ChainExact, Record, c, R
  <1>8. ZeroOfWhole'
    BY <1>3 DEF ZeroOfWhole
  <1>9. FlagsOfWhole'
    <2>1. /\ AsSigned(res)' = res + weight * S(o.v, sz)
          /\ AsSigned(dst)' = dst + weight * S(d, sz)
          /\ AsSigned(src)' = src + weight * S(s, sz)
          /\ 2 * res' < weight' <=> o.v < MSB[sz]
      <3>1. weight \in Nat \ {0} /\ res \in 0 .. weight - 1 /\ dst \in 0 .. weight - 1
            /\ src \in 0 .. weight - 1 /\ o.v \in Limb(sz)
        BY DEF Inv, TypeOK, LimbOK
      <3>2. /\ weight' = weight * Top(sz) /\ res' = res + weight * o.v
            /\ dst' = dst + weight * d /\ src' = src + weight * s
        BY DEF Record
      <3>3. 2 * res' < weight' <=> o.v < MSB[sz]
        BY <1>1, <3>1, <3>2, SignedNumber
      <3>4. AsSigned(res)' = res + weight * S(o.v, sz)
        <4>1. SignedBelow(res + weight * o.v, weight * Top(sz)) = res + weight * S(o.v, sz)
          BY <1>1, <3>1, SignedNumber
        <4>2. AsSigned(res)' = SignedBelow(res', weight')
          BY DEF AsSigned, SignedBelow
        <4> QED BY <3>2, <4>1, <4>2, Zenon
      <3>5. AsSigned(dst)' = dst + weight * S(d, sz)
        <4>1. SignedBelow(dst + weight * d, weight * Top(sz)) = dst + weight * S(d, sz)
          BY <1>1, <3>1, SignedNumber
        <4>2. AsSigned(dst)' = SignedBelow(dst', weight')
          BY DEF AsSigned, SignedBelow
        <4> QED BY <3>2, <4>1, <4>2, Zenon
      <3>6. AsSigned(src)' = src + weight * S(s, sz)
        <4>1. SignedBelow(src + weight * s, weight * Top(sz)) = src + weight * S(s, sz)
          BY <1>1, <3>1, SignedNumber
        <4>2. AsSigned(src)' = SignedBelow(src', weight')
          BY DEF AsSigned, SignedBelow
        <4> QED BY <3>2, <4>1, <4>2, Zenon
      <3> QED BY <3>3, <3>4, <3>5, <3>6
    <2>2. S(o.v, sz) \in Int /\ S(d, sz) \in Int /\ S(s, sz) \in Int
      <3>1. ASSUME NEW v \in Int PROVE S(v, sz) \in Int
        <4>1. Top(sz) \in Int
          BY <1>1 DEF R
        <4>2. v - Top(sz) \in Int
          BY <4>1
        <4> QED BY <4>2 DEF S
      <3>2. o.v \in Int /\ d \in Int /\ s \in Int
        BY <1>1, <1>2
      <3> QED BY <3>1, <3>2
    <2>3. S(o.v, sz) # S(d, sz) - S(s, sz) - x
             <=> AsSigned(res)' # AsSigned(dst)' - AsSigned(src)' - xin'
      <3> DEFINE vs == S(o.v, sz)
                 ds == S(d, sz)
                 ss == S(s, sz)
      <3>1. vs \in Int /\ ds \in Int /\ ss \in Int
        BY <2>2
      <3> HIDE DEF vs, ds, ss
      <3>2. res + weight * vs = (dst + weight * ds) - (src + weight * ss) - xin'
            <=> vs = ds - ss - x
        <4> DEFINE cin == xin'
        <4>1. cin \in Int /\ res - x * weight = dst - src - cin
          BY <1>5, Zenon
        <4> HIDE DEF cin
        <4>2. res + weight * vs = (dst + weight * ds) - (src + weight * ss) - cin
              <=> vs = ds - ss - x
          BY <1>5, <3>1, <4>1, SignedDifference
        <4> QED BY <4>2 DEF cin
      <3> QED BY <2>1, <3>2 DEF vs, ds, ss
    <2>4. flagN \in o.f <=> 2 * res' >= weight'
      <3> DEFINE r2 == 2 * res'
                 w2 == weight'
      <3>1. r2 \in Int /\ w2 \in Int
        BY <1>3 DEF TypeOK
      <3>2. ~(r2 < w2) <=> r2 >= w2
        <4> HIDE DEF r2, w2
        <4> QED BY <3>1, NotLess
      <3>3. ~(o.v < MSB[sz]) <=> o.v >= MSB[sz]
        <4> DEFINE v == o.v
                   M == MSB[sz]
        <4>1. v \in Int /\ M \in Int
          BY <1>1, <1>2
        <4> HIDE DEF v, M
        <4>2. ~(v < M) <=> v >= M
          BY <4>1, NotLess
        <4> QED BY <4>2 DEF v, M
      <3>4. flagN \in o.f <=> o.v >= MSB[sz]
        BY DEF LimbOK
      <3> QED BY <2>1, <3>2, <3>3, <3>4, Zenon
    <2>5. (flagC \in o.f <=> flagX \in o.f)
          /\ (flagV \in o.f <=> S(o.v, sz) # S(d, sz) - S(s, sz) - x)
      BY DEF LimbOK
    <2> QED BY <1>4, <2>3, <2>4, <2>5 DEF FlagsOfWhole
  <1> QED BY <1>3, <1>7, <1>8, <1>9 DEF Inv

LEMMA DecimalSumStep ==
  ASSUME Inv, prog.kind \in {"abcd"}, NEW s \in Limb(1), NEW d \in Limb(1), IsBcd(s), IsBcd(d),
         NEW o, DecimalOK(o, ccr, Dec(d) + Dec(s) + Extend(ccr), 1),
         Decimals(o, s, d)
  PROVE  Inv'
  <1> DEFINE R == Base * Base
             x == Extend(ccr)
             c == Extend(o.f)
             sv == Dec(s)
             dv == Dec(d)
             v == Dec(o.v)
  <1>1. R \in Nat \ {0} /\ x \in {0, 1} /\ c \in {0, 1}
    BY Radix DEF Extend
  <1>2. sv \in 0 .. R - 1 /\ dv \in 0 .. R - 1 /\ v \in 0 .. R - 1
    BY DecRange DEF DecimalOK
  <1>3. /\ v + c * R = dv + sv + x
        /\ flagZ \in o.f <=> flagZ \in ccr /\ v = 0
        /\ o.f \in SUBSET CCRBits
    <2>1. v + (1) * c * R = dv + sv + x
      BY DEF DecimalOK
    <2>2. v \in Int
      BY <1>1, <1>2
    <2> HIDE DEF R, c, v, dv, sv, x
    <2>3. v + (1) * c * R = v + c * R
      BY <1>1, <2>2
    <2> QED BY <2>1, <2>3 DEF DecimalOK, v
  <1>4. Record(R, sv, dv, v) /\ ccr' = o.f /\ xin' = xin /\ zin' = zin
    BY DEF Decimals
  <1> HIDE DEF R, c, v, dv, sv, x
  <1>5. TypeOK' /\ (res' = 0 <=> res = 0 /\ v = 0) /\ k' > 0 /\ Fresh'
    BY <1>1, <1>2, <1>3, <1>4, Joined DEF Inv, TypeOK
  <1>6. Sum /\ Sum' /\ prog' = prog /\ prog'.kind \in Decimal
    BY <1>4 DEF Record, Sum, Decimal
  <1>7. ChainExact'
    <2>1. res + x * weight = dst + src + xin
      BY <1>6 DEF Inv, ChainExact, x
    <2>2. weight \in Nat \ {0} /\ res \in Int /\ dst \in Int /\ src \in Int /\ xin \in Int
      BY DEF Inv, TypeOK
    <2>3. (res + weight * v) + c * (weight * R) = (dst + weight * dv) + (src + weight * sv) + xin
      BY <1>1, <1>2, <1>3, <2>1, <2>2, AppendSum
    <2> QED BY <1>4, <1>6, <2>3 DEF ChainExact, Record, c
  <1>8. ZeroOfWhole'
    BY <1>3, <1>4, <1>5 DEF Inv, ZeroOfWhole
  <1>9. FlagsOfWhole'
    BY <1>6 DEF FlagsOfWhole
  <1> QED BY <1>5, <1>7, <1>8, <1>9 DEF Inv

LEMMA DecimalDifferenceStep ==
  ASSUME Inv, prog.kind \in {"sbcd", "nbcd"}, NEW s \in Limb(1), NEW d \in Limb(1), IsBcd(s), IsBcd(d),
         NEW o, DecimalOK(o, ccr, Dec(d) - Dec(s) - Extend(ccr), -1),
         Decimals(o, s, d)
  PROVE  Inv'
  <1> DEFINE R == Base * Base
             x == Extend(ccr)
             c == Extend(o.f)
             sv == Dec(s)
             dv == Dec(d)
             v == Dec(o.v)
  <1>1. R \in Nat \ {0} /\ x \in {0, 1} /\ c \in {0, 1}
    BY Radix DEF Extend
  <1>2. sv \in 0 .. R - 1 /\ dv \in 0 .. R - 1 /\ v \in 0 .. R - 1
    BY DecRange DEF DecimalOK
  <1>3. /\ v - c * R = dv - sv - x
        /\ flagZ \in o.f <=> flagZ \in ccr /\ v = 0
        /\ o.f \in SUBSET CCRBits
    <2>1. v + (-1) * c * R = dv - sv - x
      BY DEF DecimalOK
    <2>2. v \in Int
      BY <1>1, <1>2
    <2> HIDE DEF R, c, v, dv, sv, x
    <2>3. v + (-1) * c * R = v - c * R
      BY <1>1, <2>2
    <2> QED BY <2>1, <2>3 DEF DecimalOK, v
  <1>4. Record(R, sv, dv, v) /\ ccr' = o.f /\ xin' = xin /\ zin' = zin
    BY DEF Decimals
  <1> HIDE DEF R, c, v, dv, sv, x
  <1>5. TypeOK' /\ (res' = 0 <=> res = 0 /\ v = 0) /\ k' > 0 /\ Fresh'
    BY <1>1, <1>2, <1>3, <1>4, Joined DEF Inv, TypeOK
  <1>6. ~Sum /\ ~Sum' /\ prog' = prog /\ prog'.kind \in Decimal
    BY <1>4 DEF Record, Sum, Decimal
  <1>7. ChainExact'
    <2>1. res - x * weight = dst - src - xin
      BY <1>6 DEF Inv, ChainExact, x
    <2>2. weight \in Nat \ {0} /\ res \in Int /\ dst \in Int /\ src \in Int /\ xin \in Int
      BY DEF Inv, TypeOK
    <2>3. (res + weight * v) - c * (weight * R) = (dst + weight * dv) - (src + weight * sv) - xin
      BY <1>1, <1>2, <1>3, <2>1, <2>2, AppendDifference, SMTT(60)
    <2> QED BY <1>4, <1>6, <2>3 DEF ChainExact, Record, c
  <1>8. ZeroOfWhole'
    BY <1>3, <1>4, <1>5 DEF Inv, ZeroOfWhole
  <1>9. FlagsOfWhole'
    BY <1>6 DEF FlagsOfWhole
  <1> QED BY <1>5, <1>7, <1>8, <1>9 DEF Inv

\* Init establishes the invariant and every instruction keeps it.
LEMMA ChainInit == Init => Inv
  <1> SUFFICES ASSUME Init PROVE Inv
    OBVIOUS
  <1>1. Extend(ccr) \in {0, 1}
    BY DEF Extend
  <1>2. TypeOK
    <2>1. 0 \in 0 .. 1 - 1
      OBVIOUS
    <2> QED BY <1>1, <2>1 DEF Init, TypeOK
  <1>3. ChainExact
    BY <1>1 DEF Init, ChainExact
  <1>4. ZeroOfWhole
    BY Zenon DEF Init, ZeroOfWhole
  <1>5. FlagsOfWhole /\ Fresh
    BY DEF Init, FlagsOfWhole, Fresh
  <1> QED BY <1>2, <1>3, <1>4, <1>5 DEF Inv

LEMMA ChainStep == Inv /\ [Next]_vars => Inv'
  <1> SUFFICES ASSUME Inv, [Next]_vars PROVE Inv'
    OBVIOUS
  <1>1. /\ prog.sz \in Size /\ ccr \in SUBSET CCRBits /\ Extend(ccr) \in {0, 1}
        /\ Operand \subseteq Limb(prog.sz) /\ 0 \in Limb(prog.sz) /\ 0 \in Limb(1)
    <2>1. prog.sz \in Size /\ ccr \in SUBSET CCRBits /\ Extend(ccr) \in {0, 1}
      BY ChainBounds DEF Inv, TypeOK, Extend
    <2>2. 0 \in Limb(prog.sz) /\ 0 \in Limb(1) /\ Top(prog.sz) \in Nat
      BY <2>1, Positive DEF Limb, Size
    <2>3. \A v \in Operand : v \in Nat /\ v < Top(prog.sz)
      BY <2>1, ChainBounds DEF Operand
    <2> QED BY <2>1, <2>2, <2>3 DEF Limb
  <1>2. k = 0 => res = 0 /\ dst = 0 /\ src = 0 /\ weight = 1
    BY DEF Inv, Fresh
  <1>3. ASSUME NEW s \in Limb(prog.sz), NEW d \in Limb(prog.sz)
        PROVE  d + s + 0 = s + d /\ d - s - 0 = d - s /\ S(d, prog.sz) \in Int /\ S(s, prog.sz) \in Int
    BY <1>1, Positive DEF Limb, S
  <1>4. CASE ADD
    <2>1. PICK s \in Limb(prog.sz), d \in Limb(prog.sz) : Start(add(s, d, prog.sz), s, d)
      BY <1>1, <1>4 DEF ADD
    <2> DEFINE o == add(s, d, prog.sz)
    <2>2. /\ LimbOK(o, d + s + 0, S(d, prog.sz) + S(s, prog.sz) + 0, prog.sz, 1)
          /\ (flagZ \in o.f <=> TRUE /\ o.v = 0)
      <3>1. s \in Limb(prog.sz) /\ 0 \in Limb(prog.sz) /\ 0 \in {0, 1}
        BY <1>1
      <3>2. LET p == [v |-> Low(d + s + 0, prog.sz), f |-> setFlagsAdd(s, d, d + s + 0, prog.sz)]
            IN LimbOK(p, d + s + 0, S(d, prog.sz) + S(s, prog.sz) + 0, prog.sz, 1)
               /\ (flagZ \in p.f <=> p.v = 0)
        BY <1>1, <3>1, AddFlags, Zenon
      <3> QED BY <1>1, <1>3, <3>2 DEF add
    <2>3. res + 0 * weight = dst + src + xin' /\ (TRUE <=> zin' /\ res = 0)
      BY <2>1, <1>2 DEF Start
    <2>4. prog.kind \in {"add"}
      BY <1>4 DEF ADD, Ready
    <2>5. /\ Record(Top(prog.sz), s, d, o.v) /\ ccr' = o.f
          /\ xin' \in {0, 1} /\ zin' \in BOOLEAN
      BY <2>1 DEF Start, Inv, TypeOK
    <2> HIDE DEF o
    <2> QED BY <1>1, <2>2, <2>3, <2>4, <2>5, SumStep, Zenon
  <1>5. CASE SUB
    <2>1. PICK s \in Limb(prog.sz), d \in Limb(prog.sz) : Start(sub(s, d, prog.sz), s, d)
      BY <1>1, <1>5 DEF SUB
    <2> DEFINE o == sub(s, d, prog.sz)
    <2>2. /\ LimbOK(o, d - s - 0, S(d, prog.sz) - S(s, prog.sz) - 0, prog.sz, -1)
          /\ (flagZ \in o.f <=> TRUE /\ o.v = 0)
      <3>1. s \in Limb(prog.sz) /\ 0 \in Limb(prog.sz) /\ 0 \in {0, 1}
        BY <1>1
      <3>2. LET p == [v |-> Low(d - s - 0, prog.sz), f |-> setFlagsSub(s, d, d - s - 0, prog.sz)]
            IN LimbOK(p, d - s - 0, S(d, prog.sz) - S(s, prog.sz) - 0, prog.sz, -1)
               /\ (flagZ \in p.f <=> p.v = 0)
        BY <1>1, <3>1, SubFlags, Zenon
      <3> QED BY <1>1, <1>3, <3>2 DEF sub
    <2>3. res - 0 * weight = dst - src - xin' /\ (TRUE <=> zin' /\ res = 0)
      BY <2>1, <1>2 DEF Start
    <2>4. prog.kind \in {"sub", "neg"}
      BY <1>5 DEF SUB, Ready
    <2>5. /\ Record(Top(prog.sz), s, d, o.v) /\ ccr' = o.f
          /\ xin' \in {0, 1} /\ zin' \in BOOLEAN
      BY <2>1 DEF Start, Inv, TypeOK
    <2> HIDE DEF o
    <2> QED BY <1>1, <2>2, <2>3, <2>4, <2>5, DifferenceStep, Zenon
  <1>6. CASE NEG
    <2>1. PICK s \in Limb(prog.sz) : Start(sub(s, 0, prog.sz), s, 0)
      BY <1>1, <1>6 DEF NEG
    <2> DEFINE o == sub(s, 0, prog.sz)
    <2>2. /\ LimbOK(o, 0 - s - 0, S(0, prog.sz) - S(s, prog.sz) - 0, prog.sz, -1)
          /\ (flagZ \in o.f <=> TRUE /\ o.v = 0)
      <3>1. s \in Limb(prog.sz) /\ 0 \in Limb(prog.sz) /\ 0 \in {0, 1}
        BY <1>1
      <3>2. LET p == [v |-> Low(0 - s - 0, prog.sz), f |-> setFlagsSub(s, 0, 0 - s - 0, prog.sz)]
            IN LimbOK(p, 0 - s - 0, S(0, prog.sz) - S(s, prog.sz) - 0, prog.sz, -1)
               /\ (flagZ \in p.f <=> p.v = 0)
        BY <1>1, <3>1, SubFlags, Zenon
      <3> QED BY <1>1, <1>3, <3>2 DEF sub
    <2>3. res - 0 * weight = dst - src - xin' /\ (TRUE <=> zin' /\ res = 0)
      BY <2>1, <1>2 DEF Start
    <2>4. prog.kind \in {"sub", "neg"}
      BY <1>6 DEF NEG, Ready
    <2>5. /\ Record(Top(prog.sz), s, 0, o.v) /\ ccr' = o.f
          /\ xin' \in {0, 1} /\ zin' \in BOOLEAN
      BY <2>1 DEF Start, Inv, TypeOK
    <2> HIDE DEF o
    <2> QED BY <1>1, <2>2, <2>3, <2>4, <2>5, DifferenceStep, Zenon
  <1>7. CASE ADDX
    <2>1. PICK s \in Limb(prog.sz), d \in Limb(prog.sz) : Continue(addx(ccr, s, d, prog.sz), s, d)
      BY <1>1, <1>7 DEF ADDX
    <2> DEFINE o == addx(ccr, s, d, prog.sz)
    <2>2. prog.kind \in {"add"} /\ Sum
      BY <1>7 DEF ADDX, Ready, Sum
    <2>3. /\ LimbOK(o, d + s + Extend(ccr), S(d, prog.sz) + S(s, prog.sz) + Extend(ccr), prog.sz, 1)
          /\ (flagZ \in o.f <=> flagZ \in ccr /\ o.v = 0)
      BY <1>1, AddxLimb
    <2>4. res + Extend(ccr) * weight = dst + src + xin' /\ (flagZ \in ccr <=> zin' /\ res = 0)
      BY <2>1, <2>2 DEF Inv, ChainExact, ZeroOfWhole, Continue
    <2>5. /\ Record(Top(prog.sz), s, d, o.v) /\ ccr' = o.f
          /\ xin' \in {0, 1} /\ zin' \in BOOLEAN
      BY <2>1 DEF Continue, Inv, TypeOK
    <2> HIDE DEF o
    <2> QED BY <1>1, <2>2, <2>3, <2>4, <2>5, SumStep, Zenon
  <1>8. CASE SUBX
    <2>1. PICK s \in Limb(prog.sz), d \in Limb(prog.sz) : Continue(subx(ccr, s, d, prog.sz), s, d)
      BY <1>1, <1>8 DEF SUBX
    <2> DEFINE o == subx(ccr, s, d, prog.sz)
    <2>2. prog.kind \in {"sub", "neg"} /\ ~Sum
      BY <1>8 DEF SUBX, Ready, Sum
    <2>3. /\ LimbOK(o, d - s - Extend(ccr), S(d, prog.sz) - S(s, prog.sz) - Extend(ccr), prog.sz, -1)
          /\ (flagZ \in o.f <=> flagZ \in ccr /\ o.v = 0)
      BY <1>1, SubxLimb
    <2>4. res - Extend(ccr) * weight = dst - src - xin' /\ (flagZ \in ccr <=> zin' /\ res = 0)
      BY <2>1, <2>2 DEF Inv, ChainExact, ZeroOfWhole, Continue
    <2>5. /\ Record(Top(prog.sz), s, d, o.v) /\ ccr' = o.f
          /\ xin' \in {0, 1} /\ zin' \in BOOLEAN
      BY <2>1 DEF Continue, Inv, TypeOK
    <2> HIDE DEF o
    <2> QED BY <1>1, <2>2, <2>3, <2>4, <2>5, DifferenceStep, Zenon
  <1>9. CASE NEGX
    <2>1. PICK s \in Limb(prog.sz) : Continue(subx(ccr, s, 0, prog.sz), s, 0)
      BY <1>1, <1>9 DEF NEGX
    <2> DEFINE o == subx(ccr, s, 0, prog.sz)
    <2>2. prog.kind \in {"sub", "neg"} /\ ~Sum
      BY <1>9 DEF NEGX, Ready, Sum
    <2>3. /\ LimbOK(o, 0 - s - Extend(ccr), S(0, prog.sz) - S(s, prog.sz) - Extend(ccr), prog.sz, -1)
          /\ (flagZ \in o.f <=> flagZ \in ccr /\ o.v = 0)
      BY <1>1, SubxLimb
    <2>4. res - Extend(ccr) * weight = dst - src - xin' /\ (flagZ \in ccr <=> zin' /\ res = 0)
      BY <2>1, <2>2 DEF Inv, ChainExact, ZeroOfWhole, Continue
    <2>5. /\ Record(Top(prog.sz), s, 0, o.v) /\ ccr' = o.f
          /\ xin' \in {0, 1} /\ zin' \in BOOLEAN
      BY <2>1 DEF Continue, Inv, TypeOK
    <2> HIDE DEF o
    <2> QED BY <1>1, <2>2, <2>3, <2>4, <2>5, DifferenceStep, Zenon
  <1>10. CASE ABCD
    <2>1. PICK s \in Limb(prog.sz), d \in Limb(prog.sz) : Decimals(bcdAdd(ccr, s, d), s, d)
      BY <1>1, <1>10 DEF ABCD
    <2>2. s \in Limb(1) /\ d \in Limb(1) /\ IsBcd(s) /\ IsBcd(d)
      BY <2>1 DEF Decimals
    <2>3. DecimalOK(bcdAdd(ccr, s, d), ccr, Dec(d) + Dec(s) + Extend(ccr), 1)
      BY <1>1, <2>2, BcdAddLimb
    <2>4. prog.kind \in {"abcd"}
      BY <1>10 DEF ABCD, Ready
    <2> QED BY <2>1, <2>2, <2>3, <2>4, DecimalSumStep
  <1>11. CASE SBCD
    <2>1. PICK s \in Limb(prog.sz), d \in Limb(prog.sz) : Decimals(bcdSub(ccr, s, d), s, d)
      BY <1>1, <1>11 DEF SBCD
    <2>2. s \in Limb(1) /\ d \in Limb(1) /\ IsBcd(s) /\ IsBcd(d)
      BY <2>1 DEF Decimals
    <2>3. DecimalOK(bcdSub(ccr, s, d), ccr, Dec(d) - Dec(s) - Extend(ccr), -1)
      BY <1>1, <2>2, BcdSubLimb
    <2>4. prog.kind \in {"sbcd", "nbcd"}
      BY <1>11 DEF SBCD, Ready
    <2> QED BY <2>1, <2>2, <2>3, <2>4, DecimalDifferenceStep
  <1>12. CASE NBCD
    <2>1. PICK s \in Limb(prog.sz) : Decimals(bcdSub(ccr, s, 0), s, 0)
      BY <1>1, <1>12 DEF NBCD
    <2>2. s \in Limb(1) /\ 0 \in Limb(1) /\ IsBcd(s) /\ IsBcd(0)
      BY <1>1, <2>1 DEF Decimals
    <2>3. DecimalOK(bcdSub(ccr, s, 0), ccr, Dec(0) - Dec(s) - Extend(ccr), -1)
      BY <1>1, <2>2, BcdSubLimb
    <2>4. prog.kind \in {"sbcd", "nbcd"}
      BY <1>12 DEF NBCD, Ready
    <2> QED BY <2>1, <2>2, <2>3, <2>4, DecimalDifferenceStep
  <1>13. CASE UNCHANGED vars
    BY <1>13 DEF vars, Inv, TypeOK, ChainExact, ZeroOfWhole, FlagsOfWhole, Fresh, Sum, AsSigned
  <1> QED BY <1>4, <1>5, <1>6, <1>7, <1>8, <1>9, <1>10, <1>11, <1>12, <1>13 DEF Next

LEMMA ChainInvariant == Spec => []Inv
  BY ChainInit, ChainStep, PTL DEF Spec

\* The variables of the chain keep their types; each number stays below its
\* weight.
THEOREM ChainTypeCorrect == Spec => []TypeOK
  <1>1. Inv => TypeOK
    BY DEF Inv
  <1> QED BY <1>1, ChainInvariant, PTL

\* For every width, every number of limbs and every operand, the limbs stored
\* and the last X are the exact sum or difference, binary or decimal.
THEOREM ChainIsExact == Spec => []ChainExact
  <1>1. Inv => ChainExact
    BY DEF Inv
  <1> QED BY <1>1, ChainInvariant, PTL

\* Z after a chain says that the whole number is zero, however the limbs were
\* cleared on the way: ADDX, SUBX, ABCD and SBCD clear Z and never set it.
THEOREM ChainZeroIsWhole == Spec => []ZeroOfWhole
  <1>1. Inv => ZeroOfWhole
    BY DEF Inv
  <1> QED BY <1>1, ChainInvariant, PTL

\* C, N and V after a chain are those of one instruction on whole numbers: the
\* carry out, the sign and the overflow of the operands it was applied to.
THEOREM ChainFlagsAreWhole == Spec => []FlagsOfWhole
  <1>1. Inv => FlagsOfWhole
    BY DEF Inv
  <1> QED BY <1>1, ChainInvariant, PTL
=============================================================================
