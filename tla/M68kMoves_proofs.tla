--------------------------- MODULE M68kMoves_proofs ---------------------------
(*****************************************************************************)
(* MOVEM and MOVEP, the handlers that loop over the bus.  The transfers of   *)
(* one are all at odd or all at even addresses, so that it faults before     *)
(* memory changes, and each takes the bus the time of one.                   *)
(*****************************************************************************)
EXTENDS M68kOps, M68kOperands_proofs, FiniteSetTheorems

\* Several writes, all to odd addresses or all to even ones: an odd one faults
\* before any memory has changed.
Wrote(c, d, n, odd) ==
  /\ d \in State /\ d.D = c.D /\ d.A = c.A /\ d.cycles = c.cycles
  /\ d.halted => d.mem = c.mem
  /\ odd => d.mem = c.mem
  /\ 4 * d.bus <= 4 * c.bus + n

\* One write more.
LEMMA WriteOn ==
  ASSUME NEW c \in State, NEW d, NEW n \in Nat, NEW odd \in BOOLEAN, Wrote(c, d, n, odd),
         NEW sz \in Size, NEW a \in Int, NEW v \in Int, OddAccess(sz, a) <=> odd
  PROVE  Wrote(c, writeBus(d, sz, a, v), n + 4 * Words(sz), odd)
  <1> DEFINE e == writeBus(d, sz, a, v)
  <1>1. d \in State
    BY DEF Wrote
  <1>2. /\ e \in State /\ e.D = d.D /\ e.A = d.A /\ e.cycles = d.cycles
        /\ 4 * e.bus <= 4 * d.bus + 4 * Words(sz)
        /\ (e.halted <=> d.halted \/ OddAccess(sz, a))
        /\ (e.halted => e.mem = d.mem)
    BY <1>1, writeBusOK
  <1> HIDE DEF e
  <1>3. 4 * e.bus <= 4 * c.bus + (n + 4 * Words(sz))
    <2>1. c.bus \in Nat /\ d.bus \in Nat /\ e.bus \in Nat /\ Words(sz) \in Nat
      BY <1>1, <1>2, StateFields DEF Words
    <2>2. 4 * d.bus <= 4 * c.bus + n
      BY DEF Wrote
    <2> QED
      BY <1>2, <2>1, <2>2
  <1>4. (e.halted => e.mem = c.mem) /\ (odd => e.mem = c.mem)
    BY <1>2 DEF Wrote
  <1> QED
    BY <1>2, <1>3, <1>4 DEF Wrote, e

LEMMA WroteChanges ==
  ASSUME NEW c \in State, NEW d, NEW n \in Nat, NEW k, Accesses(c, d, n, k),
         NEW e, NEW m \in Nat, NEW odd, Wrote(d, e, m, odd), NEW sz
  PROVE  Changes(c, e, n + m, sz, TRUE)
  <1>1. d \in State /\ e \in State
    BY DEF Accesses, Wrote
  <1>2. 4 * e.bus <= 4 * c.bus + (n + m)
    <2>1. c.bus \in Nat /\ d.bus \in Nat /\ e.bus \in Nat
      BY <1>1, StateFields
    <2>2. 4 * d.bus <= 4 * c.bus + n /\ 4 * e.bus <= 4 * d.bus + m
      BY DEF Accesses, Wrote
    <2> QED
      BY <2>1, <2>2
  <1> QED
    BY <1>1, <1>2 DEF Accesses, Wrote, Changes

\* MOVEP collects a register from alternate bytes, then spreads one over them.
LEMMA MOVEPIn ==
  ASSUME NEW c \in State, NEW a \in Int, NEW sz \in Size, NEW in,
         in[0] = At(c, 0),
         \A k \in 1 .. sz : in[k] = LET b == readBus(in[k - 1].c, 1, Low(a + 2 * (k - 1), 4))
                                  IN At(b.c, in[k - 1].v * Top(1) + b.v)
  PROVE  Accesses(c, in[sz].c, 4 * sz, 0) /\ in[sz].v \in Int
  <1> DEFINE W == [k \in 0 .. sz |-> {x \in [c : State, v : Int] : Accesses(c, x.c, 4 * k, 0)}]
  <1>1. sz \in Nat /\ 0 \in 0 .. sz /\ sz \in 0 .. sz
    BY DEF Size
  <1>2. in[0] \in W[0]
    <2>1. in[0] = At(c, 0)
      BY <1>1
    <2>2. Accesses(c, c, 4 * 0, 0)
      BY AccessesNothing
    <2> QED
      BY <1>1, <2>1, <2>2 DEF At
  <1>3. ASSUME NEW k \in 1 .. sz, in[k - 1] \in W[k - 1] PROVE in[k] \in W[k]
    <2> DEFINE x == in[k - 1]
               j == k - 1
               y == Low(a + 2 * (k - 1), 4)
               o == 1
               b == readBus(x.c, o, y)
               z == 0
               n == 4 * j
               w == 4 * Words(o)
    <2>1. in[k] = At(b.c, x.v * Top(1) + b.v) /\ k \in 0 .. sz /\ j \in 0 .. sz
      BY <1>1
    <2>2. x.c \in State /\ x.v \in Int /\ Accesses(c, x.c, n, z)
      BY <1>1, <1>3, <2>1
    <2>3. y \in Int /\ o \in Size /\ Top(1) \in Int
      <3>1. a + 2 * (k - 1) \in Int
        OBVIOUS
      <3> QED
        BY <3>1, LowInt, Positive DEF Size
    <2>4. w = 4 /\ n \in Nat /\ z \in Nat /\ n + w = 4 * k /\ z + z = 0
      <3>1. Words(1) = 1
        BY DEF Words
      <3> QED
        BY <3>1
    <2> HIDE DEF x, y, o, j, z, w, n
    <2>5. Accesses(x.c, b.c, w, z) /\ b.v \in 0 .. Top(o) - 1
      BY <2>2, <2>3, readBusOK DEF w, z
    <2> HIDE DEF b
    <2>6. b.v \in Int /\ w \in Nat
      BY <2>3, <2>4, <2>5 DEF o
    <2>7. Accesses(c, b.c, n + w, z + z)
      BY <2>2, <2>4, <2>5, <2>6, AccessesTwice
    <2>8. Accesses(c, b.c, 4 * k, 0)
      BY <2>4, <2>7
    <2>9. x.v * Top(1) + b.v \in Int /\ b.c \in State
      BY <2>2, <2>3, <2>5, <2>6 DEF Accesses
    <2> QED
      BY <2>1, <2>8, <2>9 DEF At
  <1>4. \A k \in 0 .. sz : in[k] \in W[k]
    <2> HIDE DEF W
    <2> QED
      BY <1>1, <1>2, <1>3, LoopKeeps, Zenon
  <1> QED
    BY <1>1, <1>4

LEMMA MOVEPOut ==
  ASSUME NEW c \in State, NEW a \in Int, NEW sz \in Size, NEW v \in Int, NEW out,
         out[0] = c,
         \A k \in 1 .. sz : out[k] = writeBus(out[k - 1], 1, Low(a + 2 * (k - 1), 4),
                                             Shr(v, Unit * (sz - k)))
  PROVE  Wrote(c, out[sz], 4 * sz, FALSE)
  <1> DEFINE W == [k \in 0 .. sz |-> {x \in State : Wrote(c, x, 4 * k, FALSE)}]
  <1>1. sz \in Nat /\ 0 \in 0 .. sz /\ sz \in 0 .. sz
    BY DEF Size
  <1>2. out[0] \in W[0]
    <2>1. out[0] = c
      BY <1>1
    <2>2. 4 * c.bus <= 4 * c.bus + 4 * 0
      BY StateFields
    <2> QED
      BY <1>1, <2>1, <2>2 DEF Wrote
  <1>3. ASSUME NEW k \in 1 .. sz, out[k - 1] \in W[k - 1] PROVE out[k] \in W[k]
    <2> DEFINE x == out[k - 1]
               j == k - 1
               y == Low(a + 2 * (k - 1), 4)
               o == 1
               u == Shr(v, Unit * (sz - k))
               n == 4 * j
               e == writeBus(x, o, y, u)
               odd == FALSE
    <2>1. out[k] = e /\ k \in 0 .. sz /\ j \in 0 .. sz
      BY <1>1
    <2>2. x \in State /\ Wrote(c, x, n, odd)
      BY <1>1, <1>3, <2>1, Zenon
    <2>3. y \in Int /\ o \in Size /\ u \in Int
      <3>1. a + 2 * (k - 1) \in Int
        OBVIOUS
      <3> QED
        BY <3>1, LowInt, ShrOK DEF Size
    <2>4. n \in Nat /\ n + 4 * Words(o) = 4 * k /\ (OddAccess(o, y) <=> odd) /\ odd \in BOOLEAN
      BY <2>1 DEF Words, OddAccess
    <2> HIDE DEF x, y, o, j, u, n, odd
    <2>5. Wrote(c, e, n + 4 * Words(o), odd)
      BY <2>2, <2>3, <2>4, WriteOn
    <2> HIDE DEF e
    <2>6. Wrote(c, e, 4 * k, FALSE) /\ e \in State
      BY <2>4, <2>5 DEF odd, Wrote
    <2> QED
      BY <2>1, <2>6, Zenon
  <1>4. \A k \in 0 .. sz : out[k] \in W[k]
    <2> HIDE DEF W
    <2> QED
      BY <1>1, <1>2, <1>3, LoopKeeps, Zenon
  <1> QED
    BY <1>1, <1>4, Zenon

LEMMA MOVEPDone ==
  ASSUME NEW c \in Started, NEW i, Encodable(i), i.sz # 1 PROVE Done(c, opMOVEP(c, i), i.sz, TRUE)
  <1> DEFINE w == fetchPC(c)
             b == w.c
             a == Low(b.A[i.reg] + Signed(w.v, 2), 4)
             sz == i.sz
             at(k) == Low(a + 2 * (k - 1), 4)
             u(k) == Shr(c.D[i.dn], Unit * (sz - k))
             s == At(b, 0)
             take(k, x) == LET r == readBus(x.c, 1, at(k)) IN At(r.c, x.v * Top(1) + r.v)
             put(k, x) == writeBus(x, 1, at(k), u(k))
             In(g) == [k \in 0 .. sz |-> IF k = 0 THEN s ELSE take(k, g[k - 1])]
             Out(g) == [k \in 0 .. sz |-> IF k = 0 THEN b ELSE put(k, g[k - 1])]
             in == CHOOSE g : g = In(g)
             out == CHOOSE g : g = Out(g)
             m == By(sz, 16, 24)
  <1>1. /\ sz \in Size /\ sz \in Nat /\ i.dn \in 0 .. 7 /\ i.reg \in 0 .. 7 /\ c \in State
        /\ c.D[i.dn] \in Int
    <2>1. sz \in Size /\ i.dn \in 0 .. 7 /\ i.reg \in 0 .. 7 /\ c \in State
      BY Starts DEF Encodable
    <2>2. c.D[i.dn] \in Int
      BY <2>1, Starts, Zenon
    <2> QED
      BY <2>1, <2>2 DEF Size
  <1>2. Accesses(c, b, 4, 1) /\ b \in State /\ w.v \in Int
    BY AfterWord
  <1>3. opMOVEP(c, i) = Spend(IF i.dmode = 1 THEN setD(in[sz].c, i.dn, sz, in[sz].v) ELSE out[sz], m)
    BY DEF opMOVEP
  <1> HIDE DEF w, sz
  <1>4. a \in Int
    <2>1. b.A[i.reg] \in Int
      BY <1>1, <1>2, StateFields, Zenon
    <2>2. Signed(w.v, 2) \in Int
      BY <1>2, SignedOK DEF Size
    <2>3. b.A[i.reg] + Signed(w.v, 2) \in Int
      BY <2>1, <2>2
    <2> QED
      BY <2>3, LowInt DEF Size
  <1> HIDE DEF a, b
  <1>5. \A k \in 1 .. sz : at(k) \in Int /\ u(k) \in Int
    <2> SUFFICES ASSUME NEW k \in 1 .. sz PROVE at(k) \in Int /\ u(k) \in Int
      OBVIOUS
    <2>1. a + 2 * (k - 1) \in Int
      BY <1>4
    <2> QED
      BY <1>1, <2>1, LowInt, ShrOK DEF Size
  <1> HIDE DEF at, u
  <1>6. /\ in[0] = s /\ \A k \in 1 .. sz : in[k] = take(k, in[k - 1])
    <2> DEFINE V == [c : State, v : Int]
               F == [p \in (1 .. sz) \X V |-> take(p[1], p[2])]
    <2>1. s \in V /\ \A k \in 1 .. sz : \A x \in V : take(k, x) \in V
      <3>1. s \in V
        BY <1>2 DEF At
      <3>2. ASSUME NEW k \in 1 .. sz, NEW x \in V PROVE take(k, x) \in V
        <4> DEFINE o == 1
                   y == at(k)
                   r == readBus(x.c, o, y)
        <4>1. o \in Size /\ Top(1) \in Int /\ y \in Int /\ x.c \in State /\ x.v \in Int
          BY <1>5, Positive DEF Size
        <4> HIDE DEF o, y
        <4>2. r.c \in State /\ r.v \in 0 .. Top(o) - 1
          BY <4>1, readBusOK DEF Accesses
        <4>3. r.v \in Int
          BY <4>1, <4>2 DEF o
        <4> HIDE DEF r
        <4>4. x.v * Top(1) + r.v \in Int
          BY <4>1, <4>3
        <4>5. At(r.c, x.v * Top(1) + r.v) \in V
          BY <4>2, <4>4 DEF At
        <4> QED
          BY <4>5 DEF r, o, y
      <3> QED
        BY <3>1, <3>2
    <2> HIDE DEF s, take
    <2>2. F \in Turns(sz, V)
      BY <2>1 DEF Turns
    <2>3. \A k \in 1 .. sz : \A x \in V : F[<<k, x>>] = take(k, x)
      OBVIOUS
    <2>4. PICK g : Loop(sz, V, s, F, g)
      <3> HIDE DEF F, V
      <3> QED
        BY <1>1, <2>1, <2>2, LoopExists
    <2> HIDE DEF F, V
    <2>5. g = In(g)
      <3>1. \A k \in 1 .. sz : g[k - 1] \in V /\ g[k] = F[<<k, g[k - 1]>>]
        BY <1>1, <2>4 DEF Loop
      <3>2. \A k \in 1 .. sz : g[k] = take(k, g[k - 1])
        BY <2>3, <3>1, Zenon
      <3> QED
        BY <1>1, <2>4, <3>2 DEF Loop
    <2>6. in = In(in)
      BY <2>5, Zenon
    <2> HIDE DEF in
    <2> QED
      BY <1>1, <2>6
  <1>7. /\ out[0] = b /\ \A k \in 1 .. sz : out[k] = put(k, out[k - 1])
    <2> DEFINE V == State
               F == [p \in (1 .. sz) \X V |-> put(p[1], p[2])]
    <2>1. \A k \in 1 .. sz : \A x \in V : put(k, x) \in V
      <3> SUFFICES ASSUME NEW k \in 1 .. sz, NEW x \in State PROVE put(k, x) \in State
        OBVIOUS
      <3> DEFINE o == 1
      <3>1. o \in Size /\ at(k) \in Int /\ u(k) \in Int
        BY <1>5 DEF Size
      <3> HIDE DEF o
      <3>2. writeBus(x, o, at(k), u(k)) \in State
        BY <3>1, writeBusOK
      <3> QED
        BY <3>2 DEF o
    <2> HIDE DEF put
    <2>2. F \in Turns(sz, V)
      BY <2>1 DEF Turns
    <2>3. \A k \in 1 .. sz : \A x \in V : F[<<k, x>>] = put(k, x)
      OBVIOUS
    <2>4. PICK g : Loop(sz, V, b, F, g)
      <3> HIDE DEF F, V
      <3>1. b \in V
        BY <1>2 DEF V
      <3> QED
        BY <1>1, <2>2, <3>1, LoopExists
    <2> HIDE DEF F, V
    <2>5. g = Out(g)
      <3>1. \A k \in 1 .. sz : g[k - 1] \in V /\ g[k] = F[<<k, g[k - 1]>>]
        BY <1>1, <2>4 DEF Loop
      <3>2. \A k \in 1 .. sz : g[k] = put(k, g[k - 1])
        BY <2>3, <3>1, Zenon
      <3> QED
        BY <1>1, <2>4, <3>2 DEF Loop
    <2>6. out = Out(out)
      BY <2>5, Zenon
    <2> HIDE DEF out
    <2> QED
      BY <1>1, <2>6
  <1> HIDE DEF in, out
  <1>8. Accesses(b, in[sz].c, 4 * sz, 0) /\ in[sz].v \in Int
    BY <1>1, <1>2, <1>4, <1>6, MOVEPIn, Zenon DEF at
  <1>9. Wrote(b, out[sz], 4 * sz, FALSE)
    BY <1>1, <1>2, <1>4, <1>7, MOVEPOut, Zenon DEF at, u
  <1> DEFINE n == 4
             t == 4 * sz
             e == 1
             z == 0
             q == n + t
  <1>10. n \in Nat /\ t \in Nat /\ e \in Nat /\ z \in Nat /\ q \in Nat /\ q + 4 <= m /\ m \in Nat
    <2>1. sz \in {2, 4}
      BY <1>1 DEF Size, sz
    <2> QED
      BY <2>1 DEF By
  <1>11. CASE i.dmode = 1
    <2>1. Accesses(c, b, n, e) /\ Accesses(b, in[sz].c, t, z)
      BY <1>2, <1>8
    <2> HIDE DEF n, t, e, z, m
    <2>2. Accesses(c, in[sz].c, q, e + z)
      BY <1>1, <1>10, <2>1, AccessesTwice
    <2> HIDE DEF q
    <2>3. Changes(c, setD(in[sz].c, i.dn, sz, in[sz].v), q, sz, TRUE)
      BY <1>1, <1>8, <2>2, ThenD, Zenon
    <2>4. Done(c, Spend(setD(in[sz].c, i.dn, sz, in[sz].v), m), sz, TRUE)
      BY <1>10, <2>3, SpendDone, Zenon
    <2> QED
      BY <1>3, <1>11, <2>4, Zenon DEF sz
  <1>12. CASE i.dmode # 1
    <2>1. Accesses(c, b, n, e) /\ Wrote(b, out[sz], t, FALSE)
      BY <1>2, <1>9, Zenon
    <2> HIDE DEF n, t, e, m
    <2>2. Changes(c, out[sz], q, sz, TRUE)
      BY <1>1, <1>10, <2>1, WroteChanges, Zenon
    <2> HIDE DEF q
    <2>3. Done(c, Spend(out[sz], m), sz, TRUE)
      BY <1>10, <2>2, SpendDone, Zenon
    <2> QED
      BY <1>3, <1>12, <2>3, Zenon DEF sz
  <1> QED
    BY <1>11, <1>12, Zenon

\* The registers of a list that a loop has passed after n turns.
Passed(list, n) == Cardinality({r \in list : r < n})

LEMMA PassedOK ==
  ASSUME NEW list \in SUBSET (0 .. 15)
  PROVE  /\ Passed(list, 0) = 0 /\ Passed(list, 16) = Cardinality(list)
         /\ \A n \in 0 .. 16 : Passed(list, n) \in Nat
         /\ \A n \in 1 .. 16 : Passed(list, n) = IF n - 1 \in list THEN Passed(list, n - 1) + 1
                                                ELSE Passed(list, n - 1)
  <1> DEFINE P(n) == {r \in list : r < n}
             I == 0 .. 15
  <1>1. IsFiniteSet(I)
    <2> DEFINE a == 0
               b == 15
    <2>1. a \in Int /\ b \in Int
      OBVIOUS
    <2> HIDE DEF a, b
    <2>2. IsFiniteSet(a .. b)
      BY <2>1, FS_Interval
    <2> QED
      BY <2>2 DEF a, b
  <1>2. \A n : P(n) \in SUBSET I
    BY Zenon
  <1>3. \A n : IsFiniteSet(P(n))
    <2> HIDE DEF I, P
    <2> QED
      BY <1>1, <1>2, FS_Subset
  <1>4. P(0) = {} /\ P(16) = list
    <2>1. \A r \in list : r < 16 /\ ~(r < 0)
      OBVIOUS
    <2> QED
      BY <2>1, Zenon
  <1>5. ASSUME NEW n \in 1 .. 16
        PROVE  /\ n - 1 \in list => P(n) = P(n - 1) \cup {n - 1} /\ n - 1 \notin P(n - 1)
               /\ n - 1 \notin list => P(n) = P(n - 1)
    <2>1. ~(n - 1 < n - 1) /\ \A r \in list : r < n <=> r < n - 1 \/ r = n - 1
      OBVIOUS
    <2>2. n - 1 < n
      OBVIOUS
    <2> QED
      BY <2>1, <2>2, Zenon
  <1>6. \A n : Passed(list, n) = Cardinality(P(n))
    BY DEF Passed
  <1> HIDE DEF P, I
  <1>7. ASSUME NEW n \in 0 .. 16 PROVE Cardinality(P(n)) \in Nat
    BY <1>3, FS_CardinalityType
  <1>8. ASSUME NEW n \in 1 .. 16, n - 1 \in list PROVE Cardinality(P(n)) = Cardinality(P(n - 1)) + 1
    <2> DEFINE x == n - 1
    <2>1. P(n) = P(x) \cup {x} /\ x \notin P(x) /\ IsFiniteSet(P(x))
      BY <1>3, <1>5, <1>8
    <2> HIDE DEF x
    <2>2. Cardinality(P(x) \cup {x}) = Cardinality(P(x)) + 1
      BY <2>1, FS_AddElement
    <2> QED
      BY <2>1, <2>2 DEF x
  <1>9. ASSUME NEW n \in 1 .. 16, n - 1 \notin list PROVE Cardinality(P(n)) = Cardinality(P(n - 1))
    BY <1>5, <1>9
  <1>10. Passed(list, 0) = 0 /\ Passed(list, 16) = Cardinality(list)
    BY <1>4, <1>6, FS_EmptySet
  <1> QED
    BY <1>6, <1>7, <1>8, <1>9, <1>10

LEMMA RegOK == ASSUME NEW c \in State, NEW r \in 0 .. 15 PROVE Reg(c, r) \in Int
  BY StateFields DEF Reg

\* One transfer more costs the bus the time of one.
LEMMA OneMore == ASSUME NEW n \in Nat, NEW p \in Nat PROVE n * p \in Nat /\ (n + 1) * p = n * p + p
  OBVIOUS

\* The addresses of the transfers are all odd or all even.
LEMMA Paces ==
  ASSUME NEW v \in Int, NEW sz \in {2, 4}
  PROVE  LET up == Low(v + sz, 4)
             down == Low(v - sz, 4)
         IN up \in Int /\ down \in Int /\ up % 2 = v % 2 /\ down % 2 = v % 2
  <1>1. v + sz \in Int /\ v - sz \in Int /\ (v + sz) % 2 = v % 2 /\ (v - sz) % 2 = v % 2
    OBVIOUS
  <1>2. \A x \in Int : Low(x, 4) \in Int /\ Low(x, 4) % 2 = x % 2
    BY LowInt, ParityLow, Zenon DEF Size
  <1> QED
    BY <1>1, <1>2

\* A loop that stores register src[n] of a list at at[n].
Stores(c, sz, list, addr, loop, src, at) ==
  /\ loop[0] = At(c, addr)
  /\ \A n \in 1 .. 16 : src[n] \in 0 .. 15
  /\ \A n \in 1 .. 16 : n - 1 \notin list => loop[n] = loop[n - 1]
  /\ \A n \in 1 .. 16 : n - 1 \in list /\ loop[n - 1].v \in Int =>
       /\ loop[n].c = writeBus(loop[n - 1].c, sz, at[n], Reg(c, src[n]))
       /\ at[n] \in Int /\ at[n] % 2 = loop[n - 1].v % 2
       /\ loop[n].v \in Int /\ loop[n].v % 2 = loop[n - 1].v % 2
       /\ loop[n] = At(loop[n].c, loop[n].v)

\* Every loop of that shape writes the registers of the list and nothing else.
LEMMA MOVEMStores ==
  ASSUME NEW c \in State, NEW sz \in {2, 4}, NEW list \in SUBSET (0 .. 15), NEW addr \in Int,
         NEW loop, NEW src, NEW at, Stores(c, sz, list, addr, loop, src, at)
  PROVE  LET odd == addr % 2 = 1
         IN /\ Wrote(c, loop[16].c, Cardinality(list) * (4 * Words(sz)), odd)
            /\ loop[16].v \in Int /\ loop[16].v % 2 = addr % 2
  <1> DEFINE odd == addr % 2 = 1
             p == 4 * Words(sz)
             W == [n \in 0 .. 16 |-> {x \in [c : State, v : Int] :
                    Wrote(c, x.c, Passed(list, n) * p, odd) /\ x.v % 2 = addr % 2}]
  <1>1. p \in Nat /\ sz \in Size
    BY DEF Words, Size
  <1>2. loop[0] \in W[0]
    <2>1. Passed(list, 0) * p = 0
      BY <1>1, PassedOK
    <2>2. 4 * c.bus <= 4 * c.bus + 0
      <3>1. c.bus \in Nat
        BY StateFields
      <3> QED
        BY <3>1
    <2>3. Wrote(c, c, 0, odd)
      BY <2>2 DEF Wrote
    <2> QED
      BY <2>1, <2>3 DEF At, Stores
  <1>3. ASSUME NEW n \in 1 .. 16, loop[n - 1] \in W[n - 1] PROVE loop[n] \in W[n]
    <2> DEFINE j == n - 1
               k == Passed(list, j)
               x == loop[j]
               y == loop[n]
    <2>1. j \in 0 .. 16 /\ n \in 0 .. 16
      OBVIOUS
    <2>2. x.c \in State /\ x.v \in Int /\ Wrote(c, x.c, k * p, odd) /\ x.v % 2 = addr % 2 /\ x \in [c : State, v : Int]
      BY <1>3, <2>1
    <2>3. k \in Nat
      BY <2>1, PassedOK
    <2>4. CASE n - 1 \notin list
      <3>1. Passed(list, n) = k /\ y = x
        BY <2>4, PassedOK DEF Stores
      <3> HIDE DEF k, x, y
      <3>2. y \in W[n]
        BY <2>1, <2>2, <3>1
      <3> QED
        BY <3>2 DEF y
    <2>5. CASE n - 1 \in list
      <3> DEFINE a == at[n]
                 v == Reg(c, src[n])
                 e == writeBus(x.c, sz, a, v)
                 m == k * p
      <3>1. Passed(list, n) = k + 1
        BY <2>5, PassedOK
      <3>2. /\ y.c = e /\ a \in Int /\ a % 2 = x.v % 2 /\ y.v \in Int /\ y.v % 2 = x.v % 2
            /\ y = At(y.c, y.v)
        BY <2>2, <2>5 DEF Stores
      <3>3. v \in Int
        <4>1. src[n] \in 0 .. 15
          BY DEF Stores
        <4> QED
          BY <4>1, RegOK
      <3>4. OddAccess(sz, a) <=> odd
        BY <2>2, <3>2 DEF OddAccess
      <3>5. odd \in BOOLEAN
        OBVIOUS
      <3> HIDE DEF k, x, y, p, odd, a, v, W
      <3>6. m \in Nat /\ (k + 1) * p = m + p
        BY <1>1, <2>3, OneMore
      <3>7. Wrote(c, x.c, m, odd)
        BY <2>2
      <3> HIDE DEF m
      <3>8. Wrote(c, e, m + 4 * Words(sz), odd)
        BY <1>1, <3>2, <3>3, <3>4, <3>5, <3>6, <3>7, WriteOn
      <3> HIDE DEF e
      <3>9. Wrote(c, y.c, Passed(list, n) * p, odd)
        BY <3>1, <3>2, <3>6, <3>8 DEF p
      <3>10. y.c \in State /\ y.v % 2 = addr % 2 /\ y \in [c : State, v : Int]
        <4>1. y.c \in State
          BY <3>9 DEF Wrote
        <4>2. y \in [c : State, v : Int]
          BY <3>2, <4>1, Zenon DEF At
        <4> QED
          BY <2>2, <3>2, <4>1, <4>2
      <3>11. y \in W[n]
        BY <2>1, <3>9, <3>10 DEF W
      <3> QED
        BY <3>11 DEF y
    <2> QED
      BY <2>4, <2>5
  <1>4. \A n \in 0 .. 16 : loop[n] \in W[n]
    <2> DEFINE N == 16
    <2>1. N \in Nat /\ loop[0] \in W[0] /\ \A n \in 1 .. N : loop[n - 1] \in W[n - 1] => loop[n] \in W[n]
      BY <1>2, <1>3
    <2> HIDE DEF N, W
    <2>2. \A n \in 0 .. N : loop[n] \in W[n]
      BY <2>1, LoopKeeps
    <2> QED
      BY <2>2 DEF N
  <1>5. loop[16] \in W[16] /\ 16 \in 0 .. 16
    BY <1>4
  <1> HIDE DEF p
  <1>6. Wrote(c, loop[16].c, Passed(list, 16) * p, odd) /\ loop[16].v \in Int /\ loop[16].v % 2 = addr % 2
    BY <1>5
  <1> QED
    BY <1>6, PassedOK DEF p

LEMMA storeDownOK ==
  ASSUME NEW c \in State, NEW i, i.reg \in 0 .. 7, i.sz \in {2, 4}, NEW list \in SUBSET (0 .. 15), NEW ks
  PROVE  Changes(c, storeDown(c, i, list), Cardinality(list) * (4 * Words(i.sz)), ks, TRUE)
  <1> DEFINE N == 16
             V == [c : State, v : Int]
             sz == i.sz
             addr == c.A[i.reg]
             a == At(c, addr)
             to(l) == Low(l.v - sz, 4)
             turn(n, l) == IF n - 1 \in list THEN At(writeBus(l.c, sz, to(l), Reg(c, 16 - n)), to(l)) ELSE l
             F == [p \in (1 .. N) \X V |-> turn(p[1], p[2])]
             Body(g) == [n \in 0 .. N |-> IF n = 0 THEN a ELSE turn(n, g[n - 1])]
             loop == CHOOSE g : g = Body(g)
  <1>1. storeDown(c, i, list) = setA(loop[N].c, i.reg, loop[N].v)
    BY DEF storeDown
  <1>2. N \in Nat /\ sz \in Size /\ addr \in Int
    BY StateFields, Zenon DEF Size
  <1> HIDE DEF N, sz, addr
  <1>3. a \in V /\ \A n \in 1 .. N : \A l \in V : turn(n, l) \in V
    <2>1. a \in V
      BY <1>2 DEF At
    <2>2. ASSUME NEW n \in 1 .. N, NEW l \in V, n - 1 \in list PROVE turn(n, l) \in V
      <3> DEFINE x == to(l)
                 r == 16 - n
                 y == Reg(c, r)
      <3>1. x \in Int /\ l.c \in State
        BY Paces DEF sz
      <3>2. r \in 0 .. 15
        BY DEF N
      <3>3. y \in Int
        <4> HIDE DEF r
        <4> QED
          BY <3>2, RegOK
      <3> HIDE DEF x, y
      <3>4. writeBus(l.c, sz, x, y) \in State
        BY <1>2, <3>1, <3>3, writeBusOK
      <3>5. At(writeBus(l.c, sz, x, y), x) \in V
        BY <3>1, <3>4 DEF At
      <3> QED
        BY <2>2, <3>5 DEF x, y
    <2> QED
      BY <2>1, <2>2
  <1> HIDE DEF a, turn
  <1>4. F \in Turns(N, V)
    BY <1>3 DEF Turns
  <1>5. \A n \in 1 .. N : \A l \in V : F[<<n, l>>] = turn(n, l)
    OBVIOUS
  <1>6. PICK g : Loop(N, V, a, F, g)
    <2> HIDE DEF F, V
    <2> QED
      BY <1>2, <1>3, <1>4, LoopExists
  <1> HIDE DEF F
  <1>7. g = Body(g)
    <2> HIDE DEF V
    <2>1. \A n \in 1 .. N : g[n - 1] \in V /\ g[n] = F[<<n, g[n - 1]>>]
      BY <1>2, <1>6 DEF Loop
    <2>2. \A n \in 1 .. N : g[n] = turn(n, g[n - 1])
      BY <1>5, <2>1, Zenon
    <2> QED
      BY <1>2, <1>6, <2>2 DEF Loop
  <1>8. loop = Body(loop)
    BY <1>7, Zenon
  <1> HIDE DEF loop
  <1>9. loop[0] = a /\ \A n \in 1 .. N : loop[n] = turn(n, loop[n - 1])
    BY <1>2, <1>8
  <1> USE DEF N
  <1> DEFINE src == [n \in 1 .. 16 |-> 16 - n]
             at == [n \in 1 .. 16 |-> to(loop[n - 1])]
             p == Cardinality(list) * (4 * Words(sz))
             odd == addr % 2 = 1
             e == loop[16].c
             d == setA(e, i.reg, loop[16].v)
  <1>10. ASSUME NEW n \in 1 .. 16, n - 1 \in list, loop[n - 1].v \in Int
         PROVE  /\ loop[n].c = writeBus(loop[n - 1].c, sz, at[n], Reg(c, src[n]))
                /\ at[n] \in Int /\ at[n] % 2 = loop[n - 1].v % 2
                /\ loop[n].v \in Int /\ loop[n].v % 2 = loop[n - 1].v % 2
                /\ loop[n] = At(loop[n].c, loop[n].v)
    <2> DEFINE x == to(loop[n - 1])
               w == writeBus(loop[n - 1].c, sz, x, Reg(c, 16 - n))
    <2>1. loop[n] = At(w, x)
      BY <1>9, <1>10 DEF turn
    <2>2. x \in Int /\ x % 2 = loop[n - 1].v % 2
      BY <1>10, Paces DEF sz
    <2>3. at[n] = x /\ src[n] = 16 - n
      OBVIOUS
    <2> HIDE DEF x, at, src
    <2>4. loop[n].c = w /\ loop[n].v = x
      BY <2>1 DEF At
    <2> QED
      BY <2>1, <2>2, <2>3, <2>4
  <1>11. \A n \in 1 .. 16 : src[n] \in 0 .. 15
    OBVIOUS
  <1>12. \A n \in 1 .. 16 : n - 1 \notin list => loop[n] = loop[n - 1]
    BY <1>9 DEF turn
  <1> HIDE DEF src, at
  <1>13. Wrote(c, e, p, odd) /\ loop[16].v \in Int /\ loop[16].v % 2 = addr % 2
    <2>1. Stores(c, sz, list, addr, loop, src, at)
      BY <1>9, <1>10, <1>11, <1>12, Zenon DEF a, Stores
    <2>2. sz \in {2, 4}
      BY DEF sz
    <2> QED
      BY <1>2, <2>1, <2>2, MOVEMStores
  <1>14. e \in State
    BY <1>13 DEF Wrote
  <1> HIDE DEF e, p, odd
  <1>15. /\ d \in State /\ d.D = e.D /\ d.mem = e.mem /\ d.cycles = e.cycles /\ d.bus = e.bus
         /\ d.halted = e.halted /\ d.A[i.reg] = Low(loop[16].v, 4)
         /\ \A q \in 0 .. 7 : q # i.reg => d.A[q] = e.A[q]
    BY <1>13, <1>14, setAOK, Zenon
  <1> HIDE DEF d
  <1>16. Even(c.A[7]) => Even(d.A[7])
    <2>1. CASE i.reg = 7
      BY <1>13, <1>15, <2>1, ParityLow DEF Even, addr
    <2>2. CASE i.reg # 7
      BY <1>13, <1>15, <2>2 DEF Wrote
    <2> QED
      BY <2>1, <2>2
  <1>17. Changes(c, d, p, ks, TRUE)
    BY <1>13, <1>15, <1>16 DEF Changes, Wrote
  <1> QED
    BY <1>1, <1>17, Zenon DEF d, e, p, sz

LEMMA storeUpOK ==
  ASSUME NEW c \in State, NEW sz \in {2, 4}, NEW list \in SUBSET (0 .. 15), NEW addr \in Int, NEW ks
  PROVE  Changes(c, storeUp(c, sz, list, addr), Cardinality(list) * (4 * Words(sz)), ks, TRUE)
  <1> DEFINE N == 16
             V == [c : State, v : Int]
             a == At(c, addr)
             turn(n, l) == IF n - 1 \in list
                           THEN At(writeBus(l.c, sz, l.v, Reg(c, n - 1)), Low(l.v + sz, 4)) ELSE l
             F == [p \in (1 .. N) \X V |-> turn(p[1], p[2])]
             Body(g) == [n \in 0 .. N |-> IF n = 0 THEN a ELSE turn(n, g[n - 1])]
             loop == CHOOSE g : g = Body(g)
  <1>1. storeUp(c, sz, list, addr) = loop[N].c
    BY DEF storeUp
  <1>2. N \in Nat /\ sz \in Size
    BY DEF Size
  <1> HIDE DEF N
  <1>3. a \in V /\ \A n \in 1 .. N : \A l \in V : turn(n, l) \in V
    <2>1. a \in V
      BY <1>2 DEF At
    <2>2. ASSUME NEW n \in 1 .. N, NEW l \in V, n - 1 \in list PROVE turn(n, l) \in V
      <3> DEFINE x == Low(l.v + sz, 4)
                 r == n - 1
                 y == Reg(c, r)
      <3>1. x \in Int /\ l.c \in State /\ l.v \in Int
        BY Paces
      <3>2. r \in 0 .. 15
        BY DEF N
      <3>3. y \in Int
        <4> HIDE DEF r
        <4> QED
          BY <3>2, RegOK
      <3> HIDE DEF x, y
      <3>4. writeBus(l.c, sz, l.v, y) \in State
        BY <1>2, <3>1, <3>3, writeBusOK
      <3>5. At(writeBus(l.c, sz, l.v, y), x) \in V
        BY <3>1, <3>4 DEF At
      <3> QED
        BY <2>2, <3>5 DEF x, y
    <2> QED
      BY <2>1, <2>2
  <1> HIDE DEF a, turn
  <1>4. F \in Turns(N, V)
    BY <1>3 DEF Turns
  <1>5. \A n \in 1 .. N : \A l \in V : F[<<n, l>>] = turn(n, l)
    OBVIOUS
  <1>6. PICK g : Loop(N, V, a, F, g)
    <2> HIDE DEF F, V
    <2> QED
      BY <1>2, <1>3, <1>4, LoopExists
  <1> HIDE DEF F
  <1>7. g = Body(g)
    <2> HIDE DEF V
    <2>1. \A n \in 1 .. N : g[n - 1] \in V /\ g[n] = F[<<n, g[n - 1]>>]
      BY <1>2, <1>6 DEF Loop
    <2>2. \A n \in 1 .. N : g[n] = turn(n, g[n - 1])
      BY <1>5, <2>1, Zenon
    <2> QED
      BY <1>2, <1>6, <2>2 DEF Loop
  <1>8. loop = Body(loop)
    BY <1>7, Zenon
  <1> HIDE DEF loop
  <1>9. loop[0] = a /\ \A n \in 1 .. N : loop[n] = turn(n, loop[n - 1])
    BY <1>2, <1>8
  <1> USE DEF N
  <1> DEFINE src == [n \in 1 .. 16 |-> n - 1]
             at == [n \in 1 .. 16 |-> loop[n - 1].v]
             p == Cardinality(list) * (4 * Words(sz))
             odd == addr % 2 = 1
             e == loop[16].c
  <1>10. ASSUME NEW n \in 1 .. 16, n - 1 \in list, loop[n - 1].v \in Int
         PROVE  /\ loop[n].c = writeBus(loop[n - 1].c, sz, at[n], Reg(c, src[n]))
                /\ at[n] \in Int /\ at[n] % 2 = loop[n - 1].v % 2
                /\ loop[n].v \in Int /\ loop[n].v % 2 = loop[n - 1].v % 2
                /\ loop[n] = At(loop[n].c, loop[n].v)
    <2> DEFINE x == Low(loop[n - 1].v + sz, 4)
               w == writeBus(loop[n - 1].c, sz, loop[n - 1].v, Reg(c, n - 1))
    <2>1. loop[n] = At(w, x)
      BY <1>9, <1>10 DEF turn
    <2>2. x \in Int /\ x % 2 = loop[n - 1].v % 2
      BY <1>10, Paces
    <2>3. at[n] = loop[n - 1].v /\ src[n] = n - 1
      OBVIOUS
    <2> HIDE DEF x, at, src
    <2>4. loop[n].c = w /\ loop[n].v = x
      BY <2>1 DEF At
    <2> QED
      BY <1>10, <2>1, <2>2, <2>3, <2>4
  <1>11. \A n \in 1 .. 16 : src[n] \in 0 .. 15
    OBVIOUS
  <1>12. \A n \in 1 .. 16 : n - 1 \notin list => loop[n] = loop[n - 1]
    BY <1>9 DEF turn
  <1> HIDE DEF src, at
  <1>13. Wrote(c, e, p, odd)
    <2>1. Stores(c, sz, list, addr, loop, src, at)
      BY <1>9, <1>10, <1>11, <1>12 DEF a, Stores
    <2> QED
      BY <2>1, MOVEMStores
  <1> HIDE DEF e, p, odd
  <1>14. Changes(c, e, p, ks, TRUE)
    BY <1>13 DEF Changes, Wrote
  <1> QED
    BY <1>1, <1>14, Zenon DEF e, p

\* Loading registers.
LEMMA SetRegOK ==
  ASSUME NEW c \in State, NEW r \in 0 .. 15, NEW v \in Int
  PROVE  LET d == SetReg(c, r, v)
         IN d \in State /\ d.mem = c.mem /\ d.cycles = c.cycles /\ d.bus = c.bus
  <1>1. CASE r < 8
    <2> DEFINE z == 4
    <2>1. z \in Size /\ r \in 0 .. 7 /\ SetReg(c, r, v) = setD(c, r, z, v)
      BY <1>1 DEF Size, SetReg
    <2> HIDE DEF z
    <2> QED
      BY <2>1, setDOK
  <1>2. CASE ~(r < 8)
    <2> DEFINE q == r - 8
    <2>1. q \in 0 .. 7 /\ SetReg(c, r, v) = setA(c, q, v)
      BY <1>2 DEF SetReg
    <2> HIDE DEF q
    <2>2. LET d == setA(c, q, v)
          IN d \in State /\ d.mem = c.mem /\ d.cycles = c.cycles /\ d.bus = c.bus
      BY <2>1, setAOK, Zenon
    <2> QED
      BY <2>1, <2>2
  <1> QED
    BY <1>1, <1>2

Loaded(c, d, n) == d \in State /\ d.mem = c.mem /\ d.cycles = c.cycles /\ 4 * d.bus <= 4 * c.bus + n

LEMMA LoadOn ==
  ASSUME NEW c \in State, NEW d, NEW n \in Nat, Loaded(c, d, n), NEW sz \in Size, NEW a \in Int,
         NEW r \in 0 .. 15
  PROVE  LET s == readBus(d, sz, a)
         IN Loaded(c, SetReg(s.c, r, SignExtended(s.v, sz)), n + 4 * Words(sz))
  <1> DEFINE s == readBus(d, sz, a)
             v == SignExtended(s.v, sz)
             e == SetReg(s.c, r, v)
  <1>1. d \in State
    BY DEF Loaded
  <1>2. Accesses(d, s.c, 4 * Words(sz), 0) /\ s.v \in 0 .. Top(sz) - 1
    BY <1>1, readBusOK
  <1> HIDE DEF s
  <1>3. /\ s.c \in State /\ s.c.mem = d.mem /\ s.c.cycles = d.cycles
        /\ 4 * s.c.bus <= 4 * d.bus + 4 * Words(sz)
    BY <1>2 DEF Accesses
  <1>4. v \in Int
    <2>1. s.v \in Int
      BY <1>2, Positive
    <2>2. ASSUME NEW x \in Int PROVE Ext(x, 2, 4) \in Int
      BY ExtOK, Positive DEF Size
    <2> QED
      BY <2>1, <2>2 DEF SignExtended
  <1> HIDE DEF v
  <1>5. e \in State /\ e.mem = s.c.mem /\ e.cycles = s.c.cycles /\ e.bus = s.c.bus
    BY <1>3, <1>4, SetRegOK, Zenon
  <1> HIDE DEF e
  <1>6. 4 * e.bus <= 4 * c.bus + (n + 4 * Words(sz))
    <2>1. c.bus \in Nat /\ d.bus \in Nat /\ e.bus \in Nat /\ Words(sz) \in Nat
      BY <1>1, <1>5, StateFields DEF Words
    <2>2. 4 * d.bus <= 4 * c.bus + n
      BY DEF Loaded
    <2> QED
      BY <1>3, <1>5, <2>1, <2>2
  <1> QED
    BY <1>3, <1>5, <1>6 DEF Loaded, e, v, s

LEMMA loadOK ==
  ASSUME NEW c \in State, NEW sz \in {2, 4}, NEW list \in SUBSET (0 .. 15), NEW addr \in Int
  PROVE  LET l == load(c, sz, list, addr)
         IN Loaded(c, l.c, Cardinality(list) * (4 * Words(sz))) /\ l.v \in Int
  <1> DEFINE N == 16
             V == [c : State, v : Int]
             a == At(c, addr)
             got(n, l) == LET r == readBus(l.c, sz, l.v) IN SetReg(r.c, n - 1, SignExtended(r.v, sz))
             turn(n, l) == IF n - 1 \in list THEN At(got(n, l), Low(l.v + sz, 4)) ELSE l
             F == [p \in (1 .. N) \X V |-> turn(p[1], p[2])]
             Body(g) == [n \in 0 .. N |-> IF n = 0 THEN a ELSE turn(n, g[n - 1])]
             loop == CHOOSE g : g = Body(g)
  <1>1. load(c, sz, list, addr) = loop[N]
    BY DEF load
  <1>2. N \in Nat /\ sz \in Size
    BY DEF Size
  <1> HIDE DEF N
  <1>3. a \in V /\ \A n \in 1 .. N : \A l \in V : turn(n, l) \in V
    <2>1. a \in V
      BY <1>2 DEF At
    <2>2. ASSUME NEW n \in 1 .. N, NEW l \in V, n - 1 \in list PROVE turn(n, l) \in V
      <3> DEFINE x == Low(l.v + sz, 4)
                 r == n - 1
                 b == l.c
                 z == 0
      <3>1. x \in Int /\ b \in State /\ l.v \in Int
        BY Paces
      <3>2. r \in 0 .. 15 /\ z \in Nat
        BY DEF N
      <3>3. Loaded(b, b, z)
        <4>1. b.bus \in Nat
          BY <3>1, StateFields
        <4> QED
          BY <3>1, <4>1 DEF Loaded
      <3> HIDE DEF x, r, b, z
      <3>4. got(n, l) \in State
        BY <1>2, <3>1, <3>2, <3>3, LoadOn, Zenon DEF Loaded, r, b
      <3> HIDE DEF got
      <3>5. At(got(n, l), x) \in V
        BY <3>1, <3>4 DEF At
      <3> QED
        BY <2>2, <3>5 DEF x
    <2> QED
      BY <2>1, <2>2
  <1> HIDE DEF a, turn
  <1>4. F \in Turns(N, V)
    BY <1>3 DEF Turns
  <1>5. \A n \in 1 .. N : \A l \in V : F[<<n, l>>] = turn(n, l)
    OBVIOUS
  <1>6. PICK g : Loop(N, V, a, F, g)
    <2> HIDE DEF F, V
    <2> QED
      BY <1>2, <1>3, <1>4, LoopExists
  <1> HIDE DEF F
  <1>7. g = Body(g)
    <2> HIDE DEF V
    <2>1. \A n \in 1 .. N : g[n - 1] \in V /\ g[n] = F[<<n, g[n - 1]>>]
      BY <1>2, <1>6 DEF Loop
    <2>2. \A n \in 1 .. N : g[n] = turn(n, g[n - 1])
      BY <1>5, <2>1, Zenon
    <2> QED
      BY <1>2, <1>6, <2>2 DEF Loop
  <1>8. loop = Body(loop)
    BY <1>7, Zenon
  <1> HIDE DEF loop
  <1>9. loop[0] = a /\ \A n \in 1 .. N : loop[n] = turn(n, loop[n - 1])
    BY <1>2, <1>8
  <1> USE DEF N
  <1> DEFINE p == 4 * Words(sz)
             W == [n \in 0 .. 16 |-> {x \in V : Loaded(c, x.c, Passed(list, n) * p)}]
  <1>10. p \in Nat
    BY DEF Words
  <1>11. loop[0] \in W[0]
    <2>1. Passed(list, 0) * p = 0
      BY <1>10, PassedOK
    <2>2. Loaded(c, c, 0)
      <3>1. c.bus \in Nat
        BY StateFields
      <3> QED
        BY <3>1 DEF Loaded
    <2> HIDE DEF p
    <2> QED
      BY <1>3, <1>9, <2>1, <2>2 DEF At, a
  <1>12. ASSUME NEW n \in 1 .. 16, loop[n - 1] \in W[n - 1] PROVE loop[n] \in W[n]
    <2> DEFINE j == n - 1
               k == Passed(list, j)
               x == loop[j]
               y == loop[n]
    <2>1. j \in 0 .. 16 /\ n \in 0 .. 16 /\ k \in Nat /\ y = turn(n, x)
      BY <1>9, PassedOK
    <2>2. x \in V /\ Loaded(c, x.c, k * p)
      BY <1>12, <2>1
    <2>3. y \in V
      <3> HIDE DEF V, x, y
      <3> QED
        BY <1>3, <2>1, <2>2
    <2>4. Loaded(c, y.c, Passed(list, n) * p)
      <3>1. CASE j \notin list
        <4>1. Passed(list, n) = k
          BY <3>1, PassedOK
        <4>2. y = x
          BY <2>1, <3>1 DEF turn
        <4> QED
          BY <2>2, <4>1, <4>2
      <3>2. CASE j \in list
        <4> DEFINE m == k * p
                   b == x.c
                   v == x.v
                   r == readBus(b, sz, v)
                   e == SetReg(r.c, j, SignExtended(r.v, sz))
        <4>1. Passed(list, n) = k + 1
          BY <3>2, PassedOK
        <4>2. y.c = e
          BY <2>1, <3>2 DEF turn, At
        <4>3. v \in Int /\ b \in State
          BY <2>2
        <4>4. j \in 0 .. 15
          OBVIOUS
        <4> HIDE DEF k, p, x, y, j
        <4>5. m \in Nat /\ (k + 1) * p = m + p
          BY <1>10, <2>1, OneMore
        <4>6. Loaded(c, b, m)
          BY <2>2
        <4> HIDE DEF m, b, v
        <4>7. Loaded(c, e, m + 4 * Words(sz))
          BY <1>2, <4>3, <4>4, <4>5, <4>6, LoadOn
        <4> HIDE DEF e
        <4> QED
          BY <4>1, <4>2, <4>5, <4>7 DEF p
      <3> QED
        BY <3>1, <3>2
    <2> HIDE DEF V, p, y
    <2>5. y \in W[n]
      BY <2>1, <2>3, <2>4
    <2> QED
      BY <2>5 DEF y
  <1> HIDE DEF N
  <1>13. \A n \in 0 .. N : loop[n] \in W[n]
    <2>1. loop[0] \in W[0] /\ \A n \in 1 .. N : loop[n - 1] \in W[n - 1] => loop[n] \in W[n]
      BY <1>11, <1>12 DEF N
    <2> HIDE DEF W
    <2> QED
      BY <1>2, <2>1, LoopKeeps
  <1> HIDE DEF p
  <1>14. Loaded(c, loop[N].c, Passed(list, 16) * p) /\ loop[N].v \in Int
    BY <1>13 DEF N
  <1> QED
    BY <1>1, <1>14, PassedOK DEF p

LEMMA ThenChanges ==
  ASSUME NEW c \in State, NEW d, NEW n \in Nat, NEW k, Accesses(c, d, n, k),
         NEW e, NEW m \in Nat, NEW sz, NEW keep, Changes(d, e, m, sz, keep)
  PROVE  Changes(c, e, n + m, sz, keep)
  <1>1. d \in State /\ e \in State
    BY DEF Accesses, Changes
  <1>2. 4 * e.bus <= 4 * c.bus + (n + m)
    <2>1. c.bus \in Nat /\ d.bus \in Nat /\ e.bus \in Nat
      BY <1>1, StateFields
    <2>2. 4 * d.bus <= 4 * c.bus + n /\ 4 * e.bus <= 4 * d.bus + m
      BY DEF Accesses, Changes
    <2> QED
      BY <2>1, <2>2
  <1> QED
    BY <1>1, <1>2 DEF Accesses, Changes

LEMMA LoadedChanges ==
  ASSUME NEW c \in State, NEW d, NEW n, Loaded(c, d, n) PROVE Changes(c, d, n, 4, FALSE)
  <1>1. \A r \in 0 .. 7 : d.D[r] \div Top(4) = c.D[r] \div Top(4)
    <2>1. c.D \in Registers /\ d.D \in Registers
      BY StateFields DEF Loaded
    <2> QED
      BY <2>1, WholeRegister
  <1> QED
    BY <1>1 DEF Loaded, Changes

\* The transfers of a MOVEM, from a state that has fetched list and address.
LEMMA MovemMoves ==
  ASSUME NEW c \in State, NEW i, i.reg \in 0 .. 7, i.sz \in {2, 4}, NEW list \in SUBSET (0 .. 15),
         NEW addr \in Int
  PROVE  LET p == Cardinality(list) * (4 * Words(i.sz))
             up == load(c, i.sz, list, addr)
         IN /\ Changes(c, storeDown(c, i, list), p, 4, TRUE)
            /\ Changes(c, storeUp(c, i.sz, list, addr), p, 4, TRUE)
            /\ Changes(c, up.c, p, 4, FALSE)
            /\ Changes(c, setA(up.c, i.reg, up.v), p, 4, FALSE)
  <1> DEFINE sz == i.sz
             p == Cardinality(list) * (4 * Words(sz))
             up == load(c, sz, list, addr)
             e == setA(up.c, i.reg, up.v)
             ks == 4
  <1>1. Changes(c, storeDown(c, i, list), p, ks, TRUE)
    <2> HIDE DEF ks
    <2> QED
      BY storeDownOK, Zenon
  <1>2. Changes(c, storeUp(c, sz, list, addr), p, ks, TRUE)
    <2>1. sz \in {2, 4}
      OBVIOUS
    <2> HIDE DEF ks, sz
    <2> QED
      BY <2>1, storeUpOK, Zenon
  <1>3. Loaded(c, up.c, p) /\ up.v \in Int
    <2>1. sz \in {2, 4}
      OBVIOUS
    <2> HIDE DEF sz
    <2> QED
      BY <2>1, loadOK, Zenon
  <1> HIDE DEF up, p
  <1>4. Loaded(c, e, p)
    <2>1. up.c \in State
      BY <1>3 DEF Loaded
    <2>2. e \in State /\ e.mem = up.c.mem /\ e.cycles = up.c.cycles /\ e.bus = up.c.bus
      BY <1>3, <2>1, setAOK, Zenon
    <2> HIDE DEF e
    <2> QED
      BY <1>3, <2>2 DEF Loaded
  <1> HIDE DEF e
  <1>5. Changes(c, up.c, p, 4, FALSE) /\ Changes(c, e, p, 4, FALSE)
    BY <1>3, <1>4, LoadedChanges, Zenon
  <1> QED
    BY <1>1, <1>2, <1>5, Zenon DEF e, up, p

LEMMA MOVEMDone ==
  ASSUME NEW c \in Started, NEW i, Encodable(i), i.sz # 1, i.dmode \in {0, 1},
         Control(i) \/ (i.mode = 4 /\ i.dmode = 0) \/ (i.mode = 3 /\ i.dmode = 1)
  PROVE  Done(c, opMOVEM(c, i), 4, i.dmode # 1)
  <1> DEFINE m == fetchPC(c)
             b == m.c
             list == MaskOf[m.v]
             z == i.sz
             e == resolveEA(b, i.mode, i.reg, z)
             t == AddressTime(i.mode, i.reg)
             p == Cardinality(list) * (4 * Words(z))
             up == load(b, z, list, b.A[i.reg])
             d == CASE i.dmode = 0 /\ i.mode = 4 -> storeDown(b, i, list)
                    [] i.dmode = 0 /\ i.mode # 4 -> storeUp(e.c, z, list, e.e.addr)
                    [] i.dmode = 1 /\ i.mode = 3 -> setA(up.c, i.reg, up.v)
                    [] i.dmode = 1 /\ i.mode # 3 -> load(e.c, z, list, e.e.addr).c
             q == MovemCycles(i) + Cardinality(list) * By(z, 4, 8)
             keep == i.dmode # 1
  <1>1. /\ z \in {2, 4} /\ z \in Size /\ i.reg \in 0 .. 7 /\ i.mode \in 0 .. 7 /\ c \in State
        /\ Operands(i.mode, i.reg) /\ (Control(i) => IsMem(i.mode, i.reg))
    <2>1. /\ z \in Size /\ i.reg \in 0 .. 7 /\ i.mode \in 0 .. 7 /\ c \in State
          /\ Operands(i.mode, i.reg) /\ (Control(i) => IsMem(i.mode, i.reg))
      BY Starts DEF Encodable, Operands, Control, IsMem
    <2> QED
      BY <2>1 DEF Size
  <1>2. Accesses(c, b, 4, 1) /\ b \in State /\ Len(b.ext) >= 2 /\ m.v \in Word
    BY AfterWord
  <1>3. list \in SUBSET (0 .. 15)
    BY <1>2, Layouts DEF Layouts, Word
  <1>4. opMOVEM(c, i) = Spend(d, q)
    BY DEF opMOVEM
  <1> HIDE DEF m
  <1>5. b.A[i.reg] \in Int
    BY <1>1, <1>2, StateFields, Zenon
  <1>6. Cardinality(list) \in Nat
    BY <1>3, PassedOK
  <1> HIDE DEF b, list
  <1>7. p \in Nat /\ p = Cardinality(list) * By(z, 4, 8)
    <2>1. 4 * Words(z) \in Nat /\ 4 * Words(z) = By(z, 4, 8)
      BY DEF Words, By
    <2> QED
      BY <1>6, <2>1
  <1>8. t \in Nat /\ MovemCycles(i) \in Nat /\ t + 8 <= MovemCycles(i)
    BY <1>1 DEF Control, AddressTime, MovemCycles
  <1> HIDE DEF t, p
  <1>9. Control(i) => Accesses(b, e.c, t, 2) /\ e.c \in State /\ e.e.addr \in Int
    <2> SUFFICES ASSUME Control(i) PROVE Accesses(b, e.c, t, 2) /\ e.c \in State /\ e.e.addr \in Int
      OBVIOUS
    <2> DEFINE a == makeEAMemAddr(b, i.mode, i.reg, z)
    <2>1. Reaches(b, a, t)
      BY <1>1, <1>2, makeEAMemAddrOK DEF t
    <2>2. a = At(e.c, e.e.addr)
      BY <1>1, <1>2, BothEAs
    <2> HIDE DEF a, e
    <2>3. a.c = e.c /\ a.v = e.e.addr
      BY <2>2 DEF At
    <2> QED
      BY <2>1, <2>3, RegisterRange DEF Reaches, Accesses
  <1> HIDE DEF e
  <1>10. Changes(b, d, t + p, 4, keep)
    <2>1. CASE i.mode \in {3, 4}
      <3> DEFINE x == b.A[i.reg]
      <3>1. /\ i.mode = 4 => i.dmode = 0 /\ d = storeDown(b, i, list)
            /\ i.mode = 3 => i.dmode = 1 /\ d = setA(up.c, i.reg, up.v)
        BY <2>1 DEF Control
      <3> HIDE DEF d, x
      <3>2. /\ Changes(b, storeDown(b, i, list), p, 4, TRUE)
            /\ Changes(b, setA(up.c, i.reg, up.v), p, 4, FALSE)
        BY <1>1, <1>2, <1>3, <1>5, MovemMoves, Zenon DEF p, x
      <3>3. Changes(b, d, p, 4, keep)
        BY <2>1, <3>1, <3>2, Zenon
      <3>4. t = 0
        BY <2>1 DEF t, AddressTime
      <3>5. t + p = p
        BY <1>7, <3>4
      <3> QED
        BY <3>3, <3>5
    <2>2. CASE i.mode \notin {3, 4}
      <3> DEFINE x == e.e.addr
                 f == e.c
      <3>1. /\ Control(i)
            /\ i.dmode = 0 => d = storeUp(f, z, list, x)
            /\ i.dmode = 1 => d = load(f, z, list, x).c
        BY <2>2
      <3>2. Accesses(b, f, t, 2) /\ f \in State /\ x \in Int
        BY <1>9, <3>1
      <3> HIDE DEF d, x, f
      <3>3. /\ Changes(f, storeUp(f, z, list, x), p, 4, TRUE)
            /\ Changes(f, load(f, z, list, x).c, p, 4, FALSE)
        BY <1>1, <1>3, <3>2, MovemMoves, Zenon DEF p
      <3>4. Changes(f, d, p, 4, keep)
        BY <3>1, <3>3, Zenon
      <3> HIDE DEF keep
      <3> QED
        BY <1>2, <1>7, <1>8, <3>2, <3>4, ThenChanges
    <2> QED
      BY <2>1, <2>2
  <1> DEFINE n == 4
             k == 1
             r == t + p
             s == n + r
  <1>11. n \in Nat /\ r \in Nat /\ s \in Nat /\ q \in Nat /\ s + 4 <= q
    BY <1>7, <1>8
  <1>12. Accesses(c, b, n, k)
    BY <1>2
  <1> HIDE DEF d, q, keep, n, k, r
  <1>13. Changes(c, d, s, 4, keep)
    BY <1>1, <1>10, <1>11, <1>12, ThenChanges DEF r
  <1> HIDE DEF s
  <1>14. Done(c, Spend(d, q), 4, keep)
    BY <1>11, <1>13, SpendDone
  <1> QED
    BY <1>4, <1>14 DEF keep
===============================================================================
