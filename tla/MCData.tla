------------------------------- MODULE MCData -------------------------------
(***************************************************************************)
(* Programs for the data path.  Bytes have 4 bits (words 8, longs 16).     *)
(***************************************************************************)
EXTENDS M68kData, TLC

NarrowBits == [sz \in Size |-> 2 ^ (Unit * sz - 1)]

\* The two low bits of a word choose the index register and its size.
IndexWords ==
  [w \in 0 .. Top(2) - 1 |-> [addr |-> w % 2 = 1, xn |-> 0, long |-> w % 4 >= 2,
                              disp |-> w \div Top(1)]]
Lists == <<{}, {0}, {0, 1, 8, 15}, {0, 7, 14, 15}>>
ListWords == [w \in 0 .. Top(2) - 1 |-> Lists[(w % 4) + 1]]

Dn   == {0} \X {0, 1}
An   == {1} \X {0, 7}
Ctl  == ({2, 5, 6} \X {0, 7}) \cup ({7} \X {0, 1})
Auto == {3, 4} \X {0, 7}
PC   == {7} \X {2, 3}
Imm  == {<<7, 4>>}
MemAlt == Ctl \cup Auto
Data   == Dn \cup MemAlt \cup PC \cup Imm
AnyEA  == Data \cup An

\* An instruction, with its register numbers from the sets given.
I(op, sizes, eas, dns, datas, typs, lefts, bys, dmodes) ==
  {[op |-> op, sz |-> sz, mode |-> ea[1], reg |-> ea[2], dn |-> dn, data |-> data, typ |-> typ,
    left |-> left, byReg |-> by, dmode |-> dm] :
      sz \in sizes, ea \in eas, dn \in dns, data \in datas, typ \in typs, left \in lefts,
      by \in bys, dm \in dmodes}
Plain(op, sizes, eas, dns) == I(op, sizes, eas, dns, {0}, {""}, {FALSE}, {FALSE}, {0})
Quick(op, sizes, eas, datas) == I(op, sizes, eas, {0}, datas, {""}, {FALSE}, {FALSE}, {0})
Bit(op, eas) == Plain(op, {4}, eas \cap Dn, {1}) \cup Plain(op, {1}, eas \ Dn, {1})
Moves(op, sizes, eas, dmodes) == I(op, sizes, eas, {0, 1}, {0}, {""}, {FALSE}, {FALSE}, dmodes)

WL == {2, 4}
NoByteAn(S) == {i \in S : ~(i.sz = 1 /\ i.mode = 1)}

\* Every data instruction in every addressing mode and size that the code
\* registers for it, on D0, D1, A0 and A7.
AllModes ==
  [op \in {"ADDtoReg", "SUBtoReg", "CMP"} |-> NoByteAn(Plain(op, Size, AnyEA, {1}))]
  @@ [op \in {"ANDtoReg", "ORtoReg"} |-> Plain(op, Size, Data, {1})]
  @@ [op \in {"ADDtoEA", "SUBtoEA", "ANDtoEA", "ORtoEA"} |-> Plain(op, Size, MemAlt, {1})]
  @@ [op \in {"ADDA", "SUBA", "CMPA"} |-> Plain(op, WL, AnyEA, {0, 7})]
  @@ [op \in {"ADDI", "SUBI", "CMPI", "ANDI", "ORI", "EORI"} |-> Plain(op, Size, Dn \cup MemAlt, {0})]
  @@ [op \in {"ADDQ", "SUBQ"} |-> NoByteAn(Quick(op, Size, Dn \cup An \cup MemAlt, {0, 1}))]
  @@ [op \in {"ADDXreg", "SUBXreg"} |-> Plain(op, Size, Dn, {0, 1})]
  @@ [op \in {"ADDXmem", "SUBXmem"} |-> Plain(op, Size, {4} \X {0, 7}, {0, 7})]
  @@ ("CMPM" :> Plain("CMPM", Size, {3} \X {0, 7}, {0, 7}))
  @@ [op \in {"MULU", "MULS", "DIVU", "DIVS", "CHK"} |-> Plain(op, {2}, Data, {1})]
  @@ [op \in {"NEG", "NEGX", "CLR", "NOT", "TST"} |-> Plain(op, Size, Dn \cup MemAlt, {0})]
  @@ ("EOR" :> Plain("EOR", Size, Dn \cup MemAlt, {1}))
  @@ ("EXTW" :> Plain("EXTW", {2}, Dn, {0})) @@ [op \in {"EXTL", "SWAP"} |-> Plain(op, {4}, Dn, {0})]
  @@ [op \in {"TAS", "NBCD"} |-> Plain(op, {1}, Dn \cup MemAlt, {0})]
  @@ ("ShiftReg" :> I("ShiftReg", Size, Dn, {1}, {0, 3}, {"AS", "LS", "ROX", "RO"}, BOOLEAN,
                      BOOLEAN, {0}))
  @@ ("ShiftMem" :> I("ShiftMem", {2}, MemAlt, {0}, {0}, {"AS", "LS", "ROX", "RO"}, BOOLEAN,
                      {FALSE}, {0}))
  @@ [op \in {"ABCDreg", "SBCDreg"} |-> Plain(op, {1}, Dn, {0, 1})]
  @@ [op \in {"ABCDmem", "SBCDmem"} |-> Plain(op, {1}, {4} \X {0, 7}, {0, 7})]
  @@ ("Scc" :> Quick("Scc", {1}, Dn \cup MemAlt, {0, 1, 2, 13}))
  @@ ("BTSTdyn" :> Bit("BTSTdyn", Data)) @@ ("BTSTstatic" :> Bit("BTSTstatic", Data \ Imm))
  @@ [op \in {"BCHGdyn", "BCLRdyn", "BSETdyn", "BCHGstatic", "BCLRstatic", "BSETstatic"} |->
        Bit(op, Dn \cup MemAlt)]
  @@ ("MOVE" :> Moves("MOVE", Size, AnyEA, {0})
                \cup I("MOVE", Size, AnyEA, {0, 7}, {0}, {""}, {FALSE}, {FALSE}, 2 .. 6)
                \cup I("MOVE", Size, AnyEA, {0, 1}, {0}, {""}, {FALSE}, {FALSE}, {7}))
  @@ ("MOVEA" :> Plain("MOVEA", WL, AnyEA, {0, 7}))
  @@ ("MOVEQ" :> I("MOVEQ", {4}, {<<0, 0>>}, {0, 1}, {0, 5, 9}, {""}, {FALSE}, {FALSE}, {0}))
  @@ ("LEA" :> Plain("LEA", {4}, Ctl \cup PC, {0, 7})) @@ ("PEA" :> Plain("PEA", {4}, Ctl \cup PC, {0}))
  @@ ("MOVEM" :> I("MOVEM", WL, Ctl \cup ({4} \X {0, 7}), {0}, {0}, {""}, {FALSE}, {FALSE}, {0})
                 \cup I("MOVEM", WL, Ctl \cup PC \cup ({3} \X {0, 7}), {0}, {0}, {""}, {FALSE},
                        {FALSE}, {1}))
  @@ ("EXG" :> I("EXG", {4}, Dn, {0, 1}, {0}, {"DD"}, {FALSE}, {FALSE}, {0})
               \cup I("EXG", {4}, An, {0, 7}, {0}, {"AA"}, {FALSE}, {FALSE}, {0})
               \cup I("EXG", {4}, An, {0, 1}, {0}, {"DA"}, {FALSE}, {FALSE}, {0}))
  @@ ("MOVEP" :> I("MOVEP", WL, {5} \X {0, 7}, {0, 1}, {0}, {""}, {FALSE}, {FALSE}, {0, 1}))

Words4 == {<<4, 6, 0, 9>>, <<131, 5, 253, 2>>, <<2, 8, 1, 0>>}

\* D0, D1, A0 and A7 as given, the other registers something else.
Start(d0, d1, a0, a7, f) ==
  [D |-> [r \in 0 .. 7 |-> CASE r = 0 -> d0 [] r = 1 -> d1 [] OTHER -> r],
   A |-> [r \in 0 .. 7 |-> CASE r = 0 -> a0 [] r = 7 -> a7 [] OTHER -> 16 * r],
   pc |-> 6, ccr |-> f, mem |-> [a \in 0 .. BusMod - 1 |-> (7 * a + 3) % Top(1)]]
StartStates == {Start(0, 32771, 4, 12, {}), Start(65535, 21, 7, 0, CCRBits),
                Start(40710, 128, 65534, 65532, {flagX}), Start(9, 65520, 2, 14, {flagZ, flagC})}

\* One instruction in each mode, from states with many addresses and indexes.
Addressing == "CMP" :> NoByteAn(Plain("CMP", Size, AnyEA, {1}))
ManyStates ==
  {Start(d0, 0, a0, a7, {}) : d0 \in {1, 128, 32768, 65535}, a0 \in {0, 1, 15, 32767, 65535},
                              a7 \in {0, 1, 65534}}

\* Quotients, products and comparisons of D1 and D0.
Values == [op \in {"MULU", "MULS", "DIVU", "DIVS"} |-> Plain(op, {2}, {<<0, 0>>}, {1})]
          @@ ("CMP" :> Plain("CMP", Size, {<<0, 0>>}, {1}))
Divisors == {0, 1, 2, 3, 15, 16, 127, 128, 129, 254, 255, 65281}
Dividends ==
  {257 * n : n \in 0 .. 127}
  \cup {1, 127, 128, 129, 255, 256, 16255, 16256, 16257, 16384, 16511, 16512, 32640, 32767, 32768,
        32769, 32895, 32896, 32897, 49151, 49152, 65279, 65280, 65281, 65407, 65408, 65409, 65535}
Operands == {Start(d0, d1, 0, 0, {flagV, flagX}) : d0 \in Divisors, d1 \in Dividends}

\* Shifts of D0 by D1, up to the largest count.
Shifts == "ShiftReg" :> I("ShiftReg", Size, {<<0, 0>>}, {1}, {0}, {"AS", "LS", "ROX", "RO"}, BOOLEAN,
                          {TRUE}, {0})
Shifted0 == {Start(257 * w, n, 0, 0, f) : w \in {15 * k : k \in 0 .. 17}, n \in 0 .. 31,
                                          f \in {{}, {flagX, flagV}}}

\* Saves and restores of lists, with an exchange of registers in between.  The
\* stack starts so low that it wraps, or odd.
Subroutines ==
  ("MOVEM" :> I("MOVEM", WL, {<<4, 7>>}, {0}, {0}, {""}, {FALSE}, {FALSE}, {0})
              \cup I("MOVEM", WL, {<<3, 7>>}, {0}, {0}, {""}, {FALSE}, {FALSE}, {1}))
  @@ ("EXG" :> I("EXG", {4}, {<<1, 0>>}, {7}, {0}, {"DA"}, {FALSE}, {FALSE}, {0}))
StackStarts == {Start(37000, 9, 300, sp, {}) : sp \in {6, 33}}

NoWords == {<<0, 0, 0, 0>>}
DataPrograms ==
  [modes   |-> [ops |-> AllModes, streams |-> Words4, starts |-> StartStates, steps |-> 1],
   address |-> [ops |-> Addressing, streams |-> Words4, starts |-> ManyStates, steps |-> 1],
   values  |-> [ops |-> Values, streams |-> NoWords, starts |-> Operands, steps |-> 1],
   shifts  |-> [ops |-> Shifts, streams |-> NoWords, starts |-> Shifted0, steps |-> 1],
   saves   |-> [ops |-> Subroutines, streams |-> {<<n, 0, 0, 0>> : n \in {0, 2, 3}}, starts |-> StackStarts,
                steps |-> 5]]
=============================================================================
