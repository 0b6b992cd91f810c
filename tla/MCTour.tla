------------------------------- MODULE MCTour -------------------------------
(***************************************************************************)
(* A loop through every handler but TRAP and STOP, in both modes and without*)
(* devices.  Where a privileged instruction stands, so may an unprivileged *)
(* one of its length: the user's loop gets past it.  The supervisor stack  *)
(* starts at 0 and grows down through the top of memory.                   *)
(***************************************************************************)
EXTENDS M68kCPU, MCBoard

TourParts == [a \in {0, 6, 8, 10, 12, 16, 20, 22, 24, 28, 32, 36, 38, 40, 42, 46,
                     52, 58, 60, 62, 64, 66, 72, 76, 80, 84, 86, 90, 92} |->
  CASE a = 0  -> {[Ins("MOVEA") EXCEPT !.r = 6, !.k = 104]}
    [] a = 6  -> {InsA("MOVEtoUSP", 6)}
    [] a = 8  -> {InsA("MOVEfromUSP", 6), Ins("NOP")}
    [] a = 10 -> {Ins("RESET"), Ins("NOP")}
    [] a = 12 -> {InsW("EORItoSR", "imm", 7, {13}), [Ins("DIVU") EXCEPT !.ea = "imm"]}
    [] a = 16 -> {InsW("ORItoSR", "imm", 7, {13, 8}), InsW("CHK", "imm", 7, {15})}
    [] a = 20 -> {InsEA("MOVEfromSR", "-(An)", 7)}
    [] a = 22 -> {InsEA("MOVEtoCCR", "(An)+", 7)}
    [] a = 24 -> {InsW("ANDItoCCR", "imm", 7, {13, 0})}
    [] a = 28 -> {InsW("ORItoCCR", "imm", 7, {13, 2})}
    [] a = 32 -> {InsW("EORItoCCR", "imm", 7, {13, 0})}
    [] a = 36 -> {[InsK("Bcc", "Dn", 4) EXCEPT !.n = 7]}
    [] a = 38 -> {Ins("NOP"), Ins("ILLEGAL"), Ins("LINEA"), Ins("LINEF")}
    [] a = 40 -> {[Ins("ADD") EXCEPT !.q = {1}], Ins("TRAPV")}
    [] a = 42 -> {[InsK("DBcc", "imm", -6) EXCEPT !.n = 5],
                  [InsK("DBcc", "imm", -6) EXCEPT !.n = 1, !.yes = TRUE],
                  [InsK("DBcc", "imm", -6) EXCEPT !.n = 1]}
    [] a = 46 -> {InsK("JSR", "abs.L", 60)}
    [] a = 52 -> {InsK("PEA", "abs.L", 72)}
    [] a = 58 -> {InsK("BRA", "Dn", 4)}
    [] a = 60 -> {Ins("RESET"), Ins("NOP")}
    [] a = 62 -> {Ins("RTS")}
    [] a = 64 -> {InsEA("MOVEfromSR", "-(An)", 7)}
    [] a = 66 -> {Ins("RTR")}
    [] a = 72 -> {InsW("ANDItoSR", "imm", 7, {13, 2}), InsK("BSR", "imm", 12)}
    [] a = 76 -> {InsW("MOVEtoSR", "imm", 7, {}), Ins("MOVE")}
    [] a = 80 -> {InsK("JMP", "abs.W", 8)}
    [] a = 84 -> {Ins("RTE")}
    [] a = 86 -> {[InsA("LINK", 6) EXCEPT !.k = -2]}
    [] a = 90 -> {InsA("UNLK", 6)}
    [] a = 92 -> {Ins("RTS")}]

Tour == Program(TourParts, 0 .. BusMod - 1)
TourVector == [v \in 0 .. 255 |-> CASE v = 0 -> 0 [] v = 1 -> 0 [] OTHER -> 84]
TourRAM == {96, 98, 100, 102, 118, 120, 122, 124, 126}
\* A return through memory that is not there would halt: none does.
TourJunkLong == {1}
=============================================================================
