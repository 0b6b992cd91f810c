------------------------------- MODULE MCBoard -------------------------------
(***************************************************************************)
(* Instructions and a small system: boot code that starts a user task, the *)
(* task with calls, traps, faults and a stack frame, and handlers that     *)
(* call a subroutine, stop or return.  Supervisor addresses lie above the  *)
(* bus width of 128.                                                       *)
(***************************************************************************)
EXTENDS Integers

Ins(op) == [op |-> op, ea |-> "Dn", r |-> 7, n |-> 0, w |-> {}, k |-> 0,
            q |-> {}, yes |-> FALSE]
InsA(op, r) == [Ins(op) EXCEPT !.r = r]
InsEA(op, ea, r) == [Ins(op) EXCEPT !.ea = ea, !.r = r]
InsW(op, ea, r, w) == [Ins(op) EXCEPT !.ea = ea, !.r = r, !.w = w]
InsK(op, ea, k) == [Ins(op) EXCEPT !.ea = ea, !.k = k]

SysVector ==
  [v \in 0 .. 255 |-> CASE v = 0 -> 228 [] v = 1 -> 0
                        [] v = 26 -> 116 [] v = 32 -> 52 [] OTHER -> 56]

Boot == [a \in {0, 6, 8, 14, 18} |->
  CASE a = 0  -> {[Ins("MOVEA") EXCEPT !.r = 6, !.k = 112]}
    [] a = 6  -> {[Ins("MOVEtoUSP") EXCEPT !.r = 6]}
    [] a = 8  -> {[Ins("PEA") EXCEPT !.ea = "abs.L", !.k = 20]}
    [] a = 14 -> {[Ins("MOVE") EXCEPT !.ea = "-(An)"]}
    [] a = 18 -> {Ins("RTE")}]

Task == [a \in {20, 24, 26, 28, 30, 32, 36, 38, 42, 44, 48, 50} |->
  CASE a = 20 -> {[Ins("BSR") EXCEPT !.ea = "imm", !.k = 22]}
    [] a = 24 -> {Ins("TRAP")}
    [] a = 26 -> {Ins("NOP"), [Ins("MOVEfromUSP") EXCEPT !.r = 6]}
    [] a = 28 -> {[Ins("ADD") EXCEPT !.q = {1}]}
    [] a = 30 -> {Ins("TRAPV")}
    [] a = 32 -> {[Ins("DIVU") EXCEPT !.ea = "imm"]}
    [] a = 36 -> {Ins("ILLEGAL"), Ins("NOP"), Ins("LINEA"), Ins("LINEF"), Ins("RTE")}
    [] a = 38 -> {[Ins("CHK") EXCEPT !.ea = "imm", !.yes = TRUE]}
    [] a = 42 -> {[Ins("BRA") EXCEPT !.k = -20]}
    [] a = 44 -> {[Ins("LINK") EXCEPT !.r = 6, !.k = -2]}
    [] a = 48 -> {[Ins("UNLK") EXCEPT !.r = 6]}
    [] a = 50 -> {Ins("RTS")}]

Handlers == [a \in {52, 54, 56, 60, 116, 118} |->
  CASE a = 52 -> {[Ins("BSR") EXCEPT !.k = 6], [Ins("STOP") EXCEPT !.w = {13}]}
    [] a = 54 -> {Ins("RTE")}
    [] a = 56 -> {Ins("RTE")}
    [] a = 60 -> {Ins("RTS")}
    [] a = 116 -> {[Ins("BSR") EXCEPT !.k = -58]}
    [] a = 118 -> {Ins("RTE")}]

Merge(f, g) == [a \in DOMAIN f \cup DOMAIN g |-> IF a \in DOMAIN f THEN f[a] ELSE g[a]]
SystemParts == Merge(Boot, Merge(Task, Handlers))
Program(parts, addrs) == [a \in addrs |-> IF a \in DOMAIN parts THEN parts[a] ELSE {Ins("ILLEGAL")}]

\* Supervisor stack below 100, user stack below 112.
SysRAM == {a \in 64 .. 110 : a % 2 = 0}
SysJunkWord == {{}}
SysJunkLong == {0}
=============================================================================
