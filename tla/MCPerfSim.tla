----------------------------- MODULE MCPerfSim -----------------------------
(* Programs and parameters of the pipeline for TLC. *)
EXTENDS PerfSim

Instr(op, s1, s2, d1, d2) ==
    [op |-> op, src |-> <<s1, s2>>, dst |-> <<d1, d2>>, target |-> Junk, trap |-> "NO_TRAP"]
To(i, a) == [i EXCEPT !.target = a]
Raising(i, t) == [i EXCEPT !.trap = t]

MCRegs == {"a", "b", "hi"}
MCInitRF == ("a" :> 21) @@ ("b" :> 34) @@ ("hi" :> 55)

add_ab == Instr("OUT_ARITHM", "a", "b", "a", "zero")
movz   == Instr("OUT_R_CONDM", "a", "b", "b", "zero")
mult   == Instr("OUT_DIVMULT", "a", "b", "a", "hi")
madd   == Instr("OUT_R_ACCUM", "a", "b", "a", "hi")
mfhi   == Instr("OUT_ARITHM", "hi", "zero", "b", "zero")
mthi   == Instr("OUT_ARITHM", "b", "zero", "hi", "zero")
lw     == Instr("OUT_LOAD", "b", "zero", "a", "zero")
lwl    == Instr("OUT_PARTIAL_LOAD", "b", "zero", "a", "zero")
sw     == Instr("OUT_STORE", "b", "a", "zero", "zero")
beq(t) == To(Instr("OUT_BRANCH", "a", "b", "zero", "zero"), t)
beql(t) == To(Instr("OUT_BRANCH_LIKELY", "a", "zero", "zero", "zero"), t)
jal(t) == To(Instr("OUT_J_JUMP", "zero", "zero", "b", "zero"), t)
jr     == Instr("OUT_R_JUMP", "b", "zero", "zero", "zero")
syscall == Raising(Instr("OUT_SYSCALL", "zero", "zero", "zero", "zero"), "SYSCALL")
teq    == Raising(Instr("OUT_TRAP", "a", "b", "zero", "zero"), "EXPLICIT_TRAP")

\* Everything that reads and writes registers, and a branch that stays or goes.
DataAlphabet == {add_ab, movz, mult, madd, mfhi, lw, lwl, sw, beq(0)}
\* Every kind of jump, and what writeback redirects.
ControlAlphabet == {beq(0), jal(1), jr, syscall, teq}
ColdAlphabet == {beql(3), jr}
SecondDstAlphabet == {mthi, mult, mfhi}

AllTags == {Line(a) : a \in Addr \cup {Junk}}
NoTags == {}

Kernel == {"NO_TRAP", "HALT"}
=============================================================================
