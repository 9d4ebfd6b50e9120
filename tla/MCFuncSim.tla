----------------------------- MODULE MCFuncSim -----------------------------
(* An instance of FuncSim for TLC. *)
EXTENDS FuncSim

W(op, arg) == [op |-> op, arg |-> arg]
Program == {W("j", 1), W("b", 3), W("teq", 0), W("eret", 0), W("sw", 2), W("csrw", 0), W("syscall", 0)}
Stored == {W("j", 1)}
Architectures == {"mips", "riscv"}
Three == {3}
KernelResults == {"SYSCALL", "BadInteraction"}
=============================================================================
