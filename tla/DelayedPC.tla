----------------------------- MODULE DelayedPC -----------------------------
(***************************************************************************)
(* The program counter a programmer of MIPS sees: pc is the instruction to *)
(* execute and npc the one after it.  A jump with a delay slot changes npc *)
(* and any other jump changes both.  What a jump in a delay slot does is   *)
(* unpredictable.  An exception goes to its vector and drops a pending     *)
(* jump.  Between two runs a debugger may move the program counter.        *)
(***************************************************************************)
EXTENDS Integers

CONSTANT Size \* of the ring of addresses

Address == 0..(Size - 1)
Following(a) == (a + 1) % Size

VARIABLES
    pc, npc,
    slot,    \* pc is in the delay slot of a jump
    instr,   \* executed last: [pc, new_PC, slots, jumps, vector]; vector is -1 without a trap
    running

vars == <<pc, npc, slot, instr, running>>

GoTo(a) == pc' = a /\ npc' = Following(a) /\ slot' = FALSE

Execute ==
    /\ running
    /\ instr'.pc = pc
    /\ \/ instr'.vector # -1 /\ GoTo(instr'.vector)
       \/ instr'.vector = -1 /\ ~instr'.jumps /\ GoTo(npc)
       \/ /\ instr'.vector = -1 /\ instr'.jumps /\ ~slot
          /\ IF instr'.slots = 0 THEN GoTo(instr'.new_PC)
             ELSE pc' = npc /\ npc' = instr'.new_PC /\ slot' = TRUE
       \/ instr'.vector = -1 /\ instr'.jumps /\ slot /\ \E a \in Address : GoTo(a)

StartOrStop == UNCHANGED <<pc, npc, slot, instr>> /\ running' # running
Move == ~running /\ UNCHANGED <<instr, running>> /\ \E a \in Address : GoTo(a)

Next == Execute \/ StartOrStop \/ Move
=============================================================================
