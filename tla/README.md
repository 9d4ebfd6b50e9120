# Formal models of MIPT-MIPS

MIPT-MIPS is a simulator of MIPS and RISC-V processors. It has a *functional*
simulator, which executes one instruction at a time, and a *performance*
simulator, which models a pipeline cycle by cycle and compares every retired
instruction with a functional one. This directory holds TLA+ models of its core
logic, TLC configurations that check them on small instances, and proofs that
TLAPS checks for every instance.

`PROJECT.json` relates the modules to the source: the lines each definition
models (`map`), what each run checks, the mutants that show that every property
can fail, findings, hazards and theorems. Paths below are relative to
`src/simulator/` unless they say otherwise.

## 1. The system

### Components

| component | state | operations | correct means |
|---|---|---|---|
| ports (`infra/ports`) | per reader a ring buffer; per writer a counter of the writes in a cycle | `write`, `is_ready`, `read`, cleanup of stale data | a datum is readable after exactly the latency, once, in that cycle only; the ring never overwrites an object in flight; a write above the bandwidth is refused |
| core (`modules/core`) | the cycle, the current trap | `run`, `clock`, `clock_tree` | `run` returns; after n instructions; a second call goes on where the first stopped |
| fetch (`modules/fetch`) | tags of the instruction cache, branch predictor, pending miss (in ports) | `clock`, target selection, prefetch | the oldest redirection wins and survives a miss |
| decode and bypassing unit (`modules/decode`) | scoreboard of the registers | `clock`, `trace_new_instr`, `update`, `handle_flush` | an instruction gets the operands of the youngest older writer; one instruction a cycle reaches writeback |
| execute (`modules/execute`) | the long ALU (in ports), `flush_expiration_latency` | `clock` | a flush kills what is in the long ALU and nothing younger |
| mem, branch (`modules/mem`, `modules/branch`) | guest memory | `clock` | stores of flushed instructions do not happen; mispredictions are found |
| writeback and checker (`modules/writeback`) | retired count, next PC, the checker's machine | `clock`, kernel and driver calls | what retires is what the functional simulator executes |
| tag array, replacement (`infra/cache`, `infra/replacement`) | tags of ways, hash table, LRU list or PLRU tree | `read`, `write`, `touch`, `update` | the hash table finds exactly what the ways hold; the victim is the least recently used |
| decoded instruction cache (`infra/instrcache`, `func_sim/instr_memory.h`) | pool of decoded instructions | `update`, `touch`, `erase` | what it returns was decoded from the present bytes |
| functional simulator (`func_sim`) | pc and pending delay slots, nop counter | `step`, `run` | delay slots, traps and jumps in them in order |
| branch predictor (`bpu`) | two-level entries | `update`, `get_bp_info` | saturating counters and histories |
| register file, ALU (`func_sim/rf`, `func_sim/alu_primitives.h`) | registers | reads, masked and accumulating writes | arithmetic agrees with the instruction set |
| guest memory (`memory`) | plain or hierarchied pages, replicas | `memcpy_*`, `load_store` | a byte read is the last one written |
| kernels (`kernel`) | file descriptors, exit code | `execute`, retry loop, MARS calls | registers and the replica agree after a call |
| drivers, traps (`simulator.h`, `mips`, `risc_v`) | | `handle_trap` | fetch, checker and `get_pc` agree on where to go on |
| instruction sets (`mips`, `risc_v`) | tables, no state | construction of an instruction from a word | the row an instruction is found in agrees with itself; immediates are put together right |
| debugger wrapper (`export/gdb`) | a table of simulators, the last trap | `resume`, writes of memory and pc | nothing stale after an edit; a run ends for the reason it gives |
| loaders, factory, command line, module tree, cache runner, cen64 bridge, visualizer | see `PROJECT.json` | | start-up, I/O or glue |

### How the parts interact

Stages share nothing but ports, the register file (decode reads, writeback
writes), the memory (the memory stage) and the checker (writeback). `clock_tree`
calls writeback last and fetch first; since every port has a latency of at least
one cycle, a stage sees what others sent in earlier cycles. Redirections travel
backwards: decode, branch and writeback send targets and flushes to the stages
before them. The kernel and the driver are called by writeback when an
instruction retires with a trap; they write registers and may call back
(`set_pc`) into the simulator that called them.

### What is hard

There are no threads and nothing is persistent. What a test hardly reaches is
the coincidence in one cycle of events with different delays: a flush and a
completion of the long ALU, a target and a pending cache miss, a trap and a
mispredicted branch, a halt and a second call of `run`; scoreboard entries left
over from an earlier producer; rings and counters at their limit. In the
sequential parts it is the long sequence of legal calls (evictions, descriptors,
late replicas, edits between runs) and the operand at the edge of its range. Section 7
and the list `hazards` of `PROJECT.json` name the lines.

## 2. Modules

```
 PortQueue --> Ports ==implements==> DelayLine          Instruction
                 |                       :               |        |
             PortsProofs (NatMinimum)    : as promise  Pipeline  DataBypass  Checker
                                         :...............|            |         |
                            Fetch  Decode  Execute  Mem  Branch   Writeback
                                      \_______ PerfSim _______/
                                                  '---> PerfSimProofs (NatMinimum)
 Replacement --> TagSet ==implements==> LRUSet
      |             |---> TagSetProofs ---.
      |             '---> Predictor --> PredictorProofs
      '---------> InstrCache --> FuncSim ==implements==> DelayedPC
                                    '---> FuncSimProofs
 Words --> ALU -----------------------.
   '-----> Decoder --> MIPSInstr ------+--> Arith
           Executors --'--> RISCVInstr '
 GuestMemory --> GuestMemoryProofs (NatMinimum)      Kernel --> KernelProofs
```

A module `...Proofs` holds the theorems about the module it is named after. A module `MC...` gives the constants of the module it is named after values for TLC.

| module | code | state and actions |
|---|---|---|
| `PortQueue` | `infra/ports/port_queue/port_queue.h` | a queue is a record of the arena, both pointers and the fill; `emplace`, `pop` |
| `Ports` | `infra/ports/ports.h` | one port map key: the cycle, a queue per reader, the write counter; `Write`, `WriteOverload`, `IsReady`, `Read`, `ReadNothing`, `Tick` |
| `DelayLine` | the promise of a port | no buffer: a sequence per reader with due cycles |
| `Instruction` | `func_sim/operation.h`, `modules/core/perf_instr.h`, `func_sim/rf/rf.h` | operation classes, dynamic instructions, register writes |
| `Pipeline` | `ports_instance.h`, ports between the stages | `wire[p]`: what travels on port `p` and how far; the register file; the program |
| `DataBypass` | `modules/decode/bypass` | the scoreboard as a value, one operator for each method |
| `Fetch` | `modules/fetch` | `FetchInMiss`, `FetchBubble`, `FetchMiss`, `FetchHit`: the paths through `clock` |
| `Decode` | `modules/decode` | `DecodeFlush`, `DecodeBubble`, `DecodeStall`, `DecodeIssue` |
| `Execute` | `modules/execute` | flush, long, simple, memory and branch paths, completion of the long ALU |
| `Mem`, `Branch` | `modules/mem`, `modules/branch` | flush, bubble, instruction |
| `Writeback` | `modules/writeback`, kernel and driver as it calls them | `WritebackInstr` retires one instruction (the loop over `read_instructions` takes one step for each), `WritebackBubble` |
| `Checker` | `modules/writeback/checker`, `FuncSim::step` | one functional step and the comparison |
| `PerfSim` | `modules/core/perf_sim.cpp` | `phase` is the stage `clock_tree` calls next; `core_clock` ends a cycle; `run` is a later call of `run` |
| `Replacement` | `infra/replacement/cache_replacement.cpp` | LRU as a list of ways, pseudo-LRU as a tree of flags |
| `TagSet` | `infra/cache/cache_tag_array.cpp` | the tags, hash table and replacement of one set; `Read`, `Write` |
| `LRUSet` | the promise of an LRU set | the last used tags, latest first |
| `Predictor` | `modules/fetch/bpu` | one set of the target buffer: tags (`TagSet`), a direction entry and a target for each way; `update`; `get_bp_info` is asked in every state |
| `InstrCache` | `infra/instrcache`, `infra/arena.h`, `LRU::set_to_erase` | hash table, arena, keys and list of places as a value; `updated`, `touched`, `erased` |
| `FuncSim` | `func_sim/func_sim.cpp`, `instr_memory.h`, drivers, `export/gdb/gdb_wrapper.cpp` | memory of instructions, the cache, pending program counters, nop counter, driver registers; `Run`, `Step`, `RunEnds`, and the debugger's `MemoryWrite` and `WritePC` |
| `DelayedPC` | the promise about delay slots | `pc` and `npc` as a programmer of MIPS sees them |
| `GuestMemory` | `memory`, `infra/endian.h`, the address executors of `alu.h` | a hierarchied primary with sets and pages, a plain replica, the array of bytes they should be; `Store`, `Copy`, `Memset`, `AddReplica` |
| `Kernel` | `kernel/kernel.cpp`, `kernel/mars`, `kernel/replicant.h` | streams, files, descriptors, registers of the simulator and of the replica; `Call` by the guest, `Attempt` is one `execute()` of the retry loop, `AddReplica` |
| `Words` | `infra/macro.h` | a word is the set of the positions of its ones |
| `ALU` | `func_sim/alu.h`, `alu_primitives.h`, `multiplication.h` | one operator for each executor |
| `Decoder` | `risc_v/riscv_decoder.h`, `mips/mips_instr_decode.h` | immediates and targets |
| `Executors` | `func_sim/operation.h`, `alu.h` | what an executor reads, writes, addresses and masks; what a table entry is |
| `MIPSInstr` | `mips/mips_instr.cpp`, `mips_version.h`, `mips_register` | every opcode table, the lookup, registers, versions, delay slots |
| `RISCVInstr` | `risc_v/riscv_instr.cpp` | the table by mnemonic, the lookup by width |
| `Arith` | the above, `func_sim/rf/rf.h` | `Execute` one instruction, `Accumulate` in HI and LO, `Decode` an immediate, `DecodeMIPS`, `DecodeRISCV` |

A stage is one atomic action, as it is in the code. The pipeline uses `DelayLine`'s
promise for its ports and not the ring buffer; `Ports` shows that the ring buffer
keeps that promise as long as no port is written above its bandwidth, and the
invariant `NoPortClash` of the pipeline, which is proved too (`PerfSimNoPortClash`), shows
that condition.

### Abstractions

* **Values of the pipeline.** A result is `Mix(pc, a, b, k)`, a number modulo 61 that
  depends on the address, both operands and the destination. A wrong operand gives a
  wrong result unless two values collide modulo 61; a collision could hide an error but
  cannot invent one. Writes that depend on the old register (conditional moves, partial
  loads, accumulation) are `Merged`. What an ALU really computes is `Arith`.
* **Outcomes.** Branch directions, indirect targets and whether a conditional
  trap fires are chosen freely by execute. The checker takes the same outcome if
  it executes the same address with the same operands and a free one otherwise.
* **Programs.** In the pipeline the instruction at an address is chosen when it is
  first fetched, from the run's alphabet: one run covers every program over the alphabet.
  Addresses form a ring of `CodeSize` instructions; `Junk` is the address a register that
  was never computed may hold (`NO_VAL32`), and holds a nop. There the program does not
  change; in `FuncSim` stores and the debugger write it.
* **Predictor and caches.** In the pipeline the predictor is a map from known
  jumps to targets with a free direction and a free victim, which includes
  whatever any `bp-mode` and any geometry do. The instruction cache is a set of
  lines with a free victim. `TagSet` and `Predictor` look at one set in detail.
* **Memory.** One cell in the pipeline, so that every load sees every store. In
  `GuestMemory` a byte is a digit of base `Radix`.
* **Kernel.** In the pipeline and in `FuncSim` a system call leaves one of `kernel_results`
  and may write `v0`. In `Kernel` the guest is the environment and makes any call; the
  streams of the standard library are modelled from how the code uses them (flags,
  positions, `>>`, `stoll`) and marked external.
* **Delay slots.** The stages do not implement them; the pipeline model is about the
  instruction sets without (MARS, RISC-V). `FuncSim` has both.
* **Tables.** Consecutive entries that differ only in name and in what they compute
  are one row. A RISC-V instruction is its mnemonic: which words stand for it is known
  to a generated header that is not in the repository. Every other column (class,
  size, immediate, sources, destinations, versions) is kept.
* **Not in the state:** logging, statistics, the wall clock, dumps, disassembly.

Definitions whose comment mentions a *mutant* are plausible errors that no
specification uses. `PROJECT.json` says which definition each one replaces and
which property then fails.

## 3. Properties and runs

`tlc -config <cfg> <module>`. Section 6 discusses the violated ones.

| run | instance | checks |
|---|---|---|
| `ports` | bandwidth 2, readers of latency 1 and 2, cycles 0 to 4, a client that keeps to the bandwidth | `TypeOK`, `NoOverwrite`, `InFlight`, `ImplementsDelayLine` |
| `ports_bandwidth` | bandwidth 1, 2 writes a cycle | `OverloadThrows` is **violated** |
| `perf_data` | 3 of 9 instructions, all register dependences, long ALU of 5 cycles | `RetiresInProgramOrder`, `NoPortClash`, `StoresRetire`, `ScoreboardFollows`, `StopsInTime` |
| `perf_control` | 3 of `beq`, `jal`, `jr`, `syscall`, `teq`, a predictor of 2 entries, two calls of `run` | `RetiresInProgramOrder`, `ResumesWhereStopped` |
| `perf_cold` | `beql` and `jr` on a cold cache of 2 lines, prefetch of the wrong path and of the next line, the code's 30 and 100 cycles | `RetiresInProgramOrder`, `MissIsAbsent`, `NoDeadlock`, `RunReturns` |
| `perf_second_dst` | `mthi`, `mult`, `mfhi` | `RetiresInProgramOrder` is **violated** |
| `tagset` | 4 ways, 5 tags, LRU and pseudo-LRU | `LookupFindsTags`, `VictimIsNotRecent`, `ImplementsLRUSet` |
| `predictor` | 3 branches in 2 ways, six modes | `PredictsOwnHistory`, `CoherentPrediction` |
| `funcsim` | 4 addresses, a cache of 2, MIPS and RISC-V, hooks on and off, runs of 3 | `CacheAgrees`, `EndsForAReason`, `EvictsOnlyWhenFull`, `FetchesPresentBytes`, `ImplementsDelayedPC` |
| `memory` | 8 bytes: 2 sets of 2 pages of 2 bytes, words of 4 bytes | `CopyIsExact`, `ReplicaAgrees`, `SameStrings`, `LoadReturnsStore`, `UnalignedPair` |
| `kernel` | the input `z3 4`, one file name that can be opened, a buffer of 2 bytes | `StaleDescriptor`, `ReplicasFollow`, `ReadsFirstGoodWord`, `PositiveCountIsExact`, `CallsEnd` |
| `arith` | registers of 8 bits, words of 4; every instruction word that differs in a key of a MIPS table, nine versions; every RISC-V row, three widths | `AccumulatesExactly`, `ArithmeticIsExact`, `BitsArePlaced`, `ImmediatesDecode`, `ClassFitsExecutor` |

What the properties say:

* `RetiresInProgramOrder`: `Checker::check` never throws. The checker executes the
  program in order, so this is the correctness of the whole pipeline: operands,
  bypasses, flushes, predictions and redirections.
* `StoresRetire`: memory is what the retired stores made it, but for a store that
  is about to retire and is the checker's next instruction.
* `ScoreboardFollows`: after decode's part of a cycle the scoreboard has every
  register at the stage of the youngest instruction in flight that writes it.
* `NoPortClash`: no port carries two data for the same cycle; above all the long
  ALU and the simple one never reach writeback together.
* `StopsInTime`, `ResumesWhereStopped`: how `run( n)` ends and goes on.
* `MissIsAbsent`: the line of a pending miss is not in the tag array, so the
  array is never told to write a tag it has. This is the assumption `Careful` of
  `TagSet`, shown for fetch (and proved, `PerfSimMissIsAbsent`).
* `RunReturns`, `NoDeadlock`: `run` returns with a trap, and writeback does not
  give up on a program that makes progress.
* `PredictsOwnHistory`: what is predicted for a branch that is in the target buffer is
  a function of that branch's own outcomes since it entered, in every mode, although
  its way belonged to another branch before. `CoherentPrediction`: hit, direction and
  target, which the code looks up one by one, agree.
* `FetchesPresentBytes`: what a step executes was decoded from the bytes that are in
  memory now. `CacheAgrees`: hash table, arena, keys and list of the cache describe
  the same entries. `EvictsOnlyWhenFull`: an entry is only lost when it is
  erased or no place is free.
* `ImplementsDelayedPC`: the array of pending addresses with its hand-made shifts is
  the pair of `pc` and `npc`, across traps, drivers and a debugger.
* `EndsForAReason`: a run that ends reports a trap, a full count or a nop counter
  that this very run filled, and a hook stops it exactly where it should.
* `CopyIsExact`, `ReplicaAgrees`: pages on demand are an array of bytes, and so is the
  plain replica, whenever it joined. `LoadReturnsStore`, `UnalignedPair`: a load sees the
  store before it, `swl` and `swr` write the unaligned word and nothing else.
* `ReadsFirstGoodWord`: a call that reads a value gives the first good word among those
  that its remaining attempts allow, and otherwise ends the simulation. `CallsEnd`: every
  call ends, at the end of the input too.
* `PositiveCountIsExact`: a positive count in `v0` is what was asked for and what moved.
* `AccumulatesExactly`: HI and LO hold the sum of all products modulo twice the word.
  `ArithmeticIsExact` and `BitsArePlaced` compare the executors with integers and with
  positions of bits, `ImmediatesDecode` the decoder with the formats of the
  instruction set: each bit of an immediate comes from its bit of the instruction.
* `ClassFitsExecutor`: whatever word is decoded for whatever version, the row it is found
  in agrees with itself: the class sends it through the stages its executor needs,
  what it reads and writes is what the scoreboard is told, what is merged with an old value is
  not bypassed, and no version executes what its registers are too small for.

A run of the pipeline covers every program over its alphabet. The passing runs
therefore keep apart what section 6 shows to fail together: `mthi` with `mult`,
`jal` with `mult`, `teq` with `sw`, traps with a cold cache, hooks, and a kernel that
hands system calls back. Their properties hold for the alphabets of `MCPerfSim` and
say nothing about those combinations. Likewise the properties of the other modules except
what section 6 lists as divergences, each at the place where it is stated.

### Bounds

* `ProgramLength` (2 or 3): instructions that are not nops. Hazards of the pipeline
  are between a producer, a consumer and what stands between them; the nops and the
  ring of addresses (a program may loop) give them every distance.
* `CodeSize` (4 or 6): addresses; as many as make a wrong path distinguishable from
  the right one.
* `InstrsToRun` (3 to 5): how long `run` lasts: every instruction of the program
  and those it affects retire. `Calls`: one or two calls of `run`.
* `long_alu_latency` 2, 3 and 5: the smallest value, the default of the code and one at
  which younger instructions pass through execute while the long one is inside.
* `LONG_LATENCY` and `DEADLOCK` are the code's 30 and 100.
* `BTBSize`, `CacheLines` 1, 2: entries are evicted. 4: enough for the program.
* `MaxCycle`, `ClientMax` of `Ports`: the rings have four and six slots, so five cycles of two
  writes wrap both pointers.
* 4 ways and 5 tags of `TagSet`: a full set and one tag more; two levels of the PLRU tree.
* `Predictor`: 3 branches for 2 ways evict and reuse; `Window` 4 outcomes are more than any
  entry remembers (`DEPTH` 1 plus two bits; the code's `DEPTH` is 2).
* `FuncSim`: `CAPACITY` 2 of 4 addresses, so the cache evicts; `NopLimit` 1 instead of 10;
  `MaxEdits` 2 writes to code; `Runs` 3, so that a run holds a jump, its slot and the target, and
  may also end between a jump and its slot.
* `GuestMemory`: two of everything, so that copies cross offsets, pages and sets and end at
  both ends; `Addresses` 16 is where effective addresses wrap.
* `Kernel`: `MAX_ATTEMPTS` 2 instead of 100 with a bad word first; `MaxOpens` 2, `MaxWritten` 1,
  `BufferSize` 2: a descriptor is given after another was closed, and a read can be short.
* `Arith`: every operand of 8 bits where an instruction has one, all pairs of words of 4 bits
  and the edges of 8 where it has two.

`MaxCycle`, `ProgramLength`, `Calls`, `Window`, `MaxEdits`, `MaxOpens` and `MaxWritten` bound the
model and not the code. The other constants are parameters that the code has too.

### Fairness

`perf_cold` has `FairSpec`, weak fairness of `clock`: `PerfSim::run` is a loop that calls
`clock` until a trap is reported, and `clock` calls every stage; nothing in the code can
delay a stage. No fairness is assumed of the choices inside a stage, in particular not of
the predictor. `kernel` assumes weak fairness of `Attempt`: `execute_interactive` is a loop
of the host that nothing interrupts. The guest, the user and the replica owe nothing.

Deadlock checking is on but for `kernel`, where the program exits. A simulation of the
pipeline that has ended stutters in `Done`.

## 4. Proofs

`tlapm <module>.tla` checks the proofs of `NatMinimum`, `PortsProofs`, `TagSetProofs`,
`PredictorProofs`, `FuncSimProofs`, `GuestMemoryProofs`, `KernelProofs` and `PerfSimProofs` from
nothing.

| theorem | statement |
|---|---|
| `PortsTypeOK` | `Spec => []TypeOK` for every set of readers, all latencies and bandwidths |
| `PortsNoOverwrite` | `ClientMax <= BW` implies `Spec => []NoOverwrite` |
| `PortsInFlight` | `ClientMax <= BW` implies `Spec => []InFlight` |
| `PortsDelayLine` | `ClientMax <= BW` implies `Spec => ImplementsDelayLine`: the refinement of `DelayLine` |
| `TagSetLookup` | `Careful` implies `Spec => []LookupFindsTags`, both policies, every number of ways, every set of tags |
| `TagSetVictim` | `Spec => []VictimIsNotRecent`, both policies, every number of ways, callers that need not be careful |
| `TagSetLRU` | `Careful` implies `Spec => ImplementsLRUSet`: the refinement of `LRUSet`, every number of ways |
| `PredictorCoherent` | `Spec => []CoherentPrediction`, every mode, policy and number of ways |
| `PredictorOwnHistory` | `Spec => []PredictsOwnHistory`, the same, and every `DEPTH` and `Window` |
| `FuncSimCacheAgrees` | `Spec => []CacheAgrees`, every capacity, program and memory size |
| `FuncSimEndsForAReason` | `Spec => []EndsForAReason` |
| `FuncSimFetchesPresentBytes` | `Spec => FetchesPresentBytes` (an action property) |
| `FuncSimEvictsOnlyWhenFull` | `Spec => EvictsOnlyWhenFull` (an action property) |
| `FuncSimDelaySlots` | `Spec => ImplementsDelayedPC`: the refinement of `DelayedPC` |
| `MemoryReplicaAgrees`, `MemoryCopyIsExact`, `MemorySameStrings` | `Spec => []...`, every number of sets, pages and offsets, every base of a byte |
| `MemoryLoadReturnsStore`, `MemoryUnalignedPair` | the same, and every value of a register |
| `KernelStaleDescriptor`, `KernelReplicasFollow` | `Spec => []...`, every input, file system and sequence of calls |
| `KernelReadsFirstGoodWord`, `KernelPositiveCount` | `Spec => ...` (action properties), every input, buffer and `MAX_ATTEMPTS` |
| `PerfSimOneRetires` | `Spec => []OneRetires`: writeback receives at most one instruction in a cycle, every latency of the long ALU, every program |
| `PerfSimNoPortClash` | `OneRedirect` implies `Spec => []NoPortClash` |
| `PerfSimInOrder` | `Spec => []InOrder`: outside a flush the instructions in flight stand in program order, every program, latency, cache, kernel and driver |
| `PerfSimScoreboard` | `Spec => []ScoreboardFollows`, the same |
| `PerfSimMissIsAbsent` | `Spec => []MissIsAbsent`, every cache, latency, program, prefetch method, kernel and driver |
| `PerfSimStopsInTime` | `Calls = 1` and `InstrsToRun > 0` imply `Spec => []StopsInTime` |

Assumptions: the named `ASSUME`s of the modules, which TLC evaluates on every run, and those
in the statements. The first are what the code's constructors and types give: positive
numbers of ways, bandwidths, capacities; a power of two of ways for pseudo-LRU, which refuses any
other number; model values that stand for *nothing* (`NoTag`, `NoObject`) are no tag and no
object. `GuestMemoryAssumption` says that addresses do not wrap inside the memory and fixes the
register to four bytes, since `swl` and `swr` are about words. `FetchAssumption` says that an
instruction has two destinations and each is a register or `"zero"`, as the `dst` array of the code has. Of the assumptions in the
statements `ClientMax <= BW` is needed: the write counter lets one write too many through
(`ports_bandwidth`), and a client that makes use of it can overrun the ring. `Careful` is
needed: see the end of section 6. `OneRedirect` (no hooks, and a kernel that answers a system call
with no trap or a halt) is needed: with any other answer, or with hooks, the driver and writeback
both redirect fetch for one instruction; section 6 has the dummy kernel, and the MARS kernel does
the same for a call that it does not support. `Calls = 1` and `InstrsToRun > 0` are what
`StopsInTime` is about: `executed_instrs` is never reset, so that a later `run( n)` counts from where
the first one stopped, and `run( 0)` retires the instruction at which it notices. `Window`, `MaxEdits`, `MaxOpens` and the other bounds of the
model are any numbers in the theorems.

**Ports.** `NoOverwrite` (the fill is at most the capacity) is not inductive: nothing
in it says why a full ring is not written to. `IInv` adds for each reader that

* `RingOK`: the back pointer is the front pointer plus the fill around the ring, so that
  positions in the queue can be spoken of instead of pointers;
* `InLine`: the objects in the queue are constructed, lie in the order of their due
  cycle and none is due after `cycle + Lat`; those due in that very cycle are at
  most the writes made in this cycle;
* `Spaced`: a run of objects from `i` to `j` is no longer than `BW` for each cycle from the
  due cycle of the first to that of the last one.

A write cleans up first, after which the oldest object is not due before `cycle`.
With the new one the whole queue then spans at most `Lat + 1` cycles, and by `Spaced` holds
at most `(Lat + 1) * BW` objects, the size of the ring. The lemmas follow this order: the ring
(`EmplaceRing`, `DropRing`), the state of one reader under each operation (`GoodEmplace`,
`GoodDrop`, `GoodCleanup`, `GoodTick`), then the actions (`IInvStep`). `NatMinimum` proves that a
non-empty set of naturals has a least element, which is what makes a `CHOOSE` of a first element
well defined, here in `stale_count` and in `strlen` of the memories, and induction over a set of
naturals, for the patterns of the predictor.

For `PortsDelayLine` the queue of a reader is split at `stale_count` (`Split`): what lies behind
is the line of `DelayLine`, what lies before it is stale and no caller sees it. A cleanup keeps
the line (`CleanLine`), a write appends to it (`EmplacedLine`), a read takes its head
(`PoppedLine`), and a new cycle drops what is stale from then on (`TickedLine`), although the ring still
holds it. `RInv` adds to `IInv` that the write counter of the present cycle is not ahead of the
writes accepted, unless the bandwidth is used up: a port refuses no write that `DelayLine` accepts.

**Tag set.** `TagSetVictim` needs to know what the replacement information says about each of the
last accesses (`Behind`). LRU: the list is a permutation of the ways and the way used `j` accesses
ago stands in one of the first `j` places. Pseudo-LRU: fewer than `j` of the nodes on its path
have a parent that points to them (`Toward`). A touch of a way leaves none on its own path and
turns at most one node of another path, the one where the two part (`TouchedTree`); the
victim is the leaf with its whole path in `Toward` (`VictimOfTree`), and no path is
shorter than that of the first leaf, log2( ways) nodes (`PathLength`). The invariant of `TagSetLookup` is the types and
`LookupFindsTags` itself: the hash table is the inverse of the ways. A careful write
removes the tag of the victim and adds one that no way holds, so the inverse remains one.
`TagSetLRU` needs in addition (`LInv`) that with LRU the ways never written are the last of the
list: the tags of the written ways in the order of the list are then those of a prefix of it, a
hit moves one of them to the front (`PrefixTouched`), and a write puts a new one in front and drops
the oldest only when no way is left (`PrefixWritten`).

**Predictor.** `PredictorProofs` instantiates `TagSetProofs` for the target buffer. Its invariant is
that of the tag set and `OwnTargets`: the target in a way is the one of the last update of the
branch whose tag the way holds. A branch that takes over a way writes tag and target in one call.

`PredictorOwnHistory` adds `OwnEntries`: the entry of every branch in the buffer has `Learned` the
outcomes of that branch, and nothing of the branch that had the way before. What a two-bit
counter is after a sequence of outcomes cannot be said by the fold itself, which would be an
induction over data; `Counter( v, S, o, all)` says it by the positions `S` of `o` that the counter has
seen: where a run of equal outcomes has left it, with a clause for one, two and three of them,
for three and another one behind them, and for the first one of all. The clauses are inductive when an outcome is added (`CounterUpdate`)
and when the window drops its oldest (`CounterKept`). In the mode with two levels there is one
counter for each pattern (`Adapted`), whose `S` are the positions that follow an occurrence
of the pattern. `Encodes` relates the number that indexes the table to its `DEPTH` outcomes: every
pattern has one number (`OneNumber`) and every number one pattern (`OneBits`), so that
`update` touches the counter of no other pattern, and the shift and mask of `update` append
the outcome (`PatternUpdate`). `Placed` says which branches `update` leaves in which way.

**Decoded cache and functional simulator.** The invariant describes the cache by `Agrees` (the
table maps each address to the place whose key it is, and every other place is free) and by the
list of places: a permutation in which the free places stand at the end, so that the next place
to reuse is free whenever one is. That is what `EvictsOnlyWhenFull` needs, and `erase`, which moves
the place to the end, keeps it. `EndsForAReason` needs in addition that
a run has counted no nop that it has not executed. For `ImplementsDelayedPC` each path through `step`
(`TurnIsExecute`) is a step of `DelayedPC`, with the number of pending slots in the invariant.

**Memory.** The invariant is small (the shape of the vectors, and that the replica has the
bytes of the primary) and the work is in the operators. `AddressParts`: set, page and offset of
an address are the only ones that make it up, from which `ByteWritten`: a write changes one byte,
whatever it allocates. `Copied` extends this to a copy of any length, by the steps of the loop.
`HornerOfDigits` and `HornerDigits` relate an integer to its bytes in both orders, for the at most
four bytes of a register. `MaskWritten` and `PairWritten` combine them for the masked stores.

**Kernel.** The invariant numbers the descriptors: the `i`-th one that was returned is
`i + 2`, and each open file is one of those with the name it was opened under. Flags and positions
of the streams stay in their ranges, and the registers of all replicas are equal. The theorem on
words looks at one attempt: if its word is good it is the first, otherwise the first good word of
the remaining attempts is the same word counted from the next position.

**Pipeline.** That no two instructions reach writeback together is a statement about delays:
decode compares `operation_latency`, one number, with the latency of the instruction at hand, and
everything else depends on that comparison. The invariant `Pipe` has two parts. `Wires` holds for
each port: what travels on it is in order, only the stage that owns the port has written it, and
only once in this cycle. `Timing` is the time table:

* `Exclusive`: memory and branch stage are not both at work, no two of the three ports of
  writeback deliver, and those that must be told of a flush or an issue together are;
* `Scheduled`, outside a flush: `operation_latency` covers the way of every older instruction to
  writeback (`Covered`), and the one that decode has just issued stays behind each of them (`Behind`);
* `Issued`, `Executed`, `MemSends`, `BranchSends`: what the stages that had their turn have put on
  their wires for the next cycle; these become the two above when the core ends the cycle.

An instruction in the long ALU counts only while it *lives*: `flush_expiration_latency` is set by a flush
so that execute drops what was inside, and a new instruction that enters finds the counter low enough
to live. The lemmas are in layers: what a write and a new cycle do to a wire (`Written`, `Ticked`), what
each stage may write (`FetchWires` to `WritebackWires`), one lemma for each stage that it
keeps `Pipe` (`PipeFetch` to `PipeCore`), and `PipeStep`.

`PerfSimScoreboard` is about what is inside the stages, and `Flight` adds it to `Pipe`:

* `Carried`: what travels is an instruction of the program with its number, or a target;
* `Moves`: each stage passes on the instructions it has received, to the stage that `moves_to`
  gives, and none on a flush;
* `Order`: `InOrder` itself, that of two instructions in flight the one nearer to writeback is the older
  one, and why a new one is younger than all of them: a target goes with the flush, stall or
  instruction that makes fetch take it in time (`Answers`, `Decodes`, `Fetches`, `BranchTarget`), so that
  whatever fetch and decode may take next is younger (`Offers`, `Decodable`). That an instruction does
  not catch up with an older one (`Apart`) follows from the time table (`ApartEarly`);
* `Shadow`: each entry of the scoreboard has the stage of the youngest instruction in flight that writes
  the register, or is untraced if there is none. From the turn of decode to the end of the cycle this
  holds for the scoreboard, all of it untraced if the cycle is a flush; before the turn of decode it holds for
  what the scoreboard becomes when the bypassing unit is updated.

The invariant says where an instruction is (`Flies`) and not in which cycle it was issued, so that the
same lemmas serve the long ALU, whose instructions move one stage in a cycle, and the others.

`PerfSimMissIsAbsent` adds `MissHeld`: while an address is on its way through `LONG_LATENCY_PC_HOLDER`
there is only this one, `HIT_OR_MISS` keeps fetch in its miss branch until the address arrives,
and no path that adds a line is taken meanwhile. `PerfSimStopsInTime` adds
`Retirement` (one instruction a cycle, reported once) and `OnTime` (once the limit is reached, the report
of it is on its way to the core or has arrived, with one retirement at most in between).
`PerfSimNoPortClash` adds `WrittenOnce` for the ports of writeback, which `set_pc` writes
at boot before any stage has run, hence in a cycle without a retirement.

**Only model-checked:**

* of the pipeline `RetiresInProgramOrder`, `StoresRetire`, `ResumesWhereStopped` and `NoDeadlock`. The
  first two relate the values of instructions in all stages to the program and the checker, and do
  not hold for every program (section 6). `ResumesWhereStopped` compares the pipeline with the
  checker, which accepts an instruction without a look at its new PC, and so needs that the
  operands of a branch are current, which in turn does not hold for every program (finding 2).
  `NoDeadlock` holds for some latencies only;
* `Arith`: induction over the width of a word, and recursive operators;
* the liveness properties `RunReturns` and `CallsEnd`, which are outside what the proof system does.

## 5. Not modelled, or only in part

`PROJECT.json` gives the reason for each component. Not modelled: the tree of
modules and the topology, loaders, factory and command line, cache runner, cen64
bridge, visualizer: start-up, glue or I/O without behaviour of its own.

In part: `PortMap::init`; the always-hit and infinite tag arrays and the split of an
address in set and tag; `bit_field_place`, `upper_immediate` and `auipc`; the status and cause
registers of the drivers; `dump`, `memcpy_guest_to_guest` and the trusted copy of the memory;
`load_file` and the dummy kernel; disassembly and the construction of an instruction from its
name; the table of simulators behind the debugger interface; the words that stand for a
RISC-V mnemonic and its register fields.

Some operations are modelled but their undefined inputs are not: a read of the plain
memory beyond its end (`memory/plain_memory.cpp:59`, the size wraps), and the buffering of an
input file between two reads.

## 6. Findings

Each of these is the counterexample of a run; `PROJECT.json` quotes the lines that
disagree.

1. `ports_bandwidth`: the write counter starts at 0 for the first write of every cycle
   but cycle 0, so a port of bandwidth 1 accepts two writes. The unit test
   writes in cycle 0 only.
2. `perf_second_dst`: the second destination of a long instruction inherits the
   `is_bypassible` flag of an earlier producer (`mthi`; `mult`; `mfhi`), although the
   comment says that it cannot be bypassed.

### Other constants of the same modules show more

* alphabet `{mult, jal}`: `RetiresInProgramOrder` fails. A direct jump unknown to the
  predictor that waits in decode for a writeback slot sends its target at once and its flush
  when it leaves; the flush then hits the instruction at the target
  (`modules/decode/decode.cpp:114`);
* alphabet `{teq, beq}`, cold cache: `RetiresInProgramOrder` fails. During a miss
  `save_flush` prefers the target of a branch over the one of writeback, the reverse of
  `get_target`; a trap handler is lost (`modules/fetch/fetch.cpp:142`);
* alphabet `{teq, sw}`: `StoresRetire` fails. A store right behind a conditional trap
  that fires is performed, one cycle before the flush of writeback
  (`modules/mem/mem.cpp:46`);
* `long_alu_latency = 63`, a cold cache with `line_size = 1`, alphabet `{beq(2), mult}`:
  `NoDeadlock` fails. The long instruction and two misses exceed the 100 cycles after
  which writeback reports a deadlock (`modules/writeback/writeback.cpp:103`);
* `kernel_results = {"SYSCALL"}` (the dummy kernel): `NoPortClash` fails. The driver and
  writeback both redirect fetch; two writes to ports of bandwidth 1, which pass because
  of finding 1 (`modules/writeback/writeback.cpp:94`);
* `is_hooked = TRUE`, `Calls = 2`: `RetiresInProgramOrder` fails. Fetch goes on at the
  handler and the checker after the trapping instruction; the debugger wrapper, which
  installs the hooks, disables the checker (`export/gdb/gdb_wrapper.cpp:29`);
* `Careful = FALSE` in `TagSet`: `LookupFindsTags` fails. Writing a tag that is present
  leaves two ways with the tag, and after the eviction of the first it is not found
  (`infra/cache/cache_tag_array.cpp:260`). No caller in the repository does it.

### What the models keep as the code has it

The properties are stated so that these hold; a reader of the code may want to know.

* **Instruction tables.** `c.jr` and `c.jalr` are `OUT_BRANCH`, for which decode takes the
  target as known, but jump to a register (`risc_v/riscv_instr.cpp:293`). The target buffer is
  trained with the decoded target, so that the branch stage normally corrects them. `csrrs`
  writes through a mask but is `OUT_ARITHM` and bypassed as all ones (line 272). Fences are loads
  of no bytes; `ecall` and `ebreak` are `OUT_TRAP`, `c.ebreak` is `OUT_BREAK`. `ll` and `sc` move
  two bytes (`mips/mips_instr.cpp:445`). Floating point and unsupported instructions keep
  their class, loads and stores too, with an executor that only traps. With a `funct` that is
  not 0 a word of coprocessor 0 is looked up by `funct` alone. The address of a MIPS jump takes its
  region from the jump and not from its delay slot.
* **Immediates.** The targets of B and J formats are extended from bit 11 and 19, one less
  than they have (`risc_v/riscv_instr.cpp:420`).
* **Arithmetic.** The tests for overflow miss the least number added to itself and
  subtracted from 0 (`func_sim/alu_primitives.h:48`). An instruction that overflows still writes.
  On 64-bit registers results of 32 bits are extended with zeros. `eret` combines
  the status with what its destination held before it was computed (`func_sim/alu.h:330`). A
  jump to 0 reports a halt even if it is unaligned.
* **Memory.** On a big-endian guest a load narrower than the register takes the wrong
  bytes of a wider read (`memory/memory.h:87`). Copies to the guest throw at the end while loads
  there wrap around; a `memset` that throws has written its first bytes; a replica that is too
  small throws after the primary was written.
* **Kernel.** After a short read `v0` is the end position subtracted from -1, and 0 from a
  pipe. `v0` is written before the copy that may throw. A write to a file that is open for
  reading violates the assertion at `kernel/mars/mars_kernel.cpp:213`. An integer is printed as the
  unsigned register.
* **Predictor.** The size that the option gives in entries is used in bytes, with lines of
  4 (`modules/fetch/bpu/bpu.cpp:23`). The replacement options `always_hit` and `infinite` give ways
  that do not exist. Two compressed branches in 4 bytes share an entry.
* **Functional simulator.** `BearingLost` is thrown at the eleventh nop while its text
  says ten (`func_sim/func_sim.cpp:39`).

## 7. Hazards

`PROJECT.json` lists the places where this code can go wrong in ways that a test
hardly reaches, with the properties that would show it. Those without a property
carry a note.

## 8. Plan

Built so far, in this order: ports, the pipeline stage by stage, the tag array; then the
decoded instruction cache and the functional simulator, guest memory, kernels, the
predictor, arithmetic, decoders and opcode tables; then the proofs: everything outside the
pipeline and `Arith`, and of the pipeline the time table, the miss, the end of `run`, the order of
the instructions in flight and the scoreboard. To come:

1. The pipeline, for programs without the combinations of section 6: that the operands an
   instruction takes from the register file and the bypasses are current, on top of `Flight`,
   then `StoresRetire`.
2. What the instances do not reach: the words of the RISC-V table, the table of
   simulators of the debugger interface, `PortMap::init`.
