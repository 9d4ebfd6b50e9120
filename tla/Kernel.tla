------------------------------- MODULE Kernel -------------------------------
(***************************************************************************)
(* System calls: Kernel::execute_interactive, which tries a call again on  *)
(* bad input (kernel/kernel.cpp), MARSKernel (kernel/mars/mars_kernel.cpp) *)
(* with its descriptors, and CPUReplicant (kernel/replicant.h), by which   *)
(* the checker's simulator follows the primary one.  The guest is the      *)
(* environment: it fills a buffer and registers and makes any call.        *)
(*                                                                         *)
(* Streams are those of the standard library: reading sets eof and fail    *)
(* when the data end, a failed stream does nothing and has position -1,    *)
(* written data reach the file when it is closed.                          *)
(***************************************************************************)
EXTENDS Integers, Sequences, FiniteSets, SequencesExt

CONSTANTS
    Input,        \* the characters of instream
    Seekable,     \* whether instream and outstream have positions (no pipe)
    Names,        \* the file names that can be created
    MAX_ATTEMPTS, \* 100 in the code
    MaxOpens,     \* bound: successful calls of open_file
    BufferSize,   \* bound: the bytes of the guest's buffer
    MaxWritten    \* bound: the bytes written to a file

\* Characters: the terminator, white space, a letter, and two digits.
NUL == 0
Space == 1
Letter == 2
Digits == {3, 4}
Char == {NUL, Space, Letter} \union Digits

ASSUME KernelAssumption ==
    /\ Input \in Seq(Char \ {NUL}) /\ Seekable \in BOOLEAN
    /\ {MAX_ATTEMPTS, MaxOpens, BufferSize, MaxWritten} \subseteq Nat \ {0}

first_user_descriptor == 3
Missing == "missing" \* the name of a file in a directory that does not exist
Absent == <<-1>>     \* the contents of a file that does not exist
Idle == [code |-> 0]
EOF == -1            \* tellg and tellp of a failed stream

VARIABLES
    cpus,            \* "primary", "replica" -> [v0, buffer]
    instream,        \* [at, eof, fail]
    outstream,       \* what the last call printed: nothing reads it back
    files,           \* descriptor -> [name, mode, at, pending, eof, fail]
    next_descriptor,
    disk,            \* name -> characters
    exit_code,
    call,            \* the call that is executed, or Idle
    attempts,
    outcome,         \* "run", or how the last call ended the simulation
    held             \* the <<descriptor, name>> that open_file returned, in order

vars == <<cpus, instream, outstream, files, next_descriptor, disk, exit_code, call, attempts,
          outcome, held>>

buffer == cpus["primary"].buffer
fresh == [at |-> 0, eof |-> FALSE, fail |-> FALSE]

(* CPUReplicant and FuncMemoryReplicant *)

\* (Mutant: the replicas are not written.)
write_cpu_register_of_primary(v) == [cpus EXCEPT !["primary"].v0 = v]
write_cpu_register(v) == [c \in DOMAIN cpus |-> [cpus[c] EXCEPT !.v0 = v]]
host_to_guest(c, data) ==
    [i \in DOMAIN c |->
        [c[i] EXCEPT !.buffer = data \o SubSeq(@, Len(data) + 1, BufferSize)]]

(* The streams of the library *)

sentry(s) == IF s.eof THEN [s EXCEPT !.fail = TRUE] ELSE s
tellg(s) == IF sentry(s).fail THEN EOF ELSE s.at

\* istream::read: the stream after it, and the characters it got.
got(s, data, n) ==
    IF sentry(s).fail THEN <<>>
    ELSE SubSeq(data, s.at + 1, IF s.at + n < Len(data) THEN s.at + n ELSE Len(data))
stream_read(s, data, n) ==
    LET k == Len(got(s, data, n)) IN
    IF k < n THEN [sentry(s) EXCEPT !.at = @ + k, !.eof = TRUE, !.fail = TRUE]
    ELSE [sentry(s) EXCEPT !.at = @ + k]

\* instream >> input: the next word from a position on, and where it ends.
word_begin(at) ==
    LET here == {i \in (at + 1)..Len(Input) : Input[i] # Space}
    IN  IF here = {} THEN Len(Input) + 1 ELSE CHOOSE i \in here : \A j \in here : i <= j
word_end(at) ==
    LET after == {i \in word_begin(at)..Len(Input) : Input[i] = Space}
    IN  IF after = {} THEN Len(Input) ELSE (CHOOSE i \in after : \A j \in after : i <= j) - 1
word(at) == SubSeq(Input, word_begin(at), word_end(at))

input == IF sentry(instream).fail THEN <<>> ELSE word(instream.at)
after_input ==
    IF sentry(instream).fail THEN sentry(instream)
    ELSE [at   |-> word_end(instream.at),
          eof  |-> word_end(instream.at) = Len(Input),
          fail |-> word(instream.at) = <<>>]

\* std::stoll: the number that a word begins with.
number(w) == FoldLeft(LAMBDA v, c : 10 * v + c, 0, w)
digits_of(w) == SelectInSeq(w, LAMBDA c : c \notin Digits) \* 0 if all are
is_number(w) == w # <<>> /\ digits_of(w) = 0

-----------------------------------------------------------------------------

Init ==
    /\ cpus = [c \in {"primary"} |-> [v0 |-> 0, buffer |-> [i \in 1..BufferSize |-> NUL]]]
    /\ instream = fresh /\ outstream = <<>>
    /\ files = [d \in {} |-> Idle] /\ next_descriptor = first_user_descriptor
    /\ disk = [n \in Names \union {Missing} |-> Absent]
    /\ exit_code = 0
    /\ call = Idle /\ attempts = 0 /\ outcome = "run" /\ held = <<>>

(* What the guest may ask for.  Codes are those of MARSKernel::execute. *)

Requests ==
    [code : {5, 10, 12, 666}]
    \union [code : {1, 11}, value : {Letter}]
    \union [code : {17}, value : {21}]
    \union [code : {4}]
    \union [code : {8}, size : 1..BufferSize]
    \union [code : {13}, name : Names \union {Missing}, flags : {0, 1, 9, 131}]
    \union [code : {14}, descriptor : 0..next_descriptor, size : 1..BufferSize, mapped : BOOLEAN]
    \union [code : {15}, descriptor : 0..next_descriptor, size : 1..BufferSize]
    \union [code : {16}, descriptor : 0..next_descriptor]

Bounded(r) ==
    /\ r.code = 13 => next_descriptor < first_user_descriptor + MaxOpens
    /\ r.code = 15 /\ r.descriptor \in DOMAIN files =>
         Len(files[r.descriptor].pending) < MaxWritten /\ Len(disk[files[r.descriptor].name]) < MaxWritten

\* The guest's syscall instruction, before which it filled the buffer and the
\* registers: every simulator executes those instructions by itself.
Call(r) ==
    /\ call = Idle /\ outcome = "run" /\ Bounded(r)
    /\ \E b \in [1..BufferSize -> IF r.code \in {4, 15} THEN {NUL, Letter} ELSE {Letter}] :
         cpus' = [c \in DOMAIN cpus |-> [v0 |-> r.code, buffer |-> b]]
    /\ call' = r /\ attempts' = 0 /\ outstream' = <<>>
    /\ UNCHANGED <<instream, files, next_descriptor, disk, exit_code, outcome, held>>

\* add_replica_simulator and add_replica_memory: the checker joins.
AddReplica ==
    /\ call = Idle /\ DOMAIN cpus = {"primary"}
    /\ cpus' = [c \in {"primary", "replica"} |-> cpus["primary"]]
    /\ UNCHANGED <<instream, outstream, files, next_descriptor, disk, exit_code, call, attempts,
                   outcome, held>>

(* The calls.  Each says how it ends: Return with a trap, or Retry. *)

Return(o) == call' = Idle /\ outcome' = o /\ attempts' = 0

\* catch (const BadInputValue&): the loop ends with BadInteraction.
\* (Mutant: the attempts are not counted.)
Retry_uncounted ==
    UNCHANGED <<attempts, call, outcome, cpus>>
\* (Mutant: one attempt too many.)
Retry_late ==
    /\ IF attempts + 1 <= MAX_ATTEMPTS THEN attempts' = attempts + 1 /\ UNCHANGED <<call, outcome>>
       ELSE Return("BadInteraction")
    /\ UNCHANGED cpus
Retry ==
    /\ IF attempts + 1 < MAX_ATTEMPTS THEN attempts' = attempts + 1 /\ UNCHANGED <<call, outcome>>
       ELSE Return("BadInteraction")
    /\ UNCHANGED cpus

Reads == UNCHANGED <<outstream, files, next_descriptor, disk, exit_code, held>>
Prints == UNCHANGED <<cpus, instream, files, next_descriptor, disk, exit_code, held>>

read_integer ==
    /\ call.code = 5 /\ instream' = after_input /\ Reads
    /\ IF is_number(input) THEN cpus' = write_cpu_register(number(input)) /\ Return("run")
       ELSE Retry

read_character ==
    /\ call.code = 12 /\ instream' = after_input /\ Reads
    /\ IF Len(input) = 1 THEN cpus' = write_cpu_register(input[1]) /\ Return("run")
       ELSE Retry

\* At the end of the input the string is empty and nothing is written.
read_string ==
    /\ call.code = 8 /\ instream' = after_input /\ Reads
    /\ cpus' = host_to_guest(cpus, SubSeq(input, 1, IF Len(input) < call.size THEN Len(input) ELSE call.size))
    /\ Return("run")

\* read_string_limited: up to the terminator.
guest_string(size) ==
    LET z == SelectInSeq(buffer, LAMBDA c : c = NUL)
    IN  SubSeq(buffer, 1, IF z # 0 /\ z <= size THEN z - 1 ELSE size)

print ==
    /\ \/ call.code \in {1, 11} /\ outstream' = Append(outstream, call.value)
       \/ call.code = 4 /\ outstream' = outstream \o guest_string(BufferSize)
    /\ Prints /\ Return("run")

exit ==
    /\ \/ call.code = 10 /\ exit_code' = 0
       \/ call.code = 17 /\ exit_code' = call.value
    /\ Return("HALT")
    /\ UNCHANGED <<cpus, instream, outstream, files, next_descriptor, disk, held>>

unsupported ==
    /\ call.code = 666 /\ Return("UNSUPPORTED_SYSCALL")
    /\ UNCHANGED <<cpus, instream, outstream, files, next_descriptor, disk, exit_code, held>>

io_failure == cpus' = write_cpu_register(-1)

\* The fstream constructor: whether it opens, and what it does to the file.
opens(name, flags) ==
    \/ flags = 0 /\ disk[name] # Absent
    \/ flags \in {1, 9} /\ name # Missing
opened_disk(name, flags) ==
    [disk EXCEPT ![name] = IF flags = 1 \/ @ = Absent THEN <<>> ELSE @]

\* (Mutant: the descriptor of a closed file is given again.)
new_descriptor_reused == first_user_descriptor + Cardinality(DOMAIN files)
new_descriptor == next_descriptor

open_file ==
    /\ call.code = 13
    /\ IF opens(call.name, call.flags)
       THEN /\ files' = [d \in DOMAIN files \union {new_descriptor} |->
                  IF d # new_descriptor THEN files[d]
                  ELSE [name |-> call.name, mode |-> call.flags, at |-> 0, pending |-> <<>>,
                        eof |-> FALSE, fail |-> FALSE]]
            /\ disk' = opened_disk(call.name, call.flags)
            /\ cpus' = write_cpu_register(new_descriptor)
            /\ next_descriptor' = next_descriptor + 1
            /\ held' = Append(held, <<new_descriptor, call.name>>)
       ELSE io_failure /\ UNCHANGED <<files, disk, next_descriptor, held>>
    /\ Return("run") /\ UNCHANGED <<instream, outstream, exit_code>>

\* The destructor of the stream writes what is pending: over the file from its
\* beginning, or at its end.
flushed(f) ==
    LET old == disk[f.name] IN
    [disk EXCEPT ![f.name] =
        IF f.mode = 9 THEN old \o f.pending
        ELSE f.pending \o SubSeq(old, Len(f.pending) + 1, Len(old))]

close_file ==
    /\ call.code = 16
    /\ IF call.descriptor >= first_user_descriptor /\ call.descriptor \in DOMAIN files
       THEN /\ files' = [d \in DOMAIN files \ {call.descriptor} |-> files[d]]
            /\ disk' = flushed(files[call.descriptor])
       ELSE UNCHANGED <<files, disk>>
    /\ Return("run") /\ UNCHANGED <<cpus, instream, outstream, next_descriptor, exit_code, held>>

\* find_out_file_by_descriptor and find_in_file_by_descriptor.
is_out(d) == d \in {1, 2} \union DOMAIN files
is_in(d) == d = 0 \/ d \in DOMAIN files

\* A write to a file that was opened for reading makes the stream bad.
write_to_file ==
    LET d == call.descriptor
        data == guest_string(call.size)
    IN
    /\ call.code = 15
    /\ IF ~is_out(d) THEN io_failure /\ Return("run") /\ UNCHANGED <<outstream, files>>
       ELSE IF d \in {1, 2}
       THEN /\ outstream' = outstream \o data
            /\ cpus' = write_cpu_register(IF Seekable THEN Len(data) ELSE 0)
            /\ Return("run") /\ UNCHANGED files
       ELSE IF files[d].fail \/ files[d].eof
       THEN cpus' = write_cpu_register(0) /\ Return("run") /\ UNCHANGED <<outstream, files>>
       ELSE IF files[d].mode = 0 /\ data # <<>>
       THEN Return("assertion failed") /\ UNCHANGED <<cpus, outstream, files>>
       ELSE /\ files' = [files EXCEPT ![d].pending = @ \o data]
            /\ cpus' = write_cpu_register(Len(data))
            /\ Return("run") /\ UNCHANGED outstream
    /\ UNCHANGED <<instream, next_descriptor, disk, exit_code, held>>

\* chars_read: the difference of two positions, one of which may be EOF.
\* (Mutant: the size that was asked for is reported.)
chars_read_as_asked(before, after, size) == size
chars_read(before, after, size) == after - before

padded(data, size) == [i \in 1..size |-> IF i <= Len(data) THEN data[i] ELSE NUL]
in_stream(d) == IF d = 0 THEN instream ELSE files[d]
\* A stream that is open for writing has nothing to read.
in_data(d) ==
    IF d = 0 THEN Input ELSE IF files[d].mode = 0 THEN disk[files[d].name] ELSE <<>>
position(d, s) ==
    IF (d = 0 /\ ~Seekable) \/ tellg(s) = EOF THEN EOF
    ELSE IF d # 0 /\ s.mode # 0 THEN Len(s.pending) ELSE tellg(s)

\* The register is written before the copy, which throws when the buffer is
\* out of the memory.
read_from_file ==
    LET d == call.descriptor
        n == call.size
    IN
    /\ call.code = 14
    /\ IF ~is_in(d) THEN io_failure /\ Return("run") /\ UNCHANGED <<instream, files>>
       ELSE LET s == in_stream(d)
                t == stream_read(s, in_data(d), n)
                c == write_cpu_register(chars_read(position(d, s), position(d, t), n))
            IN  /\ IF d = 0 THEN instream' = t /\ UNCHANGED files
                   ELSE files' = [files EXCEPT ![d] = t] /\ UNCHANGED instream
                /\ IF call.mapped
                   THEN cpus' = host_to_guest(c, padded(got(s, in_data(d), n), n)) /\ Return("run")
                   ELSE cpus' = c /\ Return("OutOfRange")
    /\ UNCHANGED <<outstream, next_descriptor, disk, exit_code, held>>

\* One execute() of the loop in execute_interactive.
Attempt ==
    \/ read_integer \/ read_character \/ read_string
    \/ print \/ exit \/ unsupported
    \/ open_file \/ close_file \/ write_to_file \/ read_from_file

Next == (\E r \in Requests : Call(r)) \/ AddReplica \/ Attempt

\* The host runs the loop; the guest and the user of the checker do as they like.
Spec == Init /\ [][Next]_vars /\ WF_vars(Attempt)

-----------------------------------------------------------------------------
(* Properties *)

\* A descriptor that open_file returned names its file for ever: no two calls
\* return the same one, whatever was closed between them, and a file that is
\* open is the one its descriptor was returned for.
StaleDescriptor ==
    /\ \A i, j \in 1..Len(held) : held[i][1] = held[j][1] => i = j
    /\ \A d \in DOMAIN files : \E i \in 1..Len(held) : held[i] = <<d, files[d].name>>

\* The simulator and the memory of the checker hold what those of the kernel
\* hold, whenever they joined.
ReplicasFollow == \A c \in DOMAIN cpus : cpus[c] = cpus["primary"]

\* The words of the input from a position on, up to k of them.
words(at, k) ==
    LET ends[i \in 0..k] == IF i = 0 THEN at ELSE word_end(ends[i - 1])
    IN  [i \in 1..k |-> word(ends[i - 1])]
good(code, w) == IF code = 5 THEN is_number(w) ELSE Len(w) = 1
value(code, w) == IF code = 5 THEN number(w) ELSE w[1]

\* From any attempt on, a call that reads a value gives the first good word
\* among those that the remaining attempts allow; if there is none, it ends the
\* simulation and the register keeps the code.
FirstGoodWord ==
    LET left == MAX_ATTEMPTS - attempts
        w == words(instream.at, left)
        k == SelectInSeq(w, LAMBDA x : good(call.code, x))
    IN  call.code \in {5, 12} =>
            /\ k = 1 => cpus'["primary"].v0 = value(call.code, w[1]) /\ outcome' = "run" /\ call' = Idle
            /\ k # 1 => cpus' = cpus
            /\ k > 1 => call' = call /\ attempts' = attempts + 1
            /\ k = 0 /\ left = 1 => outcome' = "BadInteraction"
ReadsFirstGoodWord == [][call # Idle => FirstGoodWord]_vars

\* A count that a call reports as positive is what was asked for, and so many
\* characters moved: into the buffer, or to the stream.
PositiveCountIsExact ==
    [][call.code \in {14, 15} /\ call' = Idle /\ outcome' = "run" =>
       \A d \in {call.descriptor}, n \in {cpus'["primary"].v0} : n > 0 =>
         /\ call.code = 14 =>
              /\ n = call.size
              /\ \A i \in 1..n : /\ in_stream(d).at + i <= Len(in_data(d))
                                 /\ cpus'["primary"].buffer[i] = in_data(d)[in_stream(d).at + i]
              /\ in_stream(d)'.at = in_stream(d).at + n
         /\ call.code = 15 =>
              /\ n <= call.size
              /\ Len(outstream') + (IF d \in DOMAIN files THEN Len(files'[d].pending) ELSE 0) =
                    n + Len(outstream) + (IF d \in DOMAIN files THEN Len(files[d].pending) ELSE 0)]_vars

\* Every system call ends, at the end of the input too.
CallsEnd == (call # Idle) ~> (call = Idle)
=============================================================================
