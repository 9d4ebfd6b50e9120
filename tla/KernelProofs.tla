---------------------------- MODULE KernelProofs ----------------------------
(***************************************************************************)
(* Proofs about Kernel for every input, every set of file names and every  *)
(* number of attempts and of open files.  First sequences and the words of *)
(* the input, then the state, then the theorems.                           *)
(***************************************************************************)
EXTENDS Kernel, NatMinimum, SequenceTheorems

(* Sequences *)

\* An array of n elements is a sequence of length n.
LEMMA ArrayIsSeq ==
    ASSUME NEW n \in Nat, NEW S, NEW f \in [1..n -> S]
    PROVE  f \in Seq(S) /\ Len(f) = n
<1>1. f \in Seq(S)
  BY SeqDef
<1> QED
  BY <1>1, LenProperties

\* A part of a sequence that lies inside it.
LEMMA Part ==
    ASSUME NEW S, NEW s \in Seq(S), NEW m \in 1..(Len(s) + 1), NEW n \in 0..Len(s)
    PROVE  /\ SubSeq(s, m, n) \in Seq(S)
           /\ Len(SubSeq(s, m, n)) = IF m <= n THEN n - m + 1 ELSE 0
           /\ \A i \in 1..Len(SubSeq(s, m, n)) : SubSeq(s, m, n)[i] = s[m + i - 1]
  BY SubSeqProperties

\* The limits of the model.
LEMMA Limits ==
    /\ Input \in Seq(Int) /\ Len(Input) \in Nat
    /\ MAX_ATTEMPTS \in Nat /\ MAX_ATTEMPTS >= 1 /\ BufferSize \in Nat /\ BufferSize >= 1
<1>1. Char \ {NUL} \subseteq Int
  BY DEF Char, NUL, Space, Letter, Digits
<1>2. Input \in Seq(Char \ {NUL})
  BY KernelAssumption
<1>3. Input \in Seq(Int)
  BY <1>1, <1>2, SeqDef
<1> QED
  BY <1>3, KernelAssumption

-----------------------------------------------------------------------------
(* The words of the input *)

\* instream >> input: a word begins after the position, has no white space in
\* it, and is empty only when nothing is left.
LEMMA WordFacts ==
    ASSUME NEW at \in 0..Len(Input)
    PROVE  /\ word_begin(at) \in 1..(Len(Input) + 1) /\ word_end(at) \in 0..Len(Input)
           /\ word(at) \in Seq(Int)
           /\ word(at) = <<>> => word_end(at) = Len(Input)
           /\ at = Len(Input) => word(at) = <<>>
<1> DEFINE here == {i \in (at + 1)..Len(Input) : Input[i] # Space}
           b == word_begin(at)
           after == {i \in b..Len(Input) : Input[i] = Space}
           e == word_end(at)
<1>1. b \in 1..(Len(Input) + 1) /\ (here # {} => b \in here) /\ (here = {} => b = Len(Input) + 1)
  <2>1. CASE here = {}
    BY <2>1, Limits DEF word_begin
  <2>2. CASE here # {}
    <3>1. here \subseteq Nat
      BY Limits
    <3>2. \E i \in here : \A j \in here : i <= j
      BY <2>2, <3>1, NatMin
    <3>3. b = CHOOSE i \in here : \A j \in here : i <= j
      BY <2>2 DEF word_begin
    <3>4. b \in here
      BY <3>2, <3>3
    <3> QED
      BY <2>2, <3>4, Limits
  <2> QED
    BY <2>1, <2>2
<1>2. /\ after = {} => e = Len(Input)
      /\ after # {} => e + 1 \in after /\ e \in Int
  <2>1. CASE after = {}
    BY <2>1 DEF word_end
  <2>2. CASE after # {}
    <3>1. after \subseteq Nat
      BY <1>1, Limits
    <3>2. \E i \in after : \A j \in after : i <= j
      BY <2>2, <3>1, NatMin
    <3> DEFINE x == CHOOSE i \in after : \A j \in after : i <= j
    <3>3. x \in after
      BY <3>2
    <3>4. e = x - 1
      BY <2>2 DEF word_end
    <3> HIDE DEF x
    <3>5. x \in Nat
      BY <3>1, <3>3
    <3>6. e + 1 = x /\ e \in Int
      BY <3>4, <3>5
    <3> QED
      BY <2>2, <3>3, <3>6
  <2> QED
    BY <2>1, <2>2
<1>3. b \in Nat /\ e \in 0..Len(Input)
  BY <1>1, <1>2, Limits
<1>4. b <= Len(Input) => b <= e
  <2> SUFFICES ASSUME b <= Len(Input) PROVE b <= e
    OBVIOUS
  <2>1. Input[b] # Space
    BY <1>1, Limits
  <2> HIDE DEF b, e
  <2> QED
    BY <1>2, <1>3, <2>1, Limits
<1>5. word(at) = SubSeq(Input, b, e)
  BY DEF word
<1> HIDE DEF b, e
<1>6. /\ word(at) \in Seq(Int)
      /\ Len(word(at)) = IF b <= e THEN e - b + 1 ELSE 0
  BY <1>1, <1>3, <1>5, Limits, Part
<1>7. word(at) = <<>> => e = Len(Input)
  <2> SUFFICES ASSUME word(at) = <<>>, e # Len(Input) PROVE FALSE
    OBVIOUS
  <2>1. Len(word(at)) = 0
    OBVIOUS
  <2>2. ~(b <= e)
    BY <1>3, <1>6, <2>1
  <2>3. b = Len(Input) + 1
    BY <1>1, <1>4, <2>2, Limits
  <2>4. after = {}
    BY <2>3, Limits
  <2> QED
    BY <1>2, <2>4
<1>8. ASSUME at = Len(Input) PROVE word(at) = <<>>
  <2>1. here = {}
    BY <1>8, Limits
  <2>2. b = Len(Input) + 1
    BY <1>1, <2>1
  <2>3. Len(word(at)) = 0
    BY <1>3, <1>6, <2>2, Limits
  <2> QED
    BY <1>6, <2>3, EmptySeq
<1> QED
  BY <1>1, <1>3, <1>6, <1>7, <1>8 DEF b, e

-----------------------------------------------------------------------------
(* The state *)

FileNames == Names \union {Missing}

\* Every simulator and memory holds the same, and a buffer of BufferSize bytes.
CpusOK(c) ==
    /\ "primary" \in DOMAIN c
    /\ c = [i \in DOMAIN c |-> c["primary"]]
    /\ c["primary"] = [v0 |-> c["primary"].v0, buffer |-> c["primary"].buffer]
    /\ c["primary"].buffer \in Seq(Int) /\ Len(c["primary"].buffer) = BufferSize

\* instream fails only at the end of the input.
InOK(s) ==
    /\ s = [at |-> s.at, eof |-> s.eof, fail |-> s.fail]
    /\ s.at \in 0..Len(Input) /\ s.eof \in BOOLEAN /\ s.fail \in BOOLEAN
    /\ s.eof \/ s.fail => s.at = Len(Input)

FileOK(f) ==
    /\ f = [name |-> f.name, mode |-> f.mode, at |-> f.at, pending |-> f.pending,
            eof |-> f.eof, fail |-> f.fail]
    /\ f.name \in FileNames /\ f.at \in Nat /\ f.pending \in Seq(Int)
    /\ f.eof \in BOOLEAN /\ f.fail \in BOOLEAN

FilesOK(f) ==
    /\ f = [d \in DOMAIN f |-> f[d]]
    /\ \A d \in DOMAIN f : FileOK(f[d]) /\ d \in Nat /\ d >= first_user_descriptor

\* The i-th file that was opened has the i-th descriptor, and what is open was
\* returned.
HeldOK(h, next, f) ==
    /\ h \in Seq(Nat \X FileNames)
    /\ next = Len(h) + first_user_descriptor
    /\ \A i \in 1..Len(h) : h[i][1] = i + first_user_descriptor - 1
    /\ \A d \in DOMAIN f : \E i \in 1..Len(h) : h[i] = <<d, f[d].name>>

\* What the calls use of a request.
CallOK(r) ==
    /\ r.code = 13 => r.name \in FileNames
    /\ r.code \in {1, 11} => r.value \in Int
    /\ r.code \in {8, 14, 15} => r.size \in 1..BufferSize
    /\ r.code \in {14, 15, 16} => r.descriptor \in Nat

\* The inductive invariant.
IInv ==
    /\ CpusOK(cpus) /\ InOK(instream) /\ outstream \in Seq(Int)
    /\ FilesOK(files) /\ HeldOK(held, next_descriptor, files)
    /\ disk \in [FileNames -> Seq(Int)]
    /\ CallOK(call) /\ attempts \in 0..(MAX_ATTEMPTS - 1)

\* Requests have the types that the calls rely on, and are no Idle.
LEMMA RequestOK ==
    ASSUME NEW r \in Requests, next_descriptor \in Nat
    PROVE  CallOK(r) /\ r.code # 0
<1>1. CASE r \in [code : {5, 10, 12, 666}] \union [code : {4}]
  BY <1>1 DEF CallOK
<1>2. CASE r \in [code : {1, 11}, value : {Letter}]
  BY <1>2 DEF CallOK, Letter
<1>3. CASE r \in [code : {17}, value : {21}]
  BY <1>3 DEF CallOK
<1>4. CASE r \in [code : {8}, size : 1..BufferSize]
  BY <1>4 DEF CallOK
<1>5. CASE r \in [code : {13}, name : Names \union {Missing}, flags : {0, 1, 9, 131}]
  BY <1>5 DEF CallOK, FileNames
<1>6. CASE r \in [code : {14}, descriptor : 0..next_descriptor, size : 1..BufferSize, mapped : BOOLEAN]
  BY <1>6 DEF CallOK
<1>7. CASE r \in [code : {15}, descriptor : 0..next_descriptor, size : 1..BufferSize]
  BY <1>7 DEF CallOK
<1>8. CASE r \in [code : {16}, descriptor : 0..next_descriptor]
  BY <1>8 DEF CallOK
<1> QED
  BY <1>1, <1>2, <1>3, <1>4, <1>5, <1>6, <1>7, <1>8 DEF Requests

\* CPUReplicant writes every register file.
LEMMA RegisterWritten ==
    ASSUME CpusOK(cpus), NEW v
    PROVE  /\ CpusOK(write_cpu_register(v))
           /\ write_cpu_register(v)["primary"].v0 = v
           /\ write_cpu_register(v)["primary"].buffer = buffer
<1> DEFINE c == write_cpu_register(v)
           r == [cpus["primary"] EXCEPT !.v0 = v]
<1>1. c = [i \in DOMAIN cpus |-> r]
  <2>1. \A i \in DOMAIN cpus : cpus[i] = cpus["primary"]
    BY DEF CpusOK
  <2> QED
    BY <2>1 DEF write_cpu_register
<1>2. r = [v0 |-> v, buffer |-> cpus["primary"].buffer]
  BY DEF CpusOK
<1> HIDE DEF r
<1>3. DOMAIN c = DOMAIN cpus /\ c["primary"] = r /\ c = [i \in DOMAIN c |-> c["primary"]]
  BY <1>1 DEF CpusOK
<1> HIDE DEF c
<1> QED
  BY <1>2, <1>3 DEF CpusOK, buffer, c

\* FuncMemoryReplicant writes every memory: a prefix of the buffer.
LEMMA BufferWritten ==
    ASSUME NEW c, CpusOK(c), NEW data \in Seq(Int), Len(data) <= BufferSize
    PROVE  /\ CpusOK(host_to_guest(c, data))
           /\ host_to_guest(c, data)["primary"].v0 = c["primary"].v0
           /\ \A i \in 1..Len(data) : host_to_guest(c, data)["primary"].buffer[i] = data[i]
<1> DEFINE h == host_to_guest(c, data)
           b == c["primary"].buffer
           new == data \o SubSeq(b, Len(data) + 1, BufferSize)
           r == [v0 |-> c["primary"].v0, buffer |-> new]
<1>1. h = [i \in DOMAIN c |-> r]
  <2>1. \A i \in DOMAIN c : c[i] = [v0 |-> c["primary"].v0, buffer |-> b]
    BY DEF CpusOK
  <2> DEFINE x(i) == data \o SubSeq(c[i].buffer, Len(data) + 1, BufferSize)
             y(i) == [c[i] EXCEPT !.buffer = x(i)]
  <2>2. h = [i \in DOMAIN c |-> y(i)]
    BY DEF host_to_guest
  <2>3. ASSUME NEW i \in DOMAIN c PROVE y(i) = r
    <3>0. c[i].buffer = b
      BY <2>1
    <3>1. x(i) = new
      BY <3>0
    <3> HIDE DEF x, new
    <3> QED
      BY <2>1, <3>1
  <2> HIDE DEF y, r, h
  <2> QED
    BY <2>2, <2>3
<1>2. new \in Seq(Int) /\ Len(new) = BufferSize /\ \A i \in 1..Len(data) : new[i] = data[i]
  <2> DEFINE rest == SubSeq(b, Len(data) + 1, BufferSize)
  <2>1. b \in Seq(Int) /\ Len(b) = BufferSize /\ Len(data) \in Nat
    BY DEF CpusOK
  <2>2. Len(data) + 1 \in 1..(Len(b) + 1) /\ BufferSize \in 0..Len(b)
    BY <2>1, Limits
  <2> HIDE DEF b
  <2>3. rest \in Seq(Int) /\ Len(rest) = BufferSize - Len(data)
    BY <2>1, <2>2, Part, Limits
  <2> HIDE DEF rest
  <2>4. /\ new \in Seq(Int) /\ Len(new) = Len(data) + Len(rest)
        /\ \A i \in 1..(Len(data) + Len(rest)) :
             new[i] = IF i <= Len(data) THEN data[i] ELSE rest[i - Len(data)]
    BY <2>3, ConcatProperties DEF rest
  <2> HIDE DEF new
  <2>5. Len(new) = BufferSize
    BY <2>1, <2>3, <2>4, Limits
  <2>6. ASSUME NEW i \in 1..Len(data) PROVE new[i] = data[i]
    BY <2>1, <2>3, <2>4, Limits
  <2> QED
    BY <2>4, <2>5, <2>6
<1> HIDE DEF new
<1>3. DOMAIN h = DOMAIN c /\ h["primary"] = r /\ h = [i \in DOMAIN h |-> h["primary"]]
  BY <1>1 DEF CpusOK
<1> HIDE DEF h
<1> QED
  BY <1>2, <1>3 DEF CpusOK, h

\* read_string_limited gives characters of the buffer, size of them at most.
LEMMA GuestString ==
    ASSUME CpusOK(cpus), NEW size \in 1..BufferSize
    PROVE  /\ guest_string(size) \in Seq(Int) /\ Len(guest_string(size)) <= size
<1> DEFINE I == {i \in 1..Len(buffer) : buffer[i] = NUL}
           z == IF I # {} THEN Min(I) ELSE 0
           n == IF z # 0 /\ z <= size THEN z - 1 ELSE size
<1>1. buffer \in Seq(Int) /\ Len(buffer) = BufferSize
  BY DEF CpusOK, buffer
<1>2. z \in Nat
  <2>1. CASE I # {}
    <3>1. I \subseteq Nat
      BY <1>1, Limits
    <3>2. \E x \in I : \A y \in I : x <= y
      BY <2>1, <3>1, NatMin
    <3>3. Min(I) \in I
      BY <3>2 DEF Min
    <3> QED
      BY <2>1, <3>1, <3>3
  <2> QED
    BY <2>1
<1>3. guest_string(size) = SubSeq(buffer, 1, n)
  BY DEF guest_string, SelectInSeq
<1> HIDE DEF z
<1>4. n \in 0..size /\ 1 \in 1..(Len(buffer) + 1) /\ n \in 0..Len(buffer)
  BY <1>1, <1>2, Limits
<1> HIDE DEF n
<1>5. SubSeq(buffer, 1, n) \in Seq(Int) /\ Len(SubSeq(buffer, 1, n)) = IF 1 <= n THEN n - 1 + 1 ELSE 0
  BY <1>1, <1>4, Part
<1> QED
  BY <1>3, <1>4, <1>5

\* What instream >> leaves.
LEMMA InputOK ==
    ASSUME InOK(instream)
    PROVE  InOK(after_input) /\ input \in Seq(Int) /\ input = word(instream.at)
<1> DEFINE at == instream.at
<1>1. at \in 0..Len(Input)
  BY DEF InOK
<1>2. CASE sentry(instream).fail
  <2>1. instream.eof \/ instream.fail
    BY <1>2 DEF sentry
  <2>2. at = Len(Input) /\ word(at) = <<>>
    BY <1>1, <2>1, WordFacts DEF InOK
  <2>3. InOK(sentry(instream))
    BY <2>2 DEF InOK, sentry
  <2> QED
    BY <1>2, <2>2, <2>3, EmptySeq DEF after_input, input
<1>3. CASE ~sentry(instream).fail
  <2> DEFINE s == [at |-> word_end(at), eof |-> word_end(at) = Len(Input), fail |-> word(at) = <<>>]
  <2>1. after_input = s /\ input = word(at)
    BY <1>3 DEF after_input, input
  <2>2. InOK(s)
    BY <1>1, WordFacts DEF InOK
  <2> QED
    BY <1>1, <2>1, <2>2, WordFacts
<1> QED
  BY <1>2, <1>3

\* The sentry of a read fails at the end of the data too.
LEMMA SentryFails ==
    ASSUME NEW s, InOK(s) \/ FileOK(s)
    PROVE  /\ s.at \in Nat /\ s.eof \in BOOLEAN /\ s.fail \in BOOLEAN
           /\ sentry(s).fail = (s.eof \/ s.fail)
           /\ tellg(s) = IF s.eof \/ s.fail THEN EOF ELSE s.at
<1>1. s.at \in Nat /\ s.eof \in BOOLEAN /\ s.fail \in BOOLEAN
  BY Limits DEF InOK, FileOK
<1>2. sentry(s).fail = (s.eof \/ s.fail)
  BY <1>1 DEF InOK, FileOK, sentry
<1> QED
  BY <1>1, <1>2 DEF tellg

\* istream::read gets what is there, up to n characters.
LEMMA GotFacts ==
    ASSUME NEW s, InOK(s) \/ FileOK(s), NEW data \in Seq(Int), NEW n \in Nat, n >= 1
    PROVE  /\ got(s, data, n) \in Seq(Int) /\ Len(got(s, data, n)) \in 0..n
           /\ s.eof \/ s.fail => Len(got(s, data, n)) = 0
           /\ Len(got(s, data, n)) = n =>
                /\ ~s.eof /\ ~s.fail /\ s.at + n <= Len(data)
                /\ \A i \in 1..n : got(s, data, n)[i] = data[s.at + i]
           /\ ~s.eof /\ ~s.fail /\ s.at <= Len(data) =>
                /\ s.at + Len(got(s, data, n)) <= Len(data)
                /\ Len(got(s, data, n)) < n => s.at + Len(got(s, data, n)) = Len(data)
<1> DEFINE g == got(s, data, n)
           e == IF s.at + n < Len(data) THEN s.at + n ELSE Len(data)
<1>1. s.at \in Nat /\ Len(data) \in Nat /\ sentry(s).fail = (s.eof \/ s.fail)
  BY SentryFails
<1>2. CASE s.eof \/ s.fail
  <2>1. g = <<>>
    BY <1>1, <1>2 DEF got
  <2>2. g \in Seq(Int) /\ Len(g) = 0
    BY <2>1, EmptySeq
  <2> QED
    BY <1>2, <2>2
<1>3. CASE ~(s.eof \/ s.fail) /\ s.at < Len(data)
  <2> DEFINE a == s.at
             m == a + 1
  <2>1. g = SubSeq(data, m, e)
    BY <1>1, <1>3 DEF got
  <2>2. /\ m \in 1..(Len(data) + 1) /\ e \in 0..Len(data) /\ m <= e
        /\ e <= a + n /\ (e < a + n => e = Len(data)) /\ m = a + 1 /\ a \in Nat
    BY <1>1, <1>3
  <2> HIDE DEF g, m, e, a
  <2>3. /\ g \in Seq(Int) /\ Len(g) = e - m + 1
        /\ \A i \in 1..Len(g) : g[i] = data[m + i - 1]
    <3>1. m \in 1..(Len(data) + 1) /\ e \in 0..Len(data) /\ m <= e
      BY <2>2
    <3>2. /\ SubSeq(data, m, e) \in Seq(Int)
          /\ Len(SubSeq(data, m, e)) = IF m <= e THEN e - m + 1 ELSE 0
          /\ \A i \in 1..Len(SubSeq(data, m, e)) : SubSeq(data, m, e)[i] = data[m + i - 1]
      BY <3>1, Part
    <3> QED
      BY <2>1, <3>1, <3>2
  <2>4. /\ Len(g) = e - a /\ Len(g) \in 0..n /\ a + Len(g) <= Len(data)
        /\ Len(g) < n => a + Len(g) = Len(data)
    BY <1>1, <2>2, <2>3
  <2>5. ASSUME NEW i \in 1..Len(g) PROVE g[i] = data[a + i]
    <3>1. m + i - 1 = a + i
      BY <2>2, <2>4
    <3> QED
      BY <2>3, <3>1
  <2>6. /\ g \in Seq(Int) /\ Len(g) \in 0..n
        /\ a + Len(g) <= Len(data) /\ (Len(g) < n => a + Len(g) = Len(data))
        /\ Len(g) = n => a + n <= Len(data) /\ \A i \in 1..n : g[i] = data[a + i]
    BY <2>3, <2>4, <2>5
  <2> QED
    BY <1>3, <2>6 DEF g, a
<1>4. CASE ~(s.eof \/ s.fail) /\ s.at >= Len(data)
  <2>1. g = SubSeq(data, s.at + 1, e)
    BY <1>1, <1>4 DEF got
  <2>2. s.at + 1 \in Int /\ e \in Int /\ e < s.at + 1
    BY <1>1, <1>4
  <2>3. g = <<>>
    BY <2>1, <2>2, SubSeqEmpty
  <2>4. g \in Seq(Int) /\ Len(g) = 0
    BY <2>3, EmptySeq
  <2> HIDE DEF g
  <2> QED
    BY <1>1, <1>4, <2>4 DEF g
<1> QED
  BY <1>1, <1>2, <1>3, <1>4

\* instream after istream::read: too few characters end and fail it.
LEMMA ReadInstream ==
    ASSUME NEW s, InOK(s), NEW n \in Nat, n >= 1
    PROVE  LET t == stream_read(s, Input, n)
               k == Len(got(s, Input, n))
           IN  /\ InOK(t) /\ t.at = s.at + k
               /\ k < n => t.eof = TRUE /\ t.fail = TRUE
               /\ ~(k < n) => t.eof = FALSE /\ t.fail = FALSE
<1> DEFINE t == stream_read(s, Input, n)
           k == Len(got(s, Input, n))
<1>0. t = IF k < n THEN [sentry(s) EXCEPT !.at = @ + k, !.eof = TRUE, !.fail = TRUE]
          ELSE [sentry(s) EXCEPT !.at = @ + k]
  BY DEF stream_read
<1>1. /\ k \in 0..n /\ (s.eof \/ s.fail => k = 0) /\ (k = n => ~s.eof /\ ~s.fail)
      /\ ~s.eof /\ ~s.fail /\ s.at <= Len(Input) =>
           s.at + k <= Len(Input) /\ (k < n => s.at + k = Len(Input))
  BY GotFacts, Limits
<1>2. s.at \in Nat /\ s.eof \in BOOLEAN /\ s.fail \in BOOLEAN
  BY SentryFails
<1> SUFFICES /\ InOK(t) /\ t.at = s.at + k
             /\ k < n => t.eof = TRUE /\ t.fail = TRUE
             /\ ~(k < n) => t.eof = FALSE /\ t.fail = FALSE
  OBVIOUS
<1> HIDE DEF t, k
<1>3. CASE k < n
  <2>1. t = [at |-> s.at + k, eof |-> TRUE, fail |-> TRUE]
    BY <1>0, <1>3 DEF InOK, sentry
  <2>2. s.at + k = Len(Input)
    BY <1>1, <1>2, <1>3, Limits DEF InOK
  <2> QED
    BY <1>3, <2>1, <2>2, Limits DEF InOK
<1>4. CASE ~(k < n)
  <2>1. s.eof = FALSE /\ s.fail = FALSE
    BY <1>1, <1>2, <1>4
  <2>2. t = [s EXCEPT !.at = @ + k]
    BY <1>0, <1>4, <2>1 DEF sentry
  <2>3. t = [at |-> s.at + k, eof |-> FALSE, fail |-> FALSE]
    BY <2>1, <2>2 DEF InOK
  <2>4. s.at + k \in 0..Len(Input)
    BY <1>1, <1>2, <2>1, Limits DEF InOK
  <2> QED
    BY <1>4, <2>3, <2>4 DEF InOK
<1> QED
  BY <1>3, <1>4

\* A file after istream::read.
LEMMA ReadFile ==
    ASSUME NEW s, FileOK(s), NEW data \in Seq(Int), NEW n \in Nat, n >= 1
    PROVE  LET t == stream_read(s, data, n)
               k == Len(got(s, data, n))
           IN  /\ FileOK(t) /\ t.name = s.name /\ t.mode = s.mode /\ t.pending = s.pending
               /\ t.at = s.at + k
               /\ k < n => t.eof = TRUE /\ t.fail = TRUE
               /\ ~(k < n) => t.eof = FALSE /\ t.fail = FALSE
<1> DEFINE t == stream_read(s, data, n)
           k == Len(got(s, data, n))
<1>0. t = IF k < n THEN [sentry(s) EXCEPT !.at = @ + k, !.eof = TRUE, !.fail = TRUE]
          ELSE [sentry(s) EXCEPT !.at = @ + k]
  BY DEF stream_read
<1>1. k \in 0..n /\ (k = n => ~s.eof /\ ~s.fail)
  BY GotFacts
<1>2. s.at \in Nat /\ s.eof \in BOOLEAN /\ s.fail \in BOOLEAN
  BY SentryFails
<1> SUFFICES /\ FileOK(t) /\ t.name = s.name /\ t.mode = s.mode /\ t.pending = s.pending
             /\ t.at = s.at + k
             /\ k < n => t.eof = TRUE /\ t.fail = TRUE
             /\ ~(k < n) => t.eof = FALSE /\ t.fail = FALSE
  OBVIOUS
<1> HIDE DEF t, k
<1>3. CASE k < n
  <2>1. t = [sentry(s) EXCEPT !.at = @ + k, !.eof = TRUE, !.fail = TRUE]
    BY <1>0, <1>3
  <2>2. t = [name |-> s.name, mode |-> s.mode, at |-> s.at + k, pending |-> s.pending,
             eof |-> TRUE, fail |-> TRUE]
    BY <2>1 DEF FileOK, sentry
  <2>3. s.at + k \in Nat
    BY <1>1, <1>2
  <2> QED
    BY <1>3, <2>2, <2>3 DEF FileOK
<1>4. CASE ~(k < n)
  <2>1. s.eof = FALSE /\ s.fail = FALSE
    BY <1>1, <1>2, <1>4
  <2>2. t = [s EXCEPT !.at = @ + k]
    BY <1>0, <1>4, <2>1 DEF sentry
  <2>3. t = [name |-> s.name, mode |-> s.mode, at |-> s.at + k, pending |-> s.pending,
             eof |-> FALSE, fail |-> FALSE]
    BY <2>1, <2>2 DEF FileOK
  <2>4. s.at + k \in Nat
    BY <1>1, <1>2
  <2> QED
    BY <1>4, <2>3, <2>4 DEF FileOK
<1> QED
  BY <1>3, <1>4

-----------------------------------------------------------------------------
(* Every step keeps the invariant *)

\* A kernel that was just created.
LEMMA InitInv == Init => IInv
<1> SUFFICES ASSUME Init PROVE IInv
  OBVIOUS
<1> DEFINE b == [i \in 1..BufferSize |-> NUL]
<1>1. b \in Seq(Int) /\ Len(b) = BufferSize
  <2>1. b \in [1..BufferSize -> Int]
    BY DEF NUL
  <2> QED
    BY <2>1, ArrayIsSeq, Limits
<1> HIDE DEF b
<1>2. cpus = [c \in {"primary"} |-> [v0 |-> 0, buffer |-> b]]
  BY DEF Init, b
<1>3. CpusOK(cpus)
  BY <1>1, <1>2 DEF CpusOK
<1>4. InOK(instream)
  BY Limits DEF Init, fresh, InOK
<1>5. FilesOK(files) /\ HeldOK(held, next_descriptor, files)
  BY DEF Init, FilesOK, HeldOK, first_user_descriptor
<1>6. disk \in [FileNames -> Seq(Int)]
  BY DEF Init, FileNames, Absent
<1>7. CallOK(call) /\ attempts \in 0..(MAX_ATTEMPTS - 1) /\ outstream \in Seq(Int)
  BY Limits DEF Init, CallOK, Idle
<1> QED
  BY <1>3, <1>4, <1>5, <1>6, <1>7 DEF IInv

\* However a call ends, what is left of it has the types.
LEMMA Ended ==
    ASSUME IInv, NEW o, Return(o)
    PROVE  CallOK(call') /\ attempts' \in 0..(MAX_ATTEMPTS - 1)
  BY Limits DEF Return, CallOK, Idle

\* Retry keeps within the attempts.
LEMMA Retried ==
    ASSUME IInv, Retry
    PROVE  CallOK(call') /\ attempts' \in 0..(MAX_ATTEMPTS - 1) /\ cpus' = cpus
<1>1. CASE attempts + 1 < MAX_ATTEMPTS
  BY <1>1, Limits DEF IInv, Retry
<1>2. CASE ~(attempts + 1 < MAX_ATTEMPTS)
  BY <1>2, Ended DEF Retry
<1> QED
  BY <1>1, <1>2 DEF Retry

\* The guest fills the buffer of every simulator alike.
LEMMA CallInv ==
    ASSUME IInv, NEW r \in Requests, Call(r)
    PROVE  IInv'
<1>1. next_descriptor \in Nat
  BY DEF IInv, HeldOK, first_user_descriptor
<1>2. CallOK(call') /\ attempts' \in 0..(MAX_ATTEMPTS - 1)
  BY <1>1, RequestOK, Limits DEF Call
<1>3. PICK b \in [1..BufferSize -> IF r.code \in {4, 15} THEN {NUL, Letter} ELSE {Letter}] :
        cpus' = [c \in DOMAIN cpus |-> [v0 |-> r.code, buffer |-> b]]
  BY DEF Call
<1>4. b \in Seq(Int) /\ Len(b) = BufferSize
  <2>1. b \in [1..BufferSize -> Int]
    BY DEF NUL, Letter
  <2> QED
    BY <2>1, ArrayIsSeq, Limits
<1>5. CpusOK(cpus')
  BY <1>3, <1>4 DEF IInv, CpusOK
<1>6. outstream' \in Seq(Int) /\ UNCHANGED <<instream, files, next_descriptor, disk, held>>
  BY DEF Call
<1> QED
  BY <1>2, <1>5, <1>6 DEF IInv

\* A replica starts as a copy.
LEMMA AddReplicaInv ==
    ASSUME IInv, AddReplica
    PROVE  IInv'
<1>1. CpusOK(cpus')
  BY DEF IInv, AddReplica, CpusOK
<1> QED
  BY <1>1 DEF IInv, AddReplica

\* Calls that read a value or a string.
LEMMA ReadsInv ==
    ASSUME IInv, read_integer \/ read_character \/ read_string
    PROVE  IInv'
<1>1. InOK(after_input) /\ input \in Seq(Int)
  BY InputOK DEF IInv
<1>2. InOK(instream') /\ UNCHANGED <<outstream, files, next_descriptor, disk, held>>
  BY <1>1 DEF read_integer, read_character, read_string, Reads
<1>3. CpusOK(cpus') /\ CallOK(call') /\ attempts' \in 0..(MAX_ATTEMPTS - 1)
  <2>1. CASE read_integer
    BY <2>1, RegisterWritten, Ended, Retried DEF IInv, read_integer
  <2>2. CASE read_character
    BY <2>2, RegisterWritten, Ended, Retried DEF IInv, read_character
  <2>3. CASE read_string
    <3> DEFINE n == IF Len(input) < call.size THEN Len(input) ELSE call.size
               data == SubSeq(input, 1, n)
    <3>1. call.size \in 1..BufferSize
      BY <2>3 DEF read_string, IInv, CallOK
    <3>2. n \in 0..Len(input) /\ n <= BufferSize /\ 1 \in 1..(Len(input) + 1)
      BY <1>1, <3>1, Limits
    <3>3. cpus' = host_to_guest(cpus, data)
      BY <2>3 DEF read_string
    <3> HIDE DEF n
    <3>4. data \in Seq(Int) /\ Len(data) = IF 1 <= n THEN n - 1 + 1 ELSE 0
      BY <1>1, <3>2, Part
    <3>5. Len(data) <= BufferSize
      BY <3>2, <3>4, Limits
    <3> HIDE DEF data
    <3>6. CpusOK(cpus')
      BY <3>3, <3>4, <3>5, BufferWritten DEF IInv
    <3>7. Return("run")
      BY <2>3 DEF read_string
    <3> QED
      BY <3>6, <3>7, Ended
  <2> QED
    BY <2>1, <2>2, <2>3
<1> QED
  BY <1>2, <1>3 DEF IInv

\* Calls that print, end the simulation or are not supported.
LEMMA PrintsInv ==
    ASSUME IInv, print \/ exit \/ unsupported
    PROVE  IInv'
<1>1. UNCHANGED <<cpus, instream, files, next_descriptor, disk, held>>
  BY DEF print, exit, unsupported, Prints
<1>2. CallOK(call') /\ attempts' \in 0..(MAX_ATTEMPTS - 1)
  BY Ended DEF print, exit, unsupported
<1>3. outstream' \in Seq(Int)
  <2>1. CASE print
    <3>1. CASE call.code \in {1, 11} /\ outstream' = Append(outstream, call.value)
      BY <3>1 DEF IInv, CallOK
    <3>2. CASE call.code = 4 /\ outstream' = outstream \o guest_string(BufferSize)
      <4>1. guest_string(BufferSize) \in Seq(Int)
        BY GuestString, Limits DEF IInv
      <4> QED
        BY <3>2, <4>1, ConcatProperties DEF IInv
    <3> QED
      BY <2>1, <3>1, <3>2 DEF print
  <2>2. CASE exit \/ unsupported
    BY <2>2 DEF IInv, exit, unsupported
  <2> QED
    BY <2>1, <2>2
<1> QED
  BY <1>1, <1>2, <1>3 DEF IInv

\* open_file gives the next descriptor, which nothing has had before.
LEMMA OpenInv ==
    ASSUME IInv, open_file
    PROVE  IInv'
<1>1. CallOK(call') /\ attempts' \in 0..(MAX_ATTEMPTS - 1) /\ UNCHANGED <<instream, outstream>>
  BY Ended DEF open_file
<1>2. CpusOK(cpus')
  BY RegisterWritten DEF IInv, open_file, io_failure
<1>3. CASE ~opens(call.name, call.flags)
  BY <1>1, <1>2, <1>3 DEF IInv, open_file
<1>4. CASE opens(call.name, call.flags)
  <2> DEFINE d == next_descriptor
             f == [name |-> call.name, mode |-> call.flags, at |-> 0, pending |-> <<>>,
                   eof |-> FALSE, fail |-> FALSE]
  <2>1. /\ files' = [x \in DOMAIN files \union {d} |-> IF x # d THEN files[x] ELSE f]
        /\ disk' = opened_disk(call.name, call.flags)
        /\ next_descriptor' = d + 1
        /\ held' = Append(held, <<d, call.name>>)
    BY <1>4 DEF open_file, new_descriptor
  <2>2. call.name \in FileNames
    BY DEF open_file, IInv, CallOK
  <2>3. d \in Nat /\ d = Len(held) + first_user_descriptor /\ first_user_descriptor = 3
        /\ held \in Seq(Nat \X FileNames)
    BY DEF IInv, HeldOK, first_user_descriptor
  <2>4. FileOK(f)
    BY <2>2 DEF FileOK
  <2>5. f.name = call.name
    OBVIOUS
  <2> HIDE DEF f, d
  <2>6. FilesOK(files')
    BY <2>1, <2>3, <2>4 DEF IInv, FilesOK
  <2>7. HeldOK(held', next_descriptor', files')
    <3>1. /\ held' \in Seq(Nat \X FileNames) /\ Len(held') = Len(held) + 1
          /\ held'[Len(held) + 1] = <<d, call.name>>
          /\ \A i \in 1..Len(held) : held'[i] = held[i]
      BY <2>1, <2>2, <2>3
    <3>2. next_descriptor' = Len(held') + first_user_descriptor
      BY <2>1, <2>3, <3>1
    <3>3. ASSUME NEW i \in 1..Len(held') PROVE held'[i][1] = i + first_user_descriptor - 1
      <4>1. CASE i = Len(held) + 1
        BY <2>3, <3>1, <4>1
      <4>2. CASE i # Len(held) + 1
        <5>1. i \in 1..Len(held)
          BY <2>3, <3>1, <4>2
        <5> QED
          BY <3>1, <5>1 DEF IInv, HeldOK
      <4> QED
        BY <4>1, <4>2
    <3>4. ASSUME NEW x \in DOMAIN files' PROVE \E i \in 1..Len(held') : held'[i] = <<x, files'[x].name>>
      <4>1. CASE x = d
        <5>1. files'[x] = f /\ Len(held) + 1 \in 1..Len(held')
          BY <2>1, <2>3, <3>1, <4>1
        <5> QED
          BY <2>5, <3>1, <4>1, <5>1
      <4>2. CASE x # d
        <5>1. x \in DOMAIN files /\ files'[x] = files[x]
          BY <2>1, <4>2
        <5>2. PICK i \in 1..Len(held) : held[i] = <<x, files[x].name>>
          BY <5>1 DEF IInv, HeldOK
        <5>3. i \in 1..Len(held')
          BY <2>3, <3>1
        <5> QED
          BY <3>1, <5>1, <5>2, <5>3
      <4> QED
        BY <4>1, <4>2
    <3> QED
      BY <3>1, <3>2, <3>3, <3>4 DEF HeldOK
  <2>8. disk' \in [FileNames -> Seq(Int)]
    <3>1. <<>> \in Seq(Int)
      OBVIOUS
    <3> QED
      BY <2>1, <3>1 DEF IInv, opened_disk
  <2> QED
    BY <1>1, <1>2, <2>6, <2>7, <2>8 DEF IInv
<1> QED
  BY <1>3, <1>4

\* close_file forgets the file and writes what is pending.
LEMMA CloseInv ==
    ASSUME IInv, close_file
    PROVE  IInv'
<1>1. CallOK(call') /\ attempts' \in 0..(MAX_ATTEMPTS - 1)
  BY Ended DEF close_file
<1>2. UNCHANGED <<cpus, instream, outstream, next_descriptor, held>>
  BY DEF close_file
<1>3. CASE UNCHANGED <<files, disk>>
  BY <1>1, <1>2, <1>3 DEF IInv
<1>4. CASE /\ call.descriptor \in DOMAIN files
           /\ files' = [d \in DOMAIN files \ {call.descriptor} |-> files[d]]
           /\ disk' = flushed(files[call.descriptor])
  <2> DEFINE f == files[call.descriptor]
             old == disk[f.name]
             new == IF f.mode = 9 THEN old \o f.pending
                    ELSE f.pending \o SubSeq(old, Len(f.pending) + 1, Len(old))
  <2>1. f.name \in FileNames /\ f.pending \in Seq(Int) /\ old \in Seq(Int)
    BY <1>4 DEF IInv, FilesOK, FileOK
  <2>2. FilesOK(files') /\ HeldOK(held', next_descriptor', files')
    BY <1>2, <1>4 DEF IInv, FilesOK, HeldOK
  <2>3. disk' = [disk EXCEPT ![f.name] = new]
    BY <1>4 DEF flushed
  <2> HIDE DEF f, old
  <2>4. new \in Seq(Int)
    <3>1. old \o f.pending \in Seq(Int)
      BY <2>1, ConcatProperties
    <3>2. SubSeq(old, Len(f.pending) + 1, Len(old)) \in Seq(Int)
      <4>1. Len(f.pending) \in Nat /\ Len(old) \in Nat
        BY <2>1
      <4>2. \A i \in (Len(f.pending) + 1)..Len(old) : old[i] \in Int
        BY <2>1, <4>1
      <4> QED
        BY <4>1, <4>2, SubSeqProperties
    <3>3. f.pending \o SubSeq(old, Len(f.pending) + 1, Len(old)) \in Seq(Int)
      BY <2>1, <3>2, ConcatProperties
    <3> QED
      BY <3>1, <3>3
  <2> HIDE DEF new
  <2>5. disk' \in [FileNames -> Seq(Int)]
    BY <2>1, <2>3, <2>4 DEF IInv
  <2> QED
    BY <1>1, <1>2, <2>2, <2>5 DEF IInv
<1> QED
  BY <1>3, <1>4 DEF close_file

\* Descriptors and files after one file has changed and kept its name.
LEMMA FileChanged ==
    ASSUME IInv, NEW d \in DOMAIN files, NEW f, FileOK(f), f.name = files[d].name,
           files' = [files EXCEPT ![d] = f], UNCHANGED <<next_descriptor, held>>
    PROVE  FilesOK(files') /\ HeldOK(held', next_descriptor', files')
<1>1. DOMAIN files' = DOMAIN files /\ files' = [x \in DOMAIN files |-> IF x = d THEN f ELSE files[x]]
  BY DEF IInv, FilesOK
<1>2. FilesOK(files')
  BY <1>1 DEF IInv, FilesOK
<1>3. \A x \in DOMAIN files' : files'[x].name = files[x].name
  BY <1>1
<1>4. held' = held /\ next_descriptor' = next_descriptor /\ HeldOK(held, next_descriptor, files)
  BY DEF IInv
<1>5. \A x \in DOMAIN files' : \E i \in 1..Len(held) : held[i] = <<x, files'[x].name>>
  BY <1>1, <1>3, <1>4 DEF HeldOK
<1>6. HeldOK(held', next_descriptor', files')
  BY <1>4, <1>5 DEF HeldOK
<1> QED
  BY <1>2, <1>6

\* What write_to_file does: to an output stream, to a file, or nothing.
LEMMA WriteCases ==
    ASSUME IInv, write_to_file,
           NEW d, d = call.descriptor, NEW data, data = guest_string(call.size)
    PROVE  /\ data \in Seq(Int) /\ Len(data) <= call.size
           /\ UNCHANGED <<instream, next_descriptor, disk, held>>
           /\ \E o : Return(o)
           /\ \/ /\ \E v : cpus' = write_cpu_register(v) /\ v <= 0 /\ v \in Int
                 /\ UNCHANGED <<outstream, files>>
              \/ cpus' = cpus /\ ~Return("run") /\ UNCHANGED <<outstream, files>>
              \/ /\ d \in {1, 2} /\ UNCHANGED files /\ outstream' = outstream \o data
                 /\ \E v \in {0, Len(data)} : cpus' = write_cpu_register(v)
              \/ /\ d \in DOMAIN files /\ UNCHANGED outstream
                 /\ files' = [files EXCEPT ![d].pending = @ \o data]
                 /\ cpus' = write_cpu_register(Len(data))
<1>1. data \in Seq(Int) /\ Len(data) <= call.size
  BY GuestString DEF IInv, CallOK, write_to_file
<1>2. UNCHANGED <<instream, next_descriptor, disk, held>>
  BY DEF write_to_file
<1>3. CASE ~is_out(d)
  BY <1>1, <1>2, <1>3 DEF write_to_file, io_failure
<1>4. CASE is_out(d) /\ d \in {1, 2}
  BY <1>1, <1>2, <1>4 DEF write_to_file
<1>5. CASE is_out(d) /\ d \notin {1, 2} /\ (files[d].fail \/ files[d].eof)
  <2>1. cpus' = write_cpu_register(0) /\ Return("run") /\ UNCHANGED <<outstream, files>>
    BY <1>5, Zenon DEF write_to_file
  <2> QED
    BY <1>1, <1>2, <2>1
<1>6. CASE is_out(d) /\ d \notin {1, 2} /\ ~(files[d].fail \/ files[d].eof) /\ files[d].mode = 0 /\ data # <<>>
  BY <1>1, <1>2, <1>6 DEF write_to_file, Return
<1>7. CASE is_out(d) /\ d \notin {1, 2} /\ ~(files[d].fail \/ files[d].eof) /\ ~(files[d].mode = 0 /\ data # <<>>)
  <2>1. d \in DOMAIN files
    BY <1>7 DEF is_out
  <2> QED
    BY <1>1, <1>2, <1>7, <2>1 DEF write_to_file
<1> QED
  BY <1>3, <1>4, <1>5, <1>6, <1>7

\* A file with more pending.
LEMMA FileWritten ==
    ASSUME IInv, NEW d \in DOMAIN files, NEW data \in Seq(Int)
    PROVE  LET f == [files[d] EXCEPT !.pending = @ \o data] IN
           /\ [files EXCEPT ![d].pending = @ \o data] = [files EXCEPT ![d] = f]
           /\ FileOK(f) /\ f.name = files[d].name
           /\ f.pending = files[d].pending \o data /\ Len(f.pending) = Len(files[d].pending) + Len(data)
<1> DEFINE p == files[d].pending \o data
           f == [files[d] EXCEPT !.pending = p]
<1>1. FileOK(files[d])
  BY DEF IInv, FilesOK
<1>2. p \in Seq(Int) /\ Len(p) = Len(files[d].pending) + Len(data)
  BY <1>1, ConcatProperties DEF FileOK
<1>3. [files EXCEPT ![d].pending = p] = [files EXCEPT ![d] = f]
  <2> HIDE DEF p
  <2> QED
    OBVIOUS
<1>4. FileOK(f) /\ f.name = files[d].name /\ f.pending = p
  <2> HIDE DEF p
  <2> DEFINE o == files[d]
  <2>0. o = [name |-> o.name, mode |-> o.mode, at |-> o.at, pending |-> o.pending,
             eof |-> o.eof, fail |-> o.fail]
    BY <1>1 DEF FileOK
  <2>1. f = [name |-> files[d].name, mode |-> files[d].mode, at |-> files[d].at, pending |-> p,
             eof |-> files[d].eof, fail |-> files[d].fail]
    <3>1. f = [o EXCEPT !.pending = p]
      OBVIOUS
    <3> HIDE DEF o, f
    <3>2. f = [name |-> o.name, mode |-> o.mode, at |-> o.at, pending |-> p, eof |-> o.eof, fail |-> o.fail]
      BY <2>0, <3>1
    <3> QED
      BY <3>2 DEF o
  <2> HIDE DEF f
  <2>2. /\ f.name = files[d].name /\ f.mode = files[d].mode /\ f.at = files[d].at /\ f.pending = p
        /\ f.eof = files[d].eof /\ f.fail = files[d].fail
    BY <2>1
  <2> QED
    BY <1>1, <1>2, <2>1, <2>2 DEF FileOK
<1> QED
  BY <1>2, <1>3, <1>4

\* write_to_file
LEMMA WriteInv ==
    ASSUME IInv, write_to_file
    PROVE  IInv'
<1> DEFINE d == call.descriptor
           data == guest_string(call.size)
           f == [files[d] EXCEPT !.pending = @ \o data]
<1>1. /\ data \in Seq(Int) /\ UNCHANGED <<instream, next_descriptor, disk, held>>
      /\ \E o : Return(o)
      /\ cpus' = cpus \/ \E v : cpus' = write_cpu_register(v)
      /\ outstream' = outstream \/ outstream' = outstream \o data
      /\ files' = files \/ (d \in DOMAIN files /\ files' = [files EXCEPT ![d].pending = @ \o data])
  <2> HIDE DEF data, d
  <2> QED
    BY WriteCases DEF data, d
<1>2. CallOK(call') /\ attempts' \in 0..(MAX_ATTEMPTS - 1) /\ CpusOK(cpus')
  BY <1>1, Ended, RegisterWritten DEF IInv
<1>3. outstream' \in Seq(Int)
  <2> HIDE DEF data
  <2>1. outstream \in Seq(Int) /\ outstream \o data \in Seq(Int)
    BY <1>1, ConcatProperties DEF IInv
  <2> QED
    BY <1>1, <2>1
<1>4. FilesOK(files') /\ HeldOK(held', next_descriptor', files')
  <2>1. CASE files' = files
    BY <1>1, <2>1 DEF IInv
  <2>2. CASE d \in DOMAIN files /\ files' = [files EXCEPT ![d].pending = @ \o data]
    <3> HIDE DEF data, d
    <3>1. files' = [files EXCEPT ![d] = f] /\ FileOK(f) /\ f.name = files[d].name
      BY <1>1, <2>2, FileWritten
    <3> HIDE DEF f
    <3> QED
      BY <1>1, <2>2, <3>1, FileChanged
  <2> QED
    BY <1>1, <2>1, <2>2
<1> QED
  BY <1>1, <1>2, <1>3, <1>4 DEF IInv

\* padded fills the rest of the buffer of the host with zeros.
LEMMA PaddedIsSeq ==
    ASSUME NEW data \in Seq(Int), NEW n \in Nat
    PROVE  /\ padded(data, n) \in Seq(Int) /\ Len(padded(data, n)) = n
           /\ Len(data) = n => \A i \in 1..n : padded(data, n)[i] = data[i]
<1>1. padded(data, n) = [i \in 1..n |-> IF i <= Len(data) THEN data[i] ELSE NUL]
  BY DEF padded
<1>2. padded(data, n) \in [1..n -> Int]
  BY <1>1 DEF NUL
<1>3. padded(data, n) \in Seq(Int) /\ Len(padded(data, n)) = n
  BY <1>2, ArrayIsSeq
<1>4. ASSUME Len(data) = n, NEW i \in 1..n PROVE padded(data, n)[i] = data[i]
  BY <1>1, <1>4
<1> QED
  BY <1>3, <1>4

\* read_from_file
LEMMA ReadInv ==
    ASSUME IInv, read_from_file
    PROVE  IInv'
<1> DEFINE d == call.descriptor
           n == call.size
           s == in_stream(d)
           data == in_data(d)
           t == stream_read(s, data, n)
           c == write_cpu_register(chars_read(position(d, s), position(d, t), n))
           g == got(s, data, n)
           p == padded(g, n)
<1>1. UNCHANGED <<outstream, next_descriptor, disk, held>> /\ \E o : Return(o)
  BY DEF read_from_file
<1>2. CallOK(call') /\ attempts' \in 0..(MAX_ATTEMPTS - 1)
  BY <1>1, Ended
<1>3. n \in 1..BufferSize /\ n \in Nat /\ n >= 1
  BY Limits DEF IInv, CallOK, read_from_file
<1>4. CASE ~is_in(d)
  <2>1. UNCHANGED <<instream, files>> /\ CpusOK(cpus')
    BY <1>4, RegisterWritten DEF read_from_file, io_failure, IInv
  <2> QED
    BY <1>1, <1>2, <2>1 DEF IInv
<1>5. CASE is_in(d)
  <2>1. /\ IF d = 0 THEN instream' = t /\ UNCHANGED files
           ELSE files' = [files EXCEPT ![d] = t] /\ UNCHANGED instream
        /\ cpus' = host_to_guest(c, p) \/ cpus' = c
    BY <1>5 DEF read_from_file
  <2>2. CpusOK(c)
    BY RegisterWritten DEF IInv
  <2> HIDE DEF c
  <2>3. CASE d = 0
    <3>1. s = instream /\ data = Input
      BY <2>3 DEF in_stream, in_data
    <3>2. InOK(t)
      BY <1>3, <3>1, Limits, ReadInstream DEF IInv
    <3>3. g \in Seq(Int)
      BY <1>3, <3>1, Limits, GotFacts DEF IInv
    <3> HIDE DEF g, n
    <3>4. p \in Seq(Int) /\ Len(p) <= BufferSize
      <4>1. p \in Seq(Int) /\ Len(p) = n
        BY <1>3, <3>3, PaddedIsSeq
      <4> QED
        BY <1>3, <4>1, Limits
    <3> HIDE DEF p, t
    <3>5. CpusOK(cpus')
      BY <2>1, <2>2, <3>4, BufferWritten
    <3> QED
      BY <1>1, <1>2, <2>1, <2>3, <3>2, <3>5 DEF IInv
  <2>4. CASE d # 0
    <3>1. d \in DOMAIN files /\ s = files[d] /\ FileOK(s)
      BY <1>5, <2>4 DEF in_stream, is_in, IInv, FilesOK
    <3>2. data \in Seq(Int)
      BY <2>4, <3>1 DEF in_data, IInv, FileOK
    <3>3. FileOK(t) /\ t.name = files[d].name
      <4> HIDE DEF data, s, n
      <4>1. FileOK(t) /\ t.name = s.name
        BY <1>3, <3>1, <3>2, ReadFile
      <4> QED
        BY <3>1, <4>1
    <3>4. g \in Seq(Int)
      BY <1>3, <3>1, <3>2, GotFacts
    <3> HIDE DEF g, n
    <3>5. p \in Seq(Int) /\ Len(p) <= BufferSize
      <4>1. p \in Seq(Int) /\ Len(p) = n
        BY <1>3, <3>4, PaddedIsSeq
      <4> QED
        BY <1>3, <4>1, Limits
    <3> HIDE DEF p, t
    <3>6. CpusOK(cpus')
      BY <2>1, <2>2, <3>5, BufferWritten
    <3> HIDE DEF d
    <3>7. FilesOK(files') /\ HeldOK(held', next_descriptor', files')
      BY <1>1, <2>1, <2>4, <3>1, <3>3, FileChanged
    <3> QED
      BY <1>1, <1>2, <2>1, <2>4, <3>6, <3>7 DEF IInv
  <2> QED
    BY <2>3, <2>4
<1> QED
  BY <1>4, <1>5

\* Every step.
LEMMA NextInv == IInv /\ [Next]_vars => IInv'
<1> SUFFICES ASSUME IInv, [Next]_vars PROVE IInv'
  OBVIOUS
<1>1. CASE Next
  BY <1>1, CallInv, AddReplicaInv, ReadsInv, PrintsInv, OpenInv, CloseInv, WriteInv, ReadInv DEF Next, Attempt
<1>2. CASE UNCHANGED vars
  BY <1>2 DEF IInv, vars
<1> QED
  BY <1>1, <1>2

\* The invariant holds in every state.
LEMMA Always == Spec => []IInv
  BY InitInv, NextInv, PTL DEF Spec

-----------------------------------------------------------------------------
(* Theorems *)

\* For every number of calls: no two calls of open_file return the same
\* descriptor, and an open file is the one its descriptor was returned for.
THEOREM KernelStaleDescriptor == Spec => []StaleDescriptor
<1>1. IInv => StaleDescriptor
  <2> SUFFICES ASSUME IInv PROVE StaleDescriptor
    OBVIOUS
  <2>1. ASSUME NEW i \in 1..Len(held), NEW j \in 1..Len(held), held[i][1] = held[j][1]
        PROVE  i = j
    <3>1. /\ held[i][1] = i + first_user_descriptor - 1
          /\ held[j][1] = j + first_user_descriptor - 1
      BY DEF IInv, HeldOK
    <3>2. i \in Int /\ j \in Int
      BY DEF IInv, HeldOK
    <3>3. i + first_user_descriptor - 1 = j + first_user_descriptor - 1
      BY <2>1, <3>1, Zenon
    <3> QED
      BY <3>2, <3>3 DEF first_user_descriptor
  <2> QED
    BY <2>1 DEF StaleDescriptor, IInv, HeldOK
<1> QED
  BY <1>1, Always, PTL

\* Whatever the guest calls and whenever the checker joins, its registers and its
\* memory are those of the primary.
THEOREM KernelReplicasFollow == Spec => []ReplicasFollow
<1>1. IInv => ReplicasFollow
  BY DEF IInv, CpusOK, ReplicasFollow
<1> QED
  BY <1>1, Always, PTL

\* The first of the words is the one that the stream gives next.
LEMMA FirstWord ==
    ASSUME NEW at, NEW n \in Nat, n >= 1
    PROVE  words(at, n) = [i \in 1..n |-> words(at, n)[i]] /\ words(at, n)[1] = word(at)
<1> DEFINE Eq(f) == f = [i \in 0..n |-> IF i = 0 THEN at ELSE word_end(f[i - 1])]
           UpTo(f, k) ==
               /\ f = [i \in 0..n |-> f[i]]
               /\ \A i \in 0..n : i <= k => f[i] = IF i = 0 THEN at ELSE word_end(f[i - 1])
           S == {k \in Nat : \E f : UpTo(f, k)}
<1>1. 0 \in S
  <2> DEFINE g == [i \in 0..n |-> at]
  <2>1. UpTo(g, 0)
    OBVIOUS
  <2> HIDE DEF UpTo, g
  <2> QED
    BY <2>1
<1>2. ASSUME NEW k \in Nat, k \in S PROVE k + 1 \in S
  <2> HIDE DEF UpTo
  <2>1. PICK f : UpTo(f, k)
    BY <1>2
  <2> DEFINE g == [i \in 0..n |-> IF i = k + 1 THEN word_end(f[i - 1]) ELSE f[i]]
  <2>2. g = [i \in 0..n |-> g[i]]
    OBVIOUS
  <2>3. ASSUME NEW i \in 0..n, i <= k + 1
        PROVE  g[i] = IF i = 0 THEN at ELSE word_end(g[i - 1])
    <3>1. CASE i = 0
      <4>1. 0 # k + 1 /\ 0 <= k /\ 0 \in 0..n
        OBVIOUS
      <4>2. f[0] = at
        BY <2>1, <4>1 DEF UpTo
      <4> QED
        BY <3>1, <4>1, <4>2
    <3>2. CASE i # 0
      <4>1. i - 1 \in 0..n /\ i - 1 # k + 1
        BY <2>3, <3>2
      <4>2. g[i - 1] = f[i - 1]
        BY <4>1
      <4>3. CASE i = k + 1
        BY <3>2, <4>2, <4>3
      <4>4. CASE i # k + 1
        <5>1. i <= k
          BY <2>3, <4>4
        <5>2. f[i] = word_end(f[i - 1])
          BY <2>1, <3>2, <5>1 DEF UpTo
        <5> QED
          BY <3>2, <4>2, <4>4, <5>2
      <4> QED
        BY <4>3, <4>4
    <3> QED
      BY <3>1, <3>2
  <2> HIDE DEF g
  <2>4. UpTo(g, k + 1)
    BY <2>2, <2>3 DEF UpTo
  <2> QED
    BY <2>4
<1> HIDE DEF S, UpTo
<1>3. Nat \subseteq S
  BY <1>1, <1>2, NatSetInduction
<1>4. PICK f : UpTo(f, n)
  BY <1>3 DEF S
<1>5. Eq(f)
  <2>1. \A i \in 0..n : i <= n
    OBVIOUS
  <2> QED
    BY <1>4, <2>1 DEF UpTo
<1> DEFINE ends == CHOOSE g : Eq(g)
<1>6. words(at, n) = [i \in 1..n |-> word(ends[i - 1])]
  BY DEF words
<1> HIDE DEF Eq
<1>7. Eq(ends)
  BY <1>5
<1> HIDE DEF ends
<1>8. ends[0] = at
  BY <1>7 DEF Eq
<1>9. words(at, n)[1] = word(ends[1 - 1])
  BY <1>6
<1> QED
  BY <1>6, <1>8, <1>9

\* The code of a call says which attempt is made; the guest waits for its end.
LEMMA AttemptIs ==
    ASSUME Next
    PROVE  /\ call.code \in {5, 12} => read_integer \/ read_character
           /\ call.code = 14 => read_from_file
           /\ call.code = 15 => write_to_file
<1>0. Attempt \/ call.code = 0
  BY DEF Next, Call, AddReplica, Idle
<1>1. (read_string => call.code = 8) /\ (read_integer => call.code = 5) /\ (read_character => call.code = 12)
  BY DEF read_string, read_integer, read_character
<1>2. print => call.code \in {1, 4, 11}
  BY DEF print
<1>3. (exit => call.code \in {10, 17}) /\ (unsupported => call.code = 666)
  BY DEF exit, unsupported
<1>4. (open_file => call.code = 13) /\ (close_file => call.code = 16)
  BY DEF open_file, close_file
<1>5. (write_to_file => call.code = 15) /\ (read_from_file => call.code = 14)
  BY DEF write_to_file, read_from_file
<1> QED
  BY <1>0, <1>1, <1>2, <1>3, <1>4, <1>5 DEF Attempt

\* What read_integer and read_character do with the next word.
LEMMA AttemptAtWord ==
    ASSUME IInv, Attempt, call.code \in {5, 12}, NEW w, w = word(instream.at)
    PROVE  /\ good(call.code, w) =>
                cpus'["primary"].v0 = value(call.code, w) /\ outcome' = "run" /\ call' = Idle
           /\ ~good(call.code, w) => Retry
<1>1. input = w
  BY InputOK DEF IInv
<1>2. read_integer \/ read_character
  BY AttemptIs DEF Next
<1>3. CASE read_integer
  <2>1. call.code = 5
    BY <1>3 DEF read_integer
  <2> QED
    BY <1>1, <1>3, <2>1, RegisterWritten DEF read_integer, good, value, Return, IInv
<1>4. CASE read_character
  <2>1. call.code = 12
    BY <1>4 DEF read_character
  <2> QED
    BY <1>1, <1>4, <2>1, RegisterWritten DEF read_character, good, value, Return, IInv
<1> QED
  BY <1>2, <1>3, <1>4

\* For every input and every MAX_ATTEMPTS: execute_interactive gives the first
\* good word among those that the attempts allow, or BadInteraction.
THEOREM KernelReadsFirstGoodWord == Spec => ReadsFirstGoodWord
<1>1. ASSUME IInv, [Next]_vars PROVE [call # Idle => FirstGoodWord]_vars
  <2> SUFFICES ASSUME Next, call # Idle, call.code \in {5, 12} PROVE FirstGoodWord
    BY <1>1 DEF FirstGoodWord
  <2> DEFINE left == MAX_ATTEMPTS - attempts
             w == words(instream.at, left)
             I == {i \in 1..Len(w) : good(call.code, w[i])}
             k == SelectInSeq(w, LAMBDA x : good(call.code, x))
  <2>1. Attempt
    BY DEF Next, Call, AddReplica
  <2>2. left \in Nat /\ left >= 1
    BY <1>1, Limits DEF IInv
  <2>3. w[1] = word(instream.at) /\ w = [i \in 1..left |-> w[i]]
    BY <2>2, FirstWord
  <2>4. Len(w) = left
    <3> HIDE DEF w
    <3>1. w \in [1..left -> {w[i] : i \in 1..left}]
      BY <2>3
    <3> QED
      BY <2>2, <3>1, ArrayIsSeq
  <2>5. k = IF I # {} THEN Min(I) ELSE 0
    BY DEF SelectInSeq
  <2> HIDE DEF k, w, left
  <2>6. /\ I \subseteq Nat /\ I \subseteq 1..left
        /\ I # {} => k \in I /\ \A y \in I : k <= y
        /\ I = {} => k = 0
    <3>1. I \subseteq Nat /\ I \subseteq 1..left
      BY <2>2, <2>4
    <3>2. ASSUME I # {} PROVE k \in I /\ \A y \in I : k <= y
      <4> HIDE DEF I
      <4>1. \E x \in I : \A y \in I : x <= y
        BY <3>1, <3>2, NatMin
      <4> QED
        BY <2>5, <3>2, <4>1 DEF Min
    <3> QED
      BY <2>5, <3>1, <3>2
  <2>7. good(call.code, w[1]) <=> 1 \in I
    BY <2>2, <2>4
  <2> HIDE DEF I
  <2>8. /\ k = 1 <=> 1 \in I
        /\ k > 1 => left > 1
    <3>1. CASE I = {}
      BY <2>2, <2>6, <3>1
    <3>2. CASE I # {}
      <4>1. k \in 1..left /\ k \in I /\ (1 \in I => k <= 1)
        BY <2>6, <3>2
      <4>2. k \in Nat /\ k >= 1 /\ k <= left
        BY <2>2, <4>1
      <4> QED
        BY <2>2, <4>1, <4>2
    <3> QED
      BY <3>1, <3>2
  <2>9. /\ k = 1 => cpus'["primary"].v0 = value(call.code, w[1]) /\ outcome' = "run" /\ call' = Idle
        /\ k # 1 => Retry
    BY <1>1, <2>1, <2>3, <2>7, <2>8, AttemptAtWord
  <2>10. Retry => cpus' = cpus
    BY DEF Retry
  <2>11. ASSUME Retry, k > 1 PROVE call' = call /\ attempts' = attempts + 1
    <3>1. attempts + 1 < MAX_ATTEMPTS
      BY <1>1, <2>8, <2>11, Limits DEF IInv, left
    <3> QED
      BY <2>11, <3>1 DEF Retry
  <2>12. ASSUME Retry, left = 1 PROVE outcome' = "BadInteraction"
    <3>1. ~(attempts + 1 < MAX_ATTEMPTS)
      BY <1>1, <2>12, Limits DEF IInv, left
    <3> QED
      BY <2>12, <3>1 DEF Retry, Return
  <2>13. (k > 1 => k # 1) /\ (k = 0 => k # 1)
    BY <2>6
  <2> QED
    BY <2>9, <2>10, <2>11, <2>12, <2>13 DEF FirstGoodWord, k, w, left
<1> QED
  BY <1>1, Always, PTL DEF Spec, ReadsFirstGoodWord

\* tellg before and after a read that tells a positive difference.
LEMMA PositiveRead ==
    ASSUME NEW d, NEW s, NEW data \in Seq(Int), NEW n \in Nat, n >= 1,
           d = 0 => InOK(s) /\ data = Input,
           d # 0 => FileOK(s) /\ (s.mode # 0 => data = <<>>),
           position(d, stream_read(s, data, n)) - position(d, s) > 0
    PROVE  /\ position(d, stream_read(s, data, n)) - position(d, s) = n
           /\ stream_read(s, data, n).at = s.at + n
           /\ Len(got(s, data, n)) = n /\ s.at + n <= Len(data)
           /\ \A i \in 1..n : got(s, data, n)[i] = data[s.at + i]
<1> DEFINE k == Len(got(s, data, n))
           t == stream_read(s, data, n)
<1>1. InOK(s) \/ FileOK(s)
  OBVIOUS
<1>2. /\ k \in 0..n
      /\ k = n => /\ ~s.eof /\ ~s.fail /\ s.at + n <= Len(data)
                  /\ \A i \in 1..n : got(s, data, n)[i] = data[s.at + i]
  BY <1>1, GotFacts
<1>3. s.at \in Nat /\ tellg(s) = IF s.eof \/ s.fail THEN EOF ELSE s.at
  BY <1>1, SentryFails
<1>4. /\ t.at = s.at + k /\ (d # 0 => t.mode = s.mode /\ t.pending = s.pending)
      /\ InOK(t) \/ FileOK(t)
      /\ k < n => t.eof = TRUE
      /\ ~(k < n) => t.eof = FALSE /\ t.fail = FALSE
  <2>1. CASE d = 0
    BY <2>1, ReadInstream
  <2>2. CASE d # 0
    BY <2>2, ReadFile
  <2> QED
    BY <2>1, <2>2
<1> HIDE DEF k, t
<1>5. tellg(t) = IF t.eof \/ t.fail THEN EOF ELSE t.at
  BY <1>4, SentryFails
<1>6. position(d, s) \in Int /\ position(d, s) >= -1
  <2>1. tellg(s) \in Int /\ tellg(s) >= -1
    BY <1>3 DEF EOF
  <2>2. d # 0 => Len(s.pending) \in Nat
    BY DEF FileOK
  <2> QED
    BY <2>1, <2>2 DEF position, EOF
<1>7. position(d, t) - position(d, s) > 0
  BY DEF t
<1>8. k = n
  <2> SUFFICES ASSUME k < n PROVE FALSE
    BY <1>2
  <2>1. tellg(t) = EOF
    BY <1>4, <1>5
  <2>2. position(d, t) = -1
    BY <2>1 DEF position, EOF
  <2> QED
    BY <1>6, <1>7, <2>2
<1>9. tellg(s) = s.at /\ tellg(t) = s.at + n /\ s.at + n <= Len(data)
  BY <1>2, <1>3, <1>4, <1>5, <1>8
<1>10. ~(d # 0 /\ s.mode # 0)
  <2> SUFFICES ASSUME d # 0 /\ s.mode # 0 PROVE FALSE
    OBVIOUS
  <2>1. Len(data) = 0
    OBVIOUS
  <2> QED
    BY <1>3, <1>9, <2>1
<1>11. ~(d = 0 /\ ~Seekable)
  <2> SUFFICES ASSUME d = 0, ~Seekable PROVE FALSE
    OBVIOUS
  <2>1. position(d, s) = EOF /\ position(d, t) = EOF
    BY DEF position
  <2> QED
    BY <1>7, <2>1 DEF EOF
<1>12. position(d, s) = s.at /\ position(d, t) = s.at + n
  <2>1. s.at # EOF /\ s.at + n # EOF
    BY <1>3 DEF EOF
  <2> QED
    BY <1>4, <1>9, <1>10, <1>11, <2>1 DEF position
<1> QED
  BY <1>2, <1>3, <1>4, <1>8, <1>12 DEF t, k

\* A positive count of read_from_file.
LEMMA ReadCount ==
    ASSUME IInv, read_from_file, outcome' = "run", NEW d, d = call.descriptor,
           NEW n, n = cpus'["primary"].v0, n > 0
    PROVE  /\ n = call.size
           /\ \A i \in 1..n : /\ in_stream(d).at + i <= Len(in_data(d))
                              /\ cpus'["primary"].buffer[i] = in_data(d)[in_stream(d).at + i]
           /\ in_stream(d)'.at = in_stream(d).at + n
<1> DEFINE m == call.size
           s == in_stream(d)
           data == in_data(d)
           t == stream_read(s, data, m)
           v == position(d, t) - position(d, s)
           c == write_cpu_register(v)
           g == got(s, data, m)
<1>1. m \in Nat /\ m >= 1 /\ m <= BufferSize
  BY Limits DEF IInv, CallOK, read_from_file
<1>2. is_in(d)
  <2> SUFFICES ASSUME ~is_in(d) PROVE FALSE
    OBVIOUS
  <2>1. cpus' = write_cpu_register(-1)
    BY DEF read_from_file, io_failure
  <2>2. n = -1
    BY <2>1, RegisterWritten DEF IInv
  <2> QED
    BY <2>2
<1>3. /\ IF d = 0 THEN instream' = t /\ UNCHANGED files
         ELSE files' = [files EXCEPT ![d] = t] /\ UNCHANGED instream
      /\ cpus' = host_to_guest(c, padded(g, m))
  <2>1. Return("OutOfRange") => outcome' # "run"
    BY DEF Return
  <2> QED
    BY <1>2, <2>1 DEF read_from_file, chars_read
<1>4. /\ data \in Seq(Int)
      /\ d = 0 => InOK(s) /\ data = Input
      /\ d # 0 => FileOK(s) /\ (s.mode # 0 => data = <<>>) /\ d \in DOMAIN files
  <2>1. CASE d = 0
    BY <2>1, Limits DEF in_stream, in_data, IInv
  <2>2. CASE d # 0
    <3>1. d \in DOMAIN files /\ s = files[d] /\ FileOK(s)
      BY <1>2, <2>2 DEF in_stream, is_in, IInv, FilesOK
    <3>2. data \in Seq(Int) /\ (s.mode # 0 => data = <<>>)
      BY <2>2, <3>1 DEF in_data, IInv, FileOK
    <3> QED
      BY <2>2, <3>1, <3>2
  <2> QED
    BY <2>1, <2>2
<1>5. CpusOK(c) /\ c["primary"].v0 = v
  BY RegisterWritten DEF IInv
<1>6. in_stream(d)' = t
  BY <1>3, <1>4 DEF in_stream, IInv, FilesOK
<1> HIDE DEF m, s, data, c
<1>7. g \in Seq(Int)
  BY <1>1, <1>4, GotFacts
<1> HIDE DEF g
<1>8. padded(g, m) \in Seq(Int) /\ Len(padded(g, m)) = m
  BY <1>1, <1>7, PaddedIsSeq
<1>9. /\ cpus'["primary"].v0 = v
      /\ \A i \in 1..m : cpus'["primary"].buffer[i] = padded(g, m)[i]
  <2> DEFINE p == padded(g, m)
  <2>1. cpus' = host_to_guest(c, p)
    BY <1>3
  <2>2. p \in Seq(Int) /\ Len(p) = m /\ Len(p) <= BufferSize
    BY <1>1, <1>8
  <2> HIDE DEF p, v
  <2>3. /\ host_to_guest(c, p)["primary"].v0 = c["primary"].v0
        /\ \A i \in 1..Len(p) : host_to_guest(c, p)["primary"].buffer[i] = p[i]
    BY <1>5, <2>2, BufferWritten
  <2> QED
    BY <1>5, <2>1, <2>2, <2>3 DEF p
<1>10. /\ v = m /\ t.at = s.at + m /\ Len(g) = m /\ s.at + m <= Len(data)
       /\ \A i \in 1..m : g[i] = data[s.at + i]
  BY <1>1, <1>4, <1>9, PositiveRead DEF g
<1>11. \A i \in 1..m : padded(g, m)[i] = g[i]
  BY <1>1, <1>7, <1>10, PaddedIsSeq
<1>12. s.at \in Nat /\ Len(data) \in Nat
  BY <1>4, SentryFails
<1>13. ASSUME NEW i \in 1..m
       PROVE  s.at + i <= Len(data) /\ cpus'["primary"].buffer[i] = data[s.at + i]
  BY <1>1, <1>9, <1>10, <1>11, <1>12
<1>14. n = m
  BY <1>9, <1>10
<1> QED
  BY <1>6, <1>10, <1>13, <1>14 DEF m, s, data

\* A positive count of write_to_file.
LEMMA WriteCount ==
    ASSUME IInv, write_to_file, outcome' = "run", call' = Idle, NEW d, d = call.descriptor,
           NEW n, n = cpus'["primary"].v0, n > 0
    PROVE  /\ n <= call.size
           /\ Len(outstream') + (IF d \in DOMAIN files THEN Len(files'[d].pending) ELSE 0) =
                n + Len(outstream) + (IF d \in DOMAIN files THEN Len(files[d].pending) ELSE 0)
<1> DEFINE data == guest_string(call.size)
<1>1. call.size \in Nat /\ outstream \in Seq(Int)
  <2>1. call.code = 15
    BY DEF write_to_file
  <2>2. CallOK(call) /\ outstream \in Seq(Int)
    BY DEF IInv
  <2> QED
    BY <2>1, <2>2, Limits DEF CallOK
<1>2. data \in Seq(Int) /\ Len(data) <= call.size /\ Len(data) \in Nat
  BY WriteCases
<1>3. \/ \E v : cpus' = write_cpu_register(v) /\ v <= 0 /\ v \in Int
      \/ ~Return("run")
      \/ /\ d \in {1, 2} /\ UNCHANGED files /\ outstream' = outstream \o data
         /\ \E v \in {0, Len(data)} : cpus' = write_cpu_register(v)
      \/ /\ d \in DOMAIN files /\ UNCHANGED outstream
         /\ files' = [files EXCEPT ![d].pending = @ \o data]
         /\ cpus' = write_cpu_register(Len(data))
  BY WriteCases
<1>4. \A v : cpus' = write_cpu_register(v) => n = v
  BY RegisterWritten DEF IInv
<1>5. Return("run")
  <2>1. PICK o : Return(o)
    BY WriteCases
  <2> QED
    BY <2>1 DEF Return
<1> HIDE DEF data
<1>6. CASE \E v : cpus' = write_cpu_register(v) /\ v <= 0 /\ v \in Int
  BY <1>4, <1>6
<1>7. CASE /\ d \in {1, 2} /\ UNCHANGED files /\ outstream' = outstream \o data
           /\ \E v \in {0, Len(data)} : cpus' = write_cpu_register(v)
  <2>1. n = Len(data)
    BY <1>4, <1>7
  <2>2. d \notin DOMAIN files
    BY <1>7 DEF IInv, FilesOK, first_user_descriptor
  <2>3. Len(outstream') = Len(outstream) + Len(data) /\ Len(outstream) \in Nat
    BY <1>1, <1>2, <1>7, ConcatProperties
  <2> QED
    BY <1>2, <2>1, <2>2, <2>3
<1>8. CASE /\ d \in DOMAIN files /\ UNCHANGED outstream
           /\ files' = [files EXCEPT ![d].pending = @ \o data]
           /\ cpus' = write_cpu_register(Len(data))
  <2> DEFINE f == [files[d] EXCEPT !.pending = @ \o data]
  <2>1. n = Len(data)
    BY <1>4, <1>8
  <2>2. /\ files' = [files EXCEPT ![d] = f]
        /\ Len(f.pending) = Len(files[d].pending) + Len(data)
    BY <1>2, <1>8, FileWritten
  <2> HIDE DEF f
  <2>3. files'[d] = f
    BY <1>8, <2>2 DEF IInv, FilesOK
  <2>4. Len(files[d].pending) \in Nat /\ Len(outstream) \in Nat
    BY <1>1, <1>8 DEF IInv, FilesOK, FileOK
  <2>5. Len(files'[d].pending) = Len(files[d].pending) + Len(data) /\ outstream' = outstream
    BY <1>8, <2>2, <2>3
  <2> DEFINE a == Len(files[d].pending)
             b == Len(files'[d].pending)
             u == Len(outstream)
             w == Len(outstream')
             x == Len(data)
  <2>6. d \in DOMAIN files /\ b = a + x /\ w = u /\ n = x /\ x <= call.size
    BY <1>2, <1>8, <2>1, <2>5
  <2>7. a \in Nat /\ u \in Nat /\ x \in Nat
    BY <1>2, <2>4
  <2> SUFFICES n <= call.size
               /\ w + (IF d \in DOMAIN files THEN b ELSE 0) = n + u + (IF d \in DOMAIN files THEN a ELSE 0)
    OBVIOUS
  <2> HIDE DEF a, b, u, w, x
  <2> QED
    BY <2>6, <2>7
<1> QED
  BY <1>3, <1>5, <1>6, <1>7, <1>8

\* For every input, file and buffer: a positive count that read_from_file or
\* write_to_file reports is the number of characters that moved, and for a read
\* all that was asked for.
THEOREM KernelPositiveCount == Spec => PositiveCountIsExact
<1> DEFINE A == call.code \in {14, 15} /\ call' = Idle /\ outcome' = "run" =>
       \A d \in {call.descriptor}, n \in {cpus'["primary"].v0} : n > 0 =>
         /\ call.code = 14 =>
              /\ n = call.size
              /\ \A i \in 1..n : /\ in_stream(d).at + i <= Len(in_data(d))
                                 /\ cpus'["primary"].buffer[i] = in_data(d)[in_stream(d).at + i]
              /\ in_stream(d)'.at = in_stream(d).at + n
         /\ call.code = 15 =>
              /\ n <= call.size
              /\ Len(outstream') + (IF d \in DOMAIN files THEN Len(files'[d].pending) ELSE 0) =
                    n + Len(outstream) + (IF d \in DOMAIN files THEN Len(files[d].pending) ELSE 0)
<1>1. ASSUME IInv, [Next]_vars PROVE [A]_vars
  <2> SUFFICES ASSUME Next, call.code \in {14, 15}, call' = Idle, outcome' = "run" PROVE A
    BY <1>1
  <2>1. CASE call.code = 14
    <3>1. read_from_file
      BY <2>1, AttemptIs
    <3> QED
      BY <1>1, <2>1, <3>1, ReadCount
  <2>2. CASE call.code = 15
    <3>1. write_to_file
      BY <2>2, AttemptIs
    <3> QED
      BY <1>1, <2>2, <3>1, WriteCount
  <2> QED
    BY <2>1, <2>2
<1>2. PositiveCountIsExact <=> [][A]_vars
  BY DEF PositiveCountIsExact
<1> HIDE DEF A
<1> QED
  BY <1>1, <1>2, Always, PTL DEF Spec
=============================================================================
