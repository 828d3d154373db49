--------------------------- MODULE FramingProofs ---------------------------
(***************************************************************************)
(* Proofs about the framing of ANI v4.1, for every set of messages and     *)
(* streams of any length.  What FlattenSeq returns is found by a least     *)
(* counterexample (FlattenIs, FlattenAppend); BoundaryFacts says that a    *)
(* message begins at every boundary and no other one inside it, ReadAt     *)
(* what the code reads of a message that the buffer holds or cuts.  With   *)
(* them FramingInv is inductive: what lies before the walk is handled.     *)
(***************************************************************************)
EXTENDS Framing, SequenceTheorems, FiniteSetTheorems, WellFoundedInduction, TLAPS

----------------------------------------------------------------------------
(* FlattenSeq, one message at a time. *)

(* A set of numbers has a least one. *)
LEMMA Least ==
  ASSUME NEW T \in SUBSET Nat, T # {}
  PROVE  \E m \in T : \A k \in T : m <= k
<1>1. PICK m \in T : \A y \in T : ~ (<<y, m>> \in OpToRel(<, Nat))
  BY NatLessThanWellFounded, WFMin
<1>2. \A k \in T : ~(k < m)
  BY <1>1 DEF OpToRel
<1> QED
  BY <1>2

(* f is the recursive function of FlattenSeq for the first n of ss. *)
Flattens(f, n, ss, S) ==
    /\ f \in [1 .. n -> Seq(S)]
    /\ \A i \in 1 .. n : f[i] = IF i = 1 THEN ss[i] ELSE f[i - 1] \o ss[i]

(* There is such a function for every n. *)
LEMMA FlattenExists ==
  ASSUME NEW S, NEW ss \in Seq(Seq(S)), NEW n \in 0 .. Len(ss)
  PROVE  \E f : Flattens(f, n, ss, S)
<1> DEFINE T == {k \in 0 .. Len(ss) : ~ \E f : Flattens(f, k, ss, S)}
<1> SUFFICES ASSUME T # {} PROVE FALSE
  OBVIOUS
<1>0. Len(ss) \in Nat /\ \A i \in 1 .. Len(ss) : ss[i] \in Seq(S)
  BY LenProperties, ElementOfSeq
<1>1. T \in SUBSET Nat
  BY <1>0
<1>2. PICK m \in T : \A k \in T : m <= k
  <2> HIDE DEF T
  <2> QED
    BY <1>1, Least
<1>3. m # 0
  <2>1. Flattens(<<>>, 0, ss, S)
    BY DEF Flattens
  <2> QED
    BY <2>1
<1>4. m \in 1 .. Len(ss) /\ m - 1 \in 0 .. Len(ss) /\ m - 1 \notin T
  <2>1. m \in 0 .. Len(ss)
    OBVIOUS
  <2>2. m \in 1 .. Len(ss) /\ m - 1 \in 0 .. Len(ss) /\ ~(m <= m - 1)
    BY <1>0, <1>3, <2>1
  <2> HIDE DEF T
  <2> QED
    BY <1>2, <2>2
<1>5. PICK f : Flattens(f, m - 1, ss, S)
  BY <1>4
<1> DEFINE g == [i \in 1 .. m |-> IF i = m THEN IF m = 1 THEN ss[m] ELSE f[m - 1] \o ss[m] ELSE f[i]]
<1>6. /\ f \in [1 .. m - 1 -> Seq(S)]
      /\ \A i \in 1 .. m - 1 : f[i] = IF i = 1 THEN ss[i] ELSE f[i - 1] \o ss[i]
  BY <1>5 DEF Flattens
<1>7. m # 1 => f[m - 1] \o ss[m] \in Seq(S)
  <2>1. m # 1 => f[m - 1] \in Seq(S)
    BY <1>4, <1>6
  <2> QED
    BY <1>0, <1>4, <2>1, ConcatProperties
<1>8. g \in [1 .. m -> Seq(S)]
  <2>1. ss[m] \in Seq(S) /\ \A i \in 1 .. m : i # m => i \in 1 .. m - 1
    BY <1>0, <1>4
  <2>2. ASSUME NEW i \in 1 .. m
        PROVE  (IF i = m THEN IF m = 1 THEN ss[m] ELSE f[m - 1] \o ss[m] ELSE f[i]) \in Seq(S)
    BY <1>6, <1>7, <2>1
  <2> QED
    BY <2>2
<1>9. \A i \in 1 .. m : g[i] = IF i = 1 THEN ss[i] ELSE g[i - 1] \o ss[i]
  <2> TAKE i \in 1 .. m
  <2>1. CASE i = m
    <3>1. m # 1 => m - 1 \in 1 .. m /\ m - 1 # m
      BY <1>4
    <3>2. m # 1 => g[m - 1] = f[m - 1]
      BY <3>1
    <3> QED
      BY <1>4, <2>1, <3>2
  <2>2. CASE i # m
    <3>1. i \in 1 .. m - 1 /\ (i # 1 => i - 1 \in 1 .. m /\ i - 1 # m)
      BY <1>4, <2>2
    <3>2. g[i] = f[i] /\ (i # 1 => g[i - 1] = f[i - 1])
      BY <2>2, <3>1
    <3> HIDE DEF g
    <3> QED
      BY <1>6, <3>1, <3>2
  <2> QED
    BY <2>1, <2>2
<1>10. Flattens(g, m, ss, S)
  BY <1>8, <1>9 DEF Flattens
<1> QED
  BY <1>2, <1>10

(* Two of them agree where both are defined. *)
LEMMA FlattenUnique ==
  ASSUME NEW S, NEW ss, NEW tt, NEW n \in Nat, NEW m \in Nat, n <= m,
         \A i \in 1 .. n : ss[i] = tt[i],
         NEW f, Flattens(f, n, ss, S), NEW g, Flattens(g, m, tt, S)
  PROVE  \A i \in 1 .. n : f[i] = g[i]
<1> DEFINE T == {k \in 1 .. n : f[k] # g[k]}
<1> SUFFICES ASSUME T # {} PROVE FALSE
  OBVIOUS
<1>1. T \in SUBSET Nat
  OBVIOUS
<1>2. PICK k \in T : \A j \in T : k <= j
  <2> HIDE DEF T
  <2> QED
    BY <1>1, Least
<1>3. k \in 1 .. n /\ k \in 1 .. m /\ f[k] # g[k] /\ ss[k] = tt[k]
  OBVIOUS
<1>4. /\ f[k] = IF k = 1 THEN ss[k] ELSE f[k - 1] \o ss[k]
      /\ g[k] = IF k = 1 THEN tt[k] ELSE g[k - 1] \o tt[k]
  BY <1>3 DEF Flattens
<1>5. CASE k = 1
  BY <1>3, <1>4, <1>5
<1>6. CASE k # 1
  <2>1. k - 1 \in 1 .. n /\ k - 1 < k
    BY <1>3, <1>6
  <2>2. f[k - 1] = g[k - 1]
    BY <1>2, <2>1
  <2> QED
    BY <1>3, <1>4, <1>6, <2>2
<1> QED
  BY <1>5, <1>6

(* It is what FlattenSeq computes. *)
LEMMA FlattenIs ==
  ASSUME NEW S, NEW ss \in Seq(Seq(S)), Len(ss) # 0
  PROVE  \E f : Flattens(f, Len(ss), ss, S) /\ FlattenSeq(ss) = f[Len(ss)]
<1> DEFINE N == Len(ss)
           W(f) == f = [i \in 1 .. N |-> IF i = 1 THEN ss[i] ELSE f[i - 1] \o ss[i]]
           flatten == CHOOSE f : W(f)
<1>1. N \in Nat
  BY LenProperties
<1>2. PICK f : Flattens(f, N, ss, S)
  BY <1>1, FlattenExists
<1>3. W(f)
  BY <1>2 DEF Flattens
<1>4. W(flatten)
  <2> HIDE DEF W
  <2> QED
    BY <1>3
<1>5. f = flatten
  <2>1. ASSUME NEW k \in 1 .. N, f[k] # flatten[k] PROVE FALSE
    <3> DEFINE T == {i \in 1 .. N : f[i] # flatten[i]}
    <3>1. T \in SUBSET Nat /\ T # {}
      <4> HIDE DEF flatten
      <4>1. k \in T
        BY <2>1
      <4> QED
        BY <1>1, <4>1, SMTT(20)
    <3>2. PICK j \in T : \A i \in T : j <= i
      <4> HIDE DEF T
      <4> QED
        BY <3>1, Least
    <3>3. \A i \in 1 .. N : /\ f[i] = IF i = 1 THEN ss[i] ELSE f[i - 1] \o ss[i]
                            /\ flatten[i] = IF i = 1 THEN ss[i] ELSE flatten[i - 1] \o ss[i]
      <4> HIDE DEF flatten
      <4> QED
        BY <1>3, <1>4
    <3> HIDE DEF flatten
    <3>4. CASE j = 1
      BY <3>2, <3>3, <3>4
    <3>5. CASE j # 1
      <4>1. j - 1 \in 1 .. N /\ j - 1 < j
        BY <1>1, <3>5
      <4>2. f[j - 1] = flatten[j - 1]
        BY <3>2, <4>1, SMTT(20)
      <4> QED
        BY <3>2, <3>3, <3>5, <4>2
    <3> QED
      BY <3>4, <3>5
  <2>2. DOMAIN f = 1 .. N /\ DOMAIN flatten = 1 .. N
    <3> HIDE DEF flatten
    <3> QED
      BY <1>3, <1>4
  <2>3. f = [i \in 1 .. N |-> f[i]] /\ flatten = [i \in 1 .. N |-> flatten[i]]
    <3> HIDE DEF flatten
    <3> QED
      BY <1>3, <1>4
  <2> HIDE DEF flatten
  <2> QED
    BY <2>1, <2>3
<1>6. FlattenSeq(ss) = flatten[N]
  BY DEF FlattenSeq
<1> HIDE DEF flatten
<1> QED
  BY <1>2, <1>5, <1>6

(* One message more is one message more at the end. *)
LEMMA FlattenAppend ==
  ASSUME NEW S, NEW ss \in Seq(Seq(S)), NEW m \in Seq(S)
  PROVE  /\ FlattenSeq(ss) \in Seq(S)
         /\ FlattenSeq(Append(ss, m)) = FlattenSeq(ss) \o m
<1> DEFINE tt == Append(ss, m)
           N == Len(ss)
<1>1. N \in Nat /\ \A i \in 1 .. N : ss[i] \in Seq(S)
  BY LenProperties, ElementOfSeq
<1>2. /\ tt \in Seq(Seq(S)) /\ Len(tt) = N + 1
      /\ (\A i \in 1 .. N : tt[i] = ss[i]) /\ tt[N + 1] = m
  BY AppendProperties
<1> HIDE DEF tt
<1>3. PICK g : Flattens(g, N + 1, tt, S) /\ FlattenSeq(tt) = g[N + 1]
  BY <1>1, <1>2, FlattenIs
<1>4. g[N + 1] = IF N + 1 = 1 THEN m ELSE g[N] \o m
  <2>1. N + 1 \in 1 .. N + 1 /\ N + 1 - 1 = N
    BY <1>1
  <2>2. \A i \in 1 .. N + 1 : g[i] = IF i = 1 THEN tt[i] ELSE g[i - 1] \o tt[i]
    BY <1>3 DEF Flattens
  <2>3. g[N + 1] = IF N + 1 = 1 THEN tt[N + 1] ELSE g[N + 1 - 1] \o tt[N + 1]
    BY <2>1, <2>2
  <2> HIDE DEF N
  <2> QED
    BY <1>2, <2>1, <2>3
<1>5. CASE N = 0
  <2>1. ss = <<>>
    BY <1>5, EmptySeq
  <2>2. FlattenSeq(ss) = <<>>
    BY <2>1 DEF FlattenSeq
  <2> QED
    BY <1>3, <1>4, <1>5, <2>2, ConcatEmptySeq, EmptySeq DEF tt
<1>6. CASE N # 0
  <2>1. PICK f : Flattens(f, N, ss, S) /\ FlattenSeq(ss) = f[N]
    BY <1>6, FlattenIs
  <2>2. \A i \in 1 .. N : f[i] = g[i]
    <3>1. PICK k \in Nat : k = N + 1
      BY <1>1
    <3>2. N <= k /\ \A i \in 1 .. N : ss[i] = tt[i]
      BY <1>1, <1>2, <3>1
    <3>3. Flattens(g, k, tt, S) /\ Flattens(f, N, ss, S)
      BY <1>3, <2>1, <3>1
    <3> HIDE DEF N
    <3> QED
      BY <1>1, <3>2, <3>3, FlattenUnique
  <2>3. N \in 1 .. N /\ N + 1 # 1
    BY <1>1, <1>6
  <2>4. f[N] \in Seq(S)
    BY <2>1, <2>3 DEF Flattens
  <2>5. g[N + 1] = g[N] \o m /\ g[N] = f[N]
    BY <1>4, <2>2, <2>3
  <2>6. FlattenSeq(tt) = FlattenSeq(ss) \o m
    <3> HIDE DEF N
    <3> QED
      BY <1>3, <2>1, <2>5
  <2> QED
    BY <2>1, <2>4, <2>6 DEF tt
<1> QED
  BY <1>5, <1>6

----------------------------------------------------------------------------
(* Where the messages are in the stream. *)

(* The first n messages. *)
Upto(n) == FlattenSeq(SubSeq(stream, 1, n))

(* The stream is a sequence of messages, each a sequence of bytes. *)
LEMMA StreamIs ==
  ASSUME stream \in Streams
  PROVE  /\ stream \in Seq(Messages) /\ stream \in Seq(Seq(Byte)) /\ Len(stream) \in Nat
         /\ \A i \in 1 .. Len(stream) : stream[i] \in Messages
<1>1. PICK n \in 1 .. MaxMessages : stream \in [1 .. n -> Messages]
  BY DEF Streams
<1>2. n \in Nat /\ Messages \subseteq Seq(Byte)
  BY <1>1, FramingAssumption
<1>3. stream \in Seq(Messages)
  BY <1>1, <1>2, SeqDef
<1>4. stream \in Seq(Seq(Byte))
  BY <1>2, <1>3, SeqMonotonic
<1> QED
  BY <1>3, <1>4, LenProperties, ElementOfSeq

(* The first n messages are the first n - 1 and the n-th. *)
LEMMA UptoGrows ==
  ASSUME stream \in Streams, NEW n \in 0 .. Len(stream)
  PROVE  /\ Upto(n) \in Seq(Byte)
         /\ n = 0 => Upto(n) = <<>>
         /\ n = Len(stream) => Upto(n) = Bytes
         /\ n # Len(stream) => Upto(n + 1) = Upto(n) \o stream[n + 1]
<1>1. /\ stream \in Seq(Seq(Byte)) /\ Len(stream) \in Nat
      /\ \A i \in 1 .. Len(stream) : stream[i] \in Seq(Byte)
  BY StreamIs, FramingAssumption
<1>2. SubSeq(stream, 1, n) \in Seq(Seq(Byte))
  <2>1. \A i \in 1 .. n : stream[i] \in Seq(Byte)
    BY <1>1
  <2>2. 1 \in Int /\ n \in Int
    OBVIOUS
  <2> QED
    BY <2>1, <2>2, SubSeqProperties
<1>3. Upto(n) \in Seq(Byte)
  <2>1. <<>> \in Seq(Byte)
    BY EmptySeq
  <2> QED
    BY <1>2, <2>1, FlattenAppend DEF Upto
<1>4. n = 0 => Upto(n) = <<>>
  <2>1. n = 0 => SubSeq(stream, 1, n) = <<>>
    BY SubSeqEmpty
  <2>2. FlattenSeq(<<>>) = <<>>
    BY DEF FlattenSeq
  <2> QED
    BY <2>1, <2>2 DEF Upto
<1>5. n = Len(stream) => Upto(n) = Bytes
  BY <1>1, SubSeqFull DEF Upto, Bytes
<1>6. ASSUME n # Len(stream) PROVE Upto(n + 1) = Upto(n) \o stream[n + 1]
  <2>1. n + 1 \in 1 .. Len(stream) /\ n + 1 - 1 = n
    BY <1>1, <1>6
  <2>2. SubSeq(stream, 1, n + 1) = Append(SubSeq(stream, 1, n), stream[n + 1])
    <3>1. 1 \in 1 .. Len(stream) /\ n + 1 \in 1 .. Len(stream) /\ stream[n + 1] \in Seq(Byte)
      BY <1>1, <2>1
    <3>2. SubSeq(stream, 1, n + 1) = SubSeq(stream, 1, n + 1 - 1) \o <<stream[n + 1]>>
      BY <1>1, <3>1, SubSeqRecursiveSecond
    <3>3. Append(SubSeq(stream, 1, n), stream[n + 1]) = SubSeq(stream, 1, n) \o <<stream[n + 1]>>
      BY <1>2, <3>1, AppendIsConcat
    <3> QED
      BY <2>1, <3>2, <3>3
  <2>3. stream[n + 1] \in Seq(Byte)
    BY <1>1, <2>1
  <2> QED
    BY <1>2, <2>2, <2>3, FlattenAppend DEF Upto
<1> QED
  BY <1>3, <1>4, <1>5, <1>6

(* The first n messages are where the stream begins, and the next one follows. *)
LEMMA UptoBegins ==
  ASSUME stream \in Streams, NEW n \in 0 .. Len(stream)
  PROVE  /\ Len(Upto(n)) <= Len(Bytes)
         /\ \A i \in 1 .. Len(Upto(n)) : Bytes[i] = Upto(n)[i]
<1> DEFINE Begins(k) == /\ Len(Upto(k)) <= Len(Bytes)
                        /\ \A i \in 1 .. Len(Upto(k)) : Bytes[i] = Upto(k)[i]
           N == Len(stream)
           T == {k \in 0 .. N : ~Begins(N - k)}
<1>0. N \in Nat
  BY StreamIs
<1>1. T = {}
  <2> SUFFICES ASSUME T # {} PROVE FALSE
    OBVIOUS
  <2>1. T \in SUBSET Nat
    BY <1>0
  <2>2. PICK k \in T : \A j \in T : k <= j
    <3> HIDE DEF T
    <3> QED
      BY <2>1, Least
  <2>3. k \in 0 .. N /\ ~Begins(N - k)
    OBVIOUS
  <2> HIDE DEF Begins
  <2>4. CASE k = 0
    <3>1. N - k = N /\ N \in 0 .. N
      BY <1>0, <2>4
    <3>2. Upto(N) = Bytes /\ Upto(N) \in Seq(Byte)
      BY <3>1, UptoGrows
    <3>3. Len(Bytes) \in Nat
      BY <3>2, LenProperties
    <3> QED
      BY <2>3, <3>1, <3>2, <3>3 DEF Begins
  <2>5. CASE k # 0
    <3>1. /\ k - 1 \in 0 .. N /\ ~(k <= k - 1) /\ N - k + 1 = N - (k - 1)
          /\ N - k \in 0 .. N /\ N - k # N
          /\ N - k + 1 \in 1 .. N /\ N - k + 1 \in 0 .. N
      BY <1>0, <2>3, <2>5
    <3>2. Begins(N - k + 1)
      <4>1. k - 1 \notin T
        <5> HIDE DEF T
        <5> QED
          BY <2>2, <3>1
      <4> QED
        BY <3>1, <4>1
    <3> DEFINE a == Upto(N - k)
               m == stream[N - k + 1]
               b == Upto(N - k + 1)
    <3>3. b = a \o m /\ a \in Seq(Byte)
      BY <3>1, UptoGrows
    <3>4. m \in Seq(Byte)
      BY <3>1, StreamIs, FramingAssumption
    <3>5. Begins(N - k + 1) <=> Len(b) <= Len(Bytes) /\ \A i \in 1 .. Len(b) : Bytes[i] = b[i]
      BY DEF Begins
    <3>6. Begins(N - k) <=> Len(a) <= Len(Bytes) /\ \A i \in 1 .. Len(a) : Bytes[i] = a[i]
      BY DEF Begins
    <3>7. Len(Bytes) \in Nat
      <4>1. N \in 0 .. N
        BY <1>0
      <4> QED
        BY <4>1, UptoGrows, LenProperties
    <3> HIDE DEF a, b, m
    <3>8. /\ Len(a \o m) = Len(a) + Len(m) /\ Len(a) \in Nat /\ Len(m) \in Nat
          /\ \A i \in 1 .. Len(a) + Len(m) : (a \o m)[i] = IF i <= Len(a) THEN a[i] ELSE m[i - Len(a)]
      BY <3>3, <3>4, ConcatProperties, LenProperties
    <3>9. \A i \in 1 .. Len(a) : i \in 1 .. Len(b) /\ b[i] = a[i]
      BY <3>3, <3>8
    <3>10. Len(a) <= Len(Bytes)
      BY <3>2, <3>3, <3>5, <3>7, <3>8
    <3> QED
      BY <2>3, <3>2, <3>5, <3>6, <3>9, <3>10
  <2> QED
    BY <2>4, <2>5
<1>2. N - n \in 0 .. N /\ N - (N - n) = n
  BY <1>0
<1>3. Begins(N - (N - n))
  <2> HIDE DEF Begins
  <2> QED
    BY <1>1, <1>2
<1> QED
  BY <1>2, <1>3

(* The offsets of the messages grow. *)
LEMMA UptoOrder ==
  ASSUME stream \in Streams, NEW n \in 0 .. Len(stream), NEW k \in n .. Len(stream)
  PROVE  Len(Upto(n)) <= Len(Upto(k))
<1> DEFINE N == Len(stream)
           T == {j \in n .. N : ~(Len(Upto(n)) <= Len(Upto(j)))}
<1>0. N \in Nat
  BY StreamIs
<1> SUFFICES ASSUME T # {} PROVE FALSE
  OBVIOUS
<1>1. T \in SUBSET Nat
  BY <1>0
<1>2. PICK j \in T : \A i \in T : j <= i
  <2> HIDE DEF T
  <2> QED
    BY <1>1, Least
<1>3. j \in n .. N /\ j \in 0 .. N /\ ~(Len(Upto(n)) <= Len(Upto(j)))
  BY <1>0
<1>4. Len(Upto(n)) \in Nat
  BY UptoGrows, LenProperties
<1>5. j # n
  BY <1>3, <1>4
<1>6. /\ j - 1 \in n .. N /\ j - 1 \in 0 .. N /\ ~(j <= j - 1) /\ j - 1 # N /\ j - 1 + 1 = j
      /\ j \in 1 .. N
  BY <1>0, <1>3, <1>5
<1>7. Len(Upto(n)) <= Len(Upto(j - 1))
  <2>1. j - 1 \notin T
    <3> HIDE DEF T
    <3> QED
      BY <1>2, <1>6
  <2> QED
    BY <1>6, <2>1
<1>8. Upto(j) = Upto(j - 1) \o stream[j] /\ Upto(j - 1) \in Seq(Byte) /\ stream[j] \in Seq(Byte)
  <2>1. Upto(j - 1 + 1) = Upto(j - 1) \o stream[j - 1 + 1] /\ Upto(j - 1) \in Seq(Byte)
    BY <1>6, UptoGrows
  <2> QED
    BY <1>6, <2>1, StreamIs, FramingAssumption
<1>9. /\ Len(Upto(j)) = Len(Upto(j - 1)) + Len(stream[j]) /\ Len(Upto(j - 1)) \in Nat
      /\ Len(stream[j]) \in Nat
  BY <1>8, ConcatProperties, LenProperties
<1>10. \A x, y, z \in Nat : x <= y => x <= y + z
  OBVIOUS
<1> QED
  BY <1>3, <1>4, <1>7, <1>9, <1>10

(* m is the message of the stream at offset b. *)
MessageAt(m, b) ==
    /\ m \in Messages
    /\ b + Len(m) <= Len(Bytes) /\ b + Len(m) \in Boundaries
    /\ \A j \in 1 .. Len(m) : Bytes[b + j] = m[j]
    /\ \A c \in Boundaries : c <= b \/ c >= b + Len(m)

(* A message begins at every boundary but the last, and no other boundary *)
(* is inside it.                                                          *)
LEMMA BoundaryFacts ==
  ASSUME stream \in Streams
  PROVE  /\ Bytes \in Seq(Byte) /\ Len(Bytes) \in Nat
         /\ Boundaries \subseteq 0 .. Len(Bytes) /\ 0 \in Boundaries
         /\ \A b \in Boundaries : b < Len(Bytes) => \E m : MessageAt(m, b)
<1> DEFINE N == Len(stream)
<1>0. N \in Nat /\ N \in 0 .. N /\ 0 \in 0 .. N
  BY StreamIs
<1>1. Bytes \in Seq(Byte) /\ Len(Bytes) \in Nat
  <2>1. Bytes \in Seq(Byte)
    BY <1>0, UptoGrows
  <2> QED
    BY <2>1, LenProperties
<1>2. Boundaries = {Len(Upto(n)) : n \in 0 .. N}
  BY DEF Boundaries, Upto
<1>3. Boundaries \subseteq 0 .. Len(Bytes)
  <2>1. ASSUME NEW n \in 0 .. N PROVE Len(Upto(n)) \in 0 .. Len(Bytes)
    <3>1. Len(Upto(n)) \in Nat
      BY UptoGrows, LenProperties
    <3> QED
      BY <1>1, <3>1, UptoBegins
  <2> QED
    BY <1>2, <2>1
<1>4. 0 \in Boundaries
  <2>1. Upto(0) = <<>>
    BY <1>0, UptoGrows
  <2> QED
    BY <1>0, <1>2, <2>1, EmptySeq
<1>5. ASSUME NEW b \in Boundaries, b < Len(Bytes) PROVE \E m : MessageAt(m, b)
  <2>1. PICK n \in 0 .. N : b = Len(Upto(n))
    BY <1>2
  <2>2. n # N
    <3>1. n = N => Upto(n) = Bytes
      BY UptoGrows
    <3> QED
      BY <1>1, <1>5, <2>1, <3>1
  <2>3. n + 1 \in 0 .. N /\ n + 1 \in 1 .. N
    BY <1>0, <2>2
  <2> DEFINE m == stream[n + 1]
             a == Upto(n)
  <2>4. Upto(n + 1) = a \o m /\ a \in Seq(Byte) /\ m \in Messages /\ m \in Seq(Byte)
    BY <2>2, <2>3, UptoGrows, StreamIs, FramingAssumption
  <2>5. /\ Len(Upto(n + 1)) \in Boundaries /\ Len(Upto(n + 1)) <= Len(Bytes)
        /\ \A i \in 1 .. Len(Upto(n + 1)) : Bytes[i] = Upto(n + 1)[i]
    BY <1>2, <2>3, UptoBegins
  <2>6. \A c \in Boundaries : c <= b \/ c >= Len(Upto(n + 1))
    <3>1. ASSUME NEW k \in 0 .. N PROVE Len(Upto(k)) <= b \/ Len(Upto(k)) >= Len(Upto(n + 1))
      <4>1. CASE k <= n
        <5>1. n \in k .. N
          BY <1>0, <4>1
        <5> QED
          BY <2>1, <5>1, UptoOrder
      <4>2. CASE ~(k <= n)
        <5>1. k \in n + 1 .. N
          BY <1>0, <4>2
        <5>2. Len(Upto(n + 1)) <= Len(Upto(k))
          BY <2>3, <5>1, UptoOrder
        <5>3. Len(Upto(n + 1)) \in Nat /\ Len(Upto(k)) \in Nat
          BY <2>3, UptoGrows, LenProperties
        <5> QED
          BY <5>2, <5>3
      <4> QED
        BY <4>1, <4>2
    <3> QED
      BY <1>2, <3>1
  <2> HIDE DEF a, m
  <2>7. /\ Len(a \o m) = Len(a) + Len(m) /\ Len(a) \in Nat /\ Len(m) \in Nat
        /\ \A i \in 1 .. Len(a) + Len(m) : (a \o m)[i] = IF i <= Len(a) THEN a[i] ELSE m[i - Len(a)]
    BY <2>4, ConcatProperties, LenProperties
  <2>8. b = Len(a)
    BY <2>1 DEF a
  <2>9. \A j \in 1 .. Len(m) : Bytes[b + j] = m[j]
    <3>1. ASSUME NEW j \in 1 .. Len(m) PROVE Bytes[Len(a) + j] = m[j]
      <4>1. PICK i \in Nat : i = Len(a) + j
        BY <2>7
      <4>2. i \in 1 .. Len(a) + Len(m) /\ ~(i <= Len(a)) /\ i - Len(a) = j
        BY <2>7, <4>1
      <4>3. (a \o m)[i] = m[j]
        BY <2>7, <4>2
      <4>4. Bytes[i] = (a \o m)[i]
        BY <2>4, <2>5, <2>7, <4>2
      <4> QED
        BY <4>1, <4>3, <4>4
    <3> QED
      BY <2>8, <3>1
  <2>10. MessageAt(m, b)
    BY <2>4, <2>5, <2>6, <2>7, <2>8, <2>9 DEF MessageAt
  <2> QED
    BY <2>10
<1> QED
  BY <1>1, <1>3, <1>4, <1>5

----------------------------------------------------------------------------
(* The invariant. *)

(* The buffer holds what was received last. *)
Segment == \A i \in 1 .. Len(read_buffer) : read_buffer[i] = Bytes[Start + i]

(* While it is walked the buffer is not empty, and without -c walked once. *)
WalkInv ==
    pc = "walk" => /\ Len(read_buffer) > 0
                   /\ ~cbench => read_bufferp = 0 /\ handled = {} /\ ~again

(* With -c what lies before the walk is handled... *)
WalkedInv ==
    cbench /\ Start \in Boundaries =>
        \A n \in Boundaries :
            Due(n) /\ (pc = "walk" => n < Start + read_bufferp) => n \in handled

(* ...without it the first message, when it was looked at... *)
FirstInv ==
    ~cbench /\ pc = "recv" /\ Start \in Boundaries /\ Due(Start) => Start \in handled

(* ...and the walk has left what it handled, unless that is cut in its header. *)
LeftInv ==
    pc = "walk" /\ Start \in Boundaries =>
        \A n \in handled : n < Start + read_bufferp \/ received < n + 4

(* What holds of the bytes, the walk and what was handled at every moment. *)
FramingInv ==
    /\ TypeOK /\ Segment /\ WalkInv /\ StaysOnMessages
    /\ WalkedInv /\ FirstInv /\ LeftInv /\ NothingMadeUp /\ HandledOnce

(* Nothing is received yet, so that the invariant holds. *)
LEMMA FramingInitially == Init => FramingInv
<1> SUFFICES ASSUME Init PROVE FramingInv
  OBVIOUS
<1>1. stream \in Streams
  BY DEF Init
<1>2. 0 \in Boundaries /\ Len(Bytes) \in Nat
  BY <1>1, BoundaryFacts
<1>3. Len(<<>>) = 0 /\ <<>> \in Seq(Byte)
  BY EmptySeq
<1>4. /\ received = 0 /\ read_buffer = <<>> /\ read_bufferp = 0 /\ counter = 0
      /\ pc = "recv" /\ handled = {} /\ again = FALSE /\ cbench \in BOOLEAN
  BY DEF Init
<1>5. Start = 0
  <2>1. received = 0 /\ Len(read_buffer) = 0
    BY <1>3, <1>4
  <2> QED
    BY <2>1 DEF Start
<1>6. TypeOK
  <2>1. received \in 0 .. Len(Bytes) /\ Len(read_buffer) = 0 /\ read_buffer \in Seq(Byte)
    BY <1>2, <1>3, <1>4
  <2>2. /\ Len(read_buffer) <= received /\ counter = Len(read_buffer) - read_bufferp
        /\ read_bufferp \in Nat
    BY <1>4, <2>1
  <2>3. handled \subseteq 0 .. Len(Bytes) - 1 /\ again \in BOOLEAN
    BY <1>4
  <2>4. pc \in {"recv", "walk"} /\ cbench \in BOOLEAN
    BY <1>4
  <2> QED
    BY <1>1, <2>1, <2>2, <2>3, <2>4 DEF TypeOK
<1>7. Segment /\ WalkInv /\ StaysOnMessages /\ LeftInv /\ NothingMadeUp /\ HandledOnce
  BY <1>2, <1>3, <1>4, <1>5 DEF Segment, WalkInv, StaysOnMessages, LeftInv, NothingMadeUp, HandledOnce
<1>8. \A n \in Boundaries : ~Whole(n)
  BY <1>1, <1>4, BoundaryFacts DEF Whole
<1> QED
  BY <1>2, <1>4, <1>5, <1>6, <1>7, <1>8 DEF FramingInv, WalkedInv, FirstInv, Due

(* What check_openflow and send_information read at the start of a message. *)
LEMMA ReadAt ==
  ASSUME TypeOK, Segment, NEW p \in Nat, p < Len(read_buffer), Start + p \in Boundaries
  PROVE  \E m : /\ MessageAt(m, Start + p)
                /\ length(Bytes, Start + p) = Len(m) /\ Len(m) \in Nat /\ Len(m) >= 8
                /\ version(read_buffer, p) = version(Bytes, Start + p)
                /\ Start + p + 2 <= received => type(read_buffer, p) = type(Bytes, Start + p)
                /\ Start + p + 4 <= received => length(read_buffer, p) = Len(m)
                /\ \/ length(read_buffer, p) = Len(m)
                   \/ length(read_buffer, p) = 0
                   \/ length(read_buffer, p) >= Len(read_buffer) - p
<1> DEFINE b == Start + p
           L == Len(read_buffer)
<1>1. /\ received \in Nat /\ L \in Nat /\ L <= received /\ received <= Len(Bytes) /\ Len(Bytes) \in Nat
      /\ Bytes \in Seq(Byte) /\ read_buffer \in Seq(Byte) /\ DOMAIN Bytes = 1 .. Len(Bytes)
      /\ DOMAIN read_buffer = 1 .. L
  BY BoundaryFacts, LenProperties DEF TypeOK
<1>2. b = received - L + p /\ b \in Nat /\ b < received
  BY <1>1 DEF Start
<1>3. PICK m : MessageAt(m, b)
  BY <1>1, <1>2, BoundaryFacts DEF TypeOK
<1>4. /\ m \in Seq(Byte) /\ Len(m) \in Nat /\ Len(m) >= 8 /\ length(m, 0) = Len(m)
      /\ \A j \in 1 .. Len(m) : Bytes[b + j] = m[j] /\ m[j] \in Byte
      /\ b + Len(m) <= Len(Bytes)
  <2>1. m \in Messages
    BY <1>3 DEF MessageAt
  <2> QED
    BY <1>3, <2>1, FramingAssumption, LenProperties, ElementOfSeq DEF MessageAt
<1> HIDE DEF b
<1>5. 1 \in 1 .. Len(m) /\ 2 \in 1 .. Len(m) /\ 3 \in 1 .. Len(m) /\ 4 \in 1 .. Len(m)
      /\ DOMAIN m = 1 .. Len(m)
  BY <1>4, LenProperties
<1>6. 256 * m[3] + m[4] = Len(m) /\ m[3] \in Byte /\ m[4] \in Byte
  BY <1>4, <1>5 DEF length, At
<1>7. ASSUME NEW j \in 1 .. 4
      PROVE  At(read_buffer, p + (j - 1)) = IF p + j <= L THEN m[j] ELSE 0
  <2>1. p + (j - 1) + 1 = p + j /\ (p + j \in DOMAIN read_buffer <=> p + j <= L)
    BY <1>1
  <2>2. p + j <= L => read_buffer[p + j] = m[j]
    <3>1. ASSUME p + j <= L PROVE read_buffer[p + j] = Bytes[b + j]
      <4>1. PICK i \in 1 .. L : i = p + j
        BY <1>1, <3>1
      <4>2. read_buffer[i] = Bytes[Start + i]
        BY <4>1 DEF Segment
      <4>3. Start + i = b + j
        BY <1>1, <4>1 DEF b, Start
      <4> QED
        BY <4>1, <4>2, <4>3
    <3>2. j \in 1 .. Len(m)
      BY <1>4
    <3> QED
      BY <1>4, <3>1, <3>2
  <2> QED
    BY <2>1, <2>2 DEF At
<1>8. ASSUME NEW j \in 1 .. 4 PROVE At(Bytes, b + (j - 1)) = m[j]
  <2>1. b + (j - 1) + 1 = b + j /\ b + j \in 1 .. Len(Bytes) /\ j \in 1 .. Len(m)
    BY <1>1, <1>2, <1>4
  <2> QED
    BY <1>1, <1>4, <2>1 DEF At
<1>9. /\ At(read_buffer, p) = m[1]
      /\ At(read_buffer, p + 1) = IF p + 2 <= L THEN m[2] ELSE 0
      /\ At(read_buffer, p + 2) = IF p + 3 <= L THEN m[3] ELSE 0
      /\ At(read_buffer, p + 3) = IF p + 4 <= L THEN m[4] ELSE 0
  <2>1. /\ p + (1 - 1) = p /\ p + (2 - 1) = p + 1 /\ p + (3 - 1) = p + 2
        /\ p + (4 - 1) = p + 3 /\ p + 1 <= L
    BY <1>1
  <2>2. 1 \in 1 .. 4 /\ 2 \in 1 .. 4 /\ 3 \in 1 .. 4 /\ 4 \in 1 .. 4
    OBVIOUS
  <2>3. /\ At(read_buffer, p + (1 - 1)) = IF p + 1 <= L THEN m[1] ELSE 0
        /\ At(read_buffer, p + (2 - 1)) = IF p + 2 <= L THEN m[2] ELSE 0
        /\ At(read_buffer, p + (3 - 1)) = IF p + 3 <= L THEN m[3] ELSE 0
        /\ At(read_buffer, p + (4 - 1)) = IF p + 4 <= L THEN m[4] ELSE 0
    BY <1>7, <2>2
  <2> QED
    BY <2>1, <2>3
<1>10. /\ At(Bytes, b) = m[1] /\ At(Bytes, b + 1) = m[2]
       /\ At(Bytes, b + 2) = m[3] /\ At(Bytes, b + 3) = m[4]
  <2>1. /\ b + (1 - 1) = b /\ b + (2 - 1) = b + 1
        /\ b + (3 - 1) = b + 2 /\ b + (4 - 1) = b + 3
        /\ 1 \in 1 .. 4 /\ 2 \in 1 .. 4 /\ 3 \in 1 .. 4 /\ 4 \in 1 .. 4
    BY <1>2
  <2>2. /\ At(Bytes, b + (1 - 1)) = m[1] /\ At(Bytes, b + (2 - 1)) = m[2]
        /\ At(Bytes, b + (3 - 1)) = m[3] /\ At(Bytes, b + (4 - 1)) = m[4]
    BY <1>8, <2>1
  <2> QED
    BY <2>1, <2>2
<1>11. version(read_buffer, p) = version(Bytes, b)
  BY <1>9, <1>10 DEF version
<1>12. /\ p + 2 <= L => type(read_buffer, p) = type(Bytes, b)
       /\ p + 4 <= L => length(read_buffer, p) = Len(m)
       /\ length(Bytes, b) = Len(m)
  <2>1. p + 4 <= L => p + 3 <= L
    BY <1>1
  <2> QED
    BY <1>6, <1>9, <1>10, <2>1 DEF type, length
<1>13. (b + 2 <= received => p + 2 <= L) /\ (b + 4 <= received => p + 4 <= L)
  BY <1>1, <1>2
<1>14. \/ length(read_buffer, p) = Len(m)
       \/ length(read_buffer, p) = 0
       \/ length(read_buffer, p) >= L - p
  <2>1. CASE p + 4 <= L
    BY <1>12, <2>1
  <2>2. CASE ~(p + 4 <= L)
    <3>1. /\ At(read_buffer, p + 3) = 0
          /\ (At(read_buffer, p + 2) = m[3] \/ At(read_buffer, p + 2) = 0)
      BY <1>9, <2>2
    <3>2. PICK x \in 0 .. 255 : x = At(read_buffer, p + 2)
      <4>1. m[3] \in 0 .. 255
        BY <1>6 DEF Byte
      <4>2. 0 \in 0 .. 255
        OBVIOUS
      <4> QED
        BY <3>1, <4>1, <4>2
    <3>3. length(read_buffer, p) = 256 * x + 0
      BY <3>1, <3>2 DEF length
    <3>4. PICK n \in Nat : n = length(read_buffer, p) /\ (n = 0 \/ n >= 256)
      <4>1. 256 * x + 0 \in Nat /\ (256 * x + 0 = 0 \/ 256 * x + 0 >= 256)
        OBVIOUS
      <4> QED
        BY <3>3, <4>1
    <3>5. L - p <= 3 /\ L - p \in Int
      BY <1>1, <2>2
    <3>6. n = 0 \/ n >= L - p
      BY <3>4, <3>5
    <3> QED
      BY <3>4, <3>6
  <2> QED
    BY <2>1, <2>2
<1> QED
  BY <1>3, <1>4, <1>11, <1>12, <1>13, <1>14 DEF b

----------------------------------------------------------------------------
(* Every step keeps it. *)

(* How the offsets in the stream and in the buffer are related. *)
LEMMA Offsets ==
  ASSUME TypeOK
  PROVE  /\ received \in Nat /\ Len(read_buffer) \in Nat /\ Len(read_buffer) <= received
         /\ Len(Bytes) \in Nat /\ received <= Len(Bytes) /\ Bytes \in Seq(Byte)
         /\ Start \in Nat /\ Start + Len(read_buffer) = received
         /\ Boundaries \subseteq Nat
<1>1. /\ received \in Nat /\ Len(read_buffer) \in Nat /\ Len(read_buffer) <= received
      /\ Len(Bytes) \in Nat /\ received <= Len(Bytes) /\ Bytes \in Seq(Byte)
      /\ Boundaries \subseteq 0 .. Len(Bytes)
  BY BoundaryFacts, LenProperties DEF TypeOK
<1> QED
  BY <1>1 DEF Start

(* A length field is a natural number, at whatever offset it is read. *)
LEMMA LengthIsNat ==
  ASSUME NEW r \in Seq(Byte), NEW p \in Nat
  PROVE  length(r, p) \in Nat
<1>1. ASSUME NEW q \in Nat PROVE At(r, q) \in 0 .. 255
  <2>1. q + 1 \in DOMAIN r => r[q + 1] \in 0 .. 255
    <3>1. DOMAIN r = 1 .. Len(r)
      BY LenProperties
    <3> QED
      BY <3>1, ElementOfSeq DEF Byte
  <2> QED
    BY <2>1 DEF At
<1>2. p + 2 \in Nat /\ p + 3 \in Nat
  OBVIOUS
<1>3. PICK x \in 0 .. 255, y \in 0 .. 255 : x = At(r, p + 2) /\ y = At(r, p + 3)
  BY <1>1, <1>2
<1>4. 256 * x + y \in Nat
  OBVIOUS
<1> QED
  BY <1>3, <1>4 DEF length

(* What is read off the stream and the place of the buffer in it stays when  *)
(* they do.                                                                  *)
LEMMA SameStream ==
  ASSUME stream' = stream, cbench' = cbench
  PROVE  /\ Bytes' = Bytes /\ Boundaries' = Boundaries /\ Streams' = Streams
         /\ \A n : Wanted(n)' <=> Wanted(n)
<1>1. Bytes' = Bytes /\ Boundaries' = Boundaries /\ Streams' = Streams
  BY DEF Bytes, Boundaries, Streams
<1> QED
  BY <1>1 DEF Wanted

LEMMA SameBuffer ==
  ASSUME stream' = stream, received' = received, read_buffer' = read_buffer, cbench' = cbench
  PROVE  /\ Start' = Start
         /\ \A n : Due(n)' <=> Due(n)
<1>1. Bytes' = Bytes /\ Boundaries' = Boundaries
  BY DEF Bytes, Boundaries
<1>2. Start' = Start
  BY DEF Start
<1>3. \A n : (Whole(n)' <=> Whole(n)) /\ (AlienBefore(n)' <=> AlienBefore(n))
  BY <1>1, <1>2 DEF Whole, AlienBefore
<1>4. \A n : Wanted(n)' <=> Wanted(n)
  BY SameStream
<1> QED
  BY <1>2, <1>3, <1>4 DEF Due

(* A recv begins where the last one ended, and nothing of it is handled yet  *)
(* (read_from_switch).                                                       *)
LEMMA ReadKeepsFraming ==
  ASSUME FramingInv, ReadFromSwitch
  PROVE  FramingInv'
<1>0. TypeOK
  BY DEF FramingInv
<1> DEFINE L == Len(read_buffer)
<1>1. /\ received \in Nat /\ L \in Nat /\ L <= received /\ Start \in Nat /\ Start + L = received
      /\ Len(Bytes) \in Nat /\ received <= Len(Bytes) /\ Bytes \in Seq(Byte) /\ Boundaries \subseteq Nat
  BY <1>0, Offsets
<1>2. PICK n \in 1 .. Len(Bytes) - received :
        /\ read_buffer' = SubSeq(Bytes, received + 1, received + n)
        /\ received' = received + n /\ counter' = n
  BY DEF ReadFromSwitch
<1>3. /\ pc' = "walk" /\ read_bufferp' = 0 /\ handled' = {} /\ again' = FALSE
      /\ stream' = stream /\ cbench' = cbench
  BY DEF ReadFromSwitch
<1>4. Bytes' = Bytes /\ Boundaries' = Boundaries /\ Streams' = Streams
  BY <1>3, SameStream
<1>5. /\ read_buffer' \in Seq(Byte) /\ Len(read_buffer') = n
      /\ \A i \in 1 .. n : read_buffer'[i] = Bytes[received + i]
  <2>1. PICK a \in Int, z \in Int : a = received + 1 /\ z = received + n
    BY <1>1
  <2>2. \A i \in a .. z : Bytes[i] \in Byte
    <3>1. \A i \in 1 .. Len(Bytes) : Bytes[i] \in Byte
      BY <1>1, ElementOfSeq
    <3> QED
      BY <1>1, <2>1, <3>1
  <2> DEFINE r == SubSeq(Bytes, a, z)
  <2>3. /\ r \in Seq(Byte)
        /\ Len(r) = IF a <= z THEN z - a + 1 ELSE 0
        /\ \A i \in 1 .. z - a + 1 : r[i] = Bytes[a + i - 1]
    BY <2>2, SubSeqProperties
  <2> HIDE DEF r
  <2>4. a <= z /\ z - a + 1 = n /\ \A i \in 1 .. n : a + i - 1 = received + i
    BY <1>1, <2>1
  <2>5. r \in Seq(Byte) /\ Len(r) = n /\ \A i \in 1 .. n : r[i] = Bytes[received + i]
    BY <2>3, <2>4
  <2>6. read_buffer' = r
    BY <1>2, <2>1 DEF r
  <2> QED
    BY <2>5, <2>6
<1>6. Start' = received /\ received + 0 = received
  BY <1>1, <1>2, <1>5 DEF Start
<1>7. TypeOK'
  <2>1. stream' \in Streams' /\ received' \in 0 .. Len(Bytes') /\ cbench' \in BOOLEAN
    BY <1>0, <1>1, <1>2, <1>3, <1>4 DEF TypeOK
  <2>2. /\ Len(read_buffer') <= received' /\ read_bufferp' \in Nat
        /\ counter' = Len(read_buffer') - read_bufferp'
    BY <1>1, <1>2, <1>3, <1>5
  <2>3. handled' \subseteq 0 .. Len(Bytes') - 1 /\ again' \in BOOLEAN
    BY <1>3
  <2> QED
    BY <1>3, <1>5, <2>1, <2>2, <2>3 DEF TypeOK
<1>8. Segment' /\ WalkInv'
  BY <1>3, <1>4, <1>5, <1>6 DEF Segment, WalkInv
<1>9. StaysOnMessages' /\ LeftInv' /\ NothingMadeUp' /\ HandledOnce' /\ FirstInv'
  BY <1>3, <1>6 DEF StaysOnMessages, LeftInv, NothingMadeUp, HandledOnce, FirstInv
<1>10. WalkedInv'
  <2>1. \A k \in Boundaries : Due(k)' => ~(k < received + 0)
    BY <1>1, <1>6 DEF Due
  <2> QED
    BY <1>3, <1>4, <1>6, <2>1 DEF WalkedInv
<1> QED
  BY <1>7, <1>8, <1>9, <1>10 DEF FramingInv

(* What a handler at offset p does to the history, if the recv began at a    *)
(* message: it begins at a message, is one to handle if two bytes of it came, *)
(* and was handled before only if its header is cut.                         *)
LEMMA HandleIsRight ==
  ASSUME FramingInv, Handle, pc = "walk", Start \in Boundaries,
         NEW b, b = Start + read_bufferp, b \in Boundaries, read_bufferp < Len(read_buffer),
         version(read_buffer, read_bufferp) = OFP_VERSION
           \/ (~cbench /\ type(read_buffer, read_bufferp) = OFPT_HELLO)
  PROVE  /\ handled' \subseteq Boundaries
         /\ \A n \in handled' : n + 2 <= received => Wanted(n)
         /\ again' => \E n \in handled' : received < n + 4
         /\ b \in handled' \/ ~(b + 2 <= received /\ Wanted(b))
         /\ handled' = handled \/ handled' = handled \cup {b}
<1> DEFINE p == read_bufferp
<1>1. TypeOK /\ Segment /\ LeftInv /\ NothingMadeUp /\ HandledOnce
  BY DEF FramingInv
<1>2. p \in Nat /\ Boundaries \subseteq Nat /\ received \in Nat
  BY <1>1, Offsets DEF TypeOK
<1>3. PICK m : /\ version(read_buffer, p) = version(Bytes, b)
               /\ b + 2 <= received => type(read_buffer, p) = type(Bytes, b)
  BY <1>1, <1>2, ReadAt
<1>4. b \in Nat
  BY <1>2
<1>5. CASE type(read_buffer, p) \in Handlers
  <2>1. handled' = handled \cup {b} /\ again' = (again \/ b \in handled)
    BY <1>5 DEF Handle
  <2>2. b + 2 <= received => Wanted(b)
    BY <1>3, <1>5 DEF Wanted
  <2>3. b \in handled => received < b + 4
    <3>1. ~(b < b)
      BY <1>4
    <3> QED
      BY <1>1, <3>1 DEF LeftInv
  <2>4. again' => \E n \in handled' : received < n + 4
    BY <1>1, <2>1, <2>3 DEF HandledOnce
  <2> QED
    BY <1>1, <2>1, <2>2, <2>4 DEF NothingMadeUp
<1>6. CASE type(read_buffer, p) \notin Handlers
  <2>1. handled' = handled /\ again' = again
    BY <1>6 DEF Handle
  <2>2. ~(b + 2 <= received /\ Wanted(b))
    BY <1>3, <1>6 DEF Wanted
  <2> QED
    BY <1>1, <2>1, <2>2 DEF NothingMadeUp, HandledOnce
<1> QED
  BY <1>5, <1>6

(* Handling adds at most the offset of the walk. *)
LEMMA HandleTyped ==
  ASSUME TypeOK, Handle, read_bufferp < Len(read_buffer)
  PROVE  handled' \subseteq 0 .. Len(Bytes) - 1 /\ again' \in BOOLEAN
<1>1. Start + read_bufferp \in 0 .. Len(Bytes) - 1
  BY Offsets DEF TypeOK
<1> QED
  BY <1>1 DEF Handle, TypeOK

(* A round of the walk goes from a message to the next one; if the message  *)
(* is cut, it stays, or goes past the end of the buffer (_con.cpp:197-215). *)
LEMMA WalkKeepsFraming ==
  ASSUME FramingInv, Walk
  PROVE  FramingInv'
<1>0. TypeOK /\ Segment /\ WalkInv /\ StaysOnMessages /\ WalkedInv /\ LeftInv
  BY DEF FramingInv
<1> DEFINE L == Len(read_buffer)
           p == read_bufferp
           b == Start + p
           size == length(read_buffer, p)
<1>1. /\ received \in Nat /\ L \in Nat /\ L <= received /\ Start \in Nat /\ Start + L = received
      /\ Len(Bytes) \in Nat /\ received <= Len(Bytes) /\ Boundaries \subseteq Nat
  BY <1>0, Offsets
<1>2. /\ pc = "walk" /\ pc' = "walk" /\ cbench /\ counter > 0 /\ CheckOpenflow /\ Handle
      /\ p' = p + size /\ counter' = counter - size
      /\ stream' = stream /\ received' = received /\ cbench' = cbench /\ read_buffer' = read_buffer
  BY DEF Walk
<1>3. /\ p \in Nat /\ counter = L - p /\ p < L /\ read_buffer \in Seq(Byte) /\ size \in Nat
      /\ b \in Nat /\ b < received
  <2>1. p \in Nat /\ counter = L - p /\ read_buffer \in Seq(Byte)
    BY <1>0 DEF TypeOK
  <2>2. p < L
    BY <1>1, <1>2, <2>1
  <2>3. size \in Nat
    BY <2>1, LengthIsNat
  <2> HIDE DEF size
  <2> QED
    BY <1>1, <2>1, <2>2, <2>3
<1>4. /\ Bytes' = Bytes /\ Boundaries' = Boundaries /\ Streams' = Streams /\ Start' = Start
      /\ (\A k : Wanted(k)' <=> Wanted(k)) /\ (\A k : Due(k)' <=> Due(k))
  BY <1>2, SameStream, SameBuffer
<1>5. Start + p' = b + size
  <2> HIDE DEF size
  <2> QED
    BY <1>1, <1>2, <1>3
<1>6. Start \in Boundaries => b \in Boundaries
  BY <1>0, <1>2 DEF StaysOnMessages
<1>7. handled' \subseteq 0 .. Len(Bytes) - 1 /\ again' \in BOOLEAN
  BY <1>0, <1>2, <1>3, HandleTyped
<1> HIDE DEF size, b, p
<1>8. ASSUME Start \in Boundaries
      PROVE  /\ handled' \subseteq Boundaries
             /\ \A n \in handled' : n + 2 <= received => Wanted(n)
             /\ again' => \E n \in handled' : received < n + 4
             /\ b \in handled' \/ ~(b + 2 <= received /\ Wanted(b))
             /\ handled' = handled \/ handled' = handled \cup {b}
  BY <1>2, <1>3, <1>6, <1>8, HandleIsRight DEF CheckOpenflow, b, p
<1>9. ASSUME Start \in Boundaries
      PROVE  \E m : /\ MessageAt(m, b) /\ length(Bytes, b) = Len(m) /\ Len(m) \in Nat /\ Len(m) >= 8
                    /\ b + 4 <= received => size = Len(m)
                    /\ size = Len(m) \/ size = 0 \/ size >= L - p
  BY <1>0, <1>3, <1>6, <1>9, ReadAt DEF b, size, p
<1>10. TypeOK'
  <2>1. /\ stream' \in Streams' /\ received' \in 0 .. Len(Bytes') /\ cbench' \in BOOLEAN
        /\ pc' \in {"recv", "walk"}
    BY <1>0, <1>2, <1>4 DEF TypeOK
  <2>2. read_buffer' \in Seq(Byte) /\ Len(read_buffer') <= received'
    BY <1>1, <1>2, <1>3
  <2>3. read_bufferp' \in Nat /\ counter' = Len(read_buffer') - read_bufferp'
    <3>1. p' \in Nat /\ counter' = L - p'
      BY <1>1, <1>2, <1>3
    <3> QED
      BY <1>2, <3>1 DEF p
  <2> QED
    BY <1>4, <1>7, <2>1, <2>2, <2>3 DEF TypeOK
<1>11. Segment' /\ WalkInv'
  BY <1>0, <1>2, <1>4 DEF Segment, WalkInv
<1>12. StaysOnMessages'
  <2> SUFFICES ASSUME counter' > 0, Start \in Boundaries PROVE Start + p' \in Boundaries
    BY <1>4 DEF StaysOnMessages, p
  <2>1. b \in Boundaries
    BY <1>6
  <2>2. PICK m : MessageAt(m, b) /\ (size = Len(m) \/ size = 0 \/ size >= L - p)
    BY <1>9
  <2>3. ~(size >= L - p)
    BY <1>1, <1>2, <1>3
  <2>4. CASE size = Len(m)
    BY <1>5, <2>2, <2>4 DEF MessageAt
  <2>5. CASE size = 0
    BY <1>3, <1>5, <2>1, <2>5
  <2> QED
    BY <2>2, <2>3, <2>4, <2>5
<1>13. WalkedInv'
  <2> SUFFICES ASSUME Start \in Boundaries, NEW k \in Boundaries, Due(k), k < b + size
               PROVE  k \in handled'
    BY <1>2, <1>4, <1>5 DEF WalkedInv, p
  <2>1. PICK m : /\ MessageAt(m, b) /\ length(Bytes, b) = Len(m) /\ Len(m) \in Nat /\ Len(m) >= 8
                 /\ b + 4 <= received => size = Len(m)
    BY <1>9
  <2>2. k \in Nat /\ k < received
    BY <1>1 DEF Due, Whole
  <2>3. k <= b
    <3>1. k <= b \/ k >= b + Len(m)
      BY <2>1 DEF MessageAt
    <3>2. k >= b + Len(m) => b + 4 <= received
      BY <1>1, <1>3, <2>1, <2>2
    <3> QED
      BY <1>3, <2>1, <2>2, <3>1, <3>2
  <2>4. CASE k = b
    <3>1. b + Len(m) <= received /\ Wanted(b)
      BY <2>1, <2>4 DEF Due, Whole
    <3>2. b + 2 <= received
      BY <1>1, <1>3, <2>1, <3>1
    <3> QED
      BY <1>8, <2>4, <3>1, <3>2
  <2>5. CASE k # b
    <3>1. k < b
      BY <1>3, <2>2, <2>3, <2>5
    <3>2. k \in handled
      BY <1>0, <1>2, <3>1 DEF WalkedInv, b, p
    <3> QED
      BY <1>8, <3>2
  <2> QED
    BY <2>4, <2>5
<1>14. LeftInv'
  <2> SUFFICES ASSUME Start \in Boundaries, NEW n \in handled'
               PROVE  n < b + size \/ received < n + 4
    BY <1>2, <1>4, <1>5 DEF LeftInv, p
  <2>1. n \in Nat
    BY <1>1, <1>8
  <2>2. CASE n \in handled
    <3>1. n < b \/ received < n + 4
      BY <1>0, <1>2, <2>2 DEF LeftInv, b, p
    <3> QED
      BY <1>3, <2>1, <3>1
  <2>3. CASE n = b
    <3>1. b + 4 <= received => size >= 8
      BY <1>9
    <3> QED
      BY <1>1, <1>3, <2>3, <3>1
  <2> QED
    BY <1>8, <2>2, <2>3
<1>15. FirstInv'
  BY <1>2 DEF FirstInv
<1>16. NothingMadeUp' /\ HandledOnce'
  BY <1>2, <1>4, <1>8 DEF NothingMadeUp, HandledOnce
<1> QED
  BY <1>10, <1>11, <1>12, <1>13, <1>14, <1>15, <1>16 DEF FramingInv

(* A step that only ends the walk, whatever it handles. *)
LEMMA ReturnKeeps ==
  ASSUME TypeOK, Segment, Return, stream' = stream,
         handled' \subseteq 0 .. Len(Bytes) - 1, again' \in BOOLEAN
  PROVE  /\ TypeOK' /\ Segment' /\ WalkInv' /\ StaysOnMessages' /\ LeftInv'
         /\ Boundaries' = Boundaries /\ Start' = Start
         /\ (\A k : Wanted(k)' <=> Wanted(k)) /\ (\A k : Due(k)' <=> Due(k))
<1>1. /\ pc' = "recv" /\ received' = received /\ cbench' = cbench /\ read_buffer' = read_buffer
      /\ read_bufferp' = read_bufferp /\ counter' = counter
  BY DEF Return
<1>2. /\ Bytes' = Bytes /\ Boundaries' = Boundaries /\ Streams' = Streams /\ Start' = Start
      /\ (\A k : Wanted(k)' <=> Wanted(k)) /\ (\A k : Due(k)' <=> Due(k))
  BY <1>1, SameStream, SameBuffer
<1>3. TypeOK'
  BY <1>1, <1>2 DEF TypeOK
<1>4. Segment'
  BY <1>1, <1>2 DEF Segment
<1>5. WalkInv' /\ StaysOnMessages' /\ LeftInv'
  BY <1>1 DEF WalkInv, StaysOnMessages, LeftInv
<1> QED
  BY <1>2, <1>3, <1>4, <1>5

(* A walk that ends has covered the buffer, or met a message of another *)
(* version, which comes before all it leaves out (_con.cpp:198).        *)
LEMMA WalkEndKeepsFraming ==
  ASSUME FramingInv, WalkEnd
  PROVE  FramingInv'
<1>0. TypeOK /\ Segment /\ WalkInv /\ StaysOnMessages /\ WalkedInv /\ NothingMadeUp /\ HandledOnce
  BY DEF FramingInv
<1> DEFINE L == Len(read_buffer)
           p == read_bufferp
           b == Start + p
<1>1. /\ received \in Nat /\ L \in Nat /\ Start \in Nat /\ Start + L = received
      /\ Boundaries \subseteq Nat /\ p \in Nat /\ counter = L - p
  BY <1>0, Offsets DEF TypeOK
<1>2. /\ pc = "walk" /\ pc' = "recv" /\ cbench /\ ~(counter > 0 /\ CheckOpenflow) /\ Return
      /\ received' = received /\ cbench' = cbench /\ handled' = handled /\ again' = again
      /\ stream' = stream
  BY DEF WalkEnd, Return
<1>3. handled' \subseteq 0 .. Len(Bytes) - 1 /\ again' \in BOOLEAN
  BY <1>0, <1>2 DEF TypeOK
<1>4. /\ TypeOK' /\ Segment' /\ WalkInv' /\ StaysOnMessages' /\ LeftInv'
      /\ Boundaries' = Boundaries /\ Start' = Start
      /\ (\A k : Wanted(k)' <=> Wanted(k)) /\ (\A k : Due(k)' <=> Due(k))
  BY <1>0, <1>2, <1>3, ReturnKeeps
<1>5. WalkedInv'
  <2> SUFFICES ASSUME Start \in Boundaries, NEW k \in Boundaries, Due(k)
               PROVE  k \in handled
    BY <1>2, <1>4 DEF WalkedInv
  <2>1. k \in Nat /\ b \in Nat /\ k < received /\ Wanted(k) /\ ~AlienBefore(k)
    BY <1>1, <1>2 DEF Due, Whole
  <2>2. CASE k < b
    BY <1>0, <1>2, <2>2 DEF WalkedInv
  <2>3. CASE ~(k < b)
    <3>1. p < L /\ counter > 0 /\ b <= k
      BY <1>1, <2>1, <2>3
    <3>2. b \in Boundaries /\ Start <= b
      BY <1>0, <1>1, <1>2, <3>1 DEF StaysOnMessages
    <3>3. version(Bytes, b) # OFP_VERSION
      <4>1. version(read_buffer, p) # OFP_VERSION
        BY <1>2, <3>1 DEF CheckOpenflow
      <4> QED
        BY <1>0, <1>1, <3>1, <3>2, <4>1, ReadAt
    <3>4. b < k
      BY <1>2, <2>1, <3>1, <3>3 DEF Wanted
    <3>5. AlienBefore(k)
      BY <3>2, <3>3, <3>4 DEF AlienBefore
    <3> QED
      BY <2>1, <3>5
  <2> QED
    BY <2>2, <2>3
<1>6. FirstInv' /\ NothingMadeUp' /\ HandledOnce'
  BY <1>0, <1>2, <1>4 DEF FirstInv, NothingMadeUp, HandledOnce
<1> QED
  BY <1>4, <1>5, <1>6 DEF FramingInv

(* Without -c the message that the recv began with is handled, if it is one *)
(* to handle (_con.cpp:217-238).                                            *)
LEMMA HandleFirstKeepsFraming ==
  ASSUME FramingInv, HandleFirst
  PROVE  FramingInv'
<1>0. TypeOK /\ Segment /\ WalkInv /\ NothingMadeUp /\ HandledOnce
  BY DEF FramingInv
<1>1. /\ received \in Nat /\ Len(read_buffer) \in Nat /\ Start \in Nat
      /\ Start + Len(read_buffer) = received
      /\ Boundaries \subseteq Nat /\ Len(Bytes) \in Nat /\ received <= Len(Bytes)
  BY <1>0, Offsets
<1>2. /\ pc = "walk" /\ pc' = "recv" /\ ~cbench /\ Return /\ stream' = stream
      /\ cbench' = cbench /\ received' = received
  BY DEF HandleFirst, Return
<1>3. read_bufferp = 0 /\ 0 < Len(read_buffer) /\ Start + 0 = Start /\ Start < received
  BY <1>0, <1>1, <1>2 DEF WalkInv
<1> DEFINE looks == CheckOpenflow \/ type(read_buffer, 0) = OFPT_HELLO
<1>4. IF looks THEN Handle ELSE handled' = handled /\ again' = again
  BY <1>3 DEF HandleFirst
<1>5. handled' \subseteq 0 .. Len(Bytes) - 1 /\ again' \in BOOLEAN
  <2>1. CASE looks
    BY <1>0, <1>3, <1>4, <2>1, HandleTyped
  <2>2. CASE ~looks
    BY <1>0, <1>4, <2>2 DEF TypeOK
  <2> QED
    BY <2>1, <2>2
<1>6. /\ TypeOK' /\ Segment' /\ WalkInv' /\ StaysOnMessages' /\ LeftInv'
      /\ Boundaries' = Boundaries /\ Start' = Start
      /\ (\A k : Wanted(k)' <=> Wanted(k)) /\ (\A k : Due(k)' <=> Due(k))
  BY <1>0, <1>2, <1>5, ReturnKeeps
<1>7. ASSUME Start \in Boundaries
      PROVE  /\ handled' \subseteq Boundaries
             /\ \A n \in handled' : n + 2 <= received => Wanted(n)
             /\ again' => \E n \in handled' : received < n + 4
             /\ Start \in handled' \/ ~(Start + 2 <= received /\ Wanted(Start))
  <2>1. CASE looks
    <3>1. Handle
      BY <1>4, <2>1
    <3>2. version(read_buffer, read_bufferp) = OFP_VERSION
            \/ (~cbench /\ type(read_buffer, read_bufferp) = OFPT_HELLO)
      BY <1>2, <1>3, <2>1 DEF CheckOpenflow
    <3>3. Start = Start + read_bufferp /\ read_bufferp < Len(read_buffer)
      BY <1>3
    <3> QED
      BY <1>2, <1>7, <3>1, <3>2, <3>3, HandleIsRight
  <2>2. CASE ~looks
    <3>1. handled' = handled /\ again' = again
      BY <1>4, <2>2
    <3>2. /\ version(read_buffer, 0) = version(Bytes, Start)
          /\ Start + 2 <= received => type(read_buffer, 0) = type(Bytes, Start)
      <4>1. /\ version(read_buffer, 0) = version(Bytes, Start + 0)
            /\ Start + 0 + 2 <= received => type(read_buffer, 0) = type(Bytes, Start + 0)
        BY <1>0, <1>3, <1>7, ReadAt
      <4> QED
        BY <1>3, <4>1
    <3>3. ~(Start + 2 <= received /\ Wanted(Start))
      BY <1>3, <2>2, <3>2 DEF Wanted, CheckOpenflow
    <3> QED
      BY <1>0, <1>7, <3>1, <3>3 DEF NothingMadeUp, HandledOnce
  <2> QED
    BY <2>1, <2>2
<1>8. WalkedInv'
  BY <1>2 DEF WalkedInv
<1>9. FirstInv'
  <2> SUFFICES ASSUME Start \in Boundaries, Whole(Start), Wanted(Start) PROVE Start \in handled'
    BY <1>6 DEF FirstInv, Due
  <2>1. PICK m : length(Bytes, Start + 0) = Len(m) /\ Len(m) \in Nat /\ Len(m) >= 8
    BY <1>0, <1>3, ReadAt
  <2>2. Start + Len(m) <= received
    BY <1>3, <2>1 DEF Whole
  <2>3. Start + 2 <= received
    BY <1>1, <2>1, <2>2
  <2> QED
    BY <1>7, <2>3
<1>10. NothingMadeUp' /\ HandledOnce'
  BY <1>2, <1>6, <1>7 DEF NothingMadeUp, HandledOnce
<1> QED
  BY <1>6, <1>8, <1>9, <1>10 DEF FramingInv

(* A step of nothing keeps the invariant. *)
LEMMA StutterKeepsFraming == FramingInv /\ UNCHANGED vars => FramingInv'
<1> SUFFICES ASSUME FramingInv, UNCHANGED vars PROVE FramingInv'
  OBVIOUS
<1>1. /\ stream' = stream /\ received' = received /\ cbench' = cbench /\ read_buffer' = read_buffer
      /\ read_bufferp' = read_bufferp /\ counter' = counter /\ pc' = pc
      /\ handled' = handled /\ again' = again
  BY DEF vars
<1>2. /\ Bytes' = Bytes /\ Boundaries' = Boundaries /\ Streams' = Streams /\ Start' = Start
      /\ (\A k : Wanted(k)' <=> Wanted(k)) /\ (\A k : Due(k)' <=> Due(k))
  BY <1>1, SameStream, SameBuffer
<1>3. TypeOK' /\ Segment' /\ WalkInv' /\ StaysOnMessages'
  BY <1>1, <1>2 DEF FramingInv, TypeOK, Segment, WalkInv, StaysOnMessages
<1>4. WalkedInv' /\ FirstInv' /\ LeftInv'
  BY <1>1, <1>2 DEF FramingInv, WalkedInv, FirstInv, LeftInv
<1>5. NothingMadeUp' /\ HandledOnce'
  BY <1>1, <1>2 DEF FramingInv, NothingMadeUp, HandledOnce
<1> QED
  BY <1>3, <1>4, <1>5 DEF FramingInv

----------------------------------------------------------------------------
(* The theorems. *)

(* The invariant holds in every reachable state. *)
LEMMA FramingAlways == Spec => []FramingInv
<1>1. FramingInv /\ [Next]_vars => FramingInv'
  BY ReadKeepsFraming, WalkKeepsFraming, WalkEndKeepsFraming, HandleFirstKeepsFraming,
     StutterKeepsFraming DEF Next
<1> QED
  BY FramingInitially, <1>1, PTL DEF Spec

(* Offset and count of the walk agree, and a walk that begins at a message   *)
(* meets only beginnings of messages, whatever the messages are and wherever *)
(* a recv is cut, also when the last one is incomplete (_con.cpp:197-215).   *)
THEOREM BufferStaysOK == Spec => []BufferOK
<1>1. FramingInv => BufferOK
  BY DEF FramingInv, BufferOK
<1> QED
  BY <1>1, FramingAlways, PTL

(* Of every recv that begins at a message, wherever it ends, send_information *)
(* handles every whole message it should; what else it handles is the cut     *)
(* message at the end, once if its length field came, for any messages and    *)
(* any stream of them, with -c and without it (_con.cpp:192-241).             *)
THEOREM WholeMessagesHandled == Spec => []HandlesMessages
<1>1. ASSUME FramingInv PROVE NothingMissed
  <2> SUFFICES ASSUME pc = "recv", Start \in Boundaries, NEW n \in Boundaries, Due(n)
               PROVE  n \in handled
    BY DEF NothingMissed
  <2>1. CASE cbench
    BY <1>1, <2>1 DEF FramingInv, WalkedInv
  <2>2. CASE ~cbench
    BY <1>1, <2>2 DEF FramingInv, FirstInv, Due
  <2> QED
    BY <2>1, <2>2
<1>2. FramingInv => HandlesMessages
  BY <1>1 DEF FramingInv, HandlesMessages
<1> QED
  BY <1>2, FramingAlways, PTL
=============================================================================
