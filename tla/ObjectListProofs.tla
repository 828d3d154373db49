------------------------- MODULE ObjectListProofs -------------------------
(***************************************************************************)
(* Proofs about the object list, for every heap and every set of contents. *)
(* The list is held in a sequence s of cells: `Wired` says that next and   *)
(* prev lead through s from first to last, `ListInv` that there is such a  *)
(* sequence between any two steps, that it holds every payload and that    *)
(* the cursor is on it.  What ChainIn computes from the pointers is then s *)
(* (ChainIs), so that every call is one on the sequence of CursorList.     *)
(***************************************************************************)
EXTENDS ObjectList, SequenceTheorems, FiniteSetTheorems, WellFoundedInduction, TLAPS

(* Every pointer of the list is a cell or NULL and every payload a content *)
(* some client stored, whatever calls are made (linked.cpp).               *)
THEOREM ListTypeCorrect == Spec => []TypeOK
<1>1. Init => TypeOK
  BY CellsAssumption DEF Init, TypeOK, Ptr
<1>2. TypeOK /\ [Next]_vars => TypeOK'
  <2> SUFFICES ASSUME TypeOK, [Next]_vars PROVE TypeOK'
    OBVIOUS
  <2> USE CellsAssumption DEF TypeOK, Ptr
  <2>1. ASSUME NEW v \in Values, AddObject(v) PROVE TypeOK'
    BY <2>1 DEF AddObject, AddFirst, AddLast, loop
  <2>2. ASSUME NEW v \in Values, RemoveObject(v) PROVE TypeOK'
    BY <2>2 DEF RemoveObject, heap
  <2>3. CASE AddFaults
    BY <2>3 DEF AddFaults, Fault, heap, loop
  <2>4. CASE NodeAllocFails
    BY <2>4 DEF NodeAllocFails, heap, loop
  <2>5. CASE PayloadAllocFails
    BY <2>5 DEF PayloadAllocFails, loop
  <2>6. CASE GetObject
    BY <2>6 DEF GetObject, Following, Fault, heap, loop
  <2>7. CASE ListRewind
    BY <2>7 DEF ListRewind, heap, loop
  <2>8. CASE FreeList
    BY <2>8 DEF FreeList, heap
  <2>9. CASE FreeStep
    <3>1. CASE tmp \notin live
      BY <2>9, <3>1 DEF FreeStep, Fault, heap, loop
    <3>2. CASE tmp \in live
      <4>1. tmp \in Cells
        BY <3>2
      <4>2. /\ tmp' \in Ptr
            /\ next' \in [Cells -> Ptr] /\ prev' \in [Cells -> Ptr]
        BY <2>9, <3>2, <4>1 DEF FreeStep
      <4>3. /\ p' \in [Cells -> Values \cup {NULL}]
            /\ live' \subseteq Cells /\ stale' \in BOOLEAN
        BY <2>9, <3>2, <4>1 DEF FreeStep, Delete
      <4> QED
        BY <2>9, <3>2, <4>2, <4>3 DEF FreeStep
    <3> QED
      BY <3>1, <3>2
  <2>10. CASE FreeEnd
    BY <2>10 DEF FreeEnd, heap
  <2>11. CASE RemoveFaults
    BY <2>11 DEF RemoveFaults, Fault, heap, loop
  <2>12. CASE RemoveSkip
    BY <2>12 DEF RemoveSkip, heap
  <2>13. CASE RemoveMissing
    BY <2>13 DEF RemoveMissing, RemoveReturns, heap
  <2>14. CASE RemoveUnlinks
    <3> DEFINE n == IF tmp = last THEN NULL ELSE next[tmp]
               b == IF tmp = first THEN NULL ELSE prev[tmp]
    <3>1. tmp \in Cells /\ n \in Ptr /\ b \in Ptr
      BY <2>14 DEF RemoveUnlinks
    <3>2. CASE Fault
      BY <3>2 DEF Fault, heap, loop
    <3>3. CASE ~Fault
      <4>1. /\ first' = IF tmp = first THEN n ELSE first
            /\ last' = IF tmp = last THEN b ELSE last
            /\ next' = Relink(next, b, n)
            /\ prev' = Relink(prev, n, b)
            /\ Delete(tmp)
            /\ RemoveReturns
            /\ UNCHANGED <<current, out, fault>>
        BY <2>14, <3>3 DEF RemoveUnlinks
      <4>2. next' \in [Cells -> Ptr] /\ prev' \in [Cells -> Ptr]
        BY <3>1, <4>1 DEF Relink
      <4> HIDE DEF n, b
      <4> QED
        BY <3>1, <4>1, <4>2 DEF Delete, RemoveReturns
    <3> QED
      BY <3>2, <3>3
  <2>15. CASE UNCHANGED vars
    BY <2>15 DEF vars, heap, loop
  <2> QED
    BY <2>1, <2>2, <2>3, <2>4, <2>5, <2>6, <2>7, <2>8, <2>9, <2>10, <2>11,
       <2>12, <2>13, <2>14, <2>15 DEF Next
<1> QED
  BY <1>1, <1>2, PTL DEF Spec

----------------------------------------------------------------------------
(* Chains of cells. *)

(* A set of numbers has a least one. *)
LEMMA Least ==
  ASSUME NEW T \in SUBSET Nat, T # {}
  PROVE  \E m \in T : \A k \in T : m <= k
<1>1. PICK m \in T : \A y \in T : ~ (<<y, m>> \in OpToRel(<, Nat))
  BY NatLessThanWellFounded, WFMin
<1>2. \A k \in T : ~(k < m)
  BY <1>1 DEF OpToRel
<1> QED
  BY <1>2

(* No cell is on the list twice. *)
Distinct(s) == \A i, j \in 1 .. Len(s) : s[i] = s[j] => i = j

(* s is what one meets from start along link. *)
Leads(s, cs, start, link) ==
    /\ s \in Seq(cs) /\ Distinct(s)
    /\ IF s = <<>> THEN start \notin cs
       ELSE /\ start = s[1] /\ link[s[Len(s)]] \notin cs
            /\ \A i \in 1 .. Len(s) - 1 : link[s[i]] = s[i + 1]

(* No more cells than there are. *)
LEMMA NoLonger ==
  ASSUME NEW cs, cs \subseteq Cells, NEW s \in Seq(cs), Distinct(s)
  PROVE  Len(s) <= Cardinality(Cells)
<1>1. s \in [1 .. Len(s) -> Cells] /\ Len(s) \in Nat
  BY LenProperties
<1>2. s \in Injection(1 .. Len(s), Cells)
  BY <1>1 DEF Distinct, Injection, IsInjective
<1>3. Cardinality(1 .. Len(s)) <= Cardinality(Cells)
  BY <1>2, FS_Injection, CellsAssumption
<1>4. Cardinality(1 .. Len(s)) = Len(s)
  <2>1. Cardinality(1 .. Len(s)) = IF 1 > Len(s) THEN 0 ELSE Len(s) - 1 + 1
    BY <1>1, FS_Interval
  <2> QED
    BY <1>1, <2>1
<1> QED
  BY <1>3, <1>4

(* The first n elements of s, if there are as many. *)
Upto(s, n) == IF n <= Len(s) THEN SubSeq(s, 1, n) ELSE s

(* What Upto returns. *)
LEMMA UptoProperties ==
  ASSUME NEW S, NEW s \in Seq(S), NEW n \in Nat
  PROVE  /\ Upto(s, n) \in Seq(S)
         /\ Len(Upto(s, n)) = IF n <= Len(s) THEN n ELSE Len(s)
         /\ \A i \in 1 .. Len(Upto(s, n)) : Upto(s, n)[i] = s[i]
<1>1. CASE n <= Len(s)
  <2>1. \A i \in 1 .. n : s[i] \in S
    BY <1>1, ElementOfSeq
  <2>2. /\ SubSeq(s, 1, n) \in Seq(S)
        /\ Len(SubSeq(s, 1, n)) = IF 1 <= n THEN n - 1 + 1 ELSE 0
        /\ \A i \in 1 .. n - 1 + 1 : SubSeq(s, 1, n)[i] = s[1 + i - 1]
    BY <2>1, SubSeqProperties
  <2> QED
    BY <1>1, <2>2 DEF Upto
<1>2. CASE ~(n <= Len(s))
  BY <1>2, LenProperties DEF Upto
<1> QED
  BY <1>1, <1>2

(* Upto grows by one element at a time. *)
LEMMA UptoNext ==
  ASSUME NEW S, NEW s \in Seq(S), NEW n \in Nat \ {0}
  PROVE  Upto(s, n) = IF n <= Len(s) THEN Append(Upto(s, n - 1), s[n]) ELSE Upto(s, n - 1)
<1>0. Len(s) \in Nat
  BY LenProperties
<1>1. CASE n <= Len(s)
  <2>1. n - 1 \in Nat /\ n - 1 <= Len(s) /\ s[n] \in S
    BY <1>0, <1>1, ElementOfSeq
  <2>2. /\ Upto(s, n - 1) \in Seq(S) /\ Len(Upto(s, n - 1)) = n - 1
        /\ \A i \in 1 .. n - 1 : Upto(s, n - 1)[i] = s[i]
    BY <2>1, UptoProperties
  <2>3. /\ Upto(s, n) \in Seq(S) /\ Len(Upto(s, n)) = n
        /\ \A i \in 1 .. n : Upto(s, n)[i] = s[i]
    BY <1>1, UptoProperties
  <2> DEFINE t == Append(Upto(s, n - 1), s[n])
  <2>4. t \in Seq(S) /\ Len(t) = n /\ (\A i \in 1 .. n - 1 : t[i] = s[i]) /\ t[n] = s[n]
    BY <2>1, <2>2, AppendProperties
  <2> HIDE DEF t
  <2>5. \A i \in 1 .. n : t[i] = Upto(s, n)[i]
    BY <2>3, <2>4
  <2>6. t = Upto(s, n)
    BY <2>3, <2>4, <2>5, SeqEqual
  <2> QED
    BY <1>1, <2>6 DEF t
<1>2. CASE ~(n <= Len(s))
  <2>1. CASE n - 1 <= Len(s)
    <3>1. n - 1 = Len(s)
      BY <1>0, <1>2, <2>1
    <3>2. SubSeq(s, 1, Len(s)) = s
      BY SubSeqFull
    <3> QED
      BY <1>0, <1>2, <3>1, <3>2 DEF Upto
  <2>2. CASE ~(n - 1 <= Len(s))
    BY <1>2, <2>2 DEF Upto
  <2> QED
    BY <2>1, <2>2
<1> QED
  BY <1>1, <1>2

(* One iteration of the walk of ChainIn. *)
Walked(cs, start, link, w, n) ==
    IF n = 0 THEN <<>>
    ELSE LET s == w[n - 1]
             c == IF s = <<>> THEN start ELSE link[Last(s)]
         IN  IF c \in cs /\ Len(s) = n - 1 THEN Append(s, c) ELSE s

(* An iteration appends the next cell of s, and nothing past its end. *)
LEMMA WalkStep ==
  ASSUME NEW cs, NEW start, NEW link, NEW s, Leads(s, cs, start, link),
         NEW w, NEW n \in Nat \ {0}, w[n - 1] = Upto(s, n - 1)
  PROVE  Walked(cs, start, link, w, n) = Upto(s, n)
<1> DEFINE u == Upto(s, n - 1)
           c == IF u = <<>> THEN start ELSE link[Last(u)]
<1>1. s \in Seq(cs) /\ Len(s) \in Nat /\ n - 1 \in Nat
  BY LenProperties DEF Leads
<1>2. /\ u \in Seq(cs)
      /\ Len(u) = IF n - 1 <= Len(s) THEN n - 1 ELSE Len(s)
      /\ \A i \in 1 .. Len(u) : u[i] = s[i]
  BY <1>1, UptoProperties
<1>3. Upto(s, n) = IF n <= Len(s) THEN Append(u, s[n]) ELSE u
  BY <1>1, UptoNext
<1>4. Walked(cs, start, link, w, n) = IF c \in cs /\ Len(u) = n - 1 THEN Append(u, c) ELSE u
  BY DEF Walked
<1>5. u = <<>> <=> Len(u) = 0
  BY <1>2, EmptySeq
<1>6. ASSUME Len(s) = 0 PROVE start \notin cs
  BY <1>1, <1>6, EmptySeq DEF Leads
<1>7. ASSUME Len(s) # 0
      PROVE  /\ start = s[1] /\ link[s[Len(s)]] \notin cs
             /\ \A i \in 1 .. Len(s) - 1 : link[s[i]] = s[i + 1]
  BY <1>1, <1>7, EmptySeq DEF Leads
<1>8. CASE n <= Len(s)
  <2>1. Len(u) = n - 1 /\ s[n] \in cs
    BY <1>1, <1>2, <1>8, ElementOfSeq
  <2>2. c = s[n]
    <3>1. CASE n = 1
      BY <1>1, <1>5, <1>7, <1>8, <2>1, <3>1
    <3>2. CASE n > 1
      <4>1. u # <<>> /\ u[n - 1] = s[n - 1]
        BY <1>2, <1>5, <2>1, <3>2
      <4>2. Last(u) = s[n - 1]
        BY <2>1, <4>1 DEF Last
      <4>3. n - 1 \in 1 .. Len(s) - 1 /\ n - 1 + 1 = n
        BY <1>1, <1>8, <3>2
      <4>4. link[s[n - 1]] = s[n - 1 + 1]
        BY <1>1, <1>7, <1>8, <4>3
      <4> QED
        BY <4>1, <4>2, <4>3, <4>4
    <3> QED
      BY <3>1, <3>2
  <2> HIDE DEF u, c
  <2> QED
    BY <1>3, <1>4, <1>8, <2>1, <2>2
<1>9. CASE n - 1 = Len(s)
  <2>1. c \notin cs
    <3>1. CASE Len(s) = 0
      BY <1>2, <1>5, <1>6, <1>9, <3>1
    <3>2. CASE Len(s) # 0
      <4>1. Len(u) = Len(s) /\ u # <<>> /\ u[Len(s)] = s[Len(s)]
        BY <1>1, <1>2, <1>5, <1>9, <3>2
      <4> QED
        BY <1>7, <3>2, <4>1 DEF Last
    <3> QED
      BY <3>1, <3>2
  <2> HIDE DEF u, c
  <2> QED
    BY <1>1, <1>3, <1>4, <1>9, <2>1
<1>10. CASE n - 1 > Len(s)
  <2> HIDE DEF u, c
  <2> QED
    BY <1>1, <1>2, <1>3, <1>4, <1>10
<1> QED
  BY <1>1, <1>8, <1>9, <1>10

(* The chain ChainIn computes is the sequence the pointers lead through: *)
(* no iteration is the first that differs from it.                       *)
LEMMA ChainIs ==
  ASSUME NEW cs, cs \subseteq Cells, NEW start, NEW link, NEW s, Leads(s, cs, start, link)
  PROVE  ChainIn(cs, start, link) = s
<1> DEFINE N == Cardinality(Cells)
           W(w) == w = [n \in 0 .. N |-> Walked(cs, start, link, w, n)]
           walk == CHOOSE w : W(w)
           good == [n \in 0 .. N |-> Upto(s, n)]
<1>1. N \in Nat /\ s \in Seq(cs) /\ Len(s) \in Nat /\ Len(s) <= N
  BY FS_CardinalityType, CellsAssumption, NoLonger, LenProperties DEF Leads
<1>2. Upto(s, 0) = <<>>
  BY <1>1, SubSeqEmpty DEF Upto
<1>3. W(good)
  <2>1. ASSUME NEW n \in 0 .. N PROVE Upto(s, n) = Walked(cs, start, link, good, n)
    <3>1. CASE n = 0
      BY <1>2, <3>1 DEF Walked
    <3>2. CASE n # 0
      <4>1. good[n - 1] = Upto(s, n - 1) /\ n \in Nat \ {0}
        BY <1>1, <3>2
      <4> HIDE DEF good
      <4> QED
        BY <4>1, WalkStep
    <3> QED
      BY <3>1, <3>2
  <2> QED
    BY <2>1
<1>4. W(walk)
  <2> HIDE DEF W, good
  <2> QED
    BY <1>3 DEF walk
<1>5. \A n \in 0 .. N : walk[n] = Walked(cs, start, link, walk, n)
  <2> HIDE DEF walk
  <2> QED
    BY <1>4
<1>6. \A n \in 0 .. N : walk[n] = Upto(s, n)
  <2> HIDE DEF walk
  <2> DEFINE T == {n \in 0 .. N : walk[n] # Upto(s, n)}
  <2> SUFFICES ASSUME T # {} PROVE FALSE
    OBVIOUS
  <2>1. T \in SUBSET Nat
    OBVIOUS
  <2>2. PICK m \in T : \A k \in T : m <= k
    <3> HIDE DEF T
    <3> QED
      BY <2>1, Least
  <2>3. CASE m = 0
    BY <1>1, <1>2, <1>5, <2>2, <2>3 DEF Walked
  <2>4. CASE m # 0
    <3>1. m \in Nat \ {0} /\ m - 1 \in 0 .. N /\ m - 1 < m
      BY <1>1, <2>4
    <3>2. walk[m - 1] = Upto(s, m - 1)
      BY <2>2, <3>1
    <3>3. walk[m] = Upto(s, m)
      BY <1>5, <3>1, <3>2, WalkStep
    <3> QED
      BY <3>3
  <2> QED
    BY <2>3, <2>4
<1>7. Upto(s, N) = s
  BY <1>1, SubSeqFull DEF Upto
<1>8. ChainIn(cs, start, link) = walk[N]
  BY DEF ChainIn, Walked
<1> QED
  BY <1>1, <1>6, <1>7, <1>8

(* next and prev lead through s, from f to l and back. *)
Wired(s, cs, nx, pv, f, l) ==
    /\ s \in Seq(cs) /\ Distinct(s)
    /\ s = <<>> => f = NULL /\ l = NULL
    /\ s # <<>> => f = s[1] /\ l = s[Len(s)] /\ pv[f] = NULL /\ nx[l] = NULL
    /\ \A i \in 1 .. Len(s) - 1 : nx[s[i]] = s[i + 1] /\ pv[s[i + 1]] = s[i]

(* A wired list reads the same in both directions. *)
LEMMA WiredLeads ==
  ASSUME NEW cs, NULL \notin cs, NEW s, NEW nx, NEW pv, NEW f, NEW l, Wired(s, cs, nx, pv, f, l)
  PROVE  Leads(s, cs, f, nx) /\ Leads(Reverse(s), cs, l, pv)
<1>1. s \in Seq(cs) /\ Distinct(s) /\ Len(s) \in Nat /\ \A i \in 1 .. Len(s) : s[i] \in cs
  BY LenProperties, ElementOfSeq DEF Wired
<1>2. Leads(s, cs, f, nx)
  BY <1>1 DEF Wired, Leads
<1>3. /\ Reverse(s) \in Seq(cs) /\ Len(Reverse(s)) = Len(s)
      /\ \A i \in 1 .. Len(s) : Reverse(s)[i] = s[Len(s) - i + 1]
  <2>1. Reverse(s) \in [1 .. Len(s) -> cs]
    BY <1>1 DEF Reverse
  <2>2. Reverse(s) \in Seq(cs)
    BY <1>1, <2>1, SeqDef
  <2> QED
    BY <1>1, <2>1, <2>2, LenProperties DEF Reverse
<1>4. Distinct(Reverse(s))
  <2>1. ASSUME NEW i \in 1 .. Len(s), NEW j \in 1 .. Len(s), Reverse(s)[i] = Reverse(s)[j]
        PROVE  i = j
    <3>1. s[Len(s) - i + 1] = s[Len(s) - j + 1]
      BY <1>3, <2>1
    <3>2. Len(s) - i + 1 \in 1 .. Len(s) /\ Len(s) - j + 1 \in 1 .. Len(s)
      BY <1>1
    <3>3. Len(s) - i + 1 = Len(s) - j + 1
      BY <1>1, <3>1, <3>2 DEF Distinct
    <3> QED
      BY <1>1, <3>3
  <2> QED
    BY <1>3, <2>1 DEF Distinct
<1>5. CASE s = <<>>
  <2>1. Reverse(s) = <<>> /\ l = NULL
    BY <1>3, <1>5, EmptySeq DEF Wired
  <2> QED
    BY <1>2, <1>3, <1>4, <2>1 DEF Leads
<1>6. CASE s # <<>>
  <2>1. Len(s) > 0 /\ Reverse(s) # <<>>
    BY <1>1, <1>3, <1>6, EmptySeq
  <2>2. Reverse(s)[1] = s[Len(s)] /\ Reverse(s)[Len(s)] = s[1]
    BY <1>1, <1>3, <2>1
  <2>3. ASSUME NEW i \in 1 .. Len(s) - 1 PROVE pv[Reverse(s)[i]] = Reverse(s)[i + 1]
    <3>1. Len(s) - i \in 1 .. Len(s) - 1
      BY <1>1
    <3>2. pv[s[Len(s) - i + 1]] = s[Len(s) - i]
      BY <3>1 DEF Wired
    <3>3. Len(s) - (i + 1) + 1 = Len(s) - i /\ i \in 1 .. Len(s) /\ i + 1 \in 1 .. Len(s)
      BY <1>1
    <3> QED
      BY <1>3, <3>2, <3>3
  <2>4. l = Reverse(s)[1] /\ pv[Reverse(s)[Len(s)]] \notin cs
    BY <1>6, <2>2 DEF Wired
  <2> QED
    BY <1>2, <1>3, <1>4, <2>1, <2>3, <2>4 DEF Leads
<1> QED
  BY <1>5, <1>6

(* add_object at the end of the list. *)
LEMMA WiredAppend ==
  ASSUME NEW cs, cs \subseteq Cells, NEW s, NEW nx \in [Cells -> Ptr], NEW pv \in [Cells -> Ptr],
         NEW f, NEW l, Wired(s, cs, nx, pv, f, l),
         NEW c \in Cells, c \notin cs, NEW nxx, NEW pvv,
         nxx = IF s = <<>> THEN [nx EXCEPT ![c] = NULL] ELSE [nx EXCEPT ![c] = NULL, ![l] = c],
         pvv = [pv EXCEPT ![c] = IF s = <<>> THEN NULL ELSE l]
  PROVE  Wired(Append(s, c), cs \cup {c}, nxx, pvv, IF s = <<>> THEN c ELSE f, c)
<1> DEFINE t == Append(s, c)
<1>1. s \in Seq(cs) /\ Distinct(s) /\ Len(s) \in Nat /\ \A i \in 1 .. Len(s) : s[i] \in cs
  BY LenProperties, ElementOfSeq DEF Wired
<1>2. s \in Seq(cs \cup {c})
  BY <1>1, SeqMonotonic
<1>3. /\ t \in Seq(cs \cup {c}) /\ t # <<>> /\ Len(t) = Len(s) + 1
      /\ (\A i \in 1 .. Len(s) : t[i] = s[i]) /\ t[Len(s) + 1] = c
  <2> DEFINE S == cs \cup {c}
  <2>1. c \in S /\ s \in Seq(S)
    BY <1>2
  <2> HIDE DEF S
  <2>2. /\ t \in Seq(S) /\ t # <<>> /\ Len(t) = Len(s) + 1
        /\ \A i \in 1 .. Len(s) : t[i] = s[i]
        /\ t[Len(s) + 1] = c
    BY <2>1, AppendProperties
  <2> QED
    BY <2>2 DEF S
<1> HIDE DEF t
<1>4. Distinct(t)
  <2>1. ASSUME NEW i \in 1 .. Len(s) + 1, NEW j \in 1 .. Len(s) + 1, t[i] = t[j] PROVE i = j
    <3>1. CASE i <= Len(s) /\ j <= Len(s)
      <4>1. i \in 1 .. Len(s) /\ j \in 1 .. Len(s)
        BY <1>1, <3>1
      <4> QED
        BY <1>1, <1>3, <2>1, <4>1 DEF Distinct
    <3>2. CASE i <= Len(s) /\ j = Len(s) + 1
      <4>1. i \in 1 .. Len(s)
        BY <1>1, <3>2
      <4> QED
        BY <1>1, <1>3, <2>1, <3>2, <4>1
    <3>3. CASE j <= Len(s) /\ i = Len(s) + 1
      <4>1. j \in 1 .. Len(s)
        BY <1>1, <3>3
      <4> QED
        BY <1>1, <1>3, <2>1, <3>3, <4>1
    <3> QED
      BY <1>1, <3>1, <3>2, <3>3
  <2> QED
    BY <1>3, <2>1 DEF Distinct
<1>5. CASE s = <<>>
  <2>1. Len(s) = 0
    BY <1>5
  <2>2. t[1] = c /\ t[Len(t)] = c /\ Len(t) - 1 = 0 /\ 1 .. Len(t) - 1 = {}
    BY <1>3, <2>1
  <2>3. pvv[c] = NULL /\ nxx[c] = NULL
    BY <1>5
  <2>4. \A i \in 1 .. Len(t) - 1 : nxx[t[i]] = t[i + 1] /\ pvv[t[i + 1]] = t[i]
    BY <2>2
  <2> QED
    BY <1>3, <1>4, <1>5, <2>2, <2>3, <2>4 DEF Wired, t
<1>6. CASE s # <<>>
  <2>1. Len(s) > 0 /\ s[1] \in cs /\ s[Len(s)] \in cs
    BY <1>1, <1>6, EmptySeq
  <2>2. f = s[1] /\ l = s[Len(s)] /\ pv[f] = NULL /\ nx[l] = NULL
    BY <1>6 DEF Wired
  <2>3. t[1] = f /\ t[Len(t)] = c
    BY <1>1, <1>3, <2>1, <2>2
  <2>4. f # c /\ l # c /\ f \in Cells /\ l \in Cells
    BY <2>1, <2>2
  <2>5. nxx = [nx EXCEPT ![c] = NULL, ![l] = c] /\ pvv = [pv EXCEPT ![c] = l]
    BY <1>6
  <2>6. /\ nxx[c] = NULL /\ nxx[l] = c /\ \A x \in Cells : x # c /\ x # l => nxx[x] = nx[x]
        /\ pvv[c] = l /\ \A x \in Cells : x # c => pvv[x] = pv[x]
    BY <2>4, <2>5
  <2>7. ASSUME NEW i \in 1 .. Len(s) PROVE nxx[t[i]] = t[i + 1] /\ pvv[t[i + 1]] = t[i]
    <3>1. CASE i = Len(s)
      BY <1>3, <2>2, <2>6, <3>1
    <3>2. CASE i # Len(s)
      <4>1. i \in 1 .. Len(s) - 1 /\ i + 1 \in 1 .. Len(s) /\ Len(s) \in 1 .. Len(s)
        BY <1>1, <3>2
      <4>2. t[i] = s[i] /\ t[i + 1] = s[i + 1]
        BY <1>3, <4>1
      <4>3. nx[s[i]] = s[i + 1] /\ pv[s[i + 1]] = s[i]
        BY <4>1 DEF Wired
      <4>4. s[i] # l
        BY <1>1, <2>2, <3>2, <4>1 DEF Distinct
      <4>5. s[i] \in Cells /\ s[i + 1] \in Cells /\ s[i] # c /\ s[i + 1] # c
        BY <1>1, <4>1
      <4> QED
        BY <2>6, <4>2, <4>3, <4>4, <4>5
    <3> QED
      BY <3>1, <3>2
  <2>8. pvv[f] = NULL
    BY <2>2, <2>4, <2>6
  <2>9. Len(t) - 1 = Len(s)
    BY <1>1, <1>3
  <2> QED
    BY <1>3, <1>4, <1>6, <2>3, <2>6, <2>7, <2>8, <2>9 DEF Wired, t
<1> QED
  BY <1>5, <1>6

(* A cell that is allocated and is on no list. *)
LEMMA WiredOther ==
  ASSUME NEW cs, cs \subseteq Cells, NEW s, NEW nx \in [Cells -> Ptr], NEW pv \in [Cells -> Ptr],
         NEW f, NEW l, Wired(s, cs, nx, pv, f, l), NEW c \in Cells, c \notin cs, NEW m, NEW b
  PROVE  Wired(s, cs \cup {c}, [nx EXCEPT ![c] = m], [pv EXCEPT ![c] = b], f, l)
<1>1. s \in Seq(cs) /\ Distinct(s) /\ Len(s) \in Nat /\ \A i \in 1 .. Len(s) : s[i] \in cs
  BY LenProperties, ElementOfSeq DEF Wired
<1>2. s \in Seq(cs \cup {c})
  BY <1>1, SeqMonotonic
<1>3. \A x \in cs : [nx EXCEPT ![c] = m][x] = nx[x] /\ [pv EXCEPT ![c] = b][x] = pv[x]
  OBVIOUS
<1>4. \A i \in 1 .. Len(s) - 1 : s[i] \in cs /\ s[i + 1] \in cs
  BY <1>1
<1>5. s # <<>> => Len(s) \in 1 .. Len(s) /\ 1 \in 1 .. Len(s)
  BY <1>1, EmptySeq
<1> QED
  BY <1>1, <1>2, <1>3, <1>4, <1>5 DEF Wired

(* s without its k-th element, which RemoveAt is. *)
Without(s, k) == [i \in 1 .. Len(s) - 1 |-> IF i < k THEN s[i] ELSE s[i + 1]]

(* RemoveAt returns it. *)
LEMMA RemoveIsWithout ==
  ASSUME NEW S, NEW s \in Seq(S), NEW k \in 1 .. Len(s)
  PROVE  /\ RemoveAt(s, k) = Without(s, k)
         /\ Without(s, k) \in Seq(S) /\ Len(Without(s, k)) = Len(s) - 1
<1> DEFINE a == SubSeq(s, 1, k - 1)
           b == SubSeq(s, k + 1, Len(s))
           w == Without(s, k)
<1>1. Len(s) \in Nat /\ \A i \in 1 .. Len(s) : s[i] \in S
  BY LenProperties, ElementOfSeq
<1>2. a \in Seq(S) /\ Len(a) = k - 1 /\ \A i \in 1 .. k - 1 : a[i] = s[i]
  <2>1. \A i \in 1 .. k - 1 : s[i] \in S
    BY <1>1
  <2>2. /\ a \in Seq(S) /\ Len(a) = IF 1 <= k - 1 THEN k - 1 - 1 + 1 ELSE 0
        /\ \A i \in 1 .. k - 1 - 1 + 1 : a[i] = s[1 + i - 1]
    BY <1>1, <2>1, SubSeqProperties
  <2> HIDE DEF a
  <2> QED
    BY <1>1, <2>2
<1>3. b \in Seq(S) /\ Len(b) = Len(s) - k /\ \A i \in 1 .. Len(s) - k : b[i] = s[k + i]
  <2>1. \A i \in k + 1 .. Len(s) : s[i] \in S
    BY <1>1
  <2>2. /\ b \in Seq(S) /\ Len(b) = IF k + 1 <= Len(s) THEN Len(s) - (k + 1) + 1 ELSE 0
        /\ \A i \in 1 .. Len(s) - (k + 1) + 1 : b[i] = s[(k + 1) + i - 1]
    BY <1>1, <2>1, SubSeqProperties
  <2> HIDE DEF b
  <2> QED
    BY <1>1, <2>2
<1>4. w \in Seq(S) /\ Len(w) = Len(s) - 1
      /\ \A i \in 1 .. Len(s) - 1 : w[i] = IF i < k THEN s[i] ELSE s[i + 1]
  <2>1. w \in [1 .. Len(s) - 1 -> S] /\ Len(s) - 1 \in Nat
    BY <1>1 DEF Without
  <2>2. w \in Seq(S)
    BY <2>1, SeqDef
  <2> QED
    BY <2>1, <2>2, LenProperties DEF Without
<1>5. /\ a \o b \in Seq(S) /\ Len(a \o b) = Len(s) - 1
      /\ \A i \in 1 .. Len(s) - 1 : (a \o b)[i] = IF i <= k - 1 THEN a[i] ELSE b[i - (k - 1)]
  <2> HIDE DEF a, b
  <2>1. /\ a \o b \in Seq(S) /\ Len(a \o b) = Len(a) + Len(b)
        /\ \A i \in 1 .. Len(a) + Len(b) : (a \o b)[i] = IF i <= Len(a) THEN a[i] ELSE b[i - Len(a)]
    BY <1>2, <1>3, ConcatProperties
  <2> QED
    BY <1>1, <1>2, <1>3, <2>1
<1>6. \A i \in 1 .. Len(s) - 1 : (a \o b)[i] = w[i]
  <2> HIDE DEF a, b, w
  <2> TAKE i \in 1 .. Len(s) - 1
  <2>1. CASE i < k
    <3>1. i \in 1 .. k - 1
      BY <1>1, <2>1
    <3> QED
      BY <1>2, <1>4, <1>5, <2>1, <3>1
  <2>2. CASE ~(i < k)
    <3>1. i - (k - 1) \in 1 .. Len(s) - k /\ k + (i - (k - 1)) = i + 1 /\ ~(i <= k - 1)
      BY <1>1, <2>2
    <3>2. b[i - (k - 1)] = s[i + 1]
      BY <1>3, <3>1
    <3> QED
      BY <1>4, <1>5, <2>2, <3>1, <3>2
  <2> QED
    BY <2>1, <2>2
<1>7. a \o b = w
  <2> DEFINE ab == a \o b
  <2>1. ab \in Seq(S) /\ w \in Seq(S) /\ Len(ab) = Len(w) /\ \A i \in 1 .. Len(ab) : ab[i] = w[i]
    BY <1>4, <1>5, <1>6
  <2> HIDE DEF ab, w
  <2> QED
    BY <2>1, SeqEqual DEF ab
<1> QED
  BY <1>4, <1>7 DEF RemoveAt

(* The neighbours of the k-th cell, NULL at the ends. *)
Before(s, k) == IF k = 1 THEN NULL ELSE s[k - 1]
After(s, k) == IF k = Len(s) THEN NULL ELSE s[k + 1]

(* Relink, as an operator on one direction of the list. *)
Unlinked(link, x, c, d) ==
    [y \in Cells |-> IF y = x THEN NULL ELSE IF y = c THEN d ELSE link[y]]

(* remove_object unlinks the k-th cell. *)
LEMMA WiredRemove ==
  ASSUME NEW cs, cs \subseteq Cells, NEW s, NEW nx \in [Cells -> Ptr], NEW pv \in [Cells -> Ptr],
         NEW f, NEW l, Wired(s, cs, nx, pv, f, l), NEW k \in 1 .. Len(s)
  PROVE  Wired(Without(s, k), cs \ {s[k]}, Unlinked(nx, s[k], Before(s, k), After(s, k)),
               Unlinked(pv, s[k], After(s, k), Before(s, k)),
               IF k = 1 THEN After(s, k) ELSE f, IF k = Len(s) THEN Before(s, k) ELSE l)
<1> SUFFICES
      ASSUME NEW n, n = After(s, k), NEW b, b = Before(s, k),
             NEW nxx, nxx = Unlinked(nx, s[k], b, n), NEW pvv, pvv = Unlinked(pv, s[k], n, b)
      PROVE  Wired(Without(s, k), cs \ {s[k]}, nxx, pvv, IF k = 1 THEN n ELSE f,
                   IF k = Len(s) THEN b ELSE l)
  OBVIOUS
<1> USE DEF After, Before, Unlinked
<1> DEFINE t == Without(s, k)
           h(i) == IF i < k THEN i ELSE i + 1
<1>1. s \in Seq(cs) /\ Distinct(s) /\ Len(s) \in Nat /\ \A i \in 1 .. Len(s) : s[i] \in cs
  BY LenProperties, ElementOfSeq DEF Wired
<1>2. /\ Len(t) = Len(s) - 1 /\ t \in [1 .. Len(s) - 1 -> cs]
      /\ \A i \in 1 .. Len(s) - 1 : t[i] = s[h(i)] /\ h(i) \in 1 .. Len(s) /\ h(i) # k
  <2>1. Len(t) = Len(s) - 1
    BY <1>1, RemoveIsWithout
  <2>2. \A i \in 1 .. Len(s) - 1 : h(i) \in 1 .. Len(s) /\ h(i) # k
    BY <1>1
  <2>3. \A i \in 1 .. Len(s) - 1 : t[i] = s[h(i)]
    BY DEF Without
  <2>4. t \in [1 .. Len(s) - 1 -> cs]
    BY <1>1, <2>2 DEF Without
  <2> HIDE DEF h
  <2> QED
    BY <2>1, <2>2, <2>3, <2>4
<1>3. \A i, j \in 1 .. Len(s) : s[i] = s[j] => i = j
  BY <1>1 DEF Distinct
<1>4. t \in Seq(cs \ {s[k]})
  <2>1. ASSUME NEW i \in 1 .. Len(s) - 1 PROVE t[i] \in cs \ {s[k]}
    <3>1. s[h(i)] # s[k] /\ t[i] = s[h(i)]
      <4> HIDE DEF h
      <4> QED
        BY <1>2, <1>3
    <3> HIDE DEF h, t
    <3> QED
      BY <1>2, <3>1
  <2>2. t \in [1 .. Len(s) - 1 -> cs \ {s[k]}] /\ Len(s) - 1 \in Nat
    <3> HIDE DEF t
    <3> QED
      BY <1>1, <1>2, <2>1
  <2> HIDE DEF t
  <2> QED
    BY <2>2, SeqDef
<1>5. Distinct(t)
  <2>1. ASSUME NEW i \in 1 .. Len(s) - 1, NEW j \in 1 .. Len(s) - 1, t[i] = t[j] PROVE i = j
    <3>1. h(i) = h(j)
      <4> HIDE DEF h, t
      <4> QED
        BY <1>2, <1>3, <2>1
    <3> QED
      BY <1>1, <3>1
  <2> QED
    BY <1>2, <2>1 DEF Distinct
<1>6. ASSUME NEW i \in 1 .. Len(s) - 1
      PROVE  /\ nx[s[i]] = s[i + 1] /\ pv[s[i + 1]] = s[i]
             /\ i \in 1 .. Len(s) /\ i + 1 \in 1 .. Len(s)
             /\ s[i] \in Cells /\ s[i + 1] \in Cells
  BY <1>1 DEF Wired
<1>7. /\ s # <<>> /\ f = s[1] /\ l = s[Len(s)] /\ pv[s[1]] = NULL /\ nx[s[Len(s)]] = NULL
      /\ 1 \in 1 .. Len(s) /\ Len(s) \in 1 .. Len(s) /\ s[1] \in Cells /\ s[Len(s)] \in Cells
  <2>1. s # <<>>
    BY <1>1, EmptySeq
  <2> QED
    BY <1>1, <2>1 DEF Wired
<1>8. ASSUME NEW i \in 1 .. Len(s) - 1 - 1 PROVE nxx[t[i]] = t[i + 1] /\ pvv[t[i + 1]] = t[i]
  <2>0. i \in 1 .. Len(s) - 1 /\ i + 1 \in 1 .. Len(s) - 1
    BY <1>1
  <2>1. CASE i + 1 < k
    <3>1. t[i] = s[i] /\ t[i + 1] = s[i + 1] /\ i # k /\ i + 1 # k /\ i # k - 1
      BY <1>1, <1>2, <2>0, <2>1
    <3>2. s[i] # s[k] /\ s[i + 1] # s[k]
      BY <1>3, <1>6, <2>0, <3>1
    <3>3. s[i] # b
      BY <1>1, <1>3, <1>6, <2>0, <3>1, CellsAssumption
    <3>4. s[i + 1] # n
      <4>1. i + 1 # k + 1
        BY <2>1
      <4> QED
        BY <1>1, <1>3, <1>6, <2>0, <4>1, CellsAssumption
    <3> QED
      BY <1>6, <2>0, <3>1, <3>2, <3>3, <3>4
  <2>2. CASE i + 1 = k
    <3>1. t[i] = s[i] /\ t[i + 1] = s[i + 2] /\ i = k - 1 /\ k # 1 /\ k # Len(s) /\ i + 2 = k + 1
      BY <1>1, <1>2, <2>0, <2>2
    <3>2. b = s[i] /\ n = s[i + 2]
      BY <3>1
    <3>3. i # k /\ i + 2 # k /\ i + 2 \in 1 .. Len(s) /\ i \in 1 .. Len(s)
      BY <1>1, <2>2
    <3>4. s[i] # s[k] /\ s[i + 2] # s[k]
      BY <1>3, <3>3
    <3>5. s[i] \in Cells /\ s[i + 2] \in Cells
      BY <1>1, <3>3
    <3> QED
      BY <3>1, <3>2, <3>4, <3>5
  <2>3. CASE i + 1 > k
    <3>1. t[i] = s[i + 1] /\ t[i + 1] = s[i + 1 + 1] /\ i + 1 # k /\ i + 1 + 1 # k
      BY <1>1, <1>2, <2>0, <2>3
    <3>2. s[i + 1] # s[k] /\ s[i + 1 + 1] # s[k]
      BY <1>3, <1>6, <2>0, <3>1
    <3>3. s[i + 1] # b
      <4>1. i + 1 # k - 1
        BY <2>3
      <4> QED
        BY <1>1, <1>3, <1>6, <2>0, <4>1, CellsAssumption
    <3>4. s[i + 1 + 1] # n
      <4>1. i + 1 + 1 # k + 1
        BY <2>3
      <4> QED
        BY <1>1, <1>3, <1>6, <2>0, <4>1, CellsAssumption
    <3>5. nx[s[i + 1]] = s[i + 1 + 1] /\ pv[s[i + 1 + 1]] = s[i + 1]
      BY <1>6, <2>0
    <3>6. s[i + 1] \in Cells /\ s[i + 1 + 1] \in Cells
      BY <1>6, <2>0
    <3> QED
      BY <3>1, <3>2, <3>3, <3>4, <3>5, <3>6
  <2> QED
    BY <2>1, <2>2, <2>3
<1>9. CASE Len(s) = 1
  <2>1. k = 1 /\ Len(t) = 0 /\ n = NULL /\ b = NULL
    BY <1>2, <1>9
  <2>2. t = <<>>
    <3> HIDE DEF t
    <3> QED
      BY <1>4, <2>1, EmptySeq
  <2> HIDE DEF t
  <2> QED
    BY <1>2, <1>4, <1>5, <1>8, <1>9, <2>1, <2>2 DEF Wired, t
<1>10. CASE Len(s) # 1
  <2>1. Len(t) > 0 /\ t # <<>>
    BY <1>1, <1>2, <1>10
  <2>2. (IF k = 1 THEN n ELSE f) = t[1]
    BY <1>1, <1>2, <1>7, <1>10
  <2>3. (IF k = Len(s) THEN b ELSE l) = t[Len(t)]
    BY <1>1, <1>2, <1>7, <1>10
  <2>4. pvv[t[1]] = NULL
    <3>1. CASE k = 1
      <4>1. t[1] = n /\ n \in Cells /\ n # s[k] /\ b = NULL
        <5>1. n = s[2] /\ 2 \in 1 .. Len(s) /\ s[2] # s[1]
          <6>1. 1 \in 1 .. Len(s) /\ 2 \in 1 .. Len(s) /\ k + 1 = 2 /\ k # Len(s)
            <7>1. Len(s) >= 1 /\ Len(s) # 1 /\ Len(s) \in Nat
              BY <1>1, <1>10
            <7>0. \A m \in Nat : m >= 1 /\ m # 1 => 2 \in 1 .. m /\ 1 \in 1 .. m
              OBVIOUS
            <7>2. 2 \in 1 .. Len(s) /\ 1 \in 1 .. Len(s)
              BY <7>0, <7>1
            <7>3. k + 1 = 2
              BY <3>1
            <7>4. k # Len(s)
              BY <3>1, <7>1
            <7> QED
              BY <7>2, <7>3, <7>4
          <6>2. s[2] # s[1]
            BY <1>3, <6>1
          <6> QED
            BY <6>1, <6>2
        <5> QED
          BY <1>1, <2>2, <3>1, <5>1
      <4> QED
        BY <4>1
    <3>2. CASE k # 1
      <4>1. t[1] = s[1] /\ s[1] # s[k]
        BY <1>3, <1>7, <2>2, <3>2
      <4>2. s[1] # n
        <5>1. k + 1 # 1
          BY <1>1
        <5> QED
          BY <1>1, <1>3, <1>7, <5>1, CellsAssumption
      <4> QED
        BY <1>7, <4>1, <4>2
    <3> QED
      BY <3>1, <3>2
  <2>5. nxx[t[Len(t)]] = NULL
    <3>1. CASE k = Len(s)
      <4>1. b = s[k - 1] /\ k - 1 \in 1 .. Len(s) /\ s[k - 1] # s[k] /\ n = NULL
        BY <1>1, <1>3, <1>10, <3>1
      <4>2. t[Len(t)] = b /\ b \in Cells
        BY <1>1, <2>3, <3>1, <4>1
      <4> QED
        BY <4>1, <4>2
    <3>2. CASE k # Len(s)
      <4>1. t[Len(t)] = s[Len(s)] /\ s[Len(s)] # s[k]
        BY <1>3, <1>7, <2>3, <3>2
      <4>2. s[Len(s)] # b
        <5>1. k - 1 # Len(s)
          BY <1>1
        <5> QED
          BY <1>1, <1>3, <1>7, <5>1, CellsAssumption
      <4> QED
        BY <1>7, <4>1, <4>2
    <3> QED
      BY <3>1, <3>2
  <2> HIDE DEF t
  <2> QED
    BY <1>2, <1>4, <1>5, <1>8, <2>1, <2>2, <2>3, <2>4, <2>5 DEF Wired, t
<1> QED
  BY <1>9, <1>10

(* Every cell of s has its payload, and a payload is in a cell of s. *)
Filled(s, cs, q) ==
    /\ \A i \in 1 .. Len(s) : q[s[i]] # NULL
    /\ \A c \in cs : q[c] # NULL => \E i \in 1 .. Len(s) : s[i] = c

(* The cursor is rewound, on a cell of s, or one under it was deleted. *)
Points(s, cur, st) == st \/ cur = NULL \/ \E i \in 1 .. Len(s) : s[i] = cur

(* remove_object has reached c, or the end of s, and not met v before. *)
Searching(s, q, c, v) ==
    \/ c = NULL
    \/ \E k \in 1 .. Len(s) : s[k] = c /\ \A j \in 1 .. k - 1 : q[s[j]] # v

(* s are the cells on the list, when no free_list runs. *)
Held(s) ==
    /\ Wired(s, live, next, prev, first, last)
    /\ Filled(s, live, p)
    /\ Points(s, current, stale)
    /\ (op = "remove") => Searching(s, p, tmp, key)

(* r are the cells free_list has not come to. *)
Freeing(r) ==
    /\ r \in Seq(live) /\ Distinct(r)
    /\ r = <<>> => tmp = NULL
    /\ r # <<>> => tmp = r[Len(r)] /\ prev[r[1]] = NULL
    /\ \A i \in 1 .. Len(r) - 1 : prev[r[i + 1]] = r[i]
    /\ first # NULL /\ last # NULL
    /\ \A c \in live : p[c] # NULL => \E i \in 1 .. Len(r) : r[i] = c
    /\ Points(r, current, stale)

(* What a failed allocation of the first payload leaves, for good. *)
Half ==
    /\ first \in live /\ last = NULL /\ p[first] = NULL
    /\ op # "free"
    /\ (op = "remove") => tmp = first /\ key # NULL

ListInv ==
    \/ Half
    \/ /\ fault => op = "idle" /\ stale /\ Dangles
       /\ (op # "free") => \E s : Held(s)
       /\ (op = "free") => \E r : Freeing(r)

----------------------------------------------------------------------------

(* The objects in the cells of s, and where in s the cursor is. *)
ItemsOf(s, q) == [i \in 1 .. Len(s) |-> q[s[i]]]

Position(s, cur, st, busy) ==
    IF cur = NULL THEN 0
    ELSE IF ~busy /\ ~st /\ \E i \in 1 .. Len(s) : s[i] = cur
         THEN CHOOSE i \in 1 .. Len(s) : s[i] = cur
         ELSE -1

(* The cursor on the i-th cell is i. *)
LEMMA PositionIs ==
  ASSUME NEW s, Distinct(s), NEW i \in 1 .. Len(s), s[i] # NULL
  PROVE  Position(s, s[i], FALSE, FALSE) = i
<1>1. \A j \in 1 .. Len(s) : s[j] = s[i] => j = i
  BY DEF Distinct
<1>2. (CHOOSE j \in 1 .. Len(s) : s[j] = s[i]) = i
  BY <1>1
<1> QED
  BY <1>2 DEF Position

(* The objects and the cursor CursorList sees. *)
LEMMA ItemsAre ==
  ASSUME TypeOK, op # "free", NEW s, Wired(s, live, next, prev, first, last)
  PROVE  /\ Chain(first, next) = s /\ Chain(last, prev) = Reverse(s)
         /\ Items = ItemsOf(s, p)
         /\ Cursor = Position(s, current, stale, FALSE)
<1>1. NULL \notin live /\ live \subseteq Cells
  BY CellsAssumption DEF TypeOK
<1>2. Chain(first, next) = s /\ Chain(last, prev) = Reverse(s)
  BY <1>1, WiredLeads, ChainIs DEF Chain
<1>3. DOMAIN s = 1 .. Len(s)
  BY LenProperties DEF Wired
<1> QED
  BY <1>2, <1>3 DEF Items, ItemsOf, Cursor, Position, ToSet

(* The same after a step. *)
LEMMA ItemsAreNext ==
  ASSUME TypeOK', op' # "free", NEW s, Wired(s, live', next', prev', first', last')
  PROVE  Items' = ItemsOf(s, p') /\ Cursor' = Position(s, current', stale', FALSE)
<1>1. NULL \notin live' /\ live' \subseteq Cells
  BY CellsAssumption DEF TypeOK
<1>2. Chain(first, next)' = s
  BY <1>1, WiredLeads, ChainIs DEF Chain
<1>3. DOMAIN s = 1 .. Len(s)
  BY LenProperties DEF Wired
<1> QED
  BY <1>2, <1>3 DEF Items, ItemsOf, Cursor, Position, ToSet

(* While free_list runs, CursorList sees the empty list. *)
LEMMA ItemsWhileFree ==
  /\ (op = "free") => Items = <<>> /\ Cursor = IF current = NULL THEN 0 ELSE -1
  /\ (op' = "free") => Items' = <<>> /\ Cursor' = IF current' = NULL THEN 0 ELSE -1
BY DEF Items, Cursor

(* As many objects as cells. *)
LEMMA ItemsOfType ==
  ASSUME NEW s, NEW cs, cs \subseteq Cells, s \in Seq(cs), NEW q \in [Cells -> Values \cup {NULL}]
  PROVE  /\ ItemsOf(s, q) \in Seq(Values \cup {NULL})
         /\ Len(ItemsOf(s, q)) = Len(s)
         /\ \A i \in 1 .. Len(s) : ItemsOf(s, q)[i] = q[s[i]]
<1> DEFINE V == Values \cup {NULL}
<1>1. Len(s) \in Nat /\ \A i \in 1 .. Len(s) : s[i] \in cs
  BY LenProperties, ElementOfSeq
<1>2. ItemsOf(s, q) \in [1 .. Len(s) -> V]
  BY <1>1 DEF ItemsOf
<1> HIDE DEF V
<1>3. ItemsOf(s, q) \in Seq(V)
  BY <1>1, <1>2, SeqDef
<1>4. Len(ItemsOf(s, q)) = Len(s)
  BY <1>1, <1>2, <1>3, LenProperties
<1> QED
  BY <1>3, <1>4 DEF V, ItemsOf

(* A new cell at the end is a new object at the end. *)
LEMMA ItemsAppend ==
  ASSUME NEW s, NEW cs, cs \subseteq Cells, s \in Seq(cs), NEW c \in Cells, c \notin cs,
         NEW v \in Values, NEW q \in [Cells -> Values \cup {NULL}]
  PROVE  ItemsOf(Append(s, c), [q EXCEPT ![c] = v]) = Append(ItemsOf(s, q), v)
<1> DEFINE V == Values \cup {NULL}
           t == Append(s, c)
           qq == [q EXCEPT ![c] = v]
           a == ItemsOf(t, qq)
           b == Append(ItemsOf(s, q), v)
<1>1. Len(s) \in Nat /\ \A i \in 1 .. Len(s) : s[i] \in cs
  BY LenProperties, ElementOfSeq
<1>2. /\ t \in Seq(Cells) /\ Len(t) = Len(s) + 1
      /\ (\A i \in 1 .. Len(s) : t[i] = s[i]) /\ t[Len(s) + 1] = c
  <2>1. s \in Seq(Cells)
    BY SeqMonotonic
  <2> QED
    BY <2>1, AppendProperties
<1>3. qq \in [Cells -> V] /\ qq[c] = v /\ \A x \in cs : qq[x] = q[x]
  OBVIOUS
<1>4. a \in Seq(V) /\ Len(a) = Len(s) + 1 /\ \A i \in 1 .. Len(s) + 1 : a[i] = qq[t[i]]
  <2> HIDE DEF t, qq
  <2>1. a \in Seq(V) /\ Len(a) = Len(t) /\ \A i \in 1 .. Len(t) : a[i] = qq[t[i]]
    BY <1>2, <1>3, ItemsOfType
  <2> QED
    BY <1>2, <2>1
<1>5. /\ b \in Seq(V) /\ Len(b) = Len(s) + 1
      /\ (\A i \in 1 .. Len(s) : b[i] = q[s[i]]) /\ b[Len(s) + 1] = v
  <2>1. /\ ItemsOf(s, q) \in Seq(V) /\ Len(ItemsOf(s, q)) = Len(s)
        /\ \A i \in 1 .. Len(s) : ItemsOf(s, q)[i] = q[s[i]]
    BY ItemsOfType
  <2>2. v \in V
    OBVIOUS
  <2> HIDE DEF V
  <2> QED
    BY <2>1, <2>2, AppendProperties
<1>6. ASSUME NEW i \in 1 .. Len(s) + 1 PROVE a[i] = b[i]
  <2> HIDE DEF a, b, t, qq, V
  <2>1. CASE i = Len(s) + 1
    BY <1>2, <1>3, <1>4, <1>5, <2>1
  <2>2. CASE i # Len(s) + 1
    <3>1. i \in 1 .. Len(s)
      BY <1>1, <2>2
    <3> QED
      BY <1>1, <1>2, <1>3, <1>4, <1>5, <3>1
  <2> QED
    BY <2>1, <2>2
<1> HIDE DEF a, b, V
<1>7. a = b
  BY <1>4, <1>5, <1>6, SeqEqual
<1> QED
  BY <1>7 DEF a, b

(* A cell less is an object less. *)
LEMMA ItemsWithout ==
  ASSUME NEW s, NEW cs, cs \subseteq Cells, s \in Seq(cs), Distinct(s), NEW k \in 1 .. Len(s),
         NEW q \in [Cells -> Values \cup {NULL}]
  PROVE  ItemsOf(Without(s, k), [q EXCEPT ![s[k]] = NULL]) = RemoveAt(ItemsOf(s, q), k)
<1> DEFINE V == Values \cup {NULL}
           t == Without(s, k)
           qq == [q EXCEPT ![s[k]] = NULL]
           u == ItemsOf(s, q)
           a == ItemsOf(t, qq)
           b == Without(u, k)
           h(i) == IF i < k THEN i ELSE i + 1
<1>1. Len(s) \in Nat /\ \A i \in 1 .. Len(s) : s[i] \in cs
  BY LenProperties, ElementOfSeq
<1>2. u \in Seq(V) /\ Len(u) = Len(s) /\ \A i \in 1 .. Len(s) : u[i] = q[s[i]]
  BY ItemsOfType
<1>3. RemoveAt(u, k) = b /\ b \in Seq(V) /\ Len(b) = Len(s) - 1
  <2> HIDE DEF u, V
  <2> QED
    BY <1>2, RemoveIsWithout
<1>4. t \in Seq(cs) /\ Len(t) = Len(s) - 1
  BY RemoveIsWithout
<1>5. qq \in [Cells -> V] /\ \A x \in Cells : x # s[k] => qq[x] = q[x]
  OBVIOUS
<1>6. a \in Seq(V) /\ Len(a) = Len(s) - 1 /\ \A i \in 1 .. Len(s) - 1 : a[i] = qq[t[i]]
  <2> HIDE DEF t, qq
  <2>1. a \in Seq(V) /\ Len(a) = Len(t) /\ \A i \in 1 .. Len(t) : a[i] = qq[t[i]]
    BY <1>4, <1>5, ItemsOfType
  <2> QED
    BY <1>4, <2>1
<1>7. ASSUME NEW i \in 1 .. Len(s) - 1 PROVE a[i] = b[i]
  <2>1. t[i] = s[h(i)] /\ b[i] = u[h(i)]
    <3> HIDE DEF u
    <3> QED
      BY <1>2 DEF Without
  <2>2. h(i) \in 1 .. Len(s) /\ h(i) # k
    BY <1>1
  <2> HIDE DEF t, qq, a, b, u, h
  <2>3. s[h(i)] # s[k] /\ s[h(i)] \in Cells
    BY <1>1, <2>2 DEF Distinct
  <2> QED
    BY <1>2, <1>5, <1>6, <2>1, <2>2, <2>3
<1> HIDE DEF a, b, V
<1>8. a = b
  BY <1>3, <1>6, <1>7, SeqEqual
<1> QED
  BY <1>3, <1>8 DEF a

(* A step keeps the list and is one CursorList allows. *)
Allowed == HalfBuilt' \/ Abstract!Next \/ UNCHANGED Abstract!listVars

(* Where the cursor may be once a cell under it was deleted. *)
OnCell == stale => current # NULL

(* The empty list. *)
LEMMA ListInitially == Init => TypeOK /\ OnCell /\ ListInv /\ Abstract!Init
<1> SUFFICES ASSUME Init PROVE TypeOK /\ OnCell /\ ListInv /\ Abstract!Init
  OBVIOUS
<1>1. TypeOK
  BY CellsAssumption DEF Init, TypeOK, Ptr
<1>2. Held(<<>>)
  BY DEF Init, Held, Wired, Distinct, Filled, Points
<1>3. ListInv
  BY <1>2 DEF Init, ListInv
<1>4. Items = ItemsOf(<<>>, p) /\ Cursor = Position(<<>>, current, stale, FALSE)
  BY <1>1, <1>2, ItemsAre DEF Init, Held
<1>5. Items = <<>> /\ Cursor = 0
  BY <1>4 DEF ItemsOf, Position, Init
<1> QED
  BY <1>1, <1>3, <1>5 DEF Init, OnCell, Abstract!Init

(* Once the first payload failed, the list stays half built. *)
LEMMA HalfForGood ==
  ASSUME TypeOK, TypeOK', Half, [Next]_vars
  PROVE  ListInv' /\ Allowed
<1> USE CellsAssumption DEF TypeOK
<1>0. first \in live /\ first # NULL /\ last = NULL /\ p[first] = NULL /\ last \notin live
  BY DEF Half
<1> SUFFICES Half'
  <2>1. Half' => HalfBuilt'
    BY DEF HalfBuilt, Half
  <2> QED
    BY <2>1 DEF ListInv, Allowed
<1>1. ASSUME NEW v \in Values, AddObject(v) PROVE FALSE
  BY <1>0, <1>1 DEF AddObject, AddFirst, AddLast
<1>2. ASSUME NEW v \in Values, RemoveObject(v) PROVE Half'
  BY <1>0, <1>2 DEF RemoveObject, heap, Half
<1>3. CASE Fault
  BY <1>3 DEF Fault, heap, loop, Half
<1>4. CASE NodeAllocFails
  BY <1>4 DEF NodeAllocFails, heap, loop, Half
<1>5. CASE PayloadAllocFails
  BY <1>0, <1>5 DEF PayloadAllocFails, loop, Half, Idle
<1>6. CASE GetObject
  BY <1>3, <1>6 DEF GetObject, heap, loop, Half
<1>7. CASE ListRewind
  BY <1>7 DEF ListRewind, heap, loop, Half
<1>8. CASE FreeList \/ FreeStep \/ FreeEnd
  BY <1>8 DEF FreeList, FreeStep, FreeEnd, Half
<1>9. CASE RemoveSkip \/ RemoveMissing \/ RemoveUnlinks
  BY <1>0, <1>9 DEF RemoveSkip, RemoveMissing, RemoveUnlinks, Removing, Half
<1>10. CASE UNCHANGED vars
  BY <1>10 DEF vars, heap, loop, Half
<1> QED
  BY <1>1, <1>2, <1>3, <1>4, <1>5, <1>6, <1>7, <1>8, <1>9, <1>10
  DEF Next, AddFaults, RemoveFaults

(* A step that leaves the list and its cursor alone. *)
LEMMA ListKept ==
  ASSUME TypeOK, TypeOK', op # "free", op' # "free", NEW s, Held(s),
         UNCHANGED <<first, current, last, heap, stale, fault>>, ~fault,
         (op' = "remove") => Searching(s, p, tmp', key')
  PROVE  ListInv' /\ Items' = Items /\ Cursor' = Cursor
<1>1. Held(s)'
  BY DEF Held, heap
<1>2. Items = ItemsOf(s, p) /\ Cursor = Position(s, current, stale, FALSE)
  BY ItemsAre DEF Held
<1>3. Items' = ItemsOf(s, p') /\ Cursor' = Position(s, current', stale', FALSE)
  BY <1>1, ItemsAreNext DEF Held
<1> QED
  BY <1>1, <1>2, <1>3 DEF heap, ListInv

(* add_object appends. *)
LEMMA StepAddObject ==
  ASSUME TypeOK, TypeOK', NEW s, Held(s), ~fault, NEW v \in Values, AddObject(v)
  PROVE  ListInv' /\ Allowed
<1> USE CellsAssumption
<1>0. PICK c \in Cells \ live :
        /\ AddFirst(c) \/ AddLast(c, v)
        /\ live' = live \cup {c}
        /\ p' = [p EXCEPT ![c] = v]
        /\ out' = v
  BY DEF AddObject
<1>1. /\ UNCHANGED <<current, op, tmp, key, stale>> /\ op = "idle"
      /\ live \subseteq Cells /\ NULL \notin live /\ next \in [Cells -> Ptr] /\ prev \in [Cells -> Ptr]
      /\ p \in [Cells -> Values \cup {NULL}]
  BY DEF AddObject, loop, Idle, TypeOK
<1>2. /\ s \in Seq(live) /\ Distinct(s) /\ Len(s) \in Nat
      /\ \A i \in 1 .. Len(s) : s[i] \in live /\ s[i] # c
      /\ s = <<>> <=> first = NULL
  <2>1. s \in Seq(live)
    BY DEF Held, Wired
  <2>2. s # <<>> => s[1] \in live
    BY <2>1, EmptySeq, ElementOfSeq
  <2> QED
    BY <1>0, <1>1, <2>1, <2>2, LenProperties, ElementOfSeq DEF Held, Wired
<1>3. /\ next' = IF s = <<>> THEN [next EXCEPT ![c] = NULL] ELSE [next EXCEPT ![c] = NULL, ![last] = c]
      /\ prev' = [prev EXCEPT ![c] = IF s = <<>> THEN NULL ELSE last]
      /\ first' = (IF s = <<>> THEN c ELSE first) /\ last' = c /\ fault' = fault
  <2>1. CASE s = <<>>
    BY <1>0, <1>2, <2>1 DEF AddFirst, AddLast
  <2>2. CASE s # <<>>
    BY <1>0, <1>2, <2>2 DEF AddFirst, AddLast
  <2> QED
    BY <2>1, <2>2
<1> DEFINE t == Append(s, c)
<1>4. Wired(t, live', next', prev', first', last')
  <2>1. Wired(s, live, next, prev, first, last)
    BY DEF Held
  <2> QED
    BY <1>0, <1>1, <1>3, <2>1, WiredAppend
<1>5. /\ Len(t) = Len(s) + 1 /\ (\A i \in 1 .. Len(s) : t[i] = s[i]) /\ t[Len(s) + 1] = c
  <2>1. s \in Seq(Cells)
    BY <1>1, <1>2, SeqMonotonic
  <2> QED
    BY <2>1, AppendProperties
<1>6. Filled(t, live', p')
  <2>1. p' = [p EXCEPT ![c] = v] /\ v # NULL
    BY <1>0
  <2>2. ASSUME NEW i \in 1 .. Len(s) + 1 PROVE p'[t[i]] # NULL
    <3>1. CASE i = Len(s) + 1
      BY <1>1, <1>5, <2>1, <3>1
    <3>2. CASE i # Len(s) + 1
      <4>1. i \in 1 .. Len(s)
        BY <1>2, <3>2
      <4> QED
        BY <1>1, <1>2, <1>5, <2>1, <4>1 DEF Held, Filled
    <3> QED
      BY <3>1, <3>2
  <2>3. ASSUME NEW d \in live \cup {c}, p'[d] # NULL PROVE \E i \in 1 .. Len(s) + 1 : t[i] = d
    <3>1. CASE d = c
      BY <1>2, <1>5, <3>1
    <3>2. CASE d # c
      <4>1. PICK i \in 1 .. Len(s) : s[i] = d
        BY <1>1, <2>1, <2>3, <3>2 DEF Held, Filled
      <4>2. i \in 1 .. Len(s) + 1 /\ t[i] = d
        BY <1>2, <1>5, <4>1
      <4> QED
        BY <4>2
    <3> QED
      BY <3>1, <3>2
  <2> HIDE DEF t
  <2> QED
    BY <1>0, <1>5, <2>2, <2>3 DEF Filled
<1>7. ASSUME NEW i \in 1 .. Len(s) PROVE i \in 1 .. Len(t) /\ t[i] = s[i]
  BY <1>2, <1>5
<1> HIDE DEF t
<1>8. Points(t, current', stale')
  BY <1>1, <1>7 DEF Held, Points
<1>9. Held(t)'
  BY <1>1, <1>4, <1>6, <1>8 DEF Held
<1>10. ListInv'
  BY <1>1, <1>3, <1>9 DEF ListInv
<1>11. Items = ItemsOf(s, p) /\ Cursor = Position(s, current, stale, FALSE)
  BY <1>1, ItemsAre DEF Held
<1>12. Items' = ItemsOf(t, p') /\ Cursor' = Position(t, current', stale', FALSE)
  BY <1>1, <1>4, ItemsAreNext
<1>13. Items' = Append(Items, v)
  <2>1. ItemsOf(Append(s, c), [p EXCEPT ![c] = v]) = Append(ItemsOf(s, p), v)
    <3>1. /\ live \subseteq Cells /\ s \in Seq(live) /\ c \in Cells /\ c \notin live
          /\ p \in [Cells -> Values \cup {NULL}]
      BY <1>1, <1>2
    <3> QED
      BY ONLY <3>1, v \in Values, ItemsAppend, Zenon
  <2>2. ItemsOf(t, p') = ItemsOf(Append(s, c), [p EXCEPT ![c] = v])
    <3> DEFINE q == [p EXCEPT ![c] = v]
    <3>1. p' = q
      BY <1>0
    <3> HIDE DEF q
    <3>2. ItemsOf(Append(s, c), p') = ItemsOf(Append(s, c), q)
      BY <3>1
    <3> QED
      BY <3>2 DEF t, q
  <2> HIDE DEF t
  <2> QED
    BY <1>11, <1>12, <2>1, <2>2
<1>14. Cursor' = Cursor
  <2>1. CASE current = NULL \/ stale
    BY <1>1, <1>11, <1>12, <2>1 DEF Position
  <2>2. CASE current # NULL /\ ~stale
    <3>1. PICK i \in 1 .. Len(s) : s[i] = current
      BY <2>2 DEF Held, Points
    <3>2. i \in 1 .. Len(t) /\ t[i] = current /\ Distinct(t)
      BY <1>4, <1>7, <3>1 DEF Wired
    <3>3. Cursor = i
      BY <1>2, <1>11, <2>2, <3>1, PositionIs DEF TypeOK
    <3>4. Cursor' = i
      BY <1>1, <1>12, <2>2, <3>2, PositionIs DEF TypeOK
    <3> QED
      BY <3>3, <3>4
  <2> QED
    BY <2>1, <2>2
<1>15. Abstract!Add(v)
  BY <1>0, <1>13, <1>14 DEF Abstract!Add
<1> QED
  BY <1>10, <1>15 DEF Allowed, Abstract!Next

(* A failed payload leaves a lost cell, or a half-built list. *)
LEMMA StepPayloadAllocFails ==
  ASSUME TypeOK, TypeOK', NEW s, Held(s), ~fault, PayloadAllocFails
  PROVE  ListInv' /\ Allowed
<1> USE CellsAssumption
<1>0. PICK c \in Cells \ live, n \in Ptr, b \in Ptr :
        /\ first' = IF first = NULL THEN c ELSE first
        /\ live' = live \cup {c}
        /\ next' = [next EXCEPT ![c] = n]
        /\ prev' = [prev EXCEPT ![c] = b]
        /\ p' = [p EXCEPT ![c] = NULL]
  BY DEF PayloadAllocFails
<1>1. /\ UNCHANGED <<current, last, op, tmp, key, stale, fault>> /\ op = "idle" /\ out' = NULL
      /\ live \subseteq Cells /\ NULL \notin live /\ next \in [Cells -> Ptr] /\ prev \in [Cells -> Ptr]
      /\ p \in [Cells -> Values \cup {NULL}]
  BY DEF PayloadAllocFails, loop, Idle, TypeOK
<1>2. /\ s \in Seq(live) /\ Distinct(s) /\ Len(s) \in Nat
      /\ \A i \in 1 .. Len(s) : s[i] \in live /\ s[i] # c
      /\ s = <<>> => first = NULL /\ last = NULL
      /\ s # <<>> => first # NULL
  <2>1. s \in Seq(live)
    BY DEF Held, Wired
  <2>2. s # <<>> => s[1] \in live
    BY <2>1, EmptySeq, ElementOfSeq
  <2> QED
    BY <1>0, <1>1, <2>1, <2>2, LenProperties, ElementOfSeq DEF Held, Wired
<1>3. CASE s = <<>>
  <2>1. first' = c /\ last' = NULL /\ p'[c] = NULL /\ c \in live'
    BY <1>0, <1>1, <1>2, <1>3
  <2>2. Half'
    BY <1>1, <2>1 DEF Half
  <2> QED
    BY <2>1, <2>2 DEF ListInv, Allowed, HalfBuilt
<1>4. CASE s # <<>>
  <2>1. first' = first
    BY <1>0, <1>2, <1>4
  <2>2. Wired(s, live', next', prev', first', last')
    <3>1. Wired(s, live, next, prev, first, last)
      BY DEF Held
    <3> QED
      BY <1>0, <1>1, <2>1, <3>1, WiredOther
  <2>3. \A i \in 1 .. Len(s) : p'[s[i]] = p[s[i]]
    BY <1>0, <1>1, <1>2
  <2>4. Filled(s, live', p')
    BY <1>0, <1>1, <2>3 DEF Held, Filled
  <2>5. Held(s)'
    BY <1>1, <2>2, <2>4 DEF Held
  <2>6. ItemsOf(s, p') = ItemsOf(s, p)
    BY <2>3 DEF ItemsOf
  <2>7. Items = ItemsOf(s, p) /\ Cursor = Position(s, current, stale, FALSE)
    BY <1>1, ItemsAre DEF Held
  <2>8. Items' = ItemsOf(s, p') /\ Cursor' = Position(s, current', stale', FALSE)
    BY <1>1, <2>2, ItemsAreNext
  <2>9. Abstract!AddFails
    BY <1>1, <2>6, <2>7, <2>8 DEF Abstract!AddFails
  <2> QED
    BY <1>1, <2>5, <2>9 DEF ListInv, Allowed, Abstract!Next
<1> QED
  BY <1>3, <1>4

(* get_object moves the cursor on or, past the end, rewinds it. *)
LEMMA StepGetFollowing ==
  ASSUME TypeOK, TypeOK', NEW s, Held(s), ~fault, ~stale, GetObject
  PROVE  ListInv' /\ Allowed
<1> USE CellsAssumption
<1> DEFINE c == IF current = NULL THEN first ELSE next[current]
<1>1. /\ op = "idle" /\ ~stale /\ live \subseteq Cells /\ NULL \notin live
      /\ s \in Seq(live) /\ Distinct(s) /\ Len(s) \in Nat
      /\ \A i \in 1 .. Len(s) : s[i] \in live /\ s[i] # NULL
      /\ s = <<>> <=> Len(s) = 0
  <2>1. s \in Seq(live)
    BY DEF Held, Wired
  <2> QED
    BY <2>1, LenProperties, ElementOfSeq, EmptySeq DEF GetObject, Idle, TypeOK, Held, Wired
<1>0. stale = FALSE
  BY <1>1 DEF TypeOK
<1>2. Items = ItemsOf(s, p) /\ Cursor = Position(s, current, FALSE, FALSE)
  <2>1. Items = ItemsOf(s, p) /\ Cursor = Position(s, current, stale, FALSE)
    BY <1>1, ItemsAre DEF Held
  <2> QED
    BY <1>0, <2>1
<1>3. /\ Cursor \in 0 .. Len(s)
      /\ c = IF Cursor = Len(s) THEN NULL ELSE s[Cursor + 1]
  <2>1. CASE current = NULL
    <3>1. Cursor = 0
      BY <1>2, <2>1 DEF Position
    <3>2. CASE s = <<>>
      BY <1>1, <2>1, <3>1, <3>2 DEF Held, Wired
    <3>3. CASE s # <<>>
      BY <1>1, <2>1, <3>1, <3>3 DEF Held, Wired
    <3> QED
      BY <3>2, <3>3
  <2>2. CASE current # NULL
    <3>1. PICK i \in 1 .. Len(s) : s[i] = current
      BY <1>1, <2>2 DEF Held, Points
    <3>2. Cursor = i
      BY <1>1, <1>2, <3>1, PositionIs
    <3>3. CASE i = Len(s)
      BY <1>1, <2>2, <3>1, <3>2, <3>3 DEF Held, Wired
    <3>4. CASE i # Len(s)
      <4>1. i \in 1 .. Len(s) - 1
        BY <1>1, <3>4
      <4> QED
        BY <1>1, <2>2, <3>1, <3>2, <3>4, <4>1 DEF Held, Wired
    <3> QED
      BY <3>3, <3>4
  <2> QED
    BY <2>1, <2>2
<1>4. Cursor # Len(s) => Cursor + 1 \in 1 .. Len(s)
  BY <1>1, <1>3
<1>5. c = NULL \/ c \in live
  <2> HIDE DEF c
  <2> QED
    BY <1>1, <1>3, <1>4
<1>6. /\ current' = c
      /\ out' = IF c = NULL THEN NULL ELSE p[c]
      /\ UNCHANGED <<first, last, next, prev, p, live, op, tmp, key, stale, fault>>
  <2>1. c = Following
    BY DEF Following
  <2> HIDE DEF c
  <2>2. current = NULL \/ current \in live
    BY <1>1 DEF Held, Points
  <2>3. ~Dangles
    BY <1>5, <2>1, <2>2 DEF Dangles
  <2>4. /\ current' = c
        /\ out' = IF c = NULL THEN NULL ELSE p[c]
        /\ stale' = (stale /\ c # NULL)
        /\ UNCHANGED <<first, last, heap, loop, fault>>
    BY <2>1, <2>3 DEF GetObject
  <2>5. stale' = stale
    BY <1>0, <2>4
  <2> QED
    BY <2>4, <2>5 DEF heap, loop
<1> HIDE DEF c
<1>7. Points(s, current', stale')
  BY <1>3, <1>4, <1>6 DEF Points
<1>8. Held(s)'
  BY <1>1, <1>6, <1>7 DEF Held
<1>9. Items' = ItemsOf(s, p) /\ Cursor' = Position(s, c, FALSE, FALSE)
  <2>1. Items' = ItemsOf(s, p') /\ Cursor' = Position(s, current', stale', FALSE)
    BY <1>1, <1>6, <1>8, ItemsAreNext DEF Held
  <2> QED
    BY <1>0, <1>6, <2>1
<1>10. /\ Cursor = Len(s) => Cursor' = 0
       /\ Cursor # Len(s) => Cursor' = Cursor + 1
  <2>1. CASE Cursor = Len(s)
    BY <1>3, <1>9, <2>1 DEF Position
  <2>2. CASE Cursor # Len(s)
    <3>1. Cursor + 1 \in 1 .. Len(s) /\ c = s[Cursor + 1] /\ s[Cursor + 1] # NULL
      BY <1>1, <1>3, <1>4, <2>2
    <3>2. Position(s, s[Cursor + 1], FALSE, FALSE) = Cursor + 1
      BY <1>1, <3>1, PositionIs
    <3> QED
      BY <1>9, <2>2, <3>1, <3>2
  <2> QED
    BY <2>1, <2>2
<1>11. Len(Items) = Len(s) /\ \A i \in 1 .. Len(s) : Items[i] = p[s[i]]
  <2>1. /\ Len(ItemsOf(s, p)) = Len(s)
        /\ \A i \in 1 .. Len(s) : ItemsOf(s, p)[i] = p[s[i]]
    BY <1>1, ItemsOfType DEF TypeOK
  <2> QED
    BY <1>2, <2>1
<1>12. /\ Cursor = Len(s) => out' = NULL
       /\ Cursor # Len(s) => out' = Items[Cursor + 1]
  BY <1>1, <1>3, <1>4, <1>6, <1>11
<1>13. Abstract!Get
  <2>1. Cursor # -1
    BY <1>3
  <2> QED
    BY <1>2, <1>9, <1>10, <1>11, <1>12, <2>1 DEF Abstract!Get, Abstract!Dangling
<1> QED
  BY <1>1, <1>6, <1>8, <1>13 DEF ListInv, Allowed, Abstract!Next

(* With a deleted object under the cursor get_object finds anything. *)
LEMMA StepGetDangling ==
  ASSUME TypeOK, TypeOK', OnCell, NEW s, Held(s), ~fault, stale, GetObject, ~Dangles
  PROVE  ListInv' /\ Allowed
<1> DEFINE c == Following
<1>1. /\ op = "idle" /\ current # NULL
      /\ current' = c
      /\ out' = IF c = NULL THEN NULL ELSE p[c]
      /\ stale' = (stale /\ c # NULL)
      /\ UNCHANGED <<first, last, next, prev, p, live, op, tmp, key, fault>>
  BY DEF GetObject, Idle, OnCell, heap, loop
<1> HIDE DEF c
<1>2. Points(s, current', stale')
  BY <1>1 DEF Points
<1>3. Held(s)'
  BY <1>1, <1>2 DEF Held
<1>4. Items = ItemsOf(s, p) /\ Cursor = -1
  <2>1. Items = ItemsOf(s, p) /\ Cursor = Position(s, current, stale, FALSE)
    BY <1>1, ItemsAre DEF Held
  <2> QED
    BY <1>1, <2>1 DEF Position
<1>5. Items' = ItemsOf(s, p) /\ Cursor' \in {-1, 0}
  <2>1. Items' = ItemsOf(s, p') /\ Cursor' = Position(s, current', stale', FALSE)
    BY <1>1, <1>3, ItemsAreNext DEF Held
  <2> QED
    BY <1>1, <2>1 DEF Position
<1>6. out' \in Values \cup {NULL}
  BY DEF TypeOK
<1>7. Abstract!GetDangling
  BY <1>4, <1>5, <1>6 DEF Abstract!GetDangling, Abstract!Dangling
<1> QED
  BY <1>1, <1>3, <1>7 DEF ListInv, Allowed, Abstract!Next

(* It follows a pointer into nothing only then, and is alone with it. *)
LEMMA StepGetObject ==
  ASSUME TypeOK, TypeOK', OnCell, NEW s, Held(s), ~fault, GetObject
  PROVE  ListInv' /\ Allowed
<1>1. CASE ~stale
  BY <1>1, StepGetFollowing
<1>2. CASE stale /\ ~Dangles
  BY <1>2, StepGetDangling
<1>3. CASE stale /\ Dangles
  <2>1. op = "idle" /\ UNCHANGED <<first, current, last, next, prev, p, live, op, tmp, key, out, stale>>
    BY <1>3 DEF GetObject, Idle, Fault, heap, loop
  <2>2. Held(s)'
    BY <2>1 DEF Held
  <2>3. Dangles'
    BY <1>3, <2>1 DEF Dangles, Following
  <2>4. Items' = Items /\ Cursor' = Cursor
    <3>1. Items = ItemsOf(s, p) /\ Cursor = Position(s, current, stale, FALSE)
      BY <2>1, ItemsAre DEF Held
    <3>2. Items' = ItemsOf(s, p') /\ Cursor' = Position(s, current', stale', FALSE)
      BY <2>1, <2>2, ItemsAreNext DEF Held
    <3> QED
      BY <2>1, <3>1, <3>2
  <2> QED
    BY <1>3, <2>1, <2>2, <2>3, <2>4 DEF ListInv, Allowed, Abstract!listVars
<1> QED
  BY <1>1, <1>2, <1>3

(* list_rewind rewinds. *)
LEMMA StepListRewind ==
  ASSUME TypeOK, TypeOK', NEW s, Held(s), ~fault, ListRewind
  PROVE  ListInv' /\ Allowed
<1>1. /\ op = "idle" /\ current' = NULL
      /\ UNCHANGED <<first, last, next, prev, p, live, op, tmp, key, out, fault>>
  BY DEF ListRewind, heap, loop, Idle
<1>2. Points(s, current', stale')
  BY <1>1 DEF Points
<1>3. Held(s)'
  BY <1>1, <1>2 DEF Held
<1>4. Items = ItemsOf(s, p)
  BY <1>1, ItemsAre DEF Held
<1>5. Items' = ItemsOf(s, p) /\ Cursor' = 0
  <2>1. Items' = ItemsOf(s, p') /\ Cursor' = Position(s, current', stale', FALSE)
    BY <1>1, <1>3, ItemsAreNext DEF Held
  <2> QED
    BY <1>1, <2>1 DEF Position
<1>6. Abstract!Rewind
  BY <1>1, <1>4, <1>5 DEF Abstract!Rewind
<1> QED
  BY <1>1, <1>3, <1>6 DEF ListInv, Allowed, Abstract!Next

(* free_list empties the list as it starts... *)
LEMMA StepFreeList ==
  ASSUME TypeOK, TypeOK', NEW s, Held(s), ~fault, FreeList
  PROVE  ListInv' /\ Allowed
<1>1. /\ op = "idle" /\ op' = "free" /\ tmp' = last /\ last # NULL
      /\ UNCHANGED <<first, current, last, next, prev, p, live, key, out, stale, fault>>
  BY DEF FreeList, heap, Idle
<1>2. s \in Seq(live) /\ Distinct(s) /\ s # <<>> /\ s[1] \in live
  <2>1. s \in Seq(live) /\ s # <<>>
    BY <1>1 DEF Held, Wired
  <2> QED
    BY <2>1, EmptySeq, ElementOfSeq DEF Held, Wired
<1>3. first # NULL
  BY <1>2, CellsAssumption DEF Held, Wired, TypeOK
<1>4. Freeing(s)'
  BY <1>1, <1>2, <1>3 DEF Freeing, Held, Wired, Filled
<1>5. Items = ItemsOf(s, p) /\ Cursor = Position(s, current, stale, FALSE)
  BY <1>1, ItemsAre DEF Held
<1>6. Items' = <<>> /\ Cursor' = IF current = NULL THEN 0 ELSE -1
  BY <1>1, ItemsWhileFree
<1>7. Cursor = 0 <=> current = NULL
  <2>1. CASE current # NULL /\ ~stale
    <3>1. PICK i \in 1 .. Len(s) : s[i] = current
      BY <2>1 DEF Held, Points
    <3>2. stale = FALSE
      BY <2>1 DEF TypeOK
    <3>3. Cursor = Position(s, s[i], FALSE, FALSE)
      BY <1>5, <3>1, <3>2
    <3>4. Cursor = i
      BY <1>2, <2>1, <3>1, <3>3, PositionIs
    <3> QED
      BY <2>1, <3>4
  <2>2. CASE current = NULL \/ stale
    BY <1>5, <2>2 DEF Position
  <2> QED
    BY <2>1, <2>2
<1>8. Abstract!Free
  BY <1>1, <1>6, <1>7 DEF Abstract!Free, Abstract!Dangling
<1> QED
  BY <1>1, <1>4, <1>8 DEF ListInv, Allowed, Abstract!Next

(* ...deletes the last of the cells that are left... *)
LEMMA StepFreeStep ==
  ASSUME TypeOK, TypeOK', NEW r, Freeing(r), ~fault, FreeStep
  PROVE  ListInv' /\ Allowed
<1>0. PICK n : n = Len(r)
  OBVIOUS
<1> DEFINE u == SubSeq(r, 1, n - 1)
<1>1. /\ r \in Seq(live) /\ Distinct(r) /\ n \in Nat /\ n > 0
      /\ \A i \in 1 .. n : r[i] \in live
      /\ tmp = r[n] /\ tmp \in live /\ live \subseteq Cells
  <2>1. r \in Seq(live) /\ r # <<>> /\ tmp = r[n]
    BY <1>0 DEF Freeing, FreeStep
  <2> QED
    BY <1>0, <2>1, LenProperties, ElementOfSeq, EmptySeq DEF Freeing, TypeOK
<1>2. /\ tmp' = prev[tmp] /\ op = "free"
      /\ prev' = [prev EXCEPT ![tmp] = NULL]
      /\ live' = live \ {tmp} /\ p' = [p EXCEPT ![tmp] = NULL]
      /\ stale' = (IF current = tmp THEN TRUE ELSE stale)
      /\ UNCHANGED <<first, current, last, op, key, out, fault>>
  BY <1>1 DEF FreeStep, Delete
<1>3. prev \in [Cells -> Ptr] /\ p \in [Cells -> Values \cup {NULL}]
  BY DEF TypeOK
<1>4. /\ Len(u) = n - 1 /\ u \in Seq(live)
      /\ \A i \in 1 .. n - 1 : u[i] = r[i]
  <2>1. \A i \in 1 .. n - 1 : r[i] \in live
    BY <1>1
  <2>2. /\ u \in Seq(live)
        /\ Len(u) = IF 1 <= n - 1 THEN n - 1 - 1 + 1 ELSE 0
        /\ \A i \in 1 .. n - 1 - 1 + 1 : u[i] = r[1 + i - 1]
    BY <1>1, <2>1, SubSeqProperties
  <2> HIDE DEF u
  <2> QED
    BY <1>1, <2>2
<1>5. \A i \in 1 .. n - 1 : u[i] = r[i] /\ r[i] # tmp /\ r[i] \in live' /\ r[i] \in Cells
  BY <1>0, <1>1, <1>2, <1>4 DEF Distinct
<1>6. u \in Seq(live')
  <2> HIDE DEF u
  <2>1. u \in [1 .. n - 1 -> live'] /\ n - 1 \in Nat
    <3>1. u \in [1 .. n - 1 -> live] /\ n - 1 \in Nat
      BY <1>1, <1>4, LenProperties
    <3> QED
      BY <1>5, <3>1
  <2> QED
    BY <2>1, SeqDef
<1>7. Distinct(u)
  <2> HIDE DEF u
  <2> QED
    BY <1>0, <1>1, <1>4 DEF Distinct
<1>8. /\ u = <<>> => tmp' = NULL
      /\ u # <<>> => tmp' = u[Len(u)] /\ prev'[u[1]] = NULL
  <2>1. CASE n = 1
    <3>1. u = <<>>
      BY <1>4, <2>1, EmptySeq
    <3>2. prev[r[1]] = NULL
      BY <1>0, <1>1 DEF Freeing
    <3> HIDE DEF u
    <3> QED
      BY <1>1, <1>2, <2>1, <3>1, <3>2
  <2>2. CASE n # 1
    <3>1. n - 1 \in 1 .. n - 1 /\ 1 \in 1 .. n - 1 /\ n - 1 + 1 = n
      BY <1>1, <2>2
    <3>2. u # <<>>
      <4> HIDE DEF u
      <4>1. Len(u) # 0
        BY <1>1, <1>4, <3>1
      <4> QED
        BY <4>1
    <3>3. prev[r[n]] = r[n - 1] /\ prev[r[1]] = NULL
      BY <1>0, <1>1, <3>1 DEF Freeing
    <3> HIDE DEF u
    <3>4. u[Len(u)] = r[n - 1] /\ u[1] = r[1]
      BY <1>4, <3>1
    <3>5. prev'[r[1]] = NULL
      BY <1>2, <1>3, <1>5, <3>1, <3>3
    <3> QED
      BY <1>1, <1>2, <3>2, <3>3, <3>4, <3>5
  <2> QED
    BY <2>1, <2>2
<1>9. \A i \in 1 .. Len(u) - 1 : prev'[u[i + 1]] = u[i]
  <2> HIDE DEF u
  <2> TAKE i \in 1 .. Len(u) - 1
  <2>1. i \in 1 .. n - 1 /\ i + 1 \in 1 .. n - 1
    BY <1>1, <1>4
  <2>2. prev[r[i + 1]] = r[i]
    BY <1>0, <2>1 DEF Freeing
  <2> QED
    BY <1>2, <1>3, <1>5, <2>1, <2>2
<1>10. ASSUME NEW i \in 1 .. n, r[i] # tmp PROVE i \in 1 .. Len(u) /\ u[i] = r[i]
  <2> HIDE DEF u
  <2>1. i # n
    BY <1>1, <1>10
  <2> QED
    BY <1>1, <1>4, <2>1
<1> HIDE DEF u
<1>11. \A d \in live' : p'[d] # NULL => \E i \in 1 .. Len(u) : u[i] = d
  <2> TAKE d \in live'
  <2> HAVE p'[d] # NULL
  <2>1. d # tmp /\ d \in live /\ p[d] # NULL
    BY <1>1, <1>2, <1>3
  <2>2. PICK i \in 1 .. n : r[i] = d
    BY <1>0, <2>1 DEF Freeing
  <2> QED
    BY <1>10, <2>1, <2>2
<1>12. Points(u, current', stale')
  BY <1>0, <1>2, <1>10 DEF Freeing, Points
<1>13. Freeing(u)'
  BY <1>2, <1>6, <1>7, <1>8, <1>9, <1>11, <1>12 DEF Freeing
<1>14. UNCHANGED <<Items, Cursor, out>>
  BY <1>2, ItemsWhileFree
<1> QED
  BY <1>2, <1>13, <1>14 DEF ListInv, Allowed, Abstract!listVars

(* ...and none is left when it ends. *)
LEMMA StepFreeEnd ==
  ASSUME TypeOK, TypeOK', NEW r, Freeing(r), ~fault, FreeEnd
  PROVE  ListInv' /\ Allowed
<1>1. /\ op = "free" /\ op' = "idle" /\ tmp = NULL /\ first' = NULL /\ last' = NULL
      /\ UNCHANGED <<current, next, prev, p, live, key, out, stale, fault>>
  BY DEF FreeEnd, heap
<1>2. r = <<>>
  <2>1. r # <<>> => r[Len(r)] \in live /\ tmp = r[Len(r)]
    <3>1. r \in Seq(live)
      BY DEF Freeing
    <3>2. r # <<>> => Len(r) \in 1 .. Len(r)
      BY <3>1, EmptySeq
    <3> QED
      BY <3>1, <3>2, ElementOfSeq DEF Freeing
  <2> QED
    BY <1>1, <2>1, CellsAssumption DEF TypeOK
<1>3. Held(<<>>)'
  BY <1>1, <1>2 DEF Freeing, Held, Wired, Distinct, Filled, Points
<1>4. Items = <<>> /\ Cursor = IF current = NULL THEN 0 ELSE -1
  BY <1>1, ItemsWhileFree
<1>5. Items' = ItemsOf(<<>>, p') /\ Cursor' = Position(<<>>, current', stale', FALSE)
  BY <1>1, <1>3, ItemsAreNext DEF Held
<1>6. Items' = <<>> /\ Cursor' = IF current' = NULL THEN 0 ELSE -1
  BY <1>5 DEF ItemsOf, Position
<1> QED
  BY <1>1, <1>3, <1>4, <1>6 DEF ListInv, Allowed, Abstract!listVars

(* What remove_object finds at the k-th cell. *)
LEMMA Neighbours ==
  ASSUME NEW s, Wired(s, live, next, prev, first, last), TypeOK, NEW k \in 1 .. Len(s)
  PROVE  /\ s[k] \in live
         /\ s[k] = first <=> k = 1
         /\ s[k] = last <=> k = Len(s)
         /\ k # Len(s) => next[s[k]] = s[k + 1] /\ s[k + 1] \in live
         /\ k # 1 => prev[s[k]] = s[k - 1] /\ s[k - 1] \in live
         /\ k = Len(s) => next[s[k]] = NULL
<1>1. /\ s \in Seq(live) /\ Distinct(s) /\ Len(s) \in Nat
      /\ \A i \in 1 .. Len(s) : s[i] \in live
      /\ s # <<>>
  BY LenProperties, ElementOfSeq, EmptySeq DEF Wired
<1>2. first = s[1] /\ last = s[Len(s)] /\ next[s[Len(s)]] = NULL
  BY <1>1 DEF Wired
<1>3. 1 \in 1 .. Len(s) /\ Len(s) \in 1 .. Len(s)
  BY <1>1
<1>4. s[k] = first <=> k = 1
  BY <1>1, <1>2, <1>3 DEF Distinct
<1>5. s[k] = last <=> k = Len(s)
  BY <1>1, <1>2, <1>3 DEF Distinct
<1>6. k # Len(s) => next[s[k]] = s[k + 1] /\ s[k + 1] \in live
  <2>1. k # Len(s) => k \in 1 .. Len(s) - 1 /\ k + 1 \in 1 .. Len(s)
    BY <1>1
  <2> QED
    BY <1>1, <2>1 DEF Wired
<1>7. k # 1 => prev[s[k]] = s[k - 1] /\ s[k - 1] \in live
  <2>1. k # 1 => k - 1 \in 1 .. Len(s) - 1 /\ k - 1 \in 1 .. Len(s) /\ k - 1 + 1 = k
    BY <1>1
  <2>2. k # 1 => prev[s[k - 1 + 1]] = s[k - 1]
    BY <2>1 DEF Wired
  <2> QED
    BY <1>1, <2>1, <2>2
<1> QED
  BY <1>1, <1>2, <1>4, <1>5, <1>6, <1>7

(* remove_object looks at cells of the list only, each with its payload. *)
LEMMA SearchMeetsCells ==
  ASSUME TypeOK, NEW s, Held(s), op = "remove", tmp # NULL
  PROVE  \E k \in 1 .. Len(s) :
             /\ tmp = s[k] /\ tmp \in live /\ p[tmp] # NULL
             /\ \A j \in 1 .. k - 1 : p[s[j]] # key
<1>1. PICK k \in 1 .. Len(s) : s[k] = tmp /\ \A j \in 1 .. k - 1 : p[s[j]] # key
  BY DEF Held, Searching
<1> QED
  BY <1>1, Neighbours DEF Held, Filled

(* remove_object starts at the first cell... *)
LEMMA StepRemoveObject ==
  ASSUME TypeOK, TypeOK', NEW s, Held(s), ~fault, NEW v \in Values, RemoveObject(v)
  PROVE  ListInv' /\ Allowed
<1>1. /\ op = "idle" /\ op' = "remove" /\ first # NULL /\ tmp' = first /\ key' = v
      /\ UNCHANGED <<first, current, last, heap, out, stale, fault>>
  BY DEF RemoveObject, Idle
<1>2. s # <<>> /\ first = s[1] /\ 1 \in 1 .. Len(s)
  BY <1>1, EmptySeq DEF Held, Wired
<1>3. Searching(s, p, tmp', key')
  BY <1>1, <1>2 DEF Searching
<1> QED
  BY <1>1, <1>3, ListKept DEF Allowed, Abstract!listVars

(* ...goes on to the next... *)
LEMMA StepRemoveSkip ==
  ASSUME TypeOK, TypeOK', NEW s, Held(s), ~fault, RemoveSkip
  PROVE  ListInv' /\ Allowed
<1>1. /\ op = "remove" /\ tmp \in live /\ p[tmp] # key /\ tmp' = next[tmp]
      /\ UNCHANGED <<first, current, last, heap, op, key, out, stale, fault>>
  BY DEF RemoveSkip, Removing
<1>2. tmp # NULL
  BY <1>1, CellsAssumption DEF TypeOK
<1>3. PICK k \in 1 .. Len(s) : tmp = s[k] /\ \A j \in 1 .. k - 1 : p[s[j]] # key
  BY <1>1, <1>2, SearchMeetsCells
<1>4. Searching(s, p, tmp', key')
  <2>1. CASE k = Len(s)
    <3>1. tmp' = NULL
      BY <1>1, <1>3, <2>1, Neighbours DEF Held
    <3> QED
      BY <3>1 DEF Searching
  <2>2. CASE k # Len(s)
    <3>1. k + 1 \in 1 .. Len(s)
      BY <2>2, LenProperties DEF Held, Wired
    <3>2. tmp' = s[k + 1]
      BY <1>1, <1>3, <2>2, Neighbours DEF Held
    <3>3. \A j \in 1 .. k + 1 - 1 : j = k \/ j \in 1 .. k - 1
      OBVIOUS
    <3>4. \A j \in 1 .. k + 1 - 1 : p[s[j]] # key
      BY <1>1, <1>3, <3>3
    <3> QED
      BY <1>1, <3>1, <3>2, <3>4 DEF Searching
  <2> QED
    BY <2>1, <2>2
<1> QED
  BY <1>1, <1>4, ListKept DEF Allowed, Abstract!listVars

(* ...may find nothing... *)
LEMMA StepRemoveMissing ==
  ASSUME TypeOK, TypeOK', NEW s, Held(s), ~fault, RemoveMissing
  PROVE  ListInv' /\ Allowed
<1>1. /\ op = "remove" /\ op' = "idle"
      /\ UNCHANGED <<first, current, last, heap, out, stale, fault>>
  BY DEF RemoveMissing, Removing, RemoveReturns
<1> QED
  BY <1>1, ListKept DEF Allowed, Abstract!listVars

(* ...or takes the first cell equal to its argument out of the list. *)
LEMMA StepRemoveUnlinks ==
  ASSUME TypeOK, TypeOK', NEW s, Held(s), ~fault, RemoveUnlinks
  PROVE  ListInv' /\ Allowed
<1> USE CellsAssumption
<1>1. op = "remove" /\ tmp \in live /\ p[tmp] = key /\ tmp # NULL /\ live \subseteq Cells /\ NULL \notin live
  BY DEF RemoveUnlinks, Removing, TypeOK
<1>2. PICK k \in 1 .. Len(s) : tmp = s[k] /\ \A j \in 1 .. k - 1 : p[s[j]] # key
  BY <1>1, SearchMeetsCells
<1>3. p[tmp] # NULL
  BY <1>1, SearchMeetsCells
<1>4. Wired(s, live, next, prev, first, last)
  BY DEF Held
<1> DEFINE n == After(s, k)
           b == Before(s, k)
<1>5. /\ n = IF tmp = last THEN NULL ELSE next[tmp]
      /\ b = IF tmp = first THEN NULL ELSE prev[tmp]
      /\ tmp # last => n \in live
      /\ tmp # first => b \in live
      /\ tmp = first <=> k = 1
      /\ tmp = last <=> k = Len(s)
  BY <1>2, <1>4, Neighbours DEF After, Before
<1>6. /\ first' = IF k = 1 THEN n ELSE first
      /\ last' = IF k = Len(s) THEN b ELSE last
      /\ next' = Relink(next, b, n)
      /\ prev' = Relink(prev, n, b)
      /\ Delete(tmp)
      /\ RemoveReturns
      /\ UNCHANGED <<current, out, fault>>
  <2> DEFINE nn == IF tmp = last THEN NULL ELSE next[tmp]
             bb == IF tmp = first THEN NULL ELSE prev[tmp]
  <2>1. IF \/ tmp # last /\ nn \notin live
           \/ tmp # first /\ bb \notin live
        THEN Fault
        ELSE /\ first' = IF tmp = first THEN nn ELSE first
             /\ last' = IF tmp = last THEN bb ELSE last
             /\ next' = Relink(next, bb, nn)
             /\ prev' = Relink(prev, nn, bb)
             /\ Delete(tmp)
             /\ RemoveReturns
             /\ UNCHANGED <<current, out, fault>>
    BY DEF RemoveUnlinks
  <2>2. n = nn /\ b = bb
    BY <1>5
  <2> HIDE DEF n, b, nn, bb
  <2> QED
    BY <1>5, <2>1, <2>2
<1> DEFINE t == Without(s, k)
<1>7. Wired(t, live', next', prev', first', last')
  <2>1. next' = Unlinked(next, s[k], b, n) /\ prev' = Unlinked(prev, s[k], n, b)
    BY <1>2, <1>6 DEF Relink, Unlinked
  <2>2. live' = live \ {s[k]}
    BY <1>2, <1>6 DEF Delete
  <2>3. next \in [Cells -> Ptr] /\ prev \in [Cells -> Ptr]
    BY DEF TypeOK
  <2>4. Wired(Without(s, k), live \ {s[k]}, Unlinked(next, s[k], b, n), Unlinked(prev, s[k], n, b),
              IF k = 1 THEN n ELSE first, IF k = Len(s) THEN b ELSE last)
    BY <1>1, <1>4, <2>3, WiredRemove
  <2> HIDE DEF n, b
  <2> QED
    BY <1>6, <2>1, <2>2, <2>4
<1> HIDE DEF n, b
<1>8. /\ s \in Seq(live) /\ Distinct(s) /\ Len(s) \in Nat /\ Len(t) = Len(s) - 1
      /\ \A i \in 1 .. Len(s) : s[i] \in live
      /\ \A i \in 1 .. Len(s) : i < k => i \in 1 .. Len(t) /\ t[i] = s[i]
      /\ \A i \in 1 .. Len(s) : i > k => i - 1 \in 1 .. Len(t) /\ t[i - 1] = s[i]
  <2>1. s \in Seq(live) /\ Distinct(s) /\ Len(s) \in Nat /\ \A i \in 1 .. Len(s) : s[i] \in live
    BY <1>4, LenProperties, ElementOfSeq DEF Wired
  <2>2. Len(t) = Len(s) - 1
    BY <2>1, RemoveIsWithout
  <2>3. ASSUME NEW i \in 1 .. Len(s), i < k PROVE i \in 1 .. Len(t) /\ t[i] = s[i]
    BY <2>1, <2>2, <2>3 DEF Without
  <2>4. ASSUME NEW i \in 1 .. Len(s), i > k PROVE i - 1 \in 1 .. Len(t) /\ t[i - 1] = s[i]
    <3>1. i - 1 \in 1 .. Len(s) - 1 /\ ~(i - 1 < k) /\ i - 1 + 1 = i
      BY <2>1, <2>4
    <3> QED
      BY <2>2, <3>1 DEF Without
  <2> HIDE DEF t
  <2> QED
    BY <2>1, <2>2, <2>3, <2>4
<1>9. /\ p' = [p EXCEPT ![s[k]] = NULL] /\ live' = live \ {s[k]}
      /\ stale' = (IF current = s[k] THEN TRUE ELSE stale)
      /\ p \in [Cells -> Values \cup {NULL}]
      /\ op' = "idle" /\ s[k] \in live
  BY <1>1, <1>2, <1>6 DEF Delete, RemoveReturns, TypeOK
<1>10. \A i \in 1 .. Len(s) : s[i] # s[k] => \E j \in 1 .. Len(t) : t[j] = s[i]
  <2> HIDE DEF t
  <2> TAKE i \in 1 .. Len(s)
  <2> HAVE s[i] # s[k]
  <2>1. i < k \/ i > k
    BY <1>8
  <2> QED
    BY <1>8, <2>1
<1>11. Filled(t, live', p')
  <2>1. ASSUME NEW j \in 1 .. Len(t) PROVE p'[t[j]] # NULL
    <3>1. t \in Seq(live')
      BY <1>7 DEF Wired
    <3> HIDE DEF t
    <3>2. t[j] \in live'
      BY <3>1, ElementOfSeq
    <3>3. PICK i \in 1 .. Len(s) : t[j] = s[i]
      BY <1>8 DEF t, Without
    <3> QED
      BY <1>1, <1>9, <3>2, <3>3 DEF Held, Filled
  <2>2. ASSUME NEW d \in live', p'[d] # NULL PROVE \E j \in 1 .. Len(t) : t[j] = d
    <3> HIDE DEF t
    <3>1. PICK i \in 1 .. Len(s) : s[i] = d
      BY <1>1, <1>9, <2>2 DEF Held, Filled
    <3> QED
      BY <1>9, <1>10, <3>1
  <2> HIDE DEF t
  <2> QED
    BY <2>1, <2>2 DEF Filled
<1>12. Points(t, current', stale')
  <2> HIDE DEF t
  <2> QED
    BY <1>6, <1>9, <1>10 DEF Held, Points
<1>13. Held(t)'
  BY <1>7, <1>9, <1>11, <1>12 DEF Held
<1>14. ListInv'
  BY <1>6, <1>9, <1>13 DEF ListInv
<1> HIDE DEF t
<1>15. Items = ItemsOf(s, p) /\ Cursor = Position(s, current, stale, FALSE)
  BY <1>1, <1>4, ItemsAre
<1>16. Items' = ItemsOf(t, p') /\ Cursor' = Position(t, current', stale', FALSE)
  BY <1>7, <1>9, ItemsAreNext
<1>17. Items' = RemoveAt(Items, k)
  <2> DEFINE q == [p EXCEPT ![s[k]] = NULL]
  <2>1. ItemsOf(Without(s, k), q) = RemoveAt(ItemsOf(s, p), k)
    BY <1>1, <1>8, <1>9, ItemsWithout
  <2>2. p' = q
    BY <1>9
  <2> HIDE DEF q
  <2> QED
    BY <1>15, <1>16, <2>1, <2>2 DEF t
<1>18. /\ k \in DOMAIN Items /\ Items[k] = key
       /\ \A j \in 1 .. k - 1 : Items[j] # key
  <2>1. /\ ItemsOf(s, p) \in Seq(Values \cup {NULL})
        /\ Len(ItemsOf(s, p)) = Len(s)
        /\ \A i \in 1 .. Len(s) : ItemsOf(s, p)[i] = p[s[i]]
    BY <1>1, <1>8, <1>9, ItemsOfType
  <2>2. DOMAIN ItemsOf(s, p) = 1 .. Len(s)
    BY DEF ItemsOf
  <2>3. \A j \in 1 .. k - 1 : j \in 1 .. Len(s)
    BY <1>8
  <2> QED
    BY <1>1, <1>2, <1>15, <2>1, <2>2, <2>3
<1>19. Cursor' = CASE Cursor = k -> -1
                   [] Cursor > k -> Cursor - 1
                   [] OTHER -> Cursor
  <2>1. CASE current = NULL
    <3>1. Cursor = 0 /\ Cursor' = 0
      BY <1>6, <1>15, <1>16, <2>1 DEF Position
    <3> QED
      BY <3>1
  <2>2. CASE current # NULL /\ stale
    <3>1. Cursor = -1 /\ Cursor' = -1
      BY <1>6, <1>9, <1>15, <1>16, <2>2 DEF Position
    <3> QED
      BY <3>1
  <2>3. CASE current # NULL /\ ~stale
    <3>1. PICK i \in 1 .. Len(s) : s[i] = current
      BY <2>3 DEF Held, Points
    <3>2. Cursor = i
      <4>1. stale = FALSE
        BY <2>3 DEF TypeOK
      <4>2. Cursor = Position(s, s[i], FALSE, FALSE)
        BY <1>15, <3>1, <4>1
      <4> QED
        BY <1>8, <2>3, <3>1, <4>2, PositionIs
    <3>3. CASE i = k
      <4>1. current' # NULL /\ stale'
        BY <1>6, <1>9, <2>3, <3>1, <3>3
      <4>2. Cursor' = -1
        BY <1>16, <4>1 DEF Position
      <4> QED
        BY <3>2, <3>3, <4>2
    <3>4. CASE i # k
      <4> DEFINE j == IF i < k THEN i ELSE i - 1
      <4>1. j \in 1 .. Len(t) /\ t[j] = current
        BY <1>8, <3>1, <3>4
      <4>2. current # s[k]
        BY <1>8, <3>1, <3>4 DEF Distinct
      <4>3. current' = current /\ stale' = FALSE
        BY <1>6, <1>9, <2>3, <4>2 DEF TypeOK
      <4>4. Distinct(t)
        BY <1>7 DEF Wired
      <4> HIDE DEF j
      <4>5. Cursor' = Position(t, t[j], FALSE, FALSE)
        BY <1>16, <4>1, <4>3
      <4>6. Cursor' = j
        BY <2>3, <4>1, <4>4, <4>5, PositionIs
      <4> QED
        BY <3>2, <3>4, <4>6 DEF j
    <3> QED
      BY <3>3, <3>4
  <2> QED
    BY <2>1, <2>2, <2>3
<1>20. Abstract!Discard(key)
  <2>1. /\ Items[k] = key
        /\ \A j \in 1 .. k - 1 : Items[j] # key
        /\ Items' = Abstract!RemoveAt(Items, k)
        /\ Cursor' = CASE Cursor = k -> Abstract!Dangling
                        [] Cursor > k -> Cursor - 1
                        [] OTHER -> Cursor
        /\ UNCHANGED out
    BY <1>6, <1>17, <1>18, <1>19 DEF RemoveAt, Abstract!RemoveAt, Abstract!Dangling
  <2> QED
    BY <1>18, <2>1, Zenon DEF Abstract!Discard
<1>21. key \in Values
  BY <1>1, <1>3 DEF TypeOK
<1> QED
  BY <1>14, <1>20, <1>21 DEF Allowed, Abstract!Next

(* A cursor over a deleted cell is not rewound. *)
LEMMA OnCellStep ==
  ASSUME TypeOK, TypeOK', OnCell, [Next]_vars
  PROVE  OnCell'
<1> USE CellsAssumption DEF TypeOK, OnCell
<1>1. ASSUME NEW v \in Values, AddObject(v) \/ RemoveObject(v) PROVE OnCell'
  BY <1>1 DEF AddObject, RemoveObject
<1>2. CASE Fault
  BY <1>2 DEF Fault
<1>3. CASE NodeAllocFails \/ PayloadAllocFails
  BY <1>3 DEF NodeAllocFails, PayloadAllocFails
<1>4. CASE GetObject
  BY <1>2, <1>4 DEF GetObject
<1>5. CASE ListRewind
  BY <1>5 DEF ListRewind
<1>6. CASE FreeList \/ FreeEnd
  BY <1>6 DEF FreeList, FreeEnd
<1>7. CASE FreeStep
  BY <1>2, <1>7 DEF FreeStep, Delete
<1>8. CASE RemoveSkip \/ RemoveMissing
  BY <1>8 DEF RemoveSkip, RemoveMissing
<1>9. CASE RemoveUnlinks
  <2>1. UNCHANGED <<current, stale>> \/ (UNCHANGED current /\ Delete(tmp) /\ tmp # NULL)
    BY <1>9, Zenon DEF RemoveUnlinks, Fault
  <2> QED
    BY <2>1 DEF Delete
<1>10. CASE UNCHANGED vars
  BY <1>10 DEF vars
<1> QED
  BY <1>1, <1>2, <1>3, <1>4, <1>5, <1>6, <1>7, <1>8, <1>9, <1>10
  DEF Next, AddFaults, RemoveFaults

(* Nothing follows a fault. *)
LEMMA FaultIsLast ==
  ASSUME fault, [Next]_vars
  PROVE  UNCHANGED vars
BY DEF Next, AddObject, RemoveObject, AddFaults, NodeAllocFails, PayloadAllocFails,
   GetObject, ListRewind, FreeList, FreeStep, FreeEnd, RemoveFaults, RemoveSkip,
   RemoveMissing, RemoveUnlinks, Removing, Idle

(* Every step is one of these. *)
LEMMA ListStep ==
  ASSUME TypeOK, TypeOK', OnCell, ListInv, [Next]_vars
  PROVE  ListInv' /\ Allowed
<1>1. CASE Half
  BY <1>1, HalfForGood
<1>4. CASE ~Half /\ fault
  <2>1. UNCHANGED <<first, current, last, next, prev, p, live, op, tmp, key, out, stale, fault>>
    BY <1>4, FaultIsLast DEF vars, heap, loop
  <2>2. op = "idle" /\ stale /\ Dangles
    BY <1>4 DEF ListInv
  <2>3. PICK s : Held(s)
    BY <1>4, <2>2 DEF ListInv
  <2>4. Held(s)' /\ Dangles'
    BY <2>1, <2>2, <2>3 DEF Held, Dangles, Following
  <2>5. Items' = Items /\ Cursor' = Cursor
    <3>1. Items = ItemsOf(s, p) /\ Cursor = Position(s, current, stale, FALSE)
      BY <2>2, <2>3, ItemsAre DEF Held
    <3>2. Items' = ItemsOf(s, p') /\ Cursor' = Position(s, current', stale', FALSE)
      BY <2>1, <2>2, <2>4, ItemsAreNext DEF Held
    <3> QED
      BY <2>1, <3>1, <3>2
  <2> QED
    BY <2>1, <2>2, <2>4, <2>5 DEF ListInv, Allowed, Abstract!listVars
<1>2. CASE ~Half /\ ~fault /\ op # "free"
  <2>1. ~fault
    BY <1>2
  <2>2. PICK s : Held(s)
    BY <1>2 DEF ListInv
  <2>3. ASSUME NEW v \in Values, AddObject(v) PROVE ListInv' /\ Allowed
    BY <2>1, <2>2, <2>3, StepAddObject
  <2>4. ASSUME NEW v \in Values, RemoveObject(v) PROVE ListInv' /\ Allowed
    BY <2>1, <2>2, <2>4, StepRemoveObject
  <2>5. CASE AddFaults
    <3>1. s \in Seq(live) /\ first # NULL /\ last \notin live
      BY <2>2, <2>5 DEF AddFaults, Held, Wired
    <3>2. s # <<>> /\ last = s[Len(s)]
      BY <2>2, <3>1 DEF Held, Wired
    <3>3. Len(s) \in 1 .. Len(s)
      BY <3>1, <3>2, EmptySeq
    <3> QED
      BY <3>1, <3>2, <3>3, ElementOfSeq
  <2>6. CASE NodeAllocFails
    <3>1. /\ op = "idle" /\ op' = "idle" /\ out' = NULL
          /\ UNCHANGED <<first, current, last, heap, stale, fault>>
      BY <2>6 DEF NodeAllocFails, Idle, loop
    <3>2. ListInv' /\ Items' = Items /\ Cursor' = Cursor
      BY <2>1, <2>2, <3>1, ListKept
    <3>3. Abstract!AddFails
      BY <3>1, <3>2 DEF Abstract!AddFails
    <3> QED
      BY <3>2, <3>3 DEF Allowed, Abstract!Next
  <2>7. CASE PayloadAllocFails
    BY <2>1, <2>2, <2>7, StepPayloadAllocFails
  <2>8. CASE GetObject
    BY <2>1, <2>2, <2>8, StepGetObject
  <2>9. CASE ListRewind
    BY <2>1, <2>2, <2>9, StepListRewind
  <2>10. CASE FreeList
    BY <2>1, <2>2, <2>10, StepFreeList
  <2>11. CASE FreeStep \/ FreeEnd
    BY <1>2, <2>11 DEF FreeStep, FreeEnd
  <2>12. CASE RemoveFaults
    BY <2>2, <2>12, SearchMeetsCells DEF RemoveFaults, Removing
  <2>13. CASE RemoveSkip
    BY <2>1, <2>2, <2>13, StepRemoveSkip
  <2>14. CASE RemoveMissing
    BY <2>1, <2>2, <2>14, StepRemoveMissing
  <2>15. CASE RemoveUnlinks
    BY <2>1, <2>2, <2>15, StepRemoveUnlinks
  <2>16. CASE UNCHANGED vars
    <3>1. /\ UNCHANGED <<first, current, last, heap, stale, fault, op, tmp, key, out>>
      BY <2>16 DEF vars, loop
    <3>2. (op' = "remove") => Searching(s, p, tmp', key')
      BY <2>2, <3>1 DEF Held
    <3>3. ListInv' /\ Items' = Items /\ Cursor' = Cursor
      BY <1>2, <2>1, <2>2, <3>1, <3>2, ListKept
    <3> QED
      BY <3>1, <3>3 DEF Allowed, Abstract!listVars
  <2> QED
    BY <2>3, <2>4, <2>5, <2>6, <2>7, <2>8, <2>9, <2>10, <2>11, <2>12, <2>13, <2>14,
       <2>15, <2>16 DEF Next
<1>3. CASE ~Half /\ ~fault /\ op = "free"
  <2>1. ~fault
    BY <1>3
  <2>2. PICK r : Freeing(r)
    BY <1>3 DEF ListInv
  <2>3. CASE FreeStep
    BY <2>1, <2>2, <2>3, StepFreeStep
  <2>4. CASE FreeEnd
    BY <2>1, <2>2, <2>4, StepFreeEnd
  <2>5. CASE UNCHANGED vars
    <3>1. /\ UNCHANGED <<first, current, last, next, prev, p, live, stale, fault, op, tmp, key, out>>
      BY <2>5 DEF vars, loop, heap
    <3>2. Freeing(r)'
      BY <2>2, <3>1 DEF Freeing
    <3>3. Items' = Items /\ Cursor' = Cursor
      BY <1>3, <3>1, ItemsWhileFree
    <3> QED
      BY <1>3, <2>1, <3>1, <3>2, <3>3 DEF ListInv, Allowed, Abstract!listVars
  <2>6. Next => FreeStep \/ FreeEnd
    BY <1>3 DEF Next, AddObject, RemoveObject, AddFaults, NodeAllocFails, PayloadAllocFails,
       GetObject, ListRewind, FreeList, RemoveFaults, RemoveSkip, RemoveMissing,
       RemoveUnlinks, Removing, Idle
  <2> QED
    BY <2>3, <2>4, <2>5, <2>6
<1> QED
  BY <1>1, <1>2, <1>3, <1>4

(* Between calls the list reads the same in both directions, from first   *)
(* to last, and holds every object, so that free_list loses none, whatever *)
(* was added, removed and freed (linked.cpp).                              *)
THEOREM ListStaysLinked == Spec => []WellLinked
<1>1. TypeOK /\ ListInv => WellLinked
  <2> SUFFICES ASSUME TypeOK, ListInv, op = "idle", ~HalfBuilt PROVE WellLinked
    BY DEF WellLinked
  <2>1. ~Half
    BY CellsAssumption DEF Half, HalfBuilt, TypeOK
  <2>2. PICK s : Held(s)
    BY <2>1 DEF ListInv
  <2>3. Chain(first, next) = s /\ Chain(last, prev) = Reverse(s)
    BY <2>2, ItemsAre DEF Held
  <2>4. s \in Seq(live) /\ DOMAIN s = 1 .. Len(s)
    BY <2>2, LenProperties DEF Held, Wired
  <2>5. s = <<>> => first = NULL /\ last = NULL
    BY <2>2 DEF Held, Wired
  <2>6. s # <<>> => first # NULL /\ last # NULL /\ last = s[Len(s)]
    <3>1. s # <<>> => 1 \in 1 .. Len(s) /\ Len(s) \in 1 .. Len(s)
      BY <2>4, EmptySeq
    <3> QED
      BY <2>2, <2>4, <3>1, ElementOfSeq, CellsAssumption DEF Held, Wired, TypeOK
  <2>7. \A c \in live : p[c] # NULL => c \in ToSet(s)
    BY <2>2, <2>4 DEF Held, Filled, ToSet
  <2> QED
    BY <2>3, <2>5, <2>6, <2>7 DEF WellLinked, Last
<1> QED
  BY ListTypeCorrect, ListInitially, OnCellStep, ListStep, <1>1, PTL DEF Spec

(* add_object, free_list and remove_object follow no deleted or NULL       *)
(* pointer, and get_object only where the object under the cursor was      *)
(* deleted and the cursor not rewound, unless the first payload of the     *)
(* list could not be allocated (linked.cpp).                               *)
THEOREM FaultsAreExplained == Spec => []FaultOnlyHalfBuilt
<1>1. TypeOK /\ ListInv => FaultOnlyHalfBuilt
  BY CellsAssumption DEF FaultOnlyHalfBuilt, ListInv, Half, HalfBuilt, TypeOK
<1> QED
  BY ListTypeCorrect, ListInitially, OnCellStep, ListStep, <1>1, PTL DEF Spec

(* object_list implements CursorList: each call has the effect linked.h    *)
(* promises on the sequence of objects and its cursor, the walks of        *)
(* free_list and remove_object being one step.                             *)
THEOREM ListIsCursorList == Spec => ImplementsCursorList
<1>1. Init => Abstract!Init
  BY ListInitially
<1>2. TypeOK /\ TypeOK' /\ OnCell /\ ListInv /\ [Next]_vars
        => ListInv' /\ [~HalfBuilt' => Abstract!Next]_(Abstract!listVars)
  BY ListStep DEF Allowed
<1> QED
  BY ListTypeCorrect, ListInitially, OnCellStep, <1>1, <1>2, PTL DEF Spec, ImplementsCursorList
============================================================================
