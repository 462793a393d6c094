------------------------- MODULE RuleDocumentProofs -------------------------
(***************************************************************************)
(* Proofs about RuleDocument, for documents of every length.  Induction    *)
(* over data is done on sets: a set that holds 0 and n + 1 with n holds    *)
(* every natural number.                                                   *)
(***************************************************************************)
EXTENDS RuleDocument, SequenceTheorems, FiniteSetTheorems, TLAPS

-----------------------------------------------------------------------------
(* Induction and recursion.                                                *)

\* A set of numbers has a least one.
LEMMA LeastNumber ==
  ASSUME NEW T \in SUBSET Nat, T # {}
  PROVE  \E n \in T : \A m \in T : n <= m
  <1> DEFINE Less == {ss \in Nat \X Nat : ss[1] < ss[2]}
  <1>1. IsWellFoundedOn(Less, Nat)
    BY NatLessThanWellFounded DEF OpToRel
  <1>2. PICK n \in T : \A m \in T : <<m, n>> \notin Less
    BY <1>1, WFMin
  <1>3. ASSUME NEW m \in T PROVE n <= m
    <2>1. <<m, n>> \in Nat \X Nat /\ <<m, n>>[1] = m /\ <<m, n>>[2] = n
      OBVIOUS
    <2>2. ~ (m < n)
      BY <2>1, <1>2
    <2> QED
      BY <2>2
  <1> QED
    BY <1>3

\* Induction over the numbers.
LEMMA Induction ==
  ASSUME NEW S, 0 \in S, \A n \in Nat : n \in S => n + 1 \in S
  PROVE  Nat \subseteq S
  <1> SUFFICES ASSUME Nat \ S # {} PROVE FALSE
    OBVIOUS
  <1>1. PICK n \in Nat \ S : \A m \in Nat \ S : n <= m
    BY LeastNumber
  <1> QED
    BY <1>1, n - 1 \in Nat, n = (n - 1) + 1

\* Induction over the sequences.
LEMMA SequenceInduction ==
  ASSUME NEW A, NEW P, <<>> \in P,
         \A s \in Seq(A), e \in A : s \in P => Append(s, e) \in P
  PROVE  Seq(A) \subseteq P
  <1> DEFINE S == {n \in Nat : \A s \in Seq(A) : Len(s) = n => s \in P}
  <1>1. 0 \in S
    <2>1. \A s \in Seq(A) : Len(s) = 0 => s = <<>>
      OBVIOUS
    <2> QED
      BY <2>1
  <1>2. ASSUME NEW n \in Nat, n \in S PROVE n + 1 \in S
    <2> SUFFICES ASSUME NEW s \in Seq(A), Len(s) = n + 1 PROVE s \in P
      OBVIOUS
    <2>1. s # <<>>
      OBVIOUS
    <2>2. PICK t \in Seq(A), e \in A : s = Append(t, e)
      BY <2>1, SequenceEmptyOrAppend
    <2>3. Len(t) = n
      BY <2>2, AppendProperties
    <2> QED
      BY <2>2, <2>3, <1>2
  <1>3. Nat \subseteq S
    <2> HIDE DEF S
    <2> QED
      BY <1>1, <1>2, Induction
  <1> QED
    BY <1>3

\* A value at 0 and a step from each value to the next define a function.
Iterates(g, T, base, n, step) ==
  g \in [0..n -> T] /\ g[0] = base /\ \A i \in 1..n : g[i] = step[i][g[i - 1]]

\* A base and typed steps have such a function.
LEMMA Recursion ==
  ASSUME NEW T, NEW base \in T, NEW N \in Nat, NEW step \in [1..N -> [T -> T]]
  PROVE  \E g : Iterates(g, T, base, N, step)
  <1> USE DEF Iterates
  <1> DEFINE Defined(n, g) == Iterates(g, T, base, n, step)
             S == {n \in Nat : n <= N => \E g : Defined(n, g)}
  <1>1. 0 \in S
    <2>1. Defined(0, [i \in 0..0 |-> base])
      OBVIOUS
    <2> QED
      BY <2>1
  <1>2. ASSUME NEW n \in Nat, n \in S PROVE n + 1 \in S
    <2> SUFFICES ASSUME n + 1 <= N PROVE \E g : Defined(n + 1, g)
      OBVIOUS
    <2>1. PICK g : Defined(n, g)
      BY <1>2
    <2> DEFINE h == [i \in 0..(n + 1) |-> IF i <= n THEN g[i] ELSE step[n + 1][g[n]]]
    <2>2. h \in [0..(n + 1) -> T]
      <3>1. g[n] \in T /\ step[n + 1] \in [T -> T]
        BY <2>1
      <3>2. step[n + 1][g[n]] \in T
        BY <3>1
      <3> QED
        BY <3>2, <2>1
    <2>3. h[0] = base
      BY <2>1
    <2>4. ASSUME NEW i \in 1..(n + 1) PROVE h[i] = step[i][h[i - 1]]
      <3>1. CASE i <= n
        BY <3>1, <2>1
      <3>2. CASE i = n + 1
        BY <3>2
      <3> QED
        BY <3>1, <3>2
    <2> QED
      BY <2>2, <2>3, <2>4
  <1>3. N \in S
    <2> HIDE DEF S
    <2> QED
      BY <1>1, <1>2, Induction
  <1> QED
    BY <1>3

-----------------------------------------------------------------------------
(* What is left of a sequence when some elements are dropped.              *)

\* The recursive definition of Without has a solution, which is the one it takes.
Keeps(g, s, S) ==
  /\ g[0] = <<>>
  /\ \A i \in 1..Len(s) :
       g[i] = IF s[i] \in S THEN g[i - 1] ELSE Append(g[i - 1], s[i])

\* Two solutions agree as far as their sequences do.
LEMMA KeepsAgree ==
  ASSUME NEW s, NEW u, NEW S, NEW g, NEW h, NEW N \in Nat,
         Len(s) \in Nat, Len(u) \in Nat, N <= Len(s), N <= Len(u),
         \A i \in 1..N : s[i] = u[i], Keeps(g, s, S), Keeps(h, u, S)
  PROVE  g[N] = h[N]
  <1> DEFINE Agree == {n \in Nat : n <= N => g[n] = h[n]}
  <1>1. 0 \in Agree
    BY DEF Keeps
  <1>2. ASSUME NEW n \in Nat, n \in Agree PROVE n + 1 \in Agree
    <2> SUFFICES ASSUME n + 1 <= N PROVE g[n + 1] = h[n + 1]
      OBVIOUS
    <2>1. g[n] = h[n] /\ s[n + 1] = u[n + 1]
      BY <1>2
    <2>2. n + 1 \in 1..Len(s) /\ n + 1 \in 1..Len(u) /\ (n + 1) - 1 = n
      OBVIOUS
    <2>3. g[n + 1] = IF s[n + 1] \in S THEN g[n] ELSE Append(g[n], s[n + 1])
      BY <2>2, Zenon DEF Keeps
    <2>4. h[n + 1] = IF u[n + 1] \in S THEN h[n] ELSE Append(h[n], u[n + 1])
      BY <2>2, Zenon DEF Keeps
    <2> QED
      BY <2>1, <2>3, <2>4
  <1>3. Nat \subseteq Agree
    <2> HIDE DEF Agree
    <2> QED
      BY <1>1, <1>2, Induction
  <1> QED
    BY <1>3

\* Without has a solution of its recursive definition, typed like its argument.
LEMMA KeptSteps ==
  ASSUME NEW A, NEW s \in Seq(A), NEW S
  PROVE  \E g \in [0..Len(s) -> Seq(A)] : Without(s, S) = g[Len(s)] /\ Keeps(g, s, S)
  <1> DEFINE N == Len(s)
             T == Seq(A)
             none == <<>>
             Solves(k) == k = [i \in 0..Len(s) |->
                                 IF i = 0 THEN <<>>
                                 ELSE IF s[i] \in S THEN k[i - 1] ELSE Append(k[i - 1], s[i])]
             step == [i \in 1..N |-> [t \in T |-> IF s[i] \in S THEN t ELSE Append(t, s[i])]]
  <1>1. step \in [1..N -> [T -> T]]
    OBVIOUS
  <1>2. none \in T /\ N \in Nat
    OBVIOUS
  <1>3. \A i \in 1..N, t \in T : step[i][t] = IF s[i] \in S THEN t ELSE Append(t, s[i])
    OBVIOUS
  <1>4. PICK h : Iterates(h, T, none, N, step)
    <2> HIDE DEF step, N, T, none
    <2> QED
      BY <1>1, <1>2, Recursion, Zenon
  <1>5. Keeps(h, s, S)
    <2> HIDE DEF step
    <2>1. ASSUME NEW i \in 1..N PROVE i - 1 \in 0..N
      BY <1>2
    <2>2. ASSUME NEW i \in 1..N
          PROVE  h[i] = IF s[i] \in S THEN h[i - 1] ELSE Append(h[i - 1], s[i])
      <3> HIDE DEF T, N, none
      <3> USE DEF Iterates
      <3>1. h[i - 1] \in T
        BY <2>1, <1>4, Zenon
      <3> QED
        BY <3>1, <1>3, <1>4, Zenon
    <2> QED
      BY <1>4, <2>2 DEF Keeps, Iterates
  <1>6. Solves(h)
    <2> HIDE DEF step
    <2>1. \A i \in 0..N : i # 0 => i \in 1..N
      OBVIOUS
    <2>2. \A i \in 0..N : h[i] = IF i = 0 THEN <<>>
                                 ELSE IF s[i] \in S THEN h[i - 1] ELSE Append(h[i - 1], s[i])
      BY <2>1, <1>5, Zenon DEF Keeps
    <2>3. h = [i \in 0..N |-> h[i]]
      BY <1>4 DEF Iterates
    <2> QED
      BY <2>2, <2>3, Zenon
  <1> DEFINE k == CHOOSE k : Solves(k)
  <1>7. Solves(k)
    <2> HIDE DEF Solves
    <2> QED
      BY <1>6, Zenon
  <1>8. Without(s, S) = k[N]
    BY DEF Without
  <1> HIDE DEF k
  <1>9. Keeps(k, s, S)
    <2>1. \A i \in 0..N : k[i] = IF i = 0 THEN <<>>
                                 ELSE IF s[i] \in S THEN k[i - 1] ELSE Append(k[i - 1], s[i])
      BY <1>7, Zenon
    <2>2. 0 \in 0..N /\ \A i \in 1..N : i \in 0..N /\ i # 0
      BY <1>2
    <2> QED
      BY <2>1, <2>2, Zenon DEF Keeps
  <1>10. k[N] = h[N]
    BY <1>2, <1>5, <1>9, KeepsAgree
  <1>11. Without(s, S) = h[Len(s)] /\ h \in [0..Len(s) -> Seq(A)]
    BY <1>8, <1>10, <1>4, Zenon DEF Iterates
  <1> HIDE DEF step
  <1> QED
    BY <1>5, <1>11

\* Nothing is left of nothing.
LEMMA WithoutEmpty ==
  ASSUME NEW S
  PROVE  Without(<<>>, S) = <<>>
  <1>1. <<>> \in Seq({}) /\ Len(<<>>) = 0
    OBVIOUS
  <1>2. PICK g : Without(<<>>, S) = g[Len(<<>>)] /\ Keeps(g, <<>>, S)
    BY <1>1, KeptSteps
  <1> QED
    BY <1>1, <1>2 DEF Keeps

\* The last element is dropped or kept.
Leaves(t, u, e, S) == u = IF e \in S THEN t ELSE Append(t, e)
LEMMA WithoutAppend ==
  ASSUME NEW A, NEW s \in Seq(A), NEW e \in A, NEW S
  PROVE  Leaves(Without(s, S), Without(Append(s, e), S), e, S)
  <1> DEFINE u == Append(s, e)
             N == Len(s)
  <1>1. u \in Seq(A) /\ Len(u) = N + 1 /\ u[N + 1] = e /\ N \in Nat
        /\ \A i \in 1..N : u[i] = s[i]
    OBVIOUS
  <1> HIDE DEF u
  <1>2. PICK h : Without(u, S) = h[Len(u)] /\ Keeps(h, u, S)
    BY <1>1, KeptSteps
  <1>3. PICK g : Without(s, S) = g[Len(s)] /\ Keeps(g, s, S)
    BY KeptSteps
  <1>4. g[N] = h[N]
    <2>1. Len(s) \in Nat /\ Len(u) \in Nat /\ N <= Len(s) /\ N <= Len(u)
      BY <1>1
    <2>2. \A i \in 1..N : s[i] = u[i]
      BY <1>1
    <2>3. N \in Nat
      BY <1>1
    <2> HIDE DEF N
    <2> QED
      BY <1>2, <1>3, <2>1, <2>2, <2>3, KeepsAgree
  <1>5. h[N + 1] = IF e \in S THEN h[N] ELSE Append(h[N], e)
    <2>1. N + 1 \in 1..Len(u) /\ (N + 1) - 1 = N
      BY <1>1
    <2> QED
      BY <2>1, <1>1, <1>2, Zenon DEF Keeps
  <1>6. Without(u, S) = h[N + 1] /\ Without(s, S) = h[N]
    BY <1>1, <1>2, <1>3, <1>4
  <1> QED
    BY <1>5, <1>6 DEF u, Leaves

\* The last element is dropped,
LEMMA WithoutDrops ==
  ASSUME NEW A, NEW s \in Seq(A), NEW e \in A, NEW S, e \in S
  PROVE  Without(Append(s, e), S) = Without(s, S)
  <1>1. Leaves(Without(s, S), Without(Append(s, e), S), e, S)
    BY WithoutAppend
  <1> QED
    BY <1>1 DEF Leaves

\* or it is kept.
LEMMA WithoutKeeps ==
  ASSUME NEW A, NEW s \in Seq(A), NEW e \in A, NEW S, e \notin S
  PROVE  Without(Append(s, e), S) = Append(Without(s, S), e)
  <1>1. Leaves(Without(s, S), Without(Append(s, e), S), e, S)
    BY WithoutAppend
  <1> QED
    BY <1>1 DEF Leaves

\* It is made of the elements that are not dropped.
LEMMA WithoutType ==
  ASSUME NEW A, NEW s \in Seq(A), NEW S
  PROVE  Without(s, S) \in Seq(A \ S)
  <1> DEFINE P == {t \in Seq(A) : Without(t, S) \in Seq(A \ S)}
  <1>1. <<>> \in P
    <2>1. Without(<<>>, S) = <<>>
      BY WithoutEmpty, Zenon
    <2> QED
      BY <2>1, EmptySeq, Zenon
  <1>2. ASSUME NEW t \in Seq(A), NEW e \in A, t \in P PROVE Append(t, e) \in P
    <2>1. Without(t, S) \in Seq(A \ S) /\ Append(t, e) \in Seq(A)
      BY <1>2
    <2>2. Without(Append(t, e), S) =
            IF e \in S THEN Without(t, S) ELSE Append(Without(t, S), e)
      <3>1. Leaves(Without(t, S), Without(Append(t, e), S), e, S)
        BY WithoutAppend
      <3> QED
        BY <3>1 DEF Leaves
    <2>3. CASE e \in S
      BY <2>1, <2>2, <2>3, Zenon
    <2>4. CASE e \notin S
      <3>1. Append(Without(t, S), e) \in Seq(A \ S)
        BY <2>1, <2>4, AppendProperties
      <3> QED
        BY <2>1, <2>2, <2>4, <3>1, Zenon
    <2> QED
      BY <2>3, <2>4
  <1>3. Seq(A) \subseteq P
    <2> HIDE DEF P
    <2> QED
      BY <1>1, <1>2, SequenceInduction
  <1> QED
    BY <1>3

\* Where concatenations are grouped does not matter.
Regroups(x, y, z) == (x \o y) \o z = x \o (y \o z)
LEMMA ConcatRegroups ==
  ASSUME NEW A, NEW x \in Seq(A), NEW y \in Seq(A), NEW z \in Seq(A)
  PROVE  Regroups(x, y, z)
  BY ConcatAssociative DEF Regroups

\* Dropping from a concatenation drops from its parts.
LEMMA WithoutConcat ==
  ASSUME NEW A, NEW s \in Seq(A), NEW t \in Seq(A), NEW S
  PROVE  Without(s \o t, S) = Without(s, S) \o Without(t, S)
  <1> DEFINE P == {u \in Seq(A) : Without(s \o u, S) = Without(s, S) \o Without(u, S)}
             ws == Without(s, S)
  <1>0. ws \in Seq(A \ S)
    BY WithoutType
  <1>1. <<>> \in P
    <2> HIDE DEF ws
    <2>1. s \o <<>> = s /\ ws \o <<>> = ws
      BY <1>0, ConcatEmptySeq
    <2>2. Without(<<>>, S) = <<>>
      BY WithoutEmpty, Zenon
    <2> QED
      BY <2>1, <2>2, EmptySeq, Zenon DEF ws
  <1>2. ASSUME NEW u \in Seq(A), NEW e \in A, u \in P PROVE Append(u, e) \in P
    <2> DEFINE wu == Without(u, S)
    <2>1. s \o Append(u, e) = Append(s \o u, e) /\ s \o u \in Seq(A) /\ Append(u, e) \in Seq(A)
      OBVIOUS
    <2>2. wu \in Seq(A \ S)
      BY WithoutType
    <2>3. Without(s \o u, S) = ws \o wu
      BY <1>2
    <2>4. Without(s \o Append(u, e), S) = IF e \in S THEN ws \o wu ELSE Append(ws \o wu, e)
      <3>1. Without(Append(s \o u, e), S) =
              IF e \in S THEN Without(s \o u, S) ELSE Append(Without(s \o u, S), e)
        <4>1. Leaves(Without(s \o u, S), Without(Append(s \o u, e), S), e, S)
          BY <2>1, WithoutAppend
        <4> QED
          BY <4>1 DEF Leaves
      <3> HIDE DEF ws, wu
      <3> QED
        BY <2>1, <2>3, <3>1, Zenon
    <2>5. Without(Append(u, e), S) = IF e \in S THEN wu ELSE Append(wu, e)
      <3>1. Leaves(wu, Without(Append(u, e), S), e, S)
        BY WithoutAppend
      <3> QED
        BY <3>1 DEF Leaves
    <2>6. Append(ws \o wu, e) = ws \o Append(wu, e)
      <3>1. A \ S \subseteq A
        OBVIOUS
      <3> HIDE DEF ws, wu
      <3>2. ws \in Seq(A) /\ wu \in Seq(A)
        BY <1>0, <2>2, <3>1, SeqMonotonic
      <3>3. <<e>> \in Seq(A) /\ ws \o wu \in Seq(A)
        BY <3>2
      <3>4. (ws \o wu) \o <<e>> = ws \o (wu \o <<e>>)
        <4> DEFINE one == <<e>>
        <4>1. one \in Seq(A)
          BY <3>3
        <4> HIDE DEF one
        <4>2. Regroups(ws, wu, one)
          BY <3>2, <4>1, ConcatRegroups
        <4> QED
          BY <4>2, Zenon DEF one, Regroups
      <3>5. Append(ws \o wu, e) = (ws \o wu) \o <<e>>
        BY <3>3, AppendIsConcat
      <3>6. Append(wu, e) = wu \o <<e>>
        BY <3>2, AppendIsConcat
      <3> QED
        BY <3>4, <3>5, <3>6, Zenon
    <2>7. Without(s \o Append(u, e), S) = ws \o Without(Append(u, e), S)
      <3> HIDE DEF ws, wu
      <3>1. CASE e \in S
        BY <3>1, <2>4, <2>5, Zenon
      <3>2. CASE e \notin S
        BY <3>2, <2>4, <2>5, <2>6, Zenon
      <3> QED
        BY <3>1, <3>2
    <2> QED
      BY <2>1, <2>7
  <1>3. Seq(A) \subseteq P
    <2> HIDE DEF P
    <2> QED
      BY <1>1, <1>2, SequenceInduction
  <1> QED
    BY <1>3

\* What holds none of the elements stays.
LEMMA WithoutNone ==
  ASSUME NEW A, NEW s \in Seq(A), NEW S, A \intersect S = {}
  PROVE  Without(s, S) = s
  <1> DEFINE P == {t \in Seq(A) : Without(t, S) = t}
  <1>1. <<>> \in P
    BY WithoutEmpty, EmptySeq, Zenon
  <1>2. ASSUME NEW t \in Seq(A), NEW e \in A, t \in P PROVE Append(t, e) \in P
    <2>1. e \notin S /\ Append(t, e) \in Seq(A)
      OBVIOUS
    <2>2. Without(Append(t, e), S) = Append(Without(t, S), e)
      BY <2>1, WithoutKeeps
    <2> QED
      BY <2>1, <2>2, <1>2
  <1>3. Seq(A) \subseteq P
    <2> HIDE DEF P
    <2> QED
      BY <1>1, <1>2, SequenceInduction
  <1> QED
    BY <1>3

\* What holds no others goes.
LEMMA WithoutAll ==
  ASSUME NEW S, NEW s \in Seq(S)
  PROVE  Without(s, S) = <<>>
  <1>1. Without(s, S) \in Seq(S \ S)
    BY WithoutType
  <1>2. \A t \in Seq(S \ S) : t = <<>>
    <2> SUFFICES ASSUME NEW t \in Seq(S \ S), t # <<>> PROVE FALSE
      OBVIOUS
    <2>1. Len(t) \in Nat \ {0} /\ t \in [1..Len(t) -> S \ S]
      BY EmptySeq, LenProperties
    <2>2. 1 \in 1..Len(t)
      BY <2>1
    <2>3. t[1] \in S \ S
      BY <2>1, <2>2
    <2> QED
      BY <2>3
  <1> QED
    BY <1>1, <1>2

\* The elements and the order of what is left.
LEMMA RangeOfAppend ==
  ASSUME NEW A, NEW s \in Seq(A), NEW e \in A
  PROVE  Range(Append(s, e)) = Range(s) \union {e}
  <1> DEFINE u == Append(s, e)
  <1>1. u \in Seq(A) /\ Len(u) = Len(s) + 1 /\ u[Len(s) + 1] = e
        /\ \A i \in 1..Len(s) : u[i] = s[i]
    BY AppendProperties
  <1>2. Len(s) \in Nat
    OBVIOUS
  <1> HIDE DEF u
  <1>3. Range(s) = {s[i] : i \in 1..Len(s)} /\ Range(u) = {u[i] : i \in 1..Len(u)}
    BY <1>1, RangeEquality
  <1>4. 1..Len(u) = 1..Len(s) \union {Len(s) + 1}
    BY <1>1, <1>2
  <1> QED
    BY <1>1, <1>2, <1>3, <1>4 DEF u

\* An element that is not there yet can be appended.
LEMMA InjectiveAppend ==
  ASSUME NEW A, NEW s \in Seq(A), NEW e \in A
  PROVE  IsInjective(Append(s, e)) <=> IsInjective(s) /\ e \notin Range(s)
  <1> DEFINE u == Append(s, e)
             n == Len(s)
  <1>1. n \in Nat /\ DOMAIN s = 1..n /\ DOMAIN u = 1..(n + 1) /\ u[n + 1] = e
        /\ \A i \in 1..n : u[i] = s[i]
    BY LenProperties, AppendProperties
  <1>2. Range(s) = {s[i] : i \in 1..n}
    BY RangeEquality
  <1> HIDE DEF u, n
  <1>3. IsInjective(u) => IsInjective(s) /\ e \notin Range(s)
    <2> SUFFICES ASSUME IsInjective(u) PROVE IsInjective(s) /\ e \notin Range(s)
      OBVIOUS
    <2>1. \A i, j \in 1..(n + 1) : u[i] = u[j] => i = j
      BY <1>1 DEF IsInjective
    <2>2. \A i, j \in 1..n : s[i] = s[j] => i = j
      BY <2>1, <1>1
    <2>3. \A i \in 1..n : s[i] # e
      BY <2>1, <1>1
    <2> QED
      BY <2>2, <2>3, <1>1, <1>2 DEF IsInjective
  <1>4. ASSUME IsInjective(s), e \notin Range(s) PROVE IsInjective(u)
    <2>1. \A i, j \in 1..n : s[i] = s[j] => i = j
      BY <1>4, <1>1 DEF IsInjective
    <2>2. \A i \in 1..n : s[i] # e
      BY <1>4, <1>2
    <2>3. ASSUME NEW i \in 1..(n + 1), NEW j \in 1..(n + 1), u[i] = u[j] PROVE i = j
      <3>1. CASE i = n + 1 /\ j = n + 1
        BY <3>1
      <3>2. CASE i \in 1..n /\ j \in 1..n
        BY <3>2, <2>1, <2>3, <1>1
      <3>3. CASE i \in 1..n /\ j = n + 1
        BY <3>3, <2>2, <2>3, <1>1
      <3>4. CASE i = n + 1 /\ j \in 1..n
        BY <3>4, <2>2, <2>3, <1>1
      <3> QED
        BY <3>1, <3>2, <3>3, <3>4, <1>1
    <2> QED
      BY <2>3, <1>1 DEF IsInjective
  <1> QED
    BY <1>3, <1>4 DEF u

\* The empty sequence holds nothing, and nothing twice.
LEMMA RangeOfEmpty == Range(<<>>) = {} /\ IsInjective(<<>>)
  <1>1. DOMAIN <<>> = {}
    OBVIOUS
  <1> QED
    BY <1>1 DEF Range, IsInjective

\* What is left is what is not dropped.
LEMMA WithoutRange ==
  ASSUME NEW A, NEW s \in Seq(A), NEW S
  PROVE  Range(Without(s, S)) = Range(s) \ S
  <1> DEFINE P == {t \in Seq(A) : Range(Without(t, S)) = Range(t) \ S}
  <1>1. <<>> \in P
    <2>1. Without(<<>>, S) = <<>>
      BY WithoutEmpty, Zenon
    <2>2. Range(Without(<<>>, S)) = Range(<<>>) \ S
      BY <2>1, RangeOfEmpty, Zenon
    <2> QED
      BY <2>2, EmptySeq, Zenon
  <1>2. ASSUME NEW t \in Seq(A), NEW e \in A, t \in P PROVE Append(t, e) \in P
    <2> DEFINE w == Without(t, S)
    <2>1. w \in Seq(A \ S) /\ Append(t, e) \in Seq(A) /\ Range(w) = Range(t) \ S
      BY <1>2, WithoutType, AppendProperties
    <2>2. Without(Append(t, e), S) = IF e \in S THEN w ELSE Append(w, e)
      <3>1. Leaves(w, Without(Append(t, e), S), e, S)
        BY WithoutAppend
      <3> QED
        BY <3>1 DEF Leaves
    <2>3. Range(Append(t, e)) = Range(t) \union {e}
      BY RangeOfAppend
    <2> HIDE DEF w
    <2>4. CASE e \in S
      BY <2>1, <2>2, <2>3, <2>4
    <2>5. CASE e \notin S
      <3>1. Range(Append(w, e)) = Range(w) \union {e}
        BY <2>1, <2>5, RangeOfAppend
      <3> QED
        BY <3>1, <2>1, <2>2, <2>3, <2>5
    <2> QED
      BY <2>4, <2>5
  <1>3. Seq(A) \subseteq P
    <2> HIDE DEF P
    <2> QED
      BY <1>1, <1>2, SequenceInduction
  <1> QED
    BY <1>3

\* Dropping elements repeats none.
LEMMA WithoutInjective ==
  ASSUME NEW A, NEW s \in Seq(A), NEW S, IsInjective(s)
  PROVE  IsInjective(Without(s, S))
  <1> DEFINE P == {t \in Seq(A) : IsInjective(t) => IsInjective(Without(t, S))}
  <1>1. <<>> \in P
    <2>1. Without(<<>>, S) = <<>>
      BY WithoutEmpty, Zenon
    <2>2. IsInjective(Without(<<>>, S))
      BY <2>1, RangeOfEmpty, Zenon
    <2> QED
      BY <2>2, EmptySeq, Zenon
  <1>2. ASSUME NEW t \in Seq(A), NEW e \in A, t \in P PROVE Append(t, e) \in P
    <2> SUFFICES ASSUME IsInjective(Append(t, e))
                 PROVE  IsInjective(Without(Append(t, e), S))
      BY AppendProperties
    <2> DEFINE w == Without(t, S)
    <2>1. IsInjective(t) /\ e \notin Range(t)
      BY InjectiveAppend
    <2>2. w \in Seq(A \ S) /\ Range(w) = Range(t) \ S /\ IsInjective(w)
      BY <2>1, <1>2, WithoutType, WithoutRange
    <2>3. Without(Append(t, e), S) = IF e \in S THEN w ELSE Append(w, e)
      <3>1. Leaves(w, Without(Append(t, e), S), e, S)
        BY WithoutAppend
      <3> QED
        BY <3>1 DEF Leaves
    <2> HIDE DEF w
    <2>4. CASE e \in S
      BY <2>2, <2>3, <2>4, Zenon
    <2>5. CASE e \notin S
      <3>1. IsInjective(Append(w, e))
        <4>1. e \in A \ S /\ e \notin Range(w)
          BY <2>1, <2>2, <2>5
        <4> QED
          BY <4>1, <2>2, InjectiveAppend
      <3> QED
        BY <3>1, <2>3, <2>5, Zenon
    <2> QED
      BY <2>4, <2>5
  <1>3. Seq(A) \subseteq P
    <2> HIDE DEF P
    <2> QED
      BY <1>1, <1>2, SequenceInduction
  <1> QED
    BY <1>3

-----------------------------------------------------------------------------
(* The rules of a block, one after another.                                *)

Glues(g, seqs) ==
  /\ g[0] = <<>>
  /\ \A i \in 1..Len(seqs) : g[i] = g[i - 1] \o seqs[i]

\* FlattenSeq glues its sequences together from the left.
LEMMA FlattenSteps ==
  ASSUME NEW A, NEW seqs \in Seq(Seq(A))
  PROVE  \E g : g \in [0..Len(seqs) -> Seq(A)] /\ FlattenSeq(seqs) = g[Len(seqs)] /\ Glues(g, seqs)
  <1> DEFINE N == Len(seqs)
             T == Seq(A)
             none == <<>>
             Solves(k) == k = [i \in 1..Len(seqs) |->
                                 IF i = 1 THEN seqs[i] ELSE k[i - 1] \o seqs[i]]
             step == [i \in 1..N |-> [t \in T |-> t \o seqs[i]]]
  <1>1. none \in T /\ N \in Nat /\ \A i \in 1..N : seqs[i] \in T
    OBVIOUS
  <1>2. \A i \in 1..N, t \in T : step[i][t] = t \o seqs[i]
    OBVIOUS
  <1>3. step \in [1..N -> [T -> T]]
    <2>1. \A i \in 1..N, t \in T : t \o seqs[i] \in T
      BY <1>1, ConcatProperties
    <2> QED
      BY <2>1
  <1>4. PICK h : Iterates(h, T, none, N, step)
    <2> HIDE DEF step, N, T, none
    <2> QED
      BY <1>1, <1>3, Recursion, Zenon
  <1>5. ASSUME NEW i \in 1..N PROVE h[i] = h[i - 1] \o seqs[i] /\ h[i - 1] \in T
    <2> HIDE DEF T, N, none, step
    <2>1. i - 1 \in 0..N
      BY <1>1
    <2>2. h[i - 1] \in T
      BY <2>1, <1>4, Zenon DEF Iterates
    <2> QED
      BY <2>2, <1>2, <1>4, Zenon DEF Iterates
  <1>6. Glues(h, seqs)
    BY <1>4, <1>5 DEF Glues, Iterates
  <1>7. N > 0 => h[1] = seqs[1]
    <2> SUFFICES ASSUME N > 0 PROVE h[1] = seqs[1]
      OBVIOUS
    <2>1. 1 \in 1..N /\ 1 - 1 = 0
      BY <1>1
    <2>2. h[1] = h[0] \o seqs[1] /\ h[0] = <<>>
      BY <2>1, <1>6 DEF Glues
    <2>3. seqs[1] \in Seq(A)
      BY <2>1, <1>1
    <2> QED
      BY <2>2, <2>3
  <1>8. CASE N = 0
    <2>1. seqs = <<>> /\ FlattenSeq(seqs) = seqs
      BY <1>8 DEF FlattenSeq
    <2> HIDE DEF step, N
    <2> QED
      BY <2>1, <1>8, <1>4, <1>6, Zenon DEF Iterates, N
  <1>9. CASE N > 0
    <2>1. Solves([i \in 1..N |-> h[i]])
      <3>1. ASSUME NEW i \in 1..N, i # 1 PROVE i - 1 \in 1..N
        BY <3>1, <1>1
      <3> DEFINE f == [i \in 1..N |-> h[i]]
      <3>2. \A i \in 1..N : i # 1 => f[i - 1] = h[i - 1]
        BY <3>1
      <3>3. \A i \in 1..N : h[i] = IF i = 1 THEN seqs[i] ELSE f[i - 1] \o seqs[i]
        <4> HIDE DEF step, N, T, f
        <4> QED
          BY <1>7, <1>9, <1>5, <3>2, Zenon
      <3> HIDE DEF step
      <3>4. f = [i \in 1..N |-> h[i]]
        OBVIOUS
      <3> HIDE DEF f
      <3> QED
        BY <3>3, <3>4, Zenon DEF f
    <2> DEFINE k == CHOOSE k : Solves(k)
    <2>2. Solves(k)
      <3> HIDE DEF Solves
      <3> QED
        BY <2>1, Zenon
    <2>3. FlattenSeq(seqs) = k[N]
      BY <1>9 DEF FlattenSeq
    <2> HIDE DEF k
    <2>4. \A i \in 1..N : k[i] = IF i = 1 THEN seqs[i] ELSE k[i - 1] \o seqs[i]
      BY <2>2, Zenon
    <2> DEFINE Agree == {n \in Nat : n + 1 <= N => k[n + 1] = h[n + 1]}
    <2>5. 0 \in Agree
      <3>1. 1 \in 1..N
        BY <1>1, <1>9
      <3>2. k[1] = h[1]
        <4> HIDE DEF N, step, T
        <4> QED
          BY <3>1, <2>4, <1>7, <1>9, Zenon
      <3> HIDE DEF step
      <3> QED
        BY <3>2
    <2>6. ASSUME NEW n \in Nat, n \in Agree PROVE n + 1 \in Agree
      <3> HIDE DEF step
      <3> SUFFICES ASSUME (n + 1) + 1 <= N PROVE k[(n + 1) + 1] = h[(n + 1) + 1]
        OBVIOUS
      <3> DEFINE m == (n + 1) + 1
      <3>1. m \in 1..N /\ m # 1 /\ m - 1 = n + 1
        BY <1>1
      <3>2. k[n + 1] = h[n + 1]
        BY <2>6
      <3> HIDE DEF m, T, N
      <3>3. k[m] = k[m - 1] \o seqs[m] /\ h[m] = h[m - 1] \o seqs[m]
        BY <3>1, <2>4, <1>5, Zenon
      <3> QED
        BY <3>1, <3>2, <3>3, Zenon DEF m
    <2>7. Nat \subseteq Agree
      <3> HIDE DEF Agree
      <3> QED
        BY <2>5, <2>6, Induction
    <2>8. k[N] = h[N]
      <3>1. N - 1 \in Nat /\ (N - 1) + 1 = N
        BY <1>1, <1>9
      <3> HIDE DEF step, N
      <3>2. N - 1 \in Agree /\ N <= N
        BY <2>7, <3>1, <1>1
      <3> QED
        BY <3>1, <3>2
    <2> HIDE DEF step, N
    <2> QED
      BY <2>3, <2>8, <1>4, <1>6, Zenon DEF Iterates, N
  <1> QED
    BY <1>1, <1>8, <1>9

\* Nothing glued is nothing.
LEMMA FlattenEmpty == FlattenSeq(<<>>) = <<>>
  BY DEF FlattenSeq

\* Another sequence comes at the end.
LEMMA FlattenAppend ==
  ASSUME NEW A, NEW seqs \in Seq(Seq(A)), NEW t \in Seq(A)
  PROVE  /\ FlattenSeq(seqs) \in Seq(A)
         /\ FlattenSeq(Append(seqs, t)) = FlattenSeq(seqs) \o t
  <1> DEFINE u == Append(seqs, t)
             N == Len(seqs)
  <1>1. u \in Seq(Seq(A)) /\ Len(u) = N + 1 /\ u[N + 1] = t /\ N \in Nat
        /\ \A i \in 1..N : u[i] = seqs[i]
    OBVIOUS
  <1> HIDE DEF u
  <1>2. PICK g : g \in [0..N -> Seq(A)] /\ FlattenSeq(seqs) = g[N] /\ Glues(g, seqs)
    BY FlattenSteps
  <1>3. PICK h : FlattenSeq(u) = h[Len(u)] /\ Glues(h, u)
    BY <1>1, FlattenSteps
  <1> DEFINE Agree == {n \in Nat : n <= N => g[n] = h[n]}
  <1>4. 0 \in Agree
    BY <1>2, <1>3 DEF Glues
  <1>5. ASSUME NEW n \in Nat, n \in Agree PROVE n + 1 \in Agree
    <2> SUFFICES ASSUME n + 1 <= N PROVE g[n + 1] = h[n + 1]
      OBVIOUS
    <2>1. g[n] = h[n] /\ n + 1 \in 1..N /\ n + 1 \in 1..Len(u) /\ (n + 1) - 1 = n
      BY <1>5, <1>1
    <2>2. u[n + 1] = seqs[n + 1]
      BY <2>1, <1>1
    <2>3. g[n + 1] = g[n] \o seqs[n + 1] /\ h[n + 1] = h[n] \o u[n + 1]
      BY <2>1, <1>2, <1>3, Zenon DEF Glues
    <2> QED
      BY <2>1, <2>2, <2>3, Zenon
  <1>6. Nat \subseteq Agree
    <2> HIDE DEF Agree
    <2> QED
      BY <1>4, <1>5, Induction
  <1>7. g[N] = h[N] /\ N + 1 \in 1..Len(u) /\ (N + 1) - 1 = N
    BY <1>1, <1>6
  <1> HIDE DEF N
  <1>8. h[N + 1] = h[N] \o t
    BY <1>7, <1>1, <1>3, Zenon DEF Glues
  <1>9. FlattenSeq(seqs) \in Seq(A)
    <2>1. N \in 0..N
      BY <1>1
    <2> QED
      BY <2>1, <1>2, Zenon
  <1> QED
    BY <1>1, <1>2, <1>3, <1>7, <1>8, <1>9, Zenon DEF u

Newlines == {LF, CRLF}
Breaks == {LF, CRLF, CR}
Entry(nl, r) == <<nl, nl, r>>
Written(rules, nl) == FlattenSeq([i \in DOMAIN rules |-> Entry(nl, rules[i])])

\* No rules are written as nothing.
LEMMA WrittenEmpty ==
  ASSUME NEW nl
  PROVE  Written(<<>>, nl) = <<>>
  <1>1. [i \in DOMAIN <<>> |-> Entry(nl, <<>>[i])] = <<>>
    OBVIOUS
  <1> QED
    BY <1>1, FlattenEmpty DEF Written

\* A rule more is written as an entry more.
WritesOn(R, rules, r, nl) ==
  /\ Written(rules, nl) \in Seq({nl} \union R)
  /\ Written(Append(rules, r), nl) = Written(rules, nl) \o Entry(nl, r)
LEMMA WrittenSteps ==
  ASSUME NEW R, NEW rules \in Seq(R), NEW r \in R, NEW nl
  PROVE  WritesOn(R, rules, r, nl)
  <1> DEFINE A == {nl} \union R
             n == Len(rules)
             more == Append(rules, r)
             seqs == [i \in DOMAIN rules |-> Entry(nl, rules[i])]
             all == [i \in DOMAIN more |-> Entry(nl, more[i])]
  <1>1. n \in Nat /\ DOMAIN rules = 1..n /\ \A i \in 1..n : rules[i] \in R
    OBVIOUS
  <1>2. DOMAIN more = 1..(n + 1) /\ more[n + 1] = r /\ \A i \in 1..n : more[i] = rules[i]
    BY LenProperties, AppendProperties
  <1>3. \A x \in R : Entry(nl, x) \in Seq(A)
    BY DEF Entry
  <1> HIDE DEF A
  <1>4. seqs \in Seq(Seq(A)) /\ Len(seqs) = n /\ \A i \in 1..n : seqs[i] = Entry(nl, rules[i])
    BY <1>1, <1>3
  <1>5. all = Append(seqs, Entry(nl, r))
    <2> DEFINE t == Entry(nl, r)
    <2>1. t \in Seq(A)
      BY <1>3
    <2>2. \A i \in 1..(n + 1) : more[i] \in R
      BY <1>1, <1>2
    <2>3. all \in Seq(Seq(A)) /\ Len(all) = n + 1
          /\ \A i \in 1..(n + 1) : all[i] = Entry(nl, more[i])
      <3> HIDE DEF more, n
      <3> QED
        BY <1>1, <1>2, <1>3, <2>2
    <2> HIDE DEF seqs, t, all, n, more
    <2>4. Append(seqs, t) \in Seq(Seq(A)) /\ Len(Append(seqs, t)) = n + 1
          /\ (\A i \in 1..n : Append(seqs, t)[i] = seqs[i]) /\ Append(seqs, t)[n + 1] = t
      BY <2>1, <1>4, AppendProperties
    <2>5. ASSUME NEW i \in 1..(n + 1) PROVE all[i] = Append(seqs, t)[i]
      <3>1. all[i] = Entry(nl, more[i])
        BY <2>3
      <3>2. CASE i \in 1..n
        BY <3>1, <3>2, <1>2, <1>4, <2>4, Zenon
      <3>3. CASE i = n + 1
        BY <3>1, <3>3, <1>2, <2>4, Zenon DEF t
      <3>4. i \in 1..n \/ i = n + 1
        BY <1>1
      <3> QED
        BY <3>2, <3>3, <3>4, Zenon
    <2> QED
      <3> DEFINE v == Append(seqs, t)
      <3>1. v \in Seq(Seq(A)) /\ Len(v) = n + 1 /\ \A i \in 1..(n + 1) : all[i] = v[i]
        BY <2>4, <2>5
      <3> HIDE DEF v
      <3>2. all = v
        BY <3>1, <2>3, SeqEqual
      <3> QED
        BY <3>2 DEF v, t
  <1>6. Entry(nl, r) \in Seq(A)
    BY <1>3
  <1> HIDE DEF seqs, all, more
  <1> QED
    BY <1>4, <1>5, <1>6, FlattenAppend, Zenon DEF WritesOn, Written, seqs, all, more, A

\* Written rules are line ends and rules.
LEMMA WrittenType ==
  ASSUME NEW R, NEW rules \in Seq(R), NEW nl
  PROVE  Written(rules, nl) \in Seq({nl} \union R)
  <1>1. CASE R = {}
    <2>1. rules = <<>>
      BY <1>1, WithoutAll, WithoutNone
    <2> QED
      BY <2>1, WrittenEmpty, EmptySeq, Zenon
  <1>2. CASE R # {}
    <2>1. PICK r \in R : TRUE
      BY <1>2
    <2>2. WritesOn(R, rules, r, nl)
      BY <2>1, WrittenSteps
    <2> QED
      BY <2>2 DEF WritesOn
  <1> QED
    BY <1>1, <1>2

\* A rule more is written as an entry more.
LEMMA WrittenAppend ==
  ASSUME NEW R, NEW rules \in Seq(R), NEW r \in R, NEW nl
  PROVE  Written(Append(rules, r), nl) = Written(rules, nl) \o Entry(nl, r)
  <1>1. WritesOn(R, rules, r, nl)
    BY WrittenSteps
  <1> QED
    BY <1>1, Zenon DEF WritesOn

\* A sequence written out, and one appended to.
Spelled(a, b, c) ==
  /\ Append(<<>>, a) = <<a>>
  /\ Append(<<a>>, b) = <<a, b>>
  /\ Append(Append(Append(<<>>, a), b), c) = <<a, b, c>>
LEMMA AppendsAre ==
  ASSUME NEW A, NEW a \in A, NEW b \in A, NEW c \in A
  PROVE  Spelled(a, b, c)
  <1>1. /\ <<>> \in Seq(A) /\ Len(<<>>) = 0
        /\ <<a>> \in Seq(A) /\ Len(<<a>>) = 1 /\ <<a>>[1] = a
        /\ <<a, b>> \in Seq(A) /\ Len(<<a, b>>) = 2 /\ <<a, b>>[1] = a /\ <<a, b>>[2] = b
        /\ <<a, b, c>> \in Seq(A) /\ Len(<<a, b, c>>) = 3
        /\ <<a, b, c>>[1] = a /\ <<a, b, c>>[2] = b /\ <<a, b, c>>[3] = c
    OBVIOUS
  <1>2. ASSUME NEW s \in Seq(A), NEW t \in Seq(A), NEW e \in A, Len(t) = Len(s) + 1,
               t[Len(s) + 1] = e, \A i \in 1..Len(s) : t[i] = s[i]
        PROVE  Append(s, e) = t
    <2> DEFINE u == Append(s, e)
    <2>1. u \in Seq(A) /\ Len(u) = Len(s) + 1 /\ u[Len(s) + 1] = e
          /\ \A i \in 1..Len(s) : u[i] = s[i]
      BY AppendProperties
    <2>2. Len(s) \in Nat
      OBVIOUS
    <2> HIDE DEF u
    <2>3. \A i \in 1..Len(u) : u[i] = t[i]
      BY <2>1, <2>2, <1>2
    <2>4. u = t
      BY <2>1, <2>3, <1>2, SeqEqual
    <2> QED
      BY <2>4 DEF u
  <1> DEFINE s0 == <<>>
             s1 == <<a>>
             s2 == <<a, b>>
             s3 == <<a, b, c>>
  <1>3. s0 \in Seq(A) /\ Len(s0) = 0 /\ s1 \in Seq(A) /\ Len(s1) = 1 /\ s1[1] = a
        /\ s2 \in Seq(A) /\ Len(s2) = 2 /\ s2[1] = a /\ s2[2] = b
        /\ s3 \in Seq(A) /\ Len(s3) = 3 /\ s3[1] = a /\ s3[2] = b /\ s3[3] = c
    BY <1>1
  <1> HIDE DEF s0, s1, s2, s3
  <1>4. Append(s0, a) = s1
    BY <1>2, <1>3
  <1>5. Append(s1, b) = s2
    <2>1. Len(s2) = Len(s1) + 1 /\ s2[Len(s1) + 1] = b /\ \A i \in 1..Len(s1) : s2[i] = s1[i]
      BY <1>3
    <2> QED
      BY <2>1, <1>2, <1>3, Zenon
  <1>6. Append(s2, c) = s3
    <2>1. Len(s3) = Len(s2) + 1 /\ s3[Len(s2) + 1] = c /\ \A i \in 1..Len(s2) : s3[i] = s2[i]
      BY <1>3
    <2> QED
      BY <2>1, <1>2, <1>3, Zenon
  <1> QED
    BY <1>4, <1>5, <1>6, Zenon DEF Spelled, s0, s1, s2, s3

\* Reading them gives the rules back.
LEMMA WrittenReads ==
  ASSUME NEW R, NEW rules \in Seq(R), NEW nl \in Newlines, R \intersect Breaks = {}
  PROVE  Without(Written(rules, nl), Breaks) = rules
  <1> DEFINE P == {t \in Seq(R) : Without(Written(t, nl), Breaks) = t}
  <1>0. \A x \in R : x \notin Breaks
    OBVIOUS
  <1>1. <<>> \in P
    <2>1. Without(Written(<<>>, nl), Breaks) = <<>>
      BY WrittenEmpty, WithoutEmpty, Zenon
    <2> QED
      BY <2>1, EmptySeq, Zenon
  <1>2. ASSUME NEW t \in Seq(R), NEW e \in R, t \in P PROVE Append(t, e) \in P
    <2> DEFINE A == {nl} \union R
               w == Written(t, nl)
               tail == Entry(nl, e)
    <2>1. w \in Seq(A) /\ Written(Append(t, e), nl) = w \o tail
      <3>1. Written(t, nl) \in Seq({nl} \union R)
        BY WrittenType
      <3>2. Written(Append(t, e), nl) = Written(t, nl) \o Entry(nl, e)
        BY WrittenAppend, Zenon
      <3> QED
        BY <3>1, <3>2, Zenon
    <2>2. tail \in Seq(A)
      BY DEF Entry
    <2>3. Without(w, Breaks) = t
      BY <1>2
    <2>4. Without(tail, Breaks) = <<e>>
      <3>1. <<>> \in Seq(A) /\ nl \in A /\ e \in A
        OBVIOUS
      <3> DEFINE one == Append(<<>>, nl)
                 two == Append(one, nl)
      <3>2. Append(two, e) = tail /\ Append(<<>>, e) = <<e>>
        <4> HIDE DEF A
        <4>1. nl \in A /\ e \in A
          BY <3>1
        <4>2. tail = <<nl, nl, e>>
          BY DEF Entry
        <4> HIDE DEF tail
        <4>5. Spelled(nl, nl, e) /\ Spelled(e, e, e)
          BY <4>1, AppendsAre
        <4>3. Append(Append(Append(<<>>, nl), nl), e) = <<nl, nl, e>>
          BY <4>5, Zenon DEF Spelled
        <4>4. Append(<<>>, e) = <<e>>
          BY <4>5, Zenon DEF Spelled
        <4> QED
          BY <4>2, <4>3, <4>4, Zenon
      <3>3. e \notin Breaks
        BY <1>0
      <3>8. one \in Seq(A) /\ two \in Seq(A)
        BY <3>1, AppendProperties
      <3> HIDE DEF tail, A, one, two
      <3>4. Without(<<>>, Breaks) = <<>>
        BY WithoutEmpty, Zenon
      <3>5. Without(one, Breaks) = Without(<<>>, Breaks)
        BY <3>1, WithoutDrops DEF one, Newlines, Breaks
      <3>6. Without(two, Breaks) = Without(one, Breaks)
        BY <3>1, <3>8, WithoutDrops DEF two, Newlines, Breaks
      <3>7. Without(Append(two, e), Breaks) = Append(Without(two, Breaks), e)
        BY <3>1, <3>3, <3>8, WithoutKeeps
      <3> QED
        BY <3>2, <3>4, <3>5, <3>6, <3>7, Zenon
    <2> HIDE DEF w, tail, A
    <2>5. Without(w \o tail, Breaks) = t \o <<e>>
      <3>1. Without(w \o tail, Breaks) = Without(w, Breaks) \o Without(tail, Breaks)
        BY <2>1, <2>2, WithoutConcat
      <3> QED
        BY <2>3, <2>4, <3>1, Zenon
    <2>6. Append(t, e) = t \o <<e>> /\ Append(t, e) \in Seq(R)
      BY AppendIsConcat, AppendProperties
    <2> QED
      BY <2>1, <2>5, <2>6, Zenon
  <1>3. Seq(R) \subseteq P
    <2> HIDE DEF P
    <2> QED
      BY <1>1, <1>2, SequenceInduction
  <1> QED
    BY <1>3

-----------------------------------------------------------------------------
(* The parts of a document that has a block.                               *)

\* What may stand around the markers, and the rules that may stand between them.
Text == Token0 \ ({Start, End} \union Quoting)
Safe == Rule \ Quoting

\* A document with one block: the text before it, between its markers and after it.
Marked(d, pre, mid, post) ==
  /\ d \in Seq(Token0) /\ pre \in Seq(Text) /\ mid \in Seq(Text) /\ post \in Seq(Text)
  /\ Len(d) = Len(pre) + Len(mid) + Len(post) + 2
  /\ \A i \in 1..Len(pre) : d[i] = pre[i]
  /\ d[Len(pre) + 1] = Start
  /\ \A i \in 1..Len(mid) : d[Len(pre) + 1 + i] = mid[i]
  /\ d[Len(pre) + Len(mid) + 2] = End
  /\ \A i \in 1..Len(post) : d[Len(pre) + Len(mid) + 2 + i] = post[i]

\* An element of a sequence is one of its set.
LEMMA Elements ==
  ASSUME NEW A, NEW s \in Seq(A)
  PROVE  Len(s) \in Nat /\ DOMAIN s = 1..Len(s) /\ \A i \in 1..Len(s) : s[i] \in A
  BY LenProperties

\* A slice of a sequence, named by what it holds.
Carries(s, m, t) == \A i \in 1..Len(t) : s[m + i] = t[i]
LEMMA SliceIs ==
  ASSUME NEW A, NEW s, NEW t \in Seq(A), NEW m \in Nat, Carries(s, m, t)
  PROVE  SubSeq(s, m + 1, m + Len(t)) = t
  <1> DEFINE n == m + Len(t)
             u == SubSeq(s, m + 1, n)
  <1>1. /\ Len(t) \in Nat
        /\ \A i \in 1..Len(t) : t[i] \in A /\ s[m + i] = t[i]
    BY Elements DEF Carries
  <1>2. \A i \in (m + 1)..n : s[i] \in A
    <2> SUFFICES ASSUME NEW i \in (m + 1)..n PROVE s[i] \in A
      OBVIOUS
    <2>1. i - m \in 1..Len(t) /\ m + (i - m) = i
      BY <1>1
    <2> QED
      BY <2>1, <1>1
  <1>3. m + 1 \in Int /\ n \in Int
    BY <1>1
  <1> HIDE DEF n
  <1>4. u \in Seq(A) /\ Len(u) = (IF m + 1 <= n THEN n - (m + 1) + 1 ELSE 0)
        /\ \A i \in 1..(n - (m + 1) + 1) : u[i] = s[(m + 1) + i - 1]
    BY <1>2, <1>3, SubSeqProperties
  <1> HIDE DEF u
  <1>5. Len(u) = Len(t)
    BY <1>1, <1>4 DEF n
  <1>6. \A i \in 1..Len(t) : u[i] = t[i]
    <2> SUFFICES ASSUME NEW i \in 1..Len(t) PROVE u[i] = t[i]
      OBVIOUS
    <2>1. i \in 1..(n - (m + 1) + 1) /\ (m + 1) + i - 1 = m + i
      BY <1>1 DEF n
    <2>2. u[i] = s[m + i]
      BY <2>1, <1>4
    <2> QED
      BY <2>2, <1>1
  <1>7. u = t
    BY <1>4, <1>5, <1>6, SeqEqual
  <1> QED
    BY <1>7 DEF u, n

\* Where the markers of such a document are, and what its slices hold.
LEMMA MarkedReads ==
  ASSUME NEW d, NEW pre, NEW mid, NEW post, Marked(d, pre, mid, post)
  PROVE  /\ Places(d, Start) = {Len(pre) + 1}
         /\ Places(d, End) = {Len(pre) + Len(mid) + 2}
         /\ ~Plain(d) /\ Quoted(d) = {} /\ Inside(d) = mid
         /\ MarkerStart(d) = Len(pre) + 1
         /\ MarkerEnd(d) = Len(pre) + Len(mid) + 2
         /\ SubSeq(d, MarkerStart(d) + 1, MarkerEnd(d) - 1) = mid
         /\ SubSeq(d, 1, MarkerStart(d) - 1) = pre
         /\ SubSeq(d, MarkerEnd(d) + 1, Len(d)) = post
  <1> DEFINE a == Len(pre)
             b == Len(mid)
             c == Len(post)
  <1>1. a \in Nat /\ b \in Nat /\ c \in Nat
        /\ DOMAIN d = 1..Len(d) /\ Len(d) = a + b + c + 2
        /\ (\A i \in 1..a : pre[i] \in Text) /\ (\A i \in 1..b : mid[i] \in Text)
        /\ (\A i \in 1..c : post[i] \in Text)
    BY Elements DEF Marked
  <1>2. /\ \A i \in 1..a : d[i] = pre[i]
        /\ d[a + 1] = Start
        /\ \A i \in 1..b : d[a + 1 + i] = mid[i]
        /\ d[a + b + 2] = End
        /\ \A i \in 1..c : d[a + b + 2 + i] = post[i]
    BY DEF Marked
  <1>3. \A t \in Text : t # Start /\ t # End /\ t \notin Quoting
    BY DEF Text
  <1>0. Start # End /\ Start \notin Quoting /\ End \notin Quoting
    BY TokenAssumption, RuleAssumption
  <1>4. pre \in Seq(Text) /\ mid \in Seq(Text) /\ post \in Seq(Text)
    BY DEF Marked
  <1>11. \A i \in 1..Len(mid) : d[(a + 1) + i] = mid[i]
    BY <1>2
  <1>12. \A i \in 1..Len(post) : d[(a + b + 2) + i] = post[i]
    BY <1>2
  <1>13. \A i \in 1..Len(pre) : d[0 + i] = pre[i]
    BY <1>2
  <1>14. a + 1 \in Nat /\ a + b + 2 \in Nat
    BY <1>1
  <1> HIDE DEF a, b, c
  <1>5. ASSUME NEW i \in 1..Len(d)
        PROVE  i = a + 1 \/ i = a + b + 2 \/ (d[i] # Start /\ d[i] # End /\ d[i] \notin Quoting)
    <2>1. CASE i \in 1..a
      BY <2>1, <1>1, <1>2, <1>3
    <2>2. CASE i \in (a + 2)..(a + b + 1)
      <3>1. i - (a + 1) \in 1..b /\ a + 1 + (i - (a + 1)) = i
        BY <2>2, <1>1
      <3>2. d[i] = mid[i - (a + 1)]
        BY <3>1, <1>2
      <3> QED
        BY <3>1, <3>2, <1>1, <1>3
    <2>3. CASE i \in (a + b + 3)..(a + b + c + 2)
      <3>1. i - (a + b + 2) \in 1..c /\ a + b + 2 + (i - (a + b + 2)) = i
        BY <2>3, <1>1
      <3>2. d[i] = post[i - (a + b + 2)]
        BY <3>1, <1>2
      <3> QED
        BY <3>1, <3>2, <1>1, <1>3
    <2>4. i \in 1..a \/ i = a + 1 \/ i \in (a + 2)..(a + b + 1) \/ i = a + b + 2
          \/ i \in (a + b + 3)..(a + b + c + 2)
      BY <1>1
    <2> QED
      BY <2>1, <2>2, <2>3, <2>4
  <1>6. Places(d, Start) = {a + 1} /\ Places(d, End) = {a + b + 2}
    <2>1. a + 1 \in DOMAIN d /\ a + b + 2 \in DOMAIN d
      BY <1>1
    <2>2. d[a + 1] = Start /\ d[a + 1] # End /\ d[a + b + 2] = End /\ d[a + b + 2] # Start
      BY <1>2, <1>0
    <2>3. DOMAIN d = 1..Len(d)
      BY <1>1
    <2> QED
      BY <1>5, <2>1, <2>2, <2>3 DEF Places
  <1>16. Quoted(d) = {}
    <2>1. d[a + 1] \notin Quoting /\ d[a + b + 2] \notin Quoting /\ DOMAIN d = 1..Len(d)
      BY <1>0, <1>1, <1>2
    <2> QED
      BY <1>5, <2>1 DEF Quoted
  <1>7. MarkerStart(d) = a + 1 /\ MarkerEnd(d) = a + b + 2 /\ ~Plain(d)
    BY <1>6 DEF MarkerStart, MarkerEnd, Plain
  <1>8. SubSeq(d, a + 1 + 1, a + 1 + Len(mid)) = mid
    <2> DEFINE m == a + 1
    <2>1. m \in Nat /\ \A i \in 1..Len(mid) : d[m + i] = mid[i]
      BY <1>11, <1>14
    <2> HIDE DEF m
    <2>2. mid \in Seq(Text)
      BY <1>4
    <2>3. SubSeq(d, m + 1, m + Len(mid)) = mid
      <3>1. Carries(d, m, mid)
        BY <2>1, <2>2 DEF Carries
      <3> QED
        BY <2>1, <2>2, <3>1, SliceIs
    <2> QED
      BY <2>3 DEF m
  <1>9. SubSeq(d, 0 + 1, 0 + Len(pre)) = pre
    <2>1. Carries(d, 0, pre)
      BY <1>4, <1>13 DEF Carries
    <2> QED
      BY <1>4, <1>13, <2>1, SliceIs
  <1>10. SubSeq(d, a + b + 2 + 1, a + b + 2 + Len(post)) = post
    <2> DEFINE m == a + b + 2
    <2>1. m \in Nat /\ \A i \in 1..Len(post) : d[m + i] = post[i]
      BY <1>12, <1>14
    <2> HIDE DEF m
    <2>2. post \in Seq(Text)
      BY <1>4
    <2>3. SubSeq(d, m + 1, m + Len(post)) = post
      <3>1. Carries(d, m, post)
        BY <2>1, <2>2 DEF Carries
      <3> QED
        BY <2>1, <2>2, <3>1, SliceIs
    <2> QED
      BY <2>3 DEF m
  <1>15. /\ MarkerStart(d) + 1 = a + 1 + 1 /\ MarkerEnd(d) - 1 = a + 1 + Len(mid)
         /\ MarkerStart(d) - 1 = 0 + Len(pre) /\ 0 + 1 = 1
         /\ MarkerEnd(d) + 1 = a + b + 2 + 1 /\ Len(d) = a + b + 2 + Len(post)
    BY <1>7, <1>1 DEF a, b, c
  <1> QED
    BY <1>6, <1>7, <1>8, <1>9, <1>10, <1>15, <1>16 DEF a, b, Inside

\* A document that can be read has such a form.
LEMMA DocumentSplits ==
  ASSUME NEW d \in Seq(Token0), Valid(d), ~Plain(d)
  PROVE  \E pre, mid, post : Marked(d, pre, mid, post)
  <1> DEFINE s == MarkerStart(d)
             e == MarkerEnd(d)
             pre == SubSeq(d, 1, s - 1)
             mid == SubSeq(d, s + 1, e - 1)
             post == SubSeq(d, e + 1, Len(d))
  <1>1. Cardinality(Places(d, Start)) = 1 /\ Cardinality(Places(d, End)) = 1 /\ s < e
        /\ Quoted(d) = {}
    BY DEF Valid
  <1>2. Len(d) \in Nat /\ DOMAIN d = 1..Len(d) /\ \A i \in 1..Len(d) : d[i] \in Token0
    BY Elements
  <1>3. ASSUME NEW t, Cardinality(Places(d, t)) = 1
        PROVE  \E i : Places(d, t) = {i}
    <2>1. Places(d, t) \subseteq 1..Len(d)
      BY <1>2 DEF Places
    <2>2. IsFiniteSet(Places(d, t))
      <3>1. IsFiniteSet(1..Len(d))
        BY <1>2, FS_Interval
      <3> QED
        BY <2>1, <3>1, FS_Subset
    <2> QED
      BY <2>2, <1>3, FS_Singleton
  <1>4. Places(d, Start) = {s}
    <2>1. PICK i : Places(d, Start) = {i}
      BY <1>1, <1>3
    <2> QED
      BY <2>1 DEF MarkerStart
  <1>5. Places(d, End) = {e}
    <2>1. PICK i : Places(d, End) = {i}
      BY <1>1, <1>3
    <2> QED
      BY <2>1 DEF MarkerEnd
  <1>6. s \in 1..Len(d) /\ e \in 1..Len(d) /\ d[s] = Start /\ d[e] = End
    BY <1>2, <1>4, <1>5 DEF Places
  <1>7. \A i \in 1..Len(d) : i # s /\ i # e => d[i] \in Text
    BY <1>1, <1>2, <1>4, <1>5 DEF Places, Quoted, Text
  <1> HIDE DEF s, e
  <1>8. pre \in Seq(Text) /\ Len(pre) = s - 1 /\ \A i \in 1..(s - 1) : pre[i] = d[i]
    <2>1. \A i \in 1..(s - 1) : d[i] \in Text
      BY <1>1, <1>2, <1>6, <1>7
    <2>2. 1 \in Int /\ s - 1 \in Int
      BY <1>6
    <2>3. pre \in Seq(Text) /\ Len(pre) = (IF 1 <= s - 1 THEN (s - 1) - 1 + 1 ELSE 0)
          /\ \A i \in 1..((s - 1) - 1 + 1) : pre[i] = d[1 + i - 1]
      BY <2>1, <2>2, SubSeqProperties
    <2> HIDE DEF pre
    <2> QED
      BY <2>3, <1>6
  <1>9. mid \in Seq(Text) /\ Len(mid) = e - s - 1 /\ \A i \in 1..(e - s - 1) : mid[i] = d[s + i]
    <2>1. \A i \in (s + 1)..(e - 1) : d[i] \in Text
      BY <1>1, <1>2, <1>6, <1>7
    <2>2. s + 1 \in Int /\ e - 1 \in Int
      BY <1>6
    <2>3. mid \in Seq(Text) /\ Len(mid) = (IF s + 1 <= e - 1 THEN (e - 1) - (s + 1) + 1 ELSE 0)
          /\ \A i \in 1..((e - 1) - (s + 1) + 1) : mid[i] = d[(s + 1) + i - 1]
      BY <2>1, <2>2, SubSeqProperties
    <2> HIDE DEF mid
    <2>4. Len(mid) = e - s - 1
      BY <2>3, <1>1, <1>6
    <2>5. ASSUME NEW i \in 1..(e - s - 1) PROVE mid[i] = d[s + i]
      <3>1. i \in 1..((e - 1) - (s + 1) + 1) /\ (s + 1) + i - 1 = s + i
        BY <1>6
      <3> QED
        BY <3>1, <2>3
    <2> QED
      BY <2>3, <2>4, <2>5
  <1>10. post \in Seq(Text) /\ Len(post) = Len(d) - e
         /\ \A i \in 1..(Len(d) - e) : post[i] = d[e + i]
    <2>1. \A i \in (e + 1)..Len(d) : d[i] \in Text
      BY <1>1, <1>2, <1>6, <1>7
    <2>2. e + 1 \in Int /\ Len(d) \in Int
      BY <1>2, <1>6
    <2>3. post \in Seq(Text) /\ Len(post) = (IF e + 1 <= Len(d) THEN Len(d) - (e + 1) + 1 ELSE 0)
          /\ \A i \in 1..(Len(d) - (e + 1) + 1) : post[i] = d[(e + 1) + i - 1]
      BY <2>1, <2>2, SubSeqProperties
    <2> HIDE DEF post
    <2>4. Len(post) = Len(d) - e
      <3> DEFINE n == Len(post)
                 l == Len(d)
      <3>1. n = (IF e + 1 <= l THEN l - (e + 1) + 1 ELSE 0)
        BY <2>3
      <3>2. l \in Nat /\ e \in 1..l
        BY <1>2, <1>6
      <3> HIDE DEF n, l
      <3>3. n = l - e
        BY <3>1, <3>2
      <3> QED
        BY <3>3 DEF n, l
    <2>5. ASSUME NEW i \in 1..(Len(d) - e) PROVE post[i] = d[e + i]
      <3>1. i \in 1..(Len(d) - (e + 1) + 1) /\ (e + 1) + i - 1 = e + i
        BY <1>2, <1>6
      <3> QED
        BY <3>1, <2>3
    <2> QED
      BY <2>3, <2>4, <2>5
  <1> HIDE DEF pre, mid, post
  <1>11. /\ Len(d) = Len(pre) + Len(mid) + Len(post) + 2
         /\ Len(pre) + 1 = s /\ Len(pre) + Len(mid) + 2 = e
    BY <1>1, <1>2, <1>6, <1>8, <1>9, <1>10
  <1>12. Marked(d, pre, mid, post)
    <2>1. \A i \in 1..Len(pre) : d[i] = pre[i]
      BY <1>8
    <2>2. \A i \in 1..Len(mid) : d[Len(pre) + 1 + i] = mid[i]
      BY <1>9, <1>11
    <2>3. \A i \in 1..Len(post) : d[Len(pre) + Len(mid) + 2 + i] = post[i]
      BY <1>10, <1>11
    <2>4. d[Len(pre) + 1] = Start /\ d[Len(pre) + Len(mid) + 2] = End
      BY <1>6, <1>11
    <2> QED
      BY <1>8, <1>9, <1>10, <1>11, <2>1, <2>2, <2>3, <2>4 DEF Marked
  <1> QED
    BY <1>12

\* What a removal of the block takes with it: the newline after the end marker, and the
\* blank line before the start marker.
Below(post) ==
  IF Len(post) > 0 /\ post[1] \in Newlines THEN SubSeq(post, 2, Len(post)) ELSE post
Above(pre, nl) ==
  IF Len(pre) > 1 /\ SubSeq(pre, Len(pre) - 1, Len(pre)) = <<nl, nl>>
    THEN SubSeq(pre, 1, Len(pre) - 2) ELSE pre

\* The bytes outside a block are the ones above it, without the blank line, and below it.
LEMMA MarkedEdges ==
  ASSUME NEW d, NEW pre, NEW mid, NEW post, Marked(d, pre, mid, post)
  PROVE  /\ SubSeq(d, RegionEnd(d) + 1, Len(d)) = Below(post)
         /\ SubSeq(d, 1, RegionStart(d) - 1) = Above(pre, NewlineOf(d))
         /\ RegionStart(d) = Len(Above(pre, NewlineOf(d))) + 1
         /\ Outside(d) = Joined(Above(pre, NewlineOf(d)), Below(post))
         /\ Below(post) \in Seq(Text) /\ Above(pre, NewlineOf(d)) \in Seq(Text)
  <1> DEFINE a == Len(pre)
             b == Len(mid)
             c == Len(post)
             nl == NewlineOf(d)
             e == MarkerEnd(d)
             s == MarkerStart(d)
  <1>1. /\ d \in Seq(Token0) /\ pre \in Seq(Text) /\ post \in Seq(Text)
        /\ a \in Nat /\ b \in Nat /\ c \in Nat
        /\ DOMAIN d = 1..Len(d) /\ Len(d) = a + b + c + 2
        /\ (\A i \in 1..a : pre[i] \in Text) /\ (\A i \in 1..c : post[i] \in Text)
    BY Elements DEF Marked
  <1>2. /\ \A i \in 1..a : d[i] = pre[i]
        /\ \A i \in 1..c : d[a + b + 2 + i] = post[i]
    BY DEF Marked
  <1>3. s = a + 1 /\ e = a + b + 2 /\ ~Plain(d) /\ SubSeq(d, 1, s - 1) = pre
        /\ SubSeq(d, e + 1, Len(d)) = post
    BY MarkedReads
  <1> HIDE DEF a, b, c, nl, e, s
  <1>4. SubSeq(d, RegionEnd(d) + 1, Len(d)) = Below(post) /\ Below(post) \in Seq(Text)
    <2>1. CASE c > 0 /\ post[1] \in Newlines
      <3> DEFINE t == SubSeq(post, 2, c)
      <3>1. e < Len(d) /\ d[e + 1] \in {LF, CRLF}
        BY <1>1, <1>2, <1>3, <2>1 DEF Newlines
      <3>2. RegionEnd(d) = e + 1
        BY <3>1 DEF RegionEnd, e
      <3>3. Below(post) = t
        BY <2>1 DEF Below, c
      <3>4. t \in Seq(Text) /\ Len(t) = c - 1 /\ \A i \in 1..(c - 1) : t[i] = post[i + 1]
        <4>1. \A i \in 2..c : post[i] \in Text
          BY <1>1
        <4>2. 2 \in Int /\ c \in Int
          BY <1>1
        <4>3. t \in Seq(Text) /\ Len(t) = (IF 2 <= c THEN c - 2 + 1 ELSE 0)
              /\ \A i \in 1..(c - 2 + 1) : t[i] = post[2 + i - 1]
          BY <4>1, <4>2, SubSeqProperties
        <4> HIDE DEF t
        <4>4. ASSUME NEW i \in 1..(c - 1) PROVE t[i] = post[i + 1]
          <5>1. i \in 1..(c - 2 + 1) /\ 2 + i - 1 = i + 1
            BY <1>1
          <5> QED
            BY <5>1, <4>3
        <4> QED
          BY <4>3, <4>4, <1>1, <2>1
      <3> HIDE DEF t
      <3>5. \A i \in 1..Len(t) : d[(e + 1) + i] = t[i]
        <4> SUFFICES ASSUME NEW i \in 1..Len(t) PROVE d[(e + 1) + i] = t[i]
          OBVIOUS
        <4>1. i + 1 \in 1..c /\ i \in 1..(c - 1) /\ (e + 1) + i = a + b + 2 + (i + 1)
          BY <1>1, <1>3, <3>4
        <4> QED
          BY <4>1, <1>2, <3>4
      <3>6. SubSeq(d, e + 1 + 1, e + 1 + Len(t)) = t
        <4> DEFINE m == e + 1
        <4>0. m \in Nat
          BY <1>1, <1>3
        <4>1. m \in Nat /\ \A i \in 1..Len(t) : d[m + i] = t[i]
          BY <3>5, <4>0, Zenon
        <4> HIDE DEF m
        <4>2. SubSeq(d, m + 1, m + Len(t)) = t
          <5>1. Carries(d, m, t)
            BY <4>1, <3>4 DEF Carries
          <5> QED
            BY <4>1, <3>4, <5>1, SliceIs
        <4> QED
          BY <4>2 DEF m
      <3>7. e + 1 + Len(t) = Len(d)
        <4> DEFINE l == Len(t)
                   k == Len(d)
        <4>1. l = c - 1 /\ k = a + b + c + 2 /\ e = a + b + 2
              /\ a \in Nat /\ b \in Nat /\ c \in Nat
          BY <3>4, <1>1, <1>3
        <4> HIDE DEF l, k, a, b, c, e
        <4>2. e + 1 + l = k
          BY <4>1
        <4> QED
          BY <4>2 DEF l, k
      <3> QED
        BY <3>2, <3>3, <3>4, <3>6, <3>7
    <2>2. CASE ~(c > 0 /\ post[1] \in Newlines)
      <3>1. ~(e < Len(d) /\ d[e + 1] \in {LF, CRLF})
        <4> SUFFICES ASSUME e < Len(d) PROVE d[e + 1] \notin {LF, CRLF}
          OBVIOUS
        <4>1. c > 0 /\ 1 \in 1..c /\ e + 1 = a + b + 2 + 1
          BY <1>1, <1>3
        <4>2. d[e + 1] = post[1]
          BY <4>1, <1>2
        <4> QED
          BY <4>1, <4>2, <2>2 DEF Newlines
      <3>2. RegionEnd(d) = e
        BY <3>1 DEF RegionEnd, e
      <3>3. Below(post) = post
        BY <2>2 DEF Below, c
      <3> QED
        BY <3>2, <3>3, <1>1, <1>3
    <2> QED
      BY <2>1, <2>2
  <1>5. /\ SubSeq(d, 1, RegionStart(d) - 1) = Above(pre, nl)
        /\ RegionStart(d) = Len(Above(pre, nl)) + 1
        /\ Above(pre, nl) \in Seq(Text)
    <2>0. a > 1 => SubSeq(d, s - 2, s - 1) = SubSeq(pre, a - 1, a)
      <3> SUFFICES ASSUME a > 1 PROVE SubSeq(d, s - 2, s - 1) = SubSeq(pre, a - 1, a)
        OBVIOUS
      <3> DEFINE t == SubSeq(pre, a - 1, a)
      <3>1. \A i \in (a - 1)..a : pre[i] \in Text
        BY <1>1
      <3>2. a - 1 \in Int /\ a \in Int
        BY <1>1
      <3>3. t \in Seq(Text) /\ Len(t) = (IF a - 1 <= a THEN a - (a - 1) + 1 ELSE 0)
            /\ \A i \in 1..(a - (a - 1) + 1) : t[i] = pre[(a - 1) + i - 1]
        BY <3>1, <3>2, SubSeqProperties
      <3> HIDE DEF t
      <3> DEFINE m == a - 2
      <3>4. Len(t) = 2 /\ m \in Nat
        BY <3>3, <1>1
      <3>5. ASSUME NEW i \in 1..Len(t) PROVE d[m + i] = t[i]
        <4>1. i \in 1..(a - (a - 1) + 1) /\ (a - 1) + i - 1 = m + i /\ m + i \in 1..a
          BY <3>4, <1>1
        <4> QED
          BY <4>1, <3>3, <1>2
      <3> HIDE DEF m
      <3>6. SubSeq(d, m + 1, m + Len(t)) = t
        <4>1. t \in Seq(Text) /\ m \in Nat
          BY <3>3, <3>4
        <4>2. Carries(d, m, t)
          BY <3>5 DEF Carries
        <4> QED
          BY <4>1, <4>2, SliceIs
      <3>7. m + 1 = s - 2 /\ m + Len(t) = s - 1
        <4>1. a \in Nat /\ s = a + 1
          BY <1>1, <1>3
        <4>2. Len(t) = 2
          BY <3>4
        <4> HIDE DEF a, s
        <4> QED
          BY <4>1, <4>2 DEF m
      <3> QED
        BY <3>6, <3>7 DEF t
    <2>1. CASE a > 1 /\ SubSeq(pre, a - 1, a) = <<nl, nl>>
      <3> DEFINE t == SubSeq(pre, 1, a - 2)
      <3>1. RegionStart(d) = s - 2
        <4>1. s > 2 /\ SubSeq(d, s - 2, s - 1) = <<nl, nl>>
          <5>1. s > 2 /\ a > 1
            BY <2>1, <1>1, <1>3
          <5> QED
            BY <5>1, <2>0, <2>1, Zenon
        <4> QED
          BY <4>1 DEF RegionStart, s, nl
      <3>2. Above(pre, nl) = t
        BY <2>1 DEF Above, a
      <3>3. t \in Seq(Text) /\ Len(t) = a - 2 /\ \A i \in 1..(a - 2) : t[i] = pre[i]
        <4>1. \A i \in 1..(a - 2) : pre[i] \in Text
          BY <1>1
        <4>2. 1 \in Int /\ a - 2 \in Int
          BY <1>1
        <4>3. t \in Seq(Text) /\ Len(t) = (IF 1 <= a - 2 THEN (a - 2) - 1 + 1 ELSE 0)
              /\ \A i \in 1..((a - 2) - 1 + 1) : t[i] = pre[1 + i - 1]
          BY <4>1, <4>2, SubSeqProperties
        <4> HIDE DEF t
        <4>4. (IF 1 <= a - 2 THEN (a - 2) - 1 + 1 ELSE 0) = a - 2
          BY <1>1, <2>1
        <4>5. ASSUME NEW i \in 1..(a - 2) PROVE t[i] = pre[i]
          <5>1. i \in 1..((a - 2) - 1 + 1) /\ 1 + i - 1 = i
            BY <1>1
          <5> QED
            BY <5>1, <4>3
        <4> QED
          BY <4>3, <4>4, <4>5
      <3> HIDE DEF t
      <3>4. ASSUME NEW i \in 1..Len(t) PROVE d[0 + i] = t[i]
        <4>1. i \in 1..(a - 2) /\ i \in 1..a /\ 0 + i = i
          BY <3>3, <1>1
        <4>2. d[i] = pre[i]
          BY <4>1, <1>2
        <4>3. t[i] = pre[i]
          BY <4>1, <3>3
        <4> QED
          BY <4>1, <4>2, <4>3
      <3>5. SubSeq(d, 0 + 1, 0 + Len(t)) = t
        <4>1. Carries(d, 0, t)
          BY <3>3, <3>4 DEF Carries
        <4> QED
          BY <3>3, <3>4, <4>1, SliceIs
      <3>6. 0 + Len(t) = (s - 2) - 1 /\ 0 + 1 = 1 /\ s - 2 = Len(t) + 1
        BY <3>3, <1>1, <1>3
      <3> QED
        BY <3>1, <3>2, <3>3, <3>5, <3>6
    <2>2. CASE ~(a > 1 /\ SubSeq(pre, a - 1, a) = <<nl, nl>>)
      <3>1. ~(s > 2 /\ SubSeq(d, s - 2, s - 1) = <<nl, nl>>)
        <4>1. s > 2 => a > 1
          BY <1>1, <1>3
        <4> QED
          BY <4>1, <2>0, <2>2, Zenon
      <3>2. RegionStart(d) = s
        BY <3>1 DEF RegionStart, s, nl
      <3>3. Above(pre, nl) = pre
        BY <2>2 DEF Above, a
      <3> QED
        BY <3>2, <3>3, <1>1, <1>3 DEF a
    <2> QED
      BY <2>1, <2>2
  <1>6. Outside(d) = Joined(Above(pre, nl), Below(post))
    BY <1>3, <1>4, <1>5, Zenon DEF Outside
  <1> QED
    BY <1>4, <1>5, <1>6 DEF nl

-----------------------------------------------------------------------------
(* What a written block reads back as.                                     *)

\* What the program writes cannot be mistaken for a marker.
LEMMA TokensApart ==
  /\ Newlines \subseteq Text /\ Heading \in Text /\ Safe \subseteq Text /\ Text \subseteq Token0
  /\ Breaks \subseteq Text /\ Newlines \subseteq Breaks /\ Safe \subseteq Rule
  /\ Rule \subseteq Token0 /\ Newlines \subseteq Token0 /\ Heading \in Token0
  /\ Heading \notin Breaks /\ Rule \intersect Breaks = {} /\ Safe \intersect Breaks = {}
  /\ Start \in Token0 /\ End \in Token0 /\ Start \notin Breaks /\ End \notin Breaks
  BY TokenAssumption, RuleAssumption DEF Text, Token0, Newlines, Breaks, Safe

\* What a written block holds between its markers.
Between(rules, nl) == (<<nl, Heading>> \o Written(rules, nl)) \o <<nl>>

\* A written block starts and ends with its markers, and a line end.
LEMMA BlockReads ==
  ASSUME NEW rules \in Seq(Rule), rules # <<>>, NEW nl \in Newlines, NEW b, NEW m,
         b = ManagedBlock(rules, nl), m = Between(rules, nl)
  PROVE  /\ m \in Seq(Token0) /\ b \in Seq(Token0) /\ Len(b) = Len(m) + 3
         /\ b[1] = Start /\ \A i \in 1..Len(m) : b[1 + i] = m[i]
         /\ b[Len(m) + 2] = End /\ b[Len(m) + 3] = nl
  <1> DEFINE w == Written(rules, nl)
             top == <<Start, nl, Heading>>
             sub == <<nl, Heading>>
             bottom == <<nl, End, nl>>
             last == <<nl>>
             n == Len(w)
  <1>1. w \in Seq(Token0)
    <2>1. w \in Seq({nl} \union Rule)
      BY WrittenType
    <2>2. {nl} \union Rule \subseteq Token0
      BY TokensApart
    <2> HIDE DEF w
    <2> QED
      BY <2>1, <2>2, SeqMonotonic
  <1>2. /\ top \in Seq(Token0) /\ Len(top) = 3
        /\ top[1] = Start /\ top[2] = nl /\ top[3] = Heading
        /\ bottom \in Seq(Token0) /\ Len(bottom) = 3
        /\ bottom[1] = nl /\ bottom[2] = End /\ bottom[3] = nl
    <2>1. Start \in Token0 /\ End \in Token0 /\ nl \in Token0 /\ Heading \in Token0
      BY TokensApart
    <2> QED
      BY <2>1
  <1>3. /\ sub \in Seq(Token0) /\ Len(sub) = 2 /\ sub[1] = nl /\ sub[2] = Heading
        /\ last \in Seq(Token0) /\ Len(last) = 1 /\ last[1] = nl
    <2>1. nl \in Token0 /\ Heading \in Token0
      BY TokensApart
    <2> QED
      BY <2>1
  <1>4. w \in Seq(Token0)
    <2> HIDE DEF w
    <2> QED
      BY <1>1, TokensApart, SeqMonotonic
  <1>5. b = (top \o w) \o bottom /\ m = (sub \o w) \o last
    BY DEF ManagedBlock, Between, Written, Entry
  <1> HIDE DEF w, top, sub, bottom, last
  <1>6. n \in Nat
    BY <1>1, Elements
  <1> DEFINE x == top \o w
             y == sub \o w
  <1>7. x \in Seq(Token0) /\ Len(x) = 3 + n
        /\ \A i \in 1..(3 + n) : x[i] = IF i <= 3 THEN top[i] ELSE w[i - 3]
    <2> HIDE DEF n
    <2>1. x \in Seq(Token0) /\ Len(x) = Len(top) + Len(w)
          /\ \A i \in 1..(Len(top) + Len(w)) :
               x[i] = IF i <= Len(top) THEN top[i] ELSE w[i - Len(top)]
      BY <1>2, <1>4, ConcatProperties
    <2> QED
      BY <2>1, <1>2 DEF n
  <1>8. y \in Seq(Token0) /\ Len(y) = 2 + n
        /\ \A i \in 1..(2 + n) : y[i] = IF i <= 2 THEN sub[i] ELSE w[i - 2]
    <2> HIDE DEF n
    <2>1. y \in Seq(Token0) /\ Len(y) = Len(sub) + Len(w)
          /\ \A i \in 1..(Len(sub) + Len(w)) :
               y[i] = IF i <= Len(sub) THEN sub[i] ELSE w[i - Len(sub)]
      BY <1>1, <1>3, ConcatProperties
    <2> QED
      BY <2>1, <1>3 DEF n
  <1> HIDE DEF n, x, y
  <1>9. b \in Seq(Token0) /\ Len(b) = (3 + n) + 3
        /\ \A i \in 1..((3 + n) + 3) : b[i] = IF i <= 3 + n THEN x[i] ELSE bottom[i - (3 + n)]
    <2>1. b = x \o bottom
      BY <1>5 DEF x
    <2>2. x \o bottom \in Seq(Token0) /\ Len(x \o bottom) = Len(x) + Len(bottom)
          /\ \A i \in 1..(Len(x) + Len(bottom)) :
               (x \o bottom)[i] = IF i <= Len(x) THEN x[i] ELSE bottom[i - Len(x)]
      BY <1>2, <1>7, ConcatProperties
    <2> QED
      BY <2>1, <2>2, <1>2, <1>7
  <1>10. m \in Seq(Token0) /\ Len(m) = (2 + n) + 1
        /\ \A i \in 1..((2 + n) + 1) : m[i] = IF i <= 2 + n THEN y[i] ELSE last[i - (2 + n)]
    <2>1. m = y \o last
      BY <1>5 DEF y
    <2>2. y \o last \in Seq(Token0) /\ Len(y \o last) = Len(y) + Len(last)
          /\ \A i \in 1..(Len(y) + Len(last)) :
               (y \o last)[i] = IF i <= Len(y) THEN y[i] ELSE last[i - Len(y)]
      BY <1>3, <1>8, ConcatProperties
    <2> QED
      BY <2>1, <2>2, <1>3, <1>8
  <1>11. Len(b) = Len(m) + 3 /\ Len(m) = n + 3
    BY <1>9, <1>10, <1>6
  <1>12. b[1] = Start
    <2>1. 1 \in 1..((3 + n) + 3) /\ 1 <= 3 + n /\ 1 \in 1..(3 + n) /\ 1 <= 3
      BY <1>6
    <2>2. b[1] = x[1] /\ x[1] = top[1]
      BY <2>1, <1>7, <1>9
    <2> QED
      BY <2>2, <1>2
  <1>13. ASSUME NEW i \in 1..Len(m) PROVE b[1 + i] = m[i]
    <2>1. CASE i = 1
      <3>1. 2 \in 1..((3 + n) + 3) /\ 2 <= 3 + n /\ 2 \in 1..(3 + n) /\ 2 <= 3
            /\ 1 \in 1..((2 + n) + 1) /\ 1 <= 2 + n /\ 1 \in 1..(2 + n) /\ 1 <= 2 /\ 1 + i = 2
        BY <2>1, <1>6
      <3>2. b[2] = x[2] /\ x[2] = top[2] /\ m[1] = y[1] /\ y[1] = sub[1]
        BY <3>1, <1>7, <1>8, <1>9, <1>10
      <3> QED
        BY <2>1, <3>1, <3>2, <1>2, <1>3
    <2>2. CASE i = 2
      <3>1. 3 \in 1..((3 + n) + 3) /\ 3 <= 3 + n /\ 3 \in 1..(3 + n) /\ 3 <= 3
            /\ 2 \in 1..((2 + n) + 1) /\ 2 <= 2 + n /\ 2 \in 1..(2 + n) /\ 2 <= 2 /\ 1 + i = 3
        BY <2>2, <1>6
      <3>2. b[3] = x[3] /\ x[3] = top[3] /\ m[2] = y[2] /\ y[2] = sub[2]
        BY <3>1, <1>7, <1>8, <1>9, <1>10
      <3> QED
        BY <2>2, <3>1, <3>2, <1>2, <1>3
    <2>3. CASE i \in 3..(n + 2)
      <3>1. 1 + i \in 1..((3 + n) + 3) /\ 1 + i <= 3 + n /\ 1 + i \in 1..(3 + n) /\ ~(1 + i <= 3)
            /\ i \in 1..((2 + n) + 1) /\ i <= 2 + n /\ i \in 1..(2 + n) /\ ~(i <= 2)
            /\ (1 + i) - 3 = i - 2
        BY <2>3, <1>6
      <3>2. b[1 + i] = x[1 + i] /\ x[1 + i] = w[(1 + i) - 3] /\ m[i] = y[i] /\ y[i] = w[i - 2]
        BY <3>1, <1>7, <1>8, <1>9, <1>10
      <3> QED
        BY <3>1, <3>2
    <2>4. CASE i = n + 3
      <3>1. 1 + i \in 1..((3 + n) + 3) /\ ~(1 + i <= 3 + n) /\ (1 + i) - (3 + n) = 1
            /\ i \in 1..((2 + n) + 1) /\ ~(i <= 2 + n) /\ i - (2 + n) = 1
        BY <2>4, <1>6
      <3>2. b[1 + i] = bottom[1] /\ m[i] = last[1]
        BY <3>1, <1>9, <1>10
      <3> QED
        BY <3>2, <1>2, <1>3
    <2>5. i = 1 \/ i = 2 \/ i \in 3..(n + 2) \/ i = n + 3
      BY <1>6, <1>11
    <2> QED
      BY <2>1, <2>2, <2>3, <2>4, <2>5
  <1>14. b[Len(m) + 2] = End /\ b[Len(m) + 3] = nl
    <2>1. n + 5 \in 1..((3 + n) + 3) /\ ~(n + 5 <= 3 + n) /\ (n + 5) - (3 + n) = 2
          /\ n + 6 \in 1..((3 + n) + 3) /\ ~(n + 6 <= 3 + n) /\ (n + 6) - (3 + n) = 3
          /\ Len(m) + 2 = n + 5 /\ Len(m) + 3 = n + 6
      BY <1>6, <1>11
    <2>2. b[n + 5] = bottom[2] /\ b[n + 6] = bottom[3]
      BY <2>1, <1>9
    <2> QED
      BY <2>1, <2>2, <1>2
  <1> QED
    BY <1>9, <1>10, <1>11, <1>12, <1>13, <1>14

\* Rules without markers leave none between those of their block.
LEMMA BetweenText ==
  ASSUME NEW rules \in Seq(Safe), NEW nl \in Newlines
  PROVE  Between(rules, nl) \in Seq(Text)
  <1> DEFINE w == Written(rules, nl)
             sub == <<nl, Heading>>
             last == <<nl>>
             y == sub \o w
  <1>1. nl \in Text /\ Heading \in Text
    BY TokensApart
  <1>2. sub \in Seq(Text) /\ last \in Seq(Text)
    BY <1>1
  <1>3. w \in Seq(Text)
    <2>1. w \in Seq({nl} \union Safe)
      BY WrittenType
    <2>2. {nl} \union Safe \subseteq Text
      BY <1>1, TokensApart
    <2> HIDE DEF w
    <2> QED
      BY <2>1, <2>2, SeqMonotonic
  <1>4. Between(rules, nl) = y \o last
    BY DEF Between
  <1> HIDE DEF w, sub, last
  <1>5. y \in Seq(Text)
    BY <1>2, <1>3, ConcatProperties
  <1> HIDE DEF y
  <1> QED
    BY <1>2, <1>4, <1>5, ConcatProperties

\* No two neighbours without a line end between them, and a line end first.
Spaced(s) == \A i \in 1..(Len(s) - 1) : s[i] \in Newlines \/ s[i + 1] \in Newlines
Opens(s)  == Len(s) > 0 => s[1] \in Newlines

\* A text that opens with a line end can follow another.
LEMMA SpacedConcat ==
  ASSUME NEW A, NEW s \in Seq(A), NEW t \in Seq(A), Spaced(s), Spaced(t), Opens(t)
  PROVE  Spaced(s \o t) /\ (Opens(s) => Opens(s \o t))
  <1> DEFINE u == s \o t
             m == Len(s)
             n == Len(t)
  <1>1. m \in Nat /\ n \in Nat
    BY Elements
  <1>2. Len(u) = m + n /\ \A i \in 1..(m + n) : u[i] = IF i <= m THEN s[i] ELSE t[i - m]
    BY ConcatProperties
  <1> HIDE DEF u, m, n
  <1>3. ASSUME NEW i \in 1..(Len(u) - 1) PROVE u[i] \in Newlines \/ u[i + 1] \in Newlines
    <2>1. CASE i + 1 <= m
      <3>1. i \in 1..(Len(s) - 1)
        BY <2>1, <1>1 DEF m
      <3>2. u[i] = s[i] /\ u[i + 1] = s[i + 1]
        BY <2>1, <1>1, <1>2
      <3> QED
        BY <3>1, <3>2 DEF Spaced
    <2>2. CASE i = m
      <3>1. u[i + 1] = t[1] /\ n > 0
        BY <2>2, <1>1, <1>2
      <3> QED
        BY <3>1 DEF Opens, n
    <2>3. CASE i > m
      <3>1. i - m \in 1..(Len(t) - 1)
        BY <2>3, <1>1, <1>2 DEF n
      <3>2. i \in 1..(m + n) /\ ~(i <= m) /\ i + 1 \in 1..(m + n) /\ ~(i + 1 <= m)
            /\ (i + 1) - m = (i - m) + 1
        BY <2>3, <1>1, <1>2
      <3>3. u[i] = t[i - m] /\ u[i + 1] = t[(i - m) + 1]
        BY <3>2, <1>2
      <3> QED
        BY <3>1, <3>3 DEF Spaced
    <2> QED
      BY <2>1, <2>2, <2>3, <1>1
  <1>4. ASSUME Opens(s) PROVE Opens(u)
    <2>1. CASE m > 0
      <3>1. u[1] = s[1]
        BY <2>1, <1>1, <1>2
      <3> QED
        BY <2>1, <3>1, <1>4 DEF Opens, m
    <2>2. CASE m = 0
      <3>1. Len(u) > 0 => u[1] = t[1] /\ n > 0
        BY <2>2, <1>1, <1>2
      <3> QED
        BY <3>1 DEF Opens, n
    <2> QED
      BY <2>1, <2>2, <1>1
  <1> QED
    BY <1>3, <1>4 DEF Spaced, u

\* What a written block holds between its markers keeps every rule on lines of its own.
LEMMA BetweenSeparate ==
  ASSUME NEW rules \in Seq(Rule), NEW nl \in Newlines
  PROVE  Separate(Between(rules, nl))
  <1> DEFINE A == {nl, Heading} \union Rule
             P == {t \in Seq(Rule) : Spaced(Written(t, nl)) /\ Opens(Written(t, nl))}
             sub == <<nl, Heading>>
             last == <<nl>>
  <1>1. <<>> \in P
    <2>1. Written(<<>>, nl) = <<>> /\ Len(<<>>) = 0
      BY WrittenEmpty
    <2>2. Spaced(<<>>) /\ Opens(<<>>)
      BY <2>1 DEF Spaced, Opens
    <2> QED
      BY <2>1, <2>2, EmptySeq
  <1>2. ASSUME NEW t \in Seq(Rule), NEW r \in Rule, t \in P PROVE Append(t, r) \in P
    <2> DEFINE w == Written(t, nl)
               entry == Entry(nl, r)
    <2>1. Written(Append(t, r), nl) = w \o entry
      BY WrittenAppend, Zenon
    <2>2. w \in Seq(A)
      <3>1. w \in Seq({nl} \union Rule) /\ {nl} \union Rule \subseteq A
        BY WrittenType
      <3> HIDE DEF w, A
      <3> QED
        BY <3>1, SeqMonotonic
    <2>3. entry \in Seq(A) /\ Len(entry) = 3 /\ entry[1] = nl /\ entry[2] = nl
      BY DEF Entry
    <2>4. Spaced(w) /\ Opens(w)
      BY <1>2
    <2> HIDE DEF w, entry, A
    <2>5. Spaced(entry) /\ Opens(entry)
      BY <2>3 DEF Spaced, Opens
    <2>6. Spaced(w \o entry) /\ Opens(w \o entry)
      BY <2>2, <2>3, <2>4, <2>5, SpacedConcat
    <2>7. Append(t, r) \in Seq(Rule)
      BY AppendProperties
    <2> QED
      BY <2>1, <2>6, <2>7
  <1>3. Spaced(Written(rules, nl)) /\ Opens(Written(rules, nl))
    <2>1. Seq(Rule) \subseteq P
      <3> HIDE DEF P
      <3> QED
        BY <1>1, <1>2, SequenceInduction
    <2> QED
      BY <2>1
  <1> DEFINE w == Written(rules, nl)
             y == sub \o w
             z == y \o last
  <1>4. w \in Seq(A)
    <2>1. w \in Seq({nl} \union Rule) /\ {nl} \union Rule \subseteq A
      BY WrittenType
    <2> HIDE DEF w, A
    <2> QED
      BY <2>1, SeqMonotonic
  <1>5. /\ sub \in Seq(A) /\ Len(sub) = 2 /\ sub[1] = nl
        /\ last \in Seq(A) /\ Len(last) = 1 /\ last[1] = nl
    OBVIOUS
  <1>6. Between(rules, nl) = z
    BY DEF Between
  <1> HIDE DEF w, sub, last, A
  <1>7. Spaced(sub) /\ Spaced(last) /\ Opens(last)
    BY <1>5 DEF Spaced, Opens
  <1>8. y \in Seq(A) /\ Spaced(y)
    BY <1>3, <1>4, <1>5, <1>7, SpacedConcat, ConcatProperties DEF w
  <1> HIDE DEF y
  <1>9. Spaced(z)
    BY <1>5, <1>7, <1>8, SpacedConcat
  <1> HIDE DEF z
  <1>10. Separate(z)
    <2>1. ASSUME NEW i \in 1..(Len(z) - 1) PROVE {z[i], z[i + 1]} \intersect {LF, CRLF} # {}
      BY <1>9 DEF Spaced, Newlines
    <2> QED
      BY <2>1 DEF Separate
  <1> QED
    BY <1>6, <1>10

\* A block between two texts makes a document with one block.
LEMMA BlockPlaced ==
  ASSUME NEW rules \in Seq(Safe), rules # <<>>, NEW nl \in Newlines,
         NEW pre \in Seq(Text), NEW post \in Seq(Text)
  PROVE  Marked((pre \o ManagedBlock(rules, nl)) \o post, pre, Between(rules, nl), <<nl>> \o post)
  <1> DEFINE b == ManagedBlock(rules, nl)
             m == Between(rules, nl)
             v == pre \o b
             d == v \o post
             q == <<nl>> \o post
             one == <<nl>>
             l == Len(pre)
             k == Len(m)
             c == Len(post)
  <1>1. /\ m \in Seq(Text) /\ b \in Seq(Token0) /\ Len(b) = k + 3
        /\ b[1] = Start /\ \A i \in 1..k : b[1 + i] = m[i]
        /\ b[k + 2] = End /\ b[k + 3] = nl
    <2>1. rules \in Seq(Rule)
      BY TokensApart, SeqMonotonic
    <2>2. m \in Seq(Text)
      BY BetweenText
    <2> HIDE DEF b, m
    <2> QED
      BY <2>1, <2>2, BlockReads DEF b, m
  <1>2. l \in Nat /\ k \in Nat /\ c \in Nat
    BY <1>1, Elements
  <1>3. pre \in Seq(Token0) /\ post \in Seq(Token0)
    BY TokensApart, SeqMonotonic
  <1>4. one \in Seq(Text) /\ Len(one) = 1 /\ one[1] = nl
    <2>1. nl \in Text
      BY TokensApart
    <2> QED
      BY <2>1
  <1> HIDE DEF b, m, one
  <1>5. v \in Seq(Token0) /\ Len(v) = l + (k + 3)
        /\ \A i \in 1..(l + (k + 3)) : v[i] = IF i <= l THEN pre[i] ELSE b[i - l]
    <2>1. v \in Seq(Token0) /\ Len(v) = Len(pre) + Len(b)
          /\ \A i \in 1..(Len(pre) + Len(b)) :
               v[i] = IF i <= Len(pre) THEN pre[i] ELSE b[i - Len(pre)]
      BY <1>1, <1>3, ConcatProperties
    <2> QED
      BY <2>1, <1>1
  <1> HIDE DEF v
  <1>6. d \in Seq(Token0) /\ Len(d) = (l + (k + 3)) + c
        /\ \A i \in 1..((l + (k + 3)) + c) :
             d[i] = IF i <= l + (k + 3) THEN v[i] ELSE post[i - (l + (k + 3))]
    <2>1. d \in Seq(Token0) /\ Len(d) = Len(v) + Len(post)
          /\ \A i \in 1..(Len(v) + Len(post)) :
               d[i] = IF i <= Len(v) THEN v[i] ELSE post[i - Len(v)]
      BY <1>3, <1>5, ConcatProperties
    <2> QED
      BY <2>1, <1>5
  <1>7. q = one \o post
    BY DEF one
  <1> HIDE DEF q
  <1>8. q \in Seq(Text) /\ Len(q) = 1 + c
        /\ \A i \in 1..(1 + c) : q[i] = IF i <= 1 THEN one[i] ELSE post[i - 1]
    <2>1. one \o post \in Seq(Text) /\ Len(one \o post) = Len(one) + Len(post)
          /\ \A i \in 1..(Len(one) + Len(post)) :
               (one \o post)[i] = IF i <= Len(one) THEN one[i] ELSE post[i - Len(one)]
      BY <1>4, ConcatProperties
    <2> QED
      BY <2>1, <1>4, <1>7
  <1> HIDE DEF d, l, k, c
  <1>9. ASSUME NEW i \in 1..l PROVE d[i] = pre[i]
    <2>1. i \in 1..((l + (k + 3)) + c) /\ i <= l + (k + 3) /\ i \in 1..(l + (k + 3)) /\ i <= l
      BY <1>2
    <2> QED
      BY <2>1, <1>5, <1>6
  <1>10. ASSUME NEW j \in 1..(k + 3) PROVE d[l + j] = b[j]
    <2>1. l + j \in 1..((l + (k + 3)) + c) /\ l + j <= l + (k + 3) /\ l + j \in 1..(l + (k + 3))
          /\ ~(l + j <= l) /\ (l + j) - l = j
      BY <1>2
    <2> QED
      BY <2>1, <1>5, <1>6
  <1>11. d[l + 1] = Start /\ d[l + k + 2] = End
    <2>1. 1 \in 1..(k + 3) /\ k + 2 \in 1..(k + 3) /\ l + (k + 2) = l + k + 2
      BY <1>2
    <2>2. d[l + 1] = b[1] /\ d[l + (k + 2)] = b[k + 2]
      BY <2>1, <1>10
    <2> QED
      BY <2>1, <2>2, <1>1
  <1>12. ASSUME NEW i \in 1..k PROVE d[l + 1 + i] = m[i]
    <2>1. 1 + i \in 1..(k + 3) /\ l + (1 + i) = l + 1 + i
      BY <1>2
    <2>2. d[l + (1 + i)] = b[1 + i]
      BY <2>1, <1>10
    <2> QED
      BY <2>1, <2>2, <1>1
  <1>13. ASSUME NEW i \in 1..(1 + c) PROVE d[l + k + 2 + i] = q[i]
    <2>1. CASE i = 1
      <3>1. k + 3 \in 1..(k + 3) /\ l + (k + 3) = l + k + 2 + i /\ i \in 1..(1 + c) /\ i <= 1
        BY <2>1, <1>2
      <3>2. d[l + (k + 3)] = b[k + 3]
        BY <3>1, <1>10
      <3>3. q[i] = one[i]
        BY <3>1, <1>8
      <3> QED
        BY <2>1, <3>1, <3>2, <3>3, <1>1, <1>4
    <2>2. CASE i \in 2..(1 + c)
      <3> DEFINE j == l + k + 2 + i
      <3>1. j \in 1..((l + (k + 3)) + c) /\ ~(j <= l + (k + 3)) /\ j - (l + (k + 3)) = i - 1
            /\ ~(i <= 1)
        BY <2>2, <1>2
      <3> HIDE DEF j
      <3>2. d[j] = post[i - 1] /\ q[i] = post[i - 1]
        BY <3>1, <1>6, <1>8
      <3> QED
        BY <3>2 DEF j
    <2> QED
      BY <2>1, <2>2, <1>2
  <1>14. Len(d) = l + k + Len(q) + 2
    BY <1>2, <1>6, <1>8
  <1>15. Marked(d, pre, m, q)
    <2>1. /\ \A i \in 1..Len(pre) : d[i] = pre[i]
          /\ d[Len(pre) + 1] = Start
          /\ \A i \in 1..Len(m) : d[Len(pre) + 1 + i] = m[i]
          /\ d[Len(pre) + Len(m) + 2] = End
          /\ \A i \in 1..Len(q) : d[Len(pre) + Len(m) + 2 + i] = q[i]
      BY <1>8, <1>9, <1>11, <1>12, <1>13 DEF l, k
    <2> QED
      BY <2>1, <1>1, <1>6, <1>8, <1>14 DEF Marked, l, k
  <1> QED
    BY <1>15 DEF d, v, b, m, q

\* What is read from such a block is the heading and the rules.
LEMMA BetweenReads ==
  ASSUME NEW rules \in Seq(Safe), NEW nl \in Newlines
  PROVE  Without(Between(rules, nl), Breaks) = <<Heading>> \o rules
  <1> DEFINE w == Written(rules, nl)
             sub == <<nl, Heading>>
             last == <<nl>>
             y == sub \o w
             hd == <<Heading>>
             none == <<>>
  <1>1. nl \in Text /\ Heading \in Text /\ Heading \notin Breaks /\ nl \in Breaks
    BY TokensApart
  <1>2. w \in Seq(Text) /\ Without(w, Breaks) = rules
    <2>1. w \in Seq({nl} \union Safe)
      BY WrittenType
    <2>2. {nl} \union Safe \subseteq Text
      BY TokensApart
    <2>3. Without(w, Breaks) = rules
      BY WrittenReads, TokensApart
    <2> HIDE DEF w
    <2> QED
      BY <2>1, <2>2, <2>3, SeqMonotonic
  <1>3. sub \in Seq(Text) /\ last \in Seq(Text) /\ none \in Seq(Text) /\ hd \in Seq(Text)
    BY <1>1
  <1>4. Append(none, nl) = last /\ Append(none, Heading) = hd /\ Append(last, Heading) = sub
    <2> DEFINE one == Append(none, nl)
    <2>0. Spelled(nl, Heading, nl) /\ Spelled(Heading, nl, nl)
      BY <1>1, AppendsAre
    <2>1. Append(none, nl) = <<nl>> /\ Append(none, Heading) = <<Heading>>
      BY <2>0, Zenon DEF Spelled
    <2>2. Append(<<nl>>, Heading) = <<nl, Heading>>
      BY <2>0, Zenon DEF Spelled
    <2> QED
      BY <2>1, <2>2
  <1>5. Between(rules, nl) = y \o last
    BY DEF Between
  <1>6. rules \in Seq(Text)
    BY TokensApart, SeqMonotonic
  <1>0. Without(none, Breaks) = none
    BY WithoutEmpty, Zenon
  <1> HIDE DEF w, sub, last, hd, none
  <1>7. y \in Seq(Text)
    BY <1>2, <1>3, ConcatProperties
  <1>14. \A u, v \in Seq(Text) :
            Without(u \o v, Breaks) = Without(u, Breaks) \o Without(v, Breaks)
    BY WithoutConcat
  <1>8. Without(y \o last, Breaks) = Without(y, Breaks) \o Without(last, Breaks)
    <2> HIDE DEF y
    <2> QED
      BY <1>3, <1>7, <1>14
  <1>9. Without(y, Breaks) = Without(sub, Breaks) \o Without(w, Breaks)
    BY <1>2, <1>3, <1>14
  <1>10. Without(last, Breaks) = none
    <2>1. Without(Append(none, nl), Breaks) = Without(none, Breaks)
      BY <1>1, <1>3, WithoutDrops
    <2> QED
      BY <2>1, <1>0, <1>4
  <1>11. Without(sub, Breaks) = hd
    <2>1. Without(Append(last, Heading), Breaks) = Append(Without(last, Breaks), Heading)
      BY <1>1, <1>3, WithoutKeeps
    <2> QED
      BY <2>1, <1>4, <1>10
  <1>12. (hd \o rules) \o none = hd \o rules
    <2> DEFINE h == hd \o rules
    <2>1. h \in Seq(Text)
      BY <1>3, <1>6, ConcatProperties
    <2> HIDE DEF h
    <2>2. h \o <<>> = h
      BY <2>1, ConcatEmptySeq
    <2> QED
      BY <2>2 DEF h, none
  <1> HIDE DEF y
  <1>13. Without(Between(rules, nl), Breaks) = (hd \o rules) \o none
    BY <1>2, <1>5, <1>8, <1>9, <1>10, <1>11, Zenon
  <1> QED
    BY <1>12, <1>13 DEF hd

-----------------------------------------------------------------------------
(* A document with a block put in it, replaced or removed.                 *)

\* A document without markers is text.
LEMMA PlainIsText ==
  ASSUME NEW d \in Seq(Token0)
  PROVE  Plain(d) <=> d \in Seq(Text)
  <1>1. Len(d) \in Nat /\ DOMAIN d = 1..Len(d) /\ d \in [1..Len(d) -> Token0]
        /\ \A i \in 1..Len(d) : d[i] \in Token0
    BY LenProperties
  <1>2. ASSUME Plain(d) PROVE d \in Seq(Text)
    <2>1. \A i \in 1..Len(d) : d[i] # Start /\ d[i] # End /\ d[i] \notin Quoting
      BY <1>1, <1>2 DEF Plain, Places, Quoted
    <2>2. d \in [1..Len(d) -> Text]
      BY <1>1, <2>1 DEF Text
    <2> QED
      BY <1>1, <2>2, SeqDef
  <1>3. ASSUME d \in Seq(Text) PROVE Plain(d)
    <2>1. \A i \in 1..Len(d) : d[i] \in Text
      BY <1>3, Elements
    <2> QED
      BY <1>1, <2>1 DEF Plain, Places, Quoted, Text
  <1> QED
    BY <1>2, <1>3

\* A document whose block holds the rules, below one text and above another.
Reads(d, rules, above, below) ==
  /\ d \in Seq(Token0) /\ ~Plain(d) /\ Valid(d) /\ RulesOf(d) = rules
  /\ Outside(d) = Joined(above, below)
  /\ RegionStart(d) = Len(above) + 1

\* Reading a document that a block was placed in.
LEMMA PlacedReads ==
  ASSUME NEW rules \in Seq(Safe), rules # <<>>, NEW nl \in Newlines,
         NEW pre \in Seq(Text), NEW post \in Seq(Text),
         IsInjective(rules), \A r \in Range(rules) : SizeOf[r] <= MaxRule,
         NEW d, d = (pre \o ManagedBlock(rules, nl)) \o post,
         NewlineOf(d) = nl
  PROVE  Reads(d, rules, Above(pre, nl), post)
  <1> DEFINE m == Between(rules, nl)
             q == <<nl>> \o post
             one == <<nl>>
             hd == <<Heading>>
  <1>1. Marked(d, pre, m, q)
    BY BlockPlaced
  <1>2. /\ ~Plain(d) /\ Places(d, Start) = {Len(pre) + 1}
        /\ Places(d, End) = {Len(pre) + Len(m) + 2}
        /\ MarkerStart(d) = Len(pre) + 1 /\ MarkerEnd(d) = Len(pre) + Len(m) + 2
        /\ Inside(d) = m /\ Quoted(d) = {}
    <2> HIDE DEF m, q
    <2> QED
      BY <1>1, MarkedReads
  <1>3. d \in Seq(Token0) /\ m \in Seq(Text)
    BY <1>1 DEF Marked
  <1>4. Body(d) = hd \o rules
    <2>1. Body(d) = Without(m, Breaks)
      BY <1>2 DEF Body, Breaks
    <2> QED
      BY <2>1, BetweenReads
  <1>5. hd \o rules # <<>> /\ Head(hd \o rules) = Heading /\ Tail(hd \o rules) = rules
    <2> DEFINE c == hd \o rules
    <2>1. hd \in Seq({Heading} \union Rule) /\ Len(hd) = 1 /\ hd[1] = Heading
          /\ rules \in Seq({Heading} \union Rule) /\ Len(rules) \in Nat
      <3>1. rules \in Seq({Heading} \union Rule)
        <4>1. Safe \subseteq {Heading} \union Rule
          BY TokensApart
        <4> QED
          BY <4>1, SeqMonotonic
      <3> QED
        BY <3>1, Elements
    <2> HIDE DEF hd
    <2>2. c \in Seq({Heading} \union Rule) /\ Len(c) = 1 + Len(rules)
          /\ \A i \in 1..(1 + Len(rules)) : c[i] = IF i <= 1 THEN hd[i] ELSE rules[i - 1]
      <3>1. c \in Seq({Heading} \union Rule) /\ Len(c) = Len(hd) + Len(rules)
            /\ \A i \in 1..(Len(hd) + Len(rules)) :
                 c[i] = IF i <= Len(hd) THEN hd[i] ELSE rules[i - Len(hd)]
        BY <2>1, ConcatProperties
      <3> QED
        BY <3>1, <2>1
    <2> HIDE DEF c
    <2>3. c # <<>>
      BY <2>1, <2>2
    <2>4. c[1] = Heading
      BY <2>1, <2>2
    <2>5. Head(c) = Heading
      BY <2>2, <2>3, <2>4
    <2> DEFINE t == Tail(c)
    <2>6. t \in Seq({Heading} \union Rule) /\ Len(t) = Len(c) - 1
          /\ \A i \in 1..Len(t) : t[i] = c[i + 1]
      BY <2>2, <2>3, HeadTailProperties
    <2> HIDE DEF t
    <2>7. Len(t) = Len(rules)
      BY <2>1, <2>2, <2>6
    <2>8. ASSUME NEW i \in 1..Len(t) PROVE t[i] = rules[i]
      <3>1. i + 1 \in 1..(1 + Len(rules)) /\ ~(i + 1 <= 1) /\ (i + 1) - 1 = i
        BY <2>1, <2>7
      <3> QED
        BY <3>1, <2>2, <2>6
    <2>9. t = rules
      BY <2>1, <2>6, <2>7, <2>8, SeqEqual
    <2> QED
      BY <2>3, <2>5, <2>9 DEF c, t
  <1>6. RulesOf(d) = rules
    BY <1>2, <1>4, <1>5 DEF RulesOf
  <1>7. Valid(d)
    <2>1. Cardinality(Places(d, Start)) = 1 /\ Cardinality(Places(d, End)) = 1
      BY <1>2, FS_Singleton
    <2>2. MarkerStart(d) < MarkerEnd(d)
      <3>1. Len(pre) \in Nat /\ Len(m) \in Nat
        BY <1>3, Elements
      <3> HIDE DEF m
      <3> QED
        BY <3>1, <1>2
    <2>3. \A t \in Range(rules) : t \in Rule
      BY RangeOfSeq, TokensApart
    <2>4. Separate(Inside(d))
      <3>1. rules \in Seq(Rule)
        BY TokensApart, SeqMonotonic
      <3>2. Separate(Between(rules, nl))
        BY <3>1, BetweenSeparate
      <3> QED
        BY <1>2, <3>2
    <2> HIDE DEF hd
    <2> QED
      BY <1>2, <1>4, <1>5, <2>1, <2>2, <2>3, <2>4 DEF Valid
  <1>8. Below(q) = post
    <2>1. one \in Seq(Text) /\ Len(one) = 1 /\ one[1] = nl
      <3>1. nl \in Text
        BY TokensApart
      <3> QED
        BY <3>1
    <2>2. Len(post) \in Nat
      BY Elements
    <2>3. q = one \o post
      OBVIOUS
    <2> HIDE DEF one, q
    <2>4. q \in Seq(Text) /\ Len(q) = 1 + Len(post)
          /\ \A i \in 1..(1 + Len(post)) : q[i] = IF i <= 1 THEN one[i] ELSE post[i - 1]
      <3>1. one \o post \in Seq(Text) /\ Len(one \o post) = Len(one) + Len(post)
            /\ \A i \in 1..(Len(one) + Len(post)) :
                 (one \o post)[i] = IF i <= Len(one) THEN one[i] ELSE post[i - Len(one)]
        BY <2>1, ConcatProperties
      <3> QED
        BY <3>1, <2>1, <2>3
    <2>5. Len(q) > 0 /\ q[1] \in Newlines
      BY <2>1, <2>2, <2>4
    <2>6. \A i \in 1..Len(post) : q[1 + i] = post[i]
      <3> SUFFICES ASSUME NEW i \in 1..Len(post) PROVE q[1 + i] = post[i]
        OBVIOUS
      <3>1. 1 + i \in 1..(1 + Len(post)) /\ ~(1 + i <= 1) /\ (1 + i) - 1 = i
        BY <2>2
      <3> QED
        BY <3>1, <2>4
    <2>7. SubSeq(q, 1 + 1, 1 + Len(post)) = post
      <3> DEFINE mm == 1
      <3>1. mm \in Nat /\ \A i \in 1..Len(post) : q[mm + i] = post[i]
        BY <2>6
      <3> HIDE DEF mm
      <3>2. SubSeq(q, mm + 1, mm + Len(post)) = post
        <4>1. Carries(q, mm, post)
          BY <3>1 DEF Carries
        <4> QED
          BY <3>1, <4>1, SliceIs
      <3> QED
        BY <3>2 DEF mm
    <2> QED
      BY <2>4, <2>5, <2>7 DEF Below
  <1>9. Outside(d) = Joined(Above(pre, nl), Below(q)) /\ RegionStart(d) = Len(Above(pre, nl)) + 1
    <2> HIDE DEF m, q
    <2> QED
      BY <1>1, MarkedEdges
  <1> QED
    BY <1>2, <1>3, <1>6, <1>7, <1>8, <1>9 DEF Reads

\* A block is made of markers, the heading, one kind of line end, and rules.
LEMMA BlockType ==
  ASSUME NEW rules \in Seq(Rule), rules # <<>>, NEW nl
  PROVE  ManagedBlock(rules, nl) \in Seq({nl, Start, End, Heading} \union Rule)
  <1> DEFINE b == ManagedBlock(rules, nl)
             w == Written(rules, nl)
             top == <<Start, nl, Heading>>
             bottom == <<nl, End, nl>>
             B == {nl, Start, End, Heading} \union Rule
  <1>1. b = (top \o w) \o bottom
    BY DEF ManagedBlock, Written, Entry
  <1>2. w \in Seq(B)
    <2>1. w \in Seq({nl} \union Rule)
      BY WrittenType
    <2>2. {nl} \union Rule \subseteq B
      OBVIOUS
    <2> HIDE DEF w, B
    <2> QED
      BY <2>1, <2>2, SeqMonotonic
  <1>3. top \in Seq(B) /\ bottom \in Seq(B)
    OBVIOUS
  <1> HIDE DEF b, w, top, bottom, B
  <1> DEFINE x == top \o w
  <1>4. x \in Seq(B)
    BY <1>2, <1>3, ConcatProperties
  <1> HIDE DEF x
  <1>5. x \o bottom \in Seq(B)
    BY <1>3, <1>4, ConcatProperties
  <1>6. b \in Seq(B)
    BY <1>1, <1>5 DEF x
  <1> QED
    BY <1>6 DEF b, B

\* The newline of a document that a block was placed in is the block's, when the block's
\* is the document's.
LEMMA NewlineStays ==
  ASSUME NEW rules \in Seq(Rule), rules # <<>>, NEW d \in Seq(Token0), NEW nl, nl = NewlineOf(d),
         NEW pre \in Seq(Token0), NEW post \in Seq(Token0),
         CRLF \in Range(pre) \union Range(post) => nl = CRLF
  PROVE  nl \in Newlines /\ NewlineOf((pre \o ManagedBlock(rules, nl)) \o post) = nl
  <1>1. nl \in Newlines
    BY DEF NewlineOf, Newlines
  <1> DEFINE b == ManagedBlock(rules, nl)
             m == Between(rules, nl)
             v == pre \o b
             a == v \o post
  <1>2. b \in Seq(Token0) /\ Len(m) \in Nat /\ Len(b) = Len(m) + 3 /\ b[Len(m) + 3] = nl
    <2>1. m \in Seq(Token0) /\ b \in Seq(Token0) /\ Len(b) = Len(m) + 3 /\ b[Len(m) + 3] = nl
      <3> HIDE DEF b, m
      <3> QED
        BY <1>1, BlockReads DEF b, m
    <2>2. Len(m) \in Nat
      BY <2>1, Elements
    <2> QED
      BY <2>1, <2>2
  <1>3. nl \in Range(b)
    <2> HIDE DEF b, m
    <2>1. Range(b) = {b[i] : i \in 1..Len(b)}
      BY <1>2, RangeEquality
    <2>2. Len(m) + 3 \in 1..Len(b)
      BY <1>2
    <2> QED
      BY <2>1, <2>2, <1>2
  <1>4. Range(b) \intersect Newlines = {nl}
    <2> DEFINE B == {nl, Start, End, Heading} \union Rule
    <2>5. b \in Seq(B)
      BY BlockType
    <2> HIDE DEF b, B
    <2>6. Range(b) \subseteq B
      BY <2>5, RangeOfSeq
    <2>7. B \intersect Newlines \subseteq {nl}
      BY TokenAssumption DEF B, Newlines
    <2> QED
      BY <2>6, <2>7, <1>1, <1>3
  <1>5. Range(a) = (Range(pre) \union Range(b)) \union Range(post)
    <2> HIDE DEF b
    <2>1. v \in Seq(Token0) /\ Range(v) = Range(pre) \union Range(b)
      BY <1>2, ConcatProperties, RangeConcatenation
    <2> HIDE DEF v
    <2>2. Range(a) = Range(v) \union Range(post)
      BY <2>1, RangeConcatenation
    <2> QED
      BY <2>1, <2>2
  <1> HIDE DEF b, a
  <1>6. CRLF \in Range(a) <=> nl = CRLF
    BY <1>1, <1>3, <1>4, <1>5 DEF Newlines
  <1>7. NewlineOf(a) = nl
    BY <1>1, <1>6, TokenAssumption DEF NewlineOf, Newlines
  <1> QED
    BY <1>1, <1>7 DEF a, b

\* The blank line that separates a new block is the one its removal takes.
LEMMA BlankAbove ==
  ASSUME NEW d \in Seq(Text), NEW nl \in Newlines
  PROVE  d \o <<nl, nl>> \in Seq(Text) /\ Above(d \o <<nl, nl>>, nl) = d
  <1> DEFINE sep == <<nl, nl>>
             p == d \o sep
             n == Len(d)
  <1>1. sep \in Seq(Text) /\ Len(sep) = 2 /\ sep[1] = nl /\ sep[2] = nl
    <2>1. nl \in Text
      BY TokensApart
    <2> QED
      BY <2>1
  <1>2. n \in Nat
    BY Elements
  <1> HIDE DEF sep
  <1>3. p \in Seq(Text) /\ Len(p) = n + 2
        /\ \A i \in 1..(n + 2) : p[i] = IF i <= n THEN d[i] ELSE sep[i - n]
    <2>1. p \in Seq(Text) /\ Len(p) = Len(d) + Len(sep)
          /\ \A i \in 1..(Len(d) + Len(sep)) : p[i] = IF i <= Len(d) THEN d[i] ELSE sep[i - Len(d)]
      BY <1>1, ConcatProperties
    <2> QED
      BY <2>1, <1>1
  <1> HIDE DEF p, n
  <1>4. \A i \in 1..Len(sep) : p[n + i] = sep[i]
    <2> SUFFICES ASSUME NEW i \in 1..Len(sep) PROVE p[n + i] = sep[i]
      OBVIOUS
    <2>1. n + i \in 1..(n + 2) /\ ~(n + i <= n) /\ (n + i) - n = i
      BY <1>1, <1>2
    <2> QED
      BY <2>1, <1>3
  <1>5. SubSeq(p, n + 1, n + Len(sep)) = sep
    <2>1. Carries(p, n, sep)
      BY <1>1, <1>2, <1>4 DEF Carries
    <2> QED
      BY <1>1, <1>2, <1>4, <2>1, SliceIs
  <1>6. \A i \in 1..Len(d) : p[0 + i] = d[i]
    BY <1>2, <1>3 DEF n
  <1>7. SubSeq(p, 0 + 1, 0 + Len(d)) = d
    <2>1. Carries(p, 0, d)
      BY <1>6 DEF Carries
    <2> QED
      BY <1>6, <2>1, SliceIs
  <1>8. n + 1 = Len(p) - 1 /\ n + Len(sep) = Len(p) /\ 0 + 1 = 1 /\ 0 + Len(d) = Len(p) - 2
        /\ Len(p) > 1
    BY <1>1, <1>2, <1>3 DEF n
  <1>9. Above(p, nl) = d
    BY <1>5, <1>7, <1>8 DEF Above, sep
  <1> QED
    BY <1>3, <1>9 DEF p, sep

\* Where one text ends in a carriage return and the next begins with LF.
Meets(a, b) == a # <<>> /\ b # <<>> /\ Last(a) = CR /\ Head(b) = LF

\* Two pieces joined are made of what they were, and a CRLF.
LEMMA JoinedType ==
  ASSUME NEW A, CRLF \in A, NEW a \in Seq(A), NEW b \in Seq(A)
  PROVE  /\ Joined(a, b) \in Seq(A)
         /\ ~Meets(a, b) => Joined(a, b) = a \o b
  <1>1. a \o b \in Seq(A)
    BY ConcatProperties
  <1>2. ASSUME ~Meets(a, b) PROVE Joined(a, b) = a \o b
    BY <1>2 DEF Joined, Meets
  <1>3. ASSUME Meets(a, b) PROVE Joined(a, b) \in Seq(A)
    <2> DEFINE f == Front(a)
               t == Tail(b)
               one == <<CRLF>>
               x == f \o one
    <2>1. Joined(a, b) = x \o t
      BY <1>3 DEF Joined, Meets
    <2>2. f \in Seq(A)
      <3>1. Len(a) \in Nat /\ \A i \in 1..Len(a) : a[i] \in A
        BY Elements
      <3>2. 1 \in Int /\ Len(a) - 1 \in Int /\ \A i \in 1..(Len(a) - 1) : a[i] \in A
        BY <3>1
      <3>3. SubSeq(a, 1, Len(a) - 1) \in Seq(A)
        BY <3>2, SubSeqProperties
      <3> QED
        BY <3>3 DEF Front
    <2>3. t \in Seq(A) /\ one \in Seq(A)
      BY <1>3, HeadTailProperties DEF Meets
    <2> HIDE DEF f, t, one
    <2>4. x \in Seq(A)
      BY <2>2, <2>3, ConcatProperties
    <2> HIDE DEF x
    <2> QED
      BY <2>1, <2>3, <2>4, ConcatProperties
  <1> QED
    BY <1>1, <1>2, <1>3

\* A slice splits no CRLF.
LEMMA SliceWhole ==
  ASSUME NEW A, NEW s \in Seq(A), Whole(s), NEW m \in Nat \ {0}, NEW n \in Nat, n <= Len(s)
  PROVE  Whole(SubSeq(s, m, n))
  <1> DEFINE u == SubSeq(s, m, n)
  <1>1. Len(s) \in Nat /\ \A i \in 1..Len(s) : s[i] \in A
    BY Elements
  <1>2. m \in Int /\ n \in Int /\ \A i \in m..n : s[i] \in A
    BY <1>1
  <1>3. Len(u) = (IF m <= n THEN n - m + 1 ELSE 0) /\ \A i \in 1..(n - m + 1) : u[i] = s[m + i - 1]
    BY <1>2, SubSeqProperties
  <1> HIDE DEF u
  <1>4. ASSUME NEW i \in 1..(Len(u) - 1) PROVE ~(u[i] = CR /\ u[i + 1] = LF)
    <2>1. /\ i \in 1..(n - m + 1) /\ i + 1 \in 1..(n - m + 1)
          /\ m + i - 1 \in 1..(Len(s) - 1) /\ m + (i + 1) - 1 = (m + i - 1) + 1
      BY <1>1, <1>3
    <2>2. u[i] = s[m + i - 1] /\ u[i + 1] = s[(m + i - 1) + 1]
      BY <1>3, <2>1
    <2> QED
      BY <2>1, <2>2 DEF Whole
  <1> QED
    BY <1>4 DEF Whole, u

\* Nor do two texts that do not meet.
LEMMA ConcatWhole ==
  ASSUME NEW A, NEW a \in Seq(A), NEW b \in Seq(A), Whole(a), Whole(b), ~Meets(a, b)
  PROVE  Whole(a \o b)
  <1> DEFINE u == a \o b
             m == Len(a)
             n == Len(b)
  <1>1. m \in Nat /\ n \in Nat
    BY Elements
  <1>2. Len(u) = m + n /\ \A i \in 1..(m + n) : u[i] = IF i <= m THEN a[i] ELSE b[i - m]
    BY ConcatProperties
  <1>3. m > 0 /\ n > 0 => ~(a[m] = CR /\ b[1] = LF)
    <2> SUFFICES ASSUME m > 0, n > 0 PROVE ~(a[m] = CR /\ b[1] = LF)
      OBVIOUS
    <2>1. a # <<>> /\ b # <<>>
      OBVIOUS
    <2>2. Last(a) = a[m] /\ Head(b) = b[1]
      BY <2>1, HeadTailProperties DEF Last
    <2> QED
      BY <2>1, <2>2 DEF Meets
  <1> HIDE DEF u, m, n
  <1>4. ASSUME NEW i \in 1..(Len(u) - 1) PROVE ~(u[i] = CR /\ u[i + 1] = LF)
    <2>1. CASE i + 1 <= m
      <3>1. i \in 1..(Len(a) - 1)
        BY <2>1, <1>1 DEF m
      <3>2. u[i] = a[i] /\ u[i + 1] = a[i + 1]
        BY <2>1, <1>1, <1>2
      <3> QED
        BY <3>1, <3>2 DEF Whole
    <2>2. CASE i = m
      <3>1. u[i] = a[m] /\ u[i + 1] = b[1] /\ m > 0 /\ n > 0
        BY <2>2, <1>1, <1>2
      <3> QED
        BY <3>1, <1>3
    <2>3. CASE i > m
      <3>1. i - m \in 1..(Len(b) - 1)
        BY <2>3, <1>1, <1>2 DEF n
      <3>2. i \in 1..(m + n) /\ ~(i <= m) /\ i + 1 \in 1..(m + n) /\ ~(i + 1 <= m)
            /\ (i + 1) - m = (i - m) + 1
        BY <2>3, <1>1, <1>2
      <3>3. u[i] = b[i - m] /\ u[i + 1] = b[(i - m) + 1]
        BY <3>2, <1>2
      <3> QED
        BY <3>1, <3>3 DEF Whole
    <2> QED
      BY <2>1, <2>2, <2>3, <1>1
  <1> QED
    BY <1>4 DEF Whole, u

\* A text without a carriage return is whole.
LEMMA NoReturnWhole ==
  ASSUME NEW s \in Seq(Token0 \ {CR})
  PROVE  Whole(s)
  BY Elements DEF Whole

\* Two pieces joined are whole.
LEMMA JoinedWhole ==
  ASSUME NEW a \in Seq(Token0), NEW b \in Seq(Token0), Whole(a), Whole(b)
  PROVE  Whole(Joined(a, b))
  <1>1. CASE ~Meets(a, b)
    <2>1. Joined(a, b) = a \o b
      BY <1>1 DEF Joined, Meets
    <2> QED
      BY <1>1, <2>1, ConcatWhole
  <1>2. CASE Meets(a, b)
    <2> DEFINE f == Front(a)
               t == Tail(b)
               one == <<CRLF>>
               x == f \o one
    <2>1. Joined(a, b) = x \o t
      BY <1>2 DEF Joined, Meets
    <2>2. f \in Seq(Token0) /\ Whole(f)
      <3>1. Len(a) \in Nat \ {0} /\ \A i \in 1..Len(a) : a[i] \in Token0
        BY <1>2, Elements, EmptySeq DEF Meets
      <3>2. 1 \in Int /\ Len(a) - 1 \in Int /\ \A i \in 1..(Len(a) - 1) : a[i] \in Token0
        BY <3>1
      <3>3. SubSeq(a, 1, Len(a) - 1) \in Seq(Token0)
        BY <3>2, SubSeqProperties
      <3>4. 1 \in Nat \ {0} /\ Len(a) - 1 \in Nat /\ Len(a) - 1 <= Len(a)
        BY <3>1
      <3>5. Whole(SubSeq(a, 1, Len(a) - 1))
        BY <3>4, SliceWhole
      <3> QED
        BY <3>3, <3>5 DEF Front
    <2>3. t \in Seq(Token0) /\ Whole(t)
      <3>1. t \in Seq(Token0) /\ Len(t) = Len(b) - 1 /\ \A i \in 1..Len(t) : t[i] = b[i + 1]
        BY <1>2, HeadTailProperties DEF Meets
      <3>2. Len(b) \in Nat
        BY Elements
      <3> HIDE DEF t
      <3>3. ASSUME NEW i \in 1..(Len(t) - 1) PROVE ~(t[i] = CR /\ t[i + 1] = LF)
        <4>1. i + 1 \in 1..(Len(b) - 1) /\ i \in 1..Len(t) /\ i + 1 \in 1..Len(t)
          BY <3>1, <3>2
        <4> QED
          BY <3>1, <4>1 DEF Whole
      <3> QED
        BY <3>1, <3>3 DEF Whole
    <2>4. one \in Seq(Token0) /\ Whole(one) /\ Last(one) = CRLF /\ Head(one) = CRLF
      BY DEF Token0, Whole, Last
    <2>5. CRLF # CR /\ CRLF # LF
      BY TokenAssumption
    <2> HIDE DEF f, t, one
    <2>6. x \in Seq(Token0) /\ Whole(x)
      <3>1. ~Meets(f, one)
        BY <2>4, <2>5 DEF Meets
      <3> QED
        BY <2>2, <2>4, <3>1, ConcatWhole, ConcatProperties
    <2>7. x # <<>> => Last(x) = CRLF
      <3>1. Len(f) \in Nat /\ Len(one) = 1 /\ one[1] = CRLF
        BY <2>2, Elements DEF one
      <3>2. Len(x) = Len(f) + Len(one)
            /\ \A i \in 1..(Len(f) + Len(one)) :
                 x[i] = IF i <= Len(f) THEN f[i] ELSE one[i - Len(f)]
        BY <2>2, <2>4, ConcatProperties
      <3>3. /\ Len(f) + 1 \in 1..(Len(f) + Len(one)) /\ ~(Len(f) + 1 <= Len(f))
            /\ (Len(f) + 1) - Len(f) = 1 /\ Len(f) + Len(one) = Len(f) + 1
        BY <3>1
      <3> HIDE DEF x
      <3> QED
        BY <3>1, <3>2, <3>3 DEF Last
    <2> HIDE DEF x
    <2>8. ~Meets(x, t)
      BY <2>5, <2>7 DEF Meets
    <2> QED
      BY <2>1, <2>3, <2>6, <2>8, ConcatWhole
  <1> QED
    BY <1>1, <1>2

\* A block is made of markers, line ends and rules: it starts with a marker.
LEMMA BlockWhole ==
  ASSUME NEW rules \in Seq(Rule), rules # <<>>, NEW nl \in Newlines,
         NEW b, b = ManagedBlock(rules, nl)
  PROVE  b \in Seq(Token0) /\ Whole(b) /\ b # <<>> /\ Head(b) = Start /\ Last(b) = nl
  <1> DEFINE m == Between(rules, nl)
  <1> HIDE DEF m
  <1>1. /\ m \in Seq(Token0) /\ b \in Seq(Token0) /\ Len(b) = Len(m) + 3
        /\ b[1] = Start /\ b[Len(m) + 3] = nl
    BY BlockReads DEF m
  <1>2. Len(m) \in Nat
    BY <1>1, Elements
  <1>3. b # <<>> /\ Head(b) = b[1]
    BY <1>1, <1>2
  <1>4. Last(b) = nl
    BY <1>1 DEF Last
  <1>5. b \in Seq(Token0 \ {CR})
    <2> DEFINE B == {nl, Start, End, Heading} \union Rule
    <2>1. b \in Seq(B)
      BY BlockType
    <2>2. B \subseteq Token0 \ {CR}
      <3>1. CR \notin {nl, Start, End, Heading} \union Rule
        BY TokenAssumption DEF Newlines
      <3> QED
        BY <3>1, TokensApart
    <2> QED
      BY <2>1, <2>2, SeqMonotonic
  <1> QED
    BY <1>1, <1>3, <1>4, <1>5, NoReturnWhole

\* A document's parts around its block are whole.
LEMMA PartsWhole ==
  ASSUME NEW d \in Seq(Token0), Whole(d), NEW pre, NEW mid, NEW post, Marked(d, pre, mid, post)
  PROVE  Whole(pre) /\ Whole(Above(pre, NewlineOf(d))) /\ Whole(Below(post))
  <1>1. Len(d) \in Nat /\ Len(pre) \in Nat /\ Len(mid) \in Nat /\ Len(post) \in Nat
        /\ Len(d) = Len(pre) + Len(mid) + Len(post) + 2
    BY Elements DEF Marked
  <1>2. MarkerEnd(d) = Len(pre) + Len(mid) + 2 /\ MarkerStart(d) = Len(pre) + 1
        /\ SubSeq(d, 1, MarkerStart(d) - 1) = pre
        /\ SubSeq(d, MarkerEnd(d) + 1, Len(d)) = post
    BY MarkedReads
  <1>3. pre \in Seq(Token0) /\ post \in Seq(Token0)
    <2>1. pre \in Seq(Text) /\ post \in Seq(Text)
      BY DEF Marked
    <2> QED
      BY <2>1, TokensApart, SeqMonotonic
  <1>4. Whole(pre)
    <2>1. 1 \in Nat \ {0} /\ MarkerStart(d) - 1 \in Nat /\ MarkerStart(d) - 1 <= Len(d)
      BY <1>1, <1>2
    <2>2. Whole(SubSeq(d, 1, MarkerStart(d) - 1))
      BY <2>1, SliceWhole
    <2> QED
      BY <1>2, <2>2
  <1>5. Whole(post)
    <2>1. MarkerEnd(d) + 1 \in Nat \ {0}
      BY <1>1, <1>2
    <2>2. Len(d) <= Len(d)
      BY <1>1
    <2>3. Whole(SubSeq(d, MarkerEnd(d) + 1, Len(d)))
      BY <1>1, <2>1, <2>2, SliceWhole
    <2> QED
      BY <1>2, <2>3
  <1>6. Whole(Above(pre, NewlineOf(d)))
    <2>1. CASE Len(pre) > 1
      <3>1. 1 \in Nat \ {0} /\ Len(pre) - 2 \in Nat /\ Len(pre) - 2 <= Len(pre)
        BY <1>1, <2>1
      <3>2. Whole(SubSeq(pre, 1, Len(pre) - 2))
        BY <1>3, <1>4, <3>1, SliceWhole
      <3> QED
        BY <1>4, <3>2 DEF Above
    <2>2. CASE ~(Len(pre) > 1)
      BY <1>4, <2>2 DEF Above
    <2> QED
      BY <2>1, <2>2
  <1>7. Whole(Below(post))
    <2>1. 2 \in Nat \ {0} /\ Len(post) <= Len(post)
      BY <1>1
    <2>2. Whole(SubSeq(post, 2, Len(post)))
      BY <1>1, <1>3, <1>5, <2>1, SliceWhole
    <2> QED
      BY <1>5, <2>2 DEF Below
  <1> QED
    BY <1>4, <1>6, <1>7

\* What replaces a document is made of tokens, and splits no CRLF.
LEMMA ReplacedType ==
  ASSUME NEW d \in Seq(Token0), Valid(d), NEW rules \in Seq(Rule)
  PROVE  Replaced(d, rules) \in Seq(Token0) /\ (Whole(d) => Whole(Replaced(d, rules)))
  <1> DEFINE nl == NewlineOf(d)
             b == ManagedBlock(rules, nl)
             after == Replaced(d, rules)
  <1>0. nl \in Newlines /\ CRLF \in Token0 /\ Start # LF /\ Start # CR /\ nl # CR
    BY TokenAssumption DEF NewlineOf, Newlines, Token0
  <1>1. CASE Plain(d) /\ rules = <<>>
    BY <1>1 DEF Replaced
  <1>2. ASSUME rules # <<>>
        PROVE  b \in Seq(Token0) /\ Whole(b) /\ b # <<>> /\ Head(b) = Start /\ Last(b) = nl
    <2> HIDE DEF nl
    <2> QED
      BY <1>0, <1>2, BlockWhole
  <1>3. CASE Plain(d) /\ rules # <<>>
    <2> DEFINE sep == IF d = <<>> THEN <<>> ELSE <<nl, nl>>
               x == Joined(d, sep)
    <2>1. after = x \o b
      BY <1>3 DEF Replaced
    <2>2. sep \in Seq(Token0) /\ Whole(sep)
      <3>1. <<>> \in Seq(Token0) /\ Whole(<<>>)
        BY DEF Whole
      <3>2. <<nl, nl>> \in Seq(Token0) /\ Whole(<<nl, nl>>)
        <4>1. nl \in Token0
          BY <1>0, TokensApart
        <4> HIDE DEF nl
        <4> QED
          BY <4>1, <1>0 DEF Whole
      <3> QED
        BY <3>1, <3>2
    <2> HIDE DEF sep, b, after, nl
    <2>3. x \in Seq(Token0)
      BY <1>0, <2>2, JoinedType
    <2>4. Whole(d) => Whole(x)
      BY <2>2, JoinedWhole
    <2> HIDE DEF x
    <2>5. ~Meets(x, b)
      BY <1>0, <1>2, <1>3 DEF Meets
    <2>6. after \in Seq(Token0) /\ (Whole(x) => Whole(after))
      BY <1>2, <1>3, <2>1, <2>3, <2>5, ConcatWhole, ConcatProperties
    <2> QED
      BY <2>4, <2>6 DEF after
  <1>4. CASE ~Plain(d)
    <2>1. PICK pre, mid, post : Marked(d, pre, mid, post)
      BY <1>4, DocumentSplits
    <2> DEFINE above == Above(pre, nl)
               below == Below(post)
    <2>2. /\ SubSeq(d, RegionEnd(d) + 1, Len(d)) = below
          /\ SubSeq(d, 1, RegionStart(d) - 1) = above
          /\ below \in Seq(Text) /\ above \in Seq(Text)
      BY <2>1, MarkedEdges
    <2>3. SubSeq(d, 1, MarkerStart(d) - 1) = pre /\ pre \in Seq(Text)
      BY <2>1, MarkedReads DEF Marked
    <2>4. Whole(d) => Whole(pre) /\ Whole(above) /\ Whole(below)
      BY <2>1, PartsWhole
    <2> HIDE DEF above, below, nl, after, b
    <2>5. pre \in Seq(Token0) /\ above \in Seq(Token0) /\ below \in Seq(Token0)
      BY <2>2, <2>3, TokensApart, SeqMonotonic
    <2>6. CASE rules = <<>>
      <3>1. after = Joined(above, below)
        BY <1>4, <2>2, <2>6 DEF Replaced, after
      <3> QED
        BY <1>0, <2>4, <2>5, <3>1, JoinedType, JoinedWhole DEF after
    <2>7. CASE rules # <<>>
      <3> DEFINE x == pre \o b
      <3>1. after = x \o below
        BY <1>4, <2>2, <2>3, <2>7 DEF Replaced, after, b, nl
      <3>2. ~Meets(pre, b)
        BY <1>0, <1>2, <2>7 DEF Meets
      <3>3. x \in Seq(Token0) /\ (Whole(pre) => Whole(x))
        BY <1>2, <2>5, <2>7, <3>2, ConcatWhole, ConcatProperties
      <3>4. Last(x) = nl
        <4>1. Len(pre) \in Nat /\ Len(b) \in Nat \ {0} /\ b[Len(b)] = nl
          BY <1>2, <2>5, <2>7, Elements, EmptySeq DEF Last
        <4>2. Len(x) = Len(pre) + Len(b)
              /\ x[Len(pre) + Len(b)] = b[(Len(pre) + Len(b)) - Len(pre)]
          BY <1>2, <2>5, <2>7, <4>1, ConcatProperties
        <4> HIDE DEF x
        <4> QED
          BY <4>1, <4>2 DEF Last
      <3> HIDE DEF x
      <3>5. ~Meets(x, below)
        BY <1>0, <3>4 DEF Meets
      <3>6. after \in Seq(Token0) /\ (Whole(x) /\ Whole(below) => Whole(after))
        BY <2>5, <3>1, <3>3, <3>5, ConcatWhole, ConcatProperties
      <3> QED
        BY <2>4, <3>3, <3>6 DEF after
    <2> QED
      BY <2>6, <2>7
  <1> QED
    BY <1>1, <1>3, <1>4

\* Rules of which none quotes a marker.
LEMMA SafeRules ==
  ASSUME NEW rules \in Seq(Rule), Range(rules) \intersect Quoting = {}
  PROVE  rules \in Seq(Safe)
  <1>1. rules \in Seq(Range(rules)) /\ Range(rules) \subseteq Rule
    BY SeqOfRange, RangeOfSeq
  <1>2. Range(rules) \subseteq Safe
    BY <1>1 DEF Safe
  <1> QED
    BY <1>1, <1>2, SeqMonotonic

\* What is planned reads back.
LEMMA RoundTrip ==
  ASSUME NEW d \in Seq(Token0), Valid(d), NEW rules \in Seq(Rule), IsInjective(rules),
         \A r \in Range(rules) : SizeOf[r] <= MaxRule, ~Misread(d, rules)
  PROVE  /\ Verified(d, rules) /\ Replaced(d, rules) \in Seq(Token0)
         /\ Plain(Replaced(d, rules)) <=> rules = <<>>
         /\ rules = <<>> => Replaced(d, rules) = Outside(d)
         /\ ~Plain(Replaced(d, rules)) =>
              RegionStart(Replaced(d, rules)) =
                IF Plain(d) THEN Len(d) + 1 ELSE RegionStart(d)
  <1> DEFINE nl == NewlineOf(d)
             b == ManagedBlock(rules, nl)
             after == Replaced(d, rules)
  <1>0. nl \in Newlines
    BY DEF NewlineOf, Newlines
  <1>4. rules \in Seq(Safe)
    BY SafeRules DEF Misread
  <1>1. CASE Plain(d) /\ rules = <<>>
    <2>1. after = d /\ Outside(d) = d
      BY <1>1 DEF Replaced, Outside
    <2>2. RulesOf(d) = rules
      BY <1>1 DEF RulesOf
    <2> QED
      BY <1>1, <2>1, <2>2 DEF Verified
  <1>2. CASE Plain(d) /\ rules # <<>>
    <2> DEFINE pre == d \o (IF d = <<>> THEN <<>> ELSE <<nl, nl>>)
               post == <<>>
               sep == IF d = <<>> THEN <<>> ELSE <<nl, nl>>
    <2>1. d \in Seq(Text)
      BY <1>2, PlainIsText
    <2>2. pre \in Seq(Text) /\ Above(pre, nl) = d
      <3>1. CASE d = <<>>
        <4>1. pre = <<>>
          BY <3>1
        <4>2. ~(Len(pre) > 1)
          BY <4>1
        <4> HIDE DEF pre
        <4> QED
          BY <2>1, <3>1, <4>1, <4>2 DEF Above
      <3>2. CASE d # <<>>
        <4>1. pre = d \o <<nl, nl>>
          BY <3>2
        <4> HIDE DEF pre, nl
        <4> QED
          BY <4>1, <2>1, <1>0, BlankAbove
      <3> QED
        BY <3>1, <3>2
    <2>3. after = pre \o b
      <3>1. after = Joined(d, sep) \o b
        BY <1>2 DEF Replaced
      <3>2. Joined(d, sep) = d \o sep
        <4>1. CASE d = <<>>
          BY <4>1 DEF Joined
        <4>2. CASE d # <<>>
          <5>1. sep = <<nl, nl>> /\ Head(sep) = nl
            BY <4>2
          <5>2. ~(Last(d) = CR /\ nl = LF)
            BY <1>2, <4>2 DEF Misread
          <5> HIDE DEF sep, nl
          <5> QED
            BY <5>1, <5>2 DEF Joined
        <4> QED
          BY <4>1, <4>2
      <3> HIDE DEF nl, after, b
      <3> QED
        BY <3>1, <3>2
    <2>4. b \in Seq(Token0)
      <3> DEFINE m == Between(rules, nl)
      <3> HIDE DEF m, nl, b
      <3> QED
        BY <1>0, <1>2, BlockReads DEF b, m
    <2>5. post \in Seq(Text) /\ Range(post) = {} /\ d \o post = d
      <3>1. d \o <<>> = d
        BY ConcatEmptySeq
      <3> QED
        BY <3>1, RangeOfEmpty, EmptySeq
    <2>6. CRLF \in Range(pre) => nl = CRLF
      <3>1. CASE d = <<>>
        <4>1. pre = <<>>
          BY <3>1
        <4> HIDE DEF pre
        <4> QED
          BY <4>1, RangeOfEmpty
      <3>2. CASE d # <<>>
        <4> DEFINE blank == <<nl, nl>>
        <4>1. pre = d \o blank
          BY <3>2
        <4>2. blank \in Seq(Token0) /\ Range(blank) = {nl}
          <5>1. nl \in Token0
            BY <1>0, TokensApart
          <5>2. blank \in Seq(Token0) /\ DOMAIN blank = 1..2 /\ blank[1] = nl /\ blank[2] = nl
            BY <5>1
          <5> HIDE DEF blank
          <5> QED
            BY <5>2 DEF Range
        <4> HIDE DEF blank, pre
        <4>3. Range(pre) = Range(d) \union {nl}
          BY <4>1, <4>2, RangeConcatenation
        <4> QED
          BY <4>3 DEF NewlineOf
      <3> QED
        BY <3>1, <3>2
    <2> HIDE DEF pre, post, sep, b, nl, after
    <2>7. (pre \o b) \o post = after
      <3> DEFINE x == pre \o b
      <3>1. x \in Seq(Token0)
        <4>1. pre \in Seq(Token0)
          BY <2>2, TokensApart, SeqMonotonic
        <4> QED
          BY <4>1, <2>4, ConcatProperties
      <3> HIDE DEF x
      <3>2. x \o <<>> = x
        BY <3>1, ConcatEmptySeq
      <3> QED
        BY <3>2, <2>3 DEF x, post
    <2>8. NewlineOf(after) = nl
      <3>1. pre \in Seq(Token0) /\ post \in Seq(Token0)
        BY <2>2, <2>5, TokensApart, SeqMonotonic
      <3>2. CRLF \in Range(pre) \union Range(post) => nl = CRLF
        BY <2>5, <2>6
      <3>3. nl = NewlineOf(d)
        BY DEF nl
      <3>4. NewlineOf((pre \o ManagedBlock(rules, nl)) \o post) = nl
        BY <1>2, <3>1, <3>2, <3>3, NewlineStays
      <3> QED
        BY <3>4, <2>7 DEF b
    <2>9. Reads(after, rules, Above(pre, nl), post)
      <3>1. after = (pre \o ManagedBlock(rules, nl)) \o post
        BY <2>7 DEF b
      <3> QED
        <4>1. IsInjective(rules) /\ (\A r \in Range(rules) : SizeOf[r] <= MaxRule) /\ rules # <<>>
          BY <1>2
        <4> QED
          BY <3>1, <4>1, <1>0, <1>4, <2>2, <2>5, <2>8, PlacedReads, Zenon
    <2>10. Outside(d) = d
      BY <1>2 DEF Outside
    <2>11. Joined(Above(pre, nl), post) = d
      BY <2>2, <2>5 DEF Joined, post
    <2> QED
      BY <2>2, <2>5, <2>9, <2>10, <2>11, <1>2 DEF Verified, Reads, after
  <1>3. CASE ~Plain(d)
    <2>1. PICK pre, mid, post : Marked(d, pre, mid, post)
      BY <1>3, DocumentSplits
    <2>2. /\ SubSeq(d, RegionEnd(d) + 1, Len(d)) = Below(post)
          /\ SubSeq(d, 1, RegionStart(d) - 1) = Above(pre, nl)
          /\ RegionStart(d) = Len(Above(pre, nl)) + 1
          /\ Outside(d) = Joined(Above(pre, nl), Below(post))
          /\ Below(post) \in Seq(Text) /\ Above(pre, nl) \in Seq(Text)
      BY <2>1, MarkedEdges
    <2>3. SubSeq(d, 1, MarkerStart(d) - 1) = pre /\ pre \in Seq(Text)
          /\ SubSeq(d, MarkerEnd(d) + 1, Len(d)) = post /\ post \in Seq(Text)
      <3>1. pre \in Seq(Text) /\ post \in Seq(Text)
        BY <2>1 DEF Marked
      <3>2. SubSeq(d, 1, MarkerStart(d) - 1) = pre /\ SubSeq(d, MarkerEnd(d) + 1, Len(d)) = post
        BY <2>1, MarkedReads
      <3> QED
        BY <3>1, <3>2
    <2>4. CASE rules = <<>>
      <3>1. after = Joined(Above(pre, nl), Below(post))
        BY <1>3, <2>2, <2>4 DEF Replaced
      <3>3. after = Outside(d)
        BY <2>2, <3>1, Zenon
      <3>4. Outside(d) \in Seq(Text)
        <4>1. CRLF \in Text
          BY TokensApart DEF Breaks
        <4>2. Joined(Above(pre, nl), Below(post)) \in Seq(Text)
          BY <2>2, <4>1, JoinedType
        <4> QED
          BY <4>2, <2>2
      <3> HIDE DEF after
      <3>5. after \in Seq(Token0)
        BY <3>3, <3>4, TokensApart, SeqMonotonic
      <3>6. Plain(after)
        BY <3>3, <3>4, <3>5, PlainIsText
      <3>7. Valid(after) /\ RulesOf(after) = rules /\ Outside(after) = after
        BY <2>4, <3>6 DEF Valid, RulesOf, Outside
      <3> QED
        BY <2>4, <3>3, <3>5, <3>6, <3>7 DEF Verified, after
    <2>5. CASE rules # <<>>
      <3> DEFINE rest == Below(post)
      <3>1. after = (pre \o b) \o rest
        BY <1>3, <2>2, <2>3, <2>5 DEF Replaced
      <3>2. rest \in Seq(Text) /\ pre \in Seq(Token0) /\ rest \in Seq(Token0)
        BY <2>2, <2>3, TokensApart, SeqMonotonic
      <3>3. Range(pre) \subseteq Range(d) /\ Range(rest) \subseteq Range(d)
        <4>1. Len(d) \in Nat /\ DOMAIN d = 1..Len(d)
          BY Elements
        <4>2. Range(pre) \subseteq Range(d)
          <5>1. /\ DOMAIN pre = 1..Len(pre)
            /\ Len(pre) \in Nat /\ Len(mid) \in Nat /\ Len(post) \in Nat
            BY <2>1, Elements DEF Marked
          <5>2. Len(d) = Len(pre) + Len(mid) + Len(post) + 2 /\ \A i \in 1..Len(pre) : d[i] = pre[i]
            BY <2>1 DEF Marked
          <5>3. \A i \in DOMAIN pre : i \in DOMAIN d /\ d[i] = pre[i]
            BY <4>1, <5>1, <5>2
          <5> QED
            BY <5>3 DEF Range
        <4>3. ASSUME NEW i \in DOMAIN rest PROVE rest[i] \in Range(d)
          <5> DEFINE e == RegionEnd(d)
                     l == Len(d)
                     t == SubSeq(d, e + 1, l)
          <5>1. t = rest
            BY <2>2
          <5>2. e \in Nat
            <6>1. MarkerEnd(d) = Len(pre) + Len(mid) + 2
              BY <2>1, MarkedReads
            <6>2. Len(pre) \in Nat /\ Len(mid) \in Nat
              BY <2>1, Elements DEF Marked
            <6> QED
              BY <6>1, <6>2 DEF RegionEnd
          <5> HIDE DEF e
          <5>3. \A j \in (e + 1)..l : d[j] \in Range(d)
            <6>1. \A j \in (e + 1)..l : j \in DOMAIN d
              BY <4>1, <5>2
            <6> QED
              BY <6>1 DEF Range
          <5>4. e + 1 \in Int /\ l \in Int
            BY <4>1, <5>2
          <5> HIDE DEF l
          <5>5. t \in Seq(Range(d))
            BY <5>3, <5>4, SubSeqProperties
          <5> HIDE DEF t, rest
          <5>6. rest \in Seq(Range(d))
            BY <5>1, <5>5
          <5> QED
            BY <5>6, Elements
        <4> HIDE DEF rest
        <4> QED
          BY <4>2, <4>3 DEF Range
      <3> HIDE DEF rest
      <3>4. CRLF \in Range(pre) \union Range(rest) => nl = CRLF
        BY <3>3 DEF NewlineOf
      <3> HIDE DEF nl, after, b
      <3>5. NewlineOf(after) = nl
        <4>1. nl = NewlineOf(d)
          BY DEF nl
        <4>2. NewlineOf((pre \o ManagedBlock(rules, nl)) \o rest) = nl
          BY <2>5, <3>2, <3>4, <4>1, NewlineStays
        <4> QED
          BY <4>2, <3>1 DEF b
      <3>6. Reads(after, rules, Above(pre, nl), rest)
        <4>1. after = (pre \o ManagedBlock(rules, nl)) \o rest
          BY <3>1 DEF b
        <4> QED
          <5>1. IsInjective(rules) /\ (\A r \in Range(rules) : SizeOf[r] <= MaxRule)
            OBVIOUS
          <5> QED
            BY <4>1, <5>1, <1>0, <1>4, <2>3, <2>5, <3>2, <3>5, PlacedReads, Zenon
      <3>7. Outside(after) = Outside(d)
        BY <2>2, <3>6 DEF Reads, rest
      <3>8. Verified(d, rules)
        BY <3>6, <3>7 DEF Verified, Reads, after
      <3> QED
        BY <1>3, <2>2, <2>5, <3>6, <3>8 DEF Reads, after
    <2> QED
      BY <2>4, <2>5
  <1> QED
    BY <1>1, <1>2, <1>3

-----------------------------------------------------------------------------
(* One rule: what deploying and revoking leave.                            *)

\* No element twice in a concatenation: none twice in its parts, none in both.
LEMMA InjectiveConcat ==
  ASSUME NEW A, NEW s \in Seq(A), NEW t \in Seq(A)
  PROVE  IsInjective(s \o t) <=>
           IsInjective(s) /\ IsInjective(t) /\ Range(s) \intersect Range(t) = {}
  <1> DEFINE u == s \o t
             m == Len(s)
             n == Len(t)
  <1>1. /\ m \in Nat /\ n \in Nat /\ DOMAIN s = 1..m /\ DOMAIN t = 1..n
        /\ DOMAIN u = 1..(m + n)
        /\ \A i \in 1..(m + n) : u[i] = IF i <= m THEN s[i] ELSE t[i - m]
    BY ConcatProperties, LenProperties
  <1>2. Range(s) = {s[i] : i \in 1..m} /\ Range(t) = {t[i] : i \in 1..n}
    BY RangeEquality
  <1> HIDE DEF u, m, n
  <1>3. \A i \in 1..m : i \in 1..(m + n) /\ u[i] = s[i]
    BY <1>1
  <1>4. \A i \in 1..n : m + i \in 1..(m + n) /\ u[m + i] = t[i]
    <2> SUFFICES ASSUME NEW i \in 1..n PROVE m + i \in 1..(m + n) /\ u[m + i] = t[i]
      OBVIOUS
    <2>1. m + i \in 1..(m + n) /\ ~(m + i <= m) /\ (m + i) - m = i
      BY <1>1
    <2> QED
      BY <2>1, <1>1
  <1>5. ASSUME IsInjective(u)
        PROVE  IsInjective(s) /\ IsInjective(t) /\ Range(s) \intersect Range(t) = {}
    <2>1. \A i, j \in 1..(m + n) : u[i] = u[j] => i = j
      BY <1>1, <1>5 DEF IsInjective
    <2>2. IsInjective(s)
      BY <2>1, <1>1, <1>3 DEF IsInjective
    <2>3. IsInjective(t)
      <3> SUFFICES ASSUME NEW i \in 1..n, NEW j \in 1..n, t[i] = t[j] PROVE i = j
        BY <1>1 DEF IsInjective
      <3>1. m + i = m + j
        BY <2>1, <1>4
      <3> QED
        BY <3>1, <1>1
    <2>4. ASSUME NEW i \in 1..m, NEW j \in 1..n, s[i] = t[j] PROVE FALSE
      <3>1. i = m + j
        BY <2>1, <2>4, <1>3, <1>4
      <3> QED
        BY <3>1, <1>1
    <2> QED
      BY <2>2, <2>3, <2>4, <1>2
  <1>6. ASSUME IsInjective(s), IsInjective(t), Range(s) \intersect Range(t) = {}
        PROVE  IsInjective(u)
    <2>1. (\A i, j \in 1..m : s[i] = s[j] => i = j) /\ (\A i, j \in 1..n : t[i] = t[j] => i = j)
      BY <1>1, <1>6 DEF IsInjective
    <2>2. \A i \in 1..m, j \in 1..n : s[i] # t[j]
      BY <1>2, <1>6
    <2>3. ASSUME NEW i \in 1..(m + n), NEW j \in 1..(m + n), u[i] = u[j] PROVE i = j
      <3>1. (i \in 1..m /\ u[i] = s[i]) \/ (i - m \in 1..n /\ u[i] = t[i - m])
        BY <1>1
      <3>2. (j \in 1..m /\ u[j] = s[j]) \/ (j - m \in 1..n /\ u[j] = t[j - m])
        BY <1>1
      <3>3. CASE i \in 1..m /\ j \in 1..m /\ u[i] = s[i] /\ u[j] = s[j]
        BY <2>1, <2>3, <3>3
      <3>4. CASE i - m \in 1..n /\ j - m \in 1..n /\ u[i] = t[i - m] /\ u[j] = t[j - m]
        <4>1. i - m = j - m
          BY <2>1, <2>3, <3>4
        <4> QED
          BY <4>1, <1>1
      <3> QED
        BY <2>2, <2>3, <3>1, <3>2, <3>3, <3>4
    <2> QED
      BY <2>3, <1>1 DEF IsInjective
  <1> QED
    BY <1>5, <1>6 DEF u

\* An element inserted where two parts meet.
LEMMA InsertBetween ==
  ASSUME NEW A, NEW p \in Seq(A), NEW t \in Seq(A), NEW r
  PROVE  InsertAt(p \o t, Len(p) + 1, r) = (p \o <<r>>) \o t
  <1> DEFINE u == p \o t
             m == Len(p)
             n == Len(t)
  <1>1. m \in Nat /\ n \in Nat /\ Len(u) = m + n
        /\ \A i \in 1..(m + n) : u[i] = IF i <= m THEN p[i] ELSE t[i - m]
    BY ConcatProperties, LenProperties
  <1> HIDE DEF u
  <1>2. \A i \in 1..Len(p) : u[0 + i] = p[i]
    BY <1>1
  <1>3. SubSeq(u, 0 + 1, 0 + Len(p)) = p
    <2>1. Carries(u, 0, p)
      BY <1>2 DEF Carries
    <2> QED
      BY <1>2, <2>1, SliceIs
  <1> HIDE DEF m
  <1>4. \A i \in 1..Len(t) : u[m + i] = t[i]
    <2> SUFFICES ASSUME NEW i \in 1..Len(t) PROVE u[m + i] = t[i]
      OBVIOUS
    <2>1. m + i \in 1..(m + n) /\ ~(m + i <= m) /\ (m + i) - m = i
      BY <1>1
    <2> QED
      BY <2>1, <1>1
  <1>5. SubSeq(u, m + 1, m + Len(t)) = t
    <2>1. Carries(u, m, t)
      BY <1>1, <1>4 DEF Carries
    <2> QED
      BY <1>1, <1>4, <2>1, SliceIs
  <1>6. 0 + 1 = 1 /\ 0 + Len(p) = (m + 1) - 1 /\ m + Len(t) = Len(u)
    BY <1>1 DEF m
  <1>7. SubSeq(u, 1, (m + 1) - 1) = p /\ SubSeq(u, m + 1, Len(u)) = t
    BY <1>3, <1>5, <1>6
  <1>8. InsertAt(u, m + 1, r) = (p \o <<r>>) \o t
    BY <1>7, Zenon DEF InsertAt
  <1> QED
    BY <1>8 DEF u, m

\* What a document that can be read holds.
LEMMA RulesRead ==
  ASSUME NEW d \in Seq(Token0), Valid(d)
  PROVE  /\ RulesOf(d) \in Seq(Rule) /\ IsInjective(RulesOf(d))
         /\ \A r \in Range(RulesOf(d)) : SizeOf[r] <= MaxRule
         /\ Range(RulesOf(d)) \intersect Quoting = {}
  <1>1. CASE Plain(d)
    <2>1. RulesOf(d) = <<>>
      BY <1>1 DEF RulesOf
    <2> QED
      BY <2>1, EmptySeq, RangeOfEmpty
  <1>2. CASE ~Plain(d)
    <2> DEFINE b == Body(d)
               t == Tail(b)
    <2>1. PICK pre, mid, post : Marked(d, pre, mid, post)
      BY <1>2, DocumentSplits
    <2>2. Inside(d) = mid
      BY <2>1, MarkedReads
    <2>3. b \in Seq(Text \ Breaks)
      <3>1. mid \in Seq(Text)
        BY <2>1 DEF Marked
      <3>2. b = Without(mid, Breaks)
        BY <2>2 DEF Body, Breaks
      <3> QED
        BY <3>1, <3>2, WithoutType
    <2>4. b # <<>> /\ (\A x \in Range(t) : x \in Rule /\ SizeOf[x] <= MaxRule) /\ IsInjective(t)
      BY <1>2 DEF Valid
    <2> HIDE DEF b
    <2>5. t \in Seq(Text \ Breaks)
      BY <2>3, <2>4, HeadTailProperties
    <2> HIDE DEF t
    <2>6. t \in Seq(Rule)
      <3>1. t \in Seq(Range(t)) /\ Range(t) \subseteq Rule
        BY <2>4, <2>5, SeqOfRange
      <3> QED
        BY <3>1, SeqMonotonic
    <2>7. RulesOf(d) = t
      BY <1>2 DEF RulesOf, t, b
    <2>8. Range(t) \intersect Quoting = {}
      <3>1. Range(t) \subseteq Text \ Breaks
        BY <2>5, RangeOfSeq
      <3> QED
        BY <3>1 DEF Text
    <2> QED
      BY <2>4, <2>6, <2>7, <2>8
  <1> QED
    BY <1>1, <1>2

\* What plan_replace would misread, it refuses.
LEMMA MisreadFails ==
  ASSUME NEW d \in Seq(Token0), Valid(d), NEW rules \in Seq(Rule), Misread(d, rules)
  PROVE  ~Verified(d, rules)
  <1> DEFINE after == Replaced(d, rules)
  <1> SUFFICES ASSUME Valid(after), RulesOf(after) = rules, Outside(after) = Outside(d)
               PROVE  FALSE
    BY DEF Verified
  <1>1. Range(rules) \intersect Quoting = {}
    <2>1. after \in Seq(Token0)
      BY ReplacedType
    <2> HIDE DEF after
    <2> QED
      BY <2>1, RulesRead
  <1>2. Plain(d) /\ rules # <<>> /\ d # <<>> /\ Last(d) = CR /\ NewlineOf(d) = LF
    BY <1>1 DEF Misread
  <1> DEFINE b == ManagedBlock(rules, LF)
             m == Between(rules, LF)
             f == Front(d)
             sep == <<LF, LF>>
             pre == (f \o <<CRLF>>) \o <<LF>>
             post == <<>>
             q == <<LF>> \o post
             n == Len(d)
  <1>3. after = pre \o b
    <2>1. after = Joined(d, sep) \o b
      BY <1>2 DEF Replaced
    <2>2. sep # <<>> /\ Head(sep) = LF /\ Tail(sep) = <<LF>>
      OBVIOUS
    <2> HIDE DEF sep, after, b
    <2>3. Joined(d, sep) = pre
      BY <1>2, <2>2 DEF Joined
    <2> QED
      BY <2>1, <2>3
  <1>4. /\ pre \in Seq(Text) /\ Len(pre) = n + 1 /\ n \in Nat \ {0}
        /\ pre[n] = CRLF /\ pre[n + 1] = LF
    <2>1. d \in Seq(Text)
      BY <1>2, PlainIsText
    <2>2. n \in Nat \ {0} /\ \A i \in 1..n : d[i] \in Text
      BY <1>2, <2>1, Elements, EmptySeq
    <2>3. f \in Seq(Text) /\ Len(f) = n - 1
      <3>1. 1 \in Int /\ n - 1 \in Int /\ \A i \in 1..(n - 1) : d[i] \in Text
        BY <2>2
      <3>2. /\ f \in Seq(Text)
            /\ Len(f) = IF 1 <= n - 1 THEN (n - 1) - 1 + 1 ELSE 0
        <4>1. f = SubSeq(d, 1, n - 1)
          BY DEF Front
        <4> HIDE DEF n, f
        <4> QED
          BY <3>1, <4>1, SubSeqProperties
      <3> HIDE DEF n, f
      <3> QED
        BY <2>2, <3>2
    <2> DEFINE c == <<CRLF>>
               l == <<LF>>
               x == f \o c
    <2>4. c \in Seq(Text) /\ Len(c) = 1 /\ c[1] = CRLF /\ l \in Seq(Text) /\ Len(l) = 1 /\ l[1] = LF
      <3>1. CRLF \in Text /\ LF \in Text
        BY TokensApart DEF Breaks
      <3> QED
        BY <3>1
    <2> HIDE DEF f, c, l, n
    <2>5. x \in Seq(Text) /\ Len(x) = n /\ x[n] = CRLF
      <3>1. x \in Seq(Text) /\ Len(x) = Len(f) + Len(c)
            /\ \A i \in 1..(Len(f) + Len(c)) : x[i] = IF i <= Len(f) THEN f[i] ELSE c[i - Len(f)]
        BY <2>3, <2>4, ConcatProperties
      <3> HIDE DEF x
      <3>2. n \in 1..(Len(f) + Len(c)) /\ ~(n <= Len(f)) /\ n - Len(f) = 1
        BY <2>2, <2>3, <2>4
      <3> QED
        BY <2>2, <2>3, <2>4, <3>1, <3>2
    <2> HIDE DEF x
    <2> DEFINE y == x \o l
    <2>6. y \in Seq(Text) /\ Len(y) = n + 1
          /\ \A i \in 1..(n + 1) : y[i] = IF i <= n THEN x[i] ELSE l[i - n]
      <3>1. y \in Seq(Text) /\ Len(y) = Len(x) + Len(l)
            /\ \A i \in 1..(Len(x) + Len(l)) : y[i] = IF i <= Len(x) THEN x[i] ELSE l[i - Len(x)]
        BY <2>4, <2>5, ConcatProperties
      <3> QED
        BY <2>4, <2>5, <3>1
    <2> HIDE DEF y
    <2>7. y[n] = CRLF /\ y[n + 1] = LF
      BY <2>2, <2>4, <2>5, <2>6
    <2> QED
      BY <2>2, <2>6, <2>7 DEF y, x, c, l
  <1>5. post \in Seq(Text) /\ q \in Seq(Text) /\ q = <<LF>>
    BY TokensApart DEF Breaks
  <1> HIDE DEF pre, n, f
  <1>6. Marked(after, pre, m, q)
    <2>1. after = (pre \o b) \o post
      <3>1. after \in Seq(Token0)
        BY ReplacedType
      <3> HIDE DEF after, b
      <3>2. after \o <<>> = after
        BY <3>1, ConcatEmptySeq
      <3> QED
        BY <1>3, <3>2
    <2>2. rules \in Seq(Safe) /\ rules # <<>> /\ LF \in Newlines
      BY <1>1, <1>2, SafeRules DEF Newlines
    <2> HIDE DEF after, post
    <2>3. Marked((pre \o ManagedBlock(rules, LF)) \o post, pre, Between(rules, LF), <<LF>> \o post)
      BY <1>4, <1>5, <2>2, BlockPlaced
    <2> QED
      BY <2>1, <2>3
  <1> HIDE DEF after, m
  <1>7. Outside(after) = Joined(Above(pre, NewlineOf(after)), Below(q))
    <2> HIDE DEF q
    <2> QED
      BY <1>6, MarkedEdges
  <1>8. Below(q) = <<>>
    BY <1>5 DEF Below, Newlines
  <1>9. Above(pre, NewlineOf(after)) = pre
    <2> DEFINE x == NewlineOf(after)
               u == SubSeq(pre, Len(pre) - 1, Len(pre))
               w == <<x, x>>
    <2>1. w[1] = x /\ w[2] = x
      OBVIOUS
    <2>2. u[1] = CRLF /\ u[2] = LF
      <3>1. Len(pre) = n + 1 /\ n \in Int /\ n + 1 \in Int /\ \A i \in n..(n + 1) : pre[i] \in Text
        BY <1>4, Elements
      <3>2. \A i \in 1..((n + 1) - n + 1) : SubSeq(pre, n, n + 1)[i] = pre[n + i - 1]
        BY <3>1, SubSeqProperties
      <3>3. /\ 1 \in 1..((n + 1) - n + 1) /\ 2 \in 1..((n + 1) - n + 1)
            /\ n + 1 - 1 = n /\ n + 2 - 1 = n + 1 /\ Len(pre) - 1 = n
        BY <3>1
      <3>4. SubSeq(pre, n, n + 1)[1] = pre[n] /\ SubSeq(pre, n, n + 1)[2] = pre[n + 1]
        BY <3>2, <3>3
      <3> QED
        BY <1>4, <3>1, <3>3, <3>4
    <2> HIDE DEF u, w, x
    <2>3. u # w
      BY <2>1, <2>2, TokenAssumption
    <2> QED
      BY <2>3 DEF Above, u, w, x
  <1>10. Outside(after) = pre
    BY <1>4, <1>7, <1>8, <1>9, ConcatEmptySeq DEF Joined
  <1>11. Outside(d) = d
    BY <1>2 DEF Outside
  <1>12. Len(pre) = Len(d)
    BY <1>10, <1>11
  <1> QED
    BY <1>4, <1>12 DEF n

\* The least place of a superseded rule, and what a deployment leaves around it.
Splits(rules, S, p, q) ==
  /\ rules = p \o q /\ p \in Seq(Rule \ S) /\ q \in Seq(Rule)
  /\ Len(q) > 0 /\ q[1] \in S
  /\ MinOf(PlacesOf(rules, S)) = Len(p) + 1
  /\ Without(rules, S) = p \o Without(q, S)

\* There is a first rule to supersede, and the rules before it are left alone.
LEMMA FirstPlace ==
  ASSUME NEW rules \in Seq(Rule), NEW S, S # {}, S \subseteq Range(rules)
  PROVE  \E p, q : Splits(rules, S, p, q)
  <1> DEFINE k == MinOf(PlacesOf(rules, S))
             n == Len(rules)
             p == SubSeq(rules, 1, k - 1)
             q == SubSeq(rules, k, n)
  <1>1. n \in Nat /\ DOMAIN rules = 1..n /\ \A i \in 1..n : rules[i] \in Rule
    BY Elements
  <1>2. PlacesOf(rules, S) # {} /\ PlacesOf(rules, S) \subseteq 1..n
    BY <1>1 DEF PlacesOf, Range
  <1>3. k \in PlacesOf(rules, S) /\ \A j \in PlacesOf(rules, S) : k <= j
    <2>1. PICK i \in PlacesOf(rules, S) : \A j \in PlacesOf(rules, S) : i <= j
      <3>1. PlacesOf(rules, S) \in SUBSET Nat
        BY <1>1, <1>2
      <3> QED
        BY <3>1, <1>2, LeastNumber
    <2> QED
      BY <2>1 DEF MinOf
  <1> HIDE DEF k
  <1>4. k \in 1..n /\ \A i \in 1..(k - 1) : rules[i] \in Rule \ S
    <2>1. k \in 1..n
      BY <1>2, <1>3
    <2>2. ASSUME NEW i \in 1..(k - 1) PROVE rules[i] \in Rule \ S
      <3>1. i \in 1..n /\ ~(k <= i)
        BY <2>1, <1>1
      <3> QED
        BY <3>1, <1>1, <1>3 DEF PlacesOf
    <2> QED
      BY <2>1, <2>2
  <1>5. p \in Seq(Rule \ S) /\ Len(p) = k - 1
    <2>1. 1 \in Int /\ k - 1 \in Int
      BY <1>4
    <2>2. p \in Seq(Rule \ S) /\ Len(p) = (IF 1 <= k - 1 THEN (k - 1) - 1 + 1 ELSE 0)
      BY <1>4, <2>1, SubSeqProperties
    <2> HIDE DEF p
    <2> QED
      BY <2>2, <1>4
  <1>6. q \in Seq(Rule) /\ Len(q) > 0 /\ q[1] \in S
    <2>1. k \in Int /\ n \in Int /\ \A i \in k..n : rules[i] \in Rule
      BY <1>1, <1>4
    <2> HIDE DEF n
    <2>2. q \in Seq(Rule) /\ Len(q) = (IF k <= n THEN n - k + 1 ELSE 0)
          /\ \A i \in 1..(n - k + 1) : q[i] = rules[k + i - 1]
      BY <2>1, SubSeqProperties
    <2> HIDE DEF q
    <2>3. 1 \in 1..(n - k + 1) /\ k + 1 - 1 = k /\ k <= n /\ n - k + 1 > 0
      BY <1>1, <1>4
    <2>4. q[1] = rules[k]
      BY <2>2, <2>3
    <2> QED
      BY <2>2, <2>3, <2>4, <1>3 DEF PlacesOf
  <1>7. rules = p \o q
    <2>1. SubSeq(rules, 1, k - 1) \o SubSeq(rules, (k - 1) + 1, Len(rules)) =
            SubSeq(rules, 1, Len(rules))
      <3>1. /\ 1 \in 1..Len(rules) + 1 /\ k - 1 \in 1 - 1..Len(rules)
            /\ Len(rules) \in k - 1..Len(rules)
        BY <1>1, <1>4
      <3> QED
        BY <3>1, ConcatAdjacentSubSeq
    <2>2. SubSeq(rules, 1, Len(rules)) = rules
      BY SubSeqFull
    <2>3. (k - 1) + 1 = k
      BY <1>4
    <2> QED
      BY <2>1, <2>2, <2>3
  <1> HIDE DEF p, q
  <1>8. p \in Seq(Rule)
    <2>1. Rule \ S \subseteq Rule
      OBVIOUS
    <2> QED
      BY <2>1, <1>5, SeqMonotonic
  <1>9. Without(p, S) = p
    BY <1>5, WithoutNone
  <1>10. \A u, v \in Seq(Rule) : Without(u \o v, S) = Without(u, S) \o Without(v, S)
    BY WithoutConcat
  <1>11. Without(rules, S) = p \o Without(q, S)
    BY <1>6, <1>7, <1>8, <1>9, <1>10
  <1>12. k = Len(p) + 1
    BY <1>4, <1>5
  <1> QED
    BY <1>5, <1>6, <1>7, <1>11, <1>12 DEF Splits, k

\* What a deployment leaves holds no rule twice.
LEMMA DeployedRules ==
  ASSUME NEW rules \in Seq(Rule), IsInjective(rules), NEW r \in Rule, NEW S \in SUBSET Rule,
         Deployable(rules, r, S)
  PROVE  /\ Deployed(rules, r, S) \in Seq(Rule) /\ IsInjective(Deployed(rules, r, S))
         /\ Range(Deployed(rules, r, S)) = (Range(rules) \ S) \union {r}
  <1>1. CASE S = {} /\ r \in Range(rules)
    BY <1>1 DEF Deployed
  <1>2. CASE S = {} /\ r \notin Range(rules)
    <2>1. Deployed(rules, r, S) = Append(rules, r)
      BY <1>2 DEF Deployed
    <2>2. Append(rules, r) \in Seq(Rule) /\ Range(Append(rules, r)) = Range(rules) \union {r}
      BY AppendProperties, RangeOfAppend
    <2>3. IsInjective(Append(rules, r))
      BY <1>2, InjectiveAppend
    <2> QED
      BY <1>2, <2>1, <2>2, <2>3
  <1>3. CASE S # {}
    <2>1. S \subseteq Range(rules) /\ r \notin Range(rules) \ S
      BY <1>3 DEF Deployable
    <2>2. PICK p, q : Splits(rules, S, p, q)
      BY <1>3, <2>1, FirstPlace
    <2> DEFINE t == Without(q, S)
               one == <<r>>
               x == p \o one
               y == x \o t
    <2>3. p \in Seq(Rule) /\ t \in Seq(Rule)
      <3>1. p \in Seq(Rule \ S) /\ q \in Seq(Rule)
        BY <2>2 DEF Splits
      <3>2. t \in Seq(Rule \ S)
        BY <3>1, WithoutType
      <3>3. Rule \ S \subseteq Rule
        OBVIOUS
      <3> HIDE DEF t
      <3> QED
        BY <3>1, <3>2, <3>3, SeqMonotonic
    <2>4. Without(rules, S) = p \o t /\ MinOf(PlacesOf(rules, S)) = Len(p) + 1
      BY <2>2 DEF Splits
    <2>5. Deployed(rules, r, S) = y
      <3>1. Deployed(rules, r, S) = InsertAt(p \o t, Len(p) + 1, r)
        BY <1>3, <2>4 DEF Deployed
      <3> HIDE DEF t
      <3> QED
        BY <3>1, <2>3, InsertBetween
    <2>6. one \in Seq(Rule) /\ IsInjective(one) /\ Range(one) = {r}
      <3>1. DOMAIN one = {1} /\ one[1] = r /\ one \in Seq(Rule)
        OBVIOUS
      <3> HIDE DEF one
      <3> QED
        BY <3>1 DEF IsInjective, Range
    <2>7. IsInjective(p \o t) /\ Range(p \o t) = Range(rules) \ S
      <3>1. IsInjective(Without(rules, S))
        BY WithoutInjective
      <3>2. Range(Without(rules, S)) = Range(rules) \ S
        BY WithoutRange
      <3> HIDE DEF t
      <3> QED
        BY <3>1, <3>2, <2>4
    <2> HIDE DEF t, one
    <2>8. IsInjective(p) /\ IsInjective(t) /\ Range(p) \intersect Range(t) = {}
      BY <2>3, <2>7, InjectiveConcat
    <2>9. Range(p) \union Range(t) = Range(rules) \ S
      BY <2>3, <2>7, RangeConcatenation
    <2>10. x \in Seq(Rule) /\ IsInjective(x) /\ Range(x) = Range(p) \union {r}
      <3>1. x \in Seq(Rule)
        BY <2>3, <2>6, ConcatProperties
      <3>2. Range(x) = Range(p) \union Range(one)
        BY <2>3, <2>6, RangeConcatenation
      <3>3. Range(p) \intersect Range(one) = {}
        BY <2>1, <2>6, <2>9
      <3>4. IsInjective(x)
        BY <2>3, <2>6, <2>8, <3>3, InjectiveConcat
      <3> QED
        BY <3>1, <3>2, <3>4, <2>6
    <2> HIDE DEF x
    <2>11. y \in Seq(Rule) /\ Range(y) = Range(x) \union Range(t)
      <3>1. y \in Seq(Rule)
        BY <2>3, <2>10, ConcatProperties
      <3>2. Range(y) = Range(x) \union Range(t)
        BY <2>3, <2>10, RangeConcatenation
      <3> QED
        BY <3>1, <3>2
    <2>12. IsInjective(y)
      <3>1. Range(x) \intersect Range(t) = {}
        BY <2>1, <2>8, <2>9, <2>10
      <3> QED
        BY <2>3, <2>8, <2>10, <3>1, InjectiveConcat
    <2> QED
      BY <2>5, <2>9, <2>10, <2>11, <2>12
  <1> QED
    BY <1>1, <1>2, <1>3

-----------------------------------------------------------------------------
(* Plans.                                                                  *)

\* A plan that is not refused is a document that holds the planned rules.
Planned(d, rules, after) ==
  /\ after = Replaced(d, rules) /\ after \in Seq(Token0) /\ Verified(d, rules)
  /\ Valid(after) /\ RulesOf(after) = rules /\ Outside(after) = Outside(d)
  /\ Bytes(rules, NewlineOf(d)) <= MaxBlock /\ (Whole(d) => Whole(after))
  /\ ~Plain(after) => RegionStart(after) = IF Plain(d) THEN Len(d) + 1 ELSE RegionStart(d)

\* A replacement that is not refused holds the rules it was planned with.
LEMMA PlanHolds ==
  ASSUME NEW d \in Seq(Token0), Valid(d), NEW rules \in Seq(Rule), IsInjective(rules),
         PlanReplace(d, rules) # Refused
  PROVE  Planned(d, rules, PlanReplace(d, rules))
  <1>1. /\ Fits(rules, NewlineOf(d)) /\ Verified(d, rules)
        /\ PlanReplace(d, rules) = Replaced(d, rules)
    BY DEF PlanReplace
  <1>2. \A r \in Range(rules) : SizeOf[r] <= MaxRule
    BY <1>1 DEF Fits
  <1>3. /\ Replaced(d, rules) \in Seq(Token0)
        /\ ~Plain(Replaced(d, rules)) =>
             RegionStart(Replaced(d, rules)) =
               IF Plain(d) THEN Len(d) + 1 ELSE RegionStart(d)
    <2>1. ~Misread(d, rules)
      BY <1>1, MisreadFails
    <2> QED
      BY <1>2, <2>1, RoundTrip
  <1>6. Whole(d) => Whole(Replaced(d, rules))
    BY ReplacedType
  <1>4. /\ Valid(Replaced(d, rules)) /\ RulesOf(Replaced(d, rules)) = rules
        /\ Outside(Replaced(d, rules)) = Outside(d)
    BY <1>1 DEF Verified
  <1>5. Bytes(rules, NewlineOf(d)) <= MaxBlock
    BY <1>1 DEF Fits
  <1> QED
    BY <1>1, <1>3, <1>4, <1>5, <1>6, Zenon DEF Planned

\* So does a deployment,
LEMMA DeployHolds ==
  ASSUME NEW d \in Seq(Token0), NEW r \in Rule, NEW S \in SUBSET Rule,
         PlanDeploy(d, r, S) # Refused
  PROVE  /\ Valid(d)
         /\ Planned(d, Deployed(RulesOf(d), r, S), PlanDeploy(d, r, S))
  <1>1. Valid(d) /\ Deployable(RulesOf(d), r, S)
        /\ PlanDeploy(d, r, S) = PlanReplace(d, Deployed(RulesOf(d), r, S))
    BY DEF PlanDeploy
  <1>2. RulesOf(d) \in Seq(Rule) /\ IsInjective(RulesOf(d))
    BY <1>1, RulesRead
  <1>3. Deployed(RulesOf(d), r, S) \in Seq(Rule) /\ IsInjective(Deployed(RulesOf(d), r, S))
    BY <1>1, <1>2, DeployedRules
  <1> QED
    BY <1>1, <1>3, PlanHolds

\* and a revocation.
LEMMA RevokeHolds ==
  ASSUME NEW d \in Seq(Token0), NEW r, PlanRevoke(d, r) # Refused
  PROVE  Valid(d) /\ Planned(d, Without(RulesOf(d), {r}), PlanRevoke(d, r))
  <1> DEFINE rules == RulesOf(d)
             left == Without(rules, {r})
  <1>1. Valid(d) /\ PlanRevoke(d, r) = PlanReplace(d, left)
    BY DEF PlanRevoke
  <1>2. rules \in Seq(Rule) /\ IsInjective(rules)
    BY <1>1, RulesRead
  <1> HIDE DEF rules
  <1>3. left \in Seq(Rule \ {r}) /\ IsInjective(left)
    BY <1>2, WithoutType, WithoutInjective
  <1>4. left \in Seq(Rule)
    <2>1. Rule \ {r} \subseteq Rule
      OBVIOUS
    <2> HIDE DEF left
    <2> QED
      BY <2>1, <1>3, SeqMonotonic
  <1> HIDE DEF left
  <1>5. Planned(d, left, PlanRevoke(d, r))
    BY <1>1, <1>3, <1>4, PlanHolds
  <1> QED
    BY <1>1, <1>5 DEF left, rules

-----------------------------------------------------------------------------
(* Bundles.                                                                *)

Item == [card : Card, rule : Rule, supersedes : SUBSET Rule]

\* What the items of a bundle place, and the rules that stay, are finitely many.
LEMMA PositionedFinite ==
  ASSUME NEW rules \in Seq(Rule), NEW items, IsFiniteSet(items)
  PROVE  IsFiniteSet(Positioned(rules, items))
  <1> DEFINE n == Len(rules)
             Stay == {q \in DOMAIN rules : rules[q] \notin Superseded(items)}
             A == {[at |-> p, rule |-> rules[p]] : p \in Stay}
             B == {[at |-> PositionOf(rules, i), rule |-> i.rule] : i \in items}
  <1>1. n \in Nat /\ DOMAIN rules = 1..n
    BY Elements
  <1>2. IsFiniteSet(Stay)
    <2>1. IsFiniteSet(1..n)
      BY <1>1, FS_Interval
    <2>2. Stay \subseteq 1..n
      BY <1>1
    <2> HIDE DEF Stay, n
    <2> QED
      BY <2>1, <2>2, FS_Subset
  <1>3. IsFiniteSet(A)
    <2> DEFINE f == [p \in Stay |-> [at |-> p, rule |-> rules[p]]]
    <2>1. f \in Surjection(Stay, A)
      BY DEF Surjection
    <2> HIDE DEF Stay, f, A
    <2> QED
      BY <2>1, <1>2, FS_Surjection
  <1>4. IsFiniteSet(B)
    <2> DEFINE f == [i \in items |-> [at |-> PositionOf(rules, i), rule |-> i.rule]]
    <2>1. f \in Surjection(items, B)
      BY DEF Surjection
    <2> HIDE DEF f, B
    <2> QED
      BY <2>1, FS_Surjection
  <1>5. Positioned(rules, items) = A \union B
    BY DEF Positioned
  <1> HIDE DEF A, B
  <1> QED
    BY <1>3, <1>4, <1>5, FS_Union

\* What a plan leaves, and no plan leaves other than rules.
LEMMA BundleHolds ==
  ASSUME NEW d \in Seq(Token0), NEW items, IsFiniteSet(items), PlanBundle(d, items) # Refused
  PROVE  /\ Valid(d) /\ Combinable(RulesOf(d), items)
         /\ Planned(d, Combined(RulesOf(d), items), PlanBundle(d, items))
  <1> DEFINE rules == RulesOf(d)
             new == Combined(rules, items)
             n == Cardinality(Positioned(rules, items))
             after == Replaced(d, new)
  <1>1. Valid(d) /\ Combinable(rules, items) /\ PlanBundle(d, items) = PlanReplace(d, new)
    BY DEF PlanBundle
  <1>2. rules \in Seq(Rule)
    BY <1>1, RulesRead
  <1>3. n \in Nat
    <2> HIDE DEF rules
    <2> QED
      BY <1>2, PositionedFinite, FS_CardinalityType
  <1>4. new = [k \in 1..n |-> new[k]]
    BY DEF Combined
  <1>5. PlanReplace(d, new) # Refused
    BY <1>1
  <1> HIDE DEF rules, new, n
  <1>6. Verified(d, new)
    BY <1>5 DEF PlanReplace
  <1>7. Valid(after) /\ RulesOf(after) = new
    BY <1>6 DEF Verified
  <1>8. new \in Seq(Rule) /\ IsInjective(new)
    <2>1. CASE Plain(after)
      <3>1. new = <<>>
        BY <1>7, <2>1 DEF RulesOf
      <3> QED
        BY <3>1, RangeOfEmpty, EmptySeq
    <2>2. CASE ~Plain(after)
      <3>1. new = Tail(Body(after))
        BY <1>7, <2>2 DEF RulesOf
      <3>2. (\A t \in Range(new) : t \in Rule) /\ IsInjective(new)
        BY <1>7, <2>2, <3>1 DEF Valid
      <3>3. DOMAIN new = 1..n
        BY <1>4
      <3>4. \A k \in 1..n : new[k] \in Rule
        BY <3>2, <3>3 DEF Range
      <3>5. new \in [1..n -> Rule]
        BY <1>4, <3>4
      <3> QED
        BY <1>3, <3>2, <3>5, SeqDef
    <2> QED
      BY <2>1, <2>2
  <1>9. Planned(d, new, PlanReplace(d, new))
    BY <1>1, <1>5, <1>8, PlanHolds
  <1> QED
    BY <1>1, <1>9 DEF rules, new

\* The revisions a review can hold.
RuleReview(v) ==
  \E before \in Seq(Token0), r \in Rule, S \in SUBSET Rule :
    \E after \in {Refused, PlanDeploy(before, r, S)} :
      v = [kind |-> "rule", rule |-> r, supersedes |-> S, before |-> before, after |-> after]
BundleReview(v) ==
  \E before \in Seq(Token0), items \in SUBSET Item :
    \E after \in {Refused, PlanBundle(before, items)} :
      /\ IsFiniteSet(items) /\ PlanBundle(before, items) # Refused
      /\ v = [kind |-> "bundle", items |-> items, before |-> before, after |-> after,
              tokens |-> {Token(i, before) : i \in items}]

\* The tokens of a bundle.
TokensOf(items, before) == {Token(i, before) : i \in items}

\* Two bundles with the same tokens are the same.
LEMMA TokensTell ==
  ASSUME NEW a \in SUBSET Item, NEW b \in SUBSET Item, NEW before,
         TokensOf(a, before) = TokensOf(b, before)
  PROVE  a = b
  <1>1. ASSUME NEW i \in Item, NEW j \in Item, Token(i, before) = Token(j, before)
        PROVE  i = j
    <2>1. i.card = j.card /\ i.rule = j.rule /\ i.supersedes = j.supersedes
      BY <1>1 DEF Token
    <2> QED
      BY <2>1 DEF Item
  <1> QED
    BY <1>1 DEF TokensOf

\* The bundles that are shown.
LEMMA BundlesType ==
  ASSUME NEW rules \in Seq(Rule), NEW b \in Bundles(rules)
  PROVE  b \in SUBSET Item /\ IsFiniteSet(b)
  <1> DEFINE Bundle(K, f) ==
               {[card |-> k, rule |-> f[k].rule, supersedes |-> f[k].supersedes] : k \in K}
             F(K) == [K -> [rule : Rule, supersedes : SUBSET Range(rules)]]
  <1>5. Bundles(rules) = UNION {{Bundle(K, f) : f \in F(K)} : K \in SUBSET Card \ {{}}}
    BY DEF Bundles
  <1>6. PICK K \in SUBSET Card \ {{}} : b \in {Bundle(K, f) : f \in F(K)}
    <2> HIDE DEF Bundle, F
    <2> QED
      BY <1>5
  <1>7. PICK f \in F(K) : b = Bundle(K, f)
    <2> HIDE DEF Bundle, F
    <2> QED
      BY <1>6
  <1>1. b = {[card |-> k, rule |-> f[k].rule, supersedes |-> f[k].supersedes] : k \in K}
    BY <1>7
  <1>2. Range(rules) \subseteq Rule
    BY RangeOfSeq
  <1>3. b \in SUBSET Item
    <2>1. ASSUME NEW k \in K
          PROVE  [card |-> k, rule |-> f[k].rule, supersedes |-> f[k].supersedes] \in Item
      BY <1>2 DEF Item
    <2> QED
      BY <1>1, <2>1
  <1>4. IsFiniteSet(b)
    <2> DEFINE g == [k \in K |-> [card |-> k, rule |-> f[k].rule, supersedes |-> f[k].supersedes]]
    <2>1. g \in Surjection(K, b)
      BY <1>1 DEF Surjection
    <2>2. IsFiniteSet(K)
      BY RuleAssumption, FS_Subset
    <2> HIDE DEF g
    <2> QED
      BY <2>1, <2>2, FS_Surjection
  <1> QED
    BY <1>3, <1>4

\* A submitted bundle is a bundle.
LEMMA SubmittedType ==
  ASSUME NEW items \in SUBSET Item, NEW b \in Submitted(items)
  PROVE  b \in SUBSET Item
  <1>1. CASE b = items
    BY <1>1
  <1>2. ASSUME NEW i \in items, NEW s \in SUBSET Rule,
               b = (items \ {i}) \union {[i EXCEPT !.supersedes = s]}
        PROVE  b \in SUBSET Item
    BY <1>2 DEF Item
  <1> QED
    BY <1>1, <1>2 DEF Submitted

-----------------------------------------------------------------------------
(* The invariant.                                                          *)

ReviewOK == review # None => RuleReview(review) \/ BundleReview(review)
DocumentInvariant ==
  /\ doc \in Seq(Token0) /\ Whole(doc) /\ shadowed \in BOOLEAN
  /\ edits \in 0..MaxEdits /\ writes \in 0..MaxWrites
  /\ ReviewOK

\* A review's plan was made on the bytes it keeps.
LEMMA ReviewsArePlanned ==
  ASSUME NEW v, RuleReview(v) \/ BundleReview(v)
  PROVE  /\ v.before \in Seq(Token0)
         /\ v.after # Refused => \E rules : Planned(v.before, rules, v.after)
  <1>1. CASE RuleReview(v)
    <2>1. PICK before \in Seq(Token0), r \in Rule, S \in SUBSET Rule :
            \E after \in {Refused, PlanDeploy(before, r, S)} :
              v = [kind |-> "rule", rule |-> r, supersedes |-> S, before |-> before,
                   after |-> after]
      BY <1>1 DEF RuleReview
    <2>2. v.before = before /\ v.after \in {Refused, PlanDeploy(before, r, S)}
      BY <2>1
    <2>3. ASSUME v.after # Refused PROVE \E rules : Planned(v.before, rules, v.after)
      <3>1. v.after = PlanDeploy(before, r, S) /\ PlanDeploy(before, r, S) # Refused
        BY <2>2, <2>3
      <3>2. Planned(before, Deployed(RulesOf(before), r, S), PlanDeploy(before, r, S))
        BY <3>1, DeployHolds
      <3> QED
        BY <2>2, <3>1, <3>2
    <2> QED
      BY <2>2, <2>3
  <1>2. CASE BundleReview(v)
    <2>1. PICK before \in Seq(Token0), items \in SUBSET Item :
            \E after \in {Refused, PlanBundle(before, items)} :
              /\ IsFiniteSet(items) /\ PlanBundle(before, items) # Refused
              /\ v = [kind |-> "bundle", items |-> items, before |-> before, after |-> after,
                      tokens |-> {Token(i, before) : i \in items}]
      BY <1>2 DEF BundleReview
    <2>2. v.before = before /\ v.after \in {Refused, PlanBundle(before, items)}
          /\ IsFiniteSet(items) /\ PlanBundle(before, items) # Refused
      BY <2>1
    <2>3. ASSUME v.after # Refused PROVE \E rules : Planned(v.before, rules, v.after)
      <3>1. v.after = PlanBundle(before, items)
        BY <2>2, <2>3
      <3>2. Planned(before, Combined(RulesOf(before), items), PlanBundle(before, items))
        BY <2>2, BundleHolds
      <3> QED
        BY <2>2, <3>1, <3>2
    <2> QED
      BY <2>2, <2>3
  <1> QED
    BY <1>1, <1>2

\* The invariant gives the types.
LEMMA InvariantTypes == DocumentInvariant => TypeOK
  <1> SUFFICES ASSUME DocumentInvariant PROVE TypeOK
    OBVIOUS
  <1>1. ASSUME review # None
        PROVE  /\ review.before \in Seq(Token0)
               /\ review.after # Refused =>
                    /\ Valid(review.after)
                    /\ Bytes(RulesOf(review.after), NewlineOf(review.before)) <= MaxBlock
    <2>1. RuleReview(review) \/ BundleReview(review)
      BY <1>1 DEF DocumentInvariant, ReviewOK
    <2>2. /\ review.before \in Seq(Token0)
          /\ review.after # Refused => \E rules : Planned(review.before, rules, review.after)
      BY <2>1, ReviewsArePlanned
    <2>3. ASSUME review.after # Refused
          PROVE  /\ Valid(review.after)
                 /\ Bytes(RulesOf(review.after), NewlineOf(review.before)) <= MaxBlock
      <3>1. PICK rules : Planned(review.before, rules, review.after)
        BY <2>2, <2>3
      <3> QED
        BY <3>1 DEF Planned
    <2> QED
      BY <2>2, <2>3
  <1> QED
    BY <1>1 DEF DocumentInvariant, TypeOK

\* It holds of the first document.
LEMMA InitInvariant == Init => DocumentInvariant
  <1> SUFFICES ASSUME Init PROVE DocumentInvariant
    OBVIOUS
  <1>1. doc \in Seq(Token0)
    <2>1. CASE doc = <<>>
      BY <2>1, EmptySeq
    <2>2. ASSUME NEW l \in Line, doc = <<l>> PROVE doc \in Seq(Token0)
      <3>1. l \in Token0
        BY DEF Token0
      <3> QED
        BY <2>2, <3>1
    <2>3. ASSUME NEW l \in Line, NEW nl \in {LF, CRLF, CR}, doc = <<l, nl>>
          PROVE  doc \in Seq(Token0)
      <3>1. l \in Token0 /\ nl \in Token0
        BY DEF Token0
      <3> QED
        BY <2>3, <3>1
    <2> QED
      BY <2>1, <2>2, <2>3 DEF Init
  <1>2. 0 \in 0..MaxEdits /\ 0 \in 0..MaxWrites
    BY BoundAssumption
  <1>3. Whole(doc)
    <2>1. CASE doc = <<>>
      BY <2>1 DEF Whole
    <2>2. ASSUME NEW l \in Line, doc = <<l>> PROVE Whole(doc)
      BY <2>2 DEF Whole
    <2>3. ASSUME NEW l \in Line, NEW nl \in {LF, CRLF, CR}, doc = <<l, nl>> PROVE Whole(doc)
      <3>1. l # CR
        BY TokenAssumption
      <3> QED
        BY <2>3, <3>1 DEF Whole
    <2> QED
      BY <2>1, <2>2, <2>3 DEF Init
  <1> QED
    BY <1>1, <1>2, <1>3 DEF Init, DocumentInvariant, ReviewOK

\* What a step of the program writes.
ProgramWrites(plan) ==
  /\ ~shadowed /\ doc' = plan /\ plan # Refused
  /\ \E rules : Valid(doc) /\ Planned(doc, rules, plan)

\* A deployment writes its plan,
LEMMA DeployWrites ==
  ASSUME doc \in Seq(Token0), NEW r \in Rule, NEW S \in SUBSET Rule, ~shadowed,
         Write(PlanDeploy(doc, r, S))
  PROVE  ProgramWrites(PlanDeploy(doc, r, S))
  <1>1. PlanDeploy(doc, r, S) # Refused /\ doc' = PlanDeploy(doc, r, S)
    BY DEF Write
  <1>2. Valid(doc) /\ Planned(doc, Deployed(RulesOf(doc), r, S), PlanDeploy(doc, r, S))
    BY <1>1, DeployHolds
  <1> QED
    BY <1>1, <1>2 DEF ProgramWrites

\* and so does a revocation.
LEMMA RevokeWrites ==
  ASSUME doc \in Seq(Token0), NEW r \in Rule, ~shadowed, Write(PlanRevoke(doc, r))
  PROVE  ProgramWrites(PlanRevoke(doc, r))
  <1>1. PlanRevoke(doc, r) # Refused /\ doc' = PlanRevoke(doc, r)
    BY DEF Write
  <1>2. Valid(doc) /\ Planned(doc, Without(RulesOf(doc), {r}), PlanRevoke(doc, r))
    BY <1>1, RevokeHolds
  <1> QED
    BY <1>1, <1>2 DEF ProgramWrites

\* The bundle that is confirmed is the one that was reviewed.
LEMMA BundleWrites ==
  ASSUME DocumentInvariant, review # None, review.kind = "bundle",
         NEW b \in Submitted(review.items), ConfirmBundle(b)
  PROVE  /\ ProgramWrites(PlanBundle(doc, b))
         /\ b = review.items /\ review.before = doc
         /\ review.after \in {Refused, PlanBundle(doc, b)}
  <1>1. ~RuleReview(review)
    BY DEF RuleReview
  <1>2. PICK before \in Seq(Token0), items \in SUBSET Item :
          \E after \in {Refused, PlanBundle(before, items)} :
            /\ IsFiniteSet(items) /\ PlanBundle(before, items) # Refused
            /\ review = [kind |-> "bundle", items |-> items, before |-> before, after |-> after,
                         tokens |-> {Token(i, before) : i \in items}]
    BY <1>1 DEF DocumentInvariant, ReviewOK, BundleReview
  <1>3. /\ review.before = before /\ review.items = items /\ IsFiniteSet(items)
        /\ review.after \in {Refused, PlanBundle(before, items)}
        /\ review.tokens = {Token(i, before) : i \in items}
    BY <1>2
  <1>4. /\ ~shadowed /\ {Token(i, review.before) : i \in b} = review.tokens
        /\ review.before = doc /\ Write(PlanBundle(doc, b))
    BY DEF ConfirmBundle
  <1>5. b = items
    <2>1. b \in SUBSET Item
      BY <1>3, SubmittedType
    <2>2. TokensOf(b, before) = TokensOf(items, before)
      BY <1>3, <1>4 DEF TokensOf
    <2> QED
      BY <2>1, <2>2, TokensTell
  <1>6. PlanBundle(doc, b) # Refused /\ doc' = PlanBundle(doc, b)
    BY <1>4 DEF Write
  <1>7. Valid(doc) /\ Planned(doc, Combined(RulesOf(doc), b), PlanBundle(doc, b))
    <2>1. doc \in Seq(Token0) /\ IsFiniteSet(b)
      BY <1>3, <1>5 DEF DocumentInvariant
    <2> QED
      BY <2>1, <1>6, BundleHolds
  <1> QED
    BY <1>3, <1>4, <1>5, <1>6, <1>7 DEF ProgramWrites

\* What the user's editor leaves is made of tokens.
LEMMA EditsType ==
  ASSUME doc \in Seq(Token0), Whole(doc), Editor
  PROVE  doc' \in Seq(Token0) /\ Whole(doc')
  <1>1. Len(doc) \in Nat /\ DOMAIN doc = 1..Len(doc) /\ \A i \in 1..Len(doc) : doc[i] \in Token0
    BY Elements
  <1>2. NewlineOf(doc) \in Newlines /\ NewlineOf(doc) \in Token0
    BY TokensApart DEF NewlineOf, Newlines
  <1>3. Line \subseteq Token0 /\ Rule \subseteq Token0 /\ {LF, CRLF, CR} \subseteq Token0
    BY DEF Token0
  <1>4. ASSUME NEW l \in Line, AddAbove(l) \/ AddBelow(l) PROVE doc' \in Seq(Token0)
    <2> DEFINE t == <<l, NewlineOf(doc)>>
    <2>1. t \in Seq(Token0) /\ l \in Token0
      BY <1>2, <1>3
    <2>2. doc' = t \o doc \/ doc' = Append(doc, l) \/ doc' = doc \o t
      BY <1>4 DEF AddAbove, AddBelow, Edit
    <2> HIDE DEF t
    <2>3. t \o doc \in Seq(Token0) /\ Append(doc, l) \in Seq(Token0) /\ doc \o t \in Seq(Token0)
      BY <2>1, ConcatProperties, AppendProperties
    <2> QED
      BY <2>2, <2>3
  <1>5. ASSUME NEW nl \in {LF, CRLF}, Convert(nl) PROVE doc' \in Seq(Token0)
    <2>1. doc' = [i \in DOMAIN doc |-> IF doc[i] \in {LF, CRLF, CR} THEN nl ELSE doc[i]]
      BY <1>5 DEF Convert, Edit
    <2>2. doc' \in [1..Len(doc) -> Token0]
      BY <2>1, <1>1, <1>3
    <2> QED
      BY <2>2, <1>1, SeqDef
  <1>6. ASSUME NEW r \in Rule, EditBlock(r) PROVE doc' \in Seq(Token0)
    <2>1. Valid(doc) /\ ~Plain(doc)
      BY <1>6 DEF EditBlock
    <2> DEFINE e == MarkerEnd(doc)
               p == SubSeq(doc, 1, e - 1)
               q == SubSeq(doc, e, Len(doc))
               one == <<r>>
               b == ManagedBlock(one, NewlineOf(doc))
               w == Without(doc, {r})
    <2>2. doc' = w \/ (\E t \in {r, CR} : doc' = InsertAt(doc, e, t)) \/ doc' = doc \o b
      BY <1>6 DEF EditBlock, Edit
    <2>3. w \in Seq(Token0)
      <3>1. w \in Seq(Token0 \ {r})
        BY WithoutType
      <3>2. Token0 \ {r} \subseteq Token0
        OBVIOUS
      <3> HIDE DEF w
      <3> QED
        BY <3>1, <3>2, SeqMonotonic
    <2>4. ASSUME NEW t \in {r, CR} PROVE InsertAt(doc, e, t) \in Seq(Token0)
      <3> DEFINE mark == <<t>>
      <3>1. e \in 1..Len(doc)
        <4>1. PICK pre, mid, post : Marked(doc, pre, mid, post)
          BY <2>1, DocumentSplits
        <4>2. e \in Places(doc, End)
          BY <4>1, MarkedReads
        <4> QED
          BY <4>2, <1>1 DEF Places
      <3> HIDE DEF e
      <3>2. p \in Seq(Token0)
        <4>1. 1 \in Int /\ e - 1 \in Int /\ \A i \in 1..(e - 1) : doc[i] \in Token0
          BY <3>1, <1>1
        <4> QED
          BY <4>1, SubSeqProperties
      <3>3. q \in Seq(Token0)
        <4>1. e \in Int /\ Len(doc) \in Int /\ \A i \in e..Len(doc) : doc[i] \in Token0
          BY <3>1, <1>1
        <4> QED
          BY <4>1, SubSeqProperties
      <3>4. mark \in Seq(Token0)
        <4>1. t \in Token0
          BY <1>3
        <4> QED
          BY <4>1
      <3>5. InsertAt(doc, e, t) = (p \o mark) \o q
        BY DEF InsertAt
      <3> HIDE DEF p, q, mark
      <3> DEFINE x == p \o mark
      <3>6. x \in Seq(Token0)
        BY <3>2, <3>4, ConcatProperties
      <3> HIDE DEF x
      <3>7. x \o q \in Seq(Token0)
        BY <3>3, <3>6, ConcatProperties
      <3> QED
        BY <3>5, <3>7 DEF x
    <2>5. doc \o b \in Seq(Token0)
      <3>1. one \in Seq(Rule) /\ one # <<>>
        OBVIOUS
      <3> HIDE DEF one
      <3> DEFINE nl == NewlineOf(doc)
                 m == Between(one, nl)
      <3>2. nl \in Newlines
        BY <1>2
      <3> HIDE DEF nl
      <3>3. b \in Seq(Token0)
        <4> HIDE DEF b, m
        <4> QED
          BY <3>1, <3>2, BlockReads DEF b, m, nl
      <3> HIDE DEF b
      <3> QED
        BY <3>3, ConcatProperties
    <2> QED
      BY <2>2, <2>3, <2>4, <2>5
  <1>7. ASSUME CutLast PROVE doc' \in Seq(Token0)
    <2> DEFINE f == SubSeq(doc, 1, Len(doc) - 1)
    <2>1. doc' = f \/ doc' = Append(f, CR)
      BY <1>7 DEF CutLast, Edit, Front
    <2>2. 1 \in Int /\ Len(doc) - 1 \in Int /\ \A i \in 1..(Len(doc) - 1) : doc[i] \in Token0
      BY <1>1
    <2>3. f \in Seq(Token0)
      BY <2>2, SubSeqProperties
    <2> HIDE DEF f
    <2>4. Append(f, CR) \in Seq(Token0)
      BY <1>3, <2>3, AppendProperties
    <2> QED
      BY <2>1, <2>3, <2>4
  <1>8. ASSUME Shadow PROVE doc' = doc
    BY <1>8 DEF Shadow
  <1>9. Whole(doc') \/ doc' = doc
    BY <1>8 DEF Editor, AddAbove, AddBelow, Convert, EditBlock, CutLast, Edit
  <1>10. doc' = doc => Whole(doc')
    OBVIOUS
  <1> QED
    BY <1>4, <1>5, <1>6, <1>7, <1>8, <1>9, <1>10 DEF Editor

\* What a readable document's block holds are rules.
LEMMA RulesAreRules ==
  ASSUME NEW d \in Seq(Token0), Valid(d)
  PROVE  SUBSET Range(RulesOf(d)) \subseteq SUBSET Rule
  <1>1. RulesOf(d) \in Seq(Rule)
    BY RulesRead
  <1> QED
    BY <1>1, RangeOfSeq

\* A step of the program writes a plan or leaves the document.
LEMMA ProgramSteps ==
  ASSUME DocumentInvariant, Program
  PROVE  \/ UNCHANGED doc
         \/ \E plan : ProgramWrites(plan)
  <1>0. doc \in Seq(Token0)
    BY DEF DocumentInvariant
  <1>1. ASSUME NEW r \in Rule, Revoke(r) PROVE \E plan : ProgramWrites(plan)
    BY <1>0, <1>1, RevokeWrites DEF Revoke
  <1>2. ASSUME NEW r \in Rule, NEW S \in SUBSET Rule, DeployNow(r, S) \/ ConfirmRule(r, S)
        PROVE  \E plan : ProgramWrites(plan)
    <2>1. ~shadowed /\ Write(PlanDeploy(doc, r, S))
      BY <1>2 DEF DeployNow, ConfirmRule
    <2> QED
      BY <1>0, <2>1, DeployWrites
  <1>3. ASSUME NEW r \in Rule, NEW S \in SUBSET Rule, PreviewRule(r, S) PROVE UNCHANGED doc
    BY <1>3 DEF PreviewRule
  <1>4. ASSUME NEW b, PreviewBundle(b) PROVE UNCHANGED doc
    BY <1>4 DEF PreviewBundle
  <1>5. ASSUME review # None, review.kind = "bundle", NEW b \in Submitted(review.items),
               ConfirmBundle(b)
        PROVE  \E plan : ProgramWrites(plan)
    BY <1>5, BundleWrites
  <1>6. ASSUME Dismiss PROVE UNCHANGED doc
    BY <1>6 DEF Dismiss
  <1>7. ASSUME Valid(doc) PROVE SUBSET Range(RulesOf(doc)) \subseteq SUBSET Rule
    BY <1>0, <1>7, RulesAreRules
  <1> QED
    BY <1>1, <1>2, <1>3, <1>4, <1>5, <1>6, <1>7 DEF Program

\* The review after a preview.
LEMMA PreviewsOK ==
  ASSUME DocumentInvariant
  PROVE  /\ \A r \in Rule, S \in SUBSET Rule : PreviewRule(r, S) => ReviewOK'
         /\ \A b \in Bundles(RulesOf(doc)) : Valid(doc) /\ PreviewBundle(b) => ReviewOK'
  <1>0. doc \in Seq(Token0)
    BY DEF DocumentInvariant
  <1>1. ASSUME NEW r \in Rule, NEW S \in SUBSET Rule, PreviewRule(r, S) PROVE ReviewOK'
    <2> DEFINE after == Projection(PlanDeploy(doc, r, S))
    <2>1. after \in {Refused, PlanDeploy(doc, r, S)}
      BY DEF Projection
    <2>2. review' = [kind |-> "rule", rule |-> r, supersedes |-> S, before |-> doc,
                     after |-> after]
      BY <1>1 DEF PreviewRule, RuleRevision
    <2> HIDE DEF after
    <2>3. RuleReview(review')
      BY <1>0, <2>1, <2>2 DEF RuleReview
    <2> QED
      BY <2>3 DEF ReviewOK
  <1>2. ASSUME NEW b \in Bundles(RulesOf(doc)), Valid(doc), PreviewBundle(b) PROVE ReviewOK'
    <2> DEFINE after == Projection(PlanBundle(doc, b))
    <2>1. after \in {Refused, PlanBundle(doc, b)}
      BY DEF Projection
    <2>2. review' = [kind |-> "bundle", items |-> b, before |-> doc, after |-> after,
                     tokens |-> {Token(i, doc) : i \in b}]
      BY <1>2 DEF PreviewBundle, BundleRevision
    <2>3. PlanBundle(doc, b) # Refused
      BY <1>2 DEF PreviewBundle
    <2>4. b \in SUBSET Item /\ IsFiniteSet(b)
      <3>1. RulesOf(doc) \in Seq(Rule)
        BY <1>0, <1>2, RulesRead
      <3> QED
        BY <3>1, BundlesType
    <2> HIDE DEF after
    <2>5. BundleReview(review')
      BY <1>0, <2>1, <2>2, <2>3, <2>4 DEF BundleReview
    <2> QED
      BY <2>5 DEF ReviewOK
  <1> QED
    BY <1>1, <1>2

\* No step, of the program or of an editor, breaks the invariant.
LEMMA StepInvariant == DocumentInvariant /\ [Next]_vars => DocumentInvariant'
  <1> SUFFICES ASSUME DocumentInvariant, [Next]_vars PROVE DocumentInvariant'
    OBVIOUS
  <1>0. doc \in Seq(Token0) /\ Whole(doc) /\ shadowed \in BOOLEAN /\ edits \in 0..MaxEdits
        /\ writes \in 0..MaxWrites /\ ReviewOK
    BY DEF DocumentInvariant
  <1>1. doc' \in Seq(Token0) /\ Whole(doc')
    <2>1. CASE Program
      <3>1. ASSUME NEW plan, ProgramWrites(plan) PROVE doc' \in Seq(Token0) /\ Whole(doc')
        BY <1>0, <3>1 DEF ProgramWrites, Planned
      <3> QED
        BY <1>0, <2>1, <3>1, ProgramSteps
    <2>2. CASE Editor
      BY <1>0, <2>2, EditsType
    <2>3. CASE UNCHANGED vars
      BY <1>0, <2>3 DEF vars
    <2> QED
      BY <2>1, <2>2, <2>3 DEF Next
  <1>2. /\ shadowed' \in BOOLEAN
        /\ edits' = edits \/ (edits < MaxEdits /\ edits' = edits + 1)
        /\ writes' = writes \/ (writes < MaxWrites /\ writes' = writes + 1)
    <2>1. CASE Program
      BY <1>0, <2>1
         DEF Program, Revoke, DeployNow, PreviewRule, ConfirmRule, PreviewBundle,
             ConfirmBundle, Dismiss, Write
    <2>2. CASE Editor
      BY <1>0, <2>2
         DEF Editor, AddAbove, AddBelow, Convert, EditBlock, CutLast, Shadow, Edit
    <2>3. CASE UNCHANGED vars
      BY <1>0, <2>3 DEF vars
    <2> QED
      BY <2>1, <2>2, <2>3 DEF Next
  <1>3. edits' \in 0..MaxEdits /\ writes' \in 0..MaxWrites
    BY <1>0, <1>2, BoundAssumption
  <1>4. ReviewOK'
    <2>1. CASE UNCHANGED review
      BY <1>0, <2>1 DEF ReviewOK
    <2>2. CASE review' = None
      BY <2>2 DEF ReviewOK
    <2>3. CASE Program
      <3>1. ASSUME NEW r \in Rule, Revoke(r) PROVE UNCHANGED review
        BY <3>1 DEF Revoke
      <3>2. ASSUME NEW r \in Rule, NEW S \in SUBSET Rule, DeployNow(r, S) PROVE UNCHANGED review
        BY <3>2 DEF DeployNow
      <3>3. ASSUME NEW r \in Rule, NEW S \in SUBSET Rule, ConfirmRule(r, S) PROVE review' = None
        BY <3>3 DEF ConfirmRule
      <3>4. ASSUME NEW b, ConfirmBundle(b) PROVE review' = None
        BY <3>4 DEF ConfirmBundle
      <3>5. ASSUME Dismiss PROVE review' = None
        BY <3>5 DEF Dismiss
      <3>6. ASSUME Valid(doc) PROVE SUBSET Range(RulesOf(doc)) \subseteq SUBSET Rule
        BY <1>0, <3>6, RulesAreRules
      <3> QED
        BY <2>1, <2>2, <2>3, <3>1, <3>2, <3>3, <3>4, <3>5, <3>6, PreviewsOK DEF Program
    <2>4. CASE Editor
      <3>1. UNCHANGED review
        BY <2>4 DEF Editor, AddAbove, AddBelow, Convert, EditBlock, CutLast, Shadow, Edit
      <3> QED
        BY <2>1, <3>1
    <2>5. CASE UNCHANGED vars
      BY <2>1, <2>5 DEF vars
    <2> QED
      BY <2>3, <2>4, <2>5 DEF Next
  <1> QED
    BY <1>1, <1>2, <1>3, <1>4 DEF DocumentInvariant

\* The document is always made of tokens, and a reviewed plan is a document within the
\* budget whose rules are those that were planned.
THEOREM DocumentAndReviewAreTyped == Spec => []TypeOK
  <1>1. Spec => []DocumentInvariant
    BY InitInvariant, StepInvariant, PTL DEF Spec
  <1> QED
    BY <1>1, InvariantTypes, PTL

-----------------------------------------------------------------------------
(* What the plans promise.                                                 *)

\* plan_replace refuses its own result exactly when it would misread it: any other rules
\* that fit read back, with the same bytes outside.
LEMMA PlansReadBack == DocumentInvariant => PlansRoundTrip
  <1> SUFFICES ASSUME DocumentInvariant, Valid(doc), review = None
               PROVE  /\ \A r \in Rule, s \in SUBSET Rule :
                           LET rules == Deployed(RulesOf(doc), r, s)
                           IN  Deployable(RulesOf(doc), r, s) /\ Fits(rules, NewlineOf(doc)) =>
                                 (Verified(doc, rules) <=> ~Misread(doc, rules))
                      /\ \A r \in Range(RulesOf(doc)) :
                           Verified(doc, Without(RulesOf(doc), {r}))
    BY DEF PlansRoundTrip
  <1> DEFINE old == RulesOf(doc)
  <1>1. doc \in Seq(Token0)
    BY DEF DocumentInvariant
  <1>2. /\ old \in Seq(Rule) /\ IsInjective(old) /\ \A x \in Range(old) : SizeOf[x] <= MaxRule
        /\ Range(old) \intersect Quoting = {}
    BY <1>1, RulesRead
  <1>5. Range(old) # {} => ~Plain(doc)
    BY RangeOfEmpty DEF RulesOf
  <1> HIDE DEF old
  <1>3. ASSUME NEW r \in Rule, NEW s \in SUBSET Rule, Deployable(old, r, s),
               Fits(Deployed(old, r, s), NewlineOf(doc))
        PROVE  Verified(doc, Deployed(old, r, s)) <=> ~Misread(doc, Deployed(old, r, s))
    <2> DEFINE rules == Deployed(old, r, s)
    <2>1. rules \in Seq(Rule) /\ IsInjective(rules)
      BY <1>2, <1>3, DeployedRules
    <2>2. \A x \in Range(rules) : SizeOf[x] <= MaxRule
      BY <1>3 DEF Fits
    <2> HIDE DEF rules
    <2>3. ~Misread(doc, rules) => Verified(doc, rules)
      BY <1>1, <2>1, <2>2, RoundTrip
    <2>4. Misread(doc, rules) => ~Verified(doc, rules)
      BY <1>1, <2>1, MisreadFails
    <2> QED
      BY <2>3, <2>4 DEF rules
  <1>4. ASSUME NEW r \in Range(old) PROVE Verified(doc, Without(old, {r}))
    <2> DEFINE rules == Without(old, {r})
    <2>1. rules \in Seq(Rule) /\ IsInjective(rules)
      <3>1. rules \in Seq(Rule \ {r})
        BY <1>2, WithoutType
      <3>2. IsInjective(rules)
        BY <1>2, WithoutInjective
      <3>3. Rule \ {r} \subseteq Rule
        OBVIOUS
      <3> HIDE DEF rules
      <3> QED
        BY <3>1, <3>2, <3>3, SeqMonotonic
    <2>5. Range(rules) = Range(old) \ {r}
      BY <1>2, WithoutRange
    <2>2. \A x \in Range(rules) : SizeOf[x] <= MaxRule
      <3> HIDE DEF rules
      <3> QED
        BY <2>5, <1>2
    <2> HIDE DEF rules
    <2>4. ~Misread(doc, rules)
      BY <1>2, <1>5, <2>5 DEF Misread
    <2>3. Verified(doc, rules)
      BY <1>1, <2>1, <2>2, <2>4, RoundTrip
    <2> QED
      BY <2>3 DEF rules
  <1> QED
    BY <1>3, <1>4 DEF old

\* plan_replace's checks of its own result refuse a deployment that fits exactly when one of
\* the rules holds a marker, or the block would be the first after a text without CRLF that
\* ends in a bare carriage return; they never refuse a revocation.
THEOREM PlansPassTheirOwnChecks == Spec => []PlansRoundTrip
  <1>1. Spec => []DocumentInvariant
    BY InitInvariant, StepInvariant, PTL DEF Spec
  <1> QED
    BY <1>1, PlansReadBack, PTL

\* No block takes no bytes.
LEMMA NothingFits ==
  ASSUME NEW nl
  PROVE  Fits(<<>>, nl)
  <1>1. Bytes(<<>>, nl) = 0
    <2>1. DOMAIN <<>> = {}
      OBVIOUS
    <2>2. ManagedBlock(<<>>, nl) = <<>>
      BY DEF ManagedBlock
    <2> QED
      BY <2>1, <2>2 DEF Bytes, FoldLeft, MapThenFoldSet
  <1>2. \A r \in Range(<<>>) : SizeOf[r] <= MaxRule
    BY RangeOfEmpty
  <1> QED
    BY <1>1, <1>2, BoundAssumption DEF Fits

\* The one rule of a new block goes, and the block with it.
LEMMA RevokeGivesBack == DocumentInvariant => RevokeUndoesDeploy
  <1> SUFFICES ASSUME DocumentInvariant, Plain(doc), NEW r \in Rule,
                      PlanDeploy(doc, r, {}) # Refused
               PROVE  PlanRevoke(PlanDeploy(doc, r, {}), r) = doc
    BY DEF RevokeUndoesDeploy
  <1> DEFINE d == PlanDeploy(doc, r, {})
             one == <<r>>
             none == <<>>
  <1>1. doc \in Seq(Token0)
    BY DEF DocumentInvariant
  <1>2. Planned(doc, Deployed(RulesOf(doc), r, {}), d)
    <2>1. {} \in SUBSET Rule
      OBVIOUS
    <2> QED
      BY <1>1, <2>1, DeployHolds
  <1>3. RulesOf(doc) = none /\ Outside(doc) = doc
    BY DEF RulesOf, Outside
  <1>4. Deployed(none, r, {}) = one
    <2>1. r \notin Range(none)
      BY RangeOfEmpty
    <2>2. Append(<<>>, r) = <<r>>
      <3>1. Spelled(r, r, r)
        BY AppendsAre
      <3> QED
        BY <3>1, Zenon DEF Spelled
    <2> QED
      BY <2>1, <2>2 DEF Deployed
  <1>5. one \in Seq(Rule) /\ one # none /\ Range(one) = {r}
    <2>1. one \in Seq(Rule) /\ one # <<>> /\ DOMAIN one = {1} /\ one[1] = r
      OBVIOUS
    <2> HIDE DEF one
    <2> QED
      BY <2>1 DEF Range
  <1>6. Without(one, {r}) = none
    <2>1. <<r>> \in Seq({r})
      OBVIOUS
    <2> QED
      BY <2>1, WithoutAll
  <1>0. none \in Seq(Rule) /\ IsInjective(none) /\ Range(none) = {}
    BY RangeOfEmpty, EmptySeq
  <1>10. \A nl : Fits(none, nl)
    BY NothingFits
  <1> HIDE DEF d, one, none
  <1>7. d \in Seq(Token0) /\ Valid(d) /\ RulesOf(d) = one /\ Outside(d) = doc
    BY <1>2, <1>3, <1>4 DEF Planned
  <1>8. PlanRevoke(d, r) = PlanReplace(d, none)
    BY <1>5, <1>6, <1>7 DEF PlanRevoke
  <1>9. Verified(d, none) /\ Replaced(d, none) = Outside(d)
    <2>1. \A x \in Range(none) : SizeOf[x] <= MaxRule
      BY <1>0
    <2>4. ~Misread(d, none)
      BY <1>0, none = <<>> DEF Misread, none
    <2>2. Verified(d, none)
      BY <1>0, <1>7, <2>1, <2>4, RoundTrip
    <2>3. none = <<>> => Replaced(d, none) = Outside(d)
      BY <1>0, <1>7, <2>1, <2>4, RoundTrip
    <2> QED
      BY <2>2, <2>3 DEF none
  <1>11. PlanRevoke(d, r) = doc
    BY <1>7, <1>8, <1>9, <1>10 DEF PlanReplace
  <1> QED
    BY <1>11 DEF d

\* Deploying a rule in a document that has none and revoking it gives back the bytes of
\* before: the blank line and the newline that the block brought go with it.
THEOREM RevokeRestoresTheBytes == Spec => []RevokeUndoesDeploy
  <1>1. Spec => []DocumentInvariant
    BY InitInvariant, StepInvariant, PTL DEF Spec
  <1> QED
    BY <1>1, RevokeGivesBack, PTL

-----------------------------------------------------------------------------
(* What no step of the program does.                                       *)

\* Only the program changes the document without an edit being counted.
LEMMA EditsAreCounted ==
  ASSUME DocumentInvariant, [Next]_vars, doc' # doc, edits' = edits
  PROVE  Program
  <1>1. edits \in Nat
    BY BoundAssumption DEF DocumentInvariant
  <1>2. ~Editor
    <2> SUFFICES ASSUME Editor PROVE FALSE
      OBVIOUS
    <2>1. edits' = edits + 1
      BY DEF Editor, AddAbove, AddBelow, Convert, EditBlock, CutLast, Shadow, Edit
    <2> QED
      BY <1>1, <2>1
  <1> QED
    BY <1>2 DEF Next, vars

\* A step that is not an edit keeps the bytes outside the block.
LEMMA KeepsOutside ==
  ASSUME DocumentInvariant, [Next]_vars, doc' # doc, edits' = edits
  PROVE  /\ Valid(doc) /\ ~shadowed
         /\ Valid(doc') /\ Outside(doc') = Outside(doc)
         /\ ~Plain(doc') =>
              RegionStart(doc') = IF Plain(doc) THEN Len(doc) + 1 ELSE RegionStart(doc)
  <1>1. PICK plan : ProgramWrites(plan)
    BY EditsAreCounted, ProgramSteps
  <1> DEFINE after == doc'
  <1>2. PICK rules : Valid(doc) /\ Planned(doc, rules, after)
    BY <1>1 DEF ProgramWrites
  <1> HIDE DEF after
  <1>3. /\ Valid(after) /\ Outside(after) = Outside(doc)
        /\ ~Plain(after) =>
             RegionStart(after) = IF Plain(doc) THEN Len(doc) + 1 ELSE RegionStart(doc)
    BY <1>2 DEF Planned
  <1>4. ~shadowed
    BY <1>1 DEF ProgramWrites
  <1> QED
    BY <1>2, <1>3, <1>4 DEF after

\* A document changes under the program only where its block is or comes to be.
THEOREM ProgramKeepsOutsideBytes == Spec => OutsideKept
  <1>1. Spec => []DocumentInvariant
    BY InitInvariant, StepInvariant, PTL DEF Spec
  <1>2. DocumentInvariant /\ [Next]_vars =>
          [doc' # doc /\ edits' = edits =>
             /\ Valid(doc) /\ ~shadowed
             /\ Valid(doc') /\ Outside(doc') = Outside(doc)
             /\ ~Plain(doc') =>
                  RegionStart(doc') = IF Plain(doc) THEN Len(doc) + 1 ELSE RegionStart(doc)]_vars
    BY KeepsOutside
  <1> QED
    BY <1>1, <1>2, PTL DEF Spec, OutsideKept

\* A step that writes under a review writes what the review showed.
LEMMA ShowsBefore ==
  ASSUME DocumentInvariant, [Next]_vars, doc' # doc, review # None, edits' = edits
  PROVE  doc = review.before /\ (review.after # Refused => doc' = review.after)
  <1>1. Program
    BY EditsAreCounted
  <1>2. ASSUME NEW r \in Rule, NEW S \in SUBSET Rule, ConfirmRule(r, S)
        PROVE  doc = review.before /\ (review.after # Refused => doc' = review.after)
    <2>1. /\ review = [kind |-> "rule", rule |-> r, supersedes |-> S, before |-> doc,
                       after |-> review.after]
          /\ doc' = PlanDeploy(doc, r, S)
      BY <1>2 DEF ConfirmRule, RuleRevision, Write
    <2>2. review.kind = "rule" /\ review.rule = r /\ review.supersedes = S /\ review.before = doc
      <3> DEFINE a == review.after
                 v == [kind |-> "rule", rule |-> r, supersedes |-> S, before |-> doc, after |-> a]
      <3>1. review = v
        BY <2>1
      <3> HIDE DEF a
      <3>2. v.kind = "rule" /\ v.rule = r /\ v.supersedes = S /\ v.before = doc
        OBVIOUS
      <3> HIDE DEF v
      <3> QED
        BY <3>1, <3>2
    <2>3. ~BundleReview(review)
      BY <2>2 DEF BundleReview
    <2>4. PICK before \in Seq(Token0), q \in Rule, T \in SUBSET Rule :
            \E after \in {Refused, PlanDeploy(before, q, T)} :
              review = [kind |-> "rule", rule |-> q, supersedes |-> T, before |-> before,
                        after |-> after]
      BY <2>3 DEF DocumentInvariant, ReviewOK, RuleReview
    <2>5. review.rule = q /\ review.supersedes = T /\ review.before = before
          /\ review.after \in {Refused, PlanDeploy(before, q, T)}
      BY <2>4
    <2>6. review.after \in {Refused, PlanDeploy(doc, r, S)}
      BY <2>2, <2>5
    <2> QED
      BY <2>1, <2>2, <2>6
  <1>3. ASSUME review.kind = "bundle", NEW b \in Submitted(review.items), ConfirmBundle(b)
        PROVE  doc = review.before /\ (review.after # Refused => doc' = review.after)
    <2>1. ProgramWrites(PlanBundle(doc, b)) /\ review.before = doc
          /\ review.after \in {Refused, PlanBundle(doc, b)}
      BY <1>3, BundleWrites
    <2> QED
      BY <2>1 DEF ProgramWrites
  <1>4. ASSUME NEW r \in Rule, Revoke(r) PROVE FALSE
    BY <1>4 DEF Revoke
  <1>5. ~Dismiss
    BY DEF Dismiss
  <1> QED
    BY <1>1, <1>2, <1>3, <1>4, <1>5 DEF Program

\* A confirmation writes on the bytes the review was made on, and what it showed.
THEOREM ConfirmationsWriteTheReview == Spec => ConfirmsWhatWasShown
  <1>1. Spec => []DocumentInvariant
    BY InitInvariant, StepInvariant, PTL DEF Spec
  <1>2. DocumentInvariant /\ [Next]_vars =>
          [doc' # doc /\ review # None /\ edits' = edits =>
             /\ doc = review.before
             /\ review.after # Refused => doc' = review.after]_vars
    BY ShowsBefore
  <1> QED
    BY <1>1, <1>2, PTL DEF Spec, ConfirmsWhatWasShown

-----------------------------------------------------------------------------
(* Rules in the order of their places, and of their ids at the same place. *)

Placed == [at : Nat, rule : Rule]
Precedes(p, q) == p.at < q.at \/ (p.at = q.at /\ IdOf[p.rule] < IdOf[q.rule])
Ordered(g) == \A a, b \in DOMAIN g : a < b => Precedes(g[a], g[b])
RulesIn(g) == [k \in DOMAIN g |-> g[k].rule]

\* It is a strict total order, because two rules have two ids.
LEMMA PrecedesOrders ==
  ASSUME NEW p \in Placed, NEW q \in Placed
  PROVE  /\ ~Precedes(p, p)
         /\ Precedes(p, q) \/ Precedes(q, p) \/ p = q
         /\ \A s \in Placed : Precedes(p, q) /\ Precedes(q, s) => Precedes(p, s)
  <1>1. /\ p.at \in Nat /\ q.at \in Nat /\ p.rule \in Rule /\ q.rule \in Rule
        /\ IdOf[p.rule] \in Nat /\ IdOf[q.rule] \in Nat
    BY RuleAssumption DEF Placed
  <1>2. ~Precedes(p, p)
    BY <1>1 DEF Precedes
  <1>3. Precedes(p, q) \/ Precedes(q, p) \/ p = q
    <2>1. CASE p.at = q.at /\ IdOf[p.rule] = IdOf[q.rule]
      <3>1. p.rule = q.rule
        BY <1>1, <2>1, RuleAssumption
      <3>2. p = q
        BY <2>1, <3>1 DEF Placed
      <3> QED
        BY <3>2
    <2>2. CASE ~(p.at = q.at /\ IdOf[p.rule] = IdOf[q.rule])
      BY <1>1, <2>2 DEF Precedes
    <2> QED
      BY <2>1, <2>2
  <1>4. ASSUME NEW s \in Placed, Precedes(p, q), Precedes(q, s) PROVE Precedes(p, s)
    <2>1. s.at \in Nat /\ s.rule \in Rule /\ IdOf[s.rule] \in Nat
      BY RuleAssumption DEF Placed
    <2> QED
      BY <1>1, <1>4, <2>1 DEF Precedes
  <1> QED
    BY <1>2, <1>3, <1>4

\* A concatenation is ordered when its parts are and the first precede the last.
LEMMA OrderedConcat ==
  ASSUME NEW s \in Seq(Placed), NEW t \in Seq(Placed)
  PROVE  Ordered(s \o t) <=>
           /\ Ordered(s) /\ Ordered(t)
           /\ \A p \in Range(s), q \in Range(t) : Precedes(p, q)
  <1> DEFINE u == s \o t
             m == Len(s)
             n == Len(t)
  <1>1. /\ m \in Nat /\ n \in Nat /\ DOMAIN s = 1..m /\ DOMAIN t = 1..n
        /\ DOMAIN u = 1..(m + n)
        /\ \A i \in 1..(m + n) : u[i] = IF i <= m THEN s[i] ELSE t[i - m]
    BY ConcatProperties, LenProperties
  <1>2. Range(s) = {s[i] : i \in 1..m} /\ Range(t) = {t[i] : i \in 1..n}
    BY RangeEquality
  <1> HIDE DEF u, m, n
  <1>3. \A i \in 1..m : i \in 1..(m + n) /\ u[i] = s[i]
    BY <1>1
  <1>4. \A i \in 1..n : m + i \in 1..(m + n) /\ u[m + i] = t[i]
    <2> SUFFICES ASSUME NEW i \in 1..n PROVE m + i \in 1..(m + n) /\ u[m + i] = t[i]
      OBVIOUS
    <2>1. m + i \in 1..(m + n) /\ ~(m + i <= m) /\ (m + i) - m = i
      BY <1>1
    <2> QED
      BY <2>1, <1>1
  <1>5. ASSUME Ordered(u)
        PROVE  /\ Ordered(s) /\ Ordered(t)
               /\ \A p \in Range(s), q \in Range(t) : Precedes(p, q)
    <2>1. \A i, j \in 1..(m + n) : i < j => Precedes(u[i], u[j])
      BY <1>1, <1>5 DEF Ordered
    <2>2. ASSUME NEW i \in 1..m, NEW j \in 1..m, i < j PROVE Precedes(s[i], s[j])
      <3>1. Precedes(u[i], u[j])
        BY <2>1, <2>2, <1>3
      <3> QED
        BY <3>1, <1>3
    <2>3. ASSUME NEW i \in 1..n, NEW j \in 1..n, i < j PROVE Precedes(t[i], t[j])
      <3>1. m + i < m + j
        BY <1>1, <2>3
      <3>2. Precedes(u[m + i], u[m + j])
        BY <2>1, <3>1, <1>4
      <3> QED
        BY <3>2, <1>4
    <2>4. ASSUME NEW i \in 1..m, NEW j \in 1..n PROVE Precedes(s[i], t[j])
      <3>1. i < m + j
        BY <1>1
      <3>2. Precedes(u[i], u[m + j])
        BY <2>1, <3>1, <1>3, <1>4
      <3> QED
        BY <3>2, <1>3, <1>4
    <2> QED
      BY <2>2, <2>3, <2>4, <1>1, <1>2 DEF Ordered
  <1>6. ASSUME Ordered(s), Ordered(t), \A p \in Range(s), q \in Range(t) : Precedes(p, q)
        PROVE  Ordered(u)
    <2>1. /\ \A i, j \in 1..m : i < j => Precedes(s[i], s[j])
          /\ \A i, j \in 1..n : i < j => Precedes(t[i], t[j])
          /\ \A i \in 1..m, j \in 1..n : Precedes(s[i], t[j])
      BY <1>1, <1>2, <1>6 DEF Ordered
    <2>2. ASSUME NEW i \in 1..(m + n), NEW j \in 1..(m + n), i < j PROVE Precedes(u[i], u[j])
      <3>1. CASE j <= m
        <4>1. i \in 1..m /\ j \in 1..m
          BY <2>2, <3>1, <1>1
        <4> QED
          BY <4>1, <2>1, <2>2, <1>3
      <3>2. CASE i > m
        <4>1. i - m \in 1..n /\ j - m \in 1..n /\ i - m < j - m /\ ~(i <= m) /\ ~(j <= m)
          BY <2>2, <3>2, <1>1
        <4>2. u[i] = t[i - m] /\ u[j] = t[j - m]
          BY <4>1, <1>1
        <4> QED
          BY <4>1, <4>2, <2>1
      <3>3. CASE i <= m /\ j > m
        <4>1. i \in 1..m /\ j - m \in 1..n /\ ~(j <= m)
          BY <2>2, <3>3, <1>1
        <4>2. u[i] = s[i] /\ u[j] = t[j - m]
          BY <4>1, <1>1, <1>3
        <4> QED
          BY <4>1, <4>2, <2>1
      <3> QED
        BY <3>1, <3>2, <3>3, <1>1
    <2> QED
      BY <2>2, <1>1 DEF Ordered
  <1> QED
    BY <1>5, <1>6 DEF u

\* One element is in order.
LEMMA OrderedOne ==
  ASSUME NEW x \in Placed
  PROVE  <<x>> \in Seq(Placed) /\ Ordered(<<x>>) /\ Range(<<x>>) = {x}
  <1> DEFINE one == <<x>>
  <1>1. one \in Seq(Placed) /\ DOMAIN one = {1} /\ one[1] = x
    OBVIOUS
  <1> HIDE DEF one
  <1>2. Ordered(one) /\ Range(one) = {x}
    BY <1>1 DEF Ordered, Range
  <1> QED
    BY <1>1, <1>2 DEF one

\* So is what a part of two others and an element between them make.
LEMMA OrderedBetween ==
  ASSUME NEW s \in Seq(Placed), NEW x \in Placed, NEW t \in Seq(Placed),
         Ordered(s), Ordered(t),
         \A p \in Range(s), q \in Range(t) : Precedes(p, q),
         \A p \in Range(s) : Precedes(p, x),
         \A q \in Range(t) : Precedes(x, q)
  PROVE  /\ (s \o <<x>>) \o t \in Seq(Placed) /\ Ordered((s \o <<x>>) \o t)
         /\ Range((s \o <<x>>) \o t) = (Range(s) \union {x}) \union Range(t)
  <1> DEFINE one == <<x>>
             u == s \o one
             v == u \o t
  <1>1. one \in Seq(Placed) /\ Ordered(one) /\ Range(one) = {x}
    BY OrderedOne
  <1> HIDE DEF one
  <1>2. u \in Seq(Placed) /\ Range(u) = Range(s) \union {x}
    BY <1>1, ConcatProperties, RangeConcatenation
  <1>3. Ordered(u)
    <2>1. \A p \in Range(s), q \in Range(one) : Precedes(p, q)
      BY <1>1
    <2> QED
      BY <1>1, <2>1, OrderedConcat
  <1> HIDE DEF u
  <1>4. v \in Seq(Placed) /\ Range(v) = (Range(s) \union {x}) \union Range(t)
    BY <1>2, ConcatProperties, RangeConcatenation
  <1>5. Ordered(v)
    <2>1. \A p \in Range(u), q \in Range(t) : Precedes(p, q)
      BY <1>2
    <2> QED
      BY <1>2, <1>3, <2>1, OrderedConcat
  <1> QED
    BY <1>4, <1>5 DEF v, u, one

\* A finite set with its elements in order.
Enumerates(g, P) == g \in Seq(Placed) /\ Ordered(g) /\ Range(g) = P

\* Every finite set of placed rules can be put in order.
LEMMA OrderExists ==
  ASSUME NEW P \in SUBSET Placed, IsFiniteSet(P)
  PROVE  \E g : Enumerates(g, P)
  <1> DEFINE S == {n \in Nat : \A Q \in SUBSET Placed :
                     IsFiniteSet(Q) /\ Cardinality(Q) <= n => \E g : Enumerates(g, Q)}
  <1>0. Enumerates(<<>>, {})
    <2>1. DOMAIN <<>> = {}
      OBVIOUS
    <2> QED
      BY <2>1, RangeOfEmpty, EmptySeq DEF Enumerates, Ordered
  <1>1. 0 \in S
    <2> SUFFICES ASSUME NEW Q \in SUBSET Placed, IsFiniteSet(Q), Cardinality(Q) <= 0
                 PROVE  \E g : Enumerates(g, Q)
      OBVIOUS
    <2>1. Cardinality(Q) = 0
      BY FS_CardinalityType
    <2>2. Q = {}
      BY <2>1, FS_EmptySet
    <2> QED
      BY <1>0, <2>2
  <1>2. ASSUME NEW n \in Nat, n \in S PROVE n + 1 \in S
    <2> SUFFICES ASSUME NEW Q \in SUBSET Placed, IsFiniteSet(Q), Cardinality(Q) <= n + 1
                 PROVE  \E g : Enumerates(g, Q)
      OBVIOUS
    <2>1. CASE Q = {}
      BY <1>0, <2>1
    <2>2. CASE Q # {}
      <3>1. PICK x \in Q : TRUE
        BY <2>2
      <3> DEFINE L == {p \in Q : Precedes(p, x)}
                 U == {p \in Q : Precedes(x, p)}
      <3>2. ASSUME NEW T \in SUBSET (Q \ {x}) PROVE \E g : Enumerates(g, T)
        <4>1. IsFiniteSet(Q \ {x}) /\ Cardinality(Q \ {x}) = Cardinality(Q) - 1
          BY FS_RemoveElement
        <4>2. IsFiniteSet(T) /\ Cardinality(T) <= Cardinality(Q \ {x})
          BY <4>1, FS_Subset
        <4>3. Cardinality(T) <= n
          <5>1. Cardinality(T) \in Nat /\ Cardinality(Q) \in Nat
            BY <4>2, FS_CardinalityType
          <5> QED
            BY <4>1, <4>2, <5>1
        <4> QED
          BY <1>2, <4>2, <4>3
      <3>3. x \notin L /\ x \notin U
        BY PrecedesOrders
      <3>4. PICK g : Enumerates(g, L)
        BY <3>2, <3>3
      <3>5. PICK h : Enumerates(h, U)
        BY <3>2, <3>3
      <3>6. Q = (L \union {x}) \union U
        BY PrecedesOrders
      <3>7. \A p \in L, q \in U : Precedes(p, q)
        BY PrecedesOrders
      <3>8. g \in Seq(Placed) /\ h \in Seq(Placed) /\ Ordered(g) /\ Ordered(h)
            /\ Range(g) = L /\ Range(h) = U
        BY <3>4, <3>5 DEF Enumerates
      <3>9. (\A p \in L : Precedes(p, x)) /\ \A q \in U : Precedes(x, q)
        OBVIOUS
      <3> HIDE DEF L, U
      <3> DEFINE v == (g \o <<x>>) \o h
      <3>10. v \in Seq(Placed) /\ Ordered(v) /\ Range(v) = (Range(g) \union {x}) \union Range(h)
        BY <3>7, <3>8, <3>9, OrderedBetween
      <3> HIDE DEF v
      <3>11. Enumerates(v, Q)
        BY <3>6, <3>8, <3>10 DEF Enumerates
      <3> QED
        BY <3>11
    <2> QED
      BY <2>1, <2>2
  <1>3. Nat \subseteq S
    <2> HIDE DEF S
    <2> QED
      BY <1>1, <1>2, Induction
  <1>4. Cardinality(P) \in S
    BY <1>3, FS_CardinalityType
  <1>5. Cardinality(P) \in Nat /\ Cardinality(P) <= Cardinality(P)
    BY FS_CardinalityType
  <1> QED
    BY <1>4, <1>5

\* In an ordered sequence, an element is preceded by those at the places before its own.
LEMMA RankIsPlace ==
  ASSUME NEW P, NEW g, Enumerates(g, P), NEW k \in 1..Len(g)
  PROVE  Cardinality({q \in P : Precedes(q, g[k])}) + 1 = k
  <1> DEFINE n == Len(g)
             Q == {q \in P : Precedes(q, g[k])}
             m == k - 1
             f == [i \in 1..m |-> g[i]]
  <1>1. /\ n \in Nat /\ DOMAIN g = 1..n /\ Range(g) = {g[i] : i \in 1..n} /\ Range(g) = P
        /\ \A i \in 1..n : g[i] \in Placed
    BY Elements, RangeEquality DEF Enumerates
  <1>2. \A i, j \in 1..n : i < j => Precedes(g[i], g[j])
    BY <1>1 DEF Enumerates, Ordered
  <1> HIDE DEF n
  <1>3. k \in 1..n /\ m \in Nat /\ \A i \in 1..m : i \in 1..n /\ i < k
    BY <1>1 DEF n
  <1>4. \A i \in 1..n : Precedes(g[i], g[k]) => i \in 1..m
    <2> SUFFICES ASSUME NEW i \in 1..n, Precedes(g[i], g[k]) PROVE i < k
      BY <1>1, <1>3
    <2>1. CASE i = k
      BY <2>1, <1>1, PrecedesOrders
    <2>2. CASE k < i
      <3>1. Precedes(g[k], g[i])
        BY <2>2, <1>2, <1>3
      <3>2. Precedes(g[k], g[k])
        BY <3>1, <1>1, <1>3, PrecedesOrders
      <3> QED
        BY <3>2, <1>1, <1>3, PrecedesOrders
    <2> QED
      BY <2>1, <2>2, <1>1, <1>3
  <1>5. Q = {g[i] : i \in 1..m}
    BY <1>1, <1>2, <1>3, <1>4
  <1>6. f \in Bijection(1..m, Q)
    <2>1. f \in [1..m -> Q]
      BY <1>5
    <2>2. \A i, j \in 1..m : g[i] = g[j] => i = j
      <3> SUFFICES ASSUME NEW i \in 1..m, NEW j \in 1..m, g[i] = g[j], i < j PROVE FALSE
        BY <1>3
      <3>1. i \in 1..n /\ j \in 1..n
        BY <1>3
      <3>2. Precedes(g[i], g[j])
        BY <1>2, <3>1
      <3> QED
        BY <3>1, <3>2, <1>1, PrecedesOrders
    <2>3. IsInjective(f)
      BY <2>2 DEF IsInjective
    <2> HIDE DEF Q
    <2>4. \A q \in Q : \E i \in 1..m : f[i] = q
      BY <1>5
    <2> QED
      BY <2>1, <2>3, <2>4 DEF Bijection, Injection, Surjection
  <1> HIDE DEF f, Q, m
  <1>7. Cardinality(Q) = m
    <2>1. ExistsBijection(1..m, Q)
      BY <1>6 DEF ExistsBijection
    <2> QED
      BY <1>3, <2>1, FS_CountingElements
  <1>8. Cardinality(Q) + 1 = k
    BY <1>3, <1>7 DEF m
  <1> QED
    BY <1>8 DEF Q

\* It has as many places as there are elements.
LEMMA OrderCounts ==
  ASSUME NEW P, NEW g, Enumerates(g, P)
  PROVE  Cardinality(P) = Len(g)
  <1> DEFINE n == Len(g)
  <1>1. /\ n \in Nat /\ DOMAIN g = 1..n /\ Range(g) = {g[i] : i \in 1..n} /\ Range(g) = P
        /\ \A i \in 1..n : g[i] \in Placed
    BY Elements, RangeEquality DEF Enumerates
  <1>2. g \in [1..n -> Placed]
    BY LenProperties DEF Enumerates
  <1>3. \A i, j \in 1..n : i < j => Precedes(g[i], g[j])
    BY <1>1 DEF Enumerates, Ordered
  <1> HIDE DEF n
  <1>4. g \in Bijection(1..n, P)
    <2>1. g \in [1..n -> P]
      BY <1>1, <1>2
    <2>2. \A i, j \in 1..n : g[i] = g[j] => i = j
      <3> SUFFICES ASSUME NEW i \in 1..n, NEW j \in 1..n, g[i] = g[j], i < j PROVE FALSE
        BY <1>1
      <3>1. Precedes(g[i], g[j])
        BY <1>3
      <3> QED
        BY <3>1, <1>1, PrecedesOrders
    <2>3. IsInjective(g)
      BY <1>1, <2>2 DEF IsInjective
    <2> QED
      BY <1>1, <2>1, <2>3 DEF Bijection, Injection, Surjection
  <1>5. ExistsBijection(1..n, P)
    BY <1>4 DEF ExistsBijection
  <1> QED
    BY <1>1, <1>5, FS_CountingElements DEF n

\* A bundle's rules are its placed rules in order.
LEMMA CombinedIsOrdered ==
  ASSUME NEW rules, NEW items, NEW g, Enumerates(g, Positioned(rules, items))
  PROVE  Combined(rules, items) = RulesIn(g)
  <1> DEFINE P == Positioned(rules, items)
             Rank(p) == Cardinality({q \in P : Precedes(q, p)}) + 1
             At(k) == CHOOSE p \in P : Rank(p) = k
             n == Len(g)
  <1>1. Combined(rules, items) = [k \in 1..Cardinality(P) |-> At(k).rule]
    BY DEF Combined, Precedes
  <1> HIDE DEF P
  <1>2. Cardinality(P) = n
    BY OrderCounts DEF P
  <1>3. n \in Nat /\ DOMAIN g = 1..n /\ P = {g[i] : i \in 1..n}
    BY Elements, RangeEquality DEF Enumerates, P
  <1>4. \A k \in 1..n : Rank(g[k]) = k
    <2> HIDE DEF n
    <2>1. \A k \in 1..n : Cardinality({q \in P : Precedes(q, g[k])}) + 1 = k
      BY RankIsPlace DEF n, P
    <2> QED
      BY <2>1
  <1> HIDE DEF Rank, n
  <1>5. ASSUME NEW k \in 1..n PROVE At(k) = g[k]
    <2>1. g[k] \in P /\ Rank(g[k]) = k
      BY <1>3, <1>4
    <2>2. \A p \in P : Rank(p) = k => p = g[k]
      BY <1>3, <1>4
    <2> QED
      BY <2>1, <2>2
  <1> HIDE DEF At
  <1> QED
    BY <1>1, <1>2, <1>3, <1>5 DEF RulesIn

\* The rules of placed rules.
LEMMA RulesInType ==
  ASSUME NEW g \in Seq(Placed)
  PROVE  /\ RulesIn(g) \in Seq(Rule) /\ Len(RulesIn(g)) = Len(g)
         /\ \A k \in 1..Len(g) : RulesIn(g)[k] = g[k].rule
         /\ Range(RulesIn(g)) = {p.rule : p \in Range(g)}
  <1> DEFINE n == Len(g)
             r == RulesIn(g)
  <1>1. n \in Nat /\ DOMAIN g = 1..n /\ (\A i \in 1..n : g[i] \in Placed)
        /\ Range(g) = {g[i] : i \in 1..n}
    BY Elements, RangeEquality
  <1> HIDE DEF n
  <1>2. r = [k \in 1..n |-> g[k].rule]
    BY <1>1 DEF RulesIn
  <1>3. \A k \in 1..n : g[k].rule \in Rule
    BY <1>1 DEF Placed
  <1> HIDE DEF r
  <1>4. r \in Seq(Rule) /\ Len(r) = n /\ \A k \in 1..n : r[k] = g[k].rule
    BY <1>1, <1>2, <1>3
  <1>5. Range(r) = {r[k] : k \in 1..n}
    BY <1>2 DEF Range
  <1>6. Range(r) = {p.rule : p \in Range(g)}
    BY <1>1, <1>4, <1>5
  <1> QED
    BY <1>4, <1>6 DEF r, n

\* The rules of a concatenation are the concatenated rules.
LEMMA RulesInConcat ==
  ASSUME NEW s \in Seq(Placed), NEW t \in Seq(Placed)
  PROVE  RulesIn(s \o t) = RulesIn(s) \o RulesIn(t)
  <1> DEFINE u == s \o t
             ru == RulesIn(u)
             rs == RulesIn(s)
             rt == RulesIn(t)
             v == rs \o rt
             m == Len(s)
             n == Len(t)
  <1>1. /\ m \in Nat /\ n \in Nat /\ u \in Seq(Placed) /\ Len(u) = m + n
        /\ \A i \in 1..(m + n) : u[i] = IF i <= m THEN s[i] ELSE t[i - m]
    BY ConcatProperties, LenProperties
  <1> HIDE DEF u
  <1>2. /\ ru \in Seq(Rule) /\ Len(ru) = m + n /\ \A k \in 1..(m + n) : ru[k] = u[k].rule
        /\ rs \in Seq(Rule) /\ Len(rs) = m /\ \A k \in 1..m : rs[k] = s[k].rule
        /\ rt \in Seq(Rule) /\ Len(rt) = n /\ \A k \in 1..n : rt[k] = t[k].rule
    BY <1>1, RulesInType
  <1> HIDE DEF ru, rs, rt, m, n
  <1>3. v \in Seq(Rule) /\ Len(v) = m + n
        /\ \A i \in 1..(m + n) : v[i] = IF i <= m THEN rs[i] ELSE rt[i - m]
    <2>1. v \in Seq(Rule) /\ Len(v) = Len(rs) + Len(rt)
          /\ \A i \in 1..(Len(rs) + Len(rt)) :
               v[i] = IF i <= Len(rs) THEN rs[i] ELSE rt[i - Len(rs)]
      BY <1>2, ConcatProperties
    <2> QED
      BY <2>1, <1>2
  <1> HIDE DEF v
  <1>4. ASSUME NEW i \in 1..(m + n) PROVE ru[i] = v[i]
    <2>1. CASE i <= m
      <3>1. i \in 1..m
        BY <1>1, <2>1
      <3>2. u[i] = s[i]
        BY <2>1, <1>1
      <3>3. v[i] = rs[i]
        BY <2>1, <1>3
      <3>4. rs[i] = s[i].rule
        BY <3>1, <1>2
      <3>5. ru[i] = u[i].rule
        BY <1>2
      <3> QED
        BY <3>2, <3>3, <3>4, <3>5
    <2>2. CASE ~(i <= m)
      <3>1. i - m \in 1..n
        BY <1>1, <2>2
      <3>2. u[i] = t[i - m]
        BY <2>2, <1>1
      <3>3. v[i] = rt[i - m]
        BY <2>2, <1>3
      <3>4. rt[i - m] = t[i - m].rule
        BY <3>1, <1>2
      <3>5. ru[i] = u[i].rule
        BY <1>2
      <3> QED
        BY <3>2, <3>3, <3>4, <3>5
    <2> QED
      BY <2>1, <2>2
  <1>5. ru = v
    BY <1>2, <1>3, <1>4, SeqEqual
  <1> QED
    BY <1>5 DEF ru, v, u, rs, rt

\* One placed rule is one rule.
LEMMA RulesInOne ==
  ASSUME NEW x \in Placed
  PROVE  RulesIn(<<x>>) = <<x.rule>>
  <1> DEFINE one == <<x>>
             r == <<x.rule>>
             s == RulesIn(one)
  <1>1. one \in Seq(Placed) /\ Len(one) = 1 /\ one[1] = x /\ x.rule \in Rule
    BY DEF Placed
  <1>2. r \in Seq(Rule) /\ Len(r) = 1 /\ r[1] = x.rule
    BY <1>1
  <1> HIDE DEF one, r
  <1>3. s \in Seq(Rule) /\ Len(s) = 1 /\ s[1] = x.rule
    <2>1. s \in Seq(Rule) /\ Len(s) = Len(one) /\ \A k \in 1..Len(one) : s[k] = one[k].rule
      BY <1>1, RulesInType
    <2> QED
      BY <2>1, <1>1
  <1> HIDE DEF s
  <1>4. s = r
    BY <1>2, <1>3, SeqEqual
  <1> QED
    BY <1>4 DEF s, r, one

\* The placed rules among some.
PlacedAmong(S) == {e \in Placed : e.rule \in S}

\* Dropping the placed rules of some rules drops those rules.
LEMMA RulesInWithout ==
  ASSUME NEW g \in Seq(Placed), NEW S
  PROVE  RulesIn(Without(g, PlacedAmong(S))) = Without(RulesIn(g), S)
  <1> DEFINE Q == PlacedAmong(S)
             P == {s \in Seq(Placed) : RulesIn(Without(s, Q)) = Without(RulesIn(s), S)}
  <1>1. <<>> \in P
    <2>1. Without(<<>>, Q) = <<>> /\ Without(<<>>, S) = <<>>
      BY WithoutEmpty, Zenon
    <2>2. RulesIn(<<>>) = <<>>
      BY DEF RulesIn
    <2>3. RulesIn(Without(<<>>, Q)) = Without(RulesIn(<<>>), S)
      BY <2>1, <2>2, Zenon
    <2> QED
      BY <2>3, EmptySeq, Zenon
  <1>2. ASSUME NEW s \in Seq(Placed), NEW e \in Placed, s \in P PROVE Append(s, e) \in P
    <2> DEFINE one == <<e>>
               w == Without(s, Q)
               rs == RulesIn(s)
               r == e.rule
    <2>1. Append(s, e) = s \o one /\ Append(s, e) \in Seq(Placed) /\ one \in Seq(Placed)
      BY AppendIsConcat, AppendProperties
    <2>2. RulesIn(w) = Without(rs, S)
      BY <1>2
    <2>3. RulesIn(Append(s, e)) = Append(rs, r) /\ rs \in Seq(Rule) /\ r \in Rule
      <3>1. RulesIn(s \o one) = RulesIn(s) \o RulesIn(one)
        BY <2>1, RulesInConcat
      <3>2. RulesIn(one) = <<r>>
        BY RulesInOne
      <3>3. rs \in Seq(Rule) /\ r \in Rule
        BY RulesInType DEF Placed
      <3> HIDE DEF one, rs, r
      <3>4. Append(rs, r) = rs \o <<r>>
        BY <3>3, AppendIsConcat
      <3> QED
        BY <2>1, <3>1, <3>2, <3>3, <3>4, Zenon DEF rs
    <2>4. w \in Seq(Placed)
      <3>1. w \in Seq(Placed \ Q)
        BY WithoutType
      <3>2. Placed \ Q \subseteq Placed
        OBVIOUS
      <3> HIDE DEF w
      <3> QED
        BY <3>1, <3>2, SeqMonotonic
    <2>5. RulesIn(Append(w, e)) = Append(RulesIn(w), r)
      <3> HIDE DEF w
      <3>1. Append(w, e) = w \o one
        BY <2>4, AppendIsConcat
      <3>2. RulesIn(w \o one) = RulesIn(w) \o RulesIn(one)
        BY <2>1, <2>4, RulesInConcat
      <3>3. RulesIn(one) = <<r>>
        BY RulesInOne
      <3> DEFINE rw == RulesIn(w)
      <3>4. rw \in Seq(Rule) /\ r \in Rule
        BY <2>3, <2>4, RulesInType
      <3> HIDE DEF one, r, rw
      <3>5. Append(rw, r) = rw \o <<r>>
        BY <3>4, AppendIsConcat
      <3> QED
        BY <3>1, <3>2, <3>3, <3>5, Zenon DEF rw
    <2>6. Without(Append(s, e), Q) = IF e \in Q THEN w ELSE Append(w, e)
      <3>1. Leaves(w, Without(Append(s, e), Q), e, Q)
        BY WithoutAppend
      <3> QED
        BY <3>1 DEF Leaves
    <2>7. Without(Append(rs, r), S) = IF r \in S THEN Without(rs, S) ELSE Append(Without(rs, S), r)
      <3> HIDE DEF rs, r
      <3>1. Leaves(Without(rs, S), Without(Append(rs, r), S), r, S)
        BY <2>3, WithoutAppend
      <3> QED
        BY <3>1 DEF Leaves
    <2>8. e \in Q <=> r \in S
      BY DEF PlacedAmong
    <2> HIDE DEF w, rs, r, Q, one
    <2>9. RulesIn(Without(Append(s, e), Q)) = Without(RulesIn(Append(s, e)), S)
      <3>1. CASE e \in Q
        BY <3>1, <2>2, <2>3, <2>6, <2>7, <2>8, Zenon
      <3>2. CASE e \notin Q
        BY <3>2, <2>2, <2>3, <2>5, <2>6, <2>7, <2>8, Zenon
      <3> QED
        BY <3>1, <3>2
    <2> QED
      BY <2>1, <2>9
  <1>3. Seq(Placed) \subseteq P
    <2> HIDE DEF P
    <2> QED
      BY <1>1, <1>2, SequenceInduction
  <1> QED
    BY <1>3

\* Dropping elements leaves the others in their order.
LEMMA OrderedWithout ==
  ASSUME NEW g \in Seq(Placed), Ordered(g), NEW Q
  PROVE  Without(g, Q) \in Seq(Placed) /\ Ordered(Without(g, Q))
  <1> DEFINE P == {s \in Seq(Placed) : Ordered(s) => Ordered(Without(s, Q))}
  <1>0. \A s \in Seq(Placed) : Without(s, Q) \in Seq(Placed) /\ Range(Without(s, Q)) = Range(s) \ Q
    <2> SUFFICES ASSUME NEW s \in Seq(Placed)
                 PROVE  Without(s, Q) \in Seq(Placed) /\ Range(Without(s, Q)) = Range(s) \ Q
      OBVIOUS
    <2> DEFINE w == Without(s, Q)
    <2>1. w \in Seq(Placed \ Q) /\ Range(w) = Range(s) \ Q
      BY WithoutType, WithoutRange
    <2>2. Placed \ Q \subseteq Placed
      OBVIOUS
    <2> HIDE DEF w
    <2>3. w \in Seq(Placed) /\ Range(w) = Range(s) \ Q
      BY <2>1, <2>2, SeqMonotonic
    <2> QED
      BY <2>3 DEF w
  <1>1. <<>> \in P
    <2>1. Without(<<>>, Q) = <<>>
      BY WithoutEmpty, Zenon
    <2> QED
      BY <2>1, EmptySeq, Zenon
  <1>2. ASSUME NEW s \in Seq(Placed), NEW e \in Placed, s \in P PROVE Append(s, e) \in P
    <2> SUFFICES ASSUME Ordered(Append(s, e)) PROVE Ordered(Without(Append(s, e), Q))
      BY AppendProperties
    <2> DEFINE one == <<e>>
               w == Without(s, Q)
    <2>1. one \in Seq(Placed) /\ Ordered(one) /\ Range(one) = {e}
      BY OrderedOne
    <2>2. Append(s, e) = s \o one
      BY AppendIsConcat
    <2> HIDE DEF one
    <2>3. Ordered(s) /\ \A p \in Range(s), q \in Range(one) : Precedes(p, q)
      BY <2>1, <2>2, OrderedConcat
    <2>4. w \in Seq(Placed) /\ Range(w) = Range(s) \ Q /\ Ordered(w)
      BY <1>0, <1>2, <2>3
    <2>5. Without(Append(s, e), Q) = IF e \in Q THEN w ELSE Append(w, e)
      <3>1. Leaves(w, Without(Append(s, e), Q), e, Q)
        BY WithoutAppend
      <3> QED
        BY <3>1 DEF Leaves
    <2> HIDE DEF w
    <2>6. CASE e \in Q
      BY <2>4, <2>5, <2>6, Zenon
    <2>7. CASE e \notin Q
      <3>1. \A p \in Range(w), q \in Range(one) : Precedes(p, q)
        BY <2>3, <2>4
      <3>2. Ordered(w \o one)
        BY <2>1, <2>4, <3>1, OrderedConcat
      <3>3. Append(w, e) = w \o one
        BY <2>4, AppendIsConcat DEF one
      <3> QED
        BY <2>5, <2>7, <3>2, <3>3, Zenon
    <2> QED
      BY <2>6, <2>7
  <1>3. Seq(Placed) \subseteq P
    <2> HIDE DEF P
    <2> QED
      BY <1>1, <1>2, SequenceInduction
  <1> QED
    BY <1>0, <1>3

\* Where an item's rule goes.
LEMMA PositionIs ==
  ASSUME NEW rules \in Seq(Rule), NEW i, i.supersedes \subseteq Range(rules)
  PROVE  /\ PositionOf(rules, i) \in 1..(Len(rules) + 1)
         /\ i.supersedes = {} => PositionOf(rules, i) = Len(rules) + 1
         /\ i.supersedes # {} =>
              /\ PositionOf(rules, i) \in 1..Len(rules)
              /\ rules[PositionOf(rules, i)] \in i.supersedes
              /\ \A p \in 1..Len(rules) : rules[p] \in i.supersedes => PositionOf(rules, i) <= p
  <1> DEFINE S == i.supersedes
             n == Len(rules)
             m == MinOf(PlacesOf(rules, S))
  <1>1. n \in Nat /\ DOMAIN rules = 1..n /\ Range(rules) = {rules[p] : p \in 1..n}
    BY Elements, RangeEquality
  <1>2. CASE S = {}
    BY <1>1, <1>2 DEF PositionOf
  <1>3. CASE S # {}
    <2>1. PlacesOf(rules, S) # {} /\ PlacesOf(rules, S) \in SUBSET Nat
          /\ PlacesOf(rules, S) = {p \in 1..n : rules[p] \in S}
      BY <1>1, <1>3 DEF PlacesOf
    <2>2. PICK k \in PlacesOf(rules, S) : \A j \in PlacesOf(rules, S) : k <= j
      BY <2>1, LeastNumber
    <2>3. m \in PlacesOf(rules, S) /\ \A j \in PlacesOf(rules, S) : m <= j
      BY <2>2 DEF MinOf
    <2>4. PositionOf(rules, i) = m
      BY <1>3 DEF PositionOf
    <2> HIDE DEF m, n, S
    <2>5. m \in 1..n /\ rules[m] \in S /\ (\A p \in 1..n : rules[p] \in S => m <= p)
          /\ m \in 1..(n + 1)
      BY <1>1, <2>1, <2>3
    <2> QED
      BY <1>3, <2>4, <2>5 DEF n, S
  <1> QED
    BY <1>2, <1>3

\* A bundle places the rules that stay and its own.
LEMMA PositionedType ==
  ASSUME NEW rules \in Seq(Rule), NEW items \in SUBSET Item,
         \A i \in items : i.supersedes \subseteq Range(rules)
  PROVE  /\ Positioned(rules, items) \subseteq Placed
         /\ {p.rule : p \in Positioned(rules, items)} =
              (Range(rules) \ Superseded(items)) \union {i.rule : i \in items}
  <1> DEFINE n == Len(rules)
             Stay == {q \in 1..n : rules[q] \notin Superseded(items)}
             A == {[at |-> p, rule |-> rules[p]] : p \in Stay}
             B == {[at |-> PositionOf(rules, i), rule |-> i.rule] : i \in items}
  <1>1. n \in Nat /\ DOMAIN rules = 1..n /\ Range(rules) = {rules[p] : p \in 1..n}
        /\ \A p \in 1..n : rules[p] \in Rule
    BY Elements, RangeEquality
  <1>2. Positioned(rules, items) = A \union B
    BY <1>1 DEF Positioned
  <1>3. A \subseteq Placed
    BY <1>1 DEF Placed
  <1>4. B \subseteq Placed
    <2>1. \A i \in items : PositionOf(rules, i) \in 1..(Len(rules) + 1) /\ i.rule \in Rule
      BY PositionIs DEF Item
    <2>2. \A i \in items : PositionOf(rules, i) \in Nat /\ i.rule \in Rule
      BY <2>1
    <2> QED
      BY <2>2 DEF Placed
  <1>5. {p.rule : p \in A} = Range(rules) \ Superseded(items)
    <2>1. ASSUME NEW r \in Range(rules) \ Superseded(items) PROVE r \in {p.rule : p \in A}
      <3>1. PICK q \in 1..n : rules[q] = r
        BY <2>1, <1>1
      <3>2. q \in Stay
        BY <2>1, <3>1
      <3> DEFINE x == [at |-> q, rule |-> rules[q]]
      <3>3. x \in A /\ x.rule = r
        BY <3>1, <3>2
      <3> QED
        BY <3>3
    <2>2. ASSUME NEW p \in A PROVE p.rule \in Range(rules) \ Superseded(items)
      <3>1. PICK q \in Stay : p = [at |-> q, rule |-> rules[q]]
        BY <2>2
      <3>2. p.rule = rules[q] /\ q \in 1..n /\ rules[q] \notin Superseded(items)
        BY <3>1
      <3> QED
        BY <3>2, <1>1
    <2> HIDE DEF A
    <2> QED
      BY <2>1, <2>2
  <1>6. {p.rule : p \in B} = {i.rule : i \in items}
    <2>1. ASSUME NEW i \in items PROVE i.rule \in {p.rule : p \in B}
      <3> DEFINE x == [at |-> PositionOf(rules, i), rule |-> i.rule]
      <3>1. x \in B /\ x.rule = i.rule
        OBVIOUS
      <3> QED
        BY <3>1
    <2>2. ASSUME NEW p \in B PROVE p.rule \in {i.rule : i \in items}
      <3>1. PICK i \in items : p = [at |-> PositionOf(rules, i), rule |-> i.rule]
        BY <2>2
      <3>2. p.rule = i.rule
        BY <3>1
      <3> QED
        BY <3>2
    <2> HIDE DEF B
    <2> QED
      BY <2>1, <2>2
  <1> HIDE DEF A, B
  <1> QED
    BY <1>2, <1>3, <1>4, <1>5, <1>6

\* A bundle drops the superseded rules and adds its own.
LEMMA CombinedRange ==
  ASSUME NEW rules \in Seq(Rule), NEW items \in SUBSET Item, IsFiniteSet(items),
         \A i \in items : i.supersedes \subseteq Range(rules)
  PROVE  Range(Combined(rules, items)) =
           (Range(rules) \ Superseded(items)) \union {i.rule : i \in items}
  <1> DEFINE P == Positioned(rules, items)
  <1>1. P \in SUBSET Placed
    BY PositionedType
  <1>2. IsFiniteSet(P)
    BY PositionedFinite
  <1>3. {p.rule : p \in P} = (Range(rules) \ Superseded(items)) \union {i.rule : i \in items}
    BY PositionedType
  <1> HIDE DEF P
  <1>4. PICK g : Enumerates(g, P)
    BY <1>1, <1>2, OrderExists
  <1>5. Combined(rules, items) = RulesIn(g)
    BY <1>4, CombinedIsOrdered DEF P
  <1>6. Range(RulesIn(g)) = {p.rule : p \in Range(g)} /\ Range(g) = P
    BY <1>4, RulesInType DEF Enumerates
  <1> QED
    BY <1>3, <1>5, <1>6

\* Placed rules in two parts, and their rules.
Parts(g, p, q, gp, gq) ==
  /\ gp \in Seq(Placed) /\ gq \in Seq(Placed) /\ g = gp \o gq
  /\ RulesIn(gp) = p /\ RulesIn(gq) = q

\* Placed rules whose rules are in two parts are in two parts.
LEMMA RulesInSplit ==
  ASSUME NEW g \in Seq(Placed), NEW p \in Seq(Rule), NEW q \in Seq(Rule), RulesIn(g) = p \o q
  PROVE  \E gp, gq : Parts(g, p, q, gp, gq)
  <1> DEFINE n == Len(g)
             k == Len(p)
             l == Len(q)
             gp == SubSeq(g, 1, k)
             gq == SubSeq(g, k + 1, n)
             u == p \o q
  <1>1. n \in Nat /\ k \in Nat /\ l \in Nat /\ \A i \in 1..n : g[i] \in Placed
    BY Elements
  <1>2. Len(u) = k + l /\ \A i \in 1..(k + l) : u[i] = IF i <= k THEN p[i] ELSE q[i - k]
    BY ConcatProperties
  <1>3. Len(u) = n /\ \A i \in 1..n : u[i] = g[i].rule
    BY RulesInType
  <1> HIDE DEF u
  <1>4. n = k + l
    BY <1>2, <1>3
  <1>5. gp \in Seq(Placed) /\ Len(gp) = k /\ \A i \in 1..k : gp[i] = g[i]
    <2>1. 1 \in Int /\ k \in Int /\ \A i \in 1..k : g[i] \in Placed
      BY <1>1, <1>4
    <2> HIDE DEF n, k, l
    <2>2. gp \in Seq(Placed) /\ Len(gp) = (IF 1 <= k THEN k - 1 + 1 ELSE 0)
          /\ \A i \in 1..(k - 1 + 1) : gp[i] = g[1 + i - 1]
      BY <2>1, SubSeqProperties
    <2> HIDE DEF gp
    <2>3. \A i \in 1..k : i \in 1..(k - 1 + 1) /\ 1 + i - 1 = i
      BY <1>1
    <2> QED
      BY <2>2, <2>3, <1>1
  <1>6. gq \in Seq(Placed) /\ Len(gq) = l /\ \A i \in 1..l : gq[i] = g[k + i]
    <2>1. k + 1 \in Int /\ n \in Int /\ \A i \in (k + 1)..n : g[i] \in Placed
      BY <1>1, <1>4
    <2> DEFINE m == k + 1
    <2> HIDE DEF n, k, l
    <2> HIDE DEF m
    <2>2. SubSeq(g, m, n) \in Seq(Placed)
          /\ Len(SubSeq(g, m, n)) = (IF m <= n THEN n - m + 1 ELSE 0)
          /\ \A i \in 1..(n - m + 1) : SubSeq(g, m, n)[i] = g[m + i - 1]
      BY <2>1, SubSeqProperties DEF m
    <2>3. gq = SubSeq(g, m, n)
      BY DEF m
    <2> HIDE DEF gq
    <2>8. gq \in Seq(Placed) /\ Len(gq) = (IF m <= n THEN n - m + 1 ELSE 0)
          /\ \A i \in 1..(n - m + 1) : gq[i] = g[m + i - 1]
      BY <2>2, <2>3, Zenon
    <2>5. (IF m <= n THEN n - m + 1 ELSE 0) = l
      BY <1>1, <1>4 DEF m
    <2>6. gq \in Seq(Placed) /\ Len(gq) = l
      BY <2>8, <2>5
    <2>7. ASSUME NEW i \in 1..l PROVE gq[i] = g[k + i]
      <3>1. i \in 1..(n - m + 1) /\ m + i - 1 = k + i
        BY <1>1, <1>4 DEF m
      <3>2. gq[i] = g[m + i - 1]
        BY <3>1, <2>8
      <3> QED
        BY <3>1, <3>2
    <2> QED
      BY <2>6, <2>7
  <1>7. g = gp \o gq
    <2>1. gp \o gq = SubSeq(g, 1, Len(g))
      <3>1. 1 \in 1..Len(g) + 1 /\ k \in 1 - 1..Len(g) /\ Len(g) \in k..Len(g)
        BY <1>1, <1>4
      <3> QED
        BY <3>1, ConcatAdjacentSubSeq
    <2>2. SubSeq(g, 1, Len(g)) = g
      BY SubSeqFull
    <2> HIDE DEF gp, gq
    <2> QED
      BY <2>1, <2>2, Zenon
  <1> HIDE DEF gp, gq
  <1>8. RulesIn(gp) = p
    <2> DEFINE rp == RulesIn(gp)
    <2>1. rp \in Seq(Rule) /\ Len(rp) = Len(gp) /\ \A i \in 1..Len(gp) : rp[i] = gp[i].rule
      BY <1>5, RulesInType
    <2> HIDE DEF rp
    <2>2. ASSUME NEW i \in 1..k PROVE rp[i] = p[i]
      <3>1. i \in 1..n /\ i \in 1..(k + l) /\ i <= k
        BY <1>1, <1>4
      <3>2. u[i] = p[i]
        BY <3>1, <1>2
      <3>3. u[i] = g[i].rule
        BY <3>1, <1>3
      <3>4. rp[i] = gp[i].rule /\ gp[i] = g[i]
        BY <2>1, <1>5
      <3> QED
        BY <3>2, <3>3, <3>4
    <2>3. rp = p
      BY <2>1, <2>2, <1>5, SeqEqual
    <2> QED
      BY <2>3 DEF rp
  <1>9. RulesIn(gq) = q
    <2> DEFINE rq == RulesIn(gq)
    <2>1. rq \in Seq(Rule) /\ Len(rq) = Len(gq) /\ \A i \in 1..Len(gq) : rq[i] = gq[i].rule
      BY <1>6, RulesInType
    <2> HIDE DEF rq
    <2>2. ASSUME NEW i \in 1..l PROVE rq[i] = q[i]
      <3>1. k + i \in 1..n /\ k + i \in 1..(k + l) /\ ~(k + i <= k) /\ (k + i) - k = i
        BY <1>1, <1>4
      <3>2. u[k + i] = q[i]
        BY <3>1, <1>2
      <3>3. u[k + i] = g[k + i].rule
        BY <3>1, <1>3
      <3>4. rq[i] = gq[i].rule /\ gq[i] = g[k + i]
        BY <2>1, <1>6
      <3> QED
        BY <3>2, <3>3, <3>4
    <2>3. rq = q
      BY <2>1, <2>2, <1>6, SeqEqual
    <2> QED
      BY <2>3 DEF rq
  <1> QED
    BY <1>5, <1>6, <1>7, <1>8, <1>9 DEF Parts

\* A bundle whose rules are all new, and where one of its items goes.
Fresh(rules, items) ==
  /\ rules \in Seq(Rule) /\ IsInjective(rules) /\ items \in SUBSET Item
  /\ \A i, j \in items : i # j => i.supersedes \intersect j.supersedes = {}
  /\ \A i \in items : i.supersedes \subseteq Range(rules) /\ i.rule \notin Range(rules)
Place(rules, i) == [at |-> PositionOf(rules, i), rule |-> i.rule]

\* What is placed is a rule that stays or the rule of an item.
LEMMA PlacedAre ==
  ASSUME NEW rules, NEW items, Fresh(rules, items), NEW done \in SUBSET items
  PROVE  /\ \A e \in Positioned(rules, done) :
              \/ /\ e.at \in 1..Len(rules) /\ e.rule = rules[e.at]
                 /\ e = [at |-> e.at, rule |-> rules[e.at]]
                 /\ e.rule \notin Superseded(done)
              \/ \E j \in done :
                   e = Place(rules, j) /\ e.at = PositionOf(rules, j) /\ e.rule = j.rule
         /\ \A p \in 1..Len(rules) : rules[p] \notin Superseded(done) =>
              [at |-> p, rule |-> rules[p]] \in Positioned(rules, done)
         /\ \A j \in done : Place(rules, j) \in Positioned(rules, done)
  <1> DEFINE n == Len(rules)
             A == {[at |-> p, rule |-> rules[p]] :
                     p \in {q \in 1..n : rules[q] \notin Superseded(done)}}
             B == {Place(rules, j) : j \in done}
  <1>1. DOMAIN rules = 1..n
    BY Elements DEF Fresh
  <1>2. Positioned(rules, done) = A \union B
    BY <1>1 DEF Positioned, Place
  <1>3. ASSUME NEW e \in A
        PROVE  /\ e.at \in 1..n /\ e.rule = rules[e.at]
               /\ e = [at |-> e.at, rule |-> rules[e.at]] /\ e.rule \notin Superseded(done)
    <2>1. PICK p \in 1..n : rules[p] \notin Superseded(done) /\ e = [at |-> p, rule |-> rules[p]]
      BY <1>3
    <2>2. e.at = p /\ e.rule = rules[p]
      BY <2>1
    <2> QED
      BY <2>1, <2>2
  <1>4. ASSUME NEW e \in B
        PROVE  \E j \in done : e = Place(rules, j) /\ e.at = PositionOf(rules, j) /\ e.rule = j.rule
    <2>1. PICK j \in done : e = Place(rules, j)
      BY <1>4
    <2>2. e.at = PositionOf(rules, j) /\ e.rule = j.rule
      BY <2>1 DEF Place
    <2> QED
      BY <2>1, <2>2
  <1>5. \A p \in 1..n : rules[p] \notin Superseded(done) => [at |-> p, rule |-> rules[p]] \in A
    OBVIOUS
  <1>6. \A j \in done : Place(rules, j) \in B
    OBVIOUS
  <1> HIDE DEF A, B
  <1> QED
    BY <1>2, <1>3, <1>4, <1>5, <1>6

\* One more item drops what it supersedes and adds its own rule.
LEMMA PlacedOneMore ==
  ASSUME NEW rules, NEW items, Fresh(rules, items), NEW done \in SUBSET items,
         NEW i \in items
  PROVE  Positioned(rules, done \union {i}) =
           (Positioned(rules, done) \ PlacedAmong(i.supersedes)) \union {Place(rules, i)}
  <1> DEFINE S == i.supersedes
             n == Len(rules)
             more == done \union {i}
             P == Positioned(rules, done)
             M == Positioned(rules, more)
             x == Place(rules, i)
  <1>1. Superseded(more) = Superseded(done) \union S
    BY DEF Superseded
  <1>2. more \in SUBSET items
    OBVIOUS
  <1>3. S \subseteq Range(rules) /\ \A j \in items : j.rule \notin Range(rules)
    BY DEF Fresh
  <1>4. P \subseteq Placed
    <2>1. rules \in Seq(Rule) /\ done \in SUBSET Item
          /\ \A j \in done : j.supersedes \subseteq Range(rules)
      BY DEF Fresh
    <2> QED
      BY <2>1, PositionedType
  <1>5. ASSUME NEW e \in M PROVE e \in (P \ PlacedAmong(S)) \union {x}
    <2>1. CASE /\ e.at \in 1..n /\ e.rule = rules[e.at]
               /\ e = [at |-> e.at, rule |-> rules[e.at]] /\ e.rule \notin Superseded(more)
      <3>1. e \in P
        <4>1. rules[e.at] \notin Superseded(done)
          BY <2>1, <1>1
        <4>2. [at |-> e.at, rule |-> rules[e.at]] \in P
          BY <2>1, <4>1, PlacedAre
        <4> QED
          BY <2>1, <4>2, Zenon
      <3>2. e.rule \notin S
        BY <2>1, <1>1
      <3> QED
        BY <3>1, <3>2 DEF PlacedAmong
    <2>2. ASSUME NEW j \in more, e = Place(rules, j), e.rule = j.rule
          PROVE  e \in (P \ PlacedAmong(S)) \union {x}
      <3>1. CASE j = i
        BY <2>2, <3>1
      <3>2. CASE j \in done
        <4>1. e \in P
          BY <2>2, <3>2, PlacedAre
        <4>2. e.rule \notin S
          BY <2>2, <3>2, <1>3
        <4> QED
          BY <4>1, <4>2 DEF PlacedAmong
      <3> QED
        BY <3>1, <3>2
    <2> HIDE DEF more, P, x, S
    <2> QED
      BY <1>2, <2>1, <2>2, PlacedAre
  <1>6. ASSUME NEW e \in P \ PlacedAmong(S) PROVE e \in M
    <2>0. e \in P /\ e.rule \notin S
      BY <1>4 DEF PlacedAmong
    <2>1. CASE /\ e.at \in 1..n /\ e.rule = rules[e.at]
               /\ e = [at |-> e.at, rule |-> rules[e.at]] /\ e.rule \notin Superseded(done)
      <3>1. rules[e.at] \notin Superseded(more)
        BY <2>0, <2>1, <1>1
      <3> HIDE DEF more
      <3> QED
        BY <2>1, <3>1, <1>2, PlacedAre
    <2>2. ASSUME NEW j \in done, e = Place(rules, j) PROVE e \in M
      <3>1. j \in more
        BY <2>2
      <3> HIDE DEF more
      <3> QED
        BY <2>2, <3>1, <1>2, PlacedAre
    <2> HIDE DEF M
    <2> QED
      BY <2>0, <2>1, <2>2, PlacedAre
  <1>7. x \in M
    <2>1. i \in more
      OBVIOUS
    <2> HIDE DEF more
    <2> QED
      BY <2>1, <1>2, PlacedAre
  <1> HIDE DEF M, P, x, S
  <1>8. M = (P \ PlacedAmong(S)) \union {x}
    BY <1>5, <1>6, <1>7
  <1> QED
    BY <1>8 DEF M, P, x, S, more

\* Deploying the next item leaves the rules of one more item in order.
LEMMA DeployNext ==
  ASSUME NEW rules, NEW items, Fresh(rules, items), NEW done \in SUBSET items,
         NEW i \in items \ done, \A j \in done : IdOf[j.rule] < IdOf[i.rule],
         NEW g, Enumerates(g, Positioned(rules, done))
  PROVE  \E h : /\ Enumerates(h, Positioned(rules, done \union {i}))
                /\ Deployed(RulesIn(g), i.rule, i.supersedes) = RulesIn(h)
  <1> DEFINE S == i.supersedes
             Q == PlacedAmong(S)
             P == Positioned(rules, done)
             x == Place(rules, i)
             r == i.rule
             R == RulesIn(g)
             n == Len(rules)
             m == PositionOf(rules, i)
  <1>1. /\ rules \in Seq(Rule) /\ n \in Nat /\ Range(rules) = {rules[p] : p \in 1..n}
        /\ i \in Item /\ r \in Rule /\ S \in SUBSET Rule
        /\ S \subseteq Range(rules) /\ r \notin Range(rules)
    BY Elements, RangeEquality DEF Fresh, Item
  <1>2. /\ P \subseteq Placed
        /\ {p.rule : p \in P} = (Range(rules) \ Superseded(done)) \union {j.rule : j \in done}
    <2>1. rules \in Seq(Rule) /\ done \in SUBSET Item
          /\ \A j \in done : j.supersedes \subseteq Range(rules)
      BY DEF Fresh
    <2> QED
      BY <2>1, PositionedType
  <1>3. Positioned(rules, done \union {i}) = (P \ Q) \union {x}
    BY PlacedOneMore
  <1>4. g \in Seq(Placed) /\ Ordered(g) /\ Range(g) = P
    BY DEF Enumerates
  <1>5. R \in Seq(Rule) /\ Range(R) = {p.rule : p \in P}
    BY <1>4, RulesInType
  <1>6. /\ m \in 1..(n + 1)
        /\ S = {} => m = n + 1
        /\ S # {} => m \in 1..n /\ rules[m] \in S /\ \A p \in 1..n : rules[p] \in S => m <= p
    BY <1>1, PositionIs
  <1>7. x \in Placed /\ x.at = m /\ x.rule = r
    BY <1>1, <1>6 DEF Place, Placed
  <1>8. \A j \in done : /\ j.rule \notin Range(rules) /\ j.supersedes \intersect S = {}
                        /\ j.supersedes \subseteq Range(rules) /\ j \in Item
                        /\ IdOf[j.rule] < IdOf[r]
    BY DEF Fresh
  <1>9. \A e \in P :
          \/ e.at \in 1..n /\ e.rule = rules[e.at]
          \/ \E j \in done : e.at = PositionOf(rules, j) /\ e.rule = j.rule
    BY PlacedAre
  <1>10. \A j \in done : /\ PositionOf(rules, j) \in 1..(n + 1)
                         /\ \/ PositionOf(rules, j) = n + 1
                            \/ rules[PositionOf(rules, j)] \in j.supersedes
    <2> SUFFICES ASSUME NEW j \in done
                 PROVE  /\ PositionOf(rules, j) \in 1..(n + 1)
                        /\ \/ PositionOf(rules, j) = n + 1
                           \/ rules[PositionOf(rules, j)] \in j.supersedes
      OBVIOUS
    <2>1. j.supersedes \subseteq Range(rules)
      BY <1>8
    <2> QED
      BY <1>1, <2>1, PositionIs
  <1>11. \A e \in P : e \in Q <=> e.rule \in S
    BY <1>2 DEF PlacedAmong
  <1>12. \A e \in P : e \in Q => e.at \in 1..n /\ rules[e.at] \in S
    BY <1>1, <1>8, <1>9, <1>11
  <1>13. r \notin S
    BY <1>1
  <1> HIDE DEF Q, P, x, m
  <1>20. CASE S = {}
    <2>1. R \in Seq(Rule) /\ Deployed(R, r, S) = Append(R, r)
      <3>1. r \notin Range(R)
        <4>1. IdOf[r] \in Nat
          BY <1>1, RuleAssumption
        <4>2. \A j \in done : j.rule # r
          BY <4>1, <1>8
        <4>3. Range(R) = (Range(rules) \ Superseded(done)) \union {j.rule : j \in done}
          BY <1>2, <1>5
        <4> HIDE DEF R
        <4> QED
          BY <1>1, <4>2, <4>3
      <3> QED
        BY <3>1, <1>5, <1>20 DEF Deployed
    <2>2. ASSUME NEW e \in P PROVE Precedes(e, x)
      <3>1. CASE e.at \in 1..n
        BY <3>1, <1>1, <1>6, <1>7, <1>20 DEF Precedes
      <3>2. ASSUME NEW j \in done, e.at = PositionOf(rules, j), e.rule = j.rule
            PROVE  Precedes(e, x)
        <4>1. e.at \in 1..(n + 1) /\ IdOf[e.rule] < IdOf[x.rule]
          BY <3>2, <1>7, <1>8, <1>10
        <4>2. e.at < x.at \/ e.at = x.at
          BY <4>1, <1>1, <1>6, <1>7, <1>20
        <4> QED
          BY <4>1, <4>2 DEF Precedes
      <3> QED
        BY <3>1, <3>2, <1>9
    <2> DEFINE one == <<x>>
               h == g \o one
    <2>3. one \in Seq(Placed) /\ Ordered(one) /\ Range(one) = {x}
      BY <1>7, OrderedOne
    <2>4. RulesIn(one) = <<r>>
      BY <1>7, RulesInOne
    <2> HIDE DEF one
    <2>5. h \in Seq(Placed) /\ Range(h) = P \union {x}
      BY <1>4, <2>3, ConcatProperties, RangeConcatenation
    <2>6. Ordered(h)
      <3>1. \A p \in Range(g), q \in Range(one) : Precedes(p, q)
        BY <1>4, <2>2, <2>3
      <3> QED
        BY <1>4, <2>3, <3>1, OrderedConcat
    <2>7. P \ Q = P
      BY <1>11, <1>20
    <2>8. RulesIn(h) = R \o <<r>>
      BY <1>4, <2>3, <2>4, RulesInConcat
    <2>9. Append(R, r) = R \o <<r>>
      <3> HIDE DEF R, r
      <3> QED
        BY <1>1, <2>1, AppendIsConcat
    <2> HIDE DEF h, R
    <2>10. Enumerates(h, Positioned(rules, done \union {i}))
      BY <1>3, <2>5, <2>6, <2>7 DEF Enumerates
    <2>11. Deployed(R, r, S) = RulesIn(h)
      BY <2>1, <2>8, <2>9
    <2> QED
      BY <2>10, <2>11 DEF R
  <1>21. CASE S # {}
    <2>1. S \subseteq Range(R)
      <3>1. \A s \in S : s \notin Superseded(done)
        BY <1>8 DEF Superseded
      <3> QED
        BY <3>1, <1>1, <1>2, <1>5
    <2>2. PICK p, q : Splits(R, S, p, q)
      <3> HIDE DEF R
      <3> QED
        BY <2>1, <1>5, <1>21, FirstPlace
    <2>3. /\ R = p \o q /\ p \in Seq(Rule \ S) /\ q \in Seq(Rule)
          /\ Len(q) > 0 /\ q[1] \in S
          /\ MinOf(PlacesOf(R, S)) = Len(p) + 1
          /\ Without(R, S) = p \o Without(q, S)
      BY <2>2 DEF Splits
    <2>4. p \in Seq(Rule)
      <3>1. Rule \ S \subseteq Rule
        OBVIOUS
      <3> QED
        BY <3>1, <2>3, SeqMonotonic
    <2>50. PICK gp, gq : Parts(g, p, q, gp, gq)
      <3>1. RulesIn(g) = p \o q
        BY <2>3
      <3>2. g \in Seq(Placed) /\ p \in Seq(Rule) /\ q \in Seq(Rule)
        BY <1>4, <2>3, <2>4
      <3> QED
        BY <3>1, <3>2, RulesInSplit
    <2>5. /\ gp \in Seq(Placed) /\ gq \in Seq(Placed) /\ g = gp \o gq
          /\ RulesIn(gp) = p /\ RulesIn(gq) = q
      BY <2>50 DEF Parts
    <2>6. /\ Ordered(gp) /\ Ordered(gq)
          /\ \A e \in Range(gp), f \in Range(gq) : Precedes(e, f)
      BY <1>4, <2>5, OrderedConcat
    <2>7. P = Range(gp) \union Range(gq)
      BY <1>4, <2>5, RangeConcatenation
    <2>8. \A e \in Range(gp) : e.rule \notin S
      <3>1. Range(p) = {e.rule : e \in Range(gp)}
        BY <2>5, RulesInType
      <3>2. \A t \in Range(p) : t \notin S
        <4>1. \A k \in 1..Len(p) : p[k] \in Rule \ S
          BY <2>3, Elements
        <4>2. Range(p) = {p[k] : k \in 1..Len(p)}
          BY <2>3, RangeEquality
        <4> QED
          BY <4>1, <4>2
      <3> QED
        BY <3>1, <3>2
    <2>9. /\ \A e \in Range(gp) : e \in P /\ e \notin Q
          /\ \A e \in Range(gq) : e \in P
      BY <2>7, <2>8, <1>11
    <2>10. m \in 1..n /\ rules[m] \in S /\ \A k \in 1..n : rules[k] \in S => m <= k
      BY <1>6, <1>21
    <2>11. \A e \in P \ Q : e.at # m
      <3> SUFFICES ASSUME NEW e \in P, e \notin Q, e.at = m PROVE FALSE
        OBVIOUS
      <3>1. CASE e.at \in 1..n /\ e.rule = rules[e.at]
        BY <3>1, <2>10, <1>11
      <3>2. ASSUME NEW j \in done, e.at = PositionOf(rules, j) PROVE FALSE
        <4>1. PositionOf(rules, j) # n + 1
          BY <3>2, <2>10, <1>1
        <4>2. rules[m] \in j.supersedes
          BY <3>2, <4>1, <1>10
        <4> QED
          BY <4>2, <2>10, <1>8
      <3> QED
        BY <3>1, <3>2, <1>9
    <2>12. \A e \in P : e.at \in Nat
      BY <1>2 DEF Placed
    <2>13. ASSUME NEW e \in Range(gp) PROVE e.at < m
      <3> DEFINE y == [at |-> m, rule |-> rules[m]]
      <3>1. y \in P
        <4>1. \A s \in S : s \notin Superseded(done)
          BY <1>8 DEF Superseded
        <4> QED
          BY <4>1, <2>10, PlacedAre DEF P
      <3>2. y.at = m /\ y.rule = rules[m]
        OBVIOUS
      <3> HIDE DEF y
      <3>3. y \in Range(gq)
        BY <3>1, <3>2, <2>7, <2>8, <2>10
      <3>4. Precedes(e, y)
        BY <3>3, <2>6
      <3>5. e.at < m \/ e.at = m
        BY <3>2, <3>4 DEF Precedes
      <3> QED
        BY <3>5, <2>9, <2>11
    <2>14. ASSUME NEW e \in Range(gq) \ Q PROVE m < e.at
      <3>1. PICK k \in 1..Len(gq) : e = gq[k]
        BY <2>14, <2>5, RangeEquality
      <3>2. Len(gq) \in Nat /\ DOMAIN gq = 1..Len(gq)
        BY <2>5, Elements
      <3>3. 1 \in 1..Len(gq)
        BY <3>1, <3>2
      <3>4. q[1] = gq[1].rule
        BY <3>3, <2>5, RulesInType
      <3> DEFINE f == gq[1]
      <3>5. f \in Range(gq)
        BY <3>2, <3>3 DEF Range
      <3>6. f.rule \in S /\ f \in P
        BY <3>4, <3>5, <2>3, <2>9
      <3>7. f.at \in 1..n /\ m <= f.at
        BY <3>6, <1>11, <1>12, <2>10
      <3>8. e # f
        BY <3>6, <2>14, <1>11
      <3>9. 1 < k
        BY <3>1, <3>2, <3>8
      <3>10. Precedes(f, e)
        BY <3>1, <3>2, <3>3, <3>9, <2>6 DEF Ordered
      <3> HIDE DEF f
      <3>11. f.at <= e.at
        BY <3>6, <3>10, <2>9, <2>12 DEF Precedes
      <3>12. e.at # m /\ e.at \in Nat /\ m \in Nat /\ f.at \in Nat
        BY <3>7, <2>9, <2>10, <2>11, <2>12
      <3> QED
        BY <3>7, <3>11, <3>12
    <2> DEFINE t == Without(gq, Q)
               h == (gp \o <<x>>) \o t
    <2>15. t \in Seq(Placed) /\ Ordered(t) /\ Range(t) = Range(gq) \ Q
      <3>1. t \in Seq(Placed) /\ Ordered(t)
        BY <2>5, <2>6, OrderedWithout
      <3>2. Range(t) = Range(gq) \ Q
        BY <2>5, WithoutRange
      <3> QED
        BY <3>1, <3>2
    <2>16. RulesIn(t) = Without(q, S)
      BY <2>5, RulesInWithout DEF Q
    <2> HIDE DEF t
    <2>17. h \in Seq(Placed) /\ Ordered(h) /\ Range(h) = (Range(gp) \union {x}) \union Range(t)
      <3>1. \A a \in Range(gp) : Precedes(a, x)
        BY <2>13, <1>7 DEF Precedes
      <3>2. \A b \in Range(t) : Precedes(x, b)
        BY <2>14, <2>15, <1>7 DEF Precedes
      <3>3. \A a \in Range(gp), b \in Range(t) : Precedes(a, b)
        BY <2>6, <2>15
      <3> QED
        BY <3>1, <3>2, <3>3, <1>7, <2>5, <2>6, <2>15, OrderedBetween
    <2>18. Range(h) = (P \ Q) \union {x}
      BY <2>7, <2>9, <2>15, <2>17
    <2>19. RulesIn(h) = (p \o <<r>>) \o Without(q, S)
      <3> DEFINE one == <<x>>
                 v == gp \o one
      <3>1. one \in Seq(Placed)
        BY <1>7, OrderedOne
      <3>2. RulesIn(one) = <<r>>
        BY <1>7, RulesInOne
      <3> HIDE DEF one
      <3>3. v \in Seq(Placed)
        BY <3>1, <2>5, ConcatProperties
      <3>4. RulesIn(v) = p \o <<r>>
        BY <3>1, <3>2, <2>5, RulesInConcat
      <3> HIDE DEF v
      <3>5. RulesIn(v \o t) = RulesIn(v) \o RulesIn(t)
        BY <3>3, <2>15, RulesInConcat
      <3> QED
        BY <3>4, <3>5, <2>16 DEF v, one
    <2>20. Deployed(R, r, S) = (p \o <<r>>) \o Without(q, S)
      <3> DEFINE w == Without(q, S)
      <3>1. w \in Seq(Rule)
        <4>1. w \in Seq(Rule \ S)
          BY <2>3, WithoutType
        <4>2. Rule \ S \subseteq Rule
          OBVIOUS
        <4> HIDE DEF w
        <4> QED
          BY <4>1, <4>2, SeqMonotonic
      <3>2. Deployed(R, r, S) = InsertAt(p \o w, Len(p) + 1, r)
        BY <2>3, <1>21 DEF Deployed
      <3> HIDE DEF w
      <3>3. InsertAt(p \o w, Len(p) + 1, r) = (p \o <<r>>) \o w
        BY <3>1, <2>4, InsertBetween
      <3> QED
        BY <3>2, <3>3 DEF w
    <2> HIDE DEF h
    <2>21. Enumerates(h, Positioned(rules, done \union {i}))
      BY <1>3, <2>17, <2>18 DEF Enumerates
    <2> QED
      BY <2>19, <2>20, <2>21
  <1> QED
    BY <1>20, <1>21

\* The items of a bundle in the order of their rules' ids.
InOrder(f, items) ==
  /\ f \in [1..Cardinality(items) -> items]
  /\ \A m, n \in DOMAIN f : m < n => IdOf[f[m].rule] < IdOf[f[n].rule]

\* Items with distinct rules can be put in order, and each is in it.
LEMMA ItemsInOrder ==
  ASSUME NEW items \in SUBSET Item, IsFiniteSet(items),
         \A i, j \in items : i # j => i.rule # j.rule
  PROVE  /\ InOrder(ById(items), items)
         /\ {ById(items)[j] : j \in 1..Cardinality(items)} = items
  <1> DEFINE N == Cardinality(items)
             P == {[at |-> 0, rule |-> i.rule] : i \in items}
             b == [i \in items |-> [at |-> 0, rule |-> i.rule]]
  <1>1. N \in Nat /\ \A i \in items : i.rule \in Rule /\ IdOf[i.rule] \in Nat
    BY FS_CardinalityType, RuleAssumption DEF Item
  <1>2. P \in SUBSET Placed
    BY <1>1 DEF Placed
  <1>3. b \in Bijection(items, P)
    <2>1. b \in [items -> P] /\ \A p \in P : \E i \in items : b[i] = p
      OBVIOUS
    <2>2. ASSUME NEW i \in items, NEW j \in items, b[i] = b[j] PROVE i = j
      <3>1. b[i].rule = i.rule /\ b[j].rule = j.rule
        OBVIOUS
      <3> HIDE DEF b
      <3> QED
        BY <2>2, <3>1
    <2> HIDE DEF b, P
    <2>3. IsInjective(b)
      BY <2>1, <2>2 DEF IsInjective
    <2> QED
      BY <2>1, <2>3 DEF Bijection, Injection, Surjection
  <1>4. \A p \in P : p.at = 0 /\ \E i \in items : i.rule = p.rule
    OBVIOUS
  <1> HIDE DEF P, b
  <1>5. IsFiniteSet(P) /\ Cardinality(P) = N
    <2>1. ExistsBijection(items, P)
      BY <1>3 DEF ExistsBijection
    <2> QED
      BY <2>1, FS_Bijection
  <1>6. PICK g : Enumerates(g, P)
    BY <1>2, <1>5, OrderExists
  <1>7. /\ Len(g) = N /\ DOMAIN g = 1..N /\ P = {g[k] : k \in 1..N}
        /\ \A a, c \in 1..N : a < c => Precedes(g[a], g[c])
    <2>1. Len(g) = N
      BY <1>5, <1>6, OrderCounts
    <2>2. DOMAIN g = 1..Len(g) /\ Range(g) = {g[k] : k \in 1..Len(g)}
      BY <1>6, Elements, RangeEquality DEF Enumerates
    <2> QED
      BY <2>1, <2>2, <1>6 DEF Enumerates, Ordered
  <1> HIDE DEF N
  <1> DEFINE of(k) == CHOOSE i \in items : i.rule = g[k].rule
             f == [k \in 1..N |-> of(k)]
  <1>8. \A k \in 1..N : of(k) \in items /\ of(k).rule = g[k].rule /\ g[k].at = 0
    <2> SUFFICES ASSUME NEW k \in 1..N
                 PROVE  of(k) \in items /\ of(k).rule = g[k].rule /\ g[k].at = 0
      OBVIOUS
    <2>1. g[k] \in P
      BY <1>7
    <2>2. g[k].at = 0 /\ \E i \in items : i.rule = g[k].rule
      BY <2>1, <1>4
    <2> QED
      BY <2>2
  <1> HIDE DEF of
  <1>9. InOrder(f, items)
    <2>1. f \in [1..N -> items]
      BY <1>8
    <2>2. ASSUME NEW m \in 1..N, NEW n \in 1..N, m < n
          PROVE  IdOf[f[m].rule] < IdOf[f[n].rule]
      <3>1. Precedes(g[m], g[n])
        BY <2>2, <1>7
      <3>2. IdOf[g[m].rule] < IdOf[g[n].rule]
        BY <3>1, <1>8 DEF Precedes
      <3>3. f[m].rule = g[m].rule /\ f[n].rule = g[n].rule
        BY <1>8
      <3> QED
        BY <3>2, <3>3
    <2>3. DOMAIN f = 1..N
      OBVIOUS
    <2> HIDE DEF f
    <2> QED
      BY <2>1, <2>2, <2>3 DEF InOrder, N
  <1> DEFINE s == ById(items)
  <1>10. s = CHOOSE h \in [1..Cardinality(items) -> items] :
               \A m, n \in DOMAIN h : m < n => IdOf[h[m].rule] < IdOf[h[n].rule]
    BY DEF ById
  <1> HIDE DEF f, s
  <1>11. InOrder(s, items)
    BY <1>9, <1>10, Zenon DEF InOrder
  <1>12. {s[j] : j \in 1..N} = items
    <2>1. s \in [1..N -> items] /\ DOMAIN s = 1..N
      BY <1>11 DEF InOrder, N
    <2>2. \A m, n \in 1..N : m < n => IdOf[s[m].rule] < IdOf[s[n].rule]
      BY <1>11, <2>1 DEF InOrder
    <2>3. ASSUME NEW m \in 1..N, NEW n \in 1..N, s[m] = s[n] PROVE m = n
      <3>1. IdOf[s[m].rule] \in Nat
        BY <2>1, <1>1
      <3> QED
        BY <3>1, <2>2, <2>3, <1>1
    <2>4. s \in Injection(1..N, items)
      BY <2>1, <2>3 DEF Injection, IsInjective
    <2>5. Cardinality(1..N) = N
      BY <1>1, FS_Interval
    <2>6. s \in Surjection(1..N, items)
      BY <2>4, <2>5, FS_Injection DEF N
    <2> QED
      BY <2>1, <2>6 DEF Surjection
  <1> QED
    BY <1>11, <1>12 DEF s, N

\* Deployments one after another.
Turns(k, rules, f, n) ==
  /\ k[0] = rules
  /\ \A j \in 1..n : k[j] = Deployed(k[j - 1], f[j].rule, f[j].supersedes)

\* The rules left one deployment after another follow their steps.
LEMMA TurnsTaken ==
  ASSUME NEW rules, NEW items, Cardinality(items) \in Nat
  PROVE  \E k : /\ InTurn(rules, items) = k[Cardinality(items)]
                /\ Turns(k, rules, ById(items), Cardinality(items))
  <1> DEFINE N == Cardinality(items)
             f == ById(items)
             D(t, j) == Deployed(t, f[j].rule, f[j].supersedes)
             Next1(k, j) == IF j = 0 THEN rules ELSE D(k[j - 1], j)
             Solves(k, n) == k = [j \in 0..n |-> Next1(k, j)]
             S == {n \in Nat : \E k : Solves(k, n)}
  <1> HIDE DEF D
  <1>1. 0 \in S
    <2> DEFINE k == [j \in 0..0 |-> rules]
    <2>1. Solves(k, 0)
      OBVIOUS
    <2> QED
      BY <2>1
  <1>2. ASSUME NEW n \in Nat, n \in S PROVE n + 1 \in S
    <2>1. PICK k : Solves(k, n)
      BY <1>2
    <2> DEFINE h == [j \in 0..(n + 1) |-> IF j <= n THEN k[j] ELSE D(k[n], n + 1)]
    <2>2. ASSUME NEW j \in 0..(n + 1) PROVE h[j] = Next1(h, j)
      <3>1. CASE j = 0
        <4>1. k[0] = rules
          BY <2>1
        <4> QED
          BY <3>1, <4>1
      <3>2. CASE j \in 1..n
        <4>1. j \in 0..n /\ j # 0 /\ j - 1 \in 0..(n + 1) /\ j - 1 <= n /\ j <= n
          BY <3>2
        <4>2. k[j] = D(k[j - 1], j)
          BY <2>1, <4>1
        <4>3. h[j] = k[j] /\ h[j - 1] = k[j - 1]
          BY <4>1
        <4> HIDE DEF h
        <4> QED
          BY <4>1, <4>2, <4>3
      <3>3. CASE j = n + 1
        <4>1. j # 0 /\ ~(j <= n) /\ j - 1 = n /\ n \in 0..(n + 1) /\ n <= n
          BY <3>3
        <4>2. h[j] = D(k[n], j) /\ h[n] = k[n]
          BY <3>3, <4>1
        <4> HIDE DEF h
        <4> QED
          BY <4>1, <4>2
      <3> QED
        BY <3>1, <3>2, <3>3
    <2>3. h = [j \in 0..(n + 1) |-> h[j]]
      OBVIOUS
    <2> HIDE DEF h, Next1
    <2>4. Solves(h, n + 1)
      BY <2>2, <2>3
    <2> QED
      BY <2>4
  <1>3. N \in S
    <2> HIDE DEF S
    <2>1. Nat \subseteq S
      BY <1>1, <1>2, Induction
    <2> QED
      BY <2>1
  <1> DEFINE s == CHOOSE k : Solves(k, N)
  <1>4. Solves(s, N)
    <2>1. \E k : Solves(k, N)
      BY <1>3
    <2> HIDE DEF Solves
    <2> QED
      BY <2>1, Zenon
  <1>5. InTurn(rules, items) = s[N]
    BY DEF InTurn, D
  <1> HIDE DEF s
  <1>6. \A j \in 0..N : s[j] = Next1(s, j)
    <2> HIDE DEF Next1
    <2> QED
      BY <1>4, Zenon
  <1>7. Turns(s, rules, f, N)
    <2>1. 0 \in 0..N /\ \A j \in 1..N : j \in 0..N /\ j # 0
      OBVIOUS
    <2>2. s[0] = rules
      BY <1>6, <2>1
    <2>3. ASSUME NEW j \in 1..N PROVE s[j] = D(s[j - 1], j)
      BY <1>6, <2>1
    <2> QED
      BY <2>2, <2>3 DEF Turns, D
  <1> QED
    BY <1>5, <1>7

\* Before any item, the rules are at their places.
LEMMA PlacedFirst ==
  ASSUME NEW rules \in Seq(Rule)
  PROVE  \E g : Enumerates(g, Positioned(rules, {})) /\ rules = RulesIn(g)
  <1> DEFINE n == Len(rules)
             g == [p \in 1..n |-> [at |-> p, rule |-> rules[p]]]
  <1>1. n \in Nat /\ DOMAIN rules = 1..n /\ \A p \in 1..n : rules[p] \in Rule
    BY Elements
  <1>2. g \in Seq(Placed) /\ Len(g) = n /\ DOMAIN g = 1..n
    <2>1. g \in [1..n -> Placed]
      BY <1>1 DEF Placed
    <2> HIDE DEF n, g
    <2> QED
      BY <1>1, <2>1
  <1>3. \A p \in 1..n : g[p] = [at |-> p, rule |-> rules[p]] /\ g[p].at = p /\ g[p].rule = rules[p]
    OBVIOUS
  <1> HIDE DEF g
  <1>4. Ordered(g)
    BY <1>1, <1>2, <1>3 DEF Ordered, Precedes
  <1>5. Positioned(rules, {}) = {[at |-> p, rule |-> rules[p]] : p \in 1..n}
    BY <1>1 DEF Positioned, Superseded
  <1>6. Range(g) = {g[p] : p \in 1..n}
    BY <1>2 DEF Range
  <1>7. Range(g) = Positioned(rules, {})
    <2>1. \A p \in 1..n : g[p] = [at |-> p, rule |-> rules[p]]
      BY <1>3
    <2>2. ASSUME NEW p \in 1..n PROVE g[p] \in Positioned(rules, {})
      BY <2>1, <1>5
    <2>3. ASSUME NEW e \in Positioned(rules, {}) PROVE e \in Range(g)
      <3>1. PICK p \in 1..n : e = [at |-> p, rule |-> rules[p]]
        BY <2>3, <1>5
      <3>2. e = g[p]
        BY <2>1, <3>1
      <3> QED
        BY <3>2, <1>6
    <2> QED
      BY <2>2, <2>3, <1>6
  <1>8. RulesIn(g) = rules
    <2> DEFINE r == RulesIn(g)
    <2>1. r \in Seq(Rule) /\ Len(r) = n /\ \A p \in 1..n : r[p] = g[p].rule
      BY <1>2, RulesInType
    <2> HIDE DEF r
    <2>2. \A p \in 1..n : r[p] = rules[p]
      BY <2>1, <1>3
    <2>3. r = rules
      BY <2>1, <2>2, SeqEqual
    <2> QED
      BY <2>3 DEF r
  <1> QED
    BY <1>2, <1>4, <1>7, <1>8 DEF Enumerates

\* A bundle of new rules leaves what its items would leave one at a time.
LEMMA FreshBundles ==
  ASSUME NEW rules, NEW items, Fresh(rules, items), IsFiniteSet(items),
         \A i, j \in items : i # j => i.rule # j.rule
  PROVE  Combined(rules, items) = InTurn(rules, items)
  <1> DEFINE N == Cardinality(items)
             f == ById(items)
             First(n) == {f[j] : j \in 1..n}
             Holds(k, n) == \E g : Enumerates(g, Positioned(rules, First(n))) /\ k[n] = RulesIn(g)
  <1>1. N \in Nat /\ rules \in Seq(Rule) /\ items \in SUBSET Item
    BY FS_CardinalityType DEF Fresh
  <1>2. InOrder(f, items) /\ {f[j] : j \in 1..N} = items
    BY <1>1, ItemsInOrder
  <1>3. PICK k : InTurn(rules, items) = k[N] /\ Turns(k, rules, f, N)
    BY <1>1, TurnsTaken
  <1> HIDE DEF f, N
  <1>4. /\ DOMAIN f = 1..N /\ \A j \in 1..N : f[j] \in items
        /\ \A m, n \in 1..N : m < n => IdOf[f[m].rule] < IdOf[f[n].rule]
    BY <1>2 DEF InOrder, N
  <1> DEFINE S == {n \in Nat : n <= N => Holds(k, n)}
  <1>5. 0 \in S
    <2>1. First(0) = {}
      OBVIOUS
    <2>2. k[0] = rules
      BY <1>3 DEF Turns
    <2>3. \E g : Enumerates(g, Positioned(rules, {})) /\ rules = RulesIn(g)
      BY <1>1, PlacedFirst
    <2> HIDE DEF First
    <2>4. Holds(k, 0)
      BY <2>1, <2>2, <2>3
    <2> HIDE DEF Holds
    <2> QED
      BY <2>4
  <1>6. ASSUME NEW n \in Nat, n \in S PROVE n + 1 \in S
    <2> SUFFICES ASSUME n + 1 <= N PROVE Holds(k, n + 1)
      <3> HIDE DEF Holds
      <3> QED
        OBVIOUS
    <2> DEFINE done == First(n)
               i == f[n + 1]
    <2>1. n + 1 \in 1..N /\ n <= N /\ (n + 1) - 1 = n /\ \A j \in 1..n : j \in 1..N /\ j < n + 1
      BY <1>1
    <2>10. k[n + 1] = Deployed(k[(n + 1) - 1], f[n + 1].rule, f[n + 1].supersedes)
      BY <1>3, <2>1, Zenon DEF Turns
    <2>2. PICK g : Enumerates(g, Positioned(rules, done)) /\ k[n] = RulesIn(g)
      BY <1>6, <2>1
    <2>3. k[n + 1] = Deployed(k[n], i.rule, i.supersedes)
      BY <2>1, <2>10
    <2>4. done \in SUBSET items /\ i \in items /\ \A j \in done : IdOf[j.rule] < IdOf[i.rule]
      BY <1>4, <2>1
    <2>5. i \notin done
      <3>1. IdOf[i.rule] \in Nat
        BY <1>1, <2>4, RuleAssumption DEF Item
      <3> HIDE DEF i, done
      <3> QED
        BY <2>4, <3>1
    <2>6. First(n + 1) = done \union {i}
      <3>1. \A j \in 1..(n + 1) : j \in 1..n \/ j = n + 1
        OBVIOUS
      <3>2. \A j \in 1..n : j \in 1..(n + 1)
        OBVIOUS
      <3>3. n + 1 \in 1..(n + 1)
        OBVIOUS
      <3> QED
        BY <3>1, <3>2, <3>3
    <2> HIDE DEF i, done
    <2>7. PICK h : /\ Enumerates(h, Positioned(rules, done \union {i}))
                   /\ Deployed(RulesIn(g), i.rule, i.supersedes) = RulesIn(h)
      <3>1. i \in items \ done
        BY <2>4, <2>5
      <3> QED
        BY <2>2, <2>4, <3>1, DeployNext
    <2> HIDE DEF First
    <2>8. Enumerates(h, Positioned(rules, First(n + 1))) /\ k[n + 1] = RulesIn(h)
      BY <2>2, <2>3, <2>6, <2>7
    <2> QED
      BY <2>8
  <1>7. Holds(k, N)
    <2>1. Nat \subseteq S
      <3> HIDE DEF S
      <3> QED
        BY <1>5, <1>6, Induction
    <2>2. N \in S
      <3> HIDE DEF S
      <3> QED
        BY <1>1, <2>1
    <2>3. N <= N
      BY <1>1
    <2> QED
      BY <2>2, <2>3
  <1>8. First(N) = items
    BY <1>2
  <1> HIDE DEF First
  <1>9. PICK g : Enumerates(g, Positioned(rules, items)) /\ k[N] = RulesIn(g)
    BY <1>7, <1>8
  <1>10. Combined(rules, items) = RulesIn(g)
    BY <1>9, CombinedIsOrdered
  <1> QED
    BY <1>3, <1>9, <1>10

\* A reviewed bundle says what it does.
LEMMA ReviewedBundles == DocumentInvariant => BundleIsSequence
  <1> SUFFICES ASSUME DocumentInvariant, review # None, review.kind = "bundle",
                      review.after # Refused
               PROVE  BundleIsSequence
    BY DEF BundleIsSequence
  <1>1. BundleReview(review)
    <2>1. RuleReview(review) \/ BundleReview(review)
      BY DEF DocumentInvariant, ReviewOK
    <2>2. RuleReview(review) => review.kind = "rule"
      BY DEF RuleReview
    <2> QED
      BY <2>1, <2>2
  <1> DEFINE d == review.before
             items == review.items
             after == review.after
  <1>2. /\ d \in Seq(Token0) /\ items \in SUBSET Item /\ IsFiniteSet(items)
        /\ after = PlanBundle(d, items) /\ PlanBundle(d, items) # Refused
    <2>1. PICK d0 \in Seq(Token0), items0 \in SUBSET Item :
            \E after0 \in {Refused, PlanBundle(d0, items0)} :
              /\ IsFiniteSet(items0) /\ PlanBundle(d0, items0) # Refused
              /\ review = [kind |-> "bundle", items |-> items0, before |-> d0, after |-> after0,
                           tokens |-> {Token(i, d0) : i \in items0}]
      BY <1>1, Zenon DEF BundleReview
    <2>2. /\ d = d0 /\ items = items0 /\ after \in {Refused, PlanBundle(d0, items0)}
          /\ IsFiniteSet(items0) /\ PlanBundle(d0, items0) # Refused
      BY <2>1
    <2> QED
      BY <2>2
  <1> DEFINE rules == RulesOf(d)
  <1>3. after # Refused
    OBVIOUS
  <1>4. review.kind = "bundle" /\ review # None
    OBVIOUS
  <1> HIDE DEF d, items, after
  <1>5. Valid(d) /\ Combinable(rules, items) /\ Planned(d, Combined(rules, items), after)
    BY <1>2, BundleHolds
  <1>6. RulesOf(after) = Combined(rules, items)
    BY <1>5 DEF Planned
  <1>7. rules \in Seq(Rule) /\ IsInjective(rules)
    BY <1>2, <1>5, RulesRead
  <1> HIDE DEF rules
  <1>8. /\ \A i, j \in items :
             i # j => i.rule # j.rule /\ i.supersedes \intersect j.supersedes = {}
        /\ \A i \in items : i.supersedes \subseteq Range(rules)
    BY <1>5 DEF Combinable
  <1>9. Range(RulesOf(after)) = (Range(rules) \ Superseded(items)) \union {i.rule : i \in items}
    BY <1>2, <1>6, <1>7, <1>8, CombinedRange
  <1>10. ASSUME {i.rule : i \in items} \intersect Range(rules) = {}
         PROVE  RulesOf(after) = InTurn(rules, items)
    <2>1. Fresh(rules, items)
      BY <1>2, <1>7, <1>8, <1>10 DEF Fresh
    <2> QED
      BY <1>2, <1>6, <1>8, <2>1, FreshBundles
  <1> QED
    BY <1>8, <1>9, <1>10 DEF BundleIsSequence, rules, d, items, after

\* A bundle of new rules leaves the document its items would leave one at a time, and every
\* bundle drops exactly the superseded rules and adds exactly its own.
THEOREM BundlesEqualTheirItemsInTurn == Spec => []BundleIsSequence
  <1>1. Spec => []DocumentInvariant
    BY InitInvariant, StepInvariant, PTL DEF Spec
  <1> QED
    BY <1>1, ReviewedBundles, PTL

=============================================================================
