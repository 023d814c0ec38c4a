------------------------------ MODULE TextProofs ------------------------------
(***************************************************************************)
(* Proofs about texts and tables of them (ClientLibrary):                  *)
(*   - Strategy grants what it should, for all services, words and actions *)
(*     (ScopeStrategy);                                                    *)
(*   - the clients of a configuration call one instance, for all URLs      *)
(*     (Configuration);                                                    *)
(*   - the registry of roles agrees with itself (Roles);                   *)
(*   - every method can be granted, and metadata has one namespace         *)
(*     (AllowedScopes).                                                    *)
(*                                                                         *)
(* What the code computes in a loop is a recursive function.  What is      *)
(* proved of one by induction is proved with BoundedInduction, of the set  *)
(* of numbers for which it is true.  The lemmas about loops (GroupCollects,*)
(* AppendAdds) are for every table; only what follows from them is about   *)
(* the tables of the code.                                                 *)
(***************************************************************************)
EXTENDS ClientLibrary, SequenceTheorems, WellFoundedInduction, TLAPS

-----------------------------------------------------------------------------
(* Induction and recursion up to a number *)

LEMMA BoundedInduction ==
    ASSUME NEW N \in Nat, NEW T, 0 \in T, \A n \in 1..N : n - 1 \in T => n \in T
    PROVE  0..N \subseteq T
<1> DEFINE Bad == {n \in Nat : n \in 0..N /\ n \notin T}
           Less == OpToRel(<, Nat)
<1>1. SUFFICES ASSUME Bad # {} PROVE FALSE
  OBVIOUS
<1>2. IsWellFoundedOn(Less, Nat)
  BY NatLessThanWellFounded
<1>3. PICK least \in Bad : \A n \in Bad : <<n, least>> \notin Less
  <2> HIDE DEF Less
  <2> QED
    BY <1>1, <1>2, WFMin
<1>4. least # 0 /\ least \in 1..N /\ least - 1 \in Nat
  OBVIOUS
<1>5. <<least - 1, least>> \in Less
  BY <1>4 DEF OpToRel
<1> HIDE DEF Less
<1>6. least - 1 \in T
  BY <1>3, <1>4, <1>5
<1> QED
  BY <1>4, <1>6

(* Values that each follow from the one before. *)
Unfolds(f, N, first, next) == f[0] = first /\ \A n \in 1..N : f[n] = next[n][f[n - 1]]

LEMMA Recursion ==
    ASSUME NEW N \in Nat, NEW V, NEW first \in V, NEW next \in [1..N -> [V -> V]]
    PROVE  \E f \in [0..N -> V] : Unfolds(f, N, first, next)
<1> DEFINE Upto(n, f) == \A i \in 0..n : f[i] = IF i = 0 THEN first ELSE next[i][f[i - 1]]
           T == {n \in 0..N : \E f \in [0..n -> V] : Upto(n, f)}
<1>1. 0 \in T
  <2> DEFINE f == [i \in 0..0 |-> first]
  <2>1. f \in [0..0 -> V] /\ Upto(0, f)
    OBVIOUS
  <2> HIDE DEF f, Upto
  <2> QED
    BY <2>1
<1>2. ASSUME NEW n \in 1..N, n - 1 \in T PROVE n \in T
  <2>1. PICK f \in [0..(n - 1) -> V] : Upto(n - 1, f)
    BY <1>2
  <2> DEFINE g == [i \in 0..n |-> IF i = n THEN next[n][f[n - 1]] ELSE f[i]]
  <2>2. f[n - 1] \in V /\ next[n][f[n - 1]] \in V
    OBVIOUS
  <2>3. g \in [0..n -> V]
    BY <2>2
  <2>4. Upto(n, g)
    <3> SUFFICES ASSUME NEW i \in 0..n
                 PROVE  g[i] = IF i = 0 THEN first ELSE next[i][g[i - 1]]
      OBVIOUS
    <3>1. CASE i = n
      BY <3>1
    <3>2. CASE i # n
      <4>1. i \in 0..(n - 1) /\ (i # 0 => i - 1 \in 0..(n - 1) /\ i - 1 # n)
        BY <3>2
      <4> QED
        BY <2>1, <4>1
    <3> QED
      BY <3>1, <3>2
  <2> HIDE DEF g, Upto
  <2> QED
    BY <2>3, <2>4
<1>3. 0..N \subseteq T
  <2> HIDE DEF T
  <2> QED
    BY <1>1, <1>2, BoundedInduction
<1>4. PICK f \in [0..N -> V] : Upto(N, f)
  BY <1>3
<1> QED
  BY <1>4 DEF Unfolds

-----------------------------------------------------------------------------
(* both is x and y, one after the other. *)
Joins(both, x, y) ==
    /\ Len(both) = Len(x) + Len(y)
    /\ \A i \in 1..Len(x) : both[i] = x[i]
    /\ \A i \in 1..Len(y) : both[Len(x) + i] = y[i]

LEMMA ConcatJoins ==
    ASSUME NEW S, NEW x \in Seq(S), NEW y \in Seq(S)
    PROVE  x \o y \in Seq(S) /\ Joins(x \o y, x, y)
  BY DEF Joins

-----------------------------------------------------------------------------
(* The length of a text *)

LEMMA LengthUpTo ==
    ASSUME NEW text \in Seq(Symbols)
    PROVE  \E f \in [0..Len(text) -> Nat] :
               /\ f[0] = 0
               /\ \A n \in 1..Len(text) : f[n] = f[n - 1] + Len(text[n])
               /\ Length(text) = f[Len(text)]
<1> DEFINE N == Len(text)
           next == [n \in 1..N |-> [v \in Nat |-> v + Len(text[n])]]
           upTo[n \in 0..N] == IF n = 0 THEN 0 ELSE upTo[n - 1] + Len(text[n])
<1>1. N \in Nat /\ \A n \in 1..N : Len(text[n]) \in Nat
  BY DEF Symbols
<1>2. Length(text) = upTo[N]
  BY DEF Length
<1> HIDE DEF N
<1>3. next \in [1..N -> [Nat -> Nat]] /\ 0 \in Nat
  BY <1>1
<1>4. \A n \in 1..N, v \in Nat : next[n][v] = v + Len(text[n])
  OBVIOUS
<1> HIDE DEF next
<1>5. PICK f \in [0..N -> Nat] : f[0] = 0 /\ \A n \in 1..N : f[n] = next[n][f[n - 1]]
  <2>1. \E f \in [0..N -> Nat] : Unfolds(f, N, 0, next)
    BY <1>1, <1>3, Recursion, Zenon
  <2> QED
    BY <2>1 DEF Unfolds
<1>6. \A n \in 0..N : f[n] = IF n = 0 THEN 0 ELSE f[n - 1] + Len(text[n])
  <2>1. \A n \in 1..N : f[n - 1] \in Nat
    BY <1>1
  <2>2. \A n \in 1..N : f[n] = f[n - 1] + Len(text[n])
    BY <1>4, <1>5, <2>1
  <2> QED
    BY <1>1, <1>5, <2>2
<1>7. f = [n \in 0..N |-> IF n = 0 THEN 0 ELSE f[n - 1] + Len(text[n])]
  BY <1>6
<1>8. upTo = [n \in 0..N |-> IF n = 0 THEN 0 ELSE upTo[n - 1] + Len(text[n])]
  BY <1>7
<1> HIDE DEF upTo
<1>9. upTo[0] = 0 /\ \A n \in 1..N : upTo[n] = upTo[n - 1] + Len(text[n])
  BY <1>1, <1>8
<1>10. \A n \in 0..N : upTo[n] \in Nat
  <2> DEFINE T == {n \in 0..N : upTo[n] \in Nat}
  <2>1. 0 \in T
    BY <1>1, <1>9
  <2>2. ASSUME NEW n \in 1..N, n - 1 \in T PROVE n \in T
    <3>1. upTo[n] = upTo[n - 1] + Len(text[n])
      BY <1>9
    <3> QED
      BY <1>1, <2>2, <3>1
  <2>3. 0..N \subseteq T
    <3> HIDE DEF T
    <3> QED
      BY <1>1, <2>1, <2>2, BoundedInduction
  <2> QED
    BY <2>3
<1>11. upTo \in [0..N -> Nat]
  BY <1>8, <1>10
<1> QED
  BY <1>2, <1>9, <1>11 DEF N

(* Texts one after the other are as long as both. *)
LEMMA LengthOfConcat ==
    ASSUME NEW x \in Seq(Symbols), NEW y \in Seq(Symbols)
    PROVE  /\ Length(x) \in Nat /\ Length(y) \in Nat
           /\ Length(x \o y) = Length(x) + Length(y)
<1> DEFINE M == Len(x)
           N == Len(y)
<1>0. M \in Nat /\ N \in Nat
  OBVIOUS
<1>1. /\ x \o y \in Seq(Symbols) /\ Len(x \o y) = M + N
      /\ \A i \in 1..M : (x \o y)[i] = x[i]
      /\ \A i \in 1..N : (x \o y)[M + i] = y[i]
  OBVIOUS
<1>2. PICK f \in [0..M -> Nat] :
          /\ f[0] = 0 /\ \A n \in 1..M : f[n] = f[n - 1] + Len(x[n])
          /\ Length(x) = f[M]
  BY LengthUpTo
<1>3. PICK g \in [0..N -> Nat] :
          /\ g[0] = 0 /\ \A n \in 1..N : g[n] = g[n - 1] + Len(y[n])
          /\ Length(y) = g[N]
  BY LengthUpTo
<1>4. PICK h \in [0..(M + N) -> Nat] :
          /\ h[0] = 0 /\ \A n \in 1..(M + N) : h[n] = h[n - 1] + Len((x \o y)[n])
          /\ Length(x \o y) = h[M + N]
  BY <1>1, LengthUpTo
<1>5. \A n \in 1..N : Len(y[n]) \in Nat
  BY DEF Symbols
<1>6. Len(x) = M /\ Len(y) = N
  OBVIOUS
<1> HIDE DEF M, N
<1>7. h[M] = f[M]
  <2> DEFINE T == {n \in 0..M : h[n] = f[n]}
  <2>1. 0 \in T
    BY <1>0, <1>2, <1>4
  <2>2. ASSUME NEW n \in 1..M, n - 1 \in T PROVE n \in T
    <3>0. n \in 1..(M + N)
      BY <1>0
    <3>1. h[n] = h[n - 1] + Len((x \o y)[n])
      BY <1>4, <3>0
    <3>2. f[n] = f[n - 1] + Len(x[n]) /\ h[n - 1] = f[n - 1] /\ (x \o y)[n] = x[n]
      BY <1>1, <1>2, <2>2
    <3> QED
      BY <3>1, <3>2
  <2>3. 0..M \subseteq T
    <3> HIDE DEF T
    <3> QED
      BY <1>0, <2>1, <2>2, BoundedInduction
  <2> QED
    BY <1>0, <2>3
<1>8. h[M + N] = f[M] + g[N]
  <2> DEFINE T == {n \in 0..N : h[M + n] = f[M] + g[n]}
  <2>1. 0 \in T
    BY <1>0, <1>2, <1>3, <1>7
  <2>2. ASSUME NEW n \in 1..N, n - 1 \in T PROVE n \in T
    <3>1. M + n \in 1..(M + N) /\ (M + n) - 1 = M + (n - 1)
      BY <1>0
    <3>4. h[M + n] = h[M + (n - 1)] + Len((x \o y)[M + n])
      BY <1>4, <3>1
    <3>2. h[M + (n - 1)] = f[M] + g[n - 1] /\ (x \o y)[M + n] = y[n]
      BY <1>0, <1>1, <2>2
    <3>3. g[n] = g[n - 1] + Len(y[n]) /\ g[n - 1] \in Nat /\ f[M] \in Nat /\ Len(y[n]) \in Nat
      BY <1>0, <1>2, <1>3, <1>5
    <3> QED
      BY <3>2, <3>3, <3>4
  <2>3. 0..N \subseteq T
    <3> HIDE DEF T
    <3> QED
      BY <1>0, <2>1, <2>2, BoundedInduction
  <2> QED
    BY <1>0, <2>3
<1>9. f[M] \in Nat /\ g[N] \in Nat
  BY <1>0
<1> QED
  BY <1>2, <1>3, <1>4, <1>8, <1>9

-----------------------------------------------------------------------------
(* Prefixes *)

LEMMA PrefixPointwise ==
    ASSUME NEW S, NEW x \in Seq(S), NEW y \in Seq(S)
    PROVE  IsPrefix(x, y) <=> Len(x) <= Len(y) /\ \A i \in 1..Len(x) : x[i] = y[i]
<1> DEFINE xs == SubSeq(x, 1, Len(x))
           ys == SubSeq(y, 1, Len(x))
<1>1. Len(x) \in Nat /\ Len(y) \in Nat
  OBVIOUS
<1>2. xs = x
  BY SubSeqFull
<1>3. ASSUME Len(x) <= Len(y)
      PROVE  ys \in Seq(S) /\ Len(ys) = Len(x) /\ \A i \in 1..Len(x) : ys[i] = y[i]
  BY <1>1, <1>3, SubSeqProperties
<1>4. ASSUME Len(x) <= Len(y), \A i \in 1..Len(x) : x[i] = y[i] PROVE ys = x
  <2> HIDE DEF ys
  <2>1. ys \in Seq(S) /\ Len(ys) = Len(x) /\ \A i \in 1..Len(x) : ys[i] = x[i]
    BY <1>3, <1>4
  <2> QED
    BY <2>1, SeqEqual
<1> HIDE DEF xs, ys
<1>5. IsPrefix(x, y) <=> Len(x) <= Len(y) /\ xs = ys
  BY DEF IsPrefix, xs, ys
<1> QED
  BY <1>2, <1>3, <1>4, <1>5

LEMMA PrefixOrder ==
    ASSUME NEW S, NEW x \in Seq(S), NEW y \in Seq(S), NEW z \in Seq(S)
    PROVE  /\ IsPrefix(x, x)
           /\ IsPrefix(x, y) /\ IsPrefix(y, z) => IsPrefix(x, z)
           /\ IsPrefix(x, y) /\ IsPrefix(y, x) => x = y
           /\ IsPrefix(x, y) /\ Len(x) = Len(y) => x = y
<1>1. Len(x) \in Nat /\ Len(y) \in Nat /\ Len(z) \in Nat
  OBVIOUS
<1>2. IsPrefix(x, x)
  BY <1>1, PrefixPointwise
<1>3. ASSUME IsPrefix(x, y), IsPrefix(y, z) PROVE IsPrefix(x, z)
  <2>1. Len(x) <= Len(y) /\ \A i \in 1..Len(x) : x[i] = y[i]
    BY <1>3, PrefixPointwise
  <2>2. Len(y) <= Len(z) /\ \A i \in 1..Len(y) : y[i] = z[i]
    BY <1>3, PrefixPointwise
  <2>3. Len(x) <= Len(z) /\ \A i \in 1..Len(x) : x[i] = z[i]
    BY <1>1, <2>1, <2>2
  <2> QED
    BY <2>3, PrefixPointwise
<1>4. ASSUME IsPrefix(x, y), Len(x) = Len(y) PROVE x = y
  <2>1. \A i \in 1..Len(x) : x[i] = y[i]
    BY <1>4, PrefixPointwise
  <2> QED
    BY <1>4, <2>1, SeqEqual
<1>5. ASSUME IsPrefix(x, y), IsPrefix(y, x) PROVE Len(x) = Len(y)
  BY <1>1, <1>5, PrefixPointwise
<1> QED
  BY <1>2, <1>3, <1>4, <1>5

LEMMA PrefixOfConcat ==
    ASSUME NEW S, NEW x \in Seq(S), NEW y \in Seq(S)
    PROVE  x \o y \in Seq(S) /\ IsPrefix(x, x \o y)
<1>1. /\ x \o y \in Seq(S) /\ Len(x) <= Len(x \o y)
      /\ \A i \in 1..Len(x) : x[i] = (x \o y)[i]
  BY ConcatProperties
<1> QED
  BY <1>1, PrefixPointwise

(* What a prefix leaves. *)
LEMMA PrefixRest ==
    ASSUME NEW S, NEW x \in Seq(S), NEW y \in Seq(S), IsPrefix(x, y)
    PROVE  \E rest \in Seq(S) : y = x \o rest
<1> DEFINE rest == SubSeq(y, Len(x) + 1, Len(y))
<1>1. Len(x) \in Nat /\ Len(y) \in Nat /\ Len(x) <= Len(y) /\ \A i \in 1..Len(x) : x[i] = y[i]
  BY PrefixPointwise
<1>2. /\ rest \in Seq(S) /\ Len(rest) = Len(y) - Len(x)
      /\ \A i \in 1..(Len(y) - Len(x)) : rest[i] = y[Len(x) + i]
  <2>1. \A i \in (Len(x) + 1)..Len(y) : y[i] \in S
    BY <1>1
  <2> QED
    BY <1>1, <2>1, SubSeqProperties
<1> HIDE DEF rest
<1>3. /\ x \o rest \in Seq(S) /\ Len(x \o rest) = Len(y)
      /\ \A i \in 1..Len(y) : (x \o rest)[i] = IF i <= Len(x) THEN x[i] ELSE rest[i - Len(x)]
  BY <1>1, <1>2, ConcatProperties
<1> DEFINE L == Len(x)
           M == Len(y)
           both == x \o rest
<1>4. \A i \in 1..M : both[i] = y[i]
  <2>1. /\ L \in Nat /\ M \in Nat /\ L <= M /\ \A i \in 1..L : x[i] = y[i]
        /\ \A i \in 1..(M - L) : rest[i] = y[L + i]
        /\ \A i \in 1..M : both[i] = IF i <= L THEN x[i] ELSE rest[i - L]
    BY <1>1, <1>2, <1>3
  <2> HIDE DEF L, M, both
  <2>2. ASSUME NEW i \in 1..M, i <= L PROVE both[i] = y[i]
    BY <2>1, <2>2
  <2>3. ASSUME NEW i \in 1..M, ~(i <= L) PROVE both[i] = y[i]
    <3>1. i - L \in 1..(M - L) /\ L + (i - L) = i
      BY <2>1, <2>3
    <3>2. both[i] = rest[i - L] /\ rest[i - L] = y[L + (i - L)]
      BY <2>1, <2>3, <3>1
    <3> QED
      BY <3>1, <3>2
  <2> QED
    BY <2>2, <2>3
<1>5. x \o rest = y
  BY <1>3, <1>4, SeqEqual
<1> QED
  BY <1>2, <1>5

-----------------------------------------------------------------------------
(* The text of a permission *)

Dot == <<".">>

(* The text goes on with a word and the dot after it. *)
WithWord(text, word) == (text \o word) \o Dot

LEMMA WithWordText ==
    ASSUME "." \in Symbols, NEW text \in Seq(Symbols), NEW word \in Seq(Symbols)
    PROVE  /\ WithWord(text, word) \in Seq(Symbols)
           /\ IsPrefix(text, WithWord(text, word))
           /\ Len(WithWord(text, word)) = Len(text) + Len(word) + 1
           /\ \A i \in 1..Len(word) : WithWord(text, word)[Len(text) + i] = word[i]
           /\ WithWord(text, word)[Len(text) + Len(word) + 1] = "."
<1> DEFINE M == Len(text)
           N == Len(word)
           half == text \o word
<1>1. M \in Nat /\ N \in Nat
  OBVIOUS
<1>2. Dot \in Seq(Symbols) /\ Len(Dot) = 1 /\ Dot[1] = "."
  BY DEF Dot
<1>3. /\ half \in Seq(Symbols) /\ Len(half) = M + N /\ IsPrefix(text, half)
      /\ \A i \in 1..N : half[M + i] = word[i]
  BY PrefixOfConcat
<1> HIDE DEF half, Dot
<1>4. /\ half \o Dot \in Seq(Symbols) /\ IsPrefix(half, half \o Dot)
      /\ Len(half \o Dot) = Len(half) + 1
      /\ \A i \in 1..Len(half) : (half \o Dot)[i] = half[i]
      /\ (half \o Dot)[Len(half) + 1] = "."
  <2>1. half \o Dot \in Seq(Symbols) /\ IsPrefix(half, half \o Dot)
    BY <1>2, <1>3, PrefixOfConcat
  <2>2. Joins(half \o Dot, half, Dot)
    BY <1>2, <1>3, ConcatJoins
  <2>3. 1 \in 1..Len(Dot)
    BY <1>2
  <2> QED
    BY <1>2, <2>1, <2>2, <2>3 DEF Joins
<1>5. IsPrefix(text, half \o Dot)
  BY <1>3, <1>4, PrefixOrder
<1>6. \A i \in 1..N : M + i \in 1..Len(half)
  BY <1>1, <1>3
<1>7. WithWord(text, word) = half \o Dot
  BY DEF WithWord, half
<1> HIDE DEF M, N
<1>8. Len(half \o Dot) = M + N + 1 /\ (half \o Dot)[M + N + 1] = "."
  BY <1>3, <1>4
<1>9. \A i \in 1..N : (half \o Dot)[M + i] = word[i]
  BY <1>3, <1>4, <1>6
<1> QED
  BY <1>4, <1>5, <1>7, <1>8, <1>9 DEF M, N

(* f[n]: the first n words of a path, a dot after each. *)
DotsWords(f, path) ==
    /\ f \in [0..Len(path) -> Seq(Symbols)]
    /\ f[0] = <<>>
    /\ \A n \in 1..Len(path) : f[n] = WithWord(f[n - 1], path[n])

LEMMA DottedUpTo ==
    ASSUME NEW path \in Seq(Seq(Symbols)), "." \in Symbols
    PROVE  \E f : DotsWords(f, path) /\ Dotted(path) = f[Len(path)]
<1> DEFINE N == Len(path)
           V == Seq(Symbols)
           next == [n \in 1..N |-> [v \in V |-> WithWord(v, path[n])]]
           upTo[n \in 0..N] == IF n = 0 THEN <<>> ELSE WithWord(upTo[n - 1], path[n])
           none == <<>>
<1>1. N \in Nat /\ none \in V /\ \A n \in 1..N : path[n] \in V
  OBVIOUS
<1>2. Dotted(path) = upTo[N]
  BY DEF Dotted, WithWord, Dot
<1>3. \A v \in V, n \in 1..N : WithWord(v, path[n]) \in V
  BY <1>1, WithWordText
<1> HIDE DEF N, V, none
<1>4. next \in [1..N -> [V -> V]]
  BY <1>3
<1>5. \A n \in 1..N, v \in V : next[n][v] = WithWord(v, path[n])
  OBVIOUS
<1> HIDE DEF next
<1>6. PICK f \in [0..N -> V] : f[0] = none /\ \A n \in 1..N : f[n] = next[n][f[n - 1]]
  <2>1. \E f \in [0..N -> V] : Unfolds(f, N, none, next)
    BY <1>1, <1>4, Recursion, Zenon
  <2> QED
    BY <2>1 DEF Unfolds
<1>7. \A n \in 0..N : f[n] = IF n = 0 THEN none ELSE WithWord(f[n - 1], path[n])
  <2>1. \A n \in 1..N : f[n - 1] \in V
    BY <1>1
  <2>2. \A n \in 1..N : f[n] = WithWord(f[n - 1], path[n])
    BY <1>5, <1>6, <2>1
  <2> QED
    BY <1>1, <1>6, <2>2
<1>8. f = [n \in 0..N |-> IF n = 0 THEN none ELSE WithWord(f[n - 1], path[n])]
  BY <1>7
<1>9. upTo = [n \in 0..N |-> IF n = 0 THEN none ELSE WithWord(upTo[n - 1], path[n])]
  BY <1>8 DEF none
<1> HIDE DEF upTo
<1>10. upTo[0] = none /\ \A n \in 1..N : upTo[n] = WithWord(upTo[n - 1], path[n])
  BY <1>1, <1>9
<1>11. \A n \in 0..N : upTo[n] \in V
  <2> DEFINE T == {n \in 0..N : upTo[n] \in V}
  <2>1. 0 \in T
    BY <1>1, <1>10
  <2>2. ASSUME NEW n \in 1..N, n - 1 \in T PROVE n \in T
    BY <1>1, <1>3, <1>10, <2>2
  <2>3. 0..N \subseteq T
    <3> HIDE DEF T
    <3> QED
      BY <1>1, <2>1, <2>2, BoundedInduction
  <2> QED
    BY <2>3
<1>12. upTo \in [0..N -> V]
  BY <1>9, <1>11
<1>13. DotsWords(upTo, path)
  BY <1>10, <1>12 DEF DotsWords, N, V, none
<1> QED
  BY <1>2, <1>13 DEF N

(* What comes later continues what came before. *)
LEMMA DotsContinue ==
    ASSUME NEW path \in Seq(Seq(Symbols)), "." \in Symbols, NEW f, DotsWords(f, path),
           NEW n \in 0..Len(path), NEW m \in n..Len(path)
    PROVE  IsPrefix(f[n], f[m])
<1> DEFINE N == Len(path)
           V == Seq(Symbols)
           T == {i \in 0..N : i < n \/ IsPrefix(f[n], f[i])}
<1>1. N \in Nat /\ n \in 0..N /\ m \in 0..N /\ \A i \in 1..N : path[i] \in V
  OBVIOUS
<1>2. \A i \in 0..N : f[i] \in V
  BY DEF DotsWords
<1>3. ASSUME NEW i \in 1..N PROVE IsPrefix(f[i - 1], f[i])
  <2>1. f[i - 1] \in V /\ path[i] \in V /\ f[i] = WithWord(f[i - 1], path[i])
    BY <1>1, <1>2 DEF DotsWords
  <2> QED
    BY <2>1, WithWordText
<1> HIDE DEF N
<1>4. IsPrefix(f[n], f[n])
  BY <1>1, <1>2, PrefixOrder
<1>5. 0 \in T
  BY <1>1, <1>4
<1>6. ASSUME NEW i \in 1..N, i - 1 \in T PROVE i \in T
  <2>1. CASE i <= n
    BY <1>1, <1>4, <2>1
  <2>2. CASE i > n
    <3>1. IsPrefix(f[n], f[i - 1]) /\ IsPrefix(f[i - 1], f[i])
      BY <1>1, <1>3, <1>6, <2>2
    <3>2. i - 1 \in 0..N /\ i \in 0..N
      BY <1>1
    <3>3. IsPrefix(f[n], f[i])
      BY <1>1, <1>2, <3>1, <3>2, PrefixOrder
    <3> QED
      BY <3>2, <3>3
  <2> QED
    BY <1>1, <2>1, <2>2
<1>7. 0..N \subseteq T
  <2> HIDE DEF T
  <2> QED
    BY <1>1, <1>5, <1>6, BoundedInduction
<1> QED
  BY <1>1, <1>7

Undotted(word) == \A i \in 1..Len(word) : word[i] # "."

(* What text says from symbol a on: a word, and a dot. *)
Reads(text, a, word) ==
    /\ \A i \in 1..Len(word) : text[a + i] = word[i]
    /\ text[a + Len(word) + 1] = "."

LEMMA WordIsRead ==
    ASSUME "." \in Symbols, NEW prior \in Seq(Symbols), NEW word \in Seq(Symbols),
           NEW text \in Seq(Symbols), IsPrefix(WithWord(prior, word), text)
    PROVE  Reads(text, Len(prior), word) /\ Len(prior) < Len(text)
<1> DEFINE M == Len(prior)
           N == Len(word)
           begin == WithWord(prior, word)
<1>1. M \in Nat /\ N \in Nat /\ Len(text) \in Nat
  OBVIOUS
<1>2. /\ begin \in Seq(Symbols) /\ Len(begin) = M + N + 1
      /\ \A i \in 1..N : begin[M + i] = word[i]
      /\ begin[M + N + 1] = "."
  BY WithWordText
<1>3. begin \in Seq(Symbols) /\ text \in Seq(Symbols) /\ IsPrefix(begin, text)
  BY <1>2
<1> HIDE DEF begin
<1>4. Len(begin) <= Len(text) /\ \A i \in 1..Len(begin) : begin[i] = text[i]
  BY ONLY <1>3, PrefixPointwise
<1>5. M + N + 1 <= Len(text) /\ \A i \in 1..(M + N + 1) : begin[i] = text[i]
  BY <1>2, <1>4
<1>6. \A i \in 1..N : M + i \in 1..(M + N + 1)
  BY <1>1
<1>7. M + N + 1 \in 1..(M + N + 1)
  BY <1>1
<1>8. text[M + N + 1] = "." /\ \A i \in 1..N : text[M + i] = word[i]
  BY <1>2, <1>5, <1>6, <1>7
<1>9. M < Len(text)
  BY <1>1, <1>5
<1> QED
  BY <1>8, <1>9 DEF Reads

LEMMA OneWordIsRead ==
    ASSUME NEW x \in Seq(Symbols), NEW y \in Seq(Symbols), Undotted(x), Undotted(y),
           NEW text, NEW a \in Nat, Reads(text, a, x), Reads(text, a, y)
    PROVE  x = y
<1> DEFINE M == Len(x)
           N == Len(y)
<1>1. /\ M \in Nat /\ N \in Nat
      /\ text[a + M + 1] = "." /\ \A i \in 1..M : x[i] # "." /\ text[a + i] = x[i]
      /\ text[a + N + 1] = "." /\ \A i \in 1..N : y[i] # "." /\ text[a + i] = y[i]
  BY DEF Reads, Undotted
<1> HIDE DEF M, N
<1>2. ASSUME M < N PROVE FALSE
  <2>1. M + 1 \in 1..N /\ a + (M + 1) = a + M + 1
    BY <1>1, <1>2
  <2>2. y[M + 1] # "." /\ text[a + (M + 1)] = y[M + 1]
    BY <1>1, <2>1
  <2>3. text[a + (M + 1)] = "."
    BY <1>1, <2>1
  <2> QED
    BY <2>2, <2>3
<1>3. ASSUME N < M PROVE FALSE
  <2>1. N + 1 \in 1..M /\ a + (N + 1) = a + N + 1
    BY <1>1, <1>3
  <2>2. x[N + 1] # "." /\ text[a + (N + 1)] = x[N + 1]
    BY <1>1, <2>1
  <2>3. text[a + (N + 1)] = "."
    BY <1>1, <2>1
  <2> QED
    BY <2>2, <2>3
<1>4. M = N
  BY <1>1, <1>2, <1>3
<1>5. \A i \in 1..M : x[i] = y[i]
  BY <1>1, <1>4
<1>6. Len(x) = Len(y) /\ \A i \in 1..Len(x) : x[i] = y[i]
  BY <1>4, <1>5 DEF M, N
<1> QED
  BY <1>6, SeqEqual

WordsPath(p) == p \in Seq(Seq(Symbols)) /\ \A n \in 1..Len(p) : Undotted(p[n])

(* Dotted texts of paths continue each other as the paths do. *)
LEMMA DottedKeepsPrefixes ==
    ASSUME "." \in Symbols, NEW p, NEW q, WordsPath(p), WordsPath(q), IsPrefix(p, q)
    PROVE  IsPrefix(Dotted(p), Dotted(q))
<1> DEFINE M == Len(p)
           N == Len(q)
           V == Seq(Symbols)
<1>1. /\ p \in Seq(V) /\ q \in Seq(V) /\ M \in Nat /\ N \in Nat
  BY DEF WordsPath
<1>2. PICK f : DotsWords(f, p) /\ Dotted(p) = f[M]
  BY <1>1, DottedUpTo
<1>3. PICK g : DotsWords(g, q) /\ Dotted(q) = g[N]
  BY <1>1, DottedUpTo
<1>4. M <= N /\ \A n \in 1..M : p[n] = q[n]
  BY <1>1, PrefixPointwise
<1>5. /\ f[0] = <<>> /\ \A n \in 1..M : f[n] = WithWord(f[n - 1], p[n])
      /\ g[0] = <<>> /\ \A n \in 1..N : g[n] = WithWord(g[n - 1], q[n])
  BY <1>2, <1>3 DEF DotsWords
<1>6. M \in 0..N /\ N \in M..N
  BY <1>1, <1>4
<1>7. IsPrefix(g[M], g[N])
  BY <1>1, <1>3, <1>6, DotsContinue
<1> HIDE DEF M, N
<1>8. f[M] = g[M]
  <2> DEFINE T == {n \in 0..M : f[n] = g[n]}
  <2>1. 0 \in T
    BY <1>1, <1>5
  <2>2. ASSUME NEW n \in 1..M, n - 1 \in T PROVE n \in T
    <3>1. n \in 1..N
      BY <1>1, <1>4
    <3>2. f[n] = g[n]
      BY <1>4, <1>5, <2>2, <3>1
    <3> QED
      BY <1>1, <3>2
  <2>3. 0..M \subseteq T
    <3> HIDE DEF T
    <3> QED
      BY <1>1, <2>1, <2>2, BoundedInduction
  <2>4. M \in 0..M
    BY <1>1
  <2> QED
    BY <2>3, <2>4
<1> QED
  BY <1>2, <1>3, <1>7, <1>8

LEMMA DottedShowsPrefixes ==
    ASSUME "." \in Symbols, NEW p, NEW q, WordsPath(p), WordsPath(q), IsPrefix(Dotted(p), Dotted(q))
    PROVE  IsPrefix(p, q)
<1> DEFINE M == Len(p)
           N == Len(q)
           V == Seq(Symbols)
<1>1. /\ p \in Seq(V) /\ q \in Seq(V) /\ M \in Nat /\ N \in Nat
      /\ \A n \in 1..M : p[n] \in V /\ Undotted(p[n])
      /\ \A n \in 1..N : q[n] \in V /\ Undotted(q[n])
  BY DEF WordsPath
<1>2. PICK f : DotsWords(f, p) /\ Dotted(p) = f[M]
  BY <1>1, DottedUpTo
<1>3. PICK g : DotsWords(g, q) /\ Dotted(q) = g[N]
  BY <1>1, DottedUpTo
<1>4. /\ \A n \in 0..M : f[n] \in V /\ IsPrefix(f[n], f[M])
      /\ \A n \in 0..N : g[n] \in V /\ IsPrefix(g[n], g[N])
  <2>1. ASSUME NEW n \in 0..M PROVE f[n] \in V /\ IsPrefix(f[n], f[M])
    <3>1. M \in n..M
      BY <1>1
    <3> QED
      BY <1>1, <1>2, <3>1, DotsContinue DEF DotsWords
  <2>2. ASSUME NEW n \in 0..N PROVE g[n] \in V /\ IsPrefix(g[n], g[N])
    <3>1. N \in n..N
      BY <1>1
    <3> QED
      BY <1>1, <1>3, <3>1, DotsContinue DEF DotsWords
  <2> QED
    BY <2>1, <2>2
<1>5. /\ f[0] = <<>> /\ \A n \in 1..M : f[n] = WithWord(f[n - 1], p[n])
      /\ g[0] = <<>> /\ \A n \in 1..N : g[n] = WithWord(g[n - 1], q[n])
  BY <1>2, <1>3 DEF DotsWords
<1>6. /\ f[M] \in V /\ g[N] \in V /\ IsPrefix(f[M], g[N])
  BY <1>1, <1>2, <1>3, <1>4
<1>7. \A n \in 0..M : IsPrefix(f[n], g[N])
  BY <1>4, <1>6, PrefixOrder
<1> HIDE DEF M, N, V
<1> DEFINE T == {n \in 0..M : n <= N /\ f[n] = g[n] /\ \A i \in 1..n : p[i] = q[i]}
<1>8. 0 \in T
  BY <1>1, <1>5
<1>9. ASSUME NEW n \in 1..M, n - 1 \in T PROVE n \in T
  <2> DEFINE prior == f[n - 1]
  <2>1. /\ n - 1 \in 0..M /\ n \in 0..M /\ n - 1 <= N /\ prior = g[n - 1]
        /\ \A i \in 1..(n - 1) : p[i] = q[i]
    BY <1>1, <1>9
  <2>2. prior \in V /\ f[n] = WithWord(prior, p[n]) /\ p[n] \in V
    BY <1>1, <1>4, <1>5, <2>1
  <2> HIDE DEF prior
  <2>3. Reads(g[N], Len(prior), p[n]) /\ Len(prior) < Len(g[N]) /\ Len(prior) \in Nat
    BY <1>6, <1>7, <2>1, <2>2, WordIsRead DEF V
  <2>4. n - 1 # N
    <3>1. n - 1 = N => Len(prior) = Len(g[N])
      BY <2>1
    <3> QED
      BY <2>3, <3>1
  <2>5. n \in 1..N /\ n \in 0..N
    BY <1>1, <2>1, <2>4
  <2>6. g[n] = WithWord(prior, q[n]) /\ q[n] \in V /\ IsPrefix(g[n], g[N])
    BY <1>1, <1>4, <1>5, <2>1, <2>5
  <2>7. Reads(g[N], Len(prior), q[n])
    BY <1>6, <2>2, <2>6, WordIsRead DEF V
  <2>8. p[n] = q[n]
    BY <1>1, <2>2, <2>3, <2>5, <2>6, <2>7, OneWordIsRead DEF V
  <2>9. f[n] = g[n]
    BY <2>2, <2>6, <2>8
  <2>10. \A i \in 1..n : p[i] = q[i]
    BY <1>1, <2>1, <2>8
  <2>11. n <= N
    BY <1>1, <2>5
  <2> QED
    BY <2>1, <2>9, <2>10, <2>11
<1>10. M \in T
  <2>1. 0..M \subseteq T
    <3> HIDE DEF T
    <3> QED
      BY <1>1, <1>8, <1>9, BoundedInduction
  <2> QED
    BY <1>1, <2>1
<1>11. M <= N /\ \A i \in 1..M : p[i] = q[i]
  BY <1>10
<1> QED
  BY <1>1, <1>11, PrefixPointwise DEF M, N

-----------------------------------------------------------------------------
(* Texts without a separator *)

Plain(text) == \A i \in 1..Len(text) : text[i] # ":"

LEMMA PlainConcat ==
    ASSUME NEW S, NEW x \in Seq(S), NEW y \in Seq(S), Plain(x), Plain(y)
    PROVE  Plain(x \o y)
<1> DEFINE M == Len(x)
           N == Len(y)
           both == x \o y
<1>1. /\ M \in Nat /\ N \in Nat /\ Len(both) = M + N
      /\ \A i \in 1..(M + N) : both[i] = IF i <= M THEN x[i] ELSE y[i - M]
      /\ \A i \in 1..M : x[i] # ":"
      /\ \A i \in 1..N : y[i] # ":"
  BY ConcatProperties DEF Plain
<1> HIDE DEF M, N, both
<1>2. ASSUME NEW i \in 1..(M + N) PROVE both[i] # ":"
  <2>1. CASE i <= M
    BY <1>1, <2>1
  <2>2. CASE ~(i <= M)
    <3>1. i - M \in 1..N
      BY <1>1, <2>2
    <3> QED
      BY <1>1, <2>2, <3>1
  <2> QED
    BY <2>1, <2>2
<1>3. Plain(both)
  BY <1>1, <1>2 DEF Plain
<1> QED
  BY <1>3 DEF both

LEMMA FrontOfConcat ==
    ASSUME "." \in Symbols, NEW x \in Seq(Symbols)
    PROVE  x \o Dot \in Seq(Symbols) /\ Front(x \o Dot) = x
<1> DEFINE both == x \o Dot
           front == SubSeq(both, 1, Len(x))
<1>1. Dot \in Seq(Symbols) /\ Len(Dot) = 1
  BY DEF Dot
<1>2. both \in Seq(Symbols) /\ Joins(both, x, Dot) /\ Len(x) \in Nat
  BY <1>1, ConcatJoins
<1> HIDE DEF both
<1>3. Len(both) - 1 = Len(x) /\ \A i \in 1..Len(x) : both[i] = x[i] /\ both[i] \in Symbols
  BY <1>1, <1>2 DEF Joins
<1>4. /\ front \in Seq(Symbols) /\ Len(front) = Len(x)
      /\ \A i \in 1..Len(x) : front[i] = both[i]
  BY <1>2, <1>3, SubSeqProperties
<1> HIDE DEF front
<1>5. front = x
  BY <1>3, <1>4, SeqEqual
<1> QED
  BY <1>2, <1>3, <1>5 DEF Front, both, front

(* The words of a permission have symbols, none of them a separator's. *)
ProperPath(p) == WordsPath(p) /\ p # <<>> /\ \A n \in 1..Len(p) : p[n] # <<>> /\ Plain(p[n])

LEMMA PermissionText ==
    ASSUME "." \in Symbols, NEW p, ProperPath(p)
    PROVE  /\ Permission(p) \in Seq(Symbols) /\ Permission(p) # <<>> /\ Plain(Permission(p))
           /\ Dotted(p) = Permission(p) \o Dot
<1> DEFINE N == Len(p)
           V == Seq(Symbols)
<1>1. /\ p \in Seq(V) /\ N \in Nat /\ N # 0
      /\ \A n \in 1..N : p[n] \in V /\ p[n] # <<>> /\ Plain(p[n])
  BY DEF ProperPath, WordsPath
<1>2. PICK f : DotsWords(f, p) /\ Dotted(p) = f[N]
  BY <1>1, DottedUpTo
<1>3. /\ f[0] = <<>> /\ \A n \in 0..N : f[n] \in V
      /\ \A n \in 1..N : f[n] = WithWord(f[n - 1], p[n])
  BY <1>2 DEF DotsWords
<1>4. Dot \in V /\ Plain(Dot)
  BY DEF Dot, Plain
<1>5. Plain(<<>>)
  BY DEF Plain
<1> HIDE DEF N
<1>6. ASSUME NEW n \in 1..N, Plain(f[n - 1])
      PROVE  /\ n - 1 \in 0..N /\ f[n - 1] \o p[n] \in V /\ Plain(f[n - 1] \o p[n])
             /\ f[n] = (f[n - 1] \o p[n]) \o Dot /\ Plain(f[n])
  <2>1. n - 1 \in 0..N
    BY <1>1
  <2>2. f[n - 1] \in V /\ p[n] \in V
    BY <1>1, <1>3, <2>1
  <2>3. f[n - 1] \o p[n] \in V
    BY <2>2, ConcatProperties
  <2>4. Plain(f[n - 1] \o p[n])
    BY <1>1, <1>6, <2>2, PlainConcat
  <2>5. f[n] = (f[n - 1] \o p[n]) \o Dot
    BY <1>3 DEF WithWord
  <2>6. Plain((f[n - 1] \o p[n]) \o Dot)
    BY <1>4, <2>3, <2>4, PlainConcat
  <2> QED
    BY <2>1, <2>3, <2>4, <2>5, <2>6
<1> DEFINE T == {n \in 0..N : Plain(f[n])}
<1>7. 0..N \subseteq T
  <2>1. 0 \in T
    BY <1>1, <1>3, <1>5
  <2>2. ASSUME NEW n \in 1..N, n - 1 \in T PROVE n \in T
    <3>1. Plain(f[n])
      BY <1>6, <2>2
    <3> QED
      BY <1>1, <3>1
  <2> HIDE DEF T
  <2> QED
    BY <1>1, <2>1, <2>2, BoundedInduction
<1>8. N \in 1..N /\ N - 1 \in 0..N
  BY <1>1
<1>9. Plain(f[N - 1])
  BY <1>7, <1>8
<1> DEFINE half == f[N - 1] \o p[N]
<1>10. half \in V /\ Plain(half) /\ Dotted(p) = half \o Dot
  BY <1>2, <1>6, <1>8, <1>9
<1>11. half # <<>>
  BY <1>1, <1>3, <1>8, ConcatEqualIffEmpty
<1> HIDE DEF half
<1>12. Permission(p) = half
  BY <1>10, FrontOfConcat DEF Permission
<1> QED
  BY <1>10, <1>11, <1>12

(* A permission covers what begins with it and a dot: as paths do. *)
LEMMA PermissionCovers ==
    ASSUME "." \in Symbols, NEW p, NEW q, ProperPath(p), ProperPath(q)
    PROVE  \/ Permission(p) = Permission(q)
           \/ IsPrefix(Permission(p) \o <<".">>, Permission(q))
           <=> IsPrefix(p, q)
<1> DEFINE u == Permission(p)
           v == Permission(q)
           V == Seq(Symbols)
<1>1. /\ u \in V /\ v \in V /\ Dotted(p) = u \o Dot /\ Dotted(q) = v \o Dot
      /\ u \o Dot \in V /\ v \o Dot \in V /\ Dot \in V
  BY PermissionText, FrontOfConcat DEF Dot
<1>2. IsPrefix(Dotted(p), Dotted(q)) <=> IsPrefix(p, q)
  BY DottedKeepsPrefixes, DottedShowsPrefixes DEF ProperPath
<1> HIDE DEF u, v, V
<1>3. u = v => IsPrefix(u \o Dot, v \o Dot)
  BY <1>1, PrefixOrder DEF V
<1>4. IsPrefix(v, v \o Dot)
  BY <1>1, PrefixOfConcat DEF V
<1>5. IsPrefix(u \o Dot, v) => IsPrefix(u \o Dot, v \o Dot)
  BY <1>1, <1>4, PrefixOrder DEF V
<1>6. ASSUME IsPrefix(u \o Dot, v \o Dot) PROVE u = v \/ IsPrefix(u \o Dot, v)
  <2> DEFINE M == Len(u)
             N == Len(v)
             x == u \o Dot
             y == v \o Dot
  <2>1. /\ M \in Nat /\ N \in Nat /\ Len(x) = M + 1 /\ Len(y) = N + 1
        /\ \A i \in 1..M : x[i] = u[i]
        /\ \A i \in 1..N : y[i] = v[i]
    <3>1. Joins(x, u, Dot) /\ Joins(y, v, Dot) /\ Len(Dot) = 1
      BY <1>1, ConcatJoins DEF V, Dot
    <3> QED
      BY <1>1, <3>1 DEF Joins, V
  <2>0. x \in Seq(Symbols) /\ y \in Seq(Symbols) /\ IsPrefix(x, y)
    BY <1>1, <1>6 DEF V
  <2> HIDE DEF M, N, x, y
  <2>2. Len(x) <= Len(y) /\ \A i \in 1..Len(x) : x[i] = y[i]
    BY <2>0, PrefixPointwise
  <2>3. CASE M = N
    <3>1. \A i \in 1..M : u[i] = v[i]
      BY <2>1, <2>2, <2>3
    <3>2. u = v
      BY <1>1, <2>3, <3>1, SeqEqual DEF M, N, V
    <3> QED
      BY <3>2
  <2>4. CASE M # N
    <3>1. Len(x) <= N /\ \A i \in 1..Len(x) : x[i] = v[i]
      BY <2>1, <2>2, <2>4
    <3>2. IsPrefix(x, v)
      BY <1>1, <3>1, PrefixPointwise DEF x, N, V
    <3> QED
      BY <3>2 DEF x
  <2> QED
    BY <2>3, <2>4
<1>7. u = v \/ IsPrefix(u \o <<".">>, v) <=> IsPrefix(p, q)
  BY <1>1, <1>2, <1>3, <1>5, <1>6 DEF Dot
<1> QED
  BY <1>7 DEF u, v

-----------------------------------------------------------------------------
(* Reading a text at its separators *)

(* A separator begins at i. *)
SeparatorAt(text, i) == text[i] = ":" /\ text[i + 1] = ":"

LEMMA SeparatorSubSeq ==
    ASSUME NEW S, NEW text \in Seq(S), NEW i \in 1..(Len(text) - 1)
    PROVE  SubSeq(text, i, i + 1) = Separator <=> SeparatorAt(text, i)
<1> DEFINE two == SubSeq(text, i, i + 1)
<1>1. \A k \in i..(i + 1) : text[k] \in S
  OBVIOUS
<1>2. two \in Seq(S) /\ Len(two) = 2 /\ two[1] = text[i] /\ two[2] = text[i + 1]
  BY <1>1, SubSeqProperties
<1> HIDE DEF two
<1>3. two = Separator => text[i] = ":" /\ text[i + 1] = ":"
  BY <1>2 DEF Separator
<1>4. ASSUME two[1] = ":", two[2] = ":" PROVE two = Separator
  <2>0. ":" \in S
    <3>1. i \in 1..Len(text)
      OBVIOUS
    <3>2. text[i] \in S
      BY <3>1, ElementOfSeq
    <3> QED
      BY <1>2, <1>4, <3>2
  <2>1. Separator \in Seq(S) /\ Len(Separator) = 2
    BY <2>0 DEF Separator
  <2>2. \A k \in 1..2 : two[k] = Separator[k]
    BY <1>4 DEF Separator
  <2> QED
    BY <1>2, <2>1, <2>2, SeqEqual
<1> QED
  BY <1>2, <1>3, <1>4 DEF SeparatorAt, two

(* The first separator of text begins after u, and is followed by v. *)
Splits(text, u, v) ==
    /\ Index(text) = Len(u) + 1
    /\ SubSeq(text, 1, Len(u)) = u
    /\ SubSeq(text, Len(u) + 3, Len(text)) = v

LEMMA FirstSeparator ==
    ASSUME NEW S, Separator \in Seq(S), NEW u \in Seq(S), NEW v \in Seq(S), Plain(u)
    PROVE  Splits(u \o (Separator \o v), u, v)
<1> DEFINE M == Len(u)
           N == Len(v)
           rest == Separator \o v
           text == u \o rest
<1>1. Len(Separator) = 2 /\ Separator[1] = ":" /\ Separator[2] = ":"
  BY DEF Separator
<1>2. rest \in Seq(S) /\ Joins(rest, Separator, v)
  BY ConcatJoins
<1> HIDE DEF rest
<1>3. text \in Seq(S) /\ Joins(text, u, rest)
  BY <1>2, ConcatJoins
<1> HIDE DEF text
<1>4. /\ M \in Nat /\ N \in Nat /\ Len(rest) = N + 2 /\ Len(text) = M + N + 2
      /\ rest[1] = ":" /\ rest[2] = ":"
      /\ \A i \in 1..N : rest[2 + i] = v[i]
      /\ \A i \in 1..M : text[i] = u[i] /\ u[i] # ":"
      /\ \A i \in 1..(N + 2) : text[M + i] = rest[i]
      /\ \A i \in 1..(M + N + 2) : text[i] \in S
  <2>1. Len(rest) = 2 + N /\ 1 \in 1..Len(Separator) /\ 2 \in 1..Len(Separator)
    BY <1>1, <1>2 DEF Joins
  <2>2. rest[1] = ":" /\ rest[2] = ":" /\ \A i \in 1..N : rest[2 + i] = v[i]
    BY <1>1, <1>2, <2>1 DEF Joins
  <2>3. /\ Len(text) = M + Len(rest) /\ \A i \in 1..M : text[i] = u[i]
        /\ \A i \in 1..Len(rest) : text[M + i] = rest[i]
    BY <1>3 DEF Joins
  <2>4. M \in Nat /\ N \in Nat /\ \A i \in 1..M : u[i] # ":"
    BY DEF Plain
  <2>5. \A i \in 1..Len(text) : text[i] \in S
    BY <1>3
  <2> HIDE DEF M, N
  <2> QED
    BY <2>1, <2>2, <2>3, <2>4, <2>5
<1>5. M = Len(u) /\ N = Len(v)
  OBVIOUS
<1> HIDE DEF M, N
<1>6. text[M + 1] = ":" /\ text[M + 2] = ":"
  <2>1. 1 \in 1..(N + 2) /\ 2 \in 1..(N + 2)
    BY <1>4
  <2> QED
    BY <1>4, <2>1
<1> DEFINE at == {i \in 1..(Len(text) - 1) : SubSeq(text, i, i + 1) = Separator}
<1>7. \A i \in 1..(Len(text) - 1) : SubSeq(text, i, i + 1) = Separator <=> SeparatorAt(text, i)
  BY <1>3, SeparatorSubSeq
<1>8. M + 1 \in at
  <2>1. M + 1 \in 1..(Len(text) - 1) /\ (M + 1) + 1 = M + 2
    BY <1>4
  <2>2. SeparatorAt(text, M + 1)
    BY <1>6, <2>1 DEF SeparatorAt
  <2> QED
    BY <1>7, <2>1, <2>2
<1>9. ASSUME NEW i \in at PROVE M + 1 <= i
  <2>1. i \in 1..(Len(text) - 1) /\ SeparatorAt(text, i)
    BY <1>7
  <2>2. text[i] = ":"
    BY <2>1 DEF SeparatorAt
  <2>3. i \notin 1..M
    BY <1>4, <2>2
  <2> QED
    BY <1>4, <2>1, <2>3
<1>10. at \subseteq Int
  OBVIOUS
<1>11. Index(text) = M + 1
  <2>1. Index(text) = IF at = {} THEN 0 ELSE CHOOSE i \in at : \A j \in at : i <= j
    BY DEF Index
  <2> HIDE DEF at
  <2>2. \A i \in at : (\A j \in at : i <= j) => i = M + 1
    BY <1>4, <1>8, <1>9, <1>10
  <2>3. Index(text) = CHOOSE i \in at : \A j \in at : i <= j
    BY <1>8, <2>1
  <2> QED
    BY <1>8, <1>9, <2>2, <2>3
<1> DEFINE left == SubSeq(text, 1, M)
           right == SubSeq(text, M + 3, Len(text))
<1>12. left = u
  <2>1. \A i \in 1..M : text[i] \in S
    BY <1>4
  <2>2. left \in Seq(S) /\ Len(left) = M /\ \A i \in 1..M : left[i] = text[i]
    BY <1>4, <2>1, SubSeqProperties
  <2> HIDE DEF left
  <2>3. \A i \in 1..M : left[i] = u[i]
    BY <1>4, <2>2
  <2> QED
    BY <1>5, <2>2, <2>3, SeqEqual
<1>13. right = v
  <2>1. M + 3 \in Int /\ M + N + 2 \in Int /\ \A i \in (M + 3)..(M + N + 2) : text[i] \in S
    BY <1>4
  <2> DEFINE last == M + N + 2
             piece == SubSeq(text, M + 3, last)
  <2>2. /\ piece \in Seq(S)
        /\ Len(piece) = IF M + 3 <= last THEN last - (M + 3) + 1 ELSE 0
        /\ \A i \in 1..(last - (M + 3) + 1) : piece[i] = text[(M + 3) + i - 1]
    <3> HIDE DEF last
    <3>1. last \in Int /\ M + 3 \in Int /\ \A i \in (M + 3)..last : text[i] \in S
      BY <2>1 DEF last
    <3> QED
      BY <3>1, SubSeqProperties
  <2>3. right = piece
    BY <1>4
  <2> HIDE DEF right, piece
  <2>4. Len(piece) = N
    BY <1>4, <2>2
  <2>5. ASSUME NEW i \in 1..N PROVE piece[i] = v[i]
    <3>1. i \in 1..(last - (M + 3) + 1) /\ (M + 3) + i - 1 = M + (2 + i) /\ 2 + i \in 1..(N + 2)
      BY <1>4
    <3>2. piece[i] = text[M + (2 + i)]
      BY <2>2, <3>1
    <3>3. text[M + (2 + i)] = rest[2 + i]
      BY <1>4, <3>1
    <3> QED
      BY <1>4, <3>2, <3>3
  <2>6. piece = v
    BY <1>5, <2>2, <2>4, <2>5, SeqEqual
  <2> QED
    BY <2>3, <2>6
<1>14. Splits(text, u, v)
  BY <1>5, <1>11, <1>12, <1>13 DEF Splits
<1> QED
  BY <1>14 DEF text, rest

-----------------------------------------------------------------------------
(* What proper parts are *)

LEMMA ProperSymbols ==
    "." \in Symbols /\ Separator \in Seq(Symbols) /\ Dot \in Seq(Symbols)
<1>1. <<".">> \in Seq(Symbols) /\ Separator \in Seq(Symbols)
  BY ScopeStrategyAssumption DEF ProperParts
<1>2. 1 \in 1..Len(<<".">>) /\ <<".">>[1] = "."
  OBVIOUS
<1> QED
  BY <1>1, <1>2, ElementOfSeq DEF Dot

LEMMA ProperStructure ==
    ASSUME NEW s \in Structured
    PROVE  /\ s = [service |-> s.service, path |-> s.path, action |-> s.action]
           /\ s.service \in Seq(Symbols) /\ s.service # <<>> /\ Plain(s.service)
           /\ s.action \in Seq(Symbols) /\ s.action # <<>>
           /\ ProperPath(s.path)
<1>1. /\ s = [service |-> s.service, path |-> s.path, action |-> s.action]
      /\ s.service \in Services /\ s.path \in WordPath /\ s.action \in Actions
  BY DEF Structured
<1>2. s.service \in Seq(Symbols) /\ s.action \in Seq(Symbols)
  BY <1>1, ScopeStrategyAssumption DEF ProperParts
<1>3. s.service # <<>> /\ s.action # <<>>
  BY <1>1, ScopeStrategyAssumption DEF ProperParts
<1>4. ASSUME NEW text \in Services \cup Words
      PROVE  text \in Seq(Symbols) /\ text # <<>> /\ Plain(text)
  <2>1. text \in Seq(Symbols) /\ text # <<>> /\ ":" \notin Range(text)
    BY ScopeStrategyAssumption DEF ProperParts
  <2>2. \A i \in 1..Len(text) : text[i] \in Range(text)
    BY <2>1 DEF Range
  <2> QED
    BY <2>1, <2>2 DEF Plain
<1>5. ASSUME NEW word \in Words PROVE Undotted(word)
  <2>1. word \in Seq(Symbols) /\ "." \notin Range(word)
    BY ScopeStrategyAssumption DEF ProperParts
  <2>2. \A i \in 1..Len(word) : word[i] \in Range(word)
    BY <2>1 DEF Range
  <2> QED
    BY <2>1, <2>2 DEF Undotted
<1>6. PICK n \in 1..MaxPath : s.path \in [1..n -> Words]
  BY <1>1 DEF WordPath
<1>7. n \in Nat /\ n # 0
  BY <1>6, ScopeStrategyAssumption DEF ProperParts
<1>8. s.path \in Seq(Words) /\ Len(s.path) = n
  BY <1>6, <1>7
<1>9. s.path \in Seq(Seq(Symbols)) /\ \A k \in 1..Len(s.path) : s.path[k] \in Words
  <2>1. \A word \in Words : word \in Seq(Symbols)
    BY <1>4
  <2> QED
    BY <1>8, <2>1
<1>10. s.path # <<>>
  BY <1>7, <1>8
<1>11. ProperPath(s.path)
  BY <1>4, <1>5, <1>9, <1>10 DEF ProperPath, WordsPath
<1> QED
  BY <1>1, <1>2, <1>3, <1>4, <1>11

LEMMA BuiltinsArePlain == \A text \in Builtin \cup {Profile} : Plain(text)
<1>1. Plain(OpenID) /\ Plain(Profile) /\ Plain(Email) /\ Plain(OfflineAccess)
  BY DEF Plain, OpenID, Profile, Email, OfflineAccess
<1>2. Plain(ClientSSC) /\ Plain(ClientDotcom)
  BY DEF Plain, ClientSSC, ClientDotcom
<1> QED
  BY <1>1, <1>2 DEF Builtin

-----------------------------------------------------------------------------
(* The text of a scope *)

Associates(x, y, z) == (x \o y) \o z = x \o (y \o z)

LEMMA ConcatAssociates ==
    ASSUME NEW S, NEW x \in Seq(S), NEW y \in Seq(S), NEW z \in Seq(S)
    PROVE  Associates(x, y, z)
  BY ConcatAssociative DEF Associates

(* text joins the parts of a scope, and they are read as they were written. *)
IsScopeOf(text, a, b, c) ==
    /\ text = a \o (Separator \o (b \o (Separator \o c)))
    /\ text \notin Builtin \cup {Profile}
    /\ <<>> \notin {a, b, c} => ParseScope(text) = Parsed(a, b, c)

LEMMA ScopeIsRead ==
    ASSUME NEW S, Separator \in Seq(S),
           NEW a \in Seq(S), NEW b \in Seq(S), NEW c \in Seq(S), Plain(a), Plain(b)
    PROVE  ToScope(a, b, c) \in Seq(S) /\ IsScopeOf(ToScope(a, b, c), a, b, c)
<1> DEFINE V == Seq(S)
           rest == b \o (Separator \o c)
           text == a \o (Separator \o rest)
<1>1. a \in V /\ b \in V /\ c \in V /\ Separator \in V /\ Plain(a) /\ Plain(b)
  OBVIOUS
<1>2. ToScope(a, b, c) = (((a \o Separator) \o b) \o Separator) \o c
  BY DEF ToScope
<1>3. Separator \o c \in V /\ rest \in V /\ Separator \o rest \in V /\ text \in V
  BY <1>1, ConcatProperties
<1>4. ToScope(a, b, c) = text
  <2> DEFINE first == a \o Separator
             second == first \o b
             last == Separator \o c
  <2>1. first \in V /\ second \in V /\ last \in V
    BY <1>1, ConcatProperties
  <2> HIDE DEF first, second, last, rest
  <2>2. /\ Associates(second, Separator, c)
        /\ Associates(first, b, last)
        /\ Associates(a, Separator, rest)
    BY <1>1, <1>3, <2>1, ConcatAssociates
  <2>3. (second \o Separator) \o c = second \o last
    BY <2>2 DEF Associates, last
  <2>4. second \o last = first \o rest
    BY <2>2 DEF Associates, second, rest, last
  <2>5. first \o rest = text
    BY <2>2 DEF Associates, first
  <2> QED
    BY <1>2, <2>3, <2>4, <2>5 DEF first, second
<1>5. Splits(text, a, rest) /\ Splits(rest, b, c)
  BY <1>1, <1>3, FirstSeparator
<1>7. ~Plain(text)
  <2>1. Len(a) \in Nat /\ Len(a) + 1 <= Len(text) /\ text[Len(a) + 1] = ":"
    <3>1. Joins(text, a, Separator \o rest) /\ Joins(Separator \o rest, Separator, rest)
      BY <1>1, <1>3, ConcatJoins
    <3>2. Len(Separator) = 2 /\ Separator[1] = ":"
      BY DEF Separator
    <3>3. Len(a) \in Nat /\ Len(rest) \in Nat
      BY <1>1, <1>3
    <3> DEFINE sep == Separator \o rest
    <3> HIDE DEF rest, text, sep
    <3>4. Len(sep) = 2 + Len(rest) /\ sep[1] = ":"
      BY <3>1, <3>2 DEF Joins, sep
    <3>5. 1 \in 1..Len(sep)
      BY <3>3, <3>4
    <3>6. Len(text) = Len(a) + Len(sep) /\ text[Len(a) + 1] = sep[1]
      BY <3>1, <3>5 DEF Joins, sep
    <3> QED
      BY <3>3, <3>4, <3>6
  <2>2. Len(text) \in Nat
    BY <1>3
  <2> HIDE DEF text, rest
  <2>3. Len(a) + 1 \in 1..Len(text)
    BY <2>1, <2>2
  <2> QED
    BY <2>1, <2>3 DEF Plain
<1>8. text \notin Builtin \cup {Profile}
  BY <1>7, BuiltinsArePlain
<1>9. ASSUME <<>> \notin {a, b, c} PROVE ParseScope(text) = Parsed(a, b, c)
  <2> HIDE DEF text, rest
  <2>1. /\ Index(text) = Len(a) + 1 /\ SubSeq(text, 1, Len(a)) = a
        /\ SubSeq(text, Len(a) + 3, Len(text)) = rest
        /\ Index(rest) = Len(b) + 1 /\ SubSeq(rest, 1, Len(b)) = b
        /\ SubSeq(rest, Len(b) + 3, Len(rest)) = c
    BY <1>5 DEF Splits
  <2>2. Len(a) \in Nat /\ Len(b) \in Nat
    BY <1>1
  <2>3. /\ (Len(a) + 1) - 1 = Len(a) /\ (Len(a) + 1) + 2 = Len(a) + 3 /\ Len(a) + 1 # 0
        /\ (Len(b) + 1) - 1 = Len(b) /\ (Len(b) + 1) + 2 = Len(b) + 3 /\ Len(b) + 1 # 0
    BY <2>2
  <2>4. text \notin {OpenID, Email, OfflineAccess, ClientSSC, ClientDotcom}
    BY <1>8 DEF Builtin
  <2> DEFINE i == Index(text)
             j == Index(SubSeq(text, i + 2, Len(text)))
  <2>5. SubSeq(text, i + 2, Len(text)) = rest /\ i # 0 /\ SubSeq(text, 1, i - 1) = a
    BY <2>1, <2>3
  <2>6. j # 0 /\ SubSeq(rest, 1, j - 1) = b /\ SubSeq(rest, j + 2, Len(rest)) = c
    BY <2>1, <2>3, <2>5
  <2>7. <<>> \notin {a, b, c}
    BY <1>9
  <2> QED
    BY <2>4, <2>5, <2>6, <2>7, Zenon DEF ParseScope
<1> QED
  BY <1>3, <1>4, <1>8, <1>9 DEF text, rest, IsScopeOf

LEMMA LengthOfScope ==
    ASSUME NEW a \in Seq(Symbols), NEW b \in Seq(Symbols), NEW c \in Seq(Symbols),
           Separator \in Seq(Symbols), NEW text, IsScopeOf(text, a, b, c)
    PROVE  /\ Length(a) \in Nat /\ Length(b) \in Nat /\ Length(c) \in Nat
           /\ Length(Separator) \in Nat
           /\ Length(text) = Length(a) + Length(Separator) + Length(b)
                                + Length(Separator) + Length(c)
<1> DEFINE V == Seq(Symbols)
           rest == b \o (Separator \o c)
<1>1. Separator \o c \in V /\ rest \in V /\ Separator \o rest \in V
  BY ConcatProperties
<1>2. /\ Length(a) \in Nat /\ Length(b) \in Nat /\ Length(c) \in Nat
      /\ Length(Separator) \in Nat
  BY LengthOfConcat
<1>3. Length(Separator \o c) = Length(Separator) + Length(c)
  BY LengthOfConcat
<1>4. Length(rest) = Length(b) + Length(Separator \o c)
  BY <1>1, LengthOfConcat
<1>5. Length(Separator \o rest) = Length(Separator) + Length(rest)
  BY <1>1, LengthOfConcat
<1>6. Length(text) = Length(a) + Length(Separator \o rest)
  <2>1. text = a \o (Separator \o rest)
    BY DEF IsScopeOf
  <2> QED
    BY <1>1, <2>1, LengthOfConcat
<1> QED
  BY <1>2, <1>3, <1>4, <1>5, <1>6

LEMMA TextIsRead ==
    ASSUME NEW s \in Structured
    PROVE  /\ Text(s) \in Seq(Symbols)
           /\ Text(s) \notin Builtin \cup {Profile}
           /\ ParseScope(Text(s)) = Parsed(s.service, Permission(s.path), s.action)
           /\ Length(Text(s)) = Length(s.service) + Length(Separator)
                                    + Length(Permission(s.path)) + Length(Separator)
                                    + Length(s.action)
<1> DEFINE a == s.service
           b == Permission(s.path)
           c == s.action
           V == Seq(Symbols)
           rest == b \o (Separator \o c)
           text == a \o (Separator \o rest)
<1>1. /\ a \in V /\ b \in V /\ c \in V /\ Separator \in V
      /\ a # <<>> /\ b # <<>> /\ c # <<>>
      /\ Plain(a) /\ Plain(b)
  BY ProperStructure, ProperSymbols, PermissionText
<1>2. Text(s) = ToScope(a, b, c)
  BY DEF Text
<1> HIDE DEF a, b, c
<1>3. Separator \o c \in V /\ rest \in V /\ Separator \o rest \in V /\ text \in V
  BY <1>1, ConcatProperties
<1>4. /\ text = Text(s) /\ text \notin Builtin \cup {Profile}
      /\ ParseScope(text) = Parsed(a, b, c)
  <2>1. <<>> \notin {a, b, c}
    BY <1>1
  <2>2. IsScopeOf(ToScope(a, b, c), a, b, c)
    BY <1>1, ScopeIsRead
  <2> QED
    BY <1>2, <2>1, <2>2 DEF IsScopeOf
<1>5. Length(text) = Length(a) + Length(Separator) + Length(b) + Length(Separator) + Length(c)
  <2>1. IsScopeOf(text, a, b, c)
    BY <1>1, <1>2, <1>4, ScopeIsRead
  <2> HIDE DEF text
  <2> QED
    BY <1>1, <2>1, LengthOfScope
<1> QED
  BY <1>3, <1>4, <1>5 DEF a, b, c

(* What a text stands for can be read from it. *)
LEMMA TextTells ==
    ASSUME NEW s \in Structured, NEW t \in Structured, Text(s) = Text(t)
    PROVE  s = t
<1>1. s.service = t.service /\ Permission(s.path) = Permission(t.path) /\ s.action = t.action
  <2>1. Parsed(s.service, Permission(s.path), s.action)
            = Parsed(t.service, Permission(t.path), t.action)
    BY TextIsRead
  <2> QED
    BY <2>1 DEF Parsed
<1>2. ProperPath(s.path) /\ ProperPath(t.path)
  BY ProperStructure
<1>3. IsPrefix(s.path, t.path) /\ IsPrefix(t.path, s.path)
  BY <1>1, <1>2, PermissionCovers, ProperSymbols
<1>4. s.path \in Seq(Seq(Symbols)) /\ t.path \in Seq(Seq(Symbols))
  BY <1>2 DEF ProperPath, WordsPath
<1>5. s.path = t.path
  BY <1>3, <1>4, PrefixOrder
<1> QED
  BY <1>1, <1>5, ProperStructure

(* "profile" is an alias of the text of its structure. *)
LEMMA AliasText ==
    Text(ReadProfile) = ToScope(SAMS, UserProfile, ActionRead)
<1> DEFINE user == <<"user">>
           profile == <<"profile">>
           p == <<user, profile>>
<1>1. ReadProfile \in Structured
  BY ScopeStrategyAssumption DEF ProperParts
<1>2. ReadProfile.service = SAMS /\ ReadProfile.path = p /\ ReadProfile.action = ActionRead
  BY DEF ReadProfile
<1>3. ProperPath(p)
  BY <1>1, <1>2, ProperStructure
<1>4. p \in Seq(Seq(Symbols)) /\ Len(p) = 2 /\ p[1] = user /\ p[2] = profile
  BY <1>3 DEF ProperPath, WordsPath
<1>5. PICK f : DotsWords(f, p) /\ Dotted(p) = f[2]
  BY <1>4, DottedUpTo, ProperSymbols
<1>6. f[0] = <<>> /\ f[1] = WithWord(f[0], user) /\ f[2] = WithWord(f[1], profile)
  <2>1. \A n \in 1..2 : f[n] = WithWord(f[n - 1], p[n])
    BY <1>4, <1>5 DEF DotsWords
  <2> QED
    BY <1>4, <1>5, <2>1 DEF DotsWords
<1>7. "user" \in Symbols /\ "profile" \in Symbols /\ "." \in Symbols
  <2>1. user \in Seq(Symbols) /\ profile \in Seq(Symbols)
    BY <1>4
  <2>2. 1 \in 1..Len(user) /\ 1 \in 1..Len(profile) /\ user[1] = "user" /\ profile[1] = "profile"
    OBVIOUS
  <2> QED
    BY <2>1, <2>2, ElementOfSeq, ProperSymbols
<1>8. f[2] = UserProfile \o Dot
  <2>1. <<>> \o user = user
    BY <1>7, ConcatEmptySeq
  <2>2. user \o Dot = <<"user", ".">>
    <3>1. user \in Seq(Symbols) /\ <<"user", ".">> = Append(user, ".")
      BY <1>7
    <3> QED
      BY <1>7, <3>1, AppendIsConcat DEF Dot
  <2>3. <<"user", ".">> \o profile = UserProfile
    <3>1. <<"user", ".">> \in Seq(Symbols) /\ UserProfile = Append(<<"user", ".">>, "profile")
      BY <1>7 DEF UserProfile
    <3> QED
      BY <1>7, <3>1, AppendIsConcat
  <2> HIDE DEF user, profile
  <2>4. f[1] = <<"user", ".">>
    BY <1>6, <2>1, <2>2 DEF WithWord
  <2> QED
    BY <1>6, <2>3, <2>4 DEF WithWord
<1>9. UserProfile \in Seq(Symbols)
  BY <1>7 DEF UserProfile
<1>10. Permission(p) = UserProfile
  BY <1>5, <1>8, <1>9, FrontOfConcat, ProperSymbols DEF Permission
<1> QED
  BY <1>2, <1>10 DEF Text

-----------------------------------------------------------------------------
(* What the literals are *)

IsBuiltin(l) ==
    /\ l \in Builtin /\ Canonical(l) = l /\ Meaning[l] = {}
    /\ ParseScope(l) = Parsed(<<>>, l, <<>>)

IsNoScope(l) == l \notin Builtin /\ ~ParseScope(Canonical(l)).valid /\ Meaning[l] = {}

IsScope(l, s) == l \notin Builtin /\ Canonical(l) = Text(s) /\ Meaning[l] = {s}

LEMMA LiteralKinds ==
    ASSUME NEW l \in Literals
    PROVE  IsBuiltin(l) \/ IsNoScope(l) \/ \E s \in Structured : IsScope(l, s)
<1>1. Meaning[l] = {s \in Structured : Text(s) = l \/ (l = Profile /\ s = ReadProfile)}
  BY DEF Meaning
<1>2. Profile \notin Builtin
  <2>1. Len(Profile) = 1 /\ Profile[1] = "profile"
    BY DEF Profile
  <2> QED
    BY <2>1 DEF Builtin, OpenID, Email, OfflineAccess, ClientSSC, ClientDotcom
<1>3. \A s \in Structured : Text(s) \notin Builtin /\ Text(s) # Profile /\ ParseScope(Text(s)).valid
  BY TextIsRead DEF Parsed
<1>4. \A b \in Builtin : ParseScope(b) = Parsed(<<>>, b, <<>>) /\ ParseScope(b).valid
  BY DEF Builtin, ParseScope, Parsed
<1>5. CASE l \in Builtin
  <2>1. l # Profile
    BY <1>2, <1>5
  <2>2. Meaning[l] = {}
    BY <1>1, <1>3, <1>5, <2>1
  <2> QED
    BY <1>4, <1>5, <2>1, <2>2 DEF IsBuiltin, Canonical
<1>6. CASE l \in Malformed
  <2>1. l # Profile /\ ~ParseScope(l).valid
    BY <1>6, ScopeStrategyAssumption DEF ProperParts
  <2>2. Meaning[l] = {} /\ l \notin Builtin
    BY <1>1, <1>3, <1>4, <2>1
  <2> QED
    BY <2>1, <2>2 DEF IsNoScope, Canonical
<1>7. CASE l = Profile
  <2>1. ReadProfile \in Structured
    BY ScopeStrategyAssumption DEF ProperParts
  <2>2. Meaning[l] = {ReadProfile}
    BY <1>1, <1>3, <1>7, <2>1
  <2>3. Canonical(l) = Text(ReadProfile)
    BY <1>7, AliasText DEF Canonical
  <2> QED
    BY <1>2, <1>7, <2>1, <2>2, <2>3 DEF IsScope
<1>8. ASSUME NEW s \in Structured, l = Text(s) PROVE IsScope(l, s)
  <2>1. l \notin Builtin /\ l # Profile
    BY <1>3, <1>8
  <2>2. Meaning[l] = {s}
    BY <1>1, <1>8, <2>1, TextTells
  <2> QED
    BY <1>8, <2>1, <2>2 DEF IsScope, Canonical
<1> QED
  BY <1>5, <1>6, <1>7, <1>8 DEF Literals

(* Scopes match as what they stand for: the test of lengths loses nothing. *)
LEMMA TextsMatch ==
    ASSUME NEW m \in Structured, NEW n \in Structured
    PROVE  Matches(Text(m), Text(n)) <=>
               m.service = n.service /\ m.action = n.action /\ IsPrefix(m.path, n.path)
<1> DEFINE u == Permission(m.path)
           v == Permission(n.path)
           Covers == u = v \/ IsPrefix(u \o <<".">>, v)
<1>1. /\ "." \in Symbols /\ Dot \in Seq(Symbols) /\ Separator \in Seq(Symbols)
      /\ u \in Seq(Symbols) /\ v \in Seq(Symbols)
      /\ m.service \in Seq(Symbols) /\ m.action \in Seq(Symbols)
  BY ProperStructure, ProperSymbols, PermissionText
<1>2. Covers <=> IsPrefix(m.path, n.path)
  BY <1>1, ProperStructure, PermissionCovers
<1>3. /\ ParseScope(Text(m)) = Parsed(m.service, u, m.action)
      /\ ParseScope(Text(n)) = Parsed(n.service, v, n.action)
      /\ Length(Text(m)) = Length(m.service) + Length(Separator) + Length(u)
                               + Length(Separator) + Length(m.action)
      /\ Length(Text(n)) = Length(n.service) + Length(Separator) + Length(v)
                               + Length(Separator) + Length(n.action)
  BY TextIsRead
<1> HIDE DEF u, v
<1>4. Matches(Text(m), Text(n)) <=>
          /\ Length(Text(m)) <= Length(Text(n))
          /\ m.service = n.service /\ m.action = n.action /\ Covers
  BY <1>3 DEF Matches, Parsed
<1>5. ASSUME Covers PROVE Length(u) <= Length(v) /\ Length(u) \in Nat /\ Length(v) \in Nat
  <2>1. Length(u) \in Nat /\ Length(v) \in Nat
    BY <1>1, LengthOfConcat
  <2>2. CASE u = v
    BY <2>1, <2>2
  <2>3. CASE IsPrefix(u \o <<".">>, v)
    <3> DEFINE both == u \o Dot
    <3>1. both \in Seq(Symbols) /\ Length(both) = Length(u) + Length(Dot) /\ Length(Dot) \in Nat
      BY <1>1, FrontOfConcat, LengthOfConcat
    <3>2. IsPrefix(both, v)
      BY <2>3 DEF Dot
    <3> HIDE DEF both
    <3>3. PICK rest \in Seq(Symbols) : v = both \o rest
      BY <1>1, <3>1, <3>2, PrefixRest
    <3>4. Length(v) = Length(both) + Length(rest) /\ Length(rest) \in Nat
      BY <3>1, <3>3, LengthOfConcat
    <3> QED
      BY <2>1, <3>1, <3>4
  <2> QED
    BY <1>5, <2>2, <2>3
<1>6. Length(Separator) \in Nat /\ Length(m.service) \in Nat /\ Length(m.action) \in Nat
  BY <1>1, LengthOfConcat
<1>7. m.service = n.service /\ m.action = n.action /\ Covers => Length(Text(m)) <= Length(Text(n))
  BY <1>3, <1>5, <1>6
<1> QED
  BY <1>2, <1>4, <1>7

(* No builtin scope covers another. *)
LEMMA BuiltinsMatch ==
    ASSUME NEW m \in Builtin, NEW n \in Builtin
    PROVE  Matches(m, n) <=> m = n
<1>1. ParseScope(m) = Parsed(<<>>, m, <<>>) /\ ParseScope(n) = Parsed(<<>>, n, <<>>)
  BY DEF Builtin, ParseScope
<1>2. m \in Seq(Symbols) /\ n \in Seq(Symbols) /\ Dot \in Seq(Symbols) /\ "." \in Symbols
  BY ProperSymbols, ScopeStrategyAssumption DEF ProperParts
<1>3. Length(m) \in Nat
  BY <1>2, LengthOfConcat
<1>4. Matches(m, n) <=> Length(m) <= Length(n) /\ (m = n \/ IsPrefix(m \o Dot, n))
  BY <1>1 DEF Matches, Parsed, Dot
<1>5. ASSUME IsPrefix(m \o Dot, n) PROVE FALSE
  <2> DEFINE both == m \o Dot
  <2>1. both \in Seq(Symbols) /\ IsPrefix(m, both) /\ Len(both) = Len(m) + 1
    <3>1. both \in Seq(Symbols) /\ IsPrefix(m, both)
      BY <1>2, PrefixOfConcat
    <3>2. Joins(both, m, Dot) /\ Len(Dot) = 1
      BY <1>2, ConcatJoins DEF Dot
    <3> QED
      BY <3>1, <3>2 DEF Joins
  <2>2. IsPrefix(both, n)
    BY <1>5
  <2> HIDE DEF both
  <2>3. Len(m) + 1 <= Len(n)
    BY <1>2, <2>1, <2>2, PrefixPointwise
  <2>4. IsPrefix(m, n)
    BY <1>2, <2>1, <2>2, PrefixOrder
  <2>5. \A i \in 1..Len(m) : m[i] = n[i]
    BY <1>2, <2>4, PrefixPointwise
  <2>6. Len(m) \in {1, 3} /\ Len(n) \in {1, 3}
    BY DEF Builtin, OpenID, Email, OfflineAccess, ClientSSC, ClientDotcom
  <2>7. m \in {OpenID, Email, OfflineAccess} /\ n \in {ClientSSC, ClientDotcom}
    BY <2>3, <2>6 DEF Builtin, OpenID, Email, OfflineAccess, ClientSSC, ClientDotcom
  <2>8. m[1] # "client"
    BY <2>7 DEF OpenID, Email, OfflineAccess
  <2>9. n[1] = "client"
    BY <2>7 DEF ClientSSC, ClientDotcom
  <2>10. 1 \in 1..Len(m)
    BY <2>6
  <2> QED
    BY <2>5, <2>8, <2>9, <2>10
<1> QED
  BY <1>3, <1>4, <1>5

(* One scope matches another exactly when it grants it. *)
LEMMA OneScopeIsGrant ==
    ASSUME NEW l \in Literals, NEW needle \in Literals
    PROVE  ParseScope(Canonical(needle)).valid /\ Matches(Canonical(l), Canonical(needle))
               <=> Grants(l, needle)
<1>1. /\ IsBuiltin(l) \/ IsNoScope(l) \/ \E s \in Structured : IsScope(l, s)
      /\ IsBuiltin(needle) \/ IsNoScope(needle) \/ \E s \in Structured : IsScope(needle, s)
  BY LiteralKinds
<1>2. CASE IsNoScope(needle)
  BY <1>2 DEF IsNoScope, Grants
<1>3. CASE IsNoScope(l)
  BY <1>3 DEF IsNoScope, Grants, Matches
<1>4. CASE IsBuiltin(l) /\ IsBuiltin(needle)
  BY <1>4, BuiltinsMatch DEF IsBuiltin, Grants, Parsed
<1>5. ASSUME NEW s \in Structured
      PROVE  ParseScope(Text(s)).valid /\ ParseScope(Text(s)).service # <<>>
  BY TextIsRead, ProperStructure DEF Parsed
<1>6. ASSUME IsBuiltin(l), NEW n \in Structured, IsScope(needle, n)
      PROVE  ~Matches(Canonical(l), Canonical(needle)) /\ ~Grants(l, needle)
  BY <1>5, <1>6 DEF IsBuiltin, IsScope, Matches, Grants, Parsed
<1>7. ASSUME NEW m \in Structured, IsScope(l, m), IsBuiltin(needle)
      PROVE  ~Matches(Canonical(l), Canonical(needle)) /\ ~Grants(l, needle)
  BY <1>5, <1>7 DEF IsBuiltin, IsScope, Matches, Grants, Parsed
<1>8. ASSUME NEW m \in Structured, IsScope(l, m), NEW n \in Structured, IsScope(needle, n)
      PROVE  /\ ParseScope(Canonical(needle)).valid
             /\ Matches(Canonical(l), Canonical(needle)) <=> Grants(l, needle)
  <2>1. Grants(l, needle) <=>
            m.service = n.service /\ m.action = n.action /\ IsPrefix(m.path, n.path)
    BY <1>8 DEF IsScope, Grants
  <2> QED
    BY <1>5, <1>8, <2>1, TextsMatch DEF IsScope
<1> QED
  BY <1>1, <1>2, <1>3, <1>4, <1>6, <1>7, <1>8

(* Whatever the services, words and actions, the search of Strategy        *)
(* (scopes/scopes.go) says yes exactly when some scope of the list grants  *)
(* the needle.                                                             *)
LEMMA StrategyAlwaysAgrees == StrategyAgrees
<1> SUFFICES ASSUME NEW needle \in Literals, NEW matchers \in BoundedSeq(Literals, MaxMatchers)
             PROVE  Strategy(matchers, needle) <=>
                        \E k \in DOMAIN matchers : Grants(matchers[k], needle)
  BY DEF StrategyAgrees
<1>1. \A k \in DOMAIN matchers : matchers[k] \in Literals
  BY DEF BoundedSeq, SeqOf
<1> QED
  BY <1>1, OneScopeIsGrant DEF Strategy

-----------------------------------------------------------------------------
(* The URLs of a configuration *)

Letters == DOMAIN Lower

(* No slash at its end either. *)
Trimmed(url) == Clean(url) /\ (url # <<>> => url[Len(url)] # "/")

(* front is the first n symbols of text. *)
Begins(front, text, n) == Len(front) = n /\ \A k \in 1..n : front[k] = text[k]

LEMMA Beginning ==
    ASSUME NEW S, NEW text, NEW n \in Nat, \A k \in 1..n : text[k] \in S
    PROVE  SubSeq(text, 1, n) \in Seq(S) /\ Begins(SubSeq(text, 1, n), text, n)
  BY SubSeqProperties DEF Begins

LEMMA TrimmedURL ==
    ASSUME NEW url \in Seq(Letters), Clean(url)
    PROVE  TrimSlash(url) \in Seq(Letters) /\ Trimmed(TrimSlash(url))
<1> DEFINE N == Len(url)
           front == SubSeq(url, 1, N - 1)
<1>1. N \in Nat /\ \A k \in 1..N : url[k] \in Letters
  OBVIOUS
<1>2. CASE url # <<>> /\ url[N] = "/"
  <2>1. N # 0 /\ N - 1 \in Nat
    BY <1>1, <1>2
  <2>2. \A k \in 1..(N - 1) : url[k] \in Letters
    BY <1>1
  <2>3. /\ front \in Seq(Letters) /\ Len(front) = N - 1
        /\ \A k \in 1..(N - 1) : front[k] = url[k]
    <3> HIDE DEF N
    <3> QED
      BY <2>1, <2>2, Beginning DEF Begins
  <2>4. \A k \in 1..(N - 1) : ~(url[k] = "/" /\ url[k + 1] = "/")
    BY DEF Clean
  <2>5. TrimSlash(url) = front
    BY <1>2 DEF TrimSlash
  <2> HIDE DEF front, N
  <2>6. Clean(front)
    <3>1. ASSUME NEW k \in 1..(N - 1 - 1) PROVE ~(front[k] = "/" /\ front[k + 1] = "/")
      <4>1. k \in 1..(N - 1) /\ k + 1 \in 1..(N - 1)
        BY <1>1, <2>1
      <4> QED
        BY <2>3, <2>4, <4>1
    <3> QED
      BY <2>3, <3>1 DEF Clean
  <2>7. ASSUME front # <<>> PROVE front[N - 1] # "/"
    <3>1. N - 1 # 0
      BY <2>3, <2>7
    <3>2. N - 1 \in 1..(N - 1) /\ (N - 1) + 1 = N
      BY <1>1, <2>1, <3>1
    <3> QED
      BY <1>2, <2>3, <2>4, <3>2
  <2> QED
    BY <2>3, <2>5, <2>6, <2>7 DEF Trimmed
<1>3. CASE ~(url # <<>> /\ url[N] = "/")
  BY <1>3 DEF TrimSlash, Trimmed
<1> QED
  BY <1>2, <1>3

LEMMA LowerText ==
    ASSUME NEW url \in Seq(Letters), \A symbol \in Letters : Lower[symbol] \in Letters
    PROVE  /\ ToLower(url) \in Seq(Letters) /\ Len(ToLower(url)) = Len(url)
           /\ \A k \in 1..Len(url) : ToLower(url)[k] = Lower[url[k]]
  BY DEF ToLower

LEMMA LowerTrims ==
    ASSUME NEW url \in Seq(Letters),
           \A symbol \in Letters :
               Lower[symbol] \in Letters /\ (Lower[symbol] = "/" <=> symbol = "/")
    PROVE  TrimSlash(ToLower(url)) = ToLower(TrimSlash(url))
<1> DEFINE N == Len(url)
           lower == ToLower(url)
           front == SubSeq(url, 1, N - 1)
           lowerFront == SubSeq(lower, 1, N - 1)
<1>1. N \in Nat /\ \A k \in 1..N : url[k] \in Letters
  OBVIOUS
<1>2. lower \in Seq(Letters) /\ Len(lower) = N /\ \A k \in 1..N : lower[k] = Lower[url[k]]
  BY LowerText
<1>3. url # <<>> <=> N # 0
  OBVIOUS
<1>4. lower # <<>> <=> N # 0
  <2> HIDE DEF lower
  <2> QED
    BY <1>2
<1>5. CASE N = 0
  BY <1>3, <1>4, <1>5 DEF TrimSlash
<1>6. CASE N # 0
  <2>1. N \in 1..N /\ N - 1 \in Nat
    BY <1>1, <1>6
  <2>2. lower[N] = "/" <=> url[N] = "/"
    BY <1>1, <1>2, <2>1
  <2>3. CASE url[N] # "/"
    BY <1>2, <2>2, <2>3 DEF TrimSlash
  <2>4. CASE url[N] = "/"
    <3>1. TrimSlash(url) = front
      BY <1>3, <1>6, <2>4 DEF TrimSlash
    <3>2. TrimSlash(lower) = lowerFront
      BY <1>2, <1>4, <1>6, <2>2, <2>4 DEF TrimSlash
    <3>3. \A k \in 1..(N - 1) : url[k] \in Letters
      BY <1>1
    <3>4. /\ front \in Seq(Letters) /\ Len(front) = N - 1
          /\ \A k \in 1..(N - 1) : front[k] = url[k]
      <4> HIDE DEF N
      <4> QED
        BY <2>1, <3>3, Beginning DEF Begins
    <3> HIDE DEF lower
    <3>5. \A k \in 1..(N - 1) : lower[k] \in Letters
      BY <1>2, <2>1
    <3>6. /\ lowerFront \in Seq(Letters) /\ Len(lowerFront) = N - 1
          /\ \A k \in 1..(N - 1) : lowerFront[k] = lower[k]
      <4> HIDE DEF N
      <4> QED
        BY <2>1, <3>5, Beginning DEF Begins
    <3> HIDE DEF front, lowerFront
    <3>7. /\ ToLower(front) \in Seq(Letters) /\ Len(ToLower(front)) = N - 1
          /\ \A k \in 1..(N - 1) : ToLower(front)[k] = Lower[front[k]]
      BY <3>4, LowerText
    <3> HIDE DEF N
    <3>8. \A k \in 1..(N - 1) : lowerFront[k] = ToLower(front)[k]
      BY <1>1, <1>2, <3>4, <3>6, <3>7
    <3>9. lowerFront = ToLower(front)
      BY <3>6, <3>7, <3>8, SeqEqual
    <3> QED
      BY <3>1, <3>2, <3>9 DEF lower
  <2> QED
    BY <2>3, <2>4
<1> QED
  BY <1>5, <1>6

(* A path is appended to a root, which is what stands before the path. *)
LEMMA RootIsFront ==
    ASSUME NEW root \in Seq(Letters), NEW name
    PROVE  LET url == root \o <<"/", name>>
           IN  /\ Len(url) = Len(root) + 2
               /\ \A k \in 1..Len(root) : url[k] = root[k]
               /\ url[Len(root) + 1] = "/" /\ url[Len(root) + 2] = name
               /\ SubSeq(url, 1, Len(url) - Len(<<"/", name>>)) = root
<1> DEFINE path == <<"/", name>>
           url == root \o path
           M == Len(root)
           S == Letters \cup {"/", name}
           front == SubSeq(url, 1, M)
<1>1. path \in Seq(S) /\ Len(path) = 2 /\ path[1] = "/" /\ path[2] = name
  OBVIOUS
<1>2. root \in Seq(S) /\ M \in Nat
  OBVIOUS
<1>3. url \in Seq(S) /\ Joins(url, root, path)
  BY <1>1, <1>2, ConcatJoins
<1> HIDE DEF path, url, S
<1>5. /\ Len(url) = M + 2
      /\ \A k \in 1..M : url[k] = root[k]
      /\ url[M + 1] = "/" /\ url[M + 2] = name
  <2>1. 1 \in 1..Len(path) /\ 2 \in 1..Len(path)
    BY <1>1
  <2> QED
    BY <1>1, <1>3, <2>1 DEF Joins
<1>6. front = root
  <2>1. \A k \in 1..M : url[k] \in S
    BY <1>2, <1>5
  <2>2. front \in Seq(S) /\ Len(front) = M /\ \A k \in 1..M : front[k] = url[k]
    BY <1>2, <2>1, SubSeqProperties
  <2> HIDE DEF front
  <2>3. \A k \in 1..M : front[k] = root[k]
    BY <1>5, <2>2
  <2> QED
    BY <1>2, <2>2, <2>3, SeqEqual
<1>7. Len(url) - Len(path) = M
  BY <1>1, <1>2, <1>5
<1> QED
  BY <1>5, <1>6, <1>7 DEF url, path

(* It doubles no slash if the root has none at its end. *)
LEMMA RootAndPath ==
    ASSUME NEW root \in Seq(Letters), Trimmed(root), NEW name, name # "/"
    PROVE  LET url == root \o <<"/", name>>
           IN  Clean(url) /\ SubSeq(url, 1, Len(url) - Len(<<"/", name>>)) = root
<1> DEFINE path == <<"/", name>>
           url == root \o path
           M == Len(root)
<1>1. M \in Nat
  OBVIOUS
<1>2. /\ \A k \in 1..(M - 1) : ~(root[k] = "/" /\ root[k + 1] = "/")
      /\ M # 0 => root[M] # "/"
  BY DEF Trimmed, Clean
<1>3. /\ Len(url) = M + 2
      /\ \A k \in 1..M : url[k] = root[k]
      /\ url[M + 1] = "/" /\ url[M + 2] = name
      /\ SubSeq(url, 1, Len(url) - Len(path)) = root
  BY RootIsFront
<1> HIDE DEF path, url, M
<1>4. ASSUME NEW k \in 1..(M + 1) PROVE ~(url[k] = "/" /\ url[k + 1] = "/")
  <2>1. CASE k = M + 1
    BY <1>1, <1>3, <2>1
  <2>2. CASE k = M
    <3>1. k \in 1..M /\ M # 0
      BY <1>1, <2>2
    <3> QED
      BY <1>2, <1>3, <2>2, <3>1
  <2>3. CASE k < M
    <3>1. k \in 1..(M - 1) /\ k \in 1..M /\ k + 1 \in 1..M
      BY <1>1, <2>3
    <3> QED
      BY <1>2, <1>3, <3>1
  <2> QED
    BY <1>1, <2>1, <2>2, <2>3
<1>5. Len(url) - 1 = M + 1
  BY <1>1, <1>3
<1>6. Clean(url)
  BY <1>4, <1>5 DEF Clean
<1> QED
  BY <1>3, <1>6 DEF url, path

(* Whatever the URLs of the environment, as long as no slash of theirs is  *)
(* doubled, the clients of a valid configuration (getAPIURL of sams.go,    *)
(* gRPCURL of clientv1.go, NewClient of accounts/v1/client.go) call one    *)
(* instance of SAMS, with no slash doubled, and get their tokens there.    *)
LEMMA AlwaysOneInstance == OneInstance
<1> DEFINE grpcPath == <<"/", "api/grpc">>
           userPath == <<"/", "api/v1/user">>
           tokenPath == <<"/", "oauth/token">>
<1> SUFFICES ASSUME NEW env \in URLs \cup {NotSet}, NEW apiEnv \in URLs \cup {NotSet},
                    NEW config, config = NewConnConfigFromEnv(env, apiEnv), Validate(config)
             PROVE  /\ Clean(gRPCURL(config)) /\ Clean(userURL(config))
                    /\ Host(gRPCURL(config), grpcPath) = Host(userURL(config), userPath)
                    /\ TrimSlash(Host(TokenURL(config), tokenPath))
                        = Host(userURL(config), userPath)
  BY Zenon DEF OneInstance
<1> DEFINE url == getAPIURL(config)
           root == TrimSlash(url)
           lower == ToLower(root)
<1>1. url \in URLs \cup {DefaultExternalURL}
  BY DEF NewConnConfigFromEnv, Get, getAPIURL
<1>2. url \in Seq(Letters) /\ Clean(url)
  BY <1>1, ConfigurationAssumption DEF Letters
<1>3. \A symbol \in Letters :
          /\ Lower[symbol] \in Letters /\ Lower[Lower[symbol]] = Lower[symbol]
          /\ Lower[symbol] = "/" <=> symbol = "/"
  BY ConfigurationAssumption DEF Letters
<1> HIDE DEF url
<1>4. root \in Seq(Letters) /\ Trimmed(root)
  BY <1>2, TrimmedURL
<1>5. Host(TokenURL(config), tokenPath) = ToLower(url)
  BY <1>2, RootIsFront DEF Host, TokenURL, url
<1>6. TrimSlash(ToLower(url)) = lower
  BY <1>2, <1>3, LowerTrims
<1> HIDE DEF root
<1>7. /\ lower \in Seq(Letters) /\ Len(lower) = Len(root)
      /\ \A k \in 1..Len(root) : lower[k] = Lower[root[k]]
  BY <1>3, <1>4, LowerText
<1> HIDE DEF lower
<1>8. Trimmed(lower)
  <2>1. Len(root) \in Nat /\ \A k \in 1..Len(root) : root[k] \in Letters
    BY <1>4
  <2>2. \A k \in 1..Len(root) : lower[k] = "/" <=> root[k] = "/"
    BY <1>3, <1>7, <2>1
  <2>3. \A k \in 1..(Len(root) - 1) : ~(root[k] = "/" /\ root[k + 1] = "/")
    BY <1>4 DEF Trimmed, Clean
  <2>4. ASSUME NEW k \in 1..(Len(root) - 1) PROVE ~(lower[k] = "/" /\ lower[k + 1] = "/")
    <3>1. k \in 1..Len(root) /\ k + 1 \in 1..Len(root)
      BY <2>1
    <3> QED
      BY <2>2, <2>3, <3>1
  <2>5. ASSUME lower # <<>> PROVE lower[Len(lower)] # "/"
    <3>1. Len(root) # 0 /\ root # <<>>
      BY <1>4, <1>7, <2>5
    <3>2. Len(root) \in 1..Len(root) /\ root[Len(root)] # "/"
      BY <1>4, <2>1, <3>1 DEF Trimmed
    <3> QED
      BY <1>7, <2>2, <3>2
  <2> QED
    BY <1>7, <2>4, <2>5 DEF Trimmed, Clean
<1>9. ToLower(lower) = lower
  <2>1. /\ ToLower(lower) \in Seq(Letters) /\ Len(ToLower(lower)) = Len(lower)
        /\ \A k \in 1..Len(lower) : ToLower(lower)[k] = Lower[lower[k]]
    BY <1>3, <1>7, LowerText
  <2>2. \A k \in 1..Len(lower) : lower[k] = Lower[root[k]] /\ root[k] \in Letters
    BY <1>4, <1>7
  <2>3. \A k \in 1..Len(lower) : ToLower(lower)[k] = lower[k]
    BY <1>3, <2>1, <2>2
  <2> QED
    BY <1>7, <2>1, <2>3, SeqEqual
<1>10. gRPCURL(config) = root \o grpcPath /\ userURL(config) = lower \o userPath
  BY <1>6 DEF gRPCURL, userURL, url, root
<1>11. /\ Clean(root \o grpcPath)
       /\ SubSeq(root \o grpcPath, 1, Len(root \o grpcPath) - Len(grpcPath)) = root
  BY <1>4, RootAndPath
<1>12. /\ Clean(lower \o userPath)
       /\ SubSeq(lower \o userPath, 1, Len(lower \o userPath) - Len(userPath)) = lower
  BY <1>7, <1>8, RootAndPath
<1> HIDE DEF grpcPath, userPath
<1>13. Host(gRPCURL(config), grpcPath) = lower /\ Host(userURL(config), userPath) = lower
  BY <1>9, <1>10, <1>11, <1>12 DEF Host, lower
<1> QED
  BY <1>5, <1>6, <1>10, <1>11, <1>12, <1>13

-----------------------------------------------------------------------------
(* The properties of the library *)

(* Strategy matches exactly what is granted (scopes/scopes.go). *)
THEOREM StrategyIsGrantHolds == Spec => []StrategyIsGrant
<1>1. StrategyIsGrant
  BY StrategyAlwaysAgrees DEF StrategyIsGrant
<1> QED
  BY <1>1, PTL

(* The clients of a configuration call one instance of SAMS (sams.go,      *)
(* clientv1.go, accounts/v1/client.go).                                    *)
THEOREM OneInstanceHolds == Spec => []OneInstanceIsCalled
<1>1. OneInstanceIsCalled
  BY AlwaysOneInstance DEF OneInstanceIsCalled
<1> QED
  BY <1>1, PTL

(* A map of lists. *)
Maps(K, S) == UNION {[keys -> Seq(S)] : keys \in SUBSET K}

(* g is groups with one more value under key. *)
Puts(g, groups, key, value) ==
    /\ DOMAIN g = DOMAIN groups \cup {key}
    /\ \A k \in DOMAIN groups \ {key} : g[k] = groups[k]
    /\ key \in DOMAIN groups => g[key] = Append(groups[key], value)
    /\ key \notin DOMAIN groups => g[key] = <<value>>

LEMMA PutPuts ==
    ASSUME NEW K, NEW S, NEW groups \in Maps(K, S), NEW key \in K, NEW value \in S
    PROVE  /\ Registry!Put(groups, key, value) \in Maps(K, S)
           /\ Puts(Registry!Put(groups, key, value), groups, key, value)
<1> DEFINE g == Registry!Put(groups, key, value)
<1>1. PICK keys \in SUBSET K : groups \in [keys -> Seq(S)]
  BY DEF Maps
<1>2. g = [k \in keys \cup {key} |->
              IF k # key THEN groups[k]
              ELSE IF key \in keys THEN Append(groups[key], value) ELSE <<value>>]
  BY <1>1 DEF Registry!Put
<1> HIDE DEF g
<1>3. \A k \in keys \cup {key} : g[k] \in Seq(S)
  BY <1>1, <1>2
<1>4. keys \cup {key} \in SUBSET K /\ g \in [keys \cup {key} -> Seq(S)]
  BY <1>2, <1>3
<1>5. g \in Maps(K, S)
  BY <1>4 DEF Maps
<1> QED
  BY <1>1, <1>2, <1>5 DEF g, Puts

(* The maps that Group makes on its way. *)
Fills(f, values, keys, kept) ==
    /\ f[0] = [key \in {} |-> <<>>]
    /\ \A n \in 1..Len(values) :
        f[n] = IF n \in kept THEN Registry!Put(f[n - 1], keys[n], values[n]) ELSE f[n - 1]
    /\ Registry!Group(values, keys, kept) = f[Len(values)]

LEMMA GroupUpTo ==
    ASSUME NEW K, NEW S, NEW values \in Seq(S), NEW keys \in [1..Len(values) -> K], NEW kept
    PROVE  \E f \in [0..Len(values) -> Maps(K, S)] : Fills(f, values, keys, kept)
<1> DEFINE N == Len(values)
           V == Maps(K, S)
           first == [key \in {} |-> <<>>]
           Then(n, m) == IF n \in kept THEN Registry!Put(m, keys[n], values[n]) ELSE m
           next == [n \in 1..N |-> [m \in V |-> Then(n, m)]]
           upTo[n \in 0..N] ==
               IF n = 0 THEN first
               ELSE IF n \in kept THEN Registry!Put(upTo[n - 1], keys[n], values[n])
                                  ELSE upTo[n - 1]
<1>1. N \in Nat /\ \A n \in 1..N : keys[n] \in K /\ values[n] \in S
  OBVIOUS
<1>2. Registry!Group(values, keys, kept) = upTo[N]
  BY DEF Registry!Group
<1> HIDE DEF N
<1>3. first \in V
  <2>1. {} \in SUBSET K /\ first \in [{} -> Seq(S)]
    OBVIOUS
  <2> QED
    BY <2>1 DEF Maps
<1>4. \A n \in 1..N, m \in V : Then(n, m) \in V
  <2> SUFFICES ASSUME NEW n \in 1..N, NEW m \in V PROVE Then(n, m) \in V
    OBVIOUS
  <2>1. Registry!Put(m, keys[n], values[n]) \in V
    BY <1>1, PutPuts
  <2> QED
    BY <2>1
<1> HIDE DEF V, first
<1>5. next \in [1..N -> [V -> V]]
  <2> HIDE DEF Then
  <2> QED
    BY <1>4
<1>6. \A n \in 1..N, m \in V : next[n][m] = Then(n, m)
  OBVIOUS
<1> HIDE DEF next
<1>7. PICK f \in [0..N -> V] : f[0] = first /\ \A n \in 1..N : f[n] = next[n][f[n - 1]]
  <2>1. \E f \in [0..N -> V] : Unfolds(f, N, first, next)
    BY <1>1, <1>3, <1>5, Recursion, Zenon
  <2> QED
    BY <2>1 DEF Unfolds
<1>8. \A n \in 1..N : f[n] = Then(n, f[n - 1])
  <2>1. \A n \in 1..N : f[n - 1] \in V
    BY <1>1
  <2> QED
    BY <1>6, <1>7, <2>1
<1>9. f = [n \in 0..N |-> IF n = 0 THEN first ELSE Then(n, f[n - 1])]
  <2> HIDE DEF Then
  <2> QED
    BY <1>1, <1>7, <1>8
<1>10. upTo = [n \in 0..N |-> IF n = 0 THEN first ELSE Then(n, upTo[n - 1])]
  BY <1>9
<1> HIDE DEF upTo
<1>11. upTo[0] = first /\ \A n \in 1..N : upTo[n] = Then(n, upTo[n - 1])
  <2> HIDE DEF Then
  <2> QED
    BY <1>1, <1>10
<1>12. \A n \in 0..N : upTo[n] \in V
  <2> DEFINE T == {n \in 0..N : upTo[n] \in V}
  <2>1. 0 \in T
    BY <1>1, <1>3, <1>11
  <2>2. ASSUME NEW n \in 1..N, n - 1 \in T PROVE n \in T
    <3> HIDE DEF Then
    <3> QED
      BY <1>1, <1>4, <1>11, <2>2
  <2>3. 0..N \subseteq T
    <3> HIDE DEF T
    <3> QED
      BY <1>1, <2>1, <2>2, BoundedInduction
  <2> QED
    BY <2>3
<1>13. upTo \in [0..N -> V]
  <2> HIDE DEF Then
  <2> QED
    BY <1>10, <1>12
<1> QED
  BY <1>2, <1>11, <1>13 DEF N, V, first, Fills

(* The lists of g have, under the key of each, the values before the end    *)
(* that are kept.                                                          *)
Collected(g, values, keys, kept) ==
    /\ DOMAIN g = {keys[n] : n \in kept}
    /\ \A key \in DOMAIN g : \A value :
        Registry!Contains(g[key], value)
            <=> \E n \in kept : keys[n] = key /\ values[n] = value

LEMMA PutCollects ==
    ASSUME NEW K, NEW S, NEW values \in Seq(S), NEW keys \in [1..Len(values) -> K],
           NEW kept \in SUBSET (1..Len(values)), NEW n \in 1..Len(values),
           NEW g \in Maps(K, S), Collected(g, values, keys, kept)
    PROVE  Collected(Registry!Put(g, keys[n], values[n]), values, keys, kept \cup {n})
<1> DEFINE new == Registry!Put(g, keys[n], values[n])
           all == kept \cup {n}
           In(key, value) == \E k \in kept : keys[k] = key /\ values[k] = value
<1>1. keys[n] \in K /\ values[n] \in S
  OBVIOUS
<1>2. Puts(new, g, keys[n], values[n])
  BY <1>1, PutPuts
<1> HIDE DEF new
<1>3. /\ DOMAIN g = {keys[k] : k \in kept}
      /\ \A key \in DOMAIN g : \A value : Registry!Contains(g[key], value) <=> In(key, value)
  BY DEF Collected
<1>4. DOMAIN new = {keys[k] : k \in all}
  BY <1>2, <1>3 DEF Puts
<1>5. ASSUME NEW key \in DOMAIN new, NEW value
      PROVE  Registry!Contains(new[key], value)
                <=> \E k \in all : keys[k] = key /\ values[k] = value
  <2>1. CASE key # keys[n]
    <3>1. key \in DOMAIN g /\ new[key] = g[key]
      BY <1>2, <2>1 DEF Puts
    <3>2. Registry!Contains(g[key], value) <=> In(key, value)
      BY <1>3, <3>1
    <3> QED
      BY <2>1, <3>1, <3>2
  <2>2. CASE key = keys[n] /\ key \in DOMAIN g
    <3>1. g[key] \in Seq(S) /\ new[key] = Append(g[key], values[n])
      BY <1>2, <2>2 DEF Maps, Puts
    <3>2. Registry!Contains(new[key], value)
            <=> Registry!Contains(g[key], value) \/ value = values[n]
      <4>1. /\ Len(new[key]) = Len(g[key]) + 1 /\ Len(g[key]) \in Nat
            /\ new[key][Len(g[key]) + 1] = values[n]
            /\ \A i \in 1..Len(g[key]) : new[key][i] = g[key][i]
        BY <1>1, <3>1, AppendProperties
      <4>2. \A i : i \in 1..Len(new[key]) <=> i \in 1..Len(g[key]) \/ i = Len(g[key]) + 1
        BY <4>1
      <4>3. 1..Len(new[key]) = 1..Len(g[key]) \cup {Len(g[key]) + 1}
        BY <4>2
      <4> QED
        BY <4>1, <4>3 DEF Registry!Contains
    <3>3. Registry!Contains(g[key], value) <=> In(key, value)
      BY <1>3, <2>2
    <3>4. (\E k \in all : keys[k] = key /\ values[k] = value)
            <=> In(key, value) \/ value = values[n]
      BY <2>2
    <3> QED
      BY <3>2, <3>3, <3>4
  <2>3. CASE key = keys[n] /\ key \notin DOMAIN g
    <3>1. Registry!Contains(new[key], value) <=> value = values[n]
      BY <1>2, <2>3 DEF Registry!Contains, Puts
    <3>2. \A k \in kept : keys[k] # key
      BY <1>3, <2>3
    <3> QED
      BY <2>3, <3>1, <3>2
  <2> QED
    BY <2>1, <2>2, <2>3
<1> QED
  BY <1>4, <1>5 DEF Collected, new

LEMMA GroupCollects ==
    ASSUME NEW K, NEW S, NEW values \in Seq(S), NEW keys \in [1..Len(values) -> K],
           NEW kept \in SUBSET (1..Len(values))
    PROVE  Collected(Registry!Group(values, keys, kept), values, keys, kept)
<1> DEFINE N == Len(values)
           Before(n) == {k \in kept : k <= n}
<1>1. PICK f \in [0..N -> Maps(K, S)] :
          Fills(f, values, keys, kept)
  BY GroupUpTo
<1>0. /\ f[0] = [key \in {} |-> <<>>]
      /\ \A n \in 1..N :
           f[n] = IF n \in kept THEN Registry!Put(f[n - 1], keys[n], values[n]) ELSE f[n - 1]
      /\ Registry!Group(values, keys, kept) = f[N]
  BY <1>1 DEF Fills
<1> DEFINE T == {n \in 0..N : Collected(f[n], values, keys, Before(n))}
<1>2. N \in Nat
  OBVIOUS
<1>3. 0 \in T
  <2>0. \A k \in kept : k \in 1..N
    OBVIOUS
  <2>1. Before(0) = {}
    <3> HIDE DEF N
    <3> QED
      BY <1>2, <2>0
  <2>2. DOMAIN f[0] = {}
    BY <1>0
  <2> QED
    BY <1>2, <2>1, <2>2 DEF Collected
<1>4. ASSUME NEW n \in 1..N, n - 1 \in T PROVE n \in T
  <2>1. Collected(f[n - 1], values, keys, Before(n - 1)) /\ f[n - 1] \in Maps(K, S)
    BY <1>2, <1>4
  <2>2. CASE n \in kept
    <3>1. Before(n) = Before(n - 1) \cup {n} /\ Before(n - 1) \in SUBSET (1..N)
      BY <2>2
    <3> HIDE DEF Before
    <3>2. f[n] = Registry!Put(f[n - 1], keys[n], values[n])
      BY <1>0, <2>2
    <3>3. Collected(f[n], values, keys, Before(n))
      BY <2>1, <3>1, <3>2, PutCollects
    <3> QED
      BY <1>2, <3>3
  <2>3. CASE n \notin kept
    <3>1. Before(n) = Before(n - 1) /\ f[n] = f[n - 1]
      BY <1>0, <2>3
    <3> QED
      BY <1>2, <2>1, <3>1
  <2> QED
    BY <2>2, <2>3
<1>5. N \in T
  <2> HIDE DEF T
  <2>1. 0..N \subseteq T
    BY <1>2, <1>3, <1>4, BoundedInduction
  <2> QED
    BY <1>2, <2>1
<1>6. Before(N) = kept
  <2>1. \A k \in kept : k \in 1..N
    OBVIOUS
  <2> HIDE DEF N
  <2> QED
    BY <1>2, <2>1
<1> QED
  BY <1>0, <1>5, <1>6

-----------------------------------------------------------------------------
(* The registry of roles *)

LEMMA IndexIsIndex == ASSUME NEW text PROVE Registry!Index(text) = Index(text)
  BY DEF Registry!Index, Index, Registry!Separator, Separator

(* A role is read as it was made. *)
LEMMA RoleIsRead ==
    ASSUME NEW S, Separator \in Seq(S), NEW service \in Seq(S), NEW name \in Seq(S),
           Plain(service)
    PROVE  /\ Splits(Registry!ToRole(service, name), service, name)
           /\ Registry!ServiceOf(Registry!ToRole(service, name)) = {service}
<1> DEFINE role == Registry!ToRole(service, name)
<1>1. role = (service \o Separator) \o name
  BY DEF Registry!ToRole, Registry!Separator, Separator
<1>2. role = service \o (Separator \o name)
  BY <1>1, ConcatAssociates DEF Associates
<1> HIDE DEF role
<1>3. Splits(role, service, name)
  BY <1>2, FirstSeparator
<1>4. Index(role) = Len(service) + 1 /\ SubSeq(role, 1, Len(service)) = service
  BY <1>3 DEF Splits
<1>5. Len(service) \in Nat
  OBVIOUS
<1>6. Index(role) # 0 /\ Index(role) - 1 = Len(service)
  BY <1>4, <1>5
<1>7. Registry!ServiceOf(role) = {service}
  BY <1>4, <1>6, IndexIsIndex DEF Registry!ServiceOf
<1> QED
  BY <1>3, <1>7 DEF role

(* The words of the table and the separator's colon. *)
RoleWords ==
    {":", "dotcom", "ssc", "enterprise_portal", "workspaces", "release_operations",
     "site_admin", "admin", "customer_admin", "service_admin", "release_admin"}

Types == {Registry!Service, Registry!EnterpriseSubscription}

Infos == [id : Seq(RoleWords), service : Seq(RoleWords), resourceType : Types]

(* What each entry of roles/roles.go is made of. *)
Entry(k) ==
    CASE k = 1 -> Registry!roleInfo(Registry!RoleDotcomSiteAdmin, Registry!ServiceDotcom,
                                    Registry!Service)
      [] k = 2 -> Registry!roleInfo(Registry!RoleSSCAdmin, Registry!ServiceSSC,
                                    Registry!Service)
      [] k = 3 -> Registry!roleInfo(Registry!RoleEnterprisePortalCustomerAdmin,
                                    Registry!ServiceEnterprisePortal,
                                    Registry!EnterpriseSubscription)
      [] k = 4 -> Registry!roleInfo(Registry!RoleEnterprisePortalServiceAdmin,
                                    Registry!ServiceEnterprisePortal, Registry!Service)
      [] k = 5 -> Registry!roleInfo(Registry!RoleWorkspacesServiceAdmin,
                                    Registry!ServiceWorkspaces, Registry!Service)
      [] OTHER -> Registry!roleInfo(Registry!RoleReleaseOperationsAdmin,
                                    Registry!ServiceReleaseOperations, Registry!Service)

(* The text of an entry is made of its service and its name. *)
MadeOf(info, service, name) ==
    /\ info.service = service
    /\ Splits(info.id, service, name)
    /\ Registry!ServiceOf(info.id) = {service}

(* An entry of a role with the service that the role is made of. *)
InfoMade(service, name, type) ==
    Registry!roleInfo(Registry!ToRole(<<service>>, <<name>>), <<service>>, type)

LEMMA InfoOf ==
    ASSUME NEW service \in RoleWords, NEW name \in RoleWords, NEW type \in Types, service # ":"
    PROVE  /\ InfoMade(service, name, type) \in Infos
           /\ MadeOf(InfoMade(service, name, type), <<service>>, <<name>>)
<1> DEFINE info == InfoMade(service, name, type)
           role == Registry!ToRole(<<service>>, <<name>>)
<1>1. info = [id |-> role, service |-> <<service>>, resourceType |-> type]
  BY DEF InfoMade, Registry!roleInfo
<1>2. ":" \in RoleWords
  BY DEF RoleWords
<1>3. <<service>> \in Seq(RoleWords) /\ <<name>> \in Seq(RoleWords) /\ Separator \in Seq(RoleWords)
  BY <1>2 DEF Separator
<1>4. Plain(<<service>>)
  BY DEF Plain
<1>5. role \in Seq(RoleWords)
  BY <1>3, ConcatProperties DEF Registry!ToRole, Registry!Separator, Separator
<1>6. Splits(role, <<service>>, <<name>>) /\ Registry!ServiceOf(role) = {<<service>>}
  BY <1>3, <1>4, RoleIsRead
<1> HIDE DEF role, info
<1>7. info.id = role /\ info.service = <<service>>
  BY <1>1
<1>8. info \in Infos
  BY <1>1, <1>3, <1>5 DEF Infos
<1> QED
  BY <1>6, <1>7, <1>8 DEF info, MadeOf

(* Each entry says of its role the service that the role's text begins with. *)
LEMMA EntriesAre ==
    /\ Entry(1) = InfoMade("dotcom", "site_admin", Registry!Service)
    /\ Entry(2) = InfoMade("ssc", "admin", Registry!Service)
    /\ Entry(3) =
        InfoMade("enterprise_portal", "customer_admin", Registry!EnterpriseSubscription)
    /\ Entry(4) = InfoMade("enterprise_portal", "service_admin", Registry!Service)
    /\ Entry(5) = InfoMade("workspaces", "service_admin", Registry!Service)
    /\ Entry(6) = InfoMade("release_operations", "release_admin", Registry!Service)
  BY DEF Entry, InfoMade, Registry!RoleDotcomSiteAdmin, Registry!RoleSSCAdmin,
         Registry!RoleEnterprisePortalCustomerAdmin, Registry!RoleEnterprisePortalServiceAdmin,
         Registry!RoleWorkspacesServiceAdmin, Registry!RoleReleaseOperationsAdmin,
         Registry!ServiceDotcom, Registry!ServiceSSC, Registry!ServiceEnterprisePortal,
         Registry!ServiceWorkspaces, Registry!ServiceReleaseOperations

LEMMA RegisteredRoles ==
    /\ Registry!registeredRoles \in Seq(Infos)
    /\ Len(Registry!registeredRoles) = 6
    /\ \A k \in 1..6 : Registry!registeredRoles[k] = Entry(k)
<1> DEFINE a == Registry!dotcomRoles
           b == Registry!sscRoles
           c == Registry!enterprisePortalRoles
           d == Registry!workspacesRoles
           e == Registry!releaseOperationsRoles
<1>1. \A k \in 1..6 : Entry(k) \in Infos
  <2>1. Registry!Service \in Types /\ Registry!EnterpriseSubscription \in Types
    BY DEF Types
  <2>2. Entry(1) \in Infos
    BY <2>1, EntriesAre, InfoOf DEF RoleWords
  <2>3. Entry(2) \in Infos
    BY <2>1, EntriesAre, InfoOf DEF RoleWords
  <2>4. Entry(3) \in Infos
    BY <2>1, EntriesAre, InfoOf DEF RoleWords
  <2>5. Entry(4) \in Infos
    BY <2>1, EntriesAre, InfoOf DEF RoleWords
  <2>6. Entry(5) \in Infos
    BY <2>1, EntriesAre, InfoOf DEF RoleWords
  <2>7. Entry(6) \in Infos
    BY <2>1, EntriesAre, InfoOf DEF RoleWords
  <2> QED
    BY <2>2, <2>3, <2>4, <2>5, <2>6, <2>7
<1>2. /\ a = <<Entry(1)>> /\ b = <<Entry(2)>> /\ c = <<Entry(3), Entry(4)>>
      /\ d = <<Entry(5)>> /\ e = <<Entry(6)>>
  BY DEF Entry, Registry!dotcomRoles, Registry!sscRoles, Registry!enterprisePortalRoles,
         Registry!workspacesRoles, Registry!releaseOperationsRoles
<1>3. Registry!registeredRoles = (((a \o b) \o c) \o d) \o e
  BY DEF Registry!registeredRoles
<1> HIDE DEF a, b, c, d, e
<1>4. \A k \in {1, 2, 3, 4, 5, 6} : Entry(k) \in Infos
  BY <1>1
<1> QED
  BY <1>2, <1>3, <1>4

(* The table says of each role what its text says, and has each role once. *)
LEMMA TableAgrees ==
    LET table == Registry!registeredRoles IN
    /\ \A k \in 1..6 : Registry!ServiceOf(table[k].id) = {table[k].service}
    /\ \A j, k \in 1..6 : table[j].id = table[k].id => j = k
<1> DEFINE table == Registry!registeredRoles
           Name(k) == CASE k = 1 -> <<"site_admin">> [] k = 2 -> <<"admin">>
                        [] k = 3 -> <<"customer_admin">> [] k = 4 -> <<"service_admin">>
                        [] k = 5 -> <<"service_admin">> [] OTHER -> <<"release_admin">>
           Service(k) == CASE k = 1 -> <<"dotcom">> [] k = 2 -> <<"ssc">>
                        [] k = 3 -> <<"enterprise_portal">> [] k = 4 -> <<"enterprise_portal">>
                        [] k = 5 -> <<"workspaces">> [] OTHER -> <<"release_operations">>
           Said(k) == MadeOf(table[k], Service(k), Name(k))
<1>1. \A k \in 1..6 : table[k] = Entry(k)
  BY RegisteredRoles
<1>2. Registry!Service \in Types /\ Registry!EnterpriseSubscription \in Types
  BY DEF Types
<1> HIDE DEF table
<1>3. MadeOf(table[1], <<"dotcom">>, <<"site_admin">>)
  BY <1>1, <1>2, EntriesAre, InfoOf DEF RoleWords
<1>4. MadeOf(table[2], <<"ssc">>, <<"admin">>)
  BY <1>1, <1>2, EntriesAre, InfoOf DEF RoleWords
<1>5. MadeOf(table[3], <<"enterprise_portal">>, <<"customer_admin">>)
  BY <1>1, <1>2, EntriesAre, InfoOf DEF RoleWords
<1>6. MadeOf(table[4], <<"enterprise_portal">>, <<"service_admin">>)
  BY <1>1, <1>2, EntriesAre, InfoOf DEF RoleWords
<1>7. MadeOf(table[5], <<"workspaces">>, <<"service_admin">>)
  BY <1>1, <1>2, EntriesAre, InfoOf DEF RoleWords
<1>8. MadeOf(table[6], <<"release_operations">>, <<"release_admin">>)
  BY <1>1, <1>2, EntriesAre, InfoOf DEF RoleWords
<1>9. \A k \in 1..6 : Said(k)
  <2>1. /\ Said(1) /\ Said(2) /\ Said(3) /\ Said(4) /\ Said(5) /\ Said(6)
    BY <1>3, <1>4, <1>5, <1>6, <1>7, <1>8
  <2> HIDE DEF Said
  <2> QED
    BY <2>1
<1>10. ASSUME NEW j \in 1..6, NEW k \in 1..6, table[j].id = table[k].id PROVE j = k
  <2>1. Len(Service(j)) = 1 /\ Len(Service(k)) = 1
    OBVIOUS
  <2>2. Splits(table[j].id, Service(j), Name(j)) /\ Splits(table[j].id, Service(k), Name(k))
    BY <1>9, <1>10 DEF MadeOf
  <2>3. Service(j) = Service(k) /\ Name(j) = Name(k)
    <3> HIDE DEF Service, Name
    <3> QED
      BY <2>1, <2>2 DEF Splits
  <2>4. Service(j)[1] = Service(k)[1] /\ Name(j)[1] = Name(k)[1]
    BY <2>3
  <2> QED
    BY <2>4
<1> QED
  BY <1>9, <1>10 DEF table, MadeOf

(* The keys whose lists have value, and those that value was kept under.   *)
Under(g, value) == {key \in DOMAIN g : Registry!Contains(g[key], value)}

KeptUnder(values, keys, kept, value) == {keys[n] : n \in {k \in kept : values[k] = value}}

LEMMA KeysOfValue ==
    ASSUME NEW g, NEW values, NEW keys, NEW kept, Collected(g, values, keys, kept), NEW value
    PROVE  Under(g, value) = KeptUnder(values, keys, kept, value)
<1> DEFINE Holds(key) == Registry!Contains(g[key], value)
           Kept(key) == \E n \in kept : keys[n] = key /\ values[n] = value
<1>1. \A key \in DOMAIN g : Holds(key) <=> Kept(key)
  BY DEF Collected
<1>2. DOMAIN g = {keys[n] : n \in kept}
  BY DEF Collected
<1> HIDE DEF Holds
<1>3. {key \in DOMAIN g : Holds(key)} = {keys[n] : n \in {k \in kept : values[k] = value}}
  BY <1>1, <1>2
<1> QED
  BY <1>3 DEF Holds, Under, KeptUnder

LEMMA ElementsOf ==
    ASSUME NEW S, NEW list \in Seq(S), NEW n \in Nat, Len(list) = n
    PROVE  DOMAIN list = 1..n /\ \A k \in 1..n : list[k] \in S
  OBVIOUS

(* The lookups of roles/roles.go agree with what a role says of itself. *)
LEMMA RegistryAgrees == Registry!RolesAgree
<1> DEFINE table == Registry!registeredRoles
           ids == Registry!List
           services == Registry!RoleServices
           types == Registry!ResourceTypes
           service == {k \in 1..6 : Registry!IsService(types[k])}
           Texts == Seq(RoleWords)
<1>1. /\ DOMAIN table = 1..6 /\ \A k \in 1..6 : table[k] \in Infos
      /\ \A k \in 1..6 : Registry!ServiceOf(table[k].id) = {table[k].service}
      /\ \A j, k \in 1..6 : table[j].id = table[k].id => j = k
  <2>1. table \in Seq(Infos) /\ Len(table) = 6
    BY ONLY RegisteredRoles
  <2>2. /\ \A k \in 1..6 : Registry!ServiceOf(table[k].id) = {table[k].service}
        /\ \A j, k \in 1..6 : table[j].id = table[k].id => j = k
    BY ONLY TableAgrees
  <2>3. DOMAIN table = 1..6 /\ \A k \in 1..6 : table[k] \in Infos
    BY ONLY <2>1, ElementsOf
  <2> QED
    BY <2>2, <2>3
<1>2. /\ ids = [k \in 1..6 |-> table[k].id]
      /\ services = [k \in 1..6 |-> table[k].service]
      /\ types = [k \in 1..6 |-> table[k].resourceType]
  BY <1>1 DEF Registry!List, Registry!RoleServices, Registry!ResourceTypes
<1> HIDE DEF table, ids, services, types
<1>3. /\ ids \in Seq(Texts) /\ Len(ids) = 6 /\ DOMAIN ids = 1..6
      /\ services \in [1..6 -> Texts] /\ types \in [1..6 -> Types]
  BY <1>1, <1>2 DEF Infos
<1>4. /\ Collected(Registry!ByService, ids, services, 1..6)
      /\ Collected(Registry!ByResourceType, ids, types, 1..6)
      /\ Collected(Registry!ServiceRolesByService, ids, services, service)
  <2> HIDE DEF Texts
  <2>1. service \in SUBSET (1..6) /\ 1..6 \in SUBSET (1..6)
    OBVIOUS
  <2>2. /\ Registry!ByService = Registry!Group(ids, services, 1..6)
        /\ Registry!ByResourceType = Registry!Group(ids, types, 1..6)
        /\ Registry!ServiceRolesByService = Registry!Group(ids, services, service)
    BY <1>3 DEF Registry!ByService, Registry!ByResourceType, Registry!ServiceRolesByService,
                ids, services, types
  <2> HIDE DEF service
  <2> QED
    BY <1>3, <2>1, <2>2, GroupCollects
<1> HIDE DEF service
<1>5. \A j, k \in 1..6 : ids[j] = ids[k] => j = k
  BY <1>1, <1>2
<1>6. Registry!IsInjective(ids)
  BY <1>3, <1>5 DEF Registry!IsInjective
<1>7. Registry!Range(types) = DOMAIN Registry!ByResourceType
  BY <1>3, <1>4 DEF Registry!Range, Collected
<1>8. ASSUME NEW r \in Registry!Range(ids)
      PROVE  /\ Registry!ServiceOf(r) =
                    {s \in DOMAIN Registry!ByService : Registry!Contains(Registry!ByService[s], r)}
             /\ {Registry!ResourceTypeOf(r)} =
                    {t \in DOMAIN Registry!ByResourceType :
                        Registry!Contains(Registry!ByResourceType[t], r)}
             /\ Registry!IsService(Registry!ResourceTypeOf(r)) <=>
                    \E s \in DOMAIN Registry!ServiceRolesByService :
                        Registry!Contains(Registry!ServiceRolesByService[s], r)
  <2>1. PICK k \in 1..6 : ids[k] = r
    BY <1>3, <1>8 DEF Registry!Range
  <2>2. \A j \in 1..6 : ids[j] = r => j = k
    BY <1>5, <2>1
  <2>3. Registry!ServiceOf(r) = {services[k]}
    BY <1>1, <1>2, <2>1
  <2>4. Registry!ResourceTypeOf(r) = types[k]
    <3> DEFINE at == {j \in DOMAIN table : table[j].id = r}
    <3>1. at = {k}
      BY <1>1, <1>2, <2>1, <2>2
    <3>2. Registry!ResourceTypeOf(r) =
            IF at = {} THEN Registry!Unknown
            ELSE table[CHOOSE i \in at : \A j \in at : i <= j].resourceType
      BY DEF Registry!ResourceTypeOf, table
    <3> HIDE DEF at
    <3>3. (CHOOSE i \in at : \A j \in at : i <= j) = k
      BY <3>1
    <3> QED
      BY <1>2, <3>1, <3>2, <3>3
  <2> DEFINE at == {n \in 1..6 : ids[n] = r}
  <2>5. at = {k} /\ {n \in service : ids[n] = r} = IF k \in service THEN {k} ELSE {}
    BY <2>1, <2>2 DEF service
  <2>6. /\ Under(Registry!ByService, r) = KeptUnder(ids, services, 1..6, r)
        /\ Under(Registry!ByResourceType, r) = KeptUnder(ids, types, 1..6, r)
        /\ Under(Registry!ServiceRolesByService, r) = KeptUnder(ids, services, service, r)
    BY <1>4, KeysOfValue
  <2>7. /\ Under(Registry!ByService, r) = {services[k]}
        /\ Under(Registry!ByResourceType, r) = {types[k]}
    BY <2>5, <2>6 DEF KeptUnder
  <2>8. k \in service <=> Registry!IsService(types[k])
    BY DEF service
  <2>9. Registry!IsService(types[k]) <=> Under(Registry!ServiceRolesByService, r) # {}
    BY <2>5, <2>6, <2>8 DEF KeptUnder
  <2> QED
    BY <2>3, <2>4, <2>7, <2>9 DEF Under
<1> QED
  BY <1>6, <1>7, <1>8 DEF Registry!RolesAgree, ids, types

(* A role's text and the registry agree on its service and type            *)
(* (roles/roles.go).                                                       *)
THEOREM RegistryIsConsistentHolds == Spec => []RegistryIsConsistent
<1>1. RegistryIsConsistent
  BY RegistryAgrees DEF RegistryIsConsistent
<1> QED
  BY <1>1, PTL

-----------------------------------------------------------------------------
(* The list of allowed scopes *)

LEMMA APIReads ==
    ASSUME NEW text, NEW a, NEW b, NEW c
    PROVE  /\ API!ToScope(a, b, c) = ToScope(a, b, c)
           /\ API!ParseScope(text) = ParseScope(text)
           /\ API!Canonical(text) = Canonical(text)
<1>1. API!ToScope(a, b, c) = ToScope(a, b, c)
  BY DEF API!ToScope, ToScope, API!Separator, Separator
<1>2. \A t : API!Index(t) = Index(t)
  BY DEF API!Index, Index, API!Separator, Separator
<1>3. API!ParseScope(text) = ParseScope(text)
  BY <1>2 DEF API!ParseScope, ParseScope, API!Parsed, Parsed, API!Invalid, Invalid,
              API!OpenID, OpenID, API!Email, Email, API!OfflineAccess, OfflineAccess,
              API!ClientSSC, ClientSSC, API!ClientDotcom, ClientDotcom
<1>4. API!Canonical(text) = Canonical(text)
  BY DEF API!Canonical, Canonical, API!Profile, Profile, API!ToScope, ToScope, API!SAMS, SAMS,
         API!UserProfile, UserProfile, API!ActionRead, ActionRead, API!Separator, Separator
<1> QED
  BY <1>1, <1>3, <1>4

(* list has each element of set once. *)
Lists(list, S, set) ==
    /\ list \in Seq(S)
    /\ \A i, j \in 1..Len(list) : list[i] = list[j] => i = j
    /\ set = {list[i] : i \in 1..Len(list)}

LEMMA ConcatLists ==
    ASSUME NEW S, NEW x, NEW y, NEW X, NEW Y, Lists(x, S, X), Lists(y, S, Y), X \cap Y = {}
    PROVE  Lists(x \o y, S, X \cup Y)
<1> DEFINE M == Len(x)
           N == Len(y)
           both == x \o y
<1>1. /\ x \in Seq(S) /\ y \in Seq(S)
      /\ \A i, j \in 1..M : x[i] = x[j] => i = j
      /\ \A i, j \in 1..N : y[i] = y[j] => i = j
      /\ X = {x[i] : i \in 1..M} /\ Y = {y[i] : i \in 1..N}
  BY DEF Lists
<1>2. both \in Seq(S) /\ Joins(both, x, y) /\ M \in Nat /\ N \in Nat
  BY <1>1, ConcatJoins
<1> HIDE DEF both
<1>3. /\ Len(both) = M + N
      /\ \A i \in 1..M : both[i] = x[i]
      /\ \A i \in 1..N : both[M + i] = y[i]
  BY <1>2 DEF Joins
<1> HIDE DEF M, N
<1>4. \A i \in 1..(M + N) : i \in 1..M \/ (i - M \in 1..N /\ i = M + (i - M))
  BY <1>2
<1>5. \A i \in 1..M : i \in 1..(M + N)
  BY <1>2
<1>6. \A i \in 1..N : M + i \in 1..(M + N)
  BY <1>2
<1>7. \A i \in 1..(M + N) :
          \/ i \in 1..M /\ both[i] = x[i] /\ both[i] \in X
          \/ i - M \in 1..N /\ i = M + (i - M) /\ both[i] = y[i - M] /\ both[i] \in Y
  BY <1>1, <1>3, <1>4
<1>8. ASSUME NEW i \in 1..(M + N), NEW j \in 1..(M + N), both[i] = both[j] PROVE i = j
  <2>1. CASE both[i] \in X
    <3>1. i \in 1..M /\ j \in 1..M /\ x[i] = x[j]
      BY <1>7, <1>8, <2>1
    <3> QED
      BY <1>1, <3>1
  <2>2. CASE both[i] \in Y
    <3>1. /\ i - M \in 1..N /\ j - M \in 1..N /\ y[i - M] = y[j - M]
          /\ i = M + (i - M) /\ j = M + (j - M)
      BY <1>7, <1>8, <2>2
    <3>2. i - M = j - M
      BY <1>1, <3>1
    <3> QED
      BY <3>1, <3>2
  <2> QED
    BY <1>7, <2>1, <2>2
<1>9. X \cup Y = {both[i] : i \in 1..(M + N)}
  <2>1. \A s \in X : \E i \in 1..(M + N) : both[i] = s
    BY <1>1, <1>3, <1>5
  <2>2. \A s \in Y : \E i \in 1..(M + N) : both[i] = s
    BY <1>1, <1>3, <1>6
  <2>3. \A i \in 1..(M + N) : both[i] \in X \cup Y
    BY <1>7
  <2> QED
    BY <2>1, <2>2, <2>3
<1> QED
  BY <1>2, <1>3, <1>8, <1>9 DEF Lists, both

(* Parts of a scope, of words in W. *)
Parts(W) == {part \in Seq(W) : part # <<>> /\ Plain(part)}

AllActions == {API!ActionRead, API!ActionWrite, API!ActionDelete}

(* The actions, and the scopes, of a permission. *)
ActionsFor(permission) ==
    IF permission = API!UserMetadataInternal THEN {API!ActionRead} ELSE AllActions

ScopesFor(service, permission) ==
    {API!ToScope(service, permission, action) : action \in ActionsFor(permission)}

(* W has the words that all scopes share. *)
Shared(W) == {":", "read", "write", "delete"} \subseteq W

LEMMA ScopeOfParts ==
    ASSUME NEW W, Shared(W), NEW s \in Parts(W), NEW p \in Parts(W), NEW a \in AllActions
    PROVE  /\ API!ToScope(s, p, a) \in Seq(W)
           /\ API!ToScope(s, p, a) \notin Builtin \cup {Profile}
           /\ API!ParseScope(API!ToScope(s, p, a)) = Parsed(s, p, a)
<1>1. s \in Seq(W) /\ p \in Seq(W) /\ Plain(s) /\ Plain(p) /\ s # <<>> /\ p # <<>>
  BY DEF Parts
<1>2. a \in Seq(W) /\ a # <<>>
  <2>1. \A word \in W : <<word>> \in Seq(W) /\ <<word>> # <<>>
    OBVIOUS
  <2>2. a \in {<<"read">>, <<"write">>, <<"delete">>}
    BY DEF AllActions, API!ActionRead, API!ActionWrite, API!ActionDelete
  <2> QED
    BY <2>1, <2>2 DEF Shared
<1>3. Separator \in Seq(W)
  BY DEF Shared, Separator
<1>4. ToScope(s, p, a) \in Seq(W) /\ IsScopeOf(ToScope(s, p, a), s, p, a)
  BY <1>1, <1>2, <1>3, ScopeIsRead
<1> QED
  BY <1>1, <1>2, <1>4, APIReads DEF IsScopeOf

LEMMA ScopesDiffer ==
    ASSUME NEW W, Shared(W), NEW s \in Parts(W), NEW p \in Parts(W), NEW a \in AllActions,
           NEW t \in Parts(W), NEW q \in Parts(W), NEW b \in AllActions,
           API!ToScope(s, p, a) = API!ToScope(t, q, b)
    PROVE  s = t /\ p = q /\ a = b
<1>1. Parsed(s, p, a) = Parsed(t, q, b)
  BY ScopeOfParts
<1> QED
  BY <1>1 DEF Parsed

LEMMA ScopesOfLists ==
    ASSUME NEW W, Shared(W), NEW s \in Parts(W), NEW p \in Parts(W)
    PROVE  Lists(API!ScopesOf(s, p), Seq(W), ScopesFor(s, p))
<1> DEFINE actions == API!ActionsOf(p)
           scopes == API!ScopesOf(s, p)
           N == Len(actions)
<1>1. /\ N \in Nat /\ DOMAIN actions = 1..N /\ ActionsFor(p) = {actions[k] : k \in 1..N}
      /\ \A i, j \in 1..N : actions[i] = actions[j] => i = j
  <2>1. CASE p = API!UserMetadataInternal
    BY <2>1 DEF API!ActionsOf, ActionsFor
  <2>2. CASE p # API!UserMetadataInternal
    <3>1. actions = <<API!ActionRead, API!ActionWrite, API!ActionDelete>>
      BY <2>2 DEF API!ActionsOf
    <3>2. /\ API!ActionRead # API!ActionWrite /\ API!ActionRead # API!ActionDelete
          /\ API!ActionWrite # API!ActionDelete
      BY DEF API!ActionRead, API!ActionWrite, API!ActionDelete
    <3>3. N = 3 /\ 1..N = {1, 2, 3}
      BY <3>1
    <3> QED
      BY <2>2, <3>1, <3>2, <3>3 DEF ActionsFor, AllActions
  <2> QED
    BY <2>1, <2>2
<1>2. ActionsFor(p) \subseteq AllActions
  BY DEF ActionsFor, AllActions
<1>3. scopes = [k \in 1..N |-> API!ToScope(s, p, actions[k])]
  BY <1>1 DEF API!ScopesOf
<1> HIDE DEF actions, scopes, N
<1>4. \A k \in 1..N : actions[k] \in AllActions
  BY <1>1, <1>2
<1>5. \A k \in 1..N : scopes[k] \in Seq(W)
  BY <1>3, <1>4, ScopeOfParts
<1>6. scopes \in Seq(Seq(W)) /\ Len(scopes) = N
  BY <1>1, <1>3, <1>5
<1>7. \A i, j \in 1..N : scopes[i] = scopes[j] => i = j
  BY <1>1, <1>3, <1>4, ScopesDiffer
<1>8. ScopesFor(s, p) = {scopes[k] : k \in 1..N}
  BY <1>1, <1>3 DEF ScopesFor
<1> QED
  BY <1>6, <1>7, <1>8 DEF Lists, scopes

(* The scopes of the first n permissions. *)
ScopesUpTo(service, permissions, n) ==
    UNION {ScopesFor(service, permissions[k]) : k \in 1..n}

(* The lists that appendScopes makes on its way. *)
Appends(f, allowed, service, permissions) ==
    /\ f[0] = allowed
    /\ \A n \in 1..Len(permissions) :
        f[n] = f[n - 1] \o API!ScopesOf(service, permissions[n])
    /\ API!appendScopes(allowed, service, permissions) = f[Len(permissions)]

LEMMA AppendUpTo ==
    ASSUME NEW W, Shared(W), NEW allowed \in Seq(Seq(W)), NEW service \in Parts(W),
           NEW permissions \in Seq(Parts(W))
    PROVE  \E f \in [0..Len(permissions) -> Seq(Seq(W))] :
               Appends(f, allowed, service, permissions)
<1> DEFINE N == Len(permissions)
           V == Seq(Seq(W))
           More(n) == API!ScopesOf(service, permissions[n])
           Then(n, list) == list \o More(n)
           next == [n \in 1..N |-> [list \in V |-> Then(n, list)]]
           upTo[n \in 0..N] == IF n = 0 THEN allowed ELSE Then(n, upTo[n - 1])
<1>1. N \in Nat /\ \A n \in 1..N : permissions[n] \in Parts(W)
  OBVIOUS
<1>2. API!appendScopes(allowed, service, permissions) = upTo[N]
  BY DEF API!appendScopes
<1>3. \A n \in 1..N : More(n) \in V
  BY <1>1, ScopesOfLists DEF Lists
<1> HIDE DEF N, More
<1>4. \A n \in 1..N, list \in V : Then(n, list) \in V
  BY <1>3, ConcatProperties
<1> HIDE DEF V, Then
<1>5. next \in [1..N -> [V -> V]]
  BY <1>4
<1>6. \A n \in 1..N, list \in V : next[n][list] = Then(n, list)
  OBVIOUS
<1> HIDE DEF next
<1>7. PICK f \in [0..N -> V] : f[0] = allowed /\ \A n \in 1..N : f[n] = next[n][f[n - 1]]
  <2>1. allowed \in V
    BY DEF V
  <2>2. \E f \in [0..N -> V] : Unfolds(f, N, allowed, next)
    BY <1>1, <1>5, <2>1, Recursion, Zenon
  <2> QED
    BY <2>2 DEF Unfolds
<1>8. \A n \in 1..N : f[n - 1] \in V /\ f[n] = Then(n, f[n - 1])
  <2>1. \A n \in 1..N : f[n - 1] \in V
    BY <1>1
  <2> QED
    BY <1>6, <1>7, <2>1
<1>9. f = [n \in 0..N |-> IF n = 0 THEN allowed ELSE Then(n, f[n - 1])]
  BY <1>1, <1>7, <1>8
<1>10. upTo = [n \in 0..N |-> IF n = 0 THEN allowed ELSE Then(n, upTo[n - 1])]
  BY <1>9
<1> HIDE DEF upTo
<1>11. upTo[0] = allowed /\ \A n \in 1..N : upTo[n] = Then(n, upTo[n - 1])
  BY <1>1, <1>10
<1>12. \A n \in 0..N : upTo[n] \in V
  <2> DEFINE T == {n \in 0..N : upTo[n] \in V}
  <2>1. 0 \in T
    BY <1>1, <1>11 DEF V
  <2>2. ASSUME NEW n \in 1..N, n - 1 \in T PROVE n \in T
    BY <1>1, <1>4, <1>11, <2>2
  <2>3. 0..N \subseteq T
    <3> HIDE DEF T
    <3> QED
      BY <1>1, <2>1, <2>2, BoundedInduction
  <2> QED
    BY <2>3
<1>13. upTo \in [0..N -> V]
  BY <1>10, <1>12
<1>14. Appends(upTo, allowed, service, permissions)
  BY <1>2, <1>11 DEF Appends, N, More, Then
<1> QED
  BY <1>13, <1>14 DEF N, V

LEMMA AppendAdds ==
    ASSUME NEW W, Shared(W), NEW allowed, NEW set, Lists(allowed, Seq(W), set),
           NEW service \in Parts(W), NEW permissions \in Seq(Parts(W)),
           \A i, j \in 1..Len(permissions) : permissions[i] = permissions[j] => i = j,
           set \cap ScopesUpTo(service, permissions, Len(permissions)) = {}
    PROVE  Lists(API!appendScopes(allowed, service, permissions), Seq(W),
                 set \cup ScopesUpTo(service, permissions, Len(permissions)))
<1> DEFINE N == Len(permissions)
           New(n) == ScopesUpTo(service, permissions, n)
           Part(n) == ScopesFor(service, permissions[n])
<1>1. allowed \in Seq(Seq(W))
  BY DEF Lists
<1>2. PICK f : Appends(f, allowed, service, permissions)
  BY <1>1, AppendUpTo
<1>3. /\ f[0] = allowed
      /\ \A n \in 1..N : f[n] = f[n - 1] \o API!ScopesOf(service, permissions[n])
      /\ API!appendScopes(allowed, service, permissions) = f[N]
  BY <1>2 DEF Appends
<1>4. N \in Nat /\ \A n \in 1..N : permissions[n] \in Parts(W)
  OBVIOUS
<1>5. \A n \in 1..N : Lists(API!ScopesOf(service, permissions[n]), Seq(W), Part(n))
  BY <1>4, ScopesOfLists
<1> HIDE DEF Part
<1>6. New(0) = {}
  BY DEF ScopesUpTo
<1>7. ASSUME NEW n \in 1..N
      PROVE  New(n) = New(n - 1) \cup Part(n) /\ New(n) \subseteq New(N)
  <2>1. 1..n = 1..(n - 1) \cup {n} /\ 1..n \subseteq 1..N
    BY <1>4
  <2> QED
    BY <2>1 DEF ScopesUpTo, Part
<1>8. ASSUME NEW n \in 1..N PROVE New(n - 1) \cap Part(n) = {}
  <2> SUFFICES ASSUME NEW scope, scope \in New(n - 1), scope \in Part(n) PROVE FALSE
    OBVIOUS
  <2>1. PICK k \in 1..(n - 1) : scope \in ScopesFor(service, permissions[k])
    BY DEF ScopesUpTo
  <2>2. k \in 1..N /\ k # n
    BY <1>4, <2>1
  <2>3. PICK a \in AllActions : scope = API!ToScope(service, permissions[k], a)
    BY <2>1 DEF ScopesFor, ActionsFor, AllActions
  <2>4. PICK b \in AllActions : scope = API!ToScope(service, permissions[n], b)
    BY DEF Part, ScopesFor, ActionsFor, AllActions
  <2>5. permissions[k] = permissions[n]
    <3>1. permissions[k] \in Parts(W) /\ permissions[n] \in Parts(W)
      BY <1>4, <2>2
    <3>2. API!ToScope(service, permissions[k], a) = API!ToScope(service, permissions[n], b)
      BY <2>3, <2>4
    <3> DEFINE p == permissions[k]
               q == permissions[n]
    <3>3. /\ p \in Parts(W) /\ q \in Parts(W)
          /\ API!ToScope(service, p, a) = API!ToScope(service, q, b)
      BY <3>1, <3>2
    <3> HIDE DEF p, q
    <3>4. p = q
      BY <3>3, ScopesDiffer
    <3> QED
      BY <3>4 DEF p, q
  <2> QED
    BY <2>2, <2>5
<1>9. set \cap New(N) = {}
  OBVIOUS
<1> DEFINE All(n) == set \cup New(n)
<1> HIDE DEF N, New
<1>10. All(0) = set /\ \A n \in 1..N : All(n) = All(n - 1) \cup Part(n)
  BY <1>6, <1>7
<1>11. \A n \in 1..N : All(n - 1) \cap Part(n) = {}
  BY <1>7, <1>8, <1>9
<1> HIDE DEF All
<1> DEFINE T == {n \in 0..N : Lists(f[n], Seq(W), All(n))}
<1>12. 0 \in T
  BY <1>3, <1>4, <1>10
<1>13. ASSUME NEW n \in 1..N, n - 1 \in T PROVE n \in T
  <2>1. Lists(f[n - 1], Seq(W), All(n - 1))
    BY <1>13
  <2>2. f[n] = f[n - 1] \o API!ScopesOf(service, permissions[n])
    BY <1>3
  <2>3. Lists(f[n], Seq(W), All(n - 1) \cup Part(n))
    BY <1>5, <1>11, <2>1, <2>2, ConcatLists
  <2>4. n \in 0..N
    BY <1>4
  <2> QED
    BY <1>10, <2>3, <2>4
<1>14. N \in T
  <2> HIDE DEF T
  <2>1. 0..N \subseteq T
    BY <1>4, <1>12, <1>13, BoundedInduction
  <2> QED
    BY <1>4, <2>1
<1> QED
  BY <1>3, <1>14 DEF N, New, All

-----------------------------------------------------------------------------
(* The tables of scopes/scopes.go *)

(* The words of the scopes of scopes/scopes.go, and what separates them. *)
APIWords ==
    {":", ".", "openid", "profile", "email", "offline_access", "client", "ssc", "dotcom",
     "read", "write", "delete",
     "sams", "amp", "cody_gateway", "telemetry_gateway", "enterprise_portal",
     "mail_gatekeeper", "workspaces", "analytics", "cloud_api",
     "flaggedprompts", "user", "roles", "metadata", "internal", "cody", "_gatekeeper", "plg",
     "session", "resources", "service_access_tokens", "events", "subscription", "permission",
     "codyaccess", "metering", "workspace", "instance", "emails"}

(* Permissions that are different. *)
ProperList(permissions) ==
    /\ permissions \in Seq(Parts(APIWords))
    /\ \A i, j \in 1..Len(permissions) : permissions[i] = permissions[j] => i = j

LEMMA WordParts ==
    ASSUME NEW u \in APIWords \ {":"}, NEW v \in APIWords \ {":"}, NEW w \in APIWords \ {":"},
           NEW x \in APIWords \ {":"}, NEW y \in APIWords \ {":"}, NEW z \in APIWords \ {":"}
    PROVE  /\ <<u>> \in Parts(APIWords)
           /\ <<u, v, w>> \in Parts(APIWords)
           /\ <<u, v, w, x, y>> \in Parts(APIWords)
           /\ <<u, v, w, x, y, z>> \in Parts(APIWords)
<1>1. Plain(<<u>>) /\ Plain(<<u, v, w>>)
  BY DEF Plain
<1>2. Plain(<<u, v, w, x, y>>) /\ Plain(<<u, v, w, x, y, z>>)
  BY DEF Plain
<1> QED
  BY <1>1, <1>2 DEF Parts

LEMMA SmallLists ==
    /\ ProperList(API!codyGatewayPermissions)
    /\ ProperList(API!telemetryGatewayPermissions)
    /\ ProperList(API!enterprisePortalPermissions)
    /\ ProperList(API!workspacesPermissions)
    /\ ProperList(API!mailGatekeeperPermissions)
    /\ ProperList(API!ampPermissions)
    /\ ProperList(API!analyticsPermissions)
    /\ ProperList(API!cloudAPIPermissions)
<1> DEFINE Word(w) == w \in APIWords \ {":"}
<1>1. /\ Word("flaggedprompts") /\ Word("workspaces") /\ Word("events") /\ Word("subscription")
      /\ Word("permission") /\ Word(".") /\ Word("codyaccess") /\ Word("metering")
      /\ Word("workspace") /\ Word("instance") /\ Word("emails") /\ Word("user")
      /\ Word("analytics")
  BY DEF APIWords
<1>2. \A w : Word(w) => <<w>> \in Parts(APIWords)
  BY WordParts
<1>3. \A u, v, w : Word(u) /\ Word(v) /\ Word(w) => <<u, v, w>> \in Parts(APIWords)
  BY WordParts
<1> HIDE DEF Word
<1>4. ProperList(API!codyGatewayPermissions)
  BY <1>1, <1>2 DEF API!codyGatewayPermissions, ProperList
<1>5. ProperList(API!telemetryGatewayPermissions)
  BY <1>1, <1>2 DEF API!telemetryGatewayPermissions, ProperList
<1>6. ProperList(API!enterprisePortalPermissions)
  BY <1>1, <1>2, <1>3 DEF API!enterprisePortalPermissions, ProperList
<1>7. ProperList(API!workspacesPermissions)
  BY <1>1, <1>2, <1>3 DEF API!workspacesPermissions, ProperList
<1>8. ProperList(API!mailGatekeeperPermissions)
  BY <1>1, <1>2 DEF API!mailGatekeeperPermissions, ProperList
<1>9. ProperList(API!ampPermissions)
  BY <1>1, <1>2 DEF API!ampPermissions, ProperList
<1>10. ProperList(API!analyticsPermissions)
  BY <1>1, <1>2 DEF API!analyticsPermissions, ProperList
<1>11. ProperList(API!cloudAPIPermissions)
  BY <1>1, <1>2 DEF API!cloudAPIPermissions, ProperList
<1> QED
  BY <1>4, <1>5, <1>6, <1>7, <1>8, <1>9, <1>10, <1>11

(* Texts of a few words, one after the other. *)
IsConcat(both, x, y) == x \o y = both

LEMMA JoinsIsConcat ==
    ASSUME NEW S, NEW x \in Seq(S), NEW y \in Seq(S), NEW both \in Seq(S), Joins(both, x, y)
    PROVE  IsConcat(both, x, y)
<1> DEFINE M == Len(x)
           N == Len(y)
           z == x \o y
<1>1. z \in Seq(S) /\ Joins(z, x, y) /\ M \in Nat /\ N \in Nat
  BY ConcatJoins
<1> HIDE DEF z
<1>2. /\ Len(z) = M + N /\ Len(both) = M + N
      /\ \A i \in 1..M : z[i] = x[i] /\ both[i] = x[i]
      /\ \A i \in 1..N : z[M + i] = y[i] /\ both[M + i] = y[i]
  BY <1>1 DEF Joins
<1> HIDE DEF M, N
<1>3. \A i \in 1..(M + N) : i \in 1..M \/ (i - M \in 1..N /\ i = M + (i - M))
  BY <1>1
<1>4. ASSUME NEW i \in 1..(M + N) PROVE z[i] = both[i]
  <2>1. CASE i \in 1..M
    BY <1>2, <2>1
  <2>2. CASE i - M \in 1..N
    <3>1. PICK k \in 1..N : i = M + k
      BY <1>1, <2>2
    <3>2. z[M + k] = y[k] /\ both[M + k] = y[k]
      BY <1>2
    <3> QED
      BY <3>1, <3>2
  <2> QED
    BY <1>3, <2>1, <2>2
<1>5. z = both
  BY <1>1, <1>2, <1>4, SeqEqual
<1> QED
  BY <1>5 DEF IsConcat, z

LEMMA FewWords ==
    ASSUME NEW S, NEW a \in S, NEW b \in S, NEW c \in S, NEW d \in S, NEW e \in S, NEW f \in S
    PROVE  /\ IsConcat(<<a, b>>, <<a>>, <<b>>)
           /\ IsConcat(<<a, b, c>>, <<a>>, <<b, c>>)
           /\ IsConcat(<<a, b, c, d, e>>, <<a, b, c>>, <<d, e>>)
           /\ IsConcat(<<a, b, c, d, e, f>>, <<a, b, c>>, <<d, e, f>>)
           /\ IsConcat(<<a, b, c>>, <<a, b>>, <<c>>)
           /\ IsConcat(<<a, b, c, d>>, <<a, b, c>>, <<d>>)
           /\ IsConcat(<<a, b, c, d, e>>, <<a, b, c, d>>, <<e>>)
           /\ IsConcat(<<a, b, c, d, e, f>>, <<a, b, c, d>>, <<e, f>>)
<1>1. /\ <<a>> \in Seq(S) /\ <<b>> \in Seq(S) /\ <<c>> \in Seq(S) /\ <<d>> \in Seq(S)
      /\ <<e>> \in Seq(S) /\ <<a, b>> \in Seq(S) /\ <<b, c>> \in Seq(S)
      /\ <<a, b, c>> \in Seq(S) /\ <<d, e>> \in Seq(S) /\ <<d, e, f>> \in Seq(S)
      /\ <<a, b, c, d, e>> \in Seq(S) /\ <<a, b, c, d, e, f>> \in Seq(S)
      /\ <<a, b, c, d>> \in Seq(S) /\ <<e, f>> \in Seq(S)
  OBVIOUS
<1>2. Joins(<<a, b>>, <<a>>, <<b>>) /\ Joins(<<a, b, c>>, <<a>>, <<b, c>>)
  BY DEF Joins
<1>3. Joins(<<a, b, c, d, e>>, <<a, b, c>>, <<d, e>>)
  BY DEF Joins
<1>4. Joins(<<a, b, c, d, e, f>>, <<a, b, c>>, <<d, e, f>>)
  BY DEF Joins
<1>5. Joins(<<a, b, c, d>>, <<a, b, c>>, <<d>>)
  BY DEF Joins
<1>6. Joins(<<a, b, c, d, e>>, <<a, b, c, d>>, <<e>>)
  BY DEF Joins
<1>7. Joins(<<a, b, c, d, e, f>>, <<a, b, c, d>>, <<e, f>>)
  BY DEF Joins
<1>9. Joins(<<a, b, c>>, <<a, b>>, <<c>>)
  BY DEF Joins
<1>8. /\ IsConcat(<<a, b>>, <<a>>, <<b>>)
      /\ IsConcat(<<a, b, c>>, <<a>>, <<b, c>>)
      /\ IsConcat(<<a, b, c, d, e>>, <<a, b, c>>, <<d, e>>)
      /\ IsConcat(<<a, b, c, d, e, f>>, <<a, b, c>>, <<d, e, f>>)
  BY <1>1, <1>2, <1>3, <1>4, JoinsIsConcat
<1> QED
  BY <1>1, <1>5, <1>6, <1>7, <1>8, <1>9, JoinsIsConcat

LEMMA SAMSPermissions ==
    API!samsPermissions =
        << <<"user">>, <<"user", ".", "profile">>, <<"user", ".", "roles">>,
           <<"user", ".", "metadata">>, <<"user", ".", "metadata", ".", "internal">>,
           <<"user", ".", "metadata", ".", "cody">>, <<"user", ".", "metadata", ".", "dotcom">>,
           <<"user", ".", "metadata", ".", "cody", "_gatekeeper">>,
           <<"user", ".", "metadata", ".", "plg">>,
           <<"session">>, <<"roles">>, <<"roles", ".", "resources">>,
           <<"service_access_tokens">>, <<"service_access_tokens", ".", "analytics">> >>
<1> DEFINE Word(w) == w \in APIWords
<1>1. /\ Word("user") /\ Word(".") /\ Word("metadata") /\ Word("cody") /\ Word("dotcom")
      /\ Word("_gatekeeper") /\ Word("plg") /\ Word("service_access_tokens")
      /\ Word("analytics")
  BY DEF APIWords
<1>2. /\ IsConcat(<<"user", ".", "metadata", ".", "cody">>, API!UserMetadata, <<".", "cody">>)
      /\ IsConcat(<<"user", ".", "metadata", ".", "dotcom">>, API!UserMetadata, <<".", "dotcom">>)
      /\ IsConcat(<<"user", ".", "metadata", ".", "plg">>, API!UserMetadata, <<".", "plg">>)
      /\ IsConcat(<<"user", ".", "metadata", ".", "cody", "_gatekeeper">>, API!UserMetadata,
                  <<".", "cody", "_gatekeeper">>)
      /\ IsConcat(<<"service_access_tokens", ".", "analytics">>, API!ServiceAccessTokens,
                  <<".", "analytics">>)
  BY <1>1, FewWords DEF API!UserMetadata, API!ServiceAccessTokens
<1> QED
  BY <1>2 DEF API!samsPermissions, IsConcat, API!UserProfile, API!UserMetadata,
              API!UserMetadataInternal, API!ServiceAccessTokens

LEMMA SAMSList ==
    /\ ProperList(API!samsPermissions)
    /\ Len(API!samsPermissions) = 14
<1> DEFINE Word(w) == w \in APIWords \ {":"}
           list == API!samsPermissions
<1>1. /\ Word("user") /\ Word(".") /\ Word("profile") /\ Word("roles") /\ Word("metadata")
      /\ Word("internal") /\ Word("cody") /\ Word("dotcom") /\ Word("_gatekeeper")
      /\ Word("plg") /\ Word("session") /\ Word("resources") /\ Word("service_access_tokens")
      /\ Word("analytics")
  BY DEF APIWords
<1>3. list =
        << <<"user">>, <<"user", ".", "profile">>, <<"user", ".", "roles">>,
           <<"user", ".", "metadata">>, <<"user", ".", "metadata", ".", "internal">>,
           <<"user", ".", "metadata", ".", "cody">>, <<"user", ".", "metadata", ".", "dotcom">>,
           <<"user", ".", "metadata", ".", "cody", "_gatekeeper">>,
           <<"user", ".", "metadata", ".", "plg">>,
           <<"session">>, <<"roles">>, <<"roles", ".", "resources">>,
           <<"service_access_tokens">>, <<"service_access_tokens", ".", "analytics">> >>
  BY SAMSPermissions
<1>4. /\ \A w : Word(w) => <<w>> \in Parts(APIWords)
      /\ \A u, v, w : Word(u) /\ Word(v) /\ Word(w) => <<u, v, w>> \in Parts(APIWords)
      /\ \A u, v, w, x, y : Word(u) /\ Word(v) /\ Word(w) /\ Word(x) /\ Word(y)
              => <<u, v, w, x, y>> \in Parts(APIWords)
      /\ \A u, v, w, x, y, z : Word(u) /\ Word(v) /\ Word(w) /\ Word(x) /\ Word(y) /\ Word(z)
              => <<u, v, w, x, y, z>> \in Parts(APIWords)
  BY WordParts
<1> HIDE DEF Word, list
<1>5. Len(list) = 14 /\ list \in Seq(Parts(APIWords))
  BY <1>1, <1>3, <1>4
<1>6. /\ Len(list[1]) = 1 /\ list[1][1] = "user"
      /\ Len(list[2]) = 3 /\ list[2][3] = "profile"
      /\ Len(list[3]) = 3 /\ list[3][3] = "roles"
      /\ Len(list[4]) = 3 /\ list[4][3] = "metadata"
      /\ Len(list[5]) = 5 /\ list[5][5] = "internal"
      /\ Len(list[6]) = 5 /\ list[6][5] = "cody"
      /\ Len(list[7]) = 5 /\ list[7][5] = "dotcom"
      /\ Len(list[8]) = 6 /\ list[8][6] = "_gatekeeper"
      /\ Len(list[9]) = 5 /\ list[9][5] = "plg"
      /\ Len(list[10]) = 1 /\ list[10][1] = "session"
      /\ Len(list[11]) = 1 /\ list[11][1] = "roles"
      /\ Len(list[12]) = 3 /\ list[12][3] = "resources"
      /\ Len(list[13]) = 1 /\ list[13][1] = "service_access_tokens"
      /\ Len(list[14]) = 3 /\ list[14][3] = "analytics"
  BY <1>3
<1>7. \A i, j \in 1..14 : list[i] = list[j] => i = j
  BY <1>6
<1> QED
  BY <1>5, <1>7 DEF ProperList, list

Table == API!permissionsByService

LEMMA TableIsProper ==
    /\ Len(Table) = 9
    /\ \A n \in 1..9 : Table[n][1] \in Parts(APIWords) /\ ProperList(Table[n][2])
    /\ \A m, n \in 1..9 : Table[m][1] = Table[n][1] => m = n
<1>1. /\ Len(Table) = 9
      /\ Table[1] = <<API!Amp, API!ampPermissions>>
      /\ Table[2] = <<API!CodyGateway, API!codyGatewayPermissions>>
      /\ Table[3] = <<API!SAMS, API!samsPermissions>>
      /\ Table[4] = <<API!TelemetryGateway, API!telemetryGatewayPermissions>>
      /\ Table[5] = <<API!EnterprisePortal, API!enterprisePortalPermissions>>
      /\ Table[6] = <<API!MailGatekeeper, API!mailGatekeeperPermissions>>
      /\ Table[7] = <<API!Workspaces, API!workspacesPermissions>>
      /\ Table[8] = <<API!Analytics, API!analyticsPermissions>>
      /\ Table[9] = <<API!CloudAPI, API!cloudAPIPermissions>>
  BY DEF Table, API!permissionsByService
<1> HIDE DEF Table
<1>2. \A n \in 1..9 : ProperList(Table[n][2])
  BY <1>1, SmallLists, SAMSList
<1>3. /\ Table[1][1] = <<"amp">> /\ Table[2][1] = <<"cody_gateway">> /\ Table[3][1] = <<"sams">>
      /\ Table[4][1] = <<"telemetry_gateway">> /\ Table[5][1] = <<"enterprise_portal">>
      /\ Table[6][1] = <<"mail_gatekeeper">> /\ Table[7][1] = <<"workspaces">>
      /\ Table[8][1] = <<"analytics">> /\ Table[9][1] = <<"cloud_api">>
  BY <1>1 DEF API!Amp, API!CodyGateway, API!SAMS, API!TelemetryGateway, API!EnterprisePortal,
              API!MailGatekeeper, API!Workspaces, API!Analytics, API!CloudAPI
<1>4. \A n \in 1..9 : Table[n][1] \in Parts(APIWords)
  <2> DEFINE Word(w) == w \in APIWords \ {":"}
  <2>1. /\ Word("amp") /\ Word("cody_gateway") /\ Word("sams") /\ Word("telemetry_gateway")
        /\ Word("enterprise_portal") /\ Word("mail_gatekeeper") /\ Word("workspaces")
        /\ Word("analytics") /\ Word("cloud_api")
    BY DEF APIWords
  <2>2. \A w : Word(w) => <<w>> \in Parts(APIWords)
    BY WordParts
  <2> HIDE DEF Word
  <2>3. /\ Table[1][1] \in Parts(APIWords) /\ Table[2][1] \in Parts(APIWords)
        /\ Table[3][1] \in Parts(APIWords) /\ Table[4][1] \in Parts(APIWords)
        /\ Table[5][1] \in Parts(APIWords) /\ Table[6][1] \in Parts(APIWords)
        /\ Table[7][1] \in Parts(APIWords) /\ Table[8][1] \in Parts(APIWords)
        /\ Table[9][1] \in Parts(APIWords)
    BY <1>3, <2>1, <2>2
  <2> QED
    BY <2>3
<1>5. \A m, n \in 1..9 : Table[m][1] = Table[n][1] => m = n
  BY <1>3
<1> QED
  BY <1>1, <1>2, <1>4, <1>5

(* The scopes that begin the list, and those of the services. *)
Initial ==
    <<API!OpenID, API!Profile, API!Email, API!OfflineAccess, API!ClientSSC, API!ClientDotcom>>

Standard == Builtin \cup {Profile}

LEMMA FirstLists == Lists(Initial, Seq(APIWords), Standard)
<1>1. /\ Len(Initial) = 6
      /\ Initial[1] = <<"openid">> /\ Initial[2] = <<"profile">> /\ Initial[3] = <<"email">>
      /\ Initial[4] = <<"offline_access">> /\ Initial[5] = <<"client", ".", "ssc">>
      /\ Initial[6] = <<"client", ".", "dotcom">>
  BY DEF Initial, API!OpenID, API!Profile, API!Email, API!OfflineAccess, API!ClientSSC,
         API!ClientDotcom
<1> DEFINE Word(w) == w \in APIWords
<1>2. /\ Word("openid") /\ Word("profile") /\ Word("email") /\ Word("offline_access")
      /\ Word("client") /\ Word(".") /\ Word("ssc") /\ Word("dotcom")
  BY DEF APIWords
<1>3. Initial \in Seq(Seq(APIWords))
  <2>1. /\ \A u : Word(u) => <<u>> \in Seq(APIWords)
        /\ \A u, v, w : Word(u) /\ Word(v) /\ Word(w) => <<u, v, w>> \in Seq(APIWords)
    OBVIOUS
  <2> HIDE DEF Word
  <2>4. /\ Initial[1] \in Seq(APIWords) /\ Initial[2] \in Seq(APIWords) /\ Initial[3] \in Seq(APIWords)
        /\ Initial[4] \in Seq(APIWords) /\ Initial[5] \in Seq(APIWords) /\ Initial[6] \in Seq(APIWords)
    BY <1>1, <1>2, <2>1
  <2>2. \A k \in 1..6 : Initial[k] \in Seq(APIWords)
    BY <2>4
  <2>3. DOMAIN Initial = 1..6 /\ Initial = [k \in 1..6 |-> Initial[k]]
    BY DEF Initial
  <2> QED
    BY <2>2, <2>3
<1>4. \A i, j \in 1..6 : Initial[i] = Initial[j] => i = j
  <2>1. Len(Initial[5]) = 3 /\ Len(Initial[6]) = 3 /\ Initial[5][3] = "ssc" /\ Initial[6][3] = "dotcom"
    BY <1>1
  <2>2. /\ Initial[1][1] = "openid" /\ Initial[2][1] = "profile" /\ Initial[3][1] = "email"
        /\ Initial[4][1] = "offline_access" /\ Initial[5][1] = "client" /\ Initial[6][1] = "client"
    BY <1>1
  <2> QED
    BY <2>1, <2>2
<1>5. Standard = {Initial[k] : k \in 1..6}
  BY <1>1 DEF Standard, Builtin, OpenID, Profile, Email, OfflineAccess, ClientSSC, ClientDotcom
<1> QED
  BY <1>1, <1>3, <1>4, <1>5 DEF Lists

ScopesOfService(n) == ScopesUpTo(Table[n][1], Table[n][2], Len(Table[n][2]))

AllScopes(n) == Standard \cup UNION {ScopesOfService(k) : k \in 1..n}

LEMMA APIShared == Shared(APIWords)
  BY DEF Shared, APIWords

(* The lists that Allowed makes on its way. *)
AllowedBy(f) ==
    /\ f[0] = Initial
    /\ \A n \in 1..9 : f[n] = API!appendScopes(f[n - 1], Table[n][1], Table[n][2])
    /\ API!Allowed = f[9]

LEMMA AllowedUpTo == \E f : AllowedBy(f)
<1> DEFINE V == Seq(Seq(APIWords))
           Then(n, list) == API!appendScopes(list, Table[n][1], Table[n][2])
           next == [n \in 1..9 |-> [list \in V |-> Then(n, list)]]
           upTo[n \in 0..Len(Table)] == IF n = 0 THEN Initial ELSE Then(n, upTo[n - 1])
<1>1. Len(Table) = 9
  BY TableIsProper
<1>2. API!Allowed = upTo[9]
  BY <1>1 DEF API!Allowed, Table, Initial
<1>3. \A n \in 1..9, list \in V : Then(n, list) \in V
  <2> SUFFICES ASSUME NEW n \in 1..9, NEW list \in V PROVE Then(n, list) \in V
    OBVIOUS
  <2> DEFINE permissions == Table[n][2]
  <2>1. Table[n][1] \in Parts(APIWords) /\ permissions \in Seq(Parts(APIWords))
    BY TableIsProper DEF ProperList
  <2>2. Len(permissions) \in 0..Len(permissions)
    BY <2>1
  <2>3. PICK f \in [0..Len(permissions) -> V] : Appends(f, list, Table[n][1], permissions)
    BY <2>1, APIShared, AppendUpTo
  <2> QED
    BY <2>2, <2>3 DEF Appends
<1>4. Initial \in V
  BY FirstLists DEF Lists
<1> HIDE DEF V, Then
<1>5. next \in [1..9 -> [V -> V]]
  BY <1>3
<1>6. \A n \in 1..9, list \in V : next[n][list] = Then(n, list)
  OBVIOUS
<1> HIDE DEF next
<1>7. PICK f \in [0..9 -> V] : f[0] = Initial /\ \A n \in 1..9 : f[n] = next[n][f[n - 1]]
  <2>1. \E f \in [0..9 -> V] : Unfolds(f, 9, Initial, next)
    BY <1>4, <1>5, Recursion
  <2> QED
    BY <2>1 DEF Unfolds
<1>8. \A n \in 1..9 : f[n] = Then(n, f[n - 1])
  <2>1. \A n \in 1..9 : f[n - 1] \in V
    OBVIOUS
  <2> QED
    BY <1>6, <1>7, <2>1
<1>9. f = [n \in 0..Len(Table) |-> IF n = 0 THEN Initial ELSE Then(n, f[n - 1])]
  BY <1>1, <1>7, <1>8
<1>10. upTo = [n \in 0..Len(Table) |-> IF n = 0 THEN Initial ELSE Then(n, upTo[n - 1])]
  BY <1>9
<1> HIDE DEF upTo
<1>11. upTo[0] = Initial /\ \A n \in 1..9 : upTo[n] = Then(n, upTo[n - 1])
  BY <1>1, <1>10
<1>12. AllowedBy(upTo)
  BY <1>2, <1>11 DEF AllowedBy, Then
<1> QED
  BY <1>12

(* What a client can register for: the scopes of the table, once each. *)
LEMMA AllowedLists == Lists(API!Allowed, Seq(APIWords), AllScopes(9))
<1>1. PICK f : AllowedBy(f)
  BY AllowedUpTo
<1>2. /\ f[0] = Initial /\ API!Allowed = f[9]
      /\ \A n \in 1..9 : f[n] = API!appendScopes(f[n - 1], Table[n][1], Table[n][2])
  BY <1>1 DEF AllowedBy
<1>3. /\ \A n \in 1..9 : Table[n][1] \in Parts(APIWords) /\ ProperList(Table[n][2])
      /\ \A m, n \in 1..9 : Table[m][1] = Table[n][1] => m = n
  BY TableIsProper
<1>4. ASSUME NEW n \in 1..9, NEW scope \in ScopesOfService(n)
      PROVE  /\ scope \notin Standard
             /\ \E p \in Parts(APIWords), a \in AllActions :
                    scope = API!ToScope(Table[n][1], p, a)
  <2> DEFINE permissions == Table[n][2]
             service == Table[n][1]
  <2>1. PICK k \in 1..Len(permissions) : scope \in ScopesFor(service, permissions[k])
    BY <1>4 DEF ScopesOfService, ScopesUpTo
  <2>2. service \in Parts(APIWords) /\ permissions \in Seq(Parts(APIWords))
    BY <1>3 DEF ProperList
  <2> HIDE DEF permissions, service
  <2> DEFINE p == permissions[k]
  <2>3. p \in Parts(APIWords)
    BY <2>1, <2>2
  <2>4. PICK a \in AllActions : scope = API!ToScope(service, p, a)
    BY <2>1 DEF ScopesFor, ActionsFor, AllActions
  <2> HIDE DEF p
  <2>5. scope \notin Standard
    BY <2>2, <2>3, <2>4, APIShared, ScopeOfParts DEF Standard
  <2> QED
    BY <2>3, <2>4, <2>5 DEF service
<1>5. ASSUME NEW n \in 1..9
      PROVE  /\ AllScopes(n) = AllScopes(n - 1) \cup ScopesOfService(n)
             /\ AllScopes(n - 1) \cap ScopesOfService(n) = {}
  <2>1. 1..n = 1..(n - 1) \cup {n}
    OBVIOUS
  <2>2. AllScopes(n) = AllScopes(n - 1) \cup ScopesOfService(n)
    BY <2>1 DEF AllScopes
  <2>3. ASSUME NEW scope, scope \in AllScopes(n - 1), scope \in ScopesOfService(n) PROVE FALSE
    <3>1. PICK k \in 1..(n - 1) : scope \in ScopesOfService(k)
      BY <1>4, <2>3 DEF AllScopes
    <3>2. k \in 1..9 /\ k # n
      BY <3>1
    <3> DEFINE s == Table[k][1]
               t == Table[n][1]
    <3>3. s \in Parts(APIWords) /\ t \in Parts(APIWords) /\ s # t
      BY <1>3, <3>2
    <3>4. /\ \E p \in Parts(APIWords), a \in AllActions : scope = API!ToScope(s, p, a)
          /\ \E p \in Parts(APIWords), a \in AllActions : scope = API!ToScope(t, p, a)
      BY <1>4, <2>3, <3>1, <3>2
    <3> HIDE DEF s, t
    <3>5. PICK p \in Parts(APIWords), a \in AllActions : scope = API!ToScope(s, p, a)
      BY <3>4
    <3>6. PICK q \in Parts(APIWords), b \in AllActions : scope = API!ToScope(t, q, b)
      BY <3>4
    <3>7. API!ToScope(s, p, a) = API!ToScope(t, q, b)
      BY <3>5, <3>6
    <3> QED
      BY <3>3, <3>7, APIShared, ScopesDiffer
  <2> QED
    BY <2>2, <2>3
<1> DEFINE Listed(n) == Lists(f[n], Seq(APIWords), AllScopes(n))
           T == {n \in 0..9 : Listed(n)}
<1>6. 0 \in T
  <2>1. AllScopes(0) = Standard
    BY DEF AllScopes
  <2>2. Listed(0)
    BY <1>2, <2>1, FirstLists, Zenon
  <2> HIDE DEF Listed
  <2> QED
    BY <2>2
<1>7. ASSUME NEW n \in 1..9, n - 1 \in T PROVE n \in T
  <2> DEFINE service == Table[n][1]
             permissions == Table[n][2]
             earlier == AllScopes(n - 1)
  <2>1. Lists(f[n - 1], Seq(APIWords), earlier)
    BY <1>7
  <2>2. /\ service \in Parts(APIWords) /\ permissions \in Seq(Parts(APIWords))
        /\ \A i, j \in 1..Len(permissions) : permissions[i] = permissions[j] => i = j
    BY <1>3 DEF ProperList
  <2>3. earlier \cap ScopesUpTo(service, permissions, Len(permissions)) = {}
    BY <1>5 DEF ScopesOfService
  <2>4. f[n] = API!appendScopes(f[n - 1], service, permissions)
    BY <1>2
  <2>5. AllScopes(n) = earlier \cup ScopesUpTo(service, permissions, Len(permissions))
    BY <1>5 DEF ScopesOfService
  <2> HIDE DEF service, permissions, earlier
  <2>6. Lists(API!appendScopes(f[n - 1], service, permissions), Seq(APIWords),
              earlier \cup ScopesUpTo(service, permissions, Len(permissions)))
    BY <2>1, <2>2, <2>3, APIShared, AppendAdds
  <2>7. Listed(n)
    BY <2>4, <2>5, <2>6, Zenon
  <2> HIDE DEF Listed
  <2> QED
    BY <2>7
<1>8. 9 \in T
  <2> HIDE DEF T
  <2>1. 0..9 \subseteq T
    BY <1>6, <1>7, BoundedInduction
  <2> QED
    BY <2>1
<1> QED
  BY <1>2, <1>8

(* The scopes of the table are allowed. *)
LEMMA TableIsAllowed ==
    ASSUME NEW n \in 1..9, NEW k \in 1..Len(Table[n][2]), NEW a \in ActionsFor(Table[n][2][k])
    PROVE  API!ToScope(Table[n][1], Table[n][2][k], a) \in AllScopes(9)
<1>1. API!ToScope(Table[n][1], Table[n][2][k], a) \in ScopesOfService(n)
  BY DEF ScopesOfService, ScopesUpTo, ScopesFor
<1> QED
  BY <1>1 DEF AllScopes

(* scope is of the permission p, the k-th of the n-th service. *)
InTable(scope, n, k, a) ==
    /\ Table[n][1] \in Parts(APIWords) /\ Table[n][2][k] \in Parts(APIWords) /\ a \in AllActions
    /\ scope = API!ToScope(Table[n][1], Table[n][2][k], a)

LEMMA AllowedIsTable ==
    ASSUME NEW scope \in AllScopes(9)
    PROVE  \/ scope \in Standard
           \/ \E n \in 1..9 : \E k \in 1..Len(Table[n][2]) :
                  \E a \in AllActions : InTable(scope, n, k, a)
<1> SUFFICES ASSUME scope \notin Standard
             PROVE  \E n \in 1..9 : \E k \in 1..Len(Table[n][2]) :
                        \E a \in AllActions : InTable(scope, n, k, a)
  OBVIOUS
<1>1. PICK n \in 1..9 : scope \in ScopesOfService(n)
  BY DEF AllScopes
<1>2. PICK k \in 1..Len(Table[n][2]) : scope \in ScopesFor(Table[n][1], Table[n][2][k])
  BY <1>1 DEF ScopesOfService, ScopesUpTo
<1>3. Table[n][1] \in Parts(APIWords) /\ Table[n][2] \in Seq(Parts(APIWords))
  BY TableIsProper DEF ProperList
<1>4. PICK a \in ActionsFor(Table[n][2][k]) : scope = API!ToScope(Table[n][1], Table[n][2][k], a)
  BY <1>2 DEF ScopesFor
<1>5. a \in AllActions
  BY DEF ActionsFor, AllActions
<1>6. Table[n][2][k] \in Parts(APIWords)
  BY <1>3
<1>7. InTable(scope, n, k, a)
  BY <1>3, <1>4, <1>5, <1>6 DEF InTable
<1> QED
  BY <1>5, <1>7

LEMMA AllowedOnce ==
    /\ API!IsInjective(API!Allowed)
    /\ API!Range(API!Allowed) = AllScopes(9)
    /\ \A scope : API!AllowedContains(scope) <=> scope \in AllScopes(9)
<1>1. /\ API!Allowed \in Seq(Seq(APIWords))
      /\ \A i, j \in 1..Len(API!Allowed) : API!Allowed[i] = API!Allowed[j] => i = j
      /\ AllScopes(9) = {API!Allowed[i] : i \in 1..Len(API!Allowed)}
  BY AllowedLists DEF Lists
<1>2. DOMAIN API!Allowed = 1..Len(API!Allowed)
  BY <1>1
<1>3. API!IsInjective(API!Allowed)
  BY <1>1, <1>2 DEF API!IsInjective
<1>4. API!Range(API!Allowed) = AllScopes(9)
  BY <1>1, <1>2 DEF API!Range
<1>5. \A scope : API!AllowedContains(scope) <=> scope \in AllScopes(9)
  BY <1>1 DEF API!AllowedContains, API!Contains
<1> QED
  BY <1>3, <1>4, <1>5

(* An allowed scope parses, to parts that make it again. *)
RoundTrip(scope, parsed) ==
    /\ parsed.valid
    /\ parsed.service # <<>> =>
           API!ToScope(parsed.service, parsed.permission, parsed.action) = API!Canonical(scope)

LEMMA PartsAreRead ==
    ASSUME NEW s \in Parts(APIWords), NEW p \in Parts(APIWords), NEW a \in AllActions, NEW scope,
           API!Canonical(scope) = API!ToScope(s, p, a)
    PROVE  RoundTrip(scope, API!ParseScope(API!Canonical(scope)))
<1>1. API!ParseScope(API!Canonical(scope)) = Parsed(s, p, a)
  BY APIShared, ScopeOfParts
<1> QED
  BY <1>1 DEF RoundTrip, Parsed

LEMMA AllowedAreRead ==
    ASSUME NEW scope \in AllScopes(9)
    PROVE  RoundTrip(scope, API!ParseScope(API!Canonical(scope)))
<1>1. CASE scope \in Builtin
  <2>1. scope # Profile
    <3>1. Len(Profile) = 1 /\ Profile[1] = "profile"
      BY DEF Profile
    <3>2. Len(scope) = 1 => scope[1] # "profile"
      BY <1>1 DEF Builtin, OpenID, Email, OfflineAccess, ClientSSC, ClientDotcom
    <3> QED
      BY <3>1, <3>2
  <2>2. Canonical(scope) = scope
    BY <2>1 DEF Canonical
  <2>3. ParseScope(scope) = Parsed(<<>>, scope, <<>>)
    BY <1>1 DEF ParseScope, Builtin
  <2>4. API!ParseScope(API!Canonical(scope)) = Parsed(<<>>, scope, <<>>)
    BY <2>2, <2>3, APIReads
  <2> QED
    BY <2>4 DEF RoundTrip, Parsed
<1>2. CASE scope = Profile
  <2>1. API!Canonical(scope) = API!ToScope(API!SAMS, API!UserProfile, API!ActionRead)
    BY <1>2 DEF API!Canonical, API!Profile, Profile
  <2>2. API!SAMS \in Parts(APIWords) /\ API!UserProfile \in Parts(APIWords)
    <3> DEFINE Word(w) == w \in APIWords \ {":"}
    <3>1. Word("sams") /\ Word("user") /\ Word(".") /\ Word("profile")
      BY DEF APIWords
    <3>2. /\ \A w : Word(w) => <<w>> \in Parts(APIWords)
          /\ \A u, v, w : Word(u) /\ Word(v) /\ Word(w) => <<u, v, w>> \in Parts(APIWords)
      BY WordParts
    <3> HIDE DEF Word
    <3>3. <<"sams">> \in Parts(APIWords) /\ <<"user", ".", "profile">> \in Parts(APIWords)
      BY <3>1, <3>2
    <3> QED
      BY <3>3 DEF API!SAMS, API!UserProfile
  <2>3. API!ActionRead \in AllActions
    BY DEF AllActions
  <2> QED
    BY <2>1, <2>2, <2>3, PartsAreRead
<1>3. CASE scope \notin Standard
  <2>1. PICK n \in 1..9 : \E k \in 1..Len(Table[n][2]) :
            \E a \in AllActions : InTable(scope, n, k, a)
    BY <1>3, AllowedIsTable
  <2>2. PICK k \in 1..Len(Table[n][2]), a \in AllActions : InTable(scope, n, k, a)
    BY <2>1
  <2>3. API!Canonical(scope) = scope
    BY <1>3, APIReads DEF Standard, Canonical
  <2>4. API!Canonical(scope) = API!ToScope(Table[n][1], Table[n][2][k], a)
    BY <2>2, <2>3 DEF InTable
  <2> QED
    BY <2>2, <2>4, PartsAreRead DEF InTable
<1> QED
  BY <1>1, <1>2, <1>3 DEF Standard

-----------------------------------------------------------------------------
(* The names of metadata *)

Names ==
    {<<"internal">>, <<"cody">>, <<"dotcom">>, <<"cody", "_gatekeeper">>, <<"plg">>}

(* The permission of the metadata of a name. *)
Named(name) == API!UserMetadata \o <<".">> \o name

LEMMA NamedText ==
    /\ Named(<<"internal">>) = <<"user", ".", "metadata", ".", "internal">>
    /\ Named(<<"cody">>) = <<"user", ".", "metadata", ".", "cody">>
    /\ Named(<<"dotcom">>) = <<"user", ".", "metadata", ".", "dotcom">>
    /\ Named(<<"cody", "_gatekeeper">>) =
           <<"user", ".", "metadata", ".", "cody", "_gatekeeper">>
    /\ Named(<<"plg">>) = <<"user", ".", "metadata", ".", "plg">>
<1>1. /\ "user" \in APIWords /\ "." \in APIWords /\ "metadata" \in APIWords
      /\ "internal" \in APIWords /\ "cody" \in APIWords /\ "dotcom" \in APIWords
      /\ "_gatekeeper" \in APIWords /\ "plg" \in APIWords
  BY DEF APIWords
<1> DEFINE prefix == <<"user", ".", "metadata", ".">>
<1>2. IsConcat(prefix, API!UserMetadata, <<".">>)
  BY <1>1, FewWords DEF API!UserMetadata
<1>3. /\ IsConcat(<<"user", ".", "metadata", ".", "internal">>, prefix, <<"internal">>)
      /\ IsConcat(<<"user", ".", "metadata", ".", "cody">>, prefix, <<"cody">>)
      /\ IsConcat(<<"user", ".", "metadata", ".", "dotcom">>, prefix, <<"dotcom">>)
      /\ IsConcat(<<"user", ".", "metadata", ".", "plg">>, prefix, <<"plg">>)
      /\ IsConcat(<<"user", ".", "metadata", ".", "cody", "_gatekeeper">>, prefix,
                  <<"cody", "_gatekeeper">>)
  BY <1>1, FewWords
<1>4. \A name : Named(name) = prefix \o name
  BY <1>2 DEF Named, IsConcat
<1> HIDE DEF prefix
<1> QED
  BY <1>3, <1>4 DEF IsConcat

(* A permission that is about something else. *)
NotMetadata(p) == Len(p) < 3 \/ p[3] # "metadata"

LEMMA NoName ==
    ASSUME NEW p \in Seq(APIWords), NotMetadata(p)
    PROVE  API!PermissionToMetadataScope(p) = {}
<1>1. /\ API!UserMetadata \in Seq(APIWords) /\ Len(API!UserMetadata) = 3
      /\ API!UserMetadata[3] = "metadata"
  <2>1. "user" \in APIWords /\ "." \in APIWords /\ "metadata" \in APIWords
    BY DEF APIWords
  <2> QED
    BY <2>1 DEF API!UserMetadata
<1>2. ~IsPrefix(API!UserMetadata, p)
  <2> SUFFICES ASSUME IsPrefix(API!UserMetadata, p) PROVE FALSE
    OBVIOUS
  <2> DEFINE m == API!UserMetadata
  <2>3. m \in Seq(APIWords) /\ Len(m) = 3 /\ m[3] = "metadata" /\ IsPrefix(m, p)
    BY <1>1
  <2> HIDE DEF m
  <2>4. Len(m) <= Len(p) /\ \A i \in 1..Len(m) : m[i] = p[i]
    BY <2>3, PrefixPointwise
  <2>1. Len(p) \in Nat /\ 3 <= Len(p)
    BY <2>3, <2>4
  <2>2. p[3] = "metadata"
    BY <2>3, <2>4
  <2> QED
    BY <2>1, <2>2 DEF NotMetadata
<1>3. ~API!IsPrefix(API!UserMetadata, p)
  BY <1>2 DEF API!IsPrefix, IsPrefix
<1> QED
  BY <1>3 DEF API!PermissionToMetadataScope

LEMMA AllNames == API!PermissionToMetadataScope(API!UserMetadata) = {API!Everything}
<1>1. API!UserMetadata \in Seq(APIWords)
  <2>1. "user" \in APIWords /\ "." \in APIWords /\ "metadata" \in APIWords
    BY DEF APIWords
  <2> QED
    BY <2>1 DEF API!UserMetadata
<1>2. IsPrefix(API!UserMetadata, API!UserMetadata)
  BY <1>1, PrefixOrder
<1>3. API!IsPrefix(API!UserMetadata, API!UserMetadata)
  BY <1>2 DEF API!IsPrefix, IsPrefix
<1> QED
  BY <1>3 DEF API!PermissionToMetadataScope

LEMMA NameRead ==
    ASSUME NEW name \in Names
    PROVE  API!PermissionToMetadataScope(Named(name)) = {name}
<1> DEFINE prefix == <<"user", ".", "metadata", ".">>
           p == Named(name)
<1>1. "user" \in APIWords /\ "." \in APIWords /\ "metadata" \in APIWords
  BY DEF APIWords
<1>2. API!UserMetadata \o <<".">> = prefix
  <2>1. IsConcat(prefix, API!UserMetadata, <<".">>)
    BY <1>1, FewWords DEF API!UserMetadata
  <2> QED
    BY <2>1 DEF IsConcat
<1>3. name \in Seq(APIWords) /\ name # <<>>
  <2>1. /\ "internal" \in APIWords /\ "cody" \in APIWords /\ "dotcom" \in APIWords
        /\ "_gatekeeper" \in APIWords /\ "plg" \in APIWords
    BY DEF APIWords
  <2>2. /\ <<"internal">> \in Seq(APIWords) /\ <<"cody">> \in Seq(APIWords)
        /\ <<"dotcom">> \in Seq(APIWords) /\ <<"cody", "_gatekeeper">> \in Seq(APIWords)
        /\ <<"plg">> \in Seq(APIWords)
    BY <2>1
  <2>3. \/ name = <<"internal">> \/ name = <<"cody">> \/ name = <<"dotcom">>
        \/ name = <<"cody", "_gatekeeper">> \/ name = <<"plg">>
    BY DEF Names
  <2>4. name # <<>>
    BY <2>3
  <2>5. name \in Seq(APIWords)
    BY <2>2, <2>3
  <2> QED
    BY <2>4, <2>5
<1>4. /\ prefix \in Seq(APIWords) /\ Len(prefix) = 4
      /\ API!UserMetadata \in Seq(APIWords) /\ Len(API!UserMetadata) = 3
  BY <1>1 DEF API!UserMetadata
<1>5. p = prefix \o name
  BY <1>2 DEF Named
<1> HIDE DEF prefix, p
<1>6. /\ p \in Seq(APIWords) /\ Joins(p, prefix, name) /\ IsPrefix(prefix, p)
  BY <1>3, <1>4, <1>5, ConcatJoins, PrefixOfConcat
<1>7. Len(p) = 4 + Len(name) /\ Len(name) \in Nat /\ \A i \in 1..Len(name) : p[4 + i] = name[i]
  BY <1>3, <1>4, <1>6 DEF Joins
<1>8. IsPrefix(API!UserMetadata, p)
  <2>1. IsPrefix(API!UserMetadata, API!UserMetadata \o <<".">>)
    <3>1. <<".">> \in Seq(APIWords)
      BY <1>1
    <3> QED
      BY <1>4, <3>1, PrefixOfConcat
  <2>2. IsPrefix(API!UserMetadata, prefix)
    BY <1>2, <2>1 DEF prefix
  <2> QED
    BY <1>4, <1>6, <2>2, PrefixOrder
<1>9. p # API!UserMetadata
  <2>1. Len(p) # 3
    BY <1>7
  <2> QED
    BY <1>4, <2>1
<1>10. SubSeq(p, 5, Len(p)) = name
  <2> DEFINE rest == SubSeq(p, 5, Len(p))
  <2>1. rest \in Seq(APIWords) /\ Len(rest) = Len(name)
        /\ \A i \in 1..Len(name) : rest[i] = p[4 + i]
    BY <1>6, <1>7, SubSeqProperties
  <2> HIDE DEF rest
  <2>2. rest = name
    BY <1>3, <1>7, <2>1, SeqEqual
  <2> QED
    BY <2>2 DEF rest
<1>11. API!IsPrefix(API!UserMetadata, p) /\ API!IsPrefix(prefix, p)
  BY <1>6, <1>8 DEF API!IsPrefix, IsPrefix
<1>12. API!PermissionToMetadataScope(p) = {SubSeq(p, Len(prefix) + 1, Len(p))}
  BY <1>2, <1>9, <1>11 DEF API!PermissionToMetadataScope, prefix
<1>13. Len(prefix) + 1 = 5
  BY <1>4
<1>14. API!PermissionToMetadataScope(p) = {name}
  BY <1>10, <1>12, <1>13
<1> QED
  BY <1>14 DEF p

(* The permissions of metadata are those of SAMS that are named. *)
IsMetadata(p) == p = API!UserMetadata \/ \E name \in Names : p = Named(name)

LEMMA OtherServices ==
    ASSUME NEW n \in 1..9 \ {3}, NEW k \in 1..Len(Table[n][2])
    PROVE  NotMetadata(Table[n][2][k])
<1> DEFINE Apart(list) == \A i \in 1..Len(list) : NotMetadata(list[i])
<1>1. Apart(API!ampPermissions) /\ Apart(API!codyGatewayPermissions)
  BY DEF NotMetadata, API!ampPermissions, API!codyGatewayPermissions
<1>2. Apart(API!telemetryGatewayPermissions) /\ Apart(API!mailGatekeeperPermissions)
  BY DEF NotMetadata, API!telemetryGatewayPermissions, API!mailGatekeeperPermissions
<1>3. Apart(API!enterprisePortalPermissions)
  <2>1. API!enterprisePortalPermissions[2][3] = "subscription"
    BY DEF API!enterprisePortalPermissions
  <2> QED
    BY <2>1 DEF NotMetadata, API!enterprisePortalPermissions
<1>4. Apart(API!workspacesPermissions)
  <2>1. API!workspacesPermissions[3][3] = "workspace"
    BY DEF API!workspacesPermissions
  <2> QED
    BY <2>1 DEF NotMetadata, API!workspacesPermissions
<1>5. Apart(API!analyticsPermissions) /\ Apart(API!cloudAPIPermissions)
  BY DEF NotMetadata, API!analyticsPermissions, API!cloudAPIPermissions
<1>6. /\ Table[1][2] = API!ampPermissions /\ Table[2][2] = API!codyGatewayPermissions
      /\ Table[4][2] = API!telemetryGatewayPermissions
      /\ Table[5][2] = API!enterprisePortalPermissions
      /\ Table[6][2] = API!mailGatekeeperPermissions /\ Table[7][2] = API!workspacesPermissions
      /\ Table[8][2] = API!analyticsPermissions /\ Table[9][2] = API!cloudAPIPermissions
  BY DEF Table, API!permissionsByService
<1> HIDE DEF Apart
<1>7. /\ Apart(Table[1][2]) /\ Apart(Table[2][2]) /\ Apart(Table[4][2]) /\ Apart(Table[5][2])
      /\ Apart(Table[6][2]) /\ Apart(Table[7][2]) /\ Apart(Table[8][2]) /\ Apart(Table[9][2])
  BY <1>1, <1>2, <1>3, <1>4, <1>5, <1>6
<1>8. Apart(Table[n][2])
  <2>1. n \in {1, 2, 4, 5, 6, 7, 8, 9}
    OBVIOUS
  <2> QED
    BY <1>7, <2>1
<1> QED
  BY <1>8 DEF Apart

LEMMA PermissionsOfSAMS ==
    /\ Table[3] = <<API!SAMS, API!samsPermissions>>
    /\ Len(API!samsPermissions) = 14
    /\ \A k \in 1..14 :
           NotMetadata(API!samsPermissions[k]) \/ IsMetadata(API!samsPermissions[k])
<1> DEFINE list == API!samsPermissions
<1>1. Table[3] = <<API!SAMS, API!samsPermissions>>
  BY DEF Table, API!permissionsByService
<1>2. /\ Len(list) = 14
      /\ Len(list[1]) = 1 /\ list[2][3] = "profile" /\ list[3][3] = "roles"
      /\ Len(list[10]) = 1 /\ Len(list[11]) = 1 /\ list[12][3] = "resources"
      /\ Len(list[13]) = 1 /\ list[14][3] = "analytics"
  BY SAMSPermissions
<1>3. /\ NotMetadata(list[1]) /\ NotMetadata(list[2]) /\ NotMetadata(list[3])
      /\ NotMetadata(list[10]) /\ NotMetadata(list[11]) /\ NotMetadata(list[12])
      /\ NotMetadata(list[13]) /\ NotMetadata(list[14])
  BY <1>2 DEF NotMetadata
<1>4. list[4] = API!UserMetadata
  BY SAMSPermissions DEF API!UserMetadata
<1>5. /\ list[5] = Named(<<"internal">>) /\ list[6] = Named(<<"cody">>)
      /\ list[7] = Named(<<"dotcom">>) /\ list[8] = Named(<<"cody", "_gatekeeper">>)
      /\ list[9] = Named(<<"plg">>)
  BY SAMSPermissions, NamedText
<1> HIDE DEF list
<1>6. /\ IsMetadata(list[4]) /\ IsMetadata(list[5]) /\ IsMetadata(list[6])
      /\ IsMetadata(list[7]) /\ IsMetadata(list[8]) /\ IsMetadata(list[9])
  <2>1. /\ <<"internal">> \in Names /\ <<"cody">> \in Names /\ <<"dotcom">> \in Names
        /\ <<"cody", "_gatekeeper">> \in Names /\ <<"plg">> \in Names
    BY DEF Names
  <2>2. \A name \in Names : IsMetadata(Named(name))
    BY DEF IsMetadata
  <2>3. IsMetadata(list[4])
    BY <1>4 DEF IsMetadata
  <2> QED
    BY <1>5, <2>1, <2>2, <2>3
<1>7. \A k \in 1..14 : NotMetadata(list[k]) \/ IsMetadata(list[k])
  BY <1>3, <1>6
<1> QED
  BY <1>1, <1>2, <1>7 DEF list

(* What scope asks for. *)
PermissionOf(scope) == API!ParseScope(scope).permission

LEMMA AllowedPermissions ==
    ASSUME NEW scope \in AllScopes(9)
    PROVE  \/ NotMetadata(PermissionOf(scope)) /\ PermissionOf(scope) \in Seq(APIWords)
           \/ /\ IsMetadata(PermissionOf(scope))
              /\ PermissionOf(scope) \in Parts(APIWords)
              /\ \E a \in AllActions : scope = API!ToScope(API!SAMS, PermissionOf(scope), a)
<1>1. CASE scope \in Builtin
  <2>1. API!ParseScope(scope) = Parsed(<<>>, scope, <<>>)
    BY <1>1, APIReads DEF ParseScope, Builtin
  <2>2. PermissionOf(scope) = scope
    BY <2>1 DEF PermissionOf, Parsed
  <2>3. scope \in Seq(APIWords)
    <3>1. scope \in Standard
      BY <1>1 DEF Standard
    <3> QED
      BY <3>1, FirstLists DEF Lists
  <2>4. NotMetadata(scope)
    <3>1. ClientSSC[3] = "ssc" /\ ClientDotcom[3] = "dotcom"
      BY DEF ClientSSC, ClientDotcom
    <3>2. Len(OpenID) = 1 /\ Len(Email) = 1 /\ Len(OfflineAccess) = 1
      BY DEF OpenID, Email, OfflineAccess
    <3> QED
      BY <1>1, <3>1, <3>2 DEF Builtin, NotMetadata
  <2> QED
    BY <2>2, <2>3, <2>4
<1>2. CASE scope = Profile
  <2>1. Index(scope) = 0
    <3>1. 1..(Len(scope) - 1) = {}
      BY <1>2 DEF Profile
    <3> QED
      BY <3>1 DEF Index
  <2>2. scope \notin Builtin
    <3>1. Len(scope) = 1 /\ scope[1] = "profile"
      BY <1>2 DEF Profile
    <3>2. /\ OpenID[1] = "openid" /\ Email[1] = "email" /\ OfflineAccess[1] = "offline_access"
          /\ ClientSSC[1] = "client" /\ ClientDotcom[1] = "client"
      BY DEF OpenID, Email, OfflineAccess, ClientSSC, ClientDotcom
    <3> QED
      BY <3>1, <3>2 DEF Builtin
  <2>3. API!ParseScope(scope) = Invalid
    BY <2>1, <2>2, APIReads DEF ParseScope, Builtin
  <2>4. PermissionOf(scope) = <<>>
    BY <2>3 DEF PermissionOf, Invalid
  <2>5. <<>> \in Seq(APIWords) /\ NotMetadata(<<>>)
    BY DEF NotMetadata
  <2> QED
    BY <2>4, <2>5
<1>3. CASE scope \notin Standard
  <2>1. PICK n \in 1..9 : \E k \in 1..Len(Table[n][2]) :
            \E a \in AllActions : InTable(scope, n, k, a)
    BY <1>3, AllowedIsTable
  <2>2. PICK k \in 1..Len(Table[n][2]), a \in AllActions : InTable(scope, n, k, a)
    BY <2>1
  <2> DEFINE s == Table[n][1]
             p == Table[n][2][k]
  <2>3. s \in Parts(APIWords) /\ p \in Parts(APIWords) /\ scope = API!ToScope(s, p, a)
    BY <2>2 DEF InTable
  <2>4. CASE n # 3
    <3>1. n \in 1..9 \ {3}
      BY <2>4
    <3>2. NotMetadata(p)
      BY <3>1, OtherServices
    <3> HIDE DEF s, p
    <3>3. API!ParseScope(scope) = Parsed(s, p, a)
      BY <2>3, APIShared, ScopeOfParts
    <3> QED
      BY <2>3, <3>2, <3>3 DEF PermissionOf, Parsed, Parts
  <2>5. CASE n = 3
    <3>1. s = API!SAMS /\ (NotMetadata(p) \/ IsMetadata(p))
      <4>1. Table[n][1] = API!SAMS /\ Table[n][2] = API!samsPermissions
        BY <2>5, PermissionsOfSAMS
      <4>2. k \in 1..14
        BY <4>1, PermissionsOfSAMS
      <4>3. NotMetadata(API!samsPermissions[k]) \/ IsMetadata(API!samsPermissions[k])
        BY <4>2, PermissionsOfSAMS
      <4> QED
        BY <4>1, <4>3
    <3> HIDE DEF s, p
    <3>2. API!ParseScope(scope) = Parsed(s, p, a)
      BY <2>3, APIShared, ScopeOfParts
    <3>3. PermissionOf(scope) = p
      BY <3>2 DEF PermissionOf, Parsed
    <3> QED
      BY <2>3, <3>1, <3>3 DEF Parts
  <2> QED
    BY <2>4, <2>5
<1> QED
  BY <1>1, <1>2, <1>3 DEF Standard

LEMMA MetadataNames == API!MetadataScopes \subseteq Names
<1> SUFFICES ASSUME NEW name \in API!MetadataScopes PROVE name \in Names
  OBVIOUS
<1>1. PICK scope \in AllScopes(9) :
          name \in API!PermissionToMetadataScope(API!ParseScope(scope).permission)
  BY AllowedOnce DEF API!MetadataScopes
<1>2. name # API!Everything
  BY DEF API!MetadataScopes
<1> DEFINE p == PermissionOf(scope)
<1>3. name \in API!PermissionToMetadataScope(p)
  BY <1>1 DEF PermissionOf
<1>4. \/ NotMetadata(p) /\ p \in Seq(APIWords)
     \/ IsMetadata(p)
  BY AllowedPermissions
<1> HIDE DEF p
<1>5. IsMetadata(p)
  BY <1>3, <1>4, NoName
<1>6. p # API!UserMetadata
  BY <1>2, <1>3, AllNames
<1>7. PICK given \in Names : p = Named(given)
  BY <1>5, <1>6 DEF IsMetadata
<1>8. name = given
  BY <1>3, <1>7, NameRead
<1> QED
  BY <1>8

(* The scopes of SAMS, by the place of their permission. *)
LEMMA SAMSIsAllowed ==
    ASSUME NEW k \in 1..14, NEW a \in ActionsFor(API!samsPermissions[k])
    PROVE  API!ToScope(API!SAMS, API!samsPermissions[k], a) \in AllScopes(9)
<1>1. Table[3][1] = API!SAMS /\ Table[3][2] = API!samsPermissions
  BY PermissionsOfSAMS
<1>2. k \in 1..Len(Table[3][2]) /\ a \in ActionsFor(Table[3][2][k])
  BY <1>1, PermissionsOfSAMS
<1>3. API!ToScope(Table[3][1], Table[3][2][k], a) \in AllScopes(9)
  <2> 3 \in 1..9
    OBVIOUS
  <2> QED
    BY <1>2, TableIsAllowed
<1> QED
  BY <1>1, <1>3

(* Every permission of SAMS but that of its own metadata has all actions. *)
LEMMA SAMSActions ==
    ASSUME NEW k \in 1..14
    PROVE  /\ API!ActionRead \in ActionsFor(API!samsPermissions[k])
           /\ k # 5 => ActionsFor(API!samsPermissions[k]) = AllActions
<1> DEFINE list == API!samsPermissions
<1>1. list[5] = API!UserMetadataInternal
  BY SAMSPermissions DEF API!UserMetadataInternal
<1>2. k # 5 => list[k] # list[5]
  BY SAMSList DEF ProperList
<1> HIDE DEF list
<1>3. k # 5 => ActionsFor(list[k]) = AllActions
  BY <1>1, <1>2 DEF ActionsFor
<1>4. API!ActionRead \in ActionsFor(list[k])
  BY DEF ActionsFor, AllActions
<1> QED
  BY <1>3, <1>4 DEF list

LEMMA NamesAreAllowed ==
    ASSUME NEW name \in Names
    PROVE  /\ API!ToScope(API!SAMS, Named(name), API!ActionRead) \in AllScopes(9)
           /\ name # <<"internal">> =>
                  API!ToScope(API!SAMS, Named(name), API!ActionWrite) \in AllScopes(9)
<1> DEFINE list == API!samsPermissions
           At(k) == Named(name) = list[k]
<1>1. \/ name = <<"internal">> /\ At(5)
      \/ At(6) \/ At(7) \/ At(8) \/ At(9)
  BY NamedText, SAMSPermissions DEF Names
<1>2. PICK k \in 5..9 : At(k) /\ (k = 5 => name = <<"internal">>)
  <2> HIDE DEF At
  <2> QED
    BY <1>1
<1>3. k \in 1..14 /\ API!ActionWrite \in AllActions
  BY DEF AllActions
<1>4. API!ToScope(API!SAMS, list[k], API!ActionRead) \in AllScopes(9)
  BY <1>3, SAMSIsAllowed, SAMSActions
<1>5. k # 5 => API!ToScope(API!SAMS, list[k], API!ActionWrite) \in AllScopes(9)
  BY <1>3, SAMSIsAllowed, SAMSActions
<1> HIDE DEF list
<1> QED
  BY <1>2, <1>4, <1>5

(* The scopes that methods require of SAMS. *)
LEMMA RequiredOfSAMS ==
    /\ API!ToScope(API!SAMS, <<"user">>, API!ActionWrite) \in AllScopes(9)
    /\ API!ToScope(API!SAMS, <<"user", ".", "roles">>, API!ActionRead) \in AllScopes(9)
    /\ API!ToScope(API!SAMS, <<"session">>, API!ActionRead) \in AllScopes(9)
    /\ API!ToScope(API!SAMS, <<"session">>, API!ActionWrite) \in AllScopes(9)
    /\ API!ToScope(API!SAMS, <<"roles", ".", "resources">>, API!ActionWrite) \in AllScopes(9)
    /\ \A a \in AllActions :
           API!ToScope(API!SAMS, <<"service_access_tokens", ".", "analytics">>, a)
               \in AllScopes(9)
<1>1. /\ API!samsPermissions[1] = <<"user">>
      /\ API!samsPermissions[3] = <<"user", ".", "roles">>
      /\ API!samsPermissions[10] = <<"session">>
      /\ API!samsPermissions[12] = <<"roles", ".", "resources">>
      /\ API!samsPermissions[14] = <<"service_access_tokens", ".", "analytics">>
  BY SAMSPermissions
<1>2. /\ API!ActionRead \in AllActions /\ API!ActionWrite \in AllActions
  BY DEF AllActions
<1>3. \A k \in 1..14 \ {5} : \A a \in AllActions :
          API!ToScope(API!SAMS, API!samsPermissions[k], a) \in AllScopes(9)
  BY SAMSIsAllowed, SAMSActions
<1>4. 1 \in 1..14 \ {5} /\ 3 \in 1..14 \ {5} /\ 10 \in 1..14 \ {5}
      /\ 12 \in 1..14 \ {5} /\ 14 \in 1..14 \ {5}
  OBVIOUS
<1>5. /\ API!ToScope(API!SAMS, API!samsPermissions[1], API!ActionWrite) \in AllScopes(9)
      /\ API!ToScope(API!SAMS, API!samsPermissions[3], API!ActionRead) \in AllScopes(9)
      /\ API!ToScope(API!SAMS, API!samsPermissions[10], API!ActionRead) \in AllScopes(9)
      /\ API!ToScope(API!SAMS, API!samsPermissions[10], API!ActionWrite) \in AllScopes(9)
      /\ API!ToScope(API!SAMS, API!samsPermissions[12], API!ActionWrite) \in AllScopes(9)
      /\ \A a \in AllActions : API!ToScope(API!SAMS, API!samsPermissions[14], a) \in AllScopes(9)
  BY <1>2, <1>3, <1>4
<1> QED
  BY <1>1, <1>5

LEMMA TokensOfAnalytics ==
    API!ServiceAccessTokens \o <<".">> \o API!Analytics =
        <<"service_access_tokens", ".", "analytics">>
<1>1. "service_access_tokens" \in APIWords /\ "." \in APIWords /\ "analytics" \in APIWords
  BY DEF APIWords
<1> DEFINE dotted == <<"service_access_tokens", ".">>
<1>2. IsConcat(dotted, <<"service_access_tokens">>, <<".">>)
  BY <1>1, FewWords
<1>3. IsConcat(<<"service_access_tokens", ".", "analytics">>, dotted, <<"analytics">>)
  BY <1>1, FewWords
<1> HIDE DEF dotted
<1> QED
  BY <1>2, <1>3 DEF IsConcat, API!ServiceAccessTokens, API!Analytics

(* The methods, and what they require. *)
LEMMA MethodsRequire ==
    /\ DOMAIN API!RequiredScopes =
           {"GetUser", "GetUsers", "CreateUser", "GetUserRoles", "GetUserMetadata",
            "UpdateUserMetadata", "GetSession", "SignOutSession", "IntrospectToken",
            "RegisterRoleResources", "CreateServiceAccessToken", "ListServiceAccessTokens",
            "RevokeServiceAccessToken"}
    /\ Methods = DOMAIN API!RequiredScopes
<1>1. DOMAIN API!RequiredScopes =
          {"GetUser", "GetUsers", "CreateUser", "GetUserRoles", "GetUserMetadata",
            "UpdateUserMetadata", "GetSession", "SignOutSession", "IntrospectToken",
            "RegisterRoleResources", "CreateServiceAccessToken", "ListServiceAccessTokens",
            "RevokeServiceAccessToken"}
  BY DEF API!RequiredScopes
<1>2. /\ DOMAIN UsersServiceClient =
             {"GetUser", "GetUsers", "CreateUser", "GetUserRoles", "GetUserMetadata",
              "UpdateUserMetadata"}
      /\ DOMAIN SessionsServiceClient = {"GetSession", "SignOutSession"}
      /\ DOMAIN TokensServiceClient = {"IntrospectToken"}
      /\ DOMAIN RolesServiceClient = {"RegisterRoleResources"}
      /\ DOMAIN ServiceAccessTokensServiceClient =
             {"CreateServiceAccessToken", "ListServiceAccessTokens", "RevokeServiceAccessToken"}
  BY DEF UsersServiceClient, SessionsServiceClient, TokensServiceClient, RolesServiceClient,
         ServiceAccessTokensServiceClient
<1> QED
  BY <1>1, <1>2 DEF Methods

LEMMA RequiredAreAllowed ==
    ASSUME NEW method \in DOMAIN API!RequiredScopes, NEW scope \in API!RequiredScopes[method]
    PROVE  scope \in AllScopes(9)
<1> DEFINE tokens == <<"service_access_tokens", ".", "analytics">>
<1>1. /\ API!RequiredScopes["GetUser"] = {API!Profile}
      /\ API!RequiredScopes["GetUsers"] = {API!Profile}
      /\ API!RequiredScopes["CreateUser"] =
             {API!ToScope(API!SAMS, <<"user">>, API!ActionWrite)}
      /\ API!RequiredScopes["GetUserRoles"] =
             {API!ToScope(API!SAMS, <<"user", ".", "roles">>, API!ActionRead)}
      /\ API!RequiredScopes["GetSession"] =
             {API!ToScope(API!SAMS, <<"session">>, API!ActionRead)}
      /\ API!RequiredScopes["SignOutSession"] =
             {API!ToScope(API!SAMS, <<"session">>, API!ActionWrite)}
      /\ API!RequiredScopes["IntrospectToken"] = {}
      /\ API!RequiredScopes["RegisterRoleResources"] =
             {API!ToScope(API!SAMS, <<"roles", ".", "resources">>, API!ActionWrite)}
  BY DEF API!RequiredScopes
<1>2. /\ API!RequiredScopes["CreateServiceAccessToken"] =
             {API!ToScope(API!SAMS, tokens, API!ActionWrite)}
      /\ API!RequiredScopes["ListServiceAccessTokens"] =
             {API!ToScope(API!SAMS, tokens, API!ActionRead)}
      /\ API!RequiredScopes["RevokeServiceAccessToken"] =
             {API!ToScope(API!SAMS, tokens, API!ActionDelete)}
  BY TokensOfAnalytics DEF API!RequiredScopes, API!TokenServices
<1>3. /\ API!RequiredScopes["GetUserMetadata"] =
             {API!ToScope(API!SAMS, Named(name), API!ActionRead) : name \in API!MetadataScopes}
      /\ API!RequiredScopes["UpdateUserMetadata"] =
             {API!ToScope(API!SAMS, Named(name), API!ActionWrite) :
                 name \in API!MetadataScopes \ {<<"internal">>}}
  BY DEF API!RequiredScopes, Named
<1> HIDE DEF tokens
<1>4. API!Profile \in AllScopes(9)
  BY DEF AllScopes, Standard, API!Profile, Profile
<1>5. \A a \in AllActions : API!ToScope(API!SAMS, tokens, a) \in AllScopes(9)
  BY RequiredOfSAMS DEF tokens
<1>6. /\ API!ActionRead \in AllActions /\ API!ActionWrite \in AllActions
      /\ API!ActionDelete \in AllActions
  BY DEF AllActions
<1>7. CASE method = "GetUserMetadata"
  <2>1. PICK name \in API!MetadataScopes :
            scope = API!ToScope(API!SAMS, Named(name), API!ActionRead)
    BY <1>3, <1>7
  <2> QED
    BY <2>1, MetadataNames, NamesAreAllowed
<1>8. CASE method = "UpdateUserMetadata"
  <2>1. PICK name \in API!MetadataScopes \ {<<"internal">>} :
            scope = API!ToScope(API!SAMS, Named(name), API!ActionWrite)
    BY <1>3, <1>8
  <2> QED
    BY <2>1, MetadataNames, NamesAreAllowed
<1>9. CASE method \in {"CreateServiceAccessToken", "ListServiceAccessTokens",
                       "RevokeServiceAccessToken"}
  BY <1>2, <1>5, <1>6, <1>9
<1>10. CASE method \in {"GetUser", "GetUsers", "CreateUser", "GetUserRoles", "GetSession",
                        "SignOutSession", "IntrospectToken", "RegisterRoleResources"}
  BY <1>1, <1>4, <1>10, RequiredOfSAMS
<1> QED
  BY <1>7, <1>8, <1>9, <1>10, MethodsRequire

LEMMA AlwaysRequiredIsAllowed == API!RequiredIsAllowed
<1>1. \A method \in DOMAIN API!RequiredScopes : \A scope \in API!RequiredScopes[method] :
          API!AllowedContains(scope)
  BY RequiredAreAllowed, AllowedOnce
<1>2. \A scope \in API!Range(API!Allowed) : RoundTrip(scope, API!ParseScope(API!Canonical(scope)))
  BY AllowedOnce, AllowedAreRead
<1> QED
  BY <1>1, <1>2, AllowedOnce DEF API!RequiredIsAllowed, RoundTrip

(* MethodsCanBeGranted: what every method of SAMS requires, metadata and   *)
(* service access tokens included, is in the list a client registers from  *)
(* (scopes/scopes.go, Allowed; clients.proto), which names each scope once *)
(* and only scopes that parse to the parts they were made of.              *)
THEOREM MethodsCanBeGrantedHolds == Spec => []MethodsCanBeGranted
<1>1. MethodsCanBeGranted
  BY AlwaysRequiredIsAllowed, MethodsRequire DEF MethodsCanBeGranted
<1> QED
  BY <1>1, PTL

-----------------------------------------------------------------------------
(* The namespace of metadata *)

LEMMA PartsOfConcat ==
    ASSUME NEW S, NEW T, NEW x \in Seq(S), NEW y \in Seq(S), NEW both \in Seq(T), both = x \o y
    PROVE  x \in Seq(T) /\ y \in Seq(T)
<1> DEFINE M == Len(x)
           N == Len(y)
<1>1. Joins(both, x, y) /\ M \in Nat /\ N \in Nat
  BY ConcatJoins
<1>2. /\ Len(both) = M + N /\ \A i \in 1..M : both[i] = x[i]
      /\ \A i \in 1..N : both[M + i] = y[i]
  BY <1>1 DEF Joins
<1>3. /\ x = [i \in 1..M |-> x[i]] /\ y = [i \in 1..N |-> y[i]]
  OBVIOUS
<1> HIDE DEF M, N
<1>4. \A i \in 1..(M + N) : both[i] \in T
  BY <1>1, <1>2
<1>5. \A i \in 1..M : i \in 1..(M + N) /\ x[i] \in T
  <2>1. \A i \in 1..M : i \in 1..(M + N)
    BY <1>1
  <2> QED
    BY <1>2, <1>4, <2>1
<1>6. \A i \in 1..N : y[i] \in T
  <2>1. \A i \in 1..N : M + i \in 1..(M + N)
    BY <1>1
  <2> QED
    BY <1>2, <1>4, <2>1
<1>7. x \in Seq(T)
  BY <1>1, <1>3, <1>5
<1> QED
  BY <1>1, <1>3, <1>6, <1>7

(* scope is of the permission p of SAMS, and as long as its parts. *)
IsMetadataScope(scope, p, a) ==
    /\ IsMetadata(p) /\ p \in Seq(Symbols) /\ Length(p) \in Nat
    /\ API!ParseScope(scope) = Parsed(API!SAMS, p, a)
    /\ API!Canonical(scope) = scope
    /\ Length(scope) = Length(API!SAMS) + Length(Separator) + Length(p)
                           + Length(Separator) + Length(a)
    /\ Length(API!SAMS) \in Nat /\ Length(Separator) \in Nat /\ Length(a) \in Nat

LEMMA MetadataScope ==
    ASSUME NEW scope \in API!Range(API!Allowed),
           API!PermissionToMetadataScope(API!ParseScope(scope).permission) # {}
    PROVE  \E a \in AllActions : IsMetadataScope(scope, PermissionOf(scope), a)
<1> DEFINE p == PermissionOf(scope)
           s == API!SAMS
<1>1. scope \in AllScopes(9)
  BY AllowedOnce
<1>2. API!PermissionToMetadataScope(p) # {}
  BY DEF PermissionOf
<1>3. PICK a \in AllActions :
          IsMetadata(p) /\ p \in Parts(APIWords) /\ scope = API!ToScope(s, p, a)
  <2> HIDE DEF p
  <2>1. ~(NotMetadata(p) /\ p \in Seq(APIWords))
    BY <1>2, NoName
  <2> QED
    BY <1>1, <2>1, AllowedPermissions DEF p
<1>4. s \in Parts(APIWords)
  BY PermissionsOfSAMS, TableIsProper
<1> HIDE DEF p, s
<1>5. /\ scope \notin Builtin \cup {Profile}
      /\ API!ParseScope(scope) = Parsed(s, p, a)
  BY <1>3, <1>4, APIShared, ScopeOfParts
<1>6. API!Canonical(scope) = scope
  BY <1>5, APIReads DEF Canonical
<1>7. /\ s \in Seq(APIWords) /\ p \in Seq(APIWords) /\ Plain(s) /\ Plain(p)
  BY <1>3, <1>4 DEF Parts
<1>8. a \in Seq(APIWords) /\ Separator \in Seq(APIWords)
  <2>1. \A word \in APIWords : <<word>> \in Seq(APIWords)
    OBVIOUS
  <2>2. a \in {<<"read">>, <<"write">>, <<"delete">>}
    BY DEF AllActions, API!ActionRead, API!ActionWrite, API!ActionDelete
  <2>3. {":", "read", "write", "delete"} \subseteq APIWords
    BY APIShared DEF Shared
  <2>4. Separator \in Seq(APIWords)
    BY <2>3 DEF Separator
  <2> QED
    BY <2>1, <2>2, <2>3, <2>4
<1> DEFINE V == Seq(APIWords)
           last == Separator \o a
           rest == p \o last
           after == Separator \o rest
<1>18. IsScopeOf(scope, s, p, a)
  <2>1. IsScopeOf(ToScope(s, p, a), s, p, a)
    BY <1>7, <1>8, ScopeIsRead
  <2> QED
    BY <1>3, <2>1, APIReads
<1>9. scope = s \o after
  BY <1>18 DEF IsScopeOf
<1>10. last \in V /\ rest \in V /\ after \in V
  BY <1>7, <1>8, ConcatProperties
<1>11. scope \in Seq(Symbols)
  BY ClientLibraryAssumption
<1>12. s \in Seq(Symbols) /\ after \in Seq(Symbols)
  <2> HIDE DEF after
  <2> QED
    BY <1>7, <1>9, <1>10, <1>11, PartsOfConcat
<1>13. Separator \in Seq(Symbols) /\ rest \in Seq(Symbols)
  <2> HIDE DEF rest
  <2> QED
    BY <1>8, <1>10, <1>12, PartsOfConcat
<1>14. p \in Seq(Symbols) /\ last \in Seq(Symbols)
  <2> HIDE DEF last
  <2> QED
    BY <1>7, <1>10, <1>13, PartsOfConcat
<1>15. a \in Seq(Symbols)
  BY <1>8, <1>14, PartsOfConcat
<1>16. /\ Length(s) \in Nat /\ Length(p) \in Nat /\ Length(a) \in Nat
       /\ Length(Separator) \in Nat
       /\ Length(scope) = Length(s) + Length(Separator) + Length(p) + Length(Separator) + Length(a)
  BY <1>12, <1>13, <1>14, <1>15, <1>18, LengthOfScope
<1>17. IsMetadataScope(scope, p, a)
  BY <1>3, <1>5, <1>6, <1>14, <1>16 DEF IsMetadataScope, s
<1> QED
  BY <1>17 DEF p

LEMMA APIMatches ==
    ASSUME NEW a, NEW b
    PROVE  /\ API!Matches(a, b) = Matches(a, b)
           /\ API!Covered(a, b) <=>
                  /\ API!ParseScope(API!Canonical(b)).valid
                  /\ Matches(API!Canonical(a), API!Canonical(b))
<1>1. \A text : API!Length(text) = Length(text) /\ API!ParseScope(text) = ParseScope(text)
  BY APIReads DEF API!Length, Length
<1>2. \A x, y : API!IsPrefix(x, y) = IsPrefix(x, y)
  BY DEF API!IsPrefix, IsPrefix
<1>3. \A x, y : API!Matches(x, y) = Matches(x, y)
  BY <1>1, <1>2 DEF API!Matches, Matches
<1>4. API!Covered(a, b) <=>
          /\ API!ParseScope(API!Canonical(b)).valid
          /\ API!Matches(API!Canonical(a), API!Canonical(b))
  <2>1. DOMAIN <<a>> = {1} /\ <<a>>[1] = a
    OBVIOUS
  <2> QED
    BY <2>1 DEF API!Covered, API!Strategy
<1> QED
  BY <1>3, <1>4

LEMMA NamesTell ==
    ASSUME NEW p, NEW q, IsMetadata(p), IsMetadata(q)
    PROVE  /\ API!PermissionToMetadataScope(p) = {API!Everything} <=> p = API!UserMetadata
           /\ API!PermissionToMetadataScope(p) = API!PermissionToMetadataScope(q) <=> p = q
<1>1. API!Everything \notin Names
  <2>1. Len(API!Everything) = 1 /\ API!Everything[1] = "*"
    BY DEF API!Everything
  <2>2. \A name \in Names : name[1] # "*"
    BY DEF Names
  <2> QED
    BY <2>1, <2>2
<1>2. API!PermissionToMetadataScope(API!UserMetadata) = {API!Everything}
  BY AllNames
<1>3. \A name \in Names : API!PermissionToMetadataScope(Named(name)) = {name}
  BY NameRead
<1>4. \A r : IsMetadata(r) =>
          \/ r = API!UserMetadata
          \/ \E name \in Names : r = Named(name)
  BY DEF IsMetadata
<1>5. \A r : IsMetadata(r) =>
          (API!PermissionToMetadataScope(r) = {API!Everything} <=> r = API!UserMetadata)
  BY <1>1, <1>2, <1>3, <1>4
<1>6. ASSUME API!PermissionToMetadataScope(p) = API!PermissionToMetadataScope(q) PROVE p = q
  <2>1. CASE p = API!UserMetadata
    BY <1>2, <1>5, <1>6, <2>1
  <2>2. CASE p # API!UserMetadata
    <3>1. q # API!UserMetadata
      BY <1>2, <1>5, <1>6, <2>2
    <3>2. PICK m \in Names : p = Named(m)
      BY <1>4, <2>2
    <3>3. PICK n \in Names : q = Named(n)
      BY <1>4, <3>1
    <3>4. {m} = {n}
      BY <1>3, <1>6, <3>2, <3>3
    <3> QED
      BY <3>2, <3>3, <3>4
  <2> QED
    BY <2>1, <2>2
<1> QED
  BY <1>5, <1>6

(* The permission and a dot. *)
Opened(p) == p \o <<".">>

LEMMA NamedShape ==
    ASSUME NEW name \in Names
    PROVE  /\ Named(name) \in Seq(APIWords)
           /\ Len(Named(name)) = 5 \/ (Len(Named(name)) = 6 /\ Named(name)[6] = "_gatekeeper")
<1> DEFINE Word(w) == w \in APIWords
           Shape(p) == Len(p) = 5 \/ (Len(p) = 6 /\ p[6] = "_gatekeeper")
<1>1. /\ Word("user") /\ Word(".") /\ Word("metadata") /\ Word("internal") /\ Word("cody")
      /\ Word("dotcom") /\ Word("_gatekeeper") /\ Word("plg")
  BY DEF APIWords
<1>2. /\ Named(<<"internal">>) \in Seq(APIWords) /\ Named(<<"cody">>) \in Seq(APIWords)
      /\ Named(<<"dotcom">>) \in Seq(APIWords) /\ Named(<<"plg">>) \in Seq(APIWords)
      /\ Named(<<"cody", "_gatekeeper">>) \in Seq(APIWords)
  <2>1. /\ \A u, v, w, x, y : Word(u) /\ Word(v) /\ Word(w) /\ Word(x) /\ Word(y)
                => <<u, v, w, x, y>> \in Seq(APIWords)
        /\ \A u, v, w, x, y, z :
                Word(u) /\ Word(v) /\ Word(w) /\ Word(x) /\ Word(y) /\ Word(z)
                => <<u, v, w, x, y, z>> \in Seq(APIWords)
    OBVIOUS
  <2> HIDE DEF Word, Shape
  <2> QED
    BY <1>1, <2>1, NamedText
<1>3. /\ Shape(Named(<<"internal">>)) /\ Shape(Named(<<"cody">>)) /\ Shape(Named(<<"dotcom">>))
      /\ Shape(Named(<<"plg">>)) /\ Shape(Named(<<"cody", "_gatekeeper">>))
  BY NamedText
<1>4. \/ name = <<"internal">> \/ name = <<"cody">> \/ name = <<"dotcom">>
      \/ name = <<"cody", "_gatekeeper">> \/ name = <<"plg">>
  BY DEF Names
<1> HIDE DEF Word, Shape
<1>5. Named(name) \in Seq(APIWords) /\ Shape(Named(name))
  BY <1>2, <1>3, <1>4
<1> QED
  BY <1>5 DEF Shape

(* No name is the beginning of another, dot and all. *)
LEMMA NamesArePrefixFree ==
    ASSUME NEW p, NEW q, IsMetadata(p), IsMetadata(q)
    PROVE  IsPrefix(Opened(p), q) <=> p = API!UserMetadata /\ q # API!UserMetadata
<1> DEFINE m == API!UserMetadata
           after == Opened(p)
<1>1. m \in Seq(APIWords) /\ Len(m) = 3 /\ <<".">> \in Seq(APIWords)
  <2>1. "user" \in APIWords /\ "." \in APIWords /\ "metadata" \in APIWords
    BY DEF APIWords
  <2> QED
    BY <2>1 DEF API!UserMetadata
<1>2. /\ p = m \/ \E name \in Names : p = Named(name)
      /\ q = m \/ \E name \in Names : q = Named(name)
  BY DEF IsMetadata
<1>3. ASSUME p = m, NEW name \in Names, q = Named(name) PROVE IsPrefix(after, q)
  <2>1. after \in Seq(APIWords)
    BY <1>1, <1>3, ConcatProperties DEF Opened
  <2>2. name \in Seq(APIWords)
    <3>1. /\ "internal" \in APIWords /\ "cody" \in APIWords /\ "dotcom" \in APIWords
          /\ "_gatekeeper" \in APIWords /\ "plg" \in APIWords
      BY DEF APIWords
    <3>2. /\ <<"internal">> \in Seq(APIWords) /\ <<"cody">> \in Seq(APIWords)
          /\ <<"dotcom">> \in Seq(APIWords) /\ <<"cody", "_gatekeeper">> \in Seq(APIWords)
          /\ <<"plg">> \in Seq(APIWords)
      BY <3>1
    <3> QED
      BY <3>2 DEF Names
  <2>3. q = after \o name
    BY <1>3 DEF Named, Opened
  <2> HIDE DEF after
  <2> QED
    BY <2>1, <2>2, <2>3, PrefixOfConcat
<1>4. p \in Seq(APIWords) /\ q \in Seq(APIWords)
  BY <1>1, <1>2, NamedShape
<1>5. /\ after \in Seq(APIWords) /\ Len(after) = Len(p) + 1 /\ after[Len(p) + 1] = "."
  BY <1>1, <1>4, ConcatProperties DEF Opened
<1> HIDE DEF m, after
<1>6. ASSUME IsPrefix(after, q)
      PROVE  Len(p) + 1 <= Len(q) /\ q[Len(p) + 1] = "."
  <2>1. Len(after) <= Len(q) /\ \A i \in 1..Len(after) : after[i] = q[i]
    BY <1>4, <1>5, <1>6, PrefixPointwise
  <2>2. Len(p) \in Nat /\ Len(q) \in Nat
    BY <1>4
  <2> QED
    BY <1>5, <2>1, <2>2
<1>7. ASSUME IsPrefix(after, q) PROVE p = m /\ q # m
  <2>1. q # m
    <3>1. Len(p) \in {3, 5, 6}
      <4>1. \A name \in Names : Len(Named(name)) \in {5, 6}
        BY NamedShape
      <4>2. p = m => Len(p) = 3
        BY <1>1
      <4> QED
        BY <1>2, <4>1, <4>2
    <3>2. Len(q) # 3
      <4> DEFINE i == Len(p)
                 j == Len(q)
      <4>1. i \in {3, 5, 6} /\ i + 1 <= j
        BY <1>6, <1>7, <3>1
      <4> HIDE DEF i, j
      <4>2. j # 3
        BY <4>1
      <4> QED
        BY <4>2 DEF j
    <3> QED
      BY <1>1, <3>2
  <2>2. CASE p # m
    <3>1. Len(p) = 5 \/ Len(p) = 6
      BY <1>2, <2>2, NamedShape
    <3>2. Len(q) = 5 \/ (Len(q) = 6 /\ q[6] = "_gatekeeper")
      BY <1>2, <2>1, NamedShape
    <3>3. Len(p) + 1 <= Len(q) /\ q[Len(p) + 1] = "."
      BY <1>6, <1>7
    <3> DEFINE i == Len(p)
               j == Len(q)
    <3>4. i = 5 /\ j = 6
      <4>1. /\ i \in {5, 6} /\ j \in {5, 6} /\ i + 1 <= j
        BY <3>1, <3>2, <3>3
      <4> HIDE DEF i, j
      <4> QED
        BY <4>1
    <3>6. Len(q) # 5 /\ Len(p) + 1 = 6
      BY <3>4
    <3>5. q[6] = "." /\ q[6] = "_gatekeeper"
      BY <3>2, <3>3, <3>6
    <3> QED
      BY <3>5
  <2> QED
    BY <2>1, <2>2
<1>8. ASSUME p = m, q # m PROVE IsPrefix(after, q)
  BY <1>2, <1>3, <1>8
<1>9. IsPrefix(after, q) <=> p = m /\ q # m
  BY <1>7, <1>8
<1> QED
  BY <1>9 DEF m, after

(* What has a prefix is as long. *)
LEMMA PrefixIsShorter ==
    ASSUME NEW p \in Seq(Symbols), NEW q \in Seq(Symbols), Dot \in Seq(Symbols),
           IsPrefix(Opened(p), q)
    PROVE  Length(p) <= Length(q)
<1> DEFINE both == Opened(p)
<1>1. both \in Seq(Symbols) /\ Length(both) = Length(p) + Length(Dot)
      /\ Length(Dot) \in Nat /\ Length(p) \in Nat
  <2>1. both = p \o Dot
    BY DEF Opened, Dot
  <2> QED
    BY <2>1, FrontOfConcat, LengthOfConcat
<1> HIDE DEF both
<1>2. PICK rest \in Seq(Symbols) : q = both \o rest
  BY <1>1, PrefixRest DEF both
<1>3. Length(q) = Length(both) + Length(rest) /\ Length(rest) \in Nat
  BY <1>1, <1>2, LengthOfConcat
<1> QED
  BY <1>1, <1>3

(* Scopes of metadata match by their actions and permissions. *)
LEMMA MetadataMatch ==
    ASSUME NEW a, NEW b, NEW p, NEW q, NEW x, NEW y,
           IsMetadataScope(a, p, x), IsMetadataScope(b, q, y)
    PROVE  API!Covered(a, b) <=> x = y /\ (p = q \/ IsPrefix(Opened(p), q))
<1> DEFINE around == Length(API!SAMS) + Length(Separator) + Length(Separator) + Length(x)
<1>1. /\ API!ParseScope(a) = Parsed(API!SAMS, p, x) /\ API!Canonical(a) = a
      /\ API!ParseScope(b) = Parsed(API!SAMS, q, y) /\ API!Canonical(b) = b
      /\ p \in Seq(Symbols) /\ q \in Seq(Symbols)
  BY DEF IsMetadataScope
<1>2. API!Covered(a, b) <=> Matches(a, b)
  BY <1>1, APIMatches DEF Parsed
<1>3. Matches(a, b) <=>
          Length(a) <= Length(b) /\ x = y /\ (p = q \/ IsPrefix(Opened(p), q))
  BY <1>1, APIReads DEF Matches, Parsed, Opened
<1>4. Length(p) \in Nat /\ Length(q) \in Nat
  BY DEF IsMetadataScope
<1>5. x = y /\ Length(p) <= Length(q) => Length(a) <= Length(b)
  BY DEF IsMetadataScope
<1>6. Dot \in Seq(Symbols)
  BY ScopeStrategyAssumption DEF ProperParts, Dot
<1>7. IsPrefix(Opened(p), q) => Length(p) <= Length(q)
  BY <1>1, <1>6, PrefixIsShorter
<1>8. p = q => Length(p) <= Length(q)
  BY <1>4
<1> QED
  BY <1>2, <1>3, <1>5, <1>7, <1>8

LEMMA OneNamespace ==
    ASSUME NEW a \in API!Range(API!Allowed), NEW b \in API!Range(API!Allowed),
           API!PermissionToMetadataScope(API!ParseScope(a).permission) # {},
           API!PermissionToMetadataScope(API!ParseScope(b).permission) # {}
    PROVE  API!Covered(a, b) <=>
               /\ API!ParseScope(a).action = API!ParseScope(b).action
               /\ \/ API!PermissionToMetadataScope(API!ParseScope(a).permission) =
                         {API!Everything}
                  \/ API!PermissionToMetadataScope(API!ParseScope(a).permission) =
                         API!PermissionToMetadataScope(API!ParseScope(b).permission)
<1>1. PICK x \in AllActions : IsMetadataScope(a, PermissionOf(a), x)
  BY MetadataScope
<1>2. PICK y \in AllActions : IsMetadataScope(b, PermissionOf(b), y)
  BY MetadataScope
<1> DEFINE p == PermissionOf(a)
           q == PermissionOf(b)
<1>3. /\ IsMetadataScope(a, p, x) /\ IsMetadataScope(b, q, y)
      /\ p = API!ParseScope(a).permission /\ q = API!ParseScope(b).permission
  BY <1>1, <1>2 DEF PermissionOf
<1> HIDE DEF p, q
<1>4. IsMetadata(p) /\ IsMetadata(q)
  BY <1>3 DEF IsMetadataScope
<1>5. API!ParseScope(a).action = x /\ API!ParseScope(b).action = y
  BY <1>3 DEF IsMetadataScope, Parsed
<1>6. API!Covered(a, b) <=> x = y /\ (p = q \/ IsPrefix(Opened(p), q))
  BY <1>3, MetadataMatch
<1>7. IsPrefix(Opened(p), q) <=> p = API!UserMetadata /\ q # API!UserMetadata
  BY <1>4, NamesArePrefixFree
<1>8. /\ API!PermissionToMetadataScope(p) = {API!Everything} <=> p = API!UserMetadata
      /\ API!PermissionToMetadataScope(p) = API!PermissionToMetadataScope(q) <=> p = q
  BY <1>4, NamesTell
<1> QED
  BY <1>3, <1>5, <1>6, <1>7, <1>8

(* MetadataIsOneNamespace: PermissionToMetadataScope (scopes/metadata.go)  *)
(* and Strategy (scopes/scopes.go) give one verdict on every two metadata  *)
(* scopes that a client can have, whatever the length of their words.      *)
THEOREM MetadataIsOneNamespaceHolds == Spec => []MetadataIsOneNamespace
<1>1. API!MetadataScopesAgree
  BY OneNamespace DEF API!MetadataScopesAgree
<1>2. MetadataIsOneNamespace
  BY <1>1 DEF MetadataIsOneNamespace
<1> QED
  BY <1>2, PTL
===============================================================================
