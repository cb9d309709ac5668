--------------------------- MODULE RendererProofs ---------------------------
(***************************************************************************)
(* What the receiver of a frame relies on, for frames of every size and    *)
(* all characters: a frame is read as it was sent, what is read as a frame *)
(* was sent as one, and prev_frame is what the terminal shows.             *)
(***************************************************************************)
EXTENDS Renderer, WellFoundedInduction, SequenceTheorems, TLAPS

-----------------------------------------------------------------------------
(* Induction over an interval, and what follows from it.                   *)

LEMMA Induction ==
  ASSUME NEW N \in Nat, NEW S, 0 \in S,
         \A n \in 1..N : n - 1 \in S => n \in S
  PROVE  \A n \in 0..N : n \in S
<1> DEFINE Bad == (0..N) \ S
<1>1. SUFFICES ASSUME Bad # {} PROVE FALSE
  OBVIOUS
<1>2. Bad \subseteq Nat
  OBVIOUS
<1> HIDE DEF Bad
<1>3. PICK m \in Bad : \A k \in Bad : <<k, m>> \notin OpToRel(<, Nat)
  BY <1>1, <1>2, WFMin, NatLessThanWellFounded, Zenon
<1>4. \A k \in Bad : ~(k < m)
  BY <1>2, <1>3, Zenon DEF OpToRel
<1>5. m \in 0..N /\ m \notin S
  BY DEF Bad
<1>6. m # 0
  BY <1>5
<1>7. m \in 1..N /\ m - 1 \in 0..N /\ m - 1 < m
  BY <1>5, <1>6
<1>8. m - 1 \in S
  BY <1>4, <1>7 DEF Bad
<1> QED  BY <1>5, <1>7, <1>8

\* The functions that a recursive definition over 0..N may be, and that there
\* is one.
Recursive(N, X, base, step) ==
  {f \in [0..N -> X] : f[0] = base /\ \A n \in 1..N : f[n] = step[<<n, f[n - 1]>>]}

LEMMA Recursion ==
  ASSUME NEW N \in Nat, NEW X, NEW base \in X,
         NEW step, \A n \in 1..N, x \in X : step[<<n, x>>] \in X
  PROVE  Recursive(N, X, base, step) # {}
<1> USE DEF Recursive
<1> DEFINE G(m) == Recursive(m, X, base, step)
           S == {m \in Nat : G(m) # {}}
<1>1. 0 \in S
  <2>1. [i \in 0..0 |-> base] \in G(0)
    OBVIOUS
  <2> QED  BY <2>1
<1>2. ASSUME NEW m \in 1..N, m - 1 \in S
      PROVE  m \in S
  <2>1. PICK f \in G(m - 1) : TRUE
    BY <1>2
  <2> DEFINE g == [i \in 0..m |-> IF i = m THEN step[<<m, f[m - 1]>>] ELSE f[i]]
  <2>2. /\ f \in [0..(m - 1) -> X] /\ f[0] = base
        /\ \A n \in 1..(m - 1) : f[n] = step[<<n, f[n - 1]>>]
    OBVIOUS
  <2>3. m \in Nat /\ m - 1 \in 0..(m - 1) /\ f[m - 1] \in X
    BY <2>2
  <2>4. g \in [0..m -> X]
    BY <2>2, <2>3
  <2>5. g[0] = base
    BY <2>2
  <2>6. ASSUME NEW n \in 1..m PROVE g[n] = step[<<n, g[n - 1]>>]
    <3>1. n \in 0..m /\ n - 1 \in 0..m /\ n - 1 # m
      OBVIOUS
    <3>2. g[n - 1] = f[n - 1]
      BY <3>1
    <3>3. CASE n = m
      <4>1. g[n] = step[<<m, f[m - 1]>>]
        BY <3>1, <3>3
      <4> QED  BY <3>2, <3>3, <4>1
    <3>4. CASE n # m
      <4>1. n \in 1..(m - 1) /\ g[n] = f[n]
        BY <3>1, <3>4
      <4> QED  BY <2>2, <3>2, <4>1
    <3> QED  BY <3>3, <3>4
  <2> HIDE DEF g
  <2>7. g \in G(m)
    BY <2>4, <2>5, <2>6
  <2> QED  BY <2>3, <2>7
<1>3. N \in S
  <2> HIDE DEF S
  <2>1. \A n \in 0..N : n \in S
    BY <1>1, <1>2, Induction
  <2> QED  BY <2>1
<1> QED  BY <1>3

\* Every set of numbers that is not empty and has a bound has a maximum.
LEMMA MaxIsMaximum ==
  ASSUME NEW N \in Nat, NEW S, S \subseteq 0..N, S # {}
  PROVE  Max(S) \in S /\ \A n \in S : n <= Max(S)
<1> DEFINE T == {m \in Nat : (\E n \in S : n <= m) =>
                    \E n \in S : n <= m /\ \A k \in S : k <= m => k <= n}
<1>1. 0 \in T
  OBVIOUS
<1>2. ASSUME NEW m \in 1..N, m - 1 \in T
      PROVE  m \in T
  <2>1. CASE m \in S
    BY <2>1
  <2>2. CASE m \notin S
    <3>1. \A n \in S : n <= m <=> n <= m - 1
      BY <2>2
    <3> QED  BY <1>2, <3>1
  <2> QED  BY <2>1, <2>2
<1>3. N \in T
  <2> HIDE DEF T
  <2>1. \A n \in 0..N : n \in T
    BY <1>1, <1>2, Induction
  <2> QED  BY <2>1
<1>4. \A k \in S : k \in Nat /\ k <= N
  OBVIOUS
<1>5. PICK n \in S : n <= N /\ \A k \in S : k <= N => k <= n
  BY <1>3, <1>4
<1>6. \E m \in S : \A k \in S : m >= k
  BY <1>4, <1>5
<1>7. Max(S) \in S /\ \A k \in S : Max(S) >= k
  BY <1>6, Zenon DEF Max
<1> QED  BY <1>4, <1>7

-----------------------------------------------------------------------------
(* The recursive definitions of AsciiFrame.                                *)

Byte == {b \in Nat : b < 256}
Char == {c \in Nat : IsChar(c)}

LEMMA PlaceDef ==
  /\ WordBytes \in Nat \ {0}
  /\ Place[0] = 1
  /\ \A n \in 1..WordBytes : Place[n] = 256 * Place[n - 1]
  /\ \A n \in 0..WordBytes : Place[n] \in Nat \ {0}
<1> DEFINE D(f) == f = [n \in 0..WordBytes |-> IF n = 0 THEN 1 ELSE 256 * f[n - 1]]
           step == [p \in (1..WordBytes) \X Nat |-> 256 * p[2]]
<1>1. WordBytes \in Nat \ {0}
  BY WordAssumption
<1>2. \A n \in 1..WordBytes, x \in Nat : step[<<n, x>>] = 256 * x /\ step[<<n, x>>] \in Nat
  OBVIOUS
<1> HIDE DEF step
<1>3. Recursive(WordBytes, Nat, 1, step) # {}
  BY <1>1, <1>2, Recursion
<1>4. PICK f \in [0..WordBytes -> Nat] :
        f[0] = 1 /\ \A n \in 1..WordBytes : f[n] = step[<<n, f[n - 1]>>]
  BY <1>3 DEF Recursive
<1>5. ASSUME NEW n \in 1..WordBytes PROVE f[n] = 256 * f[n - 1]
  <2>1. n - 1 \in 0..WordBytes
    BY <1>1
  <2>2. f[n - 1] \in Nat /\ f[n] = step[<<n, f[n - 1]>>]
    BY <1>4, <2>1
  <2> QED  BY <1>2, <2>2
<1>6. D(f)
  BY <1>4, <1>5
<1>7. D(Place)
  BY <1>6, Zenon DEF Place
<1>8. Place[0] = 1 /\ \A n \in 1..WordBytes : Place[n] = 256 * Place[n - 1]
  BY <1>1, <1>7
<1>9. \A n \in 0..WordBytes : Place[n] \in Nat \ {0}
  <2> DEFINE S == {n \in 0..WordBytes : Place[n] \in Nat \ {0}}
  <2>1. 0 \in S
    BY <1>1, <1>8
  <2>2. ASSUME NEW n \in 1..WordBytes, n - 1 \in S PROVE n \in S
    <3>1. Place[n] = 256 * Place[n - 1]
      BY <1>8
    <3> QED  BY <2>2, <3>1
  <2> HIDE DEF S
  <2>3. \A n \in 0..WordBytes : n \in S
    BY <1>1, <2>1, <2>2, Induction
  <2> QED  BY <2>3 DEF S
<1> QED  BY <1>1, <1>8, <1>9

LEMMA NumbersDef ==
  ASSUME NEW bytes \in Seq(Byte)
  PROVE  LET number == Numbers(bytes) IN
         /\ number[0] = 0
         /\ \A n \in 1..Len(bytes) : number[n] = 256 * number[n - 1] + bytes[n]
         /\ \A n \in 0..Len(bytes) : number[n] \in Nat
<1> DEFINE N == Len(bytes)
           D(f) == f = [n \in 0..N |-> IF n = 0 THEN 0 ELSE 256 * f[n - 1] + bytes[n]]
           step == [p \in (1..N) \X Nat |-> 256 * p[2] + bytes[p[1]]]
           number == Numbers(bytes)
<1>1. N \in Nat /\ \A n \in 1..N : bytes[n] \in Nat
  <2>1. N \in Nat /\ \A n \in 1..N : bytes[n] \in Byte
    OBVIOUS
  <2> QED  BY <2>1 DEF Byte
<1>2. \A n \in 1..N, x \in Nat :
        step[<<n, x>>] = 256 * x + bytes[n] /\ step[<<n, x>>] \in Nat
  BY <1>1
<1> HIDE DEF step
<1>3. Recursive(N, Nat, 0, step) # {}
  BY <1>1, <1>2, Recursion
<1>4. PICK f \in [0..N -> Nat] : f[0] = 0 /\ \A n \in 1..N : f[n] = step[<<n, f[n - 1]>>]
  BY <1>3 DEF Recursive
<1>5. ASSUME NEW n \in 1..N PROVE f[n] = 256 * f[n - 1] + bytes[n]
  <2>1. n - 1 \in 0..N
    BY <1>1
  <2>2. f[n - 1] \in Nat /\ f[n] = step[<<n, f[n - 1]>>]
    BY <1>4, <2>1
  <2> QED  BY <1>2, <2>2
<1>6. D(f)
  BY <1>4, <1>5
<1>7. D(number)
  BY <1>6, Zenon DEF Numbers
<1> HIDE DEF number
<1>8. number[0] = 0 /\ \A n \in 1..N : number[n] = 256 * number[n - 1] + bytes[n]
  BY <1>1, <1>7
<1>9. \A n \in 0..N : number[n] \in Nat
  <2> DEFINE S == {n \in 0..N : number[n] \in Nat}
  <2>1. 0 \in S
    BY <1>1, <1>8
  <2>2. ASSUME NEW n \in 1..N, n - 1 \in S PROVE n \in S
    <3>1. number[n] = 256 * number[n - 1] + bytes[n]
      BY <1>8
    <3> QED  BY <1>1, <2>2, <3>1
  <2> HIDE DEF S
  <2>3. \A n \in 0..N : n \in S
    BY <1>1, <2>1, <2>2, Induction
  <2> QED  BY <2>3 DEF S
<1> QED  BY <1>8, <1>9 DEF number

\* What Gathered is, and that it gathers all values and nothing else.
LEMMA GatheredDef ==
  ASSUME NEW N \in Nat, NEW f, DOMAIN f \subseteq 1..N
  PROVE  LET values == Gathered(f, N) IN
         /\ values[0] = <<>>
         /\ \A n \in 1..N : values[n] = IF n \in DOMAIN f THEN Append(values[n - 1], f[n])
                                        ELSE values[n - 1]
         /\ \A n \in 0..N : values[n] \in Seq(Range(f))
<1> DEFINE V == Range(f)
           Value(g, n) == IF n \in DOMAIN f THEN Append(g[n - 1], f[n]) ELSE g[n - 1]
           D(g) == g = [n \in 0..N |-> IF n = 0 THEN <<>> ELSE Value(g, n)]
           step == [p \in (1..N) \X Seq(V) |->
                      IF p[1] \in DOMAIN f THEN Append(p[2], f[p[1]]) ELSE p[2]]
           values == Gathered(f, N)
<1>0. \A i \in DOMAIN f : f[i] \in V
  BY DEF Range
<1> HIDE DEF V
<1>1. ASSUME NEW n \in 1..N, NEW x \in Seq(V)
      PROVE  /\ step[<<n, x>>] = IF n \in DOMAIN f THEN Append(x, f[n]) ELSE x
             /\ step[<<n, x>>] \in Seq(V)
  <2>1. step[<<n, x>>] = IF n \in DOMAIN f THEN Append(x, f[n]) ELSE x
    OBVIOUS
  <2>2. ASSUME n \in DOMAIN f PROVE Append(x, f[n]) \in Seq(V)
    BY <1>0, <2>2
  <2> QED  BY <2>1, <2>2
<1> HIDE DEF step
<1>2. <<>> \in Seq(V)
  OBVIOUS
<1>3. Recursive(N, Seq(V), <<>>, step) # {}
  BY <1>1, <1>2, Recursion
<1>4. PICK g \in [0..N -> Seq(V)] :
        g[0] = <<>> /\ \A n \in 1..N : g[n] = step[<<n, g[n - 1]>>]
  BY <1>3 DEF Recursive
<1>5. ASSUME NEW n \in 1..N
      PROVE  g[n] = Value(g, n)
  <2>1. n - 1 \in 0..N
    OBVIOUS
  <2>2. g[n - 1] \in Seq(V) /\ g[n] = step[<<n, g[n - 1]>>]
    BY <1>4, <2>1
  <2> QED  BY <1>1, <2>2
<1>6. D(g)
  <2> HIDE DEF Value
  <2> QED  BY <1>4, <1>5
<1>7. D(values)
  BY <1>6, Zenon DEF Gathered
<1> HIDE DEF values
<1>8. values[0] = <<>>
  BY <1>7
<1>9. ASSUME NEW n \in 1..N
      PROVE  values[n] = IF n \in DOMAIN f THEN Append(values[n - 1], f[n]) ELSE values[n - 1]
  <2> HIDE DEF Value
  <2>1. n \in 0..N /\ n # 0
    OBVIOUS
  <2>2. values[n] = Value(values, n)
    BY <1>7, <2>1
  <2> QED  BY <2>2 DEF Value
<1>10. \A n \in 0..N : values[n] \in Seq(V)
  <2> DEFINE S == {n \in 0..N : values[n] \in Seq(V)}
  <2>1. 0 \in S
    <3>1. values[0] \in Seq(V)
      BY <1>2, <1>8, Zenon
    <3> QED  BY <3>1
  <2>2. ASSUME NEW n \in 1..N, n - 1 \in S PROVE n \in S
    <3>1. values[n - 1] \in Seq(V) /\ (n \in DOMAIN f => f[n] \in V)
      BY <1>0, <2>2
    <3>2. values[n] = IF n \in DOMAIN f THEN Append(values[n - 1], f[n]) ELSE values[n - 1]
      BY <1>9
    <3>3. CASE n \in DOMAIN f
      <4>1. Append(values[n - 1], f[n]) \in Seq(V)
        BY <3>1, <3>3
      <4>2. values[n] \in Seq(V)
        BY <3>2, <3>3, <4>1, Zenon
      <4> QED  BY <4>2
    <3>4. CASE n \notin DOMAIN f
      BY <3>1, <3>2, <3>4
    <3> QED  BY <3>3, <3>4
  <2> HIDE DEF S
  <2>3. \A n \in 0..N : n \in S
    BY <2>1, <2>2, Induction
  <2> QED  BY <2>3 DEF S
<1> QED  BY <1>8, <1>9, <1>10 DEF values, V

LEMMA GatheredType ==
  ASSUME NEW N \in Nat, NEW f, DOMAIN f \subseteq 1..N,
         NEW V, \A i \in DOMAIN f : f[i] \in V, NEW n \in 0..N
  PROVE  Gathered(f, N)[n] \in Seq(V)
<1>1. Gathered(f, N)[n] \in Seq(Range(f)) /\ Range(f) \subseteq V
  BY GatheredDef DEF Range
<1> DEFINE s == Gathered(f, N)[n]
<1> HIDE DEF s
<1>2. ASSUME NEW R, R \subseteq V, s \in Seq(R) PROVE s \in Seq(V)
  BY <1>2
<1> QED  BY <1>1, <1>2 DEF s

LEMMA GatheredAll ==
  ASSUME NEW N \in Nat, NEW f, DOMAIN f \subseteq 1..N
  PROVE  LET gathered == Gathered(f, N)[N] IN
         /\ \A i \in DOMAIN f : \E k \in DOMAIN gathered : gathered[k] = f[i]
         /\ \A k \in DOMAIN gathered : \E i \in DOMAIN f : gathered[k] = f[i]
<1> DEFINE V == Range(f)
           values == Gathered(f, N)
           All(n) == \A i \in DOMAIN f : i <= n => \E k \in DOMAIN values[n] : values[n][k] = f[i]
           Only(n) == \A k \in DOMAIN values[n] : \E i \in DOMAIN f : values[n][k] = f[i]
           S == {n \in 0..N : All(n) /\ Only(n)}
<1>1. /\ values[0] = <<>>
      /\ \A n \in 1..N : values[n] = IF n \in DOMAIN f THEN Append(values[n - 1], f[n])
                                     ELSE values[n - 1]
      /\ \A n \in 0..N : values[n] \in Seq(V)
  BY GatheredDef
<1> HIDE DEF values, V
<1>2. 0 \in S
  <2>1. \A i \in DOMAIN f : ~(i <= 0)
    OBVIOUS
  <2>2. DOMAIN values[0] = {}
    BY <1>1
  <2>3. All(0) /\ Only(0)
    BY <2>1, <2>2
  <2> HIDE DEF All, Only
  <2> QED  BY <2>3
<1>3. ASSUME NEW n \in 1..N, n - 1 \in S PROVE n \in S
  <2> DEFINE old == values[n - 1]
             new == values[n]
  <2>1. old \in Seq(V) /\ All(n - 1) /\ Only(n - 1)
    BY <1>1, <1>3
  <2>2. new = IF n \in DOMAIN f THEN Append(old, f[n]) ELSE old
    BY <1>1
  <2>3. CASE n \in DOMAIN f
    <3>1. f[n] \in V /\ new = Append(old, f[n])
      BY <2>2, <2>3 DEF V, Range
    <3> HIDE DEF old, new
    <3>2. /\ DOMAIN new = 1..(Len(old) + 1)
          /\ DOMAIN old = 1..Len(old) /\ Len(old) \in Nat
          /\ \A k \in DOMAIN old : new[k] = old[k]
          /\ new[Len(old) + 1] = f[n]
      BY <2>1, <3>1
    <3>3. \A i \in DOMAIN f : i <= n => \E k \in DOMAIN new : new[k] = f[i]
      <4> SUFFICES ASSUME NEW i \in DOMAIN f, i <= n
                   PROVE  \E k \in DOMAIN new : new[k] = f[i]
        OBVIOUS
      <4>1. CASE i = n
        BY <3>2, <4>1
      <4>2. CASE i # n
        <5>1. i <= n - 1
          BY <4>2
        <5>2. PICK k \in DOMAIN old : old[k] = f[i]
          BY <2>1, <5>1 DEF old
        <5> QED  BY <3>2, <5>2
      <4> QED  BY <4>1, <4>2
    <3>4. \A k \in DOMAIN new : \E i \in DOMAIN f : new[k] = f[i]
      <4> SUFFICES ASSUME NEW k \in DOMAIN new
                   PROVE  \E i \in DOMAIN f : new[k] = f[i]
        OBVIOUS
      <4>1. CASE k \in DOMAIN old
        BY <2>1, <3>2, <4>1 DEF old
      <4>2. CASE k \notin DOMAIN old
        <5>1. k = Len(old) + 1
          BY <3>2, <4>2
        <5> QED  BY <2>3, <3>2, <5>1
      <4> QED  BY <4>1, <4>2
    <3>5. All(n) /\ Only(n)
      BY <3>3, <3>4 DEF new
    <3> HIDE DEF All, Only
    <3> QED  BY <3>5
  <2>4. CASE n \notin DOMAIN f
    <3>1. new = old
      BY <2>2, <2>4
    <3>2. \A i \in DOMAIN f : i <= n => i <= n - 1
      BY <2>4
    <3>3. All(n) /\ Only(n)
      BY <2>1, <3>1, <3>2
    <3> HIDE DEF All, Only
    <3> QED  BY <3>3
  <2> QED  BY <2>3, <2>4
<1>4. N \in S
  <2> HIDE DEF S
  <2>1. \A n \in 0..N : n \in S
    BY <1>2, <1>3, Induction
  <2> QED  BY <2>1
<1>5. \A i \in DOMAIN f : i <= N
  OBVIOUS
<1> QED  BY <1>1, <1>4, <1>5 DEF values

\* What is gathered from the first m numbers depends on them alone.
LEMMA GatheredSame ==
  ASSUME NEW m \in Nat, NEW M \in Nat, NEW N \in Nat, m <= M, m <= N,
         NEW f, DOMAIN f \subseteq 1..M, NEW g, DOMAIN g \subseteq 1..N,
         \A i \in 1..m : (i \in DOMAIN f <=> i \in DOMAIN g) /\ (i \in DOMAIN f => f[i] = g[i])
  PROVE  Gathered(f, M)[m] = Gathered(g, N)[m]
<1> DEFINE F == Gathered(f, M)
           G == Gathered(g, N)
           S == {n \in 0..m : F[n] = G[n]}
<1>1. /\ F[0] = <<>>
      /\ \A n \in 1..M : F[n] = IF n \in DOMAIN f THEN Append(F[n - 1], f[n]) ELSE F[n - 1]
  BY GatheredDef
<1>2. /\ G[0] = <<>>
      /\ \A n \in 1..N : G[n] = IF n \in DOMAIN g THEN Append(G[n - 1], g[n]) ELSE G[n - 1]
  BY GatheredDef
<1> HIDE DEF F, G
<1>3. 0 \in S
  BY <1>1, <1>2
<1>4. ASSUME NEW n \in 1..m, n - 1 \in S PROVE n \in S
  <2>1. n \in 1..M /\ n \in 1..N /\ F[n - 1] = G[n - 1]
    BY <1>4
  <2>2. F[n] = IF n \in DOMAIN f THEN Append(F[n - 1], f[n]) ELSE F[n - 1]
    BY <1>1, <2>1
  <2>3. G[n] = IF n \in DOMAIN g THEN Append(G[n - 1], g[n]) ELSE G[n - 1]
    BY <1>2, <2>1
  <2> QED  BY <2>1, <2>2, <2>3
<1>5. m \in S
  <2> HIDE DEF S
  <2>1. \A n \in 0..m : n \in S
    BY <1>3, <1>4, Induction
  <2> QED  BY <2>1
<1> QED  BY <1>5 DEF F, G

\* What is gathered stays when the numbers behind m have no value.
LEMMA GatheredGap ==
  ASSUME NEW N \in Nat, NEW f, DOMAIN f \subseteq 1..N,
         NEW m \in 0..N, \A i \in DOMAIN f : i <= m
  PROVE  Gathered(f, N)[N] = Gathered(f, N)[m]
<1> DEFINE F == Gathered(f, N)
           S == {n \in 0..N : n >= m => F[n] = F[m]}
<1>1. \A n \in 1..N : F[n] = IF n \in DOMAIN f THEN Append(F[n - 1], f[n]) ELSE F[n - 1]
  BY GatheredDef
<1> HIDE DEF F
<1>2. 0 \in S
  BY DEF S
<1>3. ASSUME NEW n \in 1..N, n - 1 \in S PROVE n \in S
  <2>1. CASE n > m
    <3>1. n \notin DOMAIN f /\ n - 1 >= m
      BY <2>1
    <3>2. F[n] = F[n - 1]
      BY <1>1, <3>1
    <3> QED  BY <1>3, <3>1, <3>2
  <2>2. CASE ~(n > m)
    BY <2>2
  <2> QED  BY <2>1, <2>2
<1>4. N \in S
  <2> HIDE DEF S
  <2>1. \A n \in 0..N : n \in S
    BY <1>2, <1>3, Induction
  <2> QED  BY <2>1
<1> QED  BY <1>4 DEF F

-----------------------------------------------------------------------------
(* UTF-8: what is read is what was written.                                *)

\* The bytes that begin a character, and those that continue one.
Leading == {b \in Byte : ~Continues(b)}
Continuing == {b \in Byte : Continues(b)}

\* The length of a character's encoding.
Size8(c) == IF c < 128 THEN 1 ELSE IF c < 2048 THEN 2 ELSE IF c < Plane THEN 3 ELSE 4

LEMMA PlaneValue == Plane \in Nat /\ Plane = 16 * 4096 /\ NoChar \in Nat /\ NoChar = 17 * Plane
  BY DEF Plane, NoChar

LEMMA Continuations ==
  ASSUME NEW s \in Nat
  PROVE  /\ s % 64 \in Nat /\ s % 64 < 64
         /\ Continuation(s) \in Continuing /\ Continuation(s) % 64 = s % 64
<1>1. s % 64 \in Nat /\ s % 64 < 64
  OBVIOUS
<1> DEFINE r == s % 64
<1> HIDE DEF r
<1>2. r \in Nat /\ r < 64 => 128 + r < 192 /\ (128 + r) % 64 = r
  OBVIOUS
<1> QED  BY <1>1, <1>2 DEF r, Continuation, Continues, Continuing, Byte

\* A character's encoding: a byte that tells its length, and bytes that
\* continue it, of which its code can be calculated.
LEMMA EncodingOfChar ==
  ASSUME NEW c \in Char
  PROVE  /\ EncodeUtf8(c) \in Seq(Byte)
         /\ Len(EncodeUtf8(c)) = Size8(c) /\ Size8(c) \in 1..4
         /\ EncodeUtf8(c)[1] \in Leading
         /\ Width(EncodeUtf8(c)[1]) = Size8(c)
         /\ \A j \in 2..Size8(c) : EncodeUtf8(c)[j] \in Continuing
         /\ CodePoint(EncodeUtf8(c)) = c
<1>1. c \in Nat /\ c < NoChar
  BY DEF Char, IsChar
<1>2. Continuing \subseteq Byte /\ Leading \subseteq Byte
  BY DEF Continuing, Leading
<1>3. CASE c < 128
  <2>1. EncodeUtf8(c) = <<c>> /\ Size8(c) = 1
    BY <1>1, <1>3, PlaneValue DEF EncodeUtf8, Size8
  <2>2. c \in Leading /\ Width(c) = 1
    BY <1>1, <1>3 DEF Width, Byte, Leading, Continues
  <2>3. CodePoint(<<c>>) = c
    BY DEF CodePoint
  <2> QED  BY <1>2, <2>1, <2>2, <2>3
<1>4. CASE 128 <= c /\ c < 2048
  <2> DEFINE q == c \div 64
             s == Continuation(c)
  <2>1. q \in Nat /\ 2 <= q /\ q < 32 /\ c = q * 64 + (c % 64)
    BY <1>1, <1>4
  <2>2. EncodeUtf8(c) = <<192 + q, s>> /\ Size8(c) = 2
    BY <1>1, <1>4, PlaneValue DEF EncodeUtf8, Size8
  <2>3. s \in Continuing /\ s % 64 = c % 64
    BY <1>1, Continuations
  <2> HIDE DEF q, s
  <2>4. 192 + q < 224 /\ (192 + q) % 32 = q
    BY <2>1
  <2>5. 192 + q \in Leading /\ Width(192 + q) = 2
    BY <2>1, <2>4 DEF Width, Byte, Leading, Continues
  <2>6. CodePoint(<<192 + q, s>>) = ((192 + q) % 32) * 64 + (s % 64)
    BY DEF CodePoint
  <2>7. CodePoint(<<192 + q, s>>) = c
    BY <2>1, <2>3, <2>4, <2>6
  <2> QED  BY <1>2, <2>2, <2>3, <2>5, <2>7
<1>5. CASE 2048 <= c /\ c < Plane
  <2> DEFINE p == c \div 4096
             q == c \div 64
             s == Continuation(c)
             t == Continuation(q)
  <2>1. /\ q \in Nat /\ p \in Nat /\ p < 16
        /\ q = p * 64 + (q % 64) /\ c = q * 64 + (c % 64)
    BY <1>1, <1>5, PlaneValue
  <2>2. EncodeUtf8(c) = <<224 + p, t, s>> /\ Size8(c) = 3
    BY <1>1, <1>5, PlaneValue DEF EncodeUtf8, Size8
  <2>3. /\ s \in Continuing /\ s % 64 = c % 64
        /\ t \in Continuing /\ t % 64 = q % 64
    BY <1>1, <2>1, Continuations
  <2> HIDE DEF p, q, s, t
  <2>4. 224 + p < 240 /\ (224 + p) % 16 = p
    BY <2>1
  <2>5. 224 + p \in Leading /\ Width(224 + p) = 3
    BY <2>1, <2>4 DEF Width, Byte, Leading, Continues
  <2>6. CodePoint(<<224 + p, t, s>>) = (((224 + p) % 16) * 64 + (t % 64)) * 64 + (s % 64)
    BY DEF CodePoint
  <2>7. CodePoint(<<224 + p, t, s>>) = c
    BY <2>1, <2>3, <2>4, <2>6
  <2> QED  BY <1>2, <2>2, <2>3, <2>5, <2>7
<1>6. CASE c >= Plane
  <2> DEFINE o == c \div (64 * 4096)
             p == c \div 4096
             q == c \div 64
             s == Continuation(c)
             t == Continuation(q)
             u == Continuation(p)
  <2>1. /\ q \in Nat /\ p \in Nat /\ o \in Nat /\ o < 5 /\ p = o * 64 + (p % 64)
        /\ q = p * 64 + (q % 64) /\ c = q * 64 + (c % 64)
    BY <1>1, <1>6, PlaneValue
  <2>2. EncodeUtf8(c) = <<240 + o, u, t, s>> /\ Size8(c) = 4
    BY <1>1, <1>6, PlaneValue DEF EncodeUtf8, Size8
  <2>3. /\ s \in Continuing /\ s % 64 = c % 64
        /\ t \in Continuing /\ t % 64 = q % 64
        /\ u \in Continuing /\ u % 64 = p % 64
    BY <1>1, <2>1, Continuations
  <2> HIDE DEF o, p, q, s, t, u
  <2>4. 240 + o < 245 /\ (240 + o) % 8 = o
    BY <2>1
  <2>5. 240 + o \in Leading /\ Width(240 + o) = 4
    BY <2>1, <2>4 DEF Width, Byte, Leading, Continues
  <2>6. CodePoint(<<240 + o, u, t, s>>)
          = ((((240 + o) % 8) * 64 + (u % 64)) * 64 + (t % 64)) * 64 + (s % 64)
    BY DEF CodePoint
  <2>7. CodePoint(<<240 + o, u, t, s>>) = c
    BY <2>1, <2>3, <2>4, <2>6
  <2> QED  BY <1>2, <2>2, <2>3, <2>5, <2>7
<1> QED  BY <1>1, <1>3, <1>4, <1>5, <1>6, PlaneValue

LEMMA EncodedDef ==
  ASSUME NEW chars \in Seq(Char)
  PROVE  LET bytes == Encoded(chars) IN
         /\ bytes[0] = <<>>
         /\ \A n \in 1..Len(chars) : bytes[n] = bytes[n - 1] \o EncodeUtf8(chars[n])
         /\ \A n \in 0..Len(chars) : bytes[n] \in Seq(Byte)
<1> DEFINE N == Len(chars)
           Value(f, n) == f[n - 1] \o EncodeUtf8(chars[n])
           D(f) == f = [n \in 0..N |-> IF n = 0 THEN <<>> ELSE Value(f, n)]
           step == [p \in (1..N) \X Seq(Byte) |-> p[2] \o EncodeUtf8(chars[p[1]])]
           bytes == Encoded(chars)
<1>1. N \in Nat /\ \A n \in 1..N : EncodeUtf8(chars[n]) \in Seq(Byte)
  <2>1. N \in Nat /\ \A n \in 1..N : chars[n] \in Char
    OBVIOUS
  <2> QED  BY <2>1, EncodingOfChar
<1>2. ASSUME NEW n \in 1..N, NEW x \in Seq(Byte)
      PROVE  step[<<n, x>>] = x \o EncodeUtf8(chars[n]) /\ step[<<n, x>>] \in Seq(Byte)
  <2>1. step[<<n, x>>] = x \o EncodeUtf8(chars[n])
    OBVIOUS
  <2>2. x \o EncodeUtf8(chars[n]) \in Seq(Byte)
    BY <1>1, ConcatProperties
  <2> QED  BY <2>1, <2>2
<1> HIDE DEF step
<1>3. <<>> \in Seq(Byte)
  OBVIOUS
<1>4. Recursive(N, Seq(Byte), <<>>, step) # {}
  BY <1>1, <1>2, <1>3, Recursion
<1>5. PICK f \in [0..N -> Seq(Byte)] :
        f[0] = <<>> /\ \A n \in 1..N : f[n] = step[<<n, f[n - 1]>>]
  BY <1>4 DEF Recursive
<1>6. ASSUME NEW n \in 1..N PROVE f[n] = Value(f, n)
  <2>1. n - 1 \in 0..N
    BY <1>1
  <2>2. f[n - 1] \in Seq(Byte) /\ f[n] = step[<<n, f[n - 1]>>]
    BY <1>5, <2>1
  <2> QED  BY <1>2, <2>2
<1>7. D(f)
  <2> HIDE DEF Value
  <2> QED  BY <1>5, <1>6
<1>8. D(bytes)
  BY <1>7, Zenon DEF Encoded
<1> HIDE DEF bytes
<1>9. bytes[0] = <<>> /\ \A n \in 1..N : bytes[n] = bytes[n - 1] \o EncodeUtf8(chars[n])
  <2> HIDE DEF Value
  <2>1. bytes[0] = <<>>
    BY <1>1, <1>8
  <2>2. ASSUME NEW n \in 1..N PROVE bytes[n] = Value(bytes, n)
    <3>1. n \in 0..N /\ n # 0
      BY <1>1
    <3> QED  BY <1>8, <3>1
  <2> QED  BY <2>1, <2>2 DEF Value
<1>10. \A n \in 0..N : bytes[n] \in Seq(Byte)
  <2> DEFINE S == {n \in 0..N : bytes[n] \in Seq(Byte)}
  <2>1. 0 \in S
    <3>1. bytes[0] \in Seq(Byte)
      BY <1>3, <1>9, Zenon
    <3> QED  BY <1>1, <3>1
  <2>2. ASSUME NEW n \in 1..N, n - 1 \in S PROVE n \in S
    <3>1. bytes[n - 1] \in Seq(Byte) /\ bytes[n] = bytes[n - 1] \o EncodeUtf8(chars[n])
      BY <1>9, <2>2
    <3>2. bytes[n] \in Seq(Byte)
      BY <1>1, <3>1, ConcatProperties
    <3> QED  BY <1>1, <3>2
  <2> HIDE DEF S
  <2>3. \A n \in 0..N : n \in S
    BY <1>1, <2>1, <2>2, Induction
  <2> QED  BY <2>3 DEF S
<1> QED  BY <1>9, <1>10 DEF bytes

\* What follows a text is read as if it stood alone.
LEMMA TextAppended ==
  ASSUME NEW a \in Seq(Byte), IsUtf8(a), NEW c \in Char
  PROVE  LET b == a \o EncodeUtf8(c) IN
         /\ b \in Seq(Byte) /\ IsUtf8(b)
         /\ FromUtf8(a) \in Seq(Char) /\ FromUtf8(b) = Append(FromUtf8(a), c)
<1> DEFINE e == EncodeUtf8(c)
           m == Len(a)
           k == Len(e)
           b == a \o e
<1>1. /\ e \in Seq(Byte) /\ k \in 1..4 /\ e[1] \in Leading /\ Width(e[1]) = k
      /\ \A j \in 2..k : e[j] \in Continuing
      /\ CodePoint(e) = c /\ EncodeUtf8(CodePoint(e)) = e /\ IsChar(c)
  BY EncodingOfChar DEF Char
<1> HIDE DEF e
<1>2. /\ b \in Seq(Byte) /\ Len(b) = m + k /\ m \in Nat
      /\ \A i \in 1..m : b[i] = a[i]
      /\ \A j \in 1..k : b[m + j] = e[j]
  BY <1>1
<1>3. /\ \A i \in Leads(a) : i \in 1..m /\ a[i] \in Byte
      /\ Leads(a) \subseteq Leads(b)
      /\ \A i \in Leads(b) : i \in 1..(m + k) /\ b[i] \in Byte
  BY <1>2 DEF Leads
<1>4. m + 1 \in Leads(b)
  BY <1>1, <1>2 DEF Leads, Leading
<1>5. ASSUME NEW i \in Leads(b) PROVE i \in Leads(a) \/ i = m + 1
  <2>1. CASE i <= m
    BY <1>2, <1>3, <2>1 DEF Leads
  <2>2. CASE i > m + 1
    <3>1. i - m \in 2..k /\ m + (i - m) = i
      BY <1>1, <1>2, <1>3, <2>2
    <3>2. b[m + (i - m)] = e[i - m]
      BY <1>1, <1>2, <3>1
    <3>3. b[i] = e[i - m]
      BY <3>1, <3>2
    <3>4. b[i] \in Continuing
      BY <1>1, <3>1, <3>3
    <3> QED  BY <3>4 DEF Leads, Continuing
  <2> QED  BY <1>2, <1>3, <2>1, <2>2
<1> HIDE DEF b
<1>6. ASSUME NEW i \in Leads(a)
      PROVE  /\ After(a, i) = After(b, i) /\ After(a, i) \in Leads(a) \cup {m + 1}
             /\ CharAt(b, i) = CharAt(a, i)
             /\ IsChar(CodePoint(CharAt(a, i)))
             /\ EncodeUtf8(CodePoint(CharAt(a, i))) = CharAt(a, i)
  <2>1. /\ After(a, i) \in Leads(a) \cup {m + 1}
        /\ IsChar(CodePoint(CharAt(a, i)))
        /\ EncodeUtf8(CodePoint(CharAt(a, i))) = CharAt(a, i)
    BY DEF IsUtf8
  <2>2. After(a, i) = After(b, i)
    BY <1>2, <1>3 DEF After
  <2>3. i \in 1..m /\ After(a, i) - 1 \in 1..m
    <3>1. i \in 1..m /\ Width(a[i]) \in 1..4 /\ After(a, i) = i + Width(a[i])
      BY <1>3 DEF Width, After
    <3>2. After(a, i) <= m + 1
      BY <1>2, <1>3, <2>1
    <3> QED  BY <1>2, <3>1, <3>2
  <2>4. SubSeq(b, i, After(a, i) - 1) = SubSeq(a, i, After(a, i) - 1)
    BY <1>1, <2>3, SubSeqOfConcat1 DEF b
  <2> QED  BY <2>1, <2>2, <2>4 DEF CharAt
<1>7. /\ After(b, m + 1) = Len(b) + 1
      /\ CharAt(b, m + 1) = e
  <2>1. b[m + 1] = e[1]
    BY <1>1, <1>2
  <2>2. After(b, m + 1) = m + 1 + k
    BY <1>1, <2>1 DEF After
  <2>3. m + 1 \in (m + 1)..(m + k) /\ m + k \in (m + 1)..(m + k)
    BY <1>1, <1>2
  <2>4. SubSeq(b, m + 1, m + k) = SubSeq(e, m + 1 - m, m + k - m)
    BY <1>1, <2>3, SubSeqOfConcat2 DEF b
  <2>5. m + 1 - m = 1 /\ m + k - m = k /\ After(b, m + 1) - 1 = m + k
    BY <1>1, <1>2, <2>2
  <2>6. SubSeq(e, 1, k) = e
    BY <1>1, SubSeqFull
  <2>7. CharAt(b, m + 1) = e
    BY <2>4, <2>5, <2>6 DEF CharAt
  <2>8. After(b, m + 1) = Len(b) + 1
    BY <1>1, <1>2, <2>2
  <2> QED  BY <2>7, <2>8
<1>8. IsUtf8(b)
  <2>1. 1 \in Leads(b)
    <3>1. CASE a = <<>>
      BY <1>4, <3>1
    <3>2. CASE a # <<>>
      BY <1>3, <3>2 DEF IsUtf8
    <3> QED  BY <3>1, <3>2
  <2>2. ASSUME NEW i \in Leads(b)
        PROVE  /\ After(b, i) \in Leads(b) \cup {Len(b) + 1}
               /\ IsChar(CodePoint(CharAt(b, i)))
               /\ EncodeUtf8(CodePoint(CharAt(b, i))) = CharAt(b, i)
    <3>1. CASE i \in Leads(a)
      <4>1. After(b, i) \in Leads(b) \cup {Len(b) + 1}
        BY <1>3, <1>4, <1>6, <3>1
      <4>2. CharAt(b, i) = CharAt(a, i)
        BY <1>6, <3>1
      <4>3. IsChar(CodePoint(CharAt(a, i))) /\ EncodeUtf8(CodePoint(CharAt(a, i))) = CharAt(a, i)
        BY <1>6, <3>1
      <4> QED  BY <4>1, <4>2, <4>3
    <3>2. CASE i = m + 1
      BY <1>1, <1>7, <3>2
    <3> QED  BY <1>5, <3>1, <3>2
  <2> QED  BY <2>1, <2>2, Zenon DEF IsUtf8
<1> DEFINE A == [i \in Leads(a) |-> CodePoint(CharAt(a, i))]
           B == [i \in Leads(b) |-> CodePoint(CharAt(b, i))]
<1>9. /\ \A i \in Leads(a) : A[i] = CodePoint(CharAt(a, i)) /\ A[i] \in Char /\ B[i] = A[i]
      /\ B[m + 1] = c
      /\ DOMAIN A = Leads(a) /\ DOMAIN B = Leads(b)
  <2>1. ASSUME NEW i \in Leads(a) PROVE A[i] \in Char /\ B[i] = A[i]
    BY <1>3, <1>6 DEF Char, IsChar
  <2>2. B[m + 1] = c
    BY <1>1, <1>4, <1>7
  <2> QED  BY <2>1, <2>2
<1>10. \A i \in DOMAIN B : B[i] \in Char
  BY <1>5, <1>9
<1> HIDE DEF A, B
<1>11. DOMAIN A \subseteq 1..m /\ \A i \in DOMAIN A : A[i] \in Char
  BY <1>3, <1>9
<1>12. DOMAIN B \subseteq 1..(m + k) /\ \A i \in DOMAIN B : B[i] \in Char
  BY <1>3, <1>9, <1>10
<1>13. m + k \in Nat /\ m + 1 \in 1..(m + k) /\ m <= m + k
  BY <1>1, <1>2
<1>14. FromUtf8(a) = Gathered(A, m)[m]
  BY DEF FromUtf8, A
<1>15. FromUtf8(b) = Gathered(B, m + k)[m + k]
  BY <1>2, <1>8 DEF FromUtf8, B
<1>16. Gathered(A, m)[m] \in Seq(Char)
  <2>1. m \in 0..m
    BY <1>2
  <2> QED  BY <1>2, <1>11, <2>1, GatheredType
<1> DEFINE N == m + k
<1> HIDE DEF m, k, N
<1>17. Gathered(B, m + k)[m + k] = Gathered(B, m + k)[m + 1]
  <2>1. \A i \in DOMAIN B : i <= m + 1
    BY <1>5, <1>9, <1>3, <1>2
  <2> QED  BY <1>12, <1>13, <2>1, GatheredGap
<1>18. Gathered(B, N)[m + 1] = Append(Gathered(B, N)[m], c)
  <2>1. \A n \in 1..N : Gathered(B, N)[n] =
          IF n \in DOMAIN B THEN Append(Gathered(B, N)[n - 1], B[n]) ELSE Gathered(B, N)[n - 1]
    BY <1>12, <1>13, GatheredDef DEF N
  <2>2. PICK n \in 1..N : n = m + 1
    BY <1>13 DEF N
  <2>3. n \in DOMAIN B /\ n - 1 = m /\ B[n] = c
    BY <1>2, <1>4, <1>9, <2>2
  <2>4. Gathered(B, N)[n] = Append(Gathered(B, N)[n - 1], B[n])
    BY <2>1, <2>3
  <2> QED  BY <2>2, <2>3, <2>4
<1>19. Gathered(B, N)[m] = Gathered(A, m)[m]
  <2>1. \A i \in 1..m : (i \in DOMAIN B <=> i \in DOMAIN A) /\ (i \in DOMAIN B => B[i] = A[i])
    BY <1>2, <1>3, <1>5, <1>9
  <2>2. DOMAIN B \subseteq 1..N /\ N \in Nat /\ m <= N /\ m <= m /\ m \in Nat
    BY <1>2, <1>12, <1>13 DEF N
  <2>3. DOMAIN A \subseteq 1..m
    BY <1>11
  <2> QED  BY <2>1, <2>2, <2>3, GatheredSame
<1> QED  BY <1>2, <1>8, <1>14, <1>15, <1>16, <1>17, <1>18, <1>19 DEF b, e, m, k, N

LEMMA NoText == IsUtf8(<<>>) /\ FromUtf8(<<>>) = <<>>
<1>1. Leads(<<>>) = {}
  BY DEF Leads
<1>2. IsUtf8(<<>>)
  BY <1>1 DEF IsUtf8
<1> DEFINE f == [i \in Leads(<<>>) |-> CodePoint(CharAt(<<>>, i))]
<1>3. DOMAIN f \subseteq 1..0
  BY <1>1
<1>4. FromUtf8(<<>>) = Gathered(f, 0)[0]
  BY <1>2, EmptySeq DEF FromUtf8
<1> HIDE DEF f
<1> QED  BY <1>2, <1>3, <1>4, GatheredDef

\* What from_utf8 lets pass is a sequence.
LEMMA LenOfText ==
  ASSUME NEW b \in Seq(Byte), IsUtf8(b)
  PROVE  Len(FromUtf8(b)) \in Nat
<1> DEFINE f == [i \in Leads(b) |-> CodePoint(CharAt(b, i))]
           N == Len(b)
<1>1. DOMAIN f \subseteq 1..N /\ N \in Nat /\ N \in 0..N
  BY DEF Leads
<1>2. FromUtf8(b) = Gathered(f, N)[N]
  BY DEF FromUtf8
<1> HIDE DEF f, N
<1>3. Gathered(f, N)[N] \in Seq(Range(f))
  BY <1>1, GatheredDef
<1> QED  BY <1>2, <1>3, LenProperties

\* chars, of what bytes returns.
LEMMA TextOfEncoded ==
  ASSUME NEW chars \in Seq(Char), NEW n \in 0..Len(chars)
  PROVE  /\ Encoded(chars)[n] \in Seq(Byte) /\ IsUtf8(Encoded(chars)[n])
         /\ FromUtf8(Encoded(chars)[n]) = SubSeq(chars, 1, n)
<1> DEFINE N == Len(chars)
           bytes == Encoded(chars)
           Read(k) == IsUtf8(bytes[k]) /\ FromUtf8(bytes[k]) = SubSeq(chars, 1, k)
           S == {k \in 0..N : Read(k)}
<1>1. /\ bytes[0] = <<>>
      /\ \A k \in 1..N : bytes[k] = bytes[k - 1] \o EncodeUtf8(chars[k])
      /\ \A k \in 0..N : bytes[k] \in Seq(Byte)
  BY EncodedDef
<1>2. N \in Nat /\ \A k \in 1..N : chars[k] \in Char
  OBVIOUS
<1> HIDE DEF bytes
<1>3. 0 \in S
  <2>1. SubSeq(chars, 1, 0) = <<>>
    BY SubSeqEmpty
  <2>2. Read(0)
    BY <1>1, <2>1, NoText
  <2> HIDE DEF Read
  <2> QED  BY <1>2, <2>2
<1>4. ASSUME NEW k \in 1..N, k - 1 \in S PROVE k \in S
  <2>1. bytes[k - 1] \in Seq(Byte) /\ Read(k - 1)
    BY <1>1, <1>4
  <2>2. IsUtf8(bytes[k]) /\ FromUtf8(bytes[k]) = Append(SubSeq(chars, 1, k - 1), chars[k])
    BY <1>1, <1>2, <2>1, TextAppended
  <2>3. SubSeq(chars, 1, k) = SubSeq(chars, 1, k - 1) \o <<chars[k]>>
    <3>1. 1 \in 1..Len(chars) /\ k \in 1..Len(chars)
      BY <1>2
    <3> QED  BY <3>1, SubSeqRecursiveSecond
  <2>4. Append(SubSeq(chars, 1, k - 1), chars[k]) = SubSeq(chars, 1, k - 1) \o <<chars[k]>>
    <3>1. SubSeq(chars, 1, k - 1) \in Seq(Char)
      BY <1>2, SubSeqProperties
    <3> QED  BY <1>2, <3>1, AppendIsConcat
  <2>5. Read(k)
    BY <2>2, <2>3, <2>4
  <2> HIDE DEF Read
  <2> QED  BY <2>5
<1>5. n \in S
  <2> HIDE DEF S
  <2>1. \A k \in 0..N : k \in S
    BY <1>2, <1>3, <1>4, Induction
  <2> QED  BY <2>1
<1> QED  BY <1>1, <1>5 DEF bytes

LEMMA Prefix ==
  ASSUME NEW S, NEW s \in Seq(S), NEW m \in 0..Len(s)
  PROVE  /\ SubSeq(s, 1, m) \in Seq(S) /\ Len(SubSeq(s, 1, m)) = m
         /\ \A k \in 1..m : SubSeq(s, 1, m)[k] = s[k]
<1>1. \A k \in 1..m : s[k] \in S
  OBVIOUS
<1>2. 1 \in Int /\ m \in Int /\ m >= 0
  OBVIOUS
<1>3. /\ SubSeq(s, 1, m) \in Seq(S)
      /\ Len(SubSeq(s, 1, m)) = IF 1 <= m THEN m - 1 + 1 ELSE 0
      /\ \A k \in 1..(m - 1 + 1) : SubSeq(s, 1, m)[k] = s[1 + k - 1]
  BY <1>1, <1>2, SubSeqProperties
<1>4. Len(SubSeq(s, 1, m)) = m
  BY <1>2, <1>3
<1>5. ASSUME NEW k \in 1..m PROVE SubSeq(s, 1, m)[k] = s[k]
  <2>1. k \in 1..(m - 1 + 1) /\ 1 + k - 1 = k
    BY <1>2
  <2> QED  BY <1>3, <2>1
<1> QED  BY <1>3, <1>4, <1>5

\* A text that ends within a character is none.
LEMMA TextCut ==
  ASSUME NEW a \in Seq(Byte), NEW c \in Char, NEW m \in Nat,
         Len(a) < m, m < Len(a) + Len(EncodeUtf8(c))
  PROVE  ~IsUtf8(SubSeq(a \o EncodeUtf8(c), 1, m))
<1> DEFINE e == EncodeUtf8(c)
           b == SubSeq(a \o e, 1, m)
           i == Len(a) + 1
<1>1. e \in Seq(Byte) /\ Len(e) \in 1..4 /\ e[1] \in Leading /\ Width(e[1]) = Len(e)
  BY EncodingOfChar
<1> HIDE DEF e
<1>2. /\ Len(a) \in Nat /\ a \o e \in Seq(Byte) /\ Len(a \o e) = Len(a) + Len(e)
      /\ (a \o e)[i] = e[1]
  BY <1>1
<1>3. Len(b) = m /\ b \in Seq(Byte) /\ \A k \in 1..m : b[k] = (a \o e)[k]
  <2>1. m \in 0..Len(a \o e)
    BY <1>2 DEF e
  <2> QED  BY <1>2, <2>1, Prefix
<1> HIDE DEF b
<1>4. i \in 1..m /\ b[i] = e[1]
  <2>1. i \in 1..m
    BY <1>2
  <2>2. b[i] = (a \o e)[i]
    BY <1>3, <2>1
  <2> QED  BY <1>2, <2>1, <2>2
<1>5. i \in Leads(b)
  BY <1>1, <1>3, <1>4 DEF Leads, Leading
<1>6. After(b, i) = Len(a) + 1 + Len(e)
  BY <1>1, <1>4 DEF After
<1>7. After(b, i) > Len(b) + 1
  BY <1>1, <1>2, <1>3, <1>6 DEF e
<1>8. After(b, i) \notin Leads(b) \cup {Len(b) + 1}
  BY <1>1, <1>2, <1>3, <1>6, <1>7 DEF Leads
<1>9. ~IsUtf8(b)
  BY <1>5, <1>8 DEF IsUtf8
<1> QED  BY <1>9 DEF b, e

\* Of a text that is cut short, nothing or fewer characters are read.
LEMMA PartOfEncoded ==
  ASSUME NEW chars \in Seq(Char), NEW m \in 0..(Len(Encoded(chars)[Len(chars)]) - 1)
  PROVE  LET part == SubSeq(Encoded(chars)[Len(chars)], 1, m) IN
         ~IsUtf8(part) \/ Len(FromUtf8(part)) < Len(chars)
<1> DEFINE N == Len(chars)
           bytes == Encoded(chars)
           Short(part, n) == ~IsUtf8(part) \/ Len(FromUtf8(part)) < n
           AllShort(n) == \A k \in 0..(Len(bytes[n]) - 1) : Short(SubSeq(bytes[n], 1, k), n)
           S == {n \in 0..N : AllShort(n)}
<1>1. /\ bytes[0] = <<>>
      /\ \A n \in 1..N : bytes[n] = bytes[n - 1] \o EncodeUtf8(chars[n])
      /\ \A n \in 0..N : bytes[n] \in Seq(Byte)
  BY EncodedDef
<1>2. N \in Nat /\ \A n \in 1..N : chars[n] \in Char
  OBVIOUS
<1>3. \A n \in 0..N : Len(FromUtf8(bytes[n])) = n
  <2>1. ASSUME NEW n \in 0..N PROVE Len(FromUtf8(bytes[n])) = n
    <3>1. FromUtf8(bytes[n]) = SubSeq(chars, 1, n)
      BY TextOfEncoded
    <3>2. Len(SubSeq(chars, 1, n)) = n
      BY Prefix
    <3> QED  BY <3>1, <3>2
  <2> QED  BY <2>1
<1> HIDE DEF bytes
<1>4. 0 \in S
  <2>1. AllShort(0)
    BY <1>1
  <2> HIDE DEF AllShort
  <2> QED  BY <1>2, <2>1
<1>5. ASSUME NEW n \in 1..N, n - 1 \in S PROVE n \in S
  <2> DEFINE a == bytes[n - 1]
             e == EncodeUtf8(chars[n])
  <2>1. n - 1 \in 0..N /\ AllShort(n - 1) /\ a \in Seq(Byte) /\ bytes[n] = a \o e
    BY <1>1, <1>5
  <2>2. e \in Seq(Byte) /\ chars[n] \in Char
    BY <1>2, EncodingOfChar
  <2>3. Len(FromUtf8(a)) = n - 1
    BY <1>3, <2>1
  <2>4. ASSUME NEW k \in 0..(Len(a \o e) - 1) PROVE Short(SubSeq(a \o e, 1, k), n)
    <3>1. Len(a \o e) = Len(a) + Len(e) /\ Len(a) \in Nat /\ Len(e) \in Nat /\ k \in Nat
      BY <2>1, <2>2
    <3>2. CASE k < Len(a)
      <4>1. SubSeq(a \o e, 1, k) = SubSeq(a, 1, k)
        <5>1. CASE k = 0
          BY <5>1, SubSeqEmpty
        <5>2. CASE k # 0
          <6>1. 1 \in 1..Len(a) /\ k \in 1..Len(a)
            BY <3>1, <3>2, <5>2
          <6> QED  BY <2>1, <2>2, <6>1, SubSeqOfConcat1
        <5> QED  BY <5>1, <5>2
      <4>2. Short(SubSeq(a, 1, k), n - 1)
        <5>1. k \in 0..(Len(a) - 1)
          BY <3>1, <3>2
        <5> QED  BY <2>1, <5>1
      <4>3. CASE ~IsUtf8(SubSeq(a, 1, k))
        BY <4>1, <4>3
      <4>4. CASE IsUtf8(SubSeq(a, 1, k)) /\ Len(FromUtf8(SubSeq(a, 1, k))) < n - 1
        <5> DEFINE l == Len(FromUtf8(SubSeq(a, 1, k)))
        <5>1. SubSeq(a, 1, k) = SubSeq(bytes[n - 1], 1, k) /\ k \in 0..Len(a)
          BY <3>1, <3>2
        <5>2. l < n
          BY <4>4, LenOfText, Prefix, <2>1, <5>1
        <5> QED  BY <4>1, <5>2
      <4> QED  BY <4>2, <4>3, <4>4
    <3>3. CASE k = Len(a)
      <4> HIDE DEF a, e
      <4>1. SubSeq(a \o e, 1, k) = a
        <5>1. CASE k = 0
          <6>1. a = <<>>
            BY <2>1, <3>3, <5>1, EmptySeq
          <6> QED  BY <5>1, <6>1, SubSeqEmpty
        <5>2. CASE k # 0
          <6>1. 1 \in 1..Len(a) /\ k \in 1..Len(a)
            BY <3>1, <3>3, <5>2
          <6>2. SubSeq(a \o e, 1, k) = SubSeq(a, 1, k)
            BY <2>1, <2>2, <6>1, SubSeqOfConcat1
          <6> QED  BY <2>1, <3>3, <6>2, SubSeqFull
        <5> QED  BY <5>1, <5>2
      <4>2. n - 1 < n
        BY <1>2
      <4> QED  BY <2>3, <4>1, <4>2
    <3>4. CASE k > Len(a)
      <4> DEFINE c == chars[n]
      <4> HIDE DEF a, c
      <4>1. c \in Char /\ e = EncodeUtf8(c) /\ k < Len(a) + Len(EncodeUtf8(c))
        BY <2>2, <3>1 DEF c
      <4>2. ~IsUtf8(SubSeq(a \o EncodeUtf8(c), 1, k))
        BY <2>1, <3>1, <3>4, <4>1, TextCut
      <4> QED  BY <4>1, <4>2
    <3> QED  BY <3>1, <3>2, <3>3, <3>4
  <2>5. AllShort(n)
    BY <2>1, <2>4
  <2> HIDE DEF AllShort
  <2> QED  BY <2>5
<1>6. N \in S
  <2> HIDE DEF S
  <2>1. \A n \in 0..N : n \in S
    BY <1>2, <1>4, <1>5, Induction
  <2> QED  BY <1>2, <2>1
<1> QED  BY <1>6 DEF bytes

-----------------------------------------------------------------------------
(* Datagrams.                                                              *)

LEMMA Quotient ==
  ASSUME NEW n \in Nat, NEW k \in Nat \ {0}, NEW q \in Nat, NEW r \in Nat,
         n = k * q + r, r < k
  PROVE  n \div k = q
<1>1. n \div k \in Nat /\ n % k \in Nat /\ n % k < k /\ n = k * (n \div k) + (n % k)
  OBVIOUS
<1> DEFINE p == n \div k
           t == n % k
<1> HIDE DEF p, t
<1>2. p \in Nat /\ t \in Nat /\ t < k /\ n = k * p + t
  BY <1>1 DEF p, t
<1>3. CASE p < q
  <2>1. q - p - 1 \in Nat /\ q = p + 1 + (q - p - 1)
    BY <1>2, <1>3
  <2>2. k * q = k * p + k + k * (q - p - 1) /\ k * (q - p - 1) \in Nat
    BY <1>2, <2>1
  <2>3. k * q \in Nat /\ k * p \in Nat
    BY <1>2
  <2> QED  BY <1>2, <2>2, <2>3
<1>4. CASE q < p
  <2>1. p - q - 1 \in Nat /\ p = q + 1 + (p - q - 1)
    BY <1>2, <1>4
  <2>2. k * p = k * q + k + k * (p - q - 1) /\ k * (p - q - 1) \in Nat
    BY <1>2, <2>1
  <2>3. k * q \in Nat /\ k * p \in Nat
    BY <1>2
  <2> QED  BY <1>2, <2>2, <2>3
<1> QED  BY <1>2, <1>3, <1>4 DEF p

\* A number has one more digit than its quotient.
LEMMA Digit ==
  ASSUME NEW n \in Nat, NEW k \in Nat \ {0}
  PROVE  n \div k = 256 * (n \div (256 * k)) + ((n \div k) % 256)
<1> DEFINE q == n \div k
           r == n % k
           p == q \div 256
           t == q % 256
<1>1. q \in Nat /\ r \in Nat /\ r < k /\ n = k * q + r
  OBVIOUS
<1> HIDE DEF q, r
<1>2. p \in Nat /\ t \in Nat /\ t < 256 /\ q = 256 * p + t
  BY <1>1
<1> HIDE DEF p, t
<1>3. n = (256 * k) * p + (k * t + r)
  <2>1. k * q = k * (256 * p) + k * t
    BY <1>1, <1>2
  <2>2. k * (256 * p) = (256 * k) * p
    BY <1>2
  <2>3. k * q \in Nat /\ k * t \in Nat /\ (256 * k) * p \in Nat
    BY <1>1, <1>2
  <2> QED  BY <1>1, <2>1, <2>2, <2>3
<1>4. k * t + r \in Nat /\ k * t + r < 256 * k
  <2>1. 255 - t \in Nat /\ k * (255 - t) \in Nat
    BY <1>2
  <2>2. k * (255 - t) = 255 * k - k * t /\ k * t \in Nat
    BY <1>2
  <2> QED  BY <1>1, <2>1, <2>2
<1>5. n \div (256 * k) = p
  <2>1. 256 * k \in Nat \ {0}
    OBVIOUS
  <2> QED  BY <1>2, <1>3, <1>4, <2>1, Quotient
<1> QED  BY <1>2, <1>5 DEF q, t

\* A usize is read from eight bytes as it was written to them.
LEMMA WordRead ==
  ASSUME NEW n \in Nat, n < USIZE
  PROVE  /\ ToBeBytes(n) \in Seq(Byte) /\ Len(ToBeBytes(n)) = WordBytes
         /\ FromBeBytes(ToBeBytes(n)) = n
<1> DEFINE W == WordBytes
           bytes == ToBeBytes(n)
           number == Numbers(bytes)
           S == {k \in 0..W : number[k] = n \div Place[W - k]}
<1>1. /\ W \in Nat \ {0} /\ Place[0] = 1
      /\ \A k \in 1..W : Place[k] = 256 * Place[k - 1]
      /\ \A k \in 0..W : Place[k] \in Nat \ {0}
  BY PlaceDef
<1>2. \A i \in 1..W : (n \div Place[W - i]) % 256 \in Byte
  <2> SUFFICES ASSUME NEW i \in 1..W PROVE (n \div Place[W - i]) % 256 \in Byte
    OBVIOUS
  <2>1. W - i \in 0..W
    BY <1>1
  <2> DEFINE k == Place[W - i]
  <2>2. k \in Nat \ {0}
    BY <1>1, <2>1
  <2> HIDE DEF k
  <2>3. n \div k \in Nat
    BY <2>2
  <2>4. (n \div k) % 256 \in Nat /\ (n \div k) % 256 < 256
    BY <2>3
  <2> QED  BY <2>4 DEF k, Byte
<1>3. bytes \in Seq(Byte) /\ Len(bytes) = W /\ \A i \in 1..W : bytes[i] = (n \div Place[W - i]) % 256
  BY <1>1, <1>2 DEF ToBeBytes
<1> HIDE DEF bytes
<1>4. number[0] = 0 /\ \A k \in 1..W : number[k] = 256 * number[k - 1] + bytes[k]
  BY <1>3, NumbersDef
<1> HIDE DEF number
<1>5. 0 \in S
  <2>1. Place[W] = USIZE /\ USIZE \in Nat \ {0}
    BY <1>1 DEF USIZE
  <2>2. n \div USIZE = 0
    <3>1. n = USIZE * 0 + n
      BY <2>1
    <3> QED  BY <2>1, <3>1, Quotient
  <2> QED  BY <1>1, <1>4, <2>1, <2>2
<1>6. ASSUME NEW k \in 1..W, k - 1 \in S PROVE k \in S
  <2> DEFINE P == Place[W - k]
  <2>1. W - k \in 0..W /\ W - (k - 1) \in 1..W /\ W - (k - 1) - 1 = W - k
    BY <1>1
  <2>2. Place[W - (k - 1)] = 256 * P /\ P \in Nat \ {0}
    BY <1>1, <2>1
  <2>3. number[k - 1] = n \div (256 * P)
    BY <1>6, <2>2
  <2>4. number[k] = 256 * number[k - 1] + bytes[k] /\ bytes[k] = (n \div P) % 256
    BY <1>3, <1>4
  <2> HIDE DEF P
  <2>5. number[k] = 256 * (n \div (256 * P)) + ((n \div P) % 256)
    BY <2>3, <2>4, Zenon
  <2>6. n \div P = 256 * (n \div (256 * P)) + ((n \div P) % 256)
    BY <2>2, Digit
  <2>7. number[k] = n \div P
    BY <2>5, <2>6, Zenon
  <2> QED  BY <2>7 DEF P
<1>7. W \in S
  <2> HIDE DEF S
  <2>1. \A k \in 0..W : k \in S
    BY <1>1, <1>5, <1>6, Induction
  <2> QED  BY <1>1, <2>1
<1>8. number[W] = n
  <2>1. W - W = 0 /\ n \div 1 = n
    BY <1>1
  <2> QED  BY <1>1, <1>7, <2>1
<1> QED  BY <1>3, <1>8 DEF bytes, number, FromBeBytes

\* The frames of which serialize_frame makes a datagram.
WireFrame ==
  {f \in [w : Nat \ {0}, h : Nat \ {0}, chars : Seq(Char)] :
     Len(f.chars) = f.w * f.h /\ f.w * f.h < USIZE}

LEMMA SizeFits ==
  ASSUME NEW f \in WireFrame
  PROVE  /\ f.w \in Nat \ {0} /\ f.h \in Nat \ {0} /\ f.w < USIZE /\ f.h < USIZE
         /\ USIZE \in Nat \ {0} /\ (f.w * f.h) % USIZE = Len(f.chars)
         /\ f.chars \in Seq(Char) /\ Len(f.chars) \in Nat \ {0}
<1> DEFINE w == f.w
           h == f.h
<1>1. /\ w \in Nat \ {0} /\ h \in Nat \ {0} /\ f.chars \in Seq(Char)
      /\ Len(f.chars) = w * h /\ w * h < USIZE
  BY DEF WireFrame
<1>2. USIZE \in Nat \ {0}
  BY PlaceDef DEF USIZE
<1> HIDE DEF w, h
<1>3. /\ w - 1 \in Nat /\ h - 1 \in Nat /\ w * (h - 1) \in Nat /\ h * (w - 1) \in Nat
      /\ w * h = w * (h - 1) + w /\ w * h = h * (w - 1) + h /\ w * h \in Nat
  BY <1>1
<1>4. w <= w * h /\ h <= w * h
  BY <1>1, <1>3
<1>5. \A n \in Nat : n < USIZE => n % USIZE = n
  BY <1>2
<1>6. (w * h) % USIZE = w * h /\ w * h # 0
  BY <1>1, <1>3, <1>4, <1>5
<1>7. w < USIZE /\ h < USIZE
  BY <1>1, <1>2, <1>3, <1>4
<1> QED  BY <1>1, <1>2, <1>3, <1>6, <1>7 DEF w, h

\* A datagram is read in its three parts.
LEMMA HeaderRead ==
  ASSUME NEW w \in Nat, w < USIZE, NEW h \in Nat, h < USIZE, NEW b \in Seq(Byte)
  PROVE  LET d == ToBeBytes(w) \o ToBeBytes(h) \o b IN
         /\ d \in Seq(Byte) /\ Len(d) = 2 * WordBytes + Len(b)
         /\ ProcessDatagram(d) = FromBytes(w, h, b)
<1> DEFINE W == WordBytes
           x == ToBeBytes(w)
           y == ToBeBytes(h)
           d == (x \o y) \o b
<1>1. W \in Nat \ {0} /\ Len(b) \in Nat
  BY PlaceDef
<1>2. /\ x \in Seq(Byte) /\ Len(x) = W /\ FromBeBytes(x) = w
      /\ y \in Seq(Byte) /\ Len(y) = W /\ FromBeBytes(y) = h
  BY WordRead
<1> HIDE DEF x, y
<1>3. x \o y \in Seq(Byte) /\ Len(x \o y) = W + W
  BY <1>2, ConcatProperties
<1>4. d \in Seq(Byte) /\ Len(d) = 2 * W + Len(b)
  <2> DEFINE v == x \o y
  <2> HIDE DEF v
  <2>1. v \in Seq(Byte) /\ Len(v) = W + W
    BY <1>3 DEF v
  <2>2. v \o b \in Seq(Byte) /\ Len(v \o b) = Len(v) + Len(b)
    BY <2>1, ConcatProperties
  <2> QED  BY <1>1, <2>1, <2>2 DEF v
<1>5. SubSeq(d, 1, W) = x
  <2>1. 1 \in 1..Len(x \o y) /\ W \in 1..Len(x \o y) /\ 1 \in 1..Len(x) /\ W \in 1..Len(x)
    BY <1>1, <1>2, <1>3
  <2>2. SubSeq(d, 1, W) = SubSeq(x \o y, 1, W)
    BY <1>3, <2>1, SubSeqOfConcat1
  <2>3. SubSeq(x \o y, 1, W) = SubSeq(x, 1, W)
    BY <1>2, <2>1, SubSeqOfConcat1
  <2>4. SubSeq(x, 1, W) = x
    BY <1>2, SubSeqFull
  <2> QED  BY <2>2, <2>3, <2>4
<1>6. SubSeq(d, W + 1, 2 * W) = y
  <2> DEFINE i == W + 1
             j == 2 * W
  <2>1. /\ i \in 1..Len(x \o y) /\ j \in 1..Len(x \o y)
        /\ i \in (Len(x) + 1)..(Len(x) + Len(y)) /\ j \in (Len(x) + 1)..(Len(x) + Len(y))
        /\ i - Len(x) = 1 /\ j - Len(x) = Len(y)
    BY <1>1, <1>2, <1>3
  <2> HIDE DEF i, j
  <2>2. SubSeq(d, i, j) = SubSeq(x \o y, i, j)
    BY <1>3, <2>1, SubSeqOfConcat1
  <2>3. SubSeq(x \o y, i, j) = SubSeq(y, i - Len(x), j - Len(x))
    <3>1. /\ x \in Seq(Byte) /\ y \in Seq(Byte)
          /\ i \in (Len(x) + 1)..(Len(x) + Len(y)) /\ j \in (Len(x) + 1)..(Len(x) + Len(y))
      BY <1>2, <2>1
    <3> QED  BY <3>1, SubSeqOfConcat2
  <2>4. SubSeq(y, 1, Len(y)) = y
    BY <1>2, SubSeqFull
  <2> QED  BY <2>1, <2>2, <2>3, <2>4 DEF i, j
<1>7. SubSeq(d, 2 * W + 1, Len(d)) = b
  <2> DEFINE i == 2 * W + 1
             j == Len(d)
             v == x \o y
  <2>1. CASE b = <<>>
    <3>1. i \in Int /\ j \in Int /\ j < i
      BY <1>1, <1>4, <2>1
    <3> HIDE DEF d
    <3> QED  BY <2>1, <3>1, SubSeqEmpty
  <2>2. CASE b # <<>>
    <3>1. /\ i \in (Len(v) + 1)..(Len(v) + Len(b)) /\ j \in (Len(v) + 1)..(Len(v) + Len(b))
          /\ i - Len(v) = 1 /\ j - Len(v) = Len(b)
      <4>1. Len(b) \in Nat \ {0}
        BY <2>2, EmptySeq
      <4> QED  BY <1>1, <1>3, <1>4, <4>1
    <3> HIDE DEF i, j, v
    <3>2. SubSeq(v \o b, i, j) = SubSeq(b, i - Len(v), j - Len(v))
      BY <1>3, <3>1, SubSeqOfConcat2 DEF v
    <3>3. SubSeq(b, 1, Len(b)) = b
      BY SubSeqFull
    <3> QED  BY <3>1, <3>2, <3>3 DEF i, j, v
  <2> QED  BY <2>1, <2>2
<1>8. ~(Len(d) < 2 * W)
  BY <1>1, <1>4
<1> HIDE DEF d
<1>9. ProcessDatagram(d) = FromBytes(w, h, b)
  BY <1>2, <1>5, <1>6, <1>7, <1>8, Zenon DEF ProcessDatagram
<1> QED  BY <1>4, <1>9 DEF d, x, y

\* process_datagram returns the frame that serialize_frame was given, whatever
\* its size and its characters are.
THEOREM FrameRead ==
  ASSUME NEW f \in WireFrame
  PROVE  SerializeFrame(f) \in Seq(Byte) /\ ProcessDatagram(SerializeFrame(f)) = f
<1>1. /\ f.w \in Nat \ {0} /\ f.h \in Nat \ {0} /\ f.w < USIZE /\ f.h < USIZE
      /\ USIZE \in Nat \ {0} /\ (f.w * f.h) % USIZE = Len(f.chars)
      /\ f.chars \in Seq(Char) /\ Len(f.chars) \in Nat \ {0}
  BY SizeFits
<1> DEFINE chars == f.chars
           bytes == Encoded(chars)[Len(chars)]
<1>2. /\ bytes \in Seq(Byte) /\ IsUtf8(bytes)
      /\ FromUtf8(bytes) = SubSeq(chars, 1, Len(chars))
  <2>1. Len(chars) \in 0..Len(chars)
    BY <1>1
  <2> QED  BY <1>1, <2>1, TextOfEncoded
<1>3. FromUtf8(bytes) = chars
  BY <1>1, <1>2, SubSeqFull
<1>4. chars # Invalid
  <2>1. chars[1] \in Char
    BY <1>1
  <2>2. chars[1] # 55296
    BY <2>1 DEF Char, IsChar
  <2> QED  BY <2>2 DEF Invalid
<1>5. f = [w |-> f.w, h |-> f.h, chars |-> f.chars]
  BY DEF WireFrame
<1> HIDE DEF bytes
<1>6. FromBytes(f.w, f.h, bytes) = f
  <2>1. ~(f.w = 0 \/ f.h = 0 \/ chars = Invalid \/ Len(chars) < Len(chars) \/ Len(chars) > Len(chars))
    BY <1>1, <1>4
  <2> QED  BY <1>1, <1>3, <1>5, <2>1 DEF FromBytes
<1>7. SerializeFrame(f) = ToBeBytes(f.w) \o ToBeBytes(f.h) \o bytes
  BY DEF SerializeFrame, Bytes, bytes
<1> DEFINE d == ToBeBytes(f.w) \o ToBeBytes(f.h) \o bytes
<1>8. d \in Seq(Byte) /\ ProcessDatagram(d) = FromBytes(f.w, f.h, bytes)
  BY <1>1, <1>2, HeaderRead
<1> HIDE DEF d
<1> QED  BY <1>6, <1>7, <1>8 DEF d

\* No part of a frame passes for a frame, wherever the datagram is cut off.
THEOREM PartRefused ==
  ASSUME NEW f \in WireFrame, NEW m \in 0..(Len(SerializeFrame(f)) - 1)
  PROVE  ProcessDatagram(SubSeq(SerializeFrame(f), 1, m)) = NoFrame
<1> DEFINE W == WordBytes
           N == Len(f.chars)
           v == ToBeBytes(f.w) \o ToBeBytes(f.h)
           bytes == Encoded(f.chars)[N]
           d == SerializeFrame(f)
           k == m - 2 * W
<1>1. /\ f.w \in Nat \ {0} /\ f.h \in Nat \ {0} /\ f.w < USIZE /\ f.h < USIZE
      /\ USIZE \in Nat \ {0} /\ (f.w * f.h) % USIZE = N
      /\ f.chars \in Seq(Char) /\ N \in Nat \ {0} /\ W \in Nat \ {0}
  BY SizeFits, PlaceDef
<1>2. bytes \in Seq(Byte)
  <2>1. N \in 0..N
    BY <1>1
  <2> QED  BY <1>1, <2>1, TextOfEncoded
<1>3. v \in Seq(Byte) /\ Len(v) = 2 * W
  <2>1. /\ ToBeBytes(f.w) \in Seq(Byte) /\ Len(ToBeBytes(f.w)) = W
        /\ ToBeBytes(f.h) \in Seq(Byte) /\ Len(ToBeBytes(f.h)) = W
    BY <1>1, WordRead
  <2> QED  BY <1>1, <2>1, ConcatProperties
<1>4. d = v \o bytes
  BY DEF SerializeFrame, Bytes
<1> HIDE DEF v, bytes, d
<1>5. d \in Seq(Byte) /\ Len(d) = 2 * W + Len(bytes) /\ Len(bytes) \in Nat /\ m \in Nat /\ m < Len(d)
  <2>1. d \in Seq(Byte) /\ Len(d) = 2 * W + Len(bytes) /\ Len(bytes) \in Nat
    <3>1. v \o bytes \in Seq(Byte) /\ Len(v \o bytes) = Len(v) + Len(bytes)
      BY <1>2, <1>3, ConcatProperties
    <3> QED  BY <1>1, <1>2, <1>3, <1>4, <3>1, LenProperties
  <2>2. m \in 0..(Len(d) - 1)
    BY DEF d
  <2> QED  BY <1>1, <2>1, <2>2
<1>6. CASE m < 2 * W
  <2>1. Len(SubSeq(d, 1, m)) = m
    <3>1. m \in 0..Len(d)
      BY <1>1, <1>5
    <3> QED  BY <1>5, <3>1, Prefix
  <2>2. ProcessDatagram(SubSeq(d, 1, m)) = NoFrame
    BY <1>6, <2>1 DEF ProcessDatagram
  <2> QED  BY <2>2 DEF d
<1>7. CASE m >= 2 * W
  <2> DEFINE part == SubSeq(bytes, 1, k)
  <2>1. k \in 0..(Len(bytes) - 1) /\ k \in 0..Len(bytes)
    BY <1>1, <1>5, <1>7
  <2>2. part \in Seq(Byte)
    BY <1>2, <2>1, Prefix
  <2>3. ~IsUtf8(part) \/ Len(FromUtf8(part)) < N
    <3>1. k \in 0..(Len(Encoded(f.chars)[Len(f.chars)]) - 1)
      BY <2>1 DEF bytes
    <3> QED  BY <1>1, <3>1, PartOfEncoded DEF bytes
  <2>4. FromBytes(f.w, f.h, part) = NoFrame
    <3>1. CASE ~IsUtf8(part)
      BY <3>1 DEF FromBytes, FromUtf8
    <3>2. CASE Len(FromUtf8(part)) < N
      BY <1>1, <3>2 DEF FromBytes
    <3> QED  BY <2>3, <3>1, <3>2
  <2>5. SubSeq(d, 1, m) = v \o part
    <3> HIDE DEF part, k
    <3>1. v \o part \in Seq(Byte) /\ Len(v \o part) = m
      <4>1. Len(part) = k
        BY <1>2, <2>1, Prefix DEF part
      <4>2. v \o part \in Seq(Byte) /\ Len(v \o part) = Len(v) + Len(part)
        BY <1>3, <2>2, ConcatProperties
      <4>3. 2 * W + k = m
        BY <1>1, <1>5 DEF k
      <4> QED  BY <1>3, <4>1, <4>2, <4>3
    <3>2. m \in 0..Len(d)
      BY <1>1, <1>5
    <3>3. SubSeq(d, 1, m) \in Seq(Byte) /\ Len(SubSeq(d, 1, m)) = m
      BY <1>5, <3>2, Prefix
    <3>4. ASSUME NEW i \in 1..m PROVE SubSeq(d, 1, m)[i] = (v \o part)[i]
      <4>1. SubSeq(d, 1, m)[i] = (v \o bytes)[i]
        BY <1>4, <1>5, <3>2, Prefix
      <4>2. CASE i <= Len(v)
        BY <1>2, <1>3, <1>5, <2>2, <3>1, <4>1, <4>2
      <4>3. CASE i > Len(v)
        <5> DEFINE j == i - Len(v)
        <5>1. j \in 1..k
          BY <1>1, <1>3, <1>5, <4>3 DEF k
        <5>2. part[j] = bytes[j]
          BY <1>2, <2>1, <5>1, Prefix DEF part
        <5>3. (v \o part)[i] = part[j]
          <6>1. i \in 1..Len(v) + Len(part) /\ ~(i <= Len(v))
            BY <1>1, <1>3, <1>5, <2>2, <3>1, <4>3
          <6> QED  BY <1>3, <2>2, <6>1, ConcatProperties
        <5>4. (v \o bytes)[i] = bytes[j]
          <6>1. i \in 1..Len(v) + Len(bytes) /\ ~(i <= Len(v))
            BY <1>1, <1>3, <1>5, <4>3
          <6> QED  BY <1>2, <1>3, <6>1, ConcatProperties
        <5> QED  BY <4>1, <5>2, <5>3, <5>4
      <4>4. i <= Len(v) \/ i > Len(v)
        BY <1>1, <1>3, <1>5
      <4> QED  BY <4>2, <4>3, <4>4, Zenon
    <3> QED  BY <3>1, <3>3, <3>4, SeqEqual
  <2>6. ProcessDatagram(v \o part) = FromBytes(f.w, f.h, part)
    BY <1>1, <2>2, HeaderRead DEF v
  <2> QED  BY <2>4, <2>5, <2>6 DEF d
<1> QED  BY <1>1, <1>5, <1>6, <1>7

\* Nor does a frame with a character more than it has cells.
THEOREM MoreRefused ==
  ASSUME NEW f \in WireFrame, NEW c \in Char
  PROVE  ProcessDatagram(SerializeFrame(f) \o EncodeUtf8(c)) = NoFrame
<1> DEFINE N == Len(f.chars)
           bytes == Encoded(f.chars)[N]
           more == bytes \o EncodeUtf8(c)
           v == ToBeBytes(f.w) \o ToBeBytes(f.h)
<1>1. /\ f.w \in Nat \ {0} /\ f.h \in Nat \ {0} /\ f.w < USIZE /\ f.h < USIZE
      /\ USIZE \in Nat \ {0} /\ (f.w * f.h) % USIZE = N
      /\ f.chars \in Seq(Char) /\ N \in Nat \ {0}
  BY SizeFits
<1>2. /\ bytes \in Seq(Byte) /\ IsUtf8(bytes)
      /\ FromUtf8(bytes) = SubSeq(f.chars, 1, N)
  <2>1. N \in 0..N
    BY <1>1
  <2> QED  BY <1>1, <2>1, TextOfEncoded
<1>3. FromUtf8(bytes) = f.chars
  BY <1>1, <1>2, SubSeqFull
<1> HIDE DEF bytes
<1>4. more \in Seq(Byte) /\ FromUtf8(more) = Append(f.chars, c)
  BY <1>2, <1>3, TextAppended
<1>5. Len(FromUtf8(more)) > N
  BY <1>1, <1>4, AppendProperties
<1>6. FromBytes(f.w, f.h, more) = NoFrame
  <2> HIDE DEF more
  <2> QED  BY <1>1, <1>5 DEF FromBytes
<1>7. EncodeUtf8(c) \in Seq(Byte)
  BY EncodingOfChar
<1>8. v \in Seq(Byte)
  <2>1. ToBeBytes(f.w) \in Seq(Byte) /\ ToBeBytes(f.h) \in Seq(Byte)
    BY <1>1, WordRead
  <2> QED  BY <2>1, ConcatProperties
<1>9. SerializeFrame(f) \o EncodeUtf8(c) = v \o more
  <2>1. SerializeFrame(f) = v \o bytes
    BY DEF SerializeFrame, Bytes, bytes
  <2> HIDE DEF v
  <2>2. (v \o bytes) \o EncodeUtf8(c) = v \o (bytes \o EncodeUtf8(c))
    BY <1>2, <1>7, <1>8, ConcatAssociative
  <2> QED  BY <2>1, <2>2
<1> HIDE DEF more
<1>10. ProcessDatagram(v \o more) = FromBytes(f.w, f.h, more)
  BY <1>1, <1>4, HeaderRead
<1> QED  BY <1>6, <1>9, <1>10

-----------------------------------------------------------------------------
(* What is accepted was written by serialize_frame.                        *)

\* A character more, and its bytes.
LEMMA EncodedAppend ==
  ASSUME NEW s \in Seq(Char), NEW c \in Char
  PROVE  LET t == Append(s, c) IN
         /\ t \in Seq(Char)
         /\ Encoded(t)[Len(t)] = Encoded(s)[Len(s)] \o EncodeUtf8(c)
<1> DEFINE t == Append(s, c)
           N == Len(s)
           F == Encoded(s)
           G == Encoded(t)
           S == {n \in 0..N : G[n] = F[n]}
<1>1. /\ t \in Seq(Char) /\ N \in Nat /\ Len(t) = N + 1
      /\ \A n \in 1..N : t[n] = s[n]
      /\ t[N + 1] = c
  OBVIOUS
<1>2. F[0] = <<>> /\ \A n \in 1..N : F[n] = F[n - 1] \o EncodeUtf8(s[n])
  BY EncodedDef
<1> HIDE DEF t
<1>3. G[0] = <<>> /\ \A n \in 1..Len(t) : G[n] = G[n - 1] \o EncodeUtf8(t[n])
  BY <1>1, EncodedDef
<1> HIDE DEF F, G
<1>4. 0 \in S
  BY <1>1, <1>2, <1>3
<1>5. ASSUME NEW n \in 1..N, n - 1 \in S PROVE n \in S
  <2>1. n \in 1..Len(t) /\ t[n] = s[n] /\ G[n - 1] = F[n - 1]
    BY <1>1, <1>5
  <2>2. G[n] = G[n - 1] \o EncodeUtf8(t[n]) /\ F[n] = F[n - 1] \o EncodeUtf8(s[n])
    BY <1>2, <1>3, <2>1
  <2>3. G[n] = F[n]
    BY <2>1, <2>2
  <2> QED  BY <1>1, <2>3
<1>6. N \in S
  <2> HIDE DEF S
  <2>1. \A n \in 0..N : n \in S
    BY <1>1, <1>4, <1>5, Induction
  <2> QED  BY <1>1, <2>1
<1>7. G[N + 1] = G[N] \o EncodeUtf8(c)
  <2>1. PICK n \in 1..Len(t) : n = N + 1
    BY <1>1
  <2>2. n - 1 = N /\ t[n] = c
    BY <1>1, <2>1
  <2>3. G[n] = G[n - 1] \o EncodeUtf8(t[n])
    BY <1>3
  <2> QED  BY <2>1, <2>2, <2>3
<1>8. G[N] = F[N]
  BY <1>6
<1>9. t \in Seq(Char) /\ G[Len(t)] = F[Len(s)] \o EncodeUtf8(c)
  BY <1>1, <1>7, <1>8
<1> QED  BY <1>9 DEF t, F, G

\* Whatever from_utf8 lets pass is the encoding of what it is read as.
LEMMA TextIsEncoded ==
  ASSUME NEW b \in Seq(Byte), IsUtf8(b)
  PROVE  /\ FromUtf8(b) \in Seq(Char)
         /\ b = Encoded(FromUtf8(b))[Len(FromUtf8(b))]
<1> DEFINE N == Len(b)
           Enc(s) == Encoded(s)[Len(s)]
           Ends(m) == m + 1 \in Leads(b) \cup {N + 1}
           Read(m) == Ends(m) /\ \E s \in Seq(Char) : SubSeq(b, 1, m) = Enc(s)
           S == {n \in 0..N : \E m \in n..N : Read(m)}
<1>1. N \in Nat
  OBVIOUS
<1>2. Read(0)
  <2>1. Ends(0)
    <3>1. CASE b = <<>>
      BY <3>1
    <3>2. CASE b # <<>>
      BY <3>2 DEF IsUtf8
    <3> QED  BY <3>1, <3>2
  <2>2. SubSeq(b, 1, 0) = <<>>
    BY SubSeqEmpty
  <2>3. <<>> \in Seq(Char) /\ Len(<<>>) = 0 /\ Encoded(<<>>)[0] = <<>>
    BY EncodedDef, EmptySeq
  <2>4. SubSeq(b, 1, 0) = Enc(<<>>)
    BY <2>2, <2>3
  <2> HIDE DEF Ends, Enc
  <2> QED  BY <2>1, <2>3, <2>4
<1>3. ASSUME NEW m \in 0..N, Read(m), m # N
      PROVE  \E k \in (m + 1)..N : Read(k)
  <2> DEFINE i == m + 1
             e == CharAt(b, i)
             c == CodePoint(e)
             k == After(b, i) - 1
  <2>1. m \in Nat /\ i \in Leads(b) /\ i \in 1..N /\ b[i] \in Byte
    BY <1>1, <1>3 DEF Leads
  <2>2. /\ After(b, i) \in Leads(b) \cup {N + 1}
        /\ IsChar(c) /\ EncodeUtf8(c) = e
    BY <2>1 DEF IsUtf8
  <2>3. k \in i..N /\ k \in Nat /\ k + 1 = After(b, i)
    <3>1. Width(b[i]) \in 1..4 /\ After(b, i) = i + Width(b[i])
      BY <2>1 DEF Width, After
    <3>2. After(b, i) \in 1..(N + 1)
      BY <1>1, <2>2 DEF Leads
    <3> QED  BY <1>1, <2>1, <3>1, <3>2
  <2>4. e = SubSeq(b, i, k)
    BY DEF CharAt
  <2>5. c \in Char
    BY <2>2 DEF Char, IsChar
  <2> HIDE DEF c, e, k
  <2>6. PICK s \in Seq(Char) : SubSeq(b, 1, m) = Enc(s)
    BY <1>3
  <2>7. Ends(k)
    BY <2>2, <2>3
  <2>8. SubSeq(b, 1, k) = SubSeq(b, 1, m) \o e
    <3>1. 1 \in 1..(Len(b) + 1) /\ m \in (1 - 1)..Len(b) /\ k \in m..Len(b)
      BY <1>1, <2>1, <2>3
    <3> QED  BY <2>4, <3>1, ConcatAdjacentSubSeq
  <2> DEFINE t == Append(s, c)
  <2>9. t \in Seq(Char) /\ Enc(t) = Enc(s) \o EncodeUtf8(c)
    BY <2>5, EncodedAppend
  <2> HIDE DEF Enc, Ends, t
  <2>10. SubSeq(b, 1, k) = Enc(t)
    BY <2>2, <2>6, <2>8, <2>9
  <2>11. Read(k)
    BY <2>7, <2>9, <2>10
  <2> HIDE DEF Read
  <2> QED  BY <2>3, <2>11
<1> HIDE DEF Read
<1>4. 0 \in S
  BY <1>1, <1>2
<1>5. ASSUME NEW n \in 1..N, n - 1 \in S PROVE n \in S
  <2>1. PICK m \in (n - 1)..N : Read(m)
    BY <1>5
  <2>2. m \in 0..N
    BY <1>1, <2>1
  <2>3. CASE m = n - 1
    <3>1. PICK k \in (m + 1)..N : Read(k)
      BY <1>1, <1>3, <2>1, <2>2, <2>3
    <3>2. k \in n..N
      BY <2>3, <3>1
    <3> QED  BY <3>1, <3>2
  <2>4. CASE m # n - 1
    <3>1. m \in n..N
      BY <1>1, <2>2, <2>4
    <3> QED  BY <2>1, <3>1
  <2> QED  BY <2>3, <2>4
<1>6. N \in S
  <2> HIDE DEF S
  <2>1. \A n \in 0..N : n \in S
    BY <1>1, <1>4, <1>5, Induction
  <2> QED  BY <1>1, <2>1
<1>7. Read(N)
  BY <1>1, <1>6
<1>8. PICK s \in Seq(Char) : SubSeq(b, 1, N) = Enc(s)
  BY <1>7 DEF Read
<1>9. b = Enc(s)
  BY <1>8, SubSeqFull
<1>10. FromUtf8(Enc(s)) = s
  <2>1. Len(s) \in 0..Len(s)
    OBVIOUS
  <2>2. FromUtf8(Encoded(s)[Len(s)]) = SubSeq(s, 1, Len(s))
    BY <2>1, TextOfEncoded
  <2> QED  BY <2>2, SubSeqFull
<1> HIDE DEF Enc
<1>11. FromUtf8(b) = s
  BY <1>9, <1>10
<1> QED  BY <1>8, <1>9, <1>11 DEF Enc

\* Eight bytes are those of the usize that is read from them.
LEMMA WordWritten ==
  ASSUME NEW bytes \in Seq(Byte), Len(bytes) = WordBytes
  PROVE  LET n == FromBeBytes(bytes) IN
         n \in Nat /\ n < USIZE /\ ToBeBytes(n) = bytes
<1> DEFINE W == WordBytes
           number == Numbers(bytes)
           n == number[W]
           S == {k \in 0..W : n \div Place[k] = number[W - k]}
<1>1. /\ W \in Nat \ {0} /\ Place[0] = 1
      /\ \A k \in 1..W : Place[k] = 256 * Place[k - 1]
      /\ \A k \in 0..W : Place[k] \in Nat \ {0}
  BY PlaceDef
<1>2. /\ number[0] = 0
      /\ \A k \in 1..W : number[k] = 256 * number[k - 1] + bytes[k]
      /\ \A k \in 0..W : number[k] \in Nat
  BY NumbersDef
<1>3. \A k \in 1..W : bytes[k] \in Nat /\ bytes[k] < 256 /\ bytes[k] \in Byte
  <2>1. \A k \in 1..W : bytes[k] \in Byte
    OBVIOUS
  <2> QED  BY <2>1 DEF Byte
<1> HIDE DEF number
<1>4. n \in Nat
  BY <1>1, <1>2
<1> HIDE DEF n
<1>5. 0 \in S
  <2>1. n \div 1 = n /\ W - 0 = W
    BY <1>1, <1>4
  <2> QED  BY <1>1, <2>1 DEF n
<1>6. ASSUME NEW k \in 1..W, k - 1 \in S
      PROVE  k \in S /\ (n \div Place[k - 1]) % 256 = bytes[W - k + 1]
  <2> DEFINE P == Place[k - 1]
             j == W - k + 1
             x == number[j - 1]
             y == bytes[j]
  <2>1. /\ j \in 1..W /\ j - 1 \in 0..W /\ j - 1 = W - k /\ W - (k - 1) = j
        /\ k - 1 \in 0..W /\ k \in 0..W
    BY <1>1
  <2>2. P \in Nat \ {0} /\ Place[k] = 256 * P
    BY <1>1, <2>1
  <2>3. number[j] = 256 * x + y /\ x \in Nat /\ y \in Nat /\ y < 256
    BY <1>2, <1>3, <2>1
  <2>4. n \div P = number[j]
    BY <1>6, <2>1
  <2> HIDE DEF P, x, y, j
  <2>5. n \div P = 256 * (n \div (256 * P)) + ((n \div P) % 256)
    BY <1>4, <2>2, Digit
  <2>6. n \div (256 * P) \in Nat /\ (n \div P) % 256 \in Nat /\ (n \div P) % 256 < 256
    <3>1. 256 * P \in Nat \ {0} /\ n \div P \in Nat
      BY <1>4, <2>2
    <3> DEFINE Q == 256 * P
               q == n \div P
    <3> HIDE DEF Q, q
    <3>2. n \div Q \in Nat
      BY <1>4, <3>1 DEF Q
    <3>3. q % 256 \in Nat /\ q % 256 < 256
      BY <3>1 DEF q
    <3> QED  BY <3>2, <3>3 DEF Q, q
  <2> DEFINE u == n \div (256 * P)
             v == (n \div P) % 256
  <2>7. 256 * x + y = 256 * u + v /\ u \in Nat /\ v \in Nat /\ v < 256
    BY <2>3, <2>4, <2>5, <2>6
  <2> HIDE DEF u, v
  <2>8. u = x /\ v = y
    BY <2>3, <2>7
  <2>9. n \div Place[k] = number[W - k] /\ (n \div Place[k - 1]) % 256 = bytes[W - k + 1]
    BY <2>1, <2>2, <2>8 DEF u, v, x, y, P, j
  <2> QED  BY <2>1, <2>9
<1>7. \A k \in 0..W : k \in S
  <2> HIDE DEF S
  <2> QED  BY <1>1, <1>5, <1>6, Induction
<1>8. n < USIZE
  <2>1. USIZE \in Nat \ {0} /\ n \div USIZE = 0
    BY <1>1, <1>2, <1>7 DEF USIZE
  <2>2. n = USIZE * (n \div USIZE) + (n % USIZE) /\ n % USIZE < USIZE
    BY <1>4, <2>1
  <2> QED  BY <1>4, <2>1, <2>2
<1>9. ToBeBytes(n) = bytes
  <2>1. ASSUME NEW i \in 1..W PROVE (n \div Place[W - i]) % 256 = bytes[i]
    <3> DEFINE k == W - i + 1
    <3>1. k \in 1..W /\ k - 1 = W - i /\ W - k + 1 = i /\ k - 1 \in 0..W
      BY <1>1
    <3> HIDE DEF k
    <3>2. k - 1 \in S
      <4> HIDE DEF S
      <4> QED  BY <1>7, <3>1
    <3> HIDE DEF S
    <3> QED  BY <1>6, <3>1, <3>2
  <2>2. bytes = [i \in 1..W |-> bytes[i]]
    OBVIOUS
  <2> QED  BY <2>1, <2>2 DEF ToBeBytes
<1>10. n = FromBeBytes(bytes)
  BY DEF n, number, FromBeBytes
<1> QED  BY <1>4, <1>8, <1>9, <1>10

\* process_datagram is the inverse of serialize_frame on all that it accepts:
\* byte for byte, the datagram is the one that the frame it returns would be
\* sent as, and so no two datagrams are read as the same frame.
THEOREM AcceptedIsSerialized ==
  ASSUME NEW d \in Seq(Byte), ProcessDatagram(d) # NoFrame
  PROVE  LET f == ProcessDatagram(d) IN
         /\ SerializeFrame(f) = d
         /\ f \in [w : Nat \ {0}, h : Nat \ {0}, chars : Seq(Char)]
         /\ Len(f.chars) = (f.w * f.h) % USIZE
<1> DEFINE W == WordBytes
           N == Len(d)
           x == SubSeq(d, 1, W)
           y == SubSeq(d, W + 1, 2 * W)
           b == SubSeq(d, 2 * W + 1, N)
           w == FromBeBytes(x)
           h == FromBeBytes(y)
           f == ProcessDatagram(d)
<1>1. W \in Nat \ {0} /\ N \in Nat /\ 2 * W <= N
  BY PlaceDef DEF ProcessDatagram
<1>2. f = FromBytes(w, h, b)
  BY DEF ProcessDatagram
<1>3. \A i \in 1..N : d[i] \in Byte
  OBVIOUS
<1>4. x \in Seq(Byte) /\ Len(x) = W
  <2>1. W \in 0..N
    BY <1>1
  <2> QED  BY <2>1, Prefix
<1>5. y \in Seq(Byte) /\ Len(y) = W
  <2> DEFINE i == W + 1
             j == 2 * W
  <2>1. i \in Int /\ j \in Int /\ i <= j /\ j - i + 1 = W /\ \A k \in i..j : d[k] \in Byte
    BY <1>1, <1>3
  <2> HIDE DEF i, j
  <2>2. SubSeq(d, i, j) \in Seq(Byte) /\ Len(SubSeq(d, i, j)) = W
    BY <2>1, SubSeqProperties
  <2> QED  BY <2>2 DEF i, j
<1>6. b \in Seq(Byte)
  <2> DEFINE i == 2 * W + 1
  <2>1. i \in Int /\ N \in Int /\ \A k \in i..N : d[k] \in Byte
    BY <1>1, <1>3
  <2> HIDE DEF i, N
  <2>2. SubSeq(d, i, N) \in Seq(Byte)
    BY <2>1, SubSeqProperties
  <2> QED  BY <2>2 DEF i
<1>7. d = (x \o y) \o b
  <2> DEFINE l == 2 * W
  <2>1. /\ 1 \in 1..(Len(d) + 1) /\ W \in (1 - 1)..Len(d) /\ l \in W..Len(d)
        /\ l \in (1 - 1)..Len(d) /\ N \in l..Len(d)
    BY <1>1
  <2> HIDE DEF l
  <2>2. SubSeq(d, 1, W) \o SubSeq(d, W + 1, l) = SubSeq(d, 1, l)
    BY <2>1, ConcatAdjacentSubSeq
  <2>3. SubSeq(d, 1, l) \o SubSeq(d, l + 1, N) = SubSeq(d, 1, N)
    BY <2>1, ConcatAdjacentSubSeq
  <2>4. SubSeq(d, 1, N) = d
    BY SubSeqFull
  <2> QED  BY <2>2, <2>3, <2>4 DEF l
<1> HIDE DEF N, x, y, b
<1>8. w \in Nat /\ w < USIZE /\ ToBeBytes(w) = x
  BY <1>4, WordWritten
<1>9. h \in Nat /\ h < USIZE /\ ToBeBytes(h) = y
  BY <1>5, WordWritten
<1> HIDE DEF w, h, f
<1> DEFINE text == FromUtf8(b)
           total == (w * h) % USIZE
<1>10. /\ ~(w = 0 \/ h = 0 \/ text = Invalid \/ Len(text) < total \/ Len(text) > total)
       /\ f = [w |-> w, h |-> h, chars |-> text]
  <2>1. f # NoFrame
    BY DEF f
  <2> HIDE DEF text, total
  <2>2. FromBytes(w, h, b) =
          IF w = 0 \/ h = 0 \/ text = Invalid \/ Len(text) < total \/ Len(text) > total
          THEN NoFrame ELSE [w |-> w, h |-> h, chars |-> text]
    BY DEF FromBytes, text, total
  <2> QED  BY <1>2, <2>1, <2>2
<1>11. text \in Seq(Char) /\ b = Encoded(text)[Len(text)]
  <2>1. IsUtf8(b)
    BY <1>10 DEF FromUtf8
  <2> QED  BY <1>6, <2>1, TextIsEncoded
<1>12. Len(text) = total
  <2>1. USIZE \in Nat \ {0} /\ w * h \in Nat
    BY <1>8, <1>9, PlaceDef DEF USIZE
  <2>2. total \in Nat /\ Len(text) \in Nat
    <3> DEFINE p == w * h
    <3> HIDE DEF p, text
    <3>1. p % USIZE \in Nat
      BY <2>1 DEF p
    <3> QED  BY <1>11, <3>1 DEF p
  <2> HIDE DEF text, total
  <2> QED  BY <1>10, <2>2
<1> HIDE DEF text
<1>13. SerializeFrame(f) = d
  <2>1. f.w = w /\ f.h = h /\ f.chars = text
    BY <1>10
  <2> QED  BY <1>7, <1>8, <1>9, <1>11, <2>1 DEF SerializeFrame, Bytes
<1>14. /\ f \in [w : Nat \ {0}, h : Nat \ {0}, chars : Seq(Char)]
       /\ Len(f.chars) = (f.w * f.h) % USIZE
  BY <1>8, <1>9, <1>10, <1>11, <1>12
<1> QED  BY <1>13, <1>14 DEF f

-----------------------------------------------------------------------------
(* Commands for the terminal.                                              *)

Command == {Clear} \cup ((1..Columns) \X (1..Rows) \X Char)

LEMMA Sizes == Columns \in Nat \ {0} /\ Rows \in Nat \ {0} /\ Capacity \in Nat \ {0}
  BY TerminalAssumption

\* The commands say nothing of a cell, or the last one of those that concern
\* it says what it shows.
Untouched(commands, c) == \A i \in DOMAIN commands : ~Concerns(commands[i], c)
LastFor(commands, c, i) ==
  /\ i \in DOMAIN commands /\ Concerns(commands[i], c)
  /\ \A j \in DOMAIN commands : j > i => ~Concerns(commands[j], c)

LEMMA WriteUntouched ==
  ASSUME NEW s, NEW commands, NEW c \in Positions, Untouched(commands, c)
  PROVE  WriteAll(s, commands)[c] = s[c]
<1>1. {i \in DOMAIN commands : Concerns(commands[i], c)} = {}
  BY DEF Untouched
<1> QED  BY <1>1 DEF WriteAll

LEMMA LastUnique ==
  ASSUME NEW commands \in Seq(Command), NEW c,
         NEW i, LastFor(commands, c, i)
  PROVE  Max({j \in DOMAIN commands : Concerns(commands[j], c)}) = i
<1> DEFINE writing == {j \in DOMAIN commands : Concerns(commands[j], c)}
<1>1. Len(commands) \in Nat /\ DOMAIN commands = 1..Len(commands)
  OBVIOUS
<1>2. writing \subseteq 0..Len(commands) /\ writing \subseteq Nat /\ i \in writing
  BY <1>1 DEF LastFor
<1>3. \A j \in writing : ~(j > i)
  BY DEF LastFor
<1> HIDE DEF writing
<1>4. Max(writing) \in writing /\ i <= Max(writing)
  BY <1>1, <1>2, MaxIsMaximum
<1>5. i \in Nat /\ Max(writing) \in Nat
  BY <1>1, <1>2, <1>4
<1> QED  BY <1>3, <1>4, <1>5 DEF writing

LEMMA WriteLast ==
  ASSUME NEW s, NEW commands \in Seq(Command), NEW c \in Positions,
         NEW i, LastFor(commands, c, i)
  PROVE  WriteAll(s, commands)[c] = Shown(commands[i])
<1> DEFINE writing == {j \in DOMAIN commands : Concerns(commands[j], c)}
<1>1. writing # {}
  BY DEF LastFor
<1>2. Max(writing) = i
  BY LastUnique
<1> HIDE DEF writing
<1>3. WriteAll(s, commands)[c] =
        IF writing = {} THEN s[c] ELSE Shown(commands[Max(writing)])
  BY DEF WriteAll, writing
<1> QED  BY <1>1, <1>2, <1>3

LEMMA TouchedOrNot ==
  ASSUME NEW commands \in Seq(Command), NEW c
  PROVE  Untouched(commands, c) \/ \E i : LastFor(commands, c, i)
<1> DEFINE writing == {j \in DOMAIN commands : Concerns(commands[j], c)}
<1>1. Len(commands) \in Nat /\ DOMAIN commands = 1..Len(commands)
  OBVIOUS
<1>2. SUFFICES ASSUME writing # {} PROVE \E i : LastFor(commands, c, i)
  BY DEF Untouched
<1>3. writing \subseteq 0..Len(commands)
  BY <1>1
<1>4. Max(writing) \in writing /\ \A j \in writing : j <= Max(writing)
  <2> HIDE DEF writing
  <2> QED  BY <1>1, <1>2, <1>3, MaxIsMaximum
<1> DEFINE m == Max(writing)
<1> HIDE DEF m
<1>5. m \in DOMAIN commands /\ Concerns(commands[m], c) /\ m \in Nat
  BY <1>1, <1>4 DEF m
<1>6. ASSUME NEW j \in DOMAIN commands, j > m PROVE ~Concerns(commands[j], c)
  <2>1. ~(j <= m)
    BY <1>1, <1>5, <1>6
  <2> QED  BY <1>4, <2>1 DEF m
<1>7. LastFor(commands, c, m)
  BY <1>5, <1>6 DEF LastFor
<1> QED  BY <1>7

\* What is written in two writes is written in one.
LEMMA WriteTwice ==
  ASSUME NEW s, NEW a \in Seq(Command), NEW b \in Seq(Command)
  PROVE  /\ a \o b \in Seq(Command)
         /\ WriteAll(WriteAll(s, a), b) = WriteAll(s, a \o b)
<1> DEFINE ab == a \o b
<1>1. /\ ab \in Seq(Command) /\ Len(ab) = Len(a) + Len(b)
      /\ \A i \in 1..Len(a) + Len(b) : ab[i] = IF i <= Len(a) THEN a[i] ELSE b[i - Len(a)]
  BY ConcatProperties
<1>2. /\ Len(a) \in Nat /\ DOMAIN a = 1..Len(a) /\ Len(b) \in Nat /\ DOMAIN b = 1..Len(b)
      /\ DOMAIN ab = 1..(Len(a) + Len(b))
  BY <1>1
<1> HIDE DEF ab
<1>3. /\ \A i \in DOMAIN a : i \in DOMAIN ab /\ ab[i] = a[i]
      /\ \A i \in DOMAIN b : Len(a) + i \in DOMAIN ab /\ ab[Len(a) + i] = b[i]
  <2>1. ASSUME NEW i \in DOMAIN b PROVE Len(a) + i \in DOMAIN ab /\ ab[Len(a) + i] = b[i]
    <3>1. Len(a) + i \in 1..Len(a) + Len(b) /\ ~(Len(a) + i <= Len(a)) /\ Len(a) + i - Len(a) = i
      BY <1>2
    <3> QED  BY <1>1, <1>2, <3>1
  <2> QED  BY <1>1, <1>2, <2>1
<1>4. ASSUME NEW c \in Positions PROVE WriteAll(WriteAll(s, a), b)[c] = WriteAll(s, ab)[c]
  <2>1. CASE \E i : LastFor(b, c, i)
    <3>1. PICK i : LastFor(b, c, i)
      BY <2>1
    <3>2. i \in DOMAIN b /\ Concerns(b[i], c)
      BY <3>1 DEF LastFor
    <3>3. ASSUME NEW j \in DOMAIN ab, j > Len(a) + i PROVE ~Concerns(ab[j], c)
      <4> DEFINE l == j - Len(a)
      <4>1. l \in DOMAIN b /\ l > i /\ ~(j <= Len(a)) /\ j \in 1..Len(a) + Len(b)
        BY <1>2, <3>2, <3>3
      <4>2. ab[j] = b[l]
        BY <1>1, <4>1
      <4> QED  BY <3>1, <4>1, <4>2 DEF LastFor
    <3>4. LastFor(ab, c, Len(a) + i)
      <4>1. Len(a) + i \in DOMAIN ab /\ Concerns(ab[Len(a) + i], c)
        BY <1>3, <3>2
      <4> QED  BY <3>3, <4>1 DEF LastFor
    <3>5. WriteAll(WriteAll(s, a), b)[c] = Shown(b[i])
      BY <3>1, WriteLast
    <3>6. WriteAll(s, ab)[c] = Shown(ab[Len(a) + i])
      BY <1>1, <3>4, WriteLast
    <3> QED  BY <1>3, <3>2, <3>5, <3>6
  <2>2. CASE Untouched(b, c)
    <3>1. WriteAll(WriteAll(s, a), b)[c] = WriteAll(s, a)[c]
      BY <2>2, WriteUntouched
    <3>2. ASSUME NEW j \in DOMAIN ab, j \notin DOMAIN a PROVE ~Concerns(ab[j], c)
      <4> DEFINE l == j - Len(a)
      <4>1. l \in DOMAIN b /\ ~(j <= Len(a)) /\ j \in 1..Len(a) + Len(b)
        BY <1>2, <3>2
      <4>2. ab[j] = b[l]
        BY <1>1, <4>1
      <4> QED  BY <2>2, <4>1, <4>2 DEF Untouched
    <3>3. CASE Untouched(a, c)
      <4>1. Untouched(ab, c)
        BY <1>3, <3>2, <3>3 DEF Untouched
      <4> QED  BY <3>1, <3>3, <4>1, WriteUntouched
    <3>4. CASE \E i : LastFor(a, c, i)
      <4>1. PICK i : LastFor(a, c, i)
        BY <3>4
      <4>2. LastFor(ab, c, i) /\ ab[i] = a[i]
        BY <1>3, <3>2, <4>1 DEF LastFor
      <4>3. WriteAll(s, a)[c] = Shown(a[i])
        BY <4>1, WriteLast
      <4>4. WriteAll(s, ab)[c] = Shown(ab[i])
        BY <1>1, <4>2, WriteLast
      <4> QED  BY <3>1, <4>2, <4>3, <4>4
    <3> QED  BY <3>3, <3>4, TouchedOrNot
  <2> QED  BY <2>1, <2>2, TouchedOrNot
<1>5. \A t, cs : WriteAll(t, cs) = [c \in Positions |-> WriteAll(t, cs)[c]]
  BY DEF WriteAll
<1>6. WriteAll(WriteAll(s, a), b) = WriteAll(s, ab)
  BY <1>4, <1>5
<1> QED  BY <1>1, <1>6 DEF ab

-----------------------------------------------------------------------------
(* Frames on the screen.                                                   *)

\* The screen with a frame in its corner.
Shows(w, h, chars) ==
  [c \in Positions |->
     IF c[1] <= w /\ c[2] <= h THEN chars[(c[2] - 1) * w + c[1]] ELSE Blank]

\* The frames that find room on it.
ScreenFrame == {f \in WireFrame : f.w <= Columns /\ f.h <= Rows}

\* Which cell a character is for, and which character a cell gets.
LEMMA CellOfIndex ==
  ASSUME NEW w \in Nat \ {0}, NEW h \in Nat \ {0}, NEW i \in 1..(w * h)
  PROVE  /\ ((i - 1) % w) + 1 \in 1..w /\ (i - 1) \div w + 1 \in 1..h
         /\ ((i - 1) \div w) * w + ((i - 1) % w) + 1 = i
<1> DEFINE x == (i - 1) % w
           y == (i - 1) \div w
<1>1. w * h \in Nat /\ i \in Nat /\ i <= w * h /\ i - 1 \in Nat
  OBVIOUS
<1>2. x \in Nat /\ x < w /\ y \in Nat /\ i - 1 = w * y + x
  BY <1>1
<1> HIDE DEF x, y
<1>3. y < h
  <2>1. CASE y >= h
    <3>1. y - h \in Nat /\ w * (y - h) \in Nat /\ w * (y - h) = w * y - w * h /\ w * y \in Nat
      BY <1>2, <2>1
    <3> QED  BY <1>1, <1>2, <3>1
  <2> QED  BY <1>2, <2>1
<1>4. y * w = w * y /\ w * y \in Nat
  BY <1>2
<1>5. x + 1 \in 1..w /\ y + 1 \in 1..h /\ y * w + x + 1 = i
  BY <1>1, <1>2, <1>3, <1>4
<1> QED  BY <1>5 DEF x, y

LEMMA Remainder ==
  ASSUME NEW n \in Nat, NEW k \in Nat \ {0}, NEW q \in Nat, NEW r \in Nat,
         n = k * q + r, r < k
  PROVE  n \div k = q /\ n % k = r
<1>1. n \div k = q
  BY Quotient
<1> DEFINE p == n \div k
           t == n % k
<1>2. p \in Nat /\ t \in Nat /\ n = k * p + t
  OBVIOUS
<1>3. p = q
  BY <1>1
<1> HIDE DEF p, t
<1>4. n = k * q + t /\ k * q \in Nat
  BY <1>2, <1>3
<1>5. t = r
  BY <1>2, <1>4
<1> QED  BY <1>3, <1>5 DEF p, t

LEMMA IndexOfCell ==
  ASSUME NEW w \in Nat \ {0}, NEW h \in Nat \ {0}, NEW x \in 1..w, NEW y \in 1..h
  PROVE  LET i == (y - 1) * w + x IN
         /\ i \in 1..(w * h)
         /\ ((i - 1) % w) + 1 = x /\ (i - 1) \div w + 1 = y
<1> DEFINE i == (y - 1) * w + x
<1>1. /\ y - 1 \in Nat /\ x - 1 \in Nat /\ x - 1 < w /\ h - y \in Nat /\ y \in Nat
      /\ (y - 1) * w \in Nat /\ w * (y - 1) = (y - 1) * w
  OBVIOUS
<1>2. w * h = w * (y - 1) + w + w * (h - y) /\ w * (h - y) \in Nat
  BY <1>1
<1>3. i \in 1..(w * h) /\ i - 1 = w * (y - 1) + (x - 1)
  BY <1>1, <1>2
<1>4. (i - 1) \div w = y - 1 /\ (i - 1) % w = x - 1
  <2>1. i - 1 \in Nat
    BY <1>1, <1>3
  <2> HIDE DEF i
  <2> QED  BY <1>1, <1>3, <2>1, Remainder
<1> QED  BY <1>1, <1>3, <1>4

\* A command that puts a character of a frame concerns the cell that is the
\* character's, and no other.
LEMMA PutCellConcerns ==
  ASSUME NEW f \in ScreenFrame, NEW i \in DOMAIN f.chars
  PROVE  /\ PutCell(f, i) \in Command /\ PutCell(f, i) # Clear
         /\ Shown(PutCell(f, i)) = f.chars[i]
         /\ \A c \in Positions : Concerns(PutCell(f, i), c) <=>
              c[1] <= f.w /\ c[2] <= f.h /\ i = (c[2] - 1) * f.w + c[1]
<1> DEFINE w == f.w
           h == f.h
           x == (i - 1) % w
           y == (i - 1) \div w
           ch == f.chars[i]
           p == PutCell(f, i)
<1>1. /\ w \in Nat \ {0} /\ h \in Nat \ {0} /\ w <= Columns /\ h <= Rows
      /\ i \in 1..(w * h) /\ ch \in Char
  BY DEF ScreenFrame, WireFrame
<1>2. p = <<x + 1, y + 1, ch>>
  BY DEF PutCell, Put
<1> HIDE DEF w, h, ch, p
<1>3. x + 1 \in 1..w /\ y + 1 \in 1..h /\ y * w + x + 1 = i
  BY <1>1, CellOfIndex
<1>4. x \in Nat /\ y \in Nat
  BY <1>1
<1>5. \A c \in Positions : c[1] <= w /\ c[2] <= h /\ i = (c[2] - 1) * w + c[1] =>
        x + 1 = c[1] /\ y + 1 = c[2]
  <2> SUFFICES ASSUME NEW c \in Positions, c[1] <= w, c[2] <= h, i = (c[2] - 1) * w + c[1]
               PROVE  x + 1 = c[1] /\ y + 1 = c[2]
    OBVIOUS
  <2> DEFINE a == c[1]
             b == c[2]
             k == (b - 1) * w + a
  <2>1. a \in 1..w /\ b \in 1..h
    BY <1>1, Sizes DEF Positions
  <2> HIDE DEF a, b
  <2>2. k \in 1..(w * h) /\ ((k - 1) % w) + 1 = a /\ (k - 1) \div w + 1 = b
    BY <1>1, <2>1, IndexOfCell
  <2>3. i = k
    BY DEF a, b
  <2> HIDE DEF k
  <2> QED  BY <2>2, <2>3 DEF a, b
<1> HIDE DEF x, y
<1>6. p # Clear /\ p[1] = x + 1 /\ p[2] = y + 1 /\ p[3] = ch
  BY <1>2 DEF Clear
<1>7. p \in (1..Columns) \X (1..Rows) \X Char
  BY <1>1, <1>2, <1>3, <1>4, Sizes
<1>8. ASSUME NEW c \in Positions
      PROVE  Concerns(p, c) <=> c[1] <= w /\ c[2] <= h /\ i = (c[2] - 1) * w + c[1]
  <2>1. c = <<c[1], c[2]>> /\ c[1] \in 1..Columns /\ c[2] \in 1..Rows
    BY DEF Positions
  <2>2. Concerns(p, c) <=> x + 1 = c[1] /\ y + 1 = c[2]
    BY <1>6, <2>1 DEF Concerns
  <2>3. ASSUME x + 1 = c[1], y + 1 = c[2]
        PROVE  c[1] <= w /\ c[2] <= h /\ i = (c[2] - 1) * w + c[1]
    <3>1. c[2] - 1 = y /\ y * w + c[1] = i
      <4>1. y * w \in Nat
        BY <1>1, <1>4
      <4> QED  BY <1>1, <1>3, <1>4, <2>3, <4>1
    <3> QED  BY <1>1, <1>3, <2>3, <3>1
  <2> QED  BY <1>5, <2>2, <2>3
<1>9. Shown(p) = ch
  BY <1>6 DEF Shown
<1> QED  BY <1>6, <1>7, <1>8, <1>9 DEF Command, w, h, ch, p

LEMMA ChangesAreCommands ==
  ASSUME NEW f \in ScreenFrame
  PROVE  /\ Changes(f) \in Seq(Command)
         /\ \A k \in DOMAIN Changes(f) : \E i \in Changed(f) : Changes(f)[k] = PutCell(f, i)
         /\ \A i \in Changed(f) : \E k \in DOMAIN Changes(f) : Changes(f)[k] = PutCell(f, i)
<1> DEFINE F == [i \in Changed(f) |-> PutCell(f, i)]
           N == Len(f.chars)
<1>1. DOMAIN F = Changed(f) /\ \A i \in Changed(f) : F[i] = PutCell(f, i)
  OBVIOUS
<1>2. N \in Nat /\ DOMAIN f.chars = 1..N /\ Changed(f) \subseteq DOMAIN f.chars
  BY DEF ScreenFrame, WireFrame, Changed
<1>3. \A i \in Changed(f) : PutCell(f, i) \in Command
  BY <1>2, PutCellConcerns
<1>4. Changes(f) = Gathered(F, N)[N]
  BY DEF Changes
<1> HIDE DEF F, N
<1>5. Gathered(F, N)[N] \in Seq(Command)
  <2>1. N \in 0..N /\ DOMAIN F \subseteq 1..N /\ \A i \in DOMAIN F : F[i] \in Command
    BY <1>1, <1>2, <1>3
  <2> QED  BY <1>2, <2>1, GatheredType
<1>6. /\ \A i \in DOMAIN F : \E k \in DOMAIN Gathered(F, N)[N] : Gathered(F, N)[N][k] = F[i]
      /\ \A k \in DOMAIN Gathered(F, N)[N] : \E i \in DOMAIN F : Gathered(F, N)[N][k] = F[i]
  BY <1>1, <1>2, GatheredAll
<1> QED  BY <1>1, <1>4, <1>5, <1>6

\* The commands that render prints turn the frame before into the new one.
THEOREM ChangesDraw ==
  ASSUME NEW f \in ScreenFrame
  PROVE  WriteAll(Shows(f.w, f.h, Previous(f)), Changes(f)) = Shows(f.w, f.h, f.chars)
<1> DEFINE before == Shows(f.w, f.h, Previous(f))
           after == Shows(f.w, f.h, f.chars)
           commands == Changes(f)
           At(c) == (c[2] - 1) * f.w + c[1]
           Inside(c) == c[1] <= f.w /\ c[2] <= f.h
<1>1. /\ commands \in Seq(Command)
      /\ \A k \in DOMAIN commands : \E i \in Changed(f) : commands[k] = PutCell(f, i)
      /\ \A i \in Changed(f) : \E k \in DOMAIN commands : commands[k] = PutCell(f, i)
  BY ChangesAreCommands
<1>2. /\ f.w \in Nat \ {0} /\ f.h \in Nat \ {0} /\ DOMAIN f.chars = 1..(f.w * f.h)
      /\ Changed(f) \subseteq DOMAIN f.chars
      /\ \A i \in DOMAIN f.chars : i \notin Changed(f) => f.chars[i] = Previous(f)[i]
  BY DEF ScreenFrame, WireFrame, Changed
<1> HIDE DEF commands
<1>3. ASSUME NEW c \in Positions, Inside(c) PROVE At(c) \in DOMAIN f.chars
  <2> DEFINE a == c[1]
             b == c[2]
             i == (b - 1) * f.w + a
  <2>1. a \in 1..f.w /\ b \in 1..f.h
    BY <1>2, <1>3, Sizes DEF Positions
  <2> HIDE DEF a, b
  <2>2. i \in 1..(f.w * f.h)
    BY <1>2, <2>1, IndexOfCell
  <2> QED  BY <1>2, <2>2 DEF a, b
<1> HIDE DEF At, Inside
<1>4. ASSUME NEW c \in Positions, NEW k \in DOMAIN commands, Concerns(commands[k], c)
      PROVE  /\ Inside(c) /\ At(c) \in Changed(f)
             /\ Shown(commands[k]) = f.chars[At(c)]
  <2>1. PICK i \in Changed(f) : commands[k] = PutCell(f, i)
    BY <1>1
  <2>2. Shown(PutCell(f, i)) = f.chars[i] /\ Inside(c) /\ i = At(c)
    BY <1>2, <1>4, <2>1, PutCellConcerns DEF Inside, At
  <2> QED  BY <2>1, <2>2
<1>5. ASSUME NEW c \in Positions, Inside(c), At(c) \in Changed(f)
      PROVE  \E k \in DOMAIN commands : Concerns(commands[k], c)
  <2>1. PICK k \in DOMAIN commands : commands[k] = PutCell(f, At(c))
    BY <1>1, <1>5
  <2>2. Concerns(PutCell(f, At(c)), c)
    <3>1. At(c) \in DOMAIN f.chars
      BY <1>2, <1>5
    <3> QED  BY <1>5, <3>1, PutCellConcerns DEF Inside, At
  <2> QED  BY <2>1, <2>2
<1>6. ASSUME NEW c \in Positions PROVE WriteAll(before, commands)[c] = after[c]
  <2>1. /\ before[c] = IF Inside(c) THEN Previous(f)[At(c)] ELSE Blank
        /\ after[c] = IF Inside(c) THEN f.chars[At(c)] ELSE Blank
    BY DEF Shows, Inside, At
  <2> HIDE DEF before, after
  <2>2. CASE Untouched(commands, c)
    <3>1. WriteAll(before, commands)[c] = before[c]
      BY <2>2, WriteUntouched
    <3>2. ~(Inside(c) /\ At(c) \in Changed(f))
      BY <1>5, <2>2 DEF Untouched
    <3> QED  BY <1>2, <1>3, <2>1, <3>1, <3>2
  <2>3. CASE \E k : LastFor(commands, c, k)
    <3>1. PICK k : LastFor(commands, c, k)
      BY <2>3
    <3>2. k \in DOMAIN commands /\ Concerns(commands[k], c)
      BY <3>1 DEF LastFor
    <3>3. WriteAll(before, commands)[c] = Shown(commands[k])
      BY <1>1, <3>1, WriteLast
    <3> QED  BY <1>4, <2>1, <3>2, <3>3
  <2> QED  BY <1>1, <2>2, <2>3, TouchedOrNot
<1> HIDE DEF before, after
<1>7. /\ WriteAll(before, commands) = [c \in Positions |-> WriteAll(before, commands)[c]]
      /\ after = [c \in Positions |-> after[c]]
  BY DEF WriteAll, after, Shows
<1>8. WriteAll(before, commands) = after
  BY <1>6, <1>7
<1> QED  BY <1>8 DEF before, after, commands

LEMMA ClearBlanks ==
  ASSUME NEW s
  PROVE  <<Clear>> \in Seq(Command) /\ WriteAll(s, <<Clear>>) = BlankScreen
<1> DEFINE commands == <<Clear>>
<1>1. commands \in Seq(Command) /\ DOMAIN commands = 1..1 /\ commands[1] = Clear
  BY DEF Command
<1> HIDE DEF commands
<1>2. ASSUME NEW c \in Positions PROVE WriteAll(s, commands)[c] = Blank
  <2>1. LastFor(commands, c, 1)
    BY <1>1 DEF LastFor, Concerns
  <2>2. WriteAll(s, commands)[c] = Shown(commands[1])
    BY <1>1, <2>1, WriteLast
  <2> QED  BY <1>1, <2>2 DEF Shown
<1>3. WriteAll(s, commands) = [c \in Positions |-> WriteAll(s, commands)[c]]
  BY DEF WriteAll
<1> QED  BY <1>1, <1>2, <1>3 DEF BlankScreen, commands

-----------------------------------------------------------------------------
(* The renderer.                                                           *)

\* Nothing was drawn, or a frame that fits on the screen.
PreviousOK ==
  \/ prev_frame = <<>> /\ prev_w = 0 /\ prev_h = 0
  \/ [w |-> prev_w, h |-> prev_h, chars |-> prev_frame] \in ScreenFrame

Output ==
  /\ stdout \in Seq(Command) /\ Len(stdout) <= Capacity
  /\ screen \in [Positions -> Char]
  /\ foreign \in BOOLEAN

\* No one else has written since the terminal was cleared, or will be.
Clean == ~(foreign /\ Clear \notin Range(stdout))

Follows == rendering = "runs" /\ Clean =>
             WriteAll(screen, stdout) = Shows(prev_w, prev_h, prev_frame)

\* The inductive invariant: before the screen was cleared for the first time,
\* nothing was printed.
RendererInv ==
  /\ PreviousOK
  /\ Output
  /\ rendering \in {"starts", "runs", "panicked"}
  /\ rendering = "starts" => prev_frame = <<>> /\ prev_w = 0 /\ prev_h = 0 /\ stdout = <<>>
  /\ Follows

LEMMA CharIsNat == Char \subseteq Nat /\ Blank \in Char /\ \A c \in Char : IsChar(c)
  BY PlaceDef DEF Char, IsChar, Blank, NoChar, Plane

LEMMA CommandShows ==
  ASSUME NEW command \in Command
  PROVE  Shown(command) \in Char
  BY CharIsNat DEF Command, Shown, Clear

LEMMA WriteTyped ==
  ASSUME NEW s \in [Positions -> Char], NEW commands \in Seq(Command)
  PROVE  WriteAll(s, commands) \in [Positions -> Char]
<1>1. ASSUME NEW c \in Positions PROVE WriteAll(s, commands)[c] \in Char
  <2>1. CASE Untouched(commands, c)
    BY <2>1, WriteUntouched
  <2>2. CASE \E i : LastFor(commands, c, i)
    <3>1. PICK i : LastFor(commands, c, i)
      BY <2>2
    <3>2. commands[i] \in Command
      BY <3>1 DEF LastFor
    <3> QED  BY <3>1, <3>2, WriteLast, CommandShows
  <2> QED  BY <2>1, <2>2, TouchedOrNot
<1>2. WriteAll(s, commands) = [c \in Positions |-> WriteAll(s, commands)[c]]
  BY DEF WriteAll
<1> QED  BY <1>1, <1>2

LEMMA InvTypeOK == RendererInv => RendererTypeOK
<1> SUFFICES ASSUME RendererInv PROVE RendererTypeOK
  OBVIOUS
<1>1. /\ prev_frame \in Seq(Nat) /\ Len(prev_frame) = prev_w * prev_h
      /\ prev_w \in 0..Columns /\ prev_h \in 0..Rows
  <2>1. CASE prev_frame = <<>> /\ prev_w = 0 /\ prev_h = 0
    BY <2>1, Sizes
  <2>2. CASE [w |-> prev_w, h |-> prev_h, chars |-> prev_frame] \in ScreenFrame
    <3>1. /\ prev_w \in Nat /\ prev_h \in Nat /\ prev_frame \in Seq(Char)
          /\ Len(prev_frame) = prev_w * prev_h /\ prev_w <= Columns /\ prev_h <= Rows
      BY <2>2 DEF ScreenFrame, WireFrame
    <3>2. prev_frame \in Seq(Nat)
      <4>1. Len(prev_frame) \in Nat /\ \A i \in 1..Len(prev_frame) : prev_frame[i] \in Nat
        <5>1. Len(prev_frame) \in Nat /\ \A i \in 1..Len(prev_frame) : prev_frame[i] \in Char
          BY <3>1
        <5>2. Char \subseteq Nat
          BY CharIsNat
        <5> QED  BY <5>1, <5>2
      <4>2. prev_frame = [i \in 1..Len(prev_frame) |-> prev_frame[i]]
        BY <3>1
      <4> QED  BY <4>1, <4>2
    <3> QED  BY <3>1, <3>2, Sizes
  <2> QED  BY <2>1, <2>2 DEF RendererInv, PreviousOK
<1>2. \A i \in DOMAIN stdout :
        stdout[i] = Clear \/ stdout[i] \in (1..Columns) \X (1..Rows) \X Nat
  <2>1. \A i \in DOMAIN stdout : stdout[i] \in Command
    BY DEF RendererInv, Output
  <2>2. Command \subseteq {Clear} \cup ((1..Columns) \X (1..Rows) \X Nat)
    BY CharIsNat DEF Command
  <2> QED  BY <2>1, <2>2
<1>3. DOMAIN screen = Positions /\ \A c \in Positions : IsChar(screen[c])
  BY CharIsNat DEF RendererInv, Output
<1> QED  BY <1>1, <1>2, <1>3 DEF RendererTypeOK, RendererInv, Output

LEMMA InvFollows == RendererInv => ScreenFollows
  BY DEF RendererInv, Follows, Clean, ScreenFollows, Expected, Shows

LEMMA InvInit == RendererInit => RendererInv
<1> SUFFICES ASSUME RendererInit PROVE RendererInv
  OBVIOUS
<1>1. BlankScreen \in [Positions -> Char]
  BY CharIsNat DEF BlankScreen
<1>2. stdout \in Seq(Command) /\ Len(stdout) <= Capacity
  BY Sizes DEF RendererInit
<1>3. rendering = "starts" /\ prev_frame = <<>> /\ prev_w = 0 /\ prev_h = 0
      /\ screen = BlankScreen /\ foreign = TRUE /\ stdout = <<>>
  BY DEF RendererInit
<1> QED  BY <1>1, <1>2, <1>3 DEF RendererInv, PreviousOK, Output, Follows

\* What a flush leaves is written later: screen and buffer together come to
\* the same, and the terminal is as clean.
LEMMA FlushKeeps ==
  ASSUME Output, NEW commands \in Seq(Command), NEW n \in 0..Pending(commands),
         Pending(commands) - n <= Capacity, Flush(commands, n)
  PROVE  /\ Output'
         /\ WriteAll(screen', stdout') = WriteAll(screen, stdout \o commands)
         /\ Clean' <=> ~(foreign /\ Clear \notin Range(stdout \o commands))
<1> DEFINE all == stdout \o commands
           written == SubSeq(all, 1, n)
           left == SubSeq(all, n + 1, Len(all))
<1>1. /\ all \in Seq(Command) /\ Len(all) = Pending(commands) /\ Len(all) \in Nat
      /\ n \in 0..Len(all)
  <2>1. all \in Seq(Command) /\ Len(all) = Len(stdout) + Len(commands)
    BY ConcatProperties DEF Output
  <2> QED  BY <2>1, LenProperties DEF Pending
<1>2. stdout' = left /\ screen' = WriteAll(screen, written)
      /\ foreign' = (foreign /\ Clear \notin Range(written))
  BY DEF Flush
<1> HIDE DEF all
<1>3. written \in Seq(Command)
  BY <1>1, Prefix
<1>4. left \in Seq(Command) /\ Len(left) = Len(all) - n
  <2>1. \A i \in (n + 1)..Len(all) : all[i] \in Command
    BY <1>1
  <2>2. n + 1 \in Int /\ Len(all) \in Int
    BY <1>1
  <2>3. /\ left \in Seq(Command)
        /\ Len(left) = IF n + 1 <= Len(all) THEN Len(all) - (n + 1) + 1 ELSE 0
    BY <2>1, <2>2, SubSeqProperties
  <2> QED  BY <1>1, <2>3
<1>5. written \o left = all
  <2>1. CASE n = 0
    <3>1. written = <<>> /\ left = SubSeq(all, 1, Len(all))
      BY <2>1, SubSeqEmpty
    <3>2. left = all
      BY <1>1, <3>1, SubSeqFull
    <3> QED  BY <1>1, <3>1, <3>2, ConcatEmptySeq
  <2>2. CASE n # 0
    <3>1. /\ 1 \in 1..(Len(all) + 1) /\ n \in (1 - 1)..Len(all) /\ Len(all) \in n..Len(all)
      BY <1>1
    <3>2. SubSeq(all, 1, n) \o SubSeq(all, n + 1, Len(all)) = SubSeq(all, 1, Len(all))
      BY <1>1, <3>1, ConcatAdjacentSubSeq
    <3> QED  BY <1>1, <3>2, SubSeqFull
  <2> QED  BY <2>1, <2>2
<1> HIDE DEF written, left
<1>6. WriteAll(screen', stdout') = WriteAll(screen, all)
  <2>1. WriteAll(WriteAll(screen, written), left) = WriteAll(screen, written \o left)
    BY <1>3, <1>4, WriteTwice
  <2> QED  BY <1>2, <1>5, <2>1
<1>7. Range(all) = Range(written) \cup Range(left)
  BY <1>3, <1>4, <1>5, RangeConcatenation
<1>8. foreign' \in BOOLEAN
  BY <1>2
<1>9. Clean' <=> ~(foreign /\ Clear \notin Range(all))
  BY <1>2, <1>7, Zenon DEF Clean
<1>10. screen' \in [Positions -> Char]
  BY <1>2, <1>3, WriteTyped DEF Output
<1>11. Len(stdout') <= Capacity
  BY <1>1, <1>2, <1>4
<1> QED  BY <1>2, <1>4, <1>6, <1>8, <1>9, <1>10, <1>11 DEF Output, all

LEMMA BlankFrame ==
  ASSUME NEW f \in ScreenFrame
  PROVE  /\ NewFrame(f.w, f.h, Blank) \in ScreenFrame
         /\ Shows(f.w, f.h, NewFrame(f.w, f.h, Blank).chars) = BlankScreen
<1> DEFINE w == f.w
           h == f.h
           chars == [i \in 1..(w * h) |-> Blank]
<1>1. /\ w \in Nat \ {0} /\ h \in Nat \ {0} /\ w * h < USIZE /\ w <= Columns /\ h <= Rows
  BY DEF ScreenFrame, WireFrame
<1>2. NewFrame(f.w, f.h, Blank) = [w |-> w, h |-> h, chars |-> chars]
  BY DEF NewFrame
<1> HIDE DEF w, h
<1>3. w * h \in Nat
  BY <1>1
<1>4. chars \in Seq(Char) /\ Len(chars) = w * h
  BY <1>3, CharIsNat
<1>5. ASSUME NEW c \in Positions, c[1] <= w, c[2] <= h
      PROVE  chars[(c[2] - 1) * w + c[1]] = Blank
  <2> DEFINE a == c[1]
             b == c[2]
             i == (b - 1) * w + a
  <2>1. a \in 1..w /\ b \in 1..h
    BY <1>1, <1>5, Sizes DEF Positions
  <2> HIDE DEF a, b
  <2>2. i \in 1..(w * h)
    BY <1>1, <2>1, IndexOfCell
  <2> HIDE DEF i
  <2>3. chars[i] = Blank
    BY <2>2
  <2> QED  BY <2>3 DEF a, b, i
<1> HIDE DEF chars
<1>6. Shows(w, h, chars) = BlankScreen
  BY <1>5 DEF Shows, BlankScreen
<1> QED  BY <1>1, <1>2, <1>4, <1>6 DEF ScreenFrame, WireFrame, w, h

\* What the terminal shows when all that was printed is written: the frame.
LEMMA DrawsFrame ==
  ASSUME RendererInv, rendering = "runs", NEW f \in ScreenFrame,
         ~(foreign /\ Clear \notin Range(stdout \o (Clearing(f) \o Changes(f))))
  PROVE  WriteAll(screen, stdout \o (Clearing(f) \o Changes(f))) = Shows(f.w, f.h, f.chars)
<1> DEFINE changes == Changes(f)
<1>1. /\ changes \in Seq(Command) /\ stdout \in Seq(Command)
      /\ <<Clear>> \in Seq(Command)
  BY ChangesAreCommands, ClearBlanks DEF RendererInv, Output
<1>2. WriteAll(Shows(f.w, f.h, Previous(f)), changes) = Shows(f.w, f.h, f.chars)
  BY ChangesDraw
<1>3. Clear \notin Range(changes)
  <2>1. ASSUME NEW k \in DOMAIN changes PROVE changes[k] # Clear
    <3>1. PICK i \in Changed(f) : changes[k] = PutCell(f, i)
      BY ChangesAreCommands
    <3>2. i \in DOMAIN f.chars
      BY DEF Changed
    <3> QED  BY <3>1, <3>2, PutCellConcerns
  <2> QED  BY <2>1 DEF Range
<1> HIDE DEF changes
<1>4. CASE Resized(f)
  <2>1. Clearing(f) = <<Clear>> /\ Previous(f) = NewFrame(f.w, f.h, Blank).chars
    BY <1>4 DEF Clearing, Previous
  <2> DEFINE clear == <<Clear>>
  <2>2. clear \in Seq(Command)
    BY <1>1
  <2>3. WriteAll(WriteAll(screen, stdout), clear) = BlankScreen
    BY ClearBlanks
  <2> HIDE DEF clear
  <2>4. stdout \o (clear \o changes) = (stdout \o clear) \o changes
    BY <1>1, <2>2, ConcatAssociative
  <2>5. WriteAll(screen, (stdout \o clear) \o changes) = WriteAll(BlankScreen, changes)
    <3>1. stdout \o clear \in Seq(Command)
      BY <1>1, <2>2, ConcatProperties
    <3>2. WriteAll(WriteAll(screen, stdout), clear) = WriteAll(screen, stdout \o clear)
      BY <1>1, <2>2, WriteTwice
    <3> DEFINE printed == stdout \o clear
    <3> HIDE DEF printed
    <3>3. printed \in Seq(Command)
      BY <3>1 DEF printed
    <3>4. WriteAll(WriteAll(screen, printed), changes) = WriteAll(screen, printed \o changes)
      BY <1>1, <3>3, WriteTwice
    <3> QED  BY <2>3, <3>2, <3>4 DEF printed
  <2>6. Shows(f.w, f.h, Previous(f)) = BlankScreen
    BY <2>1, BlankFrame
  <2> QED  BY <1>2, <2>1, <2>4, <2>5, <2>6 DEF changes, clear
<1>5. CASE ~Resized(f)
  <2>1. Clearing(f) = <<>> /\ Previous(f) = prev_frame /\ f.w = prev_w /\ f.h = prev_h
    BY <1>5 DEF Clearing, Previous, Resized
  <2>2. <<>> \o changes = changes
    BY <1>1, ConcatEmptySeq
  <2>3. Range(stdout \o changes) = Range(stdout) \cup Range(changes)
    BY <1>1, RangeConcatenation
  <2>4. ~(foreign /\ Clear \notin Range(stdout \o changes))
    BY <2>1, <2>2 DEF changes
  <2>5. Clean
    BY <1>3, <2>3, <2>4, Zenon DEF Clean
  <2>6. WriteAll(screen, stdout) = Shows(f.w, f.h, Previous(f))
    BY <2>1, <2>5 DEF RendererInv, Follows
  <2>7. WriteAll(WriteAll(screen, stdout), changes) = WriteAll(screen, stdout \o changes)
    BY <1>1, WriteTwice
  <2> QED  BY <1>2, <2>1, <2>2, <2>6, <2>7 DEF changes
<1> QED  BY <1>4, <1>5

\* print! and the flush behind it keep the output well-formed; unless the task
\* has panicked, what is on the screen and in the buffer comes to all that was
\* printed.
LEMMA PrintOkKeeps ==
  ASSUME Output, NEW commands \in Seq(Command), PrintOk(commands)
  PROVE  /\ Output'
         /\ WriteAll(screen', stdout') = WriteAll(screen, stdout \o commands)
         /\ Clean' <=> ~(foreign /\ Clear \notin Range(stdout \o commands))
<1>1. /\ Pending(commands) \in Nat /\ Pending(commands) \in 0..Pending(commands)
      /\ Pending(commands) - Pending(commands) <= Capacity
  BY LenProperties, Sizes DEF Pending, Output
<1>2. Flush(commands, Pending(commands))
  BY DEF PrintOk
<1> QED  BY <1>1, <1>2, FlushKeeps

LEMMA PrintErrKeeps ==
  ASSUME Output, NEW commands \in Seq(Command), NEW sure \in Nat, PrintErr(commands, sure)
  PROVE  /\ Output'
         /\ WriteAll(screen', stdout') = WriteAll(screen, stdout \o commands)
         /\ Clean' <=> ~(foreign /\ Clear \notin Range(stdout \o commands))
<1>1. PICK n \in sure..(Pending(commands) - 1) :
        Pending(commands) - n <= Capacity /\ Flush(commands, n)
  BY DEF PrintErr
<1>2. n \in 0..Pending(commands)
  BY LenProperties DEF Pending, Output
<1> QED  BY <1>1, <1>2, FlushKeeps

LEMMA PrintPanicsKeeps ==
  ASSUME Output, NEW commands \in Seq(Command), PrintPanics(commands)
  PROVE  Output' /\ rendering' = "panicked"
<1>1. PICK k \in 0..(Len(commands) - 1) : \E n \in 0..(Len(stdout) + k - 1) :
        /\ Len(stdout) + k - n <= Capacity
        /\ Flush(SubSeq(commands, 1, k), n)
  BY DEF PrintPanics
<1>2. PICK n \in 0..(Len(stdout) + k - 1) :
        /\ Len(stdout) + k - n <= Capacity
        /\ Flush(SubSeq(commands, 1, k), n)
  BY <1>1
<1> DEFINE some == SubSeq(commands, 1, k)
<1>3. Len(stdout) \in Nat /\ Len(commands) \in Nat /\ k \in 0..Len(commands) /\ k \in Nat
  BY LenProperties DEF Output
<1>4. some \in Seq(Command) /\ Len(some) = k
  BY <1>3, Prefix
<1> HIDE DEF some
<1>5. Pending(some) = Len(stdout) + k
  BY <1>4 DEF Pending
<1>6. n \in 0..Pending(some) /\ Pending(some) - n <= Capacity
  BY <1>2, <1>3, <1>5
<1>7. Flush(some, n)
  BY <1>2 DEF some
<1>8. Output'
  BY <1>4, <1>6, <1>7, FlushKeeps
<1> QED  BY <1>8 DEF PrintPanics

\* The frame in prev_frame after render: the one it was given, or an empty one
\* of its size.
Drawn(f) ==
  /\ prev_w = f.w /\ prev_h = f.h
  /\ prev_frame \in {f.chars, NewFrame(f.w, f.h, Blank).chars}

LEMMA RenderKeeps ==
  ASSUME RendererInv, NEW f \in ScreenFrame, Render(f)
  PROVE  RendererInv' /\ Drawn(f)'
<1> DEFINE commands == Clearing(f) \o Changes(f)
           empty == NewFrame(f.w, f.h, Blank)
<1>1. /\ rendering = "runs" /\ prev_w' = f.w /\ prev_h' = f.h
      /\ RenderNotCleared(f) \/ RenderChanges(f)
  BY DEF Render
<1>2. Output
  BY DEF RendererInv
<1>3. /\ f.w \in Nat \ {0} /\ f.h \in Nat \ {0} /\ empty \in ScreenFrame
      /\ empty = [w |-> f.w, h |-> f.h, chars |-> empty.chars]
      /\ f = [w |-> f.w, h |-> f.h, chars |-> f.chars]
      /\ Shows(f.w, f.h, empty.chars) = BlankScreen
  BY BlankFrame DEF ScreenFrame, WireFrame, NewFrame
<1> HIDE DEF empty
<1>4. CASE RenderNotCleared(f)
  <2>1. PrintErr(<<Clear>>, 0) /\ prev_frame' = empty.chars /\ rendering' = rendering
    BY <1>4 DEF RenderNotCleared, empty
  <2> DEFINE clear == <<Clear>>
  <2>2. clear \in Seq(Command) /\ WriteAll(WriteAll(screen, stdout), clear) = BlankScreen
        /\ PrintErr(clear, 0)
    BY <2>1, ClearBlanks
  <2> HIDE DEF clear
  <2>3. Output' /\ WriteAll(screen', stdout') = WriteAll(screen, stdout \o clear)
    BY <1>2, <2>2, PrintErrKeeps
  <2>4. WriteAll(WriteAll(screen, stdout), clear) = WriteAll(screen, stdout \o clear)
    BY <1>2, <2>2, WriteTwice DEF Output
  <2>5. PreviousOK'
    BY <1>1, <1>3, <2>1 DEF PreviousOK
  <2>6. Follows'
    BY <1>1, <1>3, <2>1, <2>2, <2>3, <2>4 DEF Follows
  <2>7. Drawn(f)'
    BY <1>1, <2>1 DEF Drawn, empty
  <2> QED  BY <1>1, <2>1, <2>3, <2>5, <2>6, <2>7 DEF RendererInv
<1>5. CASE RenderChanges(f)
  <2>1. commands \in Seq(Command)
    <3>1. Clearing(f) \in Seq(Command)
      BY ClearBlanks DEF Clearing
    <3> QED  BY <3>1, ChangesAreCommands, ConcatProperties
  <2>2. prev_frame' = f.chars
    BY <1>5 DEF RenderChanges
  <2>3. PreviousOK' /\ Drawn(f)'
    BY <1>1, <1>3, <2>2 DEF PreviousOK, Drawn
  <2>4. ASSUME ~(foreign /\ Clear \notin Range(stdout \o commands))
        PROVE  WriteAll(screen, stdout \o commands) = Shows(f.w, f.h, f.chars)
    BY <1>1, <2>4, DrawsFrame
  <2>5. ASSUME /\ Output'
               /\ WriteAll(screen', stdout') = WriteAll(screen, stdout \o commands)
               /\ Clean' <=> ~(foreign /\ Clear \notin Range(stdout \o commands)),
               rendering' = rendering
        PROVE  RendererInv'
    <3>1. Follows'
      BY <1>1, <2>2, <2>4, <2>5 DEF Follows
    <3> QED  BY <1>1, <2>3, <2>5, <3>1 DEF RendererInv
  <2> DEFINE cleared == IF Resized(f) THEN Len(stdout) + Len(Clearing(f)) ELSE 0
  <2>6. cleared \in Nat
    <3>1. Len(<<Clear>>) = 1 /\ Len(stdout) \in Nat
      BY <1>2, LenProperties DEF Output
    <3> QED  BY <3>1 DEF Clearing
  <2>7. \/ PrintOk(commands) /\ rendering' = rendering
        \/ PrintErr(commands, cleared) /\ rendering' = rendering
        \/ PrintPanics(commands)
    BY <1>5 DEF RenderChanges
  <2> HIDE DEF commands, cleared
  <2>8. CASE PrintOk(commands) /\ rendering' = rendering
    BY <1>2, <2>1, <2>3, <2>5, <2>8, PrintOkKeeps
  <2>9. CASE PrintErr(commands, cleared) /\ rendering' = rendering
    BY <1>2, <2>1, <2>3, <2>5, <2>6, <2>9, PrintErrKeeps
  <2>10. CASE PrintPanics(commands)
    <3>1. Output' /\ rendering' = "panicked"
      BY <1>2, <2>1, <2>10, PrintPanicsKeeps
    <3> QED  BY <2>3, <3>1 DEF RendererInv, Follows
  <2> QED  BY <2>7, <2>8, <2>9, <2>10
<1> QED  BY <1>1, <1>4, <1>5

LEMMA StartKeeps ==
  ASSUME RendererInv, Start
  PROVE  RendererInv' /\ UNCHANGED <<prev_frame, prev_w, prev_h>>
<1> DEFINE clear == <<Clear>>
<1>1. /\ rendering = "starts" /\ UNCHANGED <<prev_frame, prev_w, prev_h>>
      /\ \/ PrintOk(clear) /\ rendering' = "runs"
         \/ PrintErr(clear, 0) /\ rendering' = "panicked"
  BY DEF Start
<1>2. /\ Output /\ PreviousOK /\ prev_frame = <<>> /\ prev_w = 0 /\ prev_h = 0 /\ stdout = <<>>
  BY <1>1 DEF RendererInv
<1>3. clear \in Seq(Command) /\ WriteAll(WriteAll(screen, stdout), clear) = BlankScreen
  BY ClearBlanks
<1> HIDE DEF clear
<1>4. WriteAll(WriteAll(screen, stdout), clear) = WriteAll(screen, stdout \o clear)
  BY <1>3, WriteTwice DEF RendererInv, Output
<1>5. PreviousOK'
  BY <1>1, <1>2 DEF PreviousOK
<1>6. Shows(0, 0, <<>>) = BlankScreen
  BY Sizes DEF Shows, BlankScreen, Positions
<1>7. CASE PrintOk(clear) /\ rendering' = "runs"
  <2>1. Output' /\ WriteAll(screen', stdout') = BlankScreen
    BY <1>2, <1>3, <1>4, <1>7, PrintOkKeeps
  <2>2. Follows'
    BY <1>1, <1>2, <1>6, <2>1 DEF Follows
  <2> QED  BY <1>1, <1>5, <1>7, <2>1, <2>2 DEF RendererInv
<1>8. CASE PrintErr(clear, 0) /\ rendering' = "panicked"
  <2>1. Output'
    BY <1>2, <1>3, <1>8, PrintErrKeeps
  <2> QED  BY <1>1, <1>5, <1>8, <2>1 DEF RendererInv, Follows
<1> QED  BY <1>1, <1>7, <1>8

LEMMA ForeignKeeps ==
  ASSUME RendererInv, Foreign
  PROVE  RendererInv' /\ UNCHANGED <<prev_frame, prev_w, prev_h>>
<1>1. foreign' = TRUE /\ UNCHANGED <<prev_frame, prev_w, prev_h, stdout, screen, rendering>>
  BY DEF Foreign
<1>2. Output'
  BY <1>1 DEF RendererInv, Output
<1>3. Clean' => Clean
  BY <1>1 DEF Clean
<1>4. Follows'
  BY <1>1, <1>3 DEF RendererInv, Follows
<1> QED  BY <1>1, <1>2, <1>4 DEF RendererInv, PreviousOK

LEMMA StutterKeeps ==
  ASSUME RendererInv, UNCHANGED renderer
  PROVE  RendererInv'
  BY DEF RendererInv, renderer, PreviousOK, Output, Follows, Clean

==============================================================================
