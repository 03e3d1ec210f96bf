-------------------------- MODULE SeleccionProofs -------------------------
(***************************************************************************)
(* What Escoge promises for every sequence and every set, and the          *)
(* induction over the natural numbers it takes.                            *)
(***************************************************************************)
EXTENDS Seleccion, SequenceTheorems, WellFoundedInduction, TLAPS

\* A non-empty set of numbers has a least one.
LEMMA Minimo ==
  ASSUME NEW I, I \subseteq Nat, I # {}
  PROVE  \E x \in I : \A y \in I : x <= y
<1> DEFINE Menor == OpToRel(<, Nat)
<1>1. \A x, y \in Nat : ~(<<y, x>> \in Menor) => x <= y
  BY DEF OpToRel
<1>2. IsWellFoundedOn(Menor, Nat)
  BY NatLessThanWellFounded
<1> HIDE DEF Menor
<1>3. PICK x \in I : \A y \in I : ~(<<y, x>> \in Menor)
  BY <1>2, WFMin
<1> QED BY <1>1, <1>3

\* Induction, with the set of the numbers that satisfy the formula.
LEMMA Induccion ==
  ASSUME NEW I, 0 \in I, \A n \in Nat : n \in I => n + 1 \in I
  PROVE  Nat \subseteq I
<1> SUFFICES ASSUME Nat \ I # {} PROVE FALSE
  OBVIOUS
<1>1. PICK x \in Nat \ I : \A y \in Nat \ I : x <= y
  <2> DEFINE J == Nat \ I
  <2>1. J \subseteq Nat /\ J # {}
    OBVIOUS
  <2> HIDE DEF J
  <2>2. \E x \in J : \A y \in J : x <= y
    BY <2>1, Minimo
  <2> QED BY <2>2 DEF J
<1>2. x - 1 \in Nat /\ x - 1 \in I
  BY <1>1
<1>3. (x - 1) + 1 \in I
  BY <1>2
<1>4. (x - 1) + 1 = x
  BY <1>1
<1> QED BY <1>1, <1>3, <1>4
----------------------------------------------------------------------------
\* What the loop has kept after n elements.
UnPaso(s, S, v, n) == IF s[n] \in S THEN Append(v, s[n]) ELSE v
EsMarcha(s, S, g, n) ==
  /\ g[0] = << >>
  /\ \A m \in 1 .. n : g[m] = UnPaso(s, S, g[m - 1], m)

LEMMA HayMarcha ==
  ASSUME NEW T, NEW S, NEW s \in Seq(T), NEW k \in 0 .. Len(s)
  PROVE  \E g \in [0 .. k -> Seq(T)] : EsMarcha(s, S, g, k)
<1> DEFINE I == {n \in Nat : n <= Len(s) =>
                   \E g \in [0 .. n -> Seq(T)] : EsMarcha(s, S, g, n)}
<1>1. 0 \in I
  <2> DEFINE g == [n \in 0 .. 0 |-> << >>]
  <2>1. g \in [0 .. 0 -> Seq(T)] /\ EsMarcha(s, S, g, 0)
    BY DEF EsMarcha
  <2> QED BY <2>1
<1>2. ASSUME NEW n \in Nat, n \in I PROVE n + 1 \in I
  <2> SUFFICES ASSUME n + 1 <= Len(s)
               PROVE  \E g \in [0 .. n + 1 -> Seq(T)] : EsMarcha(s, S, g, n + 1)
    OBVIOUS
  <2>1. PICK g \in [0 .. n -> Seq(T)] : EsMarcha(s, S, g, n)
    BY <1>2
  <2> DEFINE v == UnPaso(s, S, g[n], n + 1)
             h == [m \in 0 .. n + 1 |-> IF m <= n THEN g[m] ELSE v]
  <2>2. v \in Seq(T)
    <3>1. s[n + 1] \in T /\ g[n] \in Seq(T)
      OBVIOUS
    <3>2. Append(g[n], s[n + 1]) \in Seq(T)
      BY <3>1
    <3> QED BY <3>1, <3>2 DEF UnPaso
  <2> HIDE DEF v
  <2>3. h \in [0 .. n + 1 -> Seq(T)]
    BY <2>2
  <2>4. \A m \in 0 .. n : h[m] = g[m]
    OBVIOUS
  <2>5. h[n + 1] = UnPaso(s, S, h[n], n + 1)
    BY DEF v
  <2>6. ASSUME NEW m \in 1 .. n + 1 PROVE h[m] = UnPaso(s, S, h[m - 1], m)
    <3>1. CASE m = n + 1
      <4>1. m - 1 = n
        BY <3>1
      <4> QED BY <2>5, <3>1, <4>1
    <3>2. CASE m \in 1 .. n
      <4>1. h[m] = g[m] /\ h[m - 1] = g[m - 1]
        BY <2>4, <3>2
      <4> QED BY <2>1, <3>2, <4>1 DEF EsMarcha
    <3> QED BY <3>1, <3>2
  <2>7. h[0] = << >>
    BY <2>1, <2>4 DEF EsMarcha
  <2> HIDE DEF h
  <2> QED BY <2>3, <2>6, <2>7 DEF EsMarcha
<1> HIDE DEF I
<1>3. k \in I
  BY <1>1, <1>2, Induccion
<1> QED BY <1>3 DEF I

\* There is only one such walk.
LEMMA MarchaUnica ==
  ASSUME NEW s, NEW S, NEW g, NEW h, NEW k \in Nat,
         EsMarcha(s, S, g, k), EsMarcha(s, S, h, k)
  PROVE  g[k] = h[k]
<1> DEFINE I == {n \in Nat : n <= k => g[n] = h[n]}
<1>1. 0 \in I
  BY DEF EsMarcha
<1>2. ASSUME NEW n \in Nat, n \in I PROVE n + 1 \in I
  <2> SUFFICES ASSUME n + 1 <= k PROVE g[n + 1] = h[n + 1]
    OBVIOUS
  <2>1. n + 1 \in 1 .. k /\ (n + 1) - 1 = n /\ g[n] = h[n]
    BY <1>2
  <2>2. /\ g[n + 1] = UnPaso(s, S, g[(n + 1) - 1], n + 1)
        /\ h[n + 1] = UnPaso(s, S, h[(n + 1) - 1], n + 1)
    BY <2>1 DEF EsMarcha
  <2> QED BY <2>1, <2>2
<1> HIDE DEF I
<1>3. k \in I
  BY <1>1, <1>2, Induccion
<1> QED BY <1>3 DEF I

\* Escoge is what the walk has kept at the end.
LEMMA EscogeMarcha ==
  ASSUME NEW T, NEW S, NEW s \in Seq(T)
  PROVE  \E g \in [0 .. Len(s) -> Seq(T)] :
           EsMarcha(s, S, g, Len(s)) /\ Escoge(s, S) = g[Len(s)]
<1> DEFINE R(F) == [n \in 0 .. Len(s) |->
                      IF n = 0 THEN << >>
                      ELSE IF s[n] \in S THEN Append(F[n - 1], s[n]) ELSE F[n - 1]]
           C == CHOOSE F : F = R(F)
<1>1. PICK g \in [0 .. Len(s) -> Seq(T)] : EsMarcha(s, S, g, Len(s))
  <2>1. Len(s) \in 0 .. Len(s)
    OBVIOUS
  <2> QED BY <2>1, HayMarcha
<1>2. g = R(g)
  <2>1. ASSUME NEW n \in 0 .. Len(s) PROVE g[n] = R(g)[n]
    <3>1. CASE n = 0
      BY <1>1, <3>1 DEF EsMarcha
    <3>2. CASE n # 0
      <4>1. n \in 1 .. Len(s)
        BY <3>2
      <4>2. g[n] = UnPaso(s, S, g[n - 1], n)
        BY <1>1, <4>1 DEF EsMarcha
      <4> QED BY <3>2, <4>2 DEF UnPaso
    <3> QED BY <3>1, <3>2
  <2>2. DOMAIN R(g) = 0 .. Len(s)
    OBVIOUS
  <2>3. R(g) = [n \in 0 .. Len(s) |-> R(g)[n]]
    OBVIOUS
  <2> HIDE DEF R
  <2> QED BY <2>1, <2>2, <2>3
<1>3. C = R(C)
  <2> HIDE DEF R
  <2> QED BY <1>2
<1>4. EsMarcha(s, S, C, Len(s))
  <2>1. 0 \in 0 .. Len(s) /\ \A m \in 1 .. Len(s) : m \in 0 .. Len(s) /\ m # 0
    OBVIOUS
  <2>2. R(C)[0] = << >>
    BY <2>1
  <2>3. ASSUME NEW m \in 1 .. Len(s) PROVE R(C)[m] = UnPaso(s, S, C[m - 1], m)
    <3> HIDE DEF C
    <3> QED BY DEF UnPaso
  <2> HIDE DEF C, R
  <2> QED BY <1>3, <2>2, <2>3 DEF EsMarcha
<1>5. Escoge(s, S) = C[Len(s)]
  BY Zenon DEF Escoge
<1>6. C[Len(s)] = g[Len(s)]
  <2> HIDE DEF C
  <2> QED BY <1>1, <1>4, MarchaUnica
<1> QED BY <1>1, <1>5, <1>6
----------------------------------------------------------------------------
\* What is used of it elsewhere: its equations.
LEMMA EscogeTipo ==
  ASSUME NEW T, NEW S, NEW s \in Seq(T)
  PROVE  Escoge(s, S) \in Seq(T)
BY EscogeMarcha

LEMMA EscogeVacia == ASSUME NEW S PROVE Escoge(<< >>, S) = << >>
<1>1. << >> \in Seq({}) /\ Len(<< >>) = 0
  OBVIOUS
<1>2. \A e \in Seq({}) : \E g : EsMarcha(e, S, g, Len(e)) /\ Escoge(e, S) = g[Len(e)]
  BY EscogeMarcha
<1>3. \A e \in Seq({}) : Len(e) = 0 => Escoge(e, S) = << >>
  BY <1>2 DEF EsMarcha
<1> QED BY <1>1, <1>3

LEMMA EscogeMas ==
  ASSUME NEW T, NEW S, NEW s \in Seq(T), NEW x \in T
  PROVE  Escoge(Append(s, x), S)
           = IF x \in S THEN Append(Escoge(s, S), x) ELSE Escoge(s, S)
<1> DEFINE t == Append(s, x)
<1>1. /\ t \in Seq(T) /\ Len(t) = Len(s) + 1 /\ t[Len(s) + 1] = x
      /\ Len(s) \in Nat /\ \A m \in 1 .. Len(s) : t[m] = s[m]
  OBVIOUS
<1> HIDE DEF t
<1>2. PICK g : EsMarcha(t, S, g, Len(t)) /\ Escoge(t, S) = g[Len(t)]
  BY <1>1, EscogeMarcha
<1>3. PICK h : EsMarcha(s, S, h, Len(s)) /\ Escoge(s, S) = h[Len(s)]
  BY EscogeMarcha
<1>4. EsMarcha(s, S, g, Len(s))
  <2>1. ASSUME NEW m \in 1 .. Len(s) PROVE g[m] = UnPaso(s, S, g[m - 1], m)
    <3>1. m \in 1 .. Len(t) /\ t[m] = s[m]
      BY <1>1
    <3>2. g[m] = UnPaso(t, S, g[m - 1], m)
      BY <1>2, <3>1 DEF EsMarcha
    <3> QED BY <3>1, <3>2 DEF UnPaso
  <2> QED BY <1>2, <2>1 DEF EsMarcha
<1>5. g[Len(s)] = h[Len(s)]
  BY <1>1, <1>3, <1>4, MarchaUnica
<1>6. g[Len(t)] = UnPaso(t, S, g[Len(s)], Len(t))
  <2>1. Len(t) \in 1 .. Len(t) /\ Len(t) - 1 = Len(s)
    BY <1>1
  <2>2. g[Len(t)] = UnPaso(t, S, g[Len(t) - 1], Len(t))
    BY <1>2, <2>1 DEF EsMarcha
  <2> QED BY <2>1, <2>2
<1>7. t[Len(t)] = x
  BY <1>1
<1>8. Escoge(t, S) = IF x \in S THEN Append(Escoge(s, S), x) ELSE Escoge(s, S)
  BY <1>2, <1>3, <1>5, <1>6, <1>7, Zenon DEF UnPaso
<1> QED BY <1>8 DEF t

\* Induction on the length of a sequence.
LEMMA InduccionSec ==
  ASSUME NEW T, NEW I, << >> \in I,
         \A s \in Seq(T), x \in T : s \in I => Append(s, x) \in I
  PROVE  Seq(T) \subseteq I
<1> DEFINE J == {n \in Nat : \A s \in Seq(T) : Len(s) = n => s \in I}
<1>1. 0 \in J
  OBVIOUS
<1>2. ASSUME NEW n \in Nat, n \in J PROVE n + 1 \in J
  <2> SUFFICES ASSUME NEW s \in Seq(T), Len(s) = n + 1 PROVE s \in I
    OBVIOUS
  <2>1. PICK r \in Seq(T), x \in T : s = Append(r, x)
    BY SequenceEmptyOrAppend
  <2>2. Len(r) = n
    BY <2>1
  <2> QED BY <1>2, <2>1, <2>2
<1> HIDE DEF J
<1>3. Nat \subseteq J
  BY <1>1, <1>2, Induccion
<1> QED BY <1>3 DEF J

LEMMA EscogeConcat ==
  ASSUME NEW T, NEW S, NEW s \in Seq(T), NEW t \in Seq(T)
  PROVE  Escoge(s \o t, S) = Escoge(s, S) \o Escoge(t, S)
<1> DEFINE I == {u \in Seq(T) : Escoge(s \o u, S) = Escoge(s, S) \o Escoge(u, S)}
<1>1. << >> \in I
  <2>1. s \o << >> = s /\ Escoge(s, S) \o << >> = Escoge(s, S)
    BY EscogeTipo, ConcatEmptySeq
  <2>2. Escoge(s \o << >>, S) = Escoge(s, S) \o Escoge(<< >>, S)
    BY <2>1, EscogeVacia, Zenon
  <2> QED BY <2>2
<1>2. ASSUME NEW u \in Seq(T), NEW x \in T, u \in I PROVE Append(u, x) \in I
  <2>1. s \o Append(u, x) = Append(s \o u, x) /\ s \o u \in Seq(T) /\ Append(u, x) \in Seq(T)
    OBVIOUS
  <2>2. Escoge(s \o u, S) = Escoge(s, S) \o Escoge(u, S)
    BY <1>2
  <2> DEFINE a == Escoge(s, S)
             b == Escoge(u, S)
  <2>3. a \in Seq(T) /\ b \in Seq(T)
    BY EscogeTipo
  <2>4. Escoge(Append(s \o u, x), S) = IF x \in S THEN Append(a \o b, x) ELSE a \o b
    <3>1. \A q \in Seq(T) :
            /\ x \in S => Escoge(Append(q, x), S) = Append(Escoge(q, S), x)
            /\ x \notin S => Escoge(Append(q, x), S) = Escoge(q, S)
      BY EscogeMas
    <3> HIDE DEF a, b
    <3>2. Escoge(s \o u, S) = a \o b
      BY <2>2 DEF a, b
    <3> QED BY <2>1, <3>1, <3>2, Zenon
  <2>5. Escoge(Append(u, x), S) = IF x \in S THEN Append(b, x) ELSE b
    BY EscogeMas
  <2> HIDE DEF a, b
  <2>6. a \o Append(b, x) = Append(a \o b, x)
    BY <2>3
  <2>7. Escoge(s \o Append(u, x), S) = a \o Escoge(Append(u, x), S)
    BY <2>1, <2>4, <2>5, <2>6
  <2> QED BY <2>1, <2>7 DEF a
<1> HIDE DEF I
<1>3. t \in I
  BY <1>1, <1>2, InduccionSec
<1> QED BY <1>3 DEF I

\* All of it, or none of it.
LEMMA EscogeTodos ==
  ASSUME NEW T, NEW S, NEW s \in Seq(T), \A n \in 1 .. Len(s) : s[n] \in S
  PROVE  Escoge(s, S) = s
<1> DEFINE I == {u \in Seq(T) : (\A n \in 1 .. Len(u) : u[n] \in S) => Escoge(u, S) = u}
<1>1. << >> \in I
  BY EscogeVacia
<1>2. ASSUME NEW u \in Seq(T), NEW x \in T, u \in I PROVE Append(u, x) \in I
  <2> SUFFICES ASSUME \A n \in 1 .. Len(Append(u, x)) : Append(u, x)[n] \in S
               PROVE  Escoge(Append(u, x), S) = Append(u, x)
    BY AppendProperties
  <2>1. x \in S /\ \A n \in 1 .. Len(u) : u[n] \in S
    <3>1. /\ Len(u) + 1 \in 1 .. Len(Append(u, x)) /\ Append(u, x)[Len(u) + 1] = x
          /\ \A n \in 1 .. Len(u) :
               n \in 1 .. Len(Append(u, x)) /\ Append(u, x)[n] = u[n]
      BY AppendProperties
    <3> QED BY <3>1
  <2> QED BY <1>2, <2>1, EscogeMas
<1> HIDE DEF I
<1>3. s \in I
  BY <1>1, <1>2, InduccionSec
<1> QED BY <1>3 DEF I

LEMMA EscogeNinguno ==
  ASSUME NEW T, NEW S, NEW s \in Seq(T), \A n \in 1 .. Len(s) : s[n] \notin S
  PROVE  Escoge(s, S) = << >>
<1> DEFINE I == {u \in Seq(T) : (\A n \in 1 .. Len(u) : u[n] \notin S) => Escoge(u, S) = << >>}
<1>1. << >> \in I
  BY EscogeVacia
<1>2. ASSUME NEW u \in Seq(T), NEW x \in T, u \in I PROVE Append(u, x) \in I
  <2> SUFFICES ASSUME \A n \in 1 .. Len(Append(u, x)) : Append(u, x)[n] \notin S
               PROVE  Escoge(Append(u, x), S) = << >>
    BY AppendProperties
  <2>1. x \notin S /\ \A n \in 1 .. Len(u) : u[n] \notin S
    <3>1. /\ Len(u) + 1 \in 1 .. Len(Append(u, x)) /\ Append(u, x)[Len(u) + 1] = x
          /\ \A n \in 1 .. Len(u) :
               n \in 1 .. Len(Append(u, x)) /\ Append(u, x)[n] = u[n]
      BY AppendProperties
    <3> QED BY <3>1
  <2> QED BY <1>2, <2>1, EscogeMas
<1> HIDE DEF I
<1>3. s \in I
  BY <1>1, <1>2, InduccionSec
<1> QED BY <1>3 DEF I

\* Each element kept is in the set and in the sequence.
LEMMA EscogeElementos ==
  ASSUME NEW T, NEW S, NEW s \in Seq(T)
  PROVE  \A m \in 1 .. Len(Escoge(s, S)) :
           /\ Escoge(s, S)[m] \in S
           /\ \E n \in 1 .. Len(s) : s[n] = Escoge(s, S)[m]
<1> DEFINE Bien(u, v) == \A m \in 1 .. Len(v) :
             v[m] \in S /\ \E n \in 1 .. Len(u) : u[n] = v[m]
           I == {u \in Seq(T) : Bien(u, Escoge(u, S))}
<1>1. << >> \in I
  BY EscogeVacia
<1>2. ASSUME NEW u \in Seq(T), NEW x \in T, u \in I PROVE Append(u, x) \in I
  <2> DEFINE v == Escoge(u, S)
             w == Append(u, x)
  <2>1. v \in Seq(T) /\ Bien(u, v)
    BY <1>2, EscogeTipo
  <2>2. Escoge(w, S) = IF x \in S THEN Append(v, x) ELSE v
    BY EscogeMas
  <2>3. /\ w \in Seq(T) /\ Len(u) + 1 \in 1 .. Len(w) /\ w[Len(u) + 1] = x
        /\ \A n \in 1 .. Len(u) : n \in 1 .. Len(w) /\ w[n] = u[n]
    OBVIOUS
  <2> HIDE DEF v, w
  <2>4. Bien(w, v)
    BY <2>1, <2>3
  <2>5. ASSUME x \in S PROVE Bien(w, Append(v, x))
    <3> SUFFICES ASSUME NEW m \in 1 .. Len(Append(v, x))
                 PROVE  /\ Append(v, x)[m] \in S
                        /\ \E n \in 1 .. Len(w) : w[n] = Append(v, x)[m]
      OBVIOUS
    <3>1. CASE m \in 1 .. Len(v)
      BY <2>1, <2>4, <3>1
    <3>2. CASE m = Len(v) + 1
      <4>1. Append(v, x)[m] = x
        BY <2>1, <3>2
      <4> QED BY <2>3, <2>5, <4>1
    <3> QED BY <2>1, <3>1, <3>2
  <2>6. Bien(w, Escoge(w, S))
    <3> HIDE DEF Bien
    <3> QED BY <2>2, <2>4, <2>5
  <2> QED BY <2>3, <2>6 DEF w
<1> HIDE DEF I
<1>3. s \in I
  BY <1>1, <1>2, InduccionSec
<1> QED BY <1>3 DEF I

\* And every element of the sequence that is in the set is kept.
LEMMA EscogeGuarda ==
  ASSUME NEW T, NEW S, NEW s \in Seq(T), NEW n \in 1 .. Len(s), s[n] \in S
  PROVE  \E m \in 1 .. Len(Escoge(s, S)) : Escoge(s, S)[m] = s[n]
<1> DEFINE Bien(u, v) == \A i \in 1 .. Len(u) :
             u[i] \in S => \E m \in 1 .. Len(v) : v[m] = u[i]
           I == {u \in Seq(T) : Bien(u, Escoge(u, S))}
<1>1. << >> \in I
  OBVIOUS
<1>2. ASSUME NEW u \in Seq(T), NEW x \in T, u \in I PROVE Append(u, x) \in I
  <2> DEFINE v == Escoge(u, S)
             w == Append(u, x)
  <2>1. v \in Seq(T) /\ Bien(u, v)
    BY <1>2, EscogeTipo
  <2>2. Escoge(w, S) = IF x \in S THEN Append(v, x) ELSE v
    BY EscogeMas
  <2>3. /\ w \in Seq(T) /\ Len(w) = Len(u) + 1 /\ w[Len(u) + 1] = x /\ Len(u) \in Nat
        /\ \A i \in 1 .. Len(u) : w[i] = u[i]
    OBVIOUS
  <2> HIDE DEF v, w
  <2>4. ASSUME x \notin S PROVE Bien(w, v)
    BY <2>1, <2>3, <2>4
  <2>5. ASSUME x \in S PROVE Bien(w, Append(v, x))
    <3>1. /\ Len(v) + 1 \in 1 .. Len(Append(v, x)) /\ Append(v, x)[Len(v) + 1] = x
          /\ \A m \in 1 .. Len(v) : m \in 1 .. Len(Append(v, x)) /\ Append(v, x)[m] = v[m]
      BY <2>1
    <3> SUFFICES ASSUME NEW i \in 1 .. Len(w), w[i] \in S
                 PROVE  \E m \in 1 .. Len(Append(v, x)) : Append(v, x)[m] = w[i]
      OBVIOUS
    <3>2. CASE i = Len(u) + 1
      BY <2>3, <3>1, <3>2
    <3>3. CASE i \in 1 .. Len(u)
      <4>1. PICK m \in 1 .. Len(v) : v[m] = u[i]
        BY <2>1, <2>3, <3>3
      <4> QED BY <2>3, <3>1, <3>3, <4>1
    <3> QED BY <2>3, <3>2, <3>3
  <2>6. Bien(w, Escoge(w, S))
    <3> HIDE DEF Bien
    <3> QED BY <2>2, <2>4, <2>5
  <2> QED BY <2>3, <2>6 DEF w
<1> HIDE DEF I
<1>3. s \in I
  BY <1>1, <1>2, InduccionSec
<1> QED BY <1>3 DEF I

\* What has been kept by then is the beginning of what will be.
LEMMA EscogePrefijo ==
  ASSUME NEW T, NEW S, NEW s \in Seq(T), NEW k \in 0 .. Len(s)
  PROVE  \E r \in Seq(T) : Escoge(s, S) = Escoge(SubSeq(s, 1, k), S) \o r
<1> DEFINE a == SubSeq(s, 1, k)
           b == SubSeq(s, k + 1, Len(s))
<1>1. a \in Seq(T) /\ b \in Seq(T) /\ s = a \o b
  <2>1. 1 \in 1 .. Len(s) + 1 /\ k \in 1 - 1 .. Len(s) /\ Len(s) \in k .. Len(s)
    OBVIOUS
  <2>2. SubSeq(s, 1, k) \o SubSeq(s, k + 1, Len(s)) = SubSeq(s, 1, Len(s))
    BY <2>1, ConcatAdjacentSubSeq
  <2>3. SubSeq(s, 1, Len(s)) = s
    BY SubSeqFull
  <2>4. a \in Seq(T) /\ b \in Seq(T)
    <3>1. \A n \in 1 .. Len(s) : s[n] \in T
      OBVIOUS
    <3>2. \A n \in 1 .. k : s[n] \in T
      OBVIOUS
    <3>3. \A n \in k + 1 .. Len(s) : s[n] \in T
      OBVIOUS
    <3>4. k \in Int /\ k + 1 \in Int /\ Len(s) \in Int /\ 1 \in Int
      OBVIOUS
    <3> QED BY <3>2, <3>3, <3>4, SubSeqProperties
  <2> QED BY <2>2, <2>3, <2>4
<1> HIDE DEF a, b
<1>2. Escoge(s, S) = Escoge(a, S) \o Escoge(b, S)
  BY <1>1, EscogeConcat
<1> QED BY <1>1, <1>2, EscogeTipo DEF a

\* No more are kept than there were.
LEMMA EscogeCorta ==
  ASSUME NEW T, NEW S, NEW s \in Seq(T)
  PROVE  Len(Escoge(s, S)) <= Len(s)
<1> DEFINE I == {u \in Seq(T) : Len(Escoge(u, S)) <= Len(u)}
<1>1. << >> \in I
  BY EscogeVacia
<1>2. ASSUME NEW u \in Seq(T), NEW x \in T, u \in I PROVE Append(u, x) \in I
  <2>1. Escoge(u, S) \in Seq(T) /\ Append(u, x) \in Seq(T) /\ Len(Append(u, x)) = Len(u) + 1
    BY EscogeTipo
  <2> DEFINE v == Escoge(u, S)
  <2>2. Escoge(Append(u, x), S) = v \/ Escoge(Append(u, x), S) = Append(v, x)
    BY EscogeMas
  <2> HIDE DEF v
  <2>3. v \in Seq(T) /\ Len(v) <= Len(u)
    BY <1>2, <2>1 DEF v
  <2>4. Len(Append(v, x)) = Len(v) + 1 /\ Len(v) \in Nat /\ Len(u) \in Nat
    BY <2>3
  <2> QED BY <2>1, <2>2, <2>3, <2>4
<1> HIDE DEF I
<1>3. Seq(T) \subseteq I
  BY <1>1, <1>2, InduccionSec
<1> QED BY <1>3 DEF I
----------------------------------------------------------------------------
\* A function can be defined by recursion: its next value from the last.
Lleva(S, n, G) == \A m \in 1 .. n, y \in S : G[<<m, y>>] \in S
Recorrida(S, x, n, G, g) ==
  g \in [0 .. n -> S] /\ g[0] = x /\ \A m \in 1 .. n : g[m] = G[<<m, g[m - 1]>>]

LEMMA Recurre ==
  ASSUME NEW S, NEW x \in S, NEW n \in Nat, NEW G, Lleva(S, n, G)
  PROVE  \E g : Recorrida(S, x, n, G, g)
<1> USE DEF Lleva
<1> DEFINE Es(g, k) == g[0] = x /\ \A m \in 1 .. k : g[m] = G[<<m, g[m - 1]>>]
           I == {k \in Nat : k <= n => \E g \in [0 .. k -> S] : Es(g, k)}
<1>1. 0 \in I
  <2> DEFINE g == [m \in 0 .. 0 |-> x]
  <2>1. g \in [0 .. 0 -> S] /\ Es(g, 0)
    OBVIOUS
  <2> QED BY <2>1
<1>2. ASSUME NEW k \in Nat, k \in I PROVE k + 1 \in I
  <2> SUFFICES ASSUME k + 1 <= n
               PROVE  \E g \in [0 .. k + 1 -> S] : Es(g, k + 1)
    OBVIOUS
  <2>1. PICK g \in [0 .. k -> S] : Es(g, k)
    BY <1>2
  <2> DEFINE v == G[<<k + 1, g[k]>>]
             h == [m \in 0 .. k + 1 |-> IF m <= k THEN g[m] ELSE v]
  <2>2. v \in S
    <3>1. g[k] \in S /\ k + 1 \in 1 .. n
      OBVIOUS
    <3>2. <<k + 1, g[k]>> \in (1 .. n) \X S
      BY <3>1
    <3> QED BY <3>2
  <2> HIDE DEF v
  <2>3. h \in [0 .. k + 1 -> S]
    BY <2>2
  <2>4. \A m \in 0 .. k : h[m] = g[m]
    OBVIOUS
  <2>5. h[k + 1] = G[<<k + 1, h[k]>>]
    <3>1. h[k + 1] = v /\ h[k] = g[k]
      OBVIOUS
    <3> QED BY <3>1 DEF v
  <2> HIDE DEF h
  <2>6. ASSUME NEW m \in 1 .. k + 1 PROVE h[m] = G[<<m, h[m - 1]>>]
    <3>1. CASE m = k + 1
      <4>1. m - 1 = k
        BY <3>1
      <4> QED BY <2>5, <3>1, <4>1
    <3>2. CASE m \in 1 .. k
      <4>1. h[m] = g[m] /\ h[m - 1] = g[m - 1]
        BY <2>4, <3>2
      <4> QED BY <2>1, <3>2, <4>1
    <3> QED BY <3>1, <3>2
  <2>7. h[0] = x
    BY <2>1, <2>4
  <2> QED BY <2>3, <2>6, <2>7
<1> HIDE DEF I
<1>3. n \in I
  BY <1>1, <1>2, Induccion
<1> QED BY <1>3 DEF I, Recorrida

\* A function with these equations is the walk.
LEMMA EsRecorrida ==
  ASSUME NEW S, NEW x \in S, NEW n \in Nat, NEW G, Lleva(S, n, G), NEW C,
         C = [m \in 0 .. n |-> C[m]], C[0] = x,
         \A m \in 1 .. n : C[m - 1] \in S => C[m] = G[<<m, C[m - 1]>>]
  PROVE  Recorrida(S, x, n, G, C)
<1> DEFINE I == {m \in Nat : m <= n => C[m] \in S}
<1>1. 0 \in I
  OBVIOUS
<1>2. ASSUME NEW m \in Nat, m \in I PROVE m + 1 \in I
  <2> SUFFICES ASSUME m + 1 <= n PROVE C[m + 1] \in S
    OBVIOUS
  <2>1. m + 1 \in 1 .. n /\ (m + 1) - 1 = m /\ C[m] \in S
    BY <1>2
  <2>2. C[m + 1] = G[<<m + 1, C[m]>>]
    BY <2>1
  <2> QED BY <2>1, <2>2 DEF Lleva
<1> HIDE DEF I
<1>3. Nat \subseteq I
  BY <1>1, <1>2, Induccion
<1>4. \A m \in 0 .. n : C[m] \in S
  BY <1>3 DEF I
<1>5. \A m \in 1 .. n : m - 1 \in 0 .. n
  OBVIOUS
<1>6. C \in [0 .. n -> S]
  BY <1>4
<1> QED BY <1>4, <1>5, <1>6 DEF Recorrida

\* There is only one.
MismosPasos(S, k, G, H) == \A m \in 1 .. k, y \in S : G[<<m, y>>] = H[<<m, y>>]
LEMMA RecorridaUnica ==
  ASSUME NEW S, NEW x, NEW n \in Nat, NEW k \in Nat, k <= n, NEW G, NEW H, NEW g, NEW h,
         NEW N \in Nat, k <= N,
         Recorrida(S, x, n, G, g), Recorrida(S, x, N, H, h),
         MismosPasos(S, k, G, H)
  PROVE  g[k] = h[k]
<1> DEFINE I == {m \in Nat : m <= k => g[m] = h[m]}
<1>1. 0 \in I
  BY DEF Recorrida
<1>2. ASSUME NEW m \in Nat, m \in I PROVE m + 1 \in I
  <2> SUFFICES ASSUME m + 1 <= k PROVE g[m + 1] = h[m + 1]
    OBVIOUS
  <2>1. /\ m + 1 \in 1 .. k /\ m + 1 \in 1 .. n /\ m + 1 \in 1 .. N /\ m \in 0 .. n
        /\ (m + 1) - 1 = m /\ g[m] = h[m]
    BY <1>2
  <2>2. g[m] \in S
    BY <2>1 DEF Recorrida
  <2>3. /\ g[m + 1] = G[<<m + 1, g[(m + 1) - 1]>>]
        /\ h[m + 1] = H[<<m + 1, h[(m + 1) - 1]>>]
    BY <2>1, Zenon DEF Recorrida
  <2> QED BY <2>1, <2>2, <2>3 DEF MismosPasos
<1> HIDE DEF I
<1>3. k \in I
  BY <1>1, <1>2, Induccion
<1> QED BY <1>3 DEF I
============================================================================
