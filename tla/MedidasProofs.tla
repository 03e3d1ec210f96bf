---------------------------- MODULE MedidasProofs --------------------------
(***************************************************************************)
(* Theorems about the two programs that measure something: Sonda, for      *)
(* every set of runs, statuses and deaths, and Geopag, for every number of *)
(* levels and every pair of cells, those the authors measured among them.  *)
(***************************************************************************)
EXTENDS Sonda, MCGeopag, SeleccionProofs, TLAPS

\* A status the crontab sets is not the mark of the truncated file.
LEMMA OrdenNoVacia == \A n \in Ordenes : n \in 0 .. 2 /\ n # Vacio
BY SondaAssumption DEF Vacio

LEMMA InitTipo == Init => TypeOK
<1> SUFFICES ASSUME Init
             PROVE  TypeOK
  OBVIOUS
<1>1. fichero \in 0 .. 2 /\ salida \in 0 .. 2 /\ muertes \in 0 .. MaxMuertes
  BY OrdenNoVacia, SondaAssumption DEF Init
<1>2. pc \in [Cron -> {"fuera"}] /\ set_probe \in [Cron -> {0}]
  BY DEF Init
<1>3. error \in BOOLEAN /\ rota \in BOOLEAN
  BY Zenon DEF Init
<1> QED
  BY <1>1, <1>2, <1>3 DEF TypeOK

\* TypeOK is inductive by itself.
LEMMA TypeInductivo == TypeOK /\ [Next]_vars => TypeOK'
<1> SUFFICES ASSUME TypeOK, [Next]_vars
             PROVE  TypeOK'
  OBVIOUS
<1> USE DEF TypeOK
<1>1. ASSUME NEW p \in Cron, Arranca(p)
      PROVE  TypeOK'
  BY <1>1, OrdenNoVacia DEF Arranca
<1>2. ASSUME NEW p \in Cron, Lee(p)
      PROVE  TypeOK'
  BY <1>2 DEF Lee
<1>3. ASSUME NEW p \in Cron, Trunca(p)
      PROVE  TypeOK'
  BY <1>3 DEF Trunca
<1>4. ASSUME NEW p \in Cron, Vuelca(p)
      PROVE  TypeOK'
  BY <1>4 DEF Vuelca
<1>5. ASSUME NEW p \in Cron, Muere(p)
      PROVE  TypeOK'
  BY <1>5, SondaAssumption DEF Muere
<1>6. CASE Consulta
  BY <1>6 DEF Consulta, Vacio
<1>7. CASE UNCHANGED vars
  BY <1>7 DEF vars
<1> QED
  BY <1>1, <1>2, <1>3, <1>4, <1>5, <1>6, <1>7 DEF Next

\* The variables of the script keep their types (check_probe.py:5-31): what is
\* reported is a status, whatever the file held.
THEOREM TypeCorrect == Spec => []TypeOK
<1> QED
  BY InitTipo, TypeInductivo, PTL DEF Spec
----------------------------------------------------------------------------
(***************************************************************************)
(* NuncaVacioEnReposo needs that what a run is about to write is a status, *)
(* which TypeOK says; then each step either leaves the file as it is, with *)
(* the same runs inside the truncation or with a death recorded, or is the *)
(* truncation itself, or writes.                                           *)
(***************************************************************************)

\* The status file is empty only while a run has it truncated or after one was
\* killed then, for any number of overlapping runs (check_probe.py:15-21).
THEOREM NuncaVacio == Spec => []NuncaVacioEnReposo
<1>1. Init => NuncaVacioEnReposo
  BY OrdenNoVacia DEF Init, NuncaVacioEnReposo
<1>2. TypeOK /\ NuncaVacioEnReposo /\ [Next]_vars => NuncaVacioEnReposo'
  <2> SUFFICES ASSUME TypeOK, NuncaVacioEnReposo, [Next]_vars, fichero' = Vacio
               PROVE  rota' \/ \E p \in Cron : pc'[p] = "vuelca"
    BY DEF NuncaVacioEnReposo
  <2> USE DEF NuncaVacioEnReposo, TypeOK
  <2>1. ASSUME NEW p \in Cron, Arranca(p) \/ Lee(p)
        PROVE  rota' \/ \E q \in Cron : pc'[q] = "vuelca"
    BY <2>1 DEF Arranca, Lee
  <2>2. ASSUME NEW p \in Cron, Trunca(p)
        PROVE  pc'[p] = "vuelca"
    BY <2>2 DEF Trunca
  <2>3. ASSUME NEW p \in Cron, Vuelca(p)
        PROVE  FALSE
    BY <2>3 DEF Vuelca, Vacio
  <2>4. ASSUME NEW p \in Cron, Muere(p)
        PROVE  rota' \/ \E q \in Cron : pc'[q] = "vuelca"
    BY <2>4 DEF Muere
  <2>5. CASE Consulta \/ UNCHANGED vars
    BY <2>5 DEF Consulta, vars
  <2> QED
    BY <2>1, <2>2, <2>3, <2>4, <2>5 DEF Next
<1> QED
  BY <1>1, <1>2, InitTipo, TypeInductivo, PTL DEF Spec
----------------------------------------------------------------------------
(***************************************************************************)
(* The distance.  First the tables: every entry is a number.               *)
(***************************************************************************)

LEMMA Niveles ==
  /\ NIVELES \in Nat /\ NIVELES \in 1 .. 7
  /\ \A l \in Nivel : l \in 0 .. 6
  /\ \A n \in 1 .. NIVELES : n - 1 \in Nivel
BY GeopagAssumption DEF Nivel

Siete(l) == 7 ^ l
Ocho(l) == 8 ^ l

LEMMA Potencias ==
  /\ Siete(1) = 7 /\ Siete(2) = 49 /\ Siete(3) = 343
  /\ Siete(4) = 2401 /\ Siete(5) = 16807 /\ Siete(6) = 117649
  /\ Ocho(0) = 1 /\ Ocho(1) = 8 /\ Ocho(2) = 64 /\ Ocho(3) = 512
  /\ Ocho(4) = 4096 /\ Ocho(5) = 32768 /\ Ocho(6) = 262144
BY DEF Siete, Ocho

EsRaiz(r, q) == r * r <= q /\ q < (r + 1) * (r + 1)

LEMMA RaizUnica ==
  ASSUME NEW q \in Nat, NEW m \in Nat, NEW n \in Nat, m * m <= q, q < (n + 1) * (n + 1)
  PROVE  m <= n
<1> SUFFICES ASSUME n + 1 <= m PROVE FALSE
  OBVIOUS
<1>1. PICK d \in Nat : m = (n + 1) + d
  <2>1. m - (n + 1) \in Nat /\ m = (n + 1) + (m - (n + 1))
    OBVIOUS
  <2> QED BY <2>1
<1>2. m * m = (n + 1) * (n + 1) + 2 * (d * (n + 1)) + d * d
  BY <1>1
<1>3. d * (n + 1) \in Nat /\ d * d \in Nat
  OBVIOUS
<1> QED BY <1>2, <1>3

\* The sizes of the clusters, from the cell up.
LEMMA RTamano ==
  /\ R[0] = 1
  /\ 1 \in Nivel => R[1] = 3
  /\ 2 \in Nivel => R[2] = 8
  /\ 3 \in Nivel => R[3] = 19
  /\ 4 \in Nivel => R[4] = 50
  /\ 5 \in Nivel => R[5] = 130
  /\ 6 \in Nivel => R[6] = 344
<1>1. ASSUME NEW l \in Nivel \ {0}, NEW k \in 0 .. 400, NEW q \in Nat, Siete(l) = q, EsRaiz(k, q)
      PROVE  R[l] = 1 + k
  <2> DEFINE c == CHOOSE r \in 0 .. 400 : r * r <= 7 ^ l /\ 7 ^ l < (r + 1) * (r + 1)
             e == CHOOSE r \in 0 .. 400 : EsRaiz(r, q)
  <2>1. R[l] = 1 + c
    BY Zenon DEF R
  <2>2. c = e
    BY <1>1, Zenon DEF EsRaiz, Siete
  <2>3. e \in 0 .. 400 /\ EsRaiz(e, q)
    BY <1>1
  <2> HIDE DEF c, e
  <2>4. e <= k /\ k <= e
    <3>1. e \in Nat /\ k \in Nat
      BY <2>3
    <3> QED BY <1>1, <2>3, <3>1, RaizUnica DEF EsRaiz
  <2> QED BY <2>1, <2>2, <2>3, <2>4
<1>2. R[0] = 1
  BY Niveles DEF R, Nivel
<1>3. 1 \in Nivel => R[1] = 3
  <2>1. EsRaiz(2, 7)
    BY DEF EsRaiz
  <2> QED BY <1>1, <2>1, Potencias
<1>4. 2 \in Nivel => R[2] = 8
  <2>1. EsRaiz(7, 49)
    BY DEF EsRaiz
  <2> QED BY <1>1, <2>1, Potencias
<1>5. 3 \in Nivel => R[3] = 19
  <2>1. EsRaiz(18, 343)
    BY DEF EsRaiz
  <2> QED BY <1>1, <2>1, Potencias
<1>6. 4 \in Nivel => R[4] = 50
  <2>1. EsRaiz(49, 2401)
    BY DEF EsRaiz
  <2> QED BY <1>1, <2>1, Potencias
<1>7. 5 \in Nivel => R[5] = 130
  <2>1. EsRaiz(129, 16807)
    BY DEF EsRaiz
  <2> QED BY <1>1, <2>1, Potencias
<1>8. 6 \in Nivel => R[6] = 344
  <2>1. EsRaiz(343, 117649)
    BY DEF EsRaiz
  <2> QED BY <1>1, <2>1, Potencias
<1> QED BY <1>2, <1>3, <1>4, <1>5, <1>6, <1>7, <1>8

LEMMA RTipo == \A l \in Nivel : R[l] \in Int
<1> SUFFICES ASSUME NEW l \in Nivel PROVE R[l] \in Int
  OBVIOUS
<1>1. l = 0 \/ l = 1 \/ l = 2 \/ l = 3 \/ l = 4 \/ l = 5 \/ l = 6
  BY Niveles
<1> QED BY <1>1, RTamano

\* A label is three bits, and the table has a row for each.
LEMMA CoordTipo == \A k \in 0 .. 7 : GEOPAG_obten_coord[k] \in [x : Int, y : Int]
<1> SUFFICES ASSUME NEW k \in 0 .. 7
             PROVE  GEOPAG_obten_coord[k] \in [x : Int, y : Int]
  OBVIOUS
<1>1. k = 0 \/ k = 1 \/ k = 2 \/ k = 3 \/ k = 4 \/ k = 5 \/ k = 6 \/ k = 7
  OBVIOUS
<1> QED BY <1>1 DEF GEOPAG_obten_coord

LEMMA Etiqueta ==
  ASSUME NEW d \in Celda
  PROVE  \A l \in Nivel : GEOPAG_parse_IDcelda_desde_IPV6(d)[l] \in 0 .. 7
<1> SUFFICES ASSUME NEW l \in Nivel
             PROVE  GEOPAG_parse_IDcelda_desde_IPV6(d)[l] \in 0 .. 7
  OBVIOUS
<1> DEFINE p == 8 ^ l
           q == d \div p
<1>1. d \in Int
  BY DEF Celda
<1>2. p \in Int /\ p > 0
  <2>1. l = 0 \/ l = 1 \/ l = 2 \/ l = 3 \/ l = 4 \/ l = 5 \/ l = 6
    BY Niveles
  <2>2. p = Ocho(l)
    BY DEF Ocho
  <2> HIDE DEF p
  <2> QED BY <2>1, <2>2, Potencias
<1>3. q \in Int
  <2> HIDE DEF p
  <2> QED BY <1>1, <1>2
<1>4. q % 8 \in 0 .. 7
  <2> HIDE DEF q
  <2> QED BY <1>3
<1> QED BY <1>4, Zenon DEF GEOPAG_parse_IDcelda_desde_IPV6

LEMMA DiferenciaTipo ==
  ASSUME NEW a \in Celda, NEW b \in Celda, NEW l \in Nivel
  PROVE  /\ Diferencia(a, b)[l].x \in Int /\ Diferencia(a, b)[l].y \in Int
         /\ Diferencia(b, a)[l].x = -Diferencia(a, b)[l].x
         /\ Diferencia(b, a)[l].y = -Diferencia(a, b)[l].y
<1> DEFINE A == GEOPAG_obten_coord[GEOPAG_parse_IDcelda_desde_IPV6(a)[l]]
           B == GEOPAG_obten_coord[GEOPAG_parse_IDcelda_desde_IPV6(b)[l]]
<1>1. A \in [x : Int, y : Int] /\ B \in [x : Int, y : Int]
  BY Etiqueta, CoordTipo
<1>2. /\ Diferencia(a, b)[l] = [x |-> B.x - A.x, y |-> B.y - A.y]
      /\ Diferencia(b, a)[l] = [x |-> A.x - B.x, y |-> A.y - B.y]
  BY Zenon DEF Diferencia
<1> HIDE DEF A, B
<1> QED BY <1>1, <1>2
----------------------------------------------------------------------------
(***************************************************************************)
(* What the levels add up to.  Sumas is the function its two equations     *)
(* say, and the sums of opposite numbers are opposite.                     *)
(***************************************************************************)
EsSuma(f, g) == g[0] = 0 /\ \A n \in 1 .. NIVELES : g[n] = g[n - 1] + f[n - 1]

LEMMA SumasEs ==
  ASSUME NEW f \in [Nivel -> Int]
  PROVE  Sumas(f) \in [0 .. NIVELES -> Int] /\ EsSuma(f, Sumas(f))
<1> DEFINE E(F) == [n \in 0 .. NIVELES |-> IF n = 0 THEN 0 ELSE F[n - 1] + f[n - 1]]
           C == CHOOSE F : F = E(F)
           G == [t \in (1 .. NIVELES) \X Int |-> t[2] + f[t[1] - 1]]
<1>1. PICK g : Recorrida(Int, 0, NIVELES, G, g)
  <2>1. \A m \in 1 .. NIVELES : f[m - 1] \in Int
    BY Niveles
  <2>2. Lleva(Int, NIVELES, G)
    BY <2>1 DEF Lleva
  <2> HIDE DEF G
  <2>3. 0 \in Int /\ NIVELES \in Nat
    BY Niveles
  <2> QED BY ONLY <2>2, <2>3, Recurre, Zenon
<1>2. g \in [0 .. NIVELES -> Int] /\ EsSuma(f, g)
  <2>1. ASSUME NEW m \in 1 .. NIVELES PROVE g[m] = g[m - 1] + f[m - 1]
    <3>1. g[m - 1] \in Int
      BY <1>1, Niveles DEF Recorrida
    <3>2. g[m] = G[<<m, g[m - 1]>>]
      <4> HIDE DEF G
      <4> QED BY <1>1 DEF Recorrida
    <3>3. <<m, g[m - 1]>> \in (1 .. NIVELES) \X Int
      BY <3>1
    <3> QED BY <3>2, <3>3
  <2>2. g \in [0 .. NIVELES -> Int] /\ g[0] = 0
    BY <1>1, Zenon DEF Recorrida
  <2> QED BY <2>1, <2>2 DEF EsSuma
<1>3. g = E(g)
  <2>1. ASSUME NEW n \in 0 .. NIVELES PROVE g[n] = E(g)[n]
    <3>1. CASE n = 0
      BY <1>2, <3>1 DEF EsSuma
    <3>2. CASE n # 0
      <4>1. n \in 1 .. NIVELES
        BY <3>2, Niveles
      <4> QED BY <1>2, <3>2, <4>1 DEF EsSuma
    <3> QED BY <3>1, <3>2
  <2>2. E(g) = [n \in 0 .. NIVELES |-> E(g)[n]]
    OBVIOUS
  <2> HIDE DEF E
  <2> QED BY <1>2, <2>1, <2>2
<1>4. C = E(C)
  <2> HIDE DEF E
  <2> QED BY <1>3
<1>5. EsSuma(f, C)
  <2>1. 0 \in 0 .. NIVELES /\ \A m \in 1 .. NIVELES : m \in 0 .. NIVELES /\ m # 0
    BY Niveles
  <2>2. E(C)[0] = 0
    BY <2>1
  <2>3. ASSUME NEW m \in 1 .. NIVELES PROVE E(C)[m] = C[m - 1] + f[m - 1]
    <3> HIDE DEF C
    <3> QED BY <2>1
  <2> HIDE DEF C, E
  <2> QED BY <1>4, <2>2, <2>3 DEF EsSuma
<1>6. ASSUME NEW n \in Nat PROVE n <= NIVELES => C[n] = g[n]
  <2> DEFINE I == {m \in Nat : m <= NIVELES => C[m] = g[m]}
  <2> HIDE DEF C
  <2>1. 0 \in I
    BY <1>2, <1>5 DEF EsSuma
  <2>2. ASSUME NEW m \in Nat, m \in I PROVE m + 1 \in I
    <3> SUFFICES ASSUME m + 1 <= NIVELES PROVE C[m + 1] = g[m + 1]
      OBVIOUS
    <3>1. m + 1 \in 1 .. NIVELES /\ (m + 1) - 1 = m /\ C[m] = g[m]
      BY <2>2, Niveles
    <3>2. /\ C[m + 1] = C[(m + 1) - 1] + f[(m + 1) - 1]
          /\ g[m + 1] = g[(m + 1) - 1] + f[(m + 1) - 1]
      BY <1>2, <1>5, <3>1 DEF EsSuma
    <3> QED BY <3>1, <3>2
  <2> HIDE DEF I
  <2>3. n \in I
    BY <2>1, <2>2, Induccion
  <2> QED BY <2>3 DEF I
<1>7. C \in [0 .. NIVELES -> Int]
  <2>1. ASSUME NEW n \in 0 .. NIVELES PROVE C[n] \in Int
    BY <1>2, <1>6, Niveles
  <2>2. C = [n \in 0 .. NIVELES |-> C[n]]
    <3>1. E(C) = [n \in 0 .. NIVELES |-> E(C)[n]]
      <4> HIDE DEF C
      <4> QED OBVIOUS
    <3> HIDE DEF C, E
    <3> QED BY <1>4, <3>1
  <2> HIDE DEF C, E
  <2> QED BY <2>1, <2>2
<1>8. Sumas(f) = C
  BY Zenon DEF Sumas
<1> HIDE DEF C
<1> QED BY <1>5, <1>7, <1>8

LEMMA SumasOpuestas ==
  ASSUME NEW f \in [Nivel -> Int], NEW h \in [Nivel -> Int],
         \A l \in Nivel : h[l] = -f[l]
  PROVE  Sumas(h)[NIVELES] = -Sumas(f)[NIVELES]
<1> DEFINE u == Sumas(f)
           v == Sumas(h)
           I == {n \in Nat : n <= NIVELES => v[n] = -u[n]}
<1>1. /\ u \in [0 .. NIVELES -> Int] /\ EsSuma(f, u)
      /\ v \in [0 .. NIVELES -> Int] /\ EsSuma(h, v)
  BY SumasEs
<1> HIDE DEF u, v
<1>2. 0 \in I
  BY <1>1 DEF EsSuma
<1>3. ASSUME NEW n \in Nat, n \in I PROVE n + 1 \in I
  <2> SUFFICES ASSUME n + 1 <= NIVELES PROVE v[n + 1] = -u[n + 1]
    OBVIOUS
  <2>1. n + 1 \in 1 .. NIVELES /\ (n + 1) - 1 = n /\ n \in 0 .. NIVELES /\ v[n] = -u[n]
    BY <1>3, Niveles
  <2>2. n \in Nivel /\ h[n] = -f[n] /\ f[n] \in Int
    BY <2>1, Niveles
  <2>3. /\ v[n + 1] = v[(n + 1) - 1] + h[(n + 1) - 1]
        /\ u[n + 1] = u[(n + 1) - 1] + f[(n + 1) - 1]
    BY <1>1, <2>1 DEF EsSuma
  <2>4. u[n] \in Int
    BY <1>1, <2>1
  <2> QED BY <2>1, <2>2, <2>3, <2>4
<1> HIDE DEF I
<1>4. NIVELES \in I
  BY <1>2, <1>3, Induccion, Niveles
<1> QED BY <1>4, Niveles DEF I, u, v
----------------------------------------------------------------------------
(***************************************************************************)
(* The vector between two cells and what is returned of it.                *)
(***************************************************************************)
PorNivelX(a, b) == [l \in Nivel |-> R[l] * Diferencia(a, b)[l].x]
PorNivelY(a, b) == [l \in Nivel |-> R[l] * Diferencia(a, b)[l].y]

LEMMA PorNivel ==
  ASSUME NEW a \in Celda, NEW b \in Celda
  PROVE  /\ PorNivelX(a, b) \in [Nivel -> Int] /\ PorNivelY(a, b) \in [Nivel -> Int]
         /\ \A l \in Nivel : /\ PorNivelX(b, a)[l] = -PorNivelX(a, b)[l]
                             /\ PorNivelY(b, a)[l] = -PorNivelY(a, b)[l]
<1>1. ASSUME NEW l \in Nivel
      PROVE  /\ R[l] * Diferencia(a, b)[l].x \in Int
             /\ R[l] * Diferencia(a, b)[l].y \in Int
             /\ R[l] * Diferencia(b, a)[l].x = -(R[l] * Diferencia(a, b)[l].x)
             /\ R[l] * Diferencia(b, a)[l].y = -(R[l] * Diferencia(a, b)[l].y)
  <2> DEFINE r == R[l]
             x == Diferencia(a, b)[l].x
             y == Diferencia(a, b)[l].y
             z == Diferencia(b, a)[l].x
             w == Diferencia(b, a)[l].y
  <2>1. r \in Int /\ x \in Int /\ y \in Int /\ z = -x /\ w = -y
    BY RTipo, DiferenciaTipo
  <2> HIDE DEF r, x, y, z, w
  <2>2. r * x \in Int /\ r * y \in Int /\ r * z = -(r * x) /\ r * w = -(r * y)
    BY <2>1
  <2> QED BY <2>2 DEF r, x, y, z, w
<1> QED BY <1>1 DEF PorNivelX, PorNivelY

LEMMA VectorEs ==
  ASSUME NEW a \in Celda, NEW b \in Celda
  PROVE  /\ Vector(a, b) = [x |-> Sumas(PorNivelX(a, b))[NIVELES],
                            y |-> Sumas(PorNivelY(a, b))[NIVELES]]
         /\ Vector(a, b).x \in Int /\ Vector(a, b).y \in Int
<1>1. Vector(a, b) = [x |-> Sumas(PorNivelX(a, b))[NIVELES],
                      y |-> Sumas(PorNivelY(a, b))[NIVELES]]
  BY Zenon DEF Vector, PorNivelX, PorNivelY
<1>2. /\ Sumas(PorNivelX(a, b)) \in [0 .. NIVELES -> Int]
      /\ Sumas(PorNivelY(a, b)) \in [0 .. NIVELES -> Int]
  BY PorNivel, SumasEs
<1>3. NIVELES \in 0 .. NIVELES
  BY Niveles
<1> QED BY <1>1, <1>2, <1>3

\* The way back is the same vector the other way round.
LEMMA VectorOpuesto ==
  ASSUME NEW a \in Celda, NEW b \in Celda
  PROVE  Vector(b, a).x = -Vector(a, b).x /\ Vector(b, a).y = -Vector(a, b).y
<1>1. /\ Sumas(PorNivelX(b, a))[NIVELES] = -Sumas(PorNivelX(a, b))[NIVELES]
      /\ Sumas(PorNivelY(b, a))[NIVELES] = -Sumas(PorNivelY(a, b))[NIVELES]
  BY PorNivel, SumasOpuestas
<1> QED BY <1>1, VectorEs

LEMMA MaximoDeDos ==
  ASSUME NEW m \in Int, NEW n \in Int
  PROVE  m <= Max({m, n}) /\ Max({m, n}) \in Int
<1>1. \E x \in {m, n} : \A y \in {m, n} : x >= y
  <2>1. CASE m >= n
    BY <2>1
  <2>2. CASE n >= m
    BY <2>2
  <2> QED BY <2>1, <2>2
<1> QED BY <1>1 DEF Max

LEMMA ValorBien ==
  ASSUME NEW v, v.x \in Int, v.y \in Int
  PROVE  /\ Valor(v) \in Nat
         /\ Valor(v) <= Coronas(v)
         /\ Valor(v) = 0 <=> v.x = 0 /\ v.y = 0
<1> DEFINE a == v.x
           b == v.y
<1>1. /\ Valor(v) = IF a * b > 0 THEN Abs(a) ELSE Abs(a) + Abs(b)
      /\ Coronas(v) = IF a * b > 0 THEN Max({Abs(a), Abs(b)}) ELSE Abs(a) + Abs(b)
  BY Zenon DEF Valor, Coronas
<1>2. a \in Int /\ b \in Int
  OBVIOUS
<1> HIDE DEF a, b
<1>3. /\ Abs(a) \in Nat /\ Abs(b) \in Nat
      /\ Abs(a) = 0 <=> a = 0
      /\ Abs(b) = 0 <=> b = 0
  BY <1>2 DEF Abs
<1>4. a * b > 0 => a # 0 /\ b # 0
  BY <1>2
<1>5. Abs(a) <= Max({Abs(a), Abs(b)})
  BY <1>3, MaximoDeDos
<1>6. /\ Valor(v) \in Nat /\ Valor(v) <= Coronas(v)
      /\ Valor(v) = 0 <=> a = 0 /\ b = 0
  <2>1. CASE a * b > 0
    BY <1>1, <1>3, <1>4, <1>5, <2>1
  <2>2. CASE ~(a * b > 0)
    BY <1>1, <1>3, <2>2
  <2> QED BY <2>1, <2>2
<1> QED BY <1>6 DEF a, b

LEMMA ValorOpuesto ==
  ASSUME NEW v, NEW w, v.x \in Int, v.y \in Int, w.x = -v.x, w.y = -v.y
  PROVE  Valor(w) = Valor(v)
<1> DEFINE a == v.x
           b == v.y
           c == w.x
           d == w.y
<1>1. /\ Valor(v) = IF a * b > 0 THEN Abs(a) ELSE Abs(a) + Abs(b)
      /\ Valor(w) = IF c * d > 0 THEN Abs(c) ELSE Abs(c) + Abs(d)
  BY Zenon DEF Valor
<1>2. a \in Int /\ b \in Int /\ c = -a /\ d = -b
  OBVIOUS
<1> HIDE DEF a, b, c, d
<1>3. c * d = a * b
  BY <1>2
<1>4. Abs(c) = Abs(a) /\ Abs(d) = Abs(b)
  BY <1>2 DEF Abs
<1> QED BY <1>1, <1>3, <1>4
----------------------------------------------------------------------------
(***************************************************************************)
(* The loop.  What it has added so far is the sum of the levels it has     *)
(* gone through, which DistanciaSegura does not say: without it nothing is *)
(* known of the value the last step returns.                               *)
(***************************************************************************)
DInv ==
  /\ par \in Pares
  /\ nivel \in 0 .. NIVELES
  /\ Dv = [x |-> Sumas(PorNivelX(par[1], par[2]))[nivel],
           y |-> Sumas(PorNivelY(par[1], par[2]))[nivel]]
  /\ \/ distancia = SinCalcular
     \/ nivel = NIVELES /\ distancia = Valor(Dv)

LEMMA ParCeldas == \A p \in Pares : p[1] \in Celda /\ p[2] \in Celda
BY GeopagAssumption

LEMMA DistInicio == DistInit => DInv
<1> SUFFICES ASSUME DistInit PROVE DInv
  OBVIOUS
<1>1. par \in Pares /\ nivel = 0 /\ Dv = [x |-> 0, y |-> 0] /\ distancia = SinCalcular
  BY DEF DistInit
<1>2. par[1] \in Celda /\ par[2] \in Celda
  BY <1>1, ParCeldas
<1>3. /\ EsSuma(PorNivelX(par[1], par[2]), Sumas(PorNivelX(par[1], par[2])))
      /\ EsSuma(PorNivelY(par[1], par[2]), Sumas(PorNivelY(par[1], par[2])))
  BY <1>2, PorNivel, SumasEs
<1> QED BY <1>1, <1>3, Niveles DEF DInv, EsSuma

LEMMA DistPaso == DInv /\ [DistNext]_distvars => DInv'
<1> SUFFICES ASSUME DInv, [DistNext]_distvars PROVE DInv'
  OBVIOUS
<1>1. CASE Acumula
  <2> DEFINE a == par[1]
             b == par[2]
             u == Sumas(PorNivelX(a, b))
             v == Sumas(PorNivelY(a, b))
             d == Diferencia(a, b)[nivel]
  <2>1. a \in Celda /\ b \in Celda
    BY ParCeldas DEF DInv
  <2>2. nivel \in Nivel /\ nivel + 1 \in 1 .. NIVELES /\ (nivel + 1) - 1 = nivel
    BY <1>1, Niveles DEF DInv, Acumula, Nivel
  <2>3. EsSuma(PorNivelX(a, b), u) /\ EsSuma(PorNivelY(a, b), v)
    BY <2>1, PorNivel, SumasEs
  <2>4. /\ u[nivel + 1] = u[nivel] + PorNivelX(a, b)[nivel]
        /\ v[nivel + 1] = v[nivel] + PorNivelY(a, b)[nivel]
    <3> HIDE DEF a, b, u, v
    <3>1. /\ u[nivel + 1] = u[(nivel + 1) - 1] + PorNivelX(a, b)[(nivel + 1) - 1]
          /\ v[nivel + 1] = v[(nivel + 1) - 1] + PorNivelY(a, b)[(nivel + 1) - 1]
      BY <2>2, <2>3 DEF EsSuma
    <3> QED BY <2>2, <3>1
  <2>5. /\ PorNivelX(a, b)[nivel] = R[nivel] * d.x
        /\ PorNivelY(a, b)[nivel] = R[nivel] * d.y
    BY <2>2 DEF PorNivelX, PorNivelY
  <2>6. /\ par' = par /\ nivel' = nivel + 1 /\ distancia' = distancia
        /\ Dv' = [x |-> Dv.x + R[nivel] * d.x, y |-> Dv.y + R[nivel] * d.y]
    BY <1>1 DEF Acumula
  <2>7. distancia = SinCalcular
    BY <1>1, Niveles DEF Acumula, DInv
  <2>8. Dv = [x |-> u[nivel], y |-> v[nivel]]
    BY DEF DInv
  <2>9. Dv' = [x |-> u[nivel + 1], y |-> v[nivel + 1]]
    <3> HIDE DEF u, v, d, a, b
    <3> QED BY <2>4, <2>5, <2>6, <2>8
  <2>10. nivel' \in 0 .. NIVELES
    BY <2>2, <2>6
  <2>11. Dv' = [x |-> Sumas(PorNivelX(par'[1], par'[2]))[nivel'],
                y |-> Sumas(PorNivelY(par'[1], par'[2]))[nivel']]
    BY <2>6, <2>9, Zenon
  <2>12. par' \in Pares /\ distancia' = SinCalcular
    BY <2>6, <2>7 DEF DInv
  <2> QED BY <2>10, <2>11, <2>12, Zenon DEF DInv
<1>2. CASE Devuelve
  BY <1>2 DEF Devuelve, DInv
<1>3. CASE UNCHANGED distvars
  BY <1>3 DEF distvars, DInv
<1> QED BY <1>1, <1>2, <1>3 DEF DistNext

LEMMA DistFinal == DInv => DistanciaSegura
<1> SUFFICES ASSUME DInv, Hecho PROVE DistanciaSegura
  BY DEF DistanciaSegura
<1> DEFINE a == par[1]
           b == par[2]
           v == Vector(a, b)
           w == Vector(b, a)
<1>1. a \in Celda /\ b \in Celda
  BY ParCeldas DEF DInv
<1>2. nivel = NIVELES /\ distancia = Valor(Dv)
  BY DEF DInv, Hecho
<1>3. /\ Dv = v /\ v.x \in Int /\ v.y \in Int
      /\ v = [x |-> v.x, y |-> v.y]
  BY <1>1, <1>2, VectorEs DEF DInv
<1>4. w.x = -v.x /\ w.y = -v.y
  BY <1>1, VectorOpuesto
<1> HIDE DEF v, w
<1>5. /\ Valor(v) <= Coronas(v)
      /\ Valor(v) = 0 <=> v.x = 0 /\ v.y = 0
  BY <1>3, ValorBien
<1>6. Valor(w) = Valor(v)
  BY <1>3, <1>4, ValorOpuesto
<1>7. v.x = 0 /\ v.y = 0 <=> v = [x |-> 0, y |-> 0]
  BY <1>3
<1>8. /\ distancia = GEOPAG_calcula_distancia(a, b)
      /\ distancia = GEOPAG_calcula_distancia(b, a)
      /\ distancia <= Coronas(v)
      /\ distancia = 0 <=> v = [x |-> 0, y |-> 0]
  BY <1>2, <1>3, <1>5, <1>6, <1>7, Zenon DEF GEOPAG_calcula_distancia, v, w
<1> QED BY <1>8, Zenon DEF DistanciaSegura, v

\* For every number of levels and every pair of cells the loop returns the
\* function the router decides with, the same both ways, never more than the
\* crowns between the cells, and zero for no others than two cells with no
\* vector between them (GEOPAG.c:86-138).
THEOREM SafeDistance == DistSpec => []DistanciaSegura
<1> QED
  BY DistInicio, DistPaso, DistFinal, PTL DEF DistSpec
----------------------------------------------------------------------------
(***************************************************************************)
(* The authors' measurements.  The cluster a route of their network stands *)
(* for, and the labels of their center, differ on five levels at most.     *)
(***************************************************************************)
Ruta(k) == 16384 + 512 * k

LEMMA UnaEtiqueta ==
  ASSUME NEW d \in Celda, NEW l \in Nivel
  PROVE  GEOPAG_parse_IDcelda_desde_IPV6(d)[l] = (d \div Ocho(l)) % 8
BY Zenon DEF GEOPAG_parse_IDcelda_desde_IPV6, Ocho

LEMMA EtiquetasCentro ==
  ASSUME NIVELES >= 5, Centro \in Celda
  PROVE  LET e == GEOPAG_parse_IDcelda_desde_IPV6(Centro)
         IN /\ e[0] = 4 /\ e[1] = 6 /\ e[2] = 0 /\ e[3] = 5 /\ e[4] = 1
            /\ 5 \in Nivel => e[5] = 0
            /\ 6 \in Nivel => e[6] = 0
<1> DEFINE e == GEOPAG_parse_IDcelda_desde_IPV6(Centro)
<1>1. \A l \in 0 .. 4 : l \in Nivel
  BY Niveles DEF Nivel
<1>2. \A l \in Nivel : e[l] = (6708 \div Ocho(l)) % 8
  BY UnaEtiqueta DEF Centro
<1> HIDE DEF e
<1>3. /\ e[0] = (6708 \div 1) % 8 /\ e[1] = (6708 \div 8) % 8 /\ e[2] = (6708 \div 64) % 8
      /\ e[3] = (6708 \div 512) % 8 /\ e[4] = (6708 \div 4096) % 8
      /\ 5 \in Nivel => e[5] = (6708 \div 32768) % 8
      /\ 6 \in Nivel => e[6] = (6708 \div 262144) % 8
  BY <1>1, <1>2, Potencias
<1> QED BY <1>3 DEF e

LEMMA EtiquetasRuta ==
  ASSUME NIVELES >= 5, NEW k \in 0 .. 6, Ruta(k) \in Celda
  PROVE  LET e == GEOPAG_parse_IDcelda_desde_IPV6(Ruta(k))
         IN /\ e[0] = 0 /\ e[1] = 0 /\ e[2] = 0 /\ e[3] = k /\ e[4] = 4
            /\ 5 \in Nivel => e[5] = 0
            /\ 6 \in Nivel => e[6] = 0
<1> DEFINE e == GEOPAG_parse_IDcelda_desde_IPV6(Ruta(k))
           r == 16384 + 512 * k
<1>1. \A l \in 0 .. 4 : l \in Nivel
  BY Niveles DEF Nivel
<1>2. \A l \in Nivel : e[l] = (r \div Ocho(l)) % 8
  BY UnaEtiqueta DEF Ruta
<1> HIDE DEF e
<1>3. /\ e[0] = (r \div 1) % 8 /\ e[1] = (r \div 8) % 8 /\ e[2] = (r \div 64) % 8
      /\ e[3] = (r \div 512) % 8 /\ e[4] = (r \div 4096) % 8
      /\ 5 \in Nivel => e[5] = (r \div 32768) % 8
      /\ 6 \in Nivel => e[6] = (r \div 262144) % 8
  <2> HIDE DEF r
  <2> QED BY <1>1, <1>2, Potencias
<1>4. k = 0 \/ k = 1 \/ k = 2 \/ k = 3 \/ k = 4 \/ k = 5 \/ k = 6
  OBVIOUS
<1> QED BY <1>3, <1>4 DEF e

\* Three levels below those of the route, its own label, and one more.
LEMMA VectorMedido ==
  ASSUME NIVELES >= 5, Centro \in Celda, NEW k \in 0 .. 6, Ruta(k) \in Celda
  PROVE  /\ Vector(Centro, Ruta(k)).x = 19 * GEOPAG_obten_coord[k].x + 5
         /\ Vector(Centro, Ruta(k)).y = 19 * GEOPAG_obten_coord[k].y + 23
<1> DEFINE d == Diferencia(Centro, Ruta(k))
           c == GEOPAG_obten_coord[k]
           a == GEOPAG_parse_IDcelda_desde_IPV6(Centro)
           b == GEOPAG_parse_IDcelda_desde_IPV6(Ruta(k))
           f == PorNivelX(Centro, Ruta(k))
           g == PorNivelY(Centro, Ruta(k))
           u == Sumas(f)
           v == Sumas(g)
<1>1. /\ 0 \in Nivel /\ 1 \in Nivel /\ 2 \in Nivel /\ 3 \in Nivel /\ 4 \in Nivel
      /\ NIVELES = 5 \/ (NIVELES = 6 /\ 5 \in Nivel) \/ (NIVELES = 7 /\ 5 \in Nivel /\ 6 \in Nivel)
      /\ c.x \in Int /\ c.y \in Int
  BY Niveles, CoordTipo DEF Nivel
<1>2. \A l \in Nivel : /\ d[l].x = GEOPAG_obten_coord[b[l]].x - GEOPAG_obten_coord[a[l]].x
                       /\ d[l].y = GEOPAG_obten_coord[b[l]].y - GEOPAG_obten_coord[a[l]].y
  BY DEF Diferencia
<1>3. \A l \in Nivel : f[l] = R[l] * d[l].x /\ g[l] = R[l] * d[l].y
  BY DEF PorNivelX, PorNivelY
<1>4. /\ f \in [Nivel -> Int] /\ g \in [Nivel -> Int]
      /\ EsSuma(f, u) /\ EsSuma(g, v)
      /\ Vector(Centro, Ruta(k)).x = u[NIVELES] /\ Vector(Centro, Ruta(k)).y = v[NIVELES]
  BY PorNivel, SumasEs, VectorEs
<1>5. /\ a[0] = 4 /\ a[1] = 6 /\ a[2] = 0 /\ a[3] = 5 /\ a[4] = 1
      /\ b[0] = 0 /\ b[1] = 0 /\ b[2] = 0 /\ b[3] = k /\ b[4] = 4
      /\ 5 \in Nivel => a[5] = 0 /\ b[5] = 0
      /\ 6 \in Nivel => a[6] = 0 /\ b[6] = 0
  BY EtiquetasCentro, EtiquetasRuta
<1>6. /\ GEOPAG_obten_coord[0] = [x |-> 0, y |-> 0] /\ GEOPAG_obten_coord[1] = [x |-> 0, y |-> 1]
      /\ GEOPAG_obten_coord[4] = [x |-> 1, y |-> 2] /\ GEOPAG_obten_coord[5] = [x |-> 2, y |-> 1]
      /\ GEOPAG_obten_coord[6] = [x |-> 2, y |-> 2]
  BY DEF GEOPAG_obten_coord
<1> HIDE DEF d, a, b, c, f, g, u, v
<1>7. /\ d[0].x = -1 /\ d[0].y = -2 /\ d[1].x = -2 /\ d[1].y = -2 /\ d[2].x = 0 /\ d[2].y = 0
      /\ d[3].x = c.x - 2 /\ d[3].y = c.y - 1 /\ d[4].x = 1 /\ d[4].y = 1
      /\ 5 \in Nivel => d[5].x = 0 /\ d[5].y = 0
      /\ 6 \in Nivel => d[6].x = 0 /\ d[6].y = 0
  BY <1>1, <1>2, <1>5, <1>6 DEF c
<1>8. /\ f[0] = -1 /\ f[1] = -6 /\ f[2] = 0 /\ f[3] = 19 * (c.x - 2) /\ f[4] = 50
      /\ g[0] = -2 /\ g[1] = -6 /\ g[2] = 0 /\ g[3] = 19 * (c.y - 1) /\ g[4] = 50
      /\ 5 \in Nivel => f[5] = 0 /\ g[5] = 0
      /\ 6 \in Nivel => f[6] = 0 /\ g[6] = 0
  BY <1>1, <1>3, <1>7, RTamano
<1>9. ASSUME NEW h, NEW s, EsSuma(h, s)
      PROVE  /\ s[0] = 0 /\ s[1] = s[0] + h[0] /\ s[2] = s[1] + h[1] /\ s[3] = s[2] + h[2]
             /\ s[4] = s[3] + h[3] /\ s[5] = s[4] + h[4]
             /\ 5 \in Nivel => s[6] = s[5] + h[5]
             /\ 6 \in Nivel => s[7] = s[6] + h[6]
  BY <1>1, <1>9 DEF EsSuma, Nivel
<1>10. u[5] = 19 * c.x + 5 /\ v[5] = 19 * c.y + 23
  BY <1>1, <1>4, <1>8, <1>9
<1>11. u[NIVELES] = u[5] /\ v[NIVELES] = v[5]
  BY <1>1, <1>4, <1>8, <1>9, <1>10
<1> QED BY <1>4, <1>10, <1>11 DEF c

LEMMA DistMedida ==
  ASSUME NIVELES >= 5, Centro \in Celda, NEW r \in RutasPrueba, r \in Celda
  PROVE  GEOPAG_calcula_distancia(Centro, r) = Tabla52[r]
<1>1. PICK k \in 0 .. 6 : r = Ruta(k)
  BY DEF RutasPrueba, Ruta
<1> DEFINE v == Vector(Centro, r)
<1>2. v.x = 19 * GEOPAG_obten_coord[k].x + 5 /\ v.y = 19 * GEOPAG_obten_coord[k].y + 23
  BY <1>1, VectorMedido
<1>3. GEOPAG_calcula_distancia(Centro, r) = IF v.x * v.y > 0 THEN Abs(v.x) ELSE Abs(v.x) + Abs(v.y)
  BY Zenon DEF GEOPAG_calcula_distancia, Valor
<1> HIDE DEF v
<1>4. GEOPAG_calcula_distancia(Centro, r) = 19 * GEOPAG_obten_coord[k].x + 5
  <2>1. GEOPAG_obten_coord[k].x \in 0 .. 2 /\ GEOPAG_obten_coord[k].y \in 0 .. 2
    BY DEF GEOPAG_obten_coord
  <2>2. v.x \in Nat \ {0} /\ v.y \in Nat \ {0}
    BY <1>2, <2>1
  <2>3. v.x * v.y > 0 /\ Abs(v.x) = v.x
    BY <2>2 DEF Abs
  <2> QED BY <1>2, <1>3, <2>3
<1>5. k = 0 \/ k = 1 \/ k = 2 \/ k = 3 \/ k = 4 \/ k = 5 \/ k = 6
  OBVIOUS
<1>6. Tabla52[r] = 19 * GEOPAG_obten_coord[k].x + 5
  BY <1>1, <1>5 DEF Ruta, Tabla52, RutasPrueba, GEOPAG_obten_coord
<1> QED BY <1>4, <1>6

\* The distances the authors measured on their network (table 5.2 of the memoir)
\* are what the loop returns, with whichever other pairs, in a build that compares
\* the five levels their cells differ on, or more (GEOPAG.c:86-146).
THEOREM MeasuredDistances ==
  ASSUME NIVELES >= 5
  PROVE  DistSpec => []DistanciasMedidas
<1>1. DInv /\ DistanciaSegura => DistanciasMedidas
  <2> SUFFICES ASSUME DInv, DistanciaSegura, Hecho, par \in {Centro} \X RutasPrueba
               PROVE  distancia = Tabla52[par[2]]
    BY DEF DistanciasMedidas
  <2>1. par[1] = Centro /\ par[2] \in RutasPrueba /\ par[1] \in Celda /\ par[2] \in Celda
    BY ParCeldas DEF DInv
  <2> QED BY <2>1, DistMedida DEF DistanciaSegura
<1> QED
  BY <1>1, DistInicio, DistPaso, DistFinal, PTL DEF DistSpec
============================================================================
