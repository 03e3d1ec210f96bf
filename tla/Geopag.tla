------------------------------- MODULE Geopag -----------------------------
(***************************************************************************)
(* The distance between two cells (Mcast/src/GEOPAG.c).  A cell is the     *)
(* low end of an IPv6 address, three bits per level of the cluster         *)
(* hierarchy, the lowest level last; it is written here as that number.    *)
(* The module gives the distance as a function, for the router, and steps  *)
(* through the loop that computes it.                                      *)
(*                                                                         *)
(* GEOPAG_parse_IDcelda_desde_IPV6 also stores an eighth label in id[-1],  *)
(* outside the array; in the build kept in the repository that word is not *)
(* used by anything else, so it has no effect here.                        *)
(***************************************************************************)
EXTENDS Integers, FiniteSetsExt

CONSTANTS
  NIVELES,     \* levels the build compares, 7 by default
  Pares        \* the pairs of cells to measure: center of the paging, route

Nivel == 0 .. NIVELES - 1      \* 0 is the lowest one, index NIVELES-1 in C
Celda == 0 .. 8 ^ NIVELES - 1

ASSUME GeopagAssumption ==
  /\ NIVELES \in 1 .. 7
  /\ Pares \subseteq Celda \X Celda

\* Three bits of the address.
GEOPAG_parse_IDcelda_desde_IPV6(dir) == [l \in Nivel |-> (dir \div 8 ^ l) % 8]

\* The axes are at 120 degrees; 7 stands for the center of the cluster.
GEOPAG_obten_coord ==
  [x \in 0 .. 7 |->
     CASE x = 0 -> [x |-> 0, y |-> 0]
       [] x = 1 -> [x |-> 0, y |-> 1]
       [] x = 2 -> [x |-> 1, y |-> 0]
       [] x \in {3, 7} -> [x |-> 1, y |-> 1]
       [] x = 4 -> [x |-> 1, y |-> 2]
       [] x = 5 -> [x |-> 2, y |-> 1]
       [] x = 6 -> [x |-> 2, y |-> 2]]

\* Mutant: the table 4.1 of the memoir, where R of level 4 is printed 59.
RImpreso == [l \in Nivel |-> << 1, 3, 8, 19, 59, 130, 344 >>[l + 1]]

\* The size of a cluster: the integer part of 7^(l/2) + 1, but 1 for a cell.
R == [l \in Nivel |->
        IF l = 0 THEN 1
        ELSE 1 + CHOOSE r \in 0 .. 400 : r * r <= 7 ^ l /\ 7 ^ l < (r + 1) * (r + 1)]

\* The matrix difM.
Diferencia(a, b) ==
  LET id1 == GEOPAG_parse_IDcelda_desde_IPV6(a)
      id2 == GEOPAG_parse_IDcelda_desde_IPV6(b)
  IN  [l \in Nivel |->
         [x |-> GEOPAG_obten_coord[id2[l]].x - GEOPAG_obten_coord[id1[l]].x,
          y |-> GEOPAG_obten_coord[id2[l]].y - GEOPAG_obten_coord[id1[l]].y]]

Abs(n) == IF n < 0 THEN -n ELSE n

\* Mutant: a zero component counts as one of equal sign.
ValorConCero(v) == IF v.x * v.y >= 0 THEN Abs(v.x) ELSE Abs(v.x) + Abs(v.y)

\* Both arms of the test for equal signs return the first component.
Valor(v) == IF v.x * v.y > 0 THEN Abs(v.x) ELSE Abs(v.x) + Abs(v.y)

\* What the levels add up to, from the lowest one.
Sumas(f) ==
  LET S[n \in 0 .. NIVELES] == IF n = 0 THEN 0 ELSE S[n - 1] + f[n - 1]
  IN  S

Vector(a, b) ==
  LET dif == Diferencia(a, b)
  IN  [x |-> Sumas([l \in Nivel |-> R[l] * dif[l].x])[NIVELES],
       y |-> Sumas([l \in Nivel |-> R[l] * dif[l].y])[NIVELES]]

GEOPAG_calcula_distancia(a, b) == Valor(Vector(a, b))
----------------------------------------------------------------------------
VARIABLES par, nivel, Dv, distancia
distvars == << par, nivel, Dv, distancia >>

SinCalcular == -1

DistInit == /\ par \in Pares
            /\ nivel = 0
            /\ Dv = [x |-> 0, y |-> 0]
            /\ distancia = SinCalcular

\* One iteration of the loop of line 118.
Acumula ==
  /\ nivel < NIVELES
  /\ LET d == Diferencia(par[1], par[2])[nivel]
     IN  Dv' = [x |-> Dv.x + R[nivel] * d.x, y |-> Dv.y + R[nivel] * d.y]
  /\ nivel' = nivel + 1
  /\ UNCHANGED << par, distancia >>

Devuelve ==
  /\ nivel = NIVELES /\ distancia = SinCalcular
  /\ distancia' = Valor(Dv)
  /\ UNCHANGED << par, nivel, Dv >>

DistNext == Acumula \/ Devuelve

DistSpec == DistInit /\ [][DistNext]_distvars
----------------------------------------------------------------------------
Hecho == distancia # SinCalcular

\* Crowns between two cells whose difference is v: the length of a shortest
\* path on a hexagonal grid with axes at 120 degrees.
Coronas(v) ==
  IF v.x * v.y > 0 THEN Max({Abs(v.x), Abs(v.y)}) ELSE Abs(v.x) + Abs(v.y)

\* The loop computes the function the router decides with, the distance is the
\* same in both directions, and it never counts more crowns than there are:
\* no cell of the paging area is left out (GEOPAG.c:118-135).
DistanciaSegura ==
  Hecho => /\ distancia = GEOPAG_calcula_distancia(par[1], par[2])
           /\ distancia = GEOPAG_calcula_distancia(par[2], par[1])
           /\ distancia <= Coronas(Vector(par[1], par[2]))
           /\ distancia = 0 <=> Vector(par[1], par[2]) = [x |-> 0, y |-> 0]
============================================================================
