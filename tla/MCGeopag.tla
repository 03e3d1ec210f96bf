------------------------------ MODULE MCGeopag ----------------------------
(***************************************************************************)
(* Instances of Geopag: cells of three levels below a common prefix, and   *)
(* the cells of the tests in chapter 5 of the memoir.                      *)
(***************************************************************************)
EXTENDS Geopag

Etiquetas == {0, 1, 3, 4, 5, 6}
Celdas3 == {64 * a + 8 * b + c : a, b, c \in Etiquetas}

\* Table 5.2 of the memoir: the test packets are centred on FEC0::1A34, cell
\* 0.1.5.0.6.4; the routes are clusters of level 4.
Centro == 6708
RutasPrueba == {16384, 16896, 17408, 17920, 18432, 18944, 19456}
Tabla52 ==
  [r \in RutasPrueba |-> CASE r \in {16384, 16896} -> 5
                         [] r \in {17408, 17920, 18432} -> 24
                         [] r \in {18944, 19456} -> 43]

ParesTodos == (Celdas3 \X {64 * a + 8 * a + b : a, b \in Etiquetas})
                \cup ({Centro} \X RutasPrueba)
\* The distances the authors measured with this code (table 5.2).
DistanciasMedidas ==
  Hecho /\ par \in {Centro} \X RutasPrueba => distancia = Tabla52[par[2]]
============================================================================
