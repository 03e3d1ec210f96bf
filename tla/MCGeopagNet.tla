---------------------------- MODULE MCGeopagNet ---------------------------
(***************************************************************************)
(* The test network of chapter 5 of the memoir: three routers in a         *)
(* triangle of links 1, 2 and 3, the agents on networks a and b, the       *)
(* access points behind dummy0 of each router (links d1, d2, d3).          *)
(* An address is a pair: <<1, cell>> in the range of the cells, <<2, n>>   *)
(* in network n of fede::, <<3, cell>> a paging group.                     *)
(***************************************************************************)
EXTENDS GeopagNet, TLC

MCNula == <<0, 0>>
MCRango == <<1, 0>>
RedA == 10   \* fede::a, the network of the first agent
RedB == 11
Clusters == {16384, 16896, 17408, 17920, 18432, 18944, 19456}   \* 4000 .. 4c00
MCDireccion == {MCNula, MCRango} \cup {<<1, c>> : c \in Clusters}
                 \cup {<<2, n>> : n \in {1, 2, 3, 7, 8, 9, RedA, RedB, 12}}
MCSitelocal == MCDireccion \ {MCNula}
MCDev == {"eth0", "eth1", "eth2", "dummy0"}

If(n, dev, k) == [direccion |-> <<2, n>>, dev_name |-> dev, nl_dev_number |-> k]
MCIfaces == [R1 |-> << If(RedA, "eth0", 1), If(2, "eth1", 2), If(1, "eth2", 3), If(7, "dummy0", 4) >>,
             R2 |-> << If(RedB, "eth0", 1), If(2, "eth1", 2), If(3, "eth2", 3), If(8, "dummy0", 4) >>,
             R3 |-> << If(12, "eth0", 1), If(1, "eth1", 2), If(3, "eth2", 3), If(9, "dummy0", 4) >>]
MCEnlace == [R1 |-> << "a", "2", "1", "d1" >>,
             R2 |-> << "b", "2", "3", "d2" >>,
             R3 |-> << "c", "1", "3", "d3" >>]
MCRouter == {"R1", "R2", "R3"}
MCSitio == {"d1", "d2", "d3"}
MCCeldas == [d1 |-> {<<1, 18432>>, <<1, 19456>>},
             d2 |-> {<<1, 17920>>, <<1, 18944>>},
             d3 |-> {<<1, 16384>>, <<1, 16896>>, <<1, 17408>>}]

\* Tables 5.3 to 5.5, the rows for the cells and for the agents' networks:
\* the interface towards 40, 42 and 44, 46 and 4a, 48 and 4c, fede::a, fede::b.
Ruta(dst, dev) == [dst |-> dst, dst_len |-> 2, metric |-> 0, dev |-> dev]
Tabla(d40, d46, d48, da, db) ==
  << Ruta(<<1, 16384>>, d40), Ruta(<<1, 16896>>, d40), Ruta(<<1, 17408>>, d40),
     Ruta(<<1, 17920>>, d46), Ruta(<<1, 18432>>, d48), Ruta(<<1, 18944>>, d46),
     Ruta(<<1, 19456>>, d48), Ruta(<<2, RedA>>, da), Ruta(<<2, RedB>>, db) >>

R1T == Tabla("eth2", "eth1", "dummy0", "eth0", "eth1")
R2T == Tabla("eth2", "dummy0", "eth1", "eth1", "eth0")
R3T == Tabla("dummy0", "eth2", "eth1", "eth1", "eth2")
Prueba1 == [R1 |-> R1T, R2 |-> R2T, R3 |-> R3T]

\* Tables 5.6 to 5.8: link 1 is down, R1 and R3 meet through R2.
R1F == Tabla("eth1", "eth1", "dummy0", "eth0", "eth1")
R3F == Tabla("dummy0", "eth2", "eth2", "eth2", "eth2")
Prueba2 == [R1 |-> R1F, R2 |-> R2T, R3 |-> R3F]

\* Tables in disagreement after R1 has lost its agent and R3 its access points:
\* for the cells 40 to 44 R1 points to R2, R2 to R3 and R3 to R1, and for the
\* agent on a the other way round, so that RPF lets a message turn round.
R1B == Tabla("eth1", "eth1", "dummy0", "eth2", "eth1")
R3B == Tabla("eth1", "eth2", "eth2", "eth2", "eth2")

\* Each router goes from any of its tables to any other on its own.
TablasRed == [R1 |-> {R1T, R1F, R1B}, R2 |-> {R2T}, R3 |-> {R3T, R3F, R3B}]

Grupo == <<3, 6708>>   \* FEC0::1A34
Msg(red, n, d) == [ip6_src |-> <<2, n>>, ip6_dst |-> Grupo, dist |-> d, red |-> red]
D34 == Msg("a", RedA, 34)
D20 == Msg("a", RedA, 20)
Dos == {D34, D20}
Uno == {"1"}

\* Table 5.2; the run Medidas finds these values in the code.
MCDistancia(grupo, dst) ==
  CASE dst[2] \in {16384, 16896} -> 5
    [] dst[2] \in {17408, 17920, 18432} -> 24
    [] OTHER -> 43

Hecho(m) == \A x \in Contexto : \A n \in DOMAIN buzon[x] : buzon[x][n].msg # m
Tras(n) == << HopLimit - n >>
Sana == tabla = Prueba1 /\ caidos = {}
SinEnlace1 == tabla = Prueba2 /\ caidos = Uno

\* What the authors saw of a message sent to a network that has settled (memoir
\* 5.4.4, 5.5.4), whatever a transition before it left in the queues.  With
\* distance 34 it is seen once on dummy0 of each router, with 20 only on that
\* of R3, with one hop less for each router behind it, one more of them without
\* link 1; of the copies that meet on link 3 RPF lets one through.
ResultadoPruebas ==
  /\ D34 \in quietos /\ Hecho(D34) =>
       /\ Sana => entregas[D34] = [d1 |-> Tras(1), d2 |-> Tras(2), d3 |-> Tras(2)]
       /\ SinEnlace1 => entregas[D34] = [d1 |-> Tras(1), d2 |-> Tras(2), d3 |-> Tras(3)]
  /\ D20 \in quietos /\ Hecho(D20) =>
       /\ Sana => entregas[D20] = [d1 |-> << >>, d2 |-> << >>, d3 |-> Tras(2)]
       /\ SinEnlace1 => entregas[D20] = [d1 |-> << >>, d2 |-> << >>, d3 |-> Tras(3)]

\* Such a message reaches its whole area, unless the network changes again.
AvisaEnReposo ==
  \A m \in Mensaje :
    m \in quietos /\ (Sana \/ SinEnlace1)
      ~> m \notin quietos \/ \A s \in Area[m] : entregas[m][s] # << >>
============================================================================
