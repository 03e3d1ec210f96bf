------------------------------ MODULE Decision ----------------------------
(***************************************************************************)
(* The forwarding decision of a Geopaging router (GEOPAG_router, steps 2   *)
(* and 3, in Mcast/src/GEOPAG.c) as a function of a table that does not    *)
(* change while it is being taken.                                         *)
(***************************************************************************)
EXTENDS IFS

CONSTANT GEOPAG_calcula_distancia(_, _)   \* the module Geopag defines it

\* Mutant: the distance is not looked at.
EnAreaSinDistancia(filas, p, c) ==
  LET via(k) == RT_filtra_por_ifaz(RT_filtra_sitelocals_por_rango(filas), nombre(k))
  IN  {k \in IFS_crear_lista_ifaces_child(c) : via(k) # {}}

\* Mutant: variable_control is not set back for the next interface.
EnAreaUna(filas, p, c) ==
  LET via(k) == RT_filtra_por_ifaz(RT_filtra_sitelocals_por_rango(filas), nombre(k))
      bien == {k \in IFS_crear_lista_ifaces_child(c) :
                 \E r \in via(k) : GEOPAG_calcula_distancia(p.ip6_dst, r.dst) <= p.dist}
  IN  {k \in bien : \A m \in bien : m <= k}

\* The children that lead to a cell within the distance of the packet.
EnArea(filas, p, c) ==
  LET via(k) == RT_filtra_por_ifaz(RT_filtra_sitelocals_por_rango(filas), nombre(k))
  IN  {k \in IFS_crear_lista_ifaces_child(c) :
         \E r \in via(k) : GEOPAG_calcula_distancia(p.ip6_dst, r.dst) <= p.dist}

\* Mutant: a packet is good whatever interface it came by.
DecideSinRPF(filas, p, c) == EnArea(filas, p, c)

\* The entries a packet with hops left is forwarded to: none unless it came to
\* context c by the interface that leads to its source.
Decide(filas, p, c) ==
  IF \E k \in IFS_consigue_struct_ifaz(RT_busca_ifaz_uplink(filas, p.ip6_src)) :
       IFS_compara(c, k)
  THEN EnArea(filas, p, c)
  ELSE {}
============================================================================
