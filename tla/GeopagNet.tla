----------------------------- MODULE GeopagNet ----------------------------
(***************************************************************************)
(* A network of Geopaging routers.  Each router is taken as the module     *)
(* Decision describes it, with a table that is whole whenever it is read   *)
(* (GeopagRouter looks inside); a context takes the packets of its         *)
(* interface in the order they came.  The routing daemons change the       *)
(* tables, of each router on its own, and a link may fail.  A link that    *)
(* has not failed carries every copy written to it: a libnet_write that    *)
(* fails is in GeopagRouter.                                               *)
(***************************************************************************)
EXTENDS RT, SequencesExt

CONSTANTS
  GEOPAG_calcula_distancia(_, _),
  Router,
  Ifaces,       \* the list todas_ifaces of each router
  Enlace,       \* the link of each entry of those lists
  Sitio,        \* the links to access points: no router listens at their end
  Celdas,       \* the cells behind each of them
  Tablas,       \* the tables each router may have
  Mensaje,      \* [ip6_src, ip6_dst, dist, red]: what the agents send, and where
  HopLimit,     \* the hop limit they send with
  Fragil        \* links that may fail

Redes == UNION {Range(Enlace[r]) : r \in Router}

ASSUME RedAssumption ==
  /\ HopLimit \in Nat
  /\ \A m \in Mensaje : m.ip6_src \in Direccion /\ m.red \in Redes
  /\ Sitio \cup Fragil \subseteq Redes
  /\ \A r \in Router : DOMAIN Enlace[r] = DOMAIN Ifaces[r] /\ IsFiniteSet(DOMAIN Ifaces[r])

R(r) == INSTANCE Decision WITH todas_ifaces <- Ifaces[r]

Contexto == UNION {{r} \X R(r)!ifaces_activas : r \in Router}

VARIABLES
  tabla,        \* of each router
  buzon,        \* what each context has yet to take from its interface
  emitidos,     \* messages sent
  caidos,       \* links that have failed
  entregas,     \* the copies handed to each site, by message
  quietos       \* history: messages sent since a table or a link last changed

vars == << tabla, buzon, emitidos, caidos, entregas, quietos >>

Copia(m, h) == [msg |-> m, hlim |-> h]

\* The capture of x, with its filter: every frame of the link but those of the
\* router itself.
Oye(x, red, emisor) ==
  Enlace[x[1]][x[2]] = red /\ x[1] # emisor /\ red \notin caidos

\* The queues b after emisor has sent salen[red] equal copies on each link.
Reparte(b, copia, salen, emisor) ==
  [x \in Contexto |->
     LET red == Enlace[x[1]][x[2]]
     IN  IF Oye(x, red, emisor) THEN b[x] \o [n \in 1 .. salen[red] |-> copia]
                                ELSE b[x]]

Agente == "agente"   \* an agent is not a router

Init ==
  /\ tabla \in {t \in [Router -> UNION {Tablas[r] : r \in Router}] :
                  \A r \in Router : t[r] \in Tablas[r]}
  /\ buzon = [x \in Contexto |-> << >>]
  /\ emitidos = {}
  /\ caidos = {}
  /\ entregas = [m \in Mensaje |-> [s \in Sitio |-> << >>]]
  /\ quietos = {}
----------------------------------------------------------------------------
\* A paging agent sends a message.
Emite(m) ==
  /\ m \notin emitidos
  /\ emitidos' = emitidos \cup {m}
  /\ quietos' = quietos \cup {m}
  /\ LET salen == [red \in Redes |-> IF red = m.red THEN 1 ELSE 0]
     IN  buzon' = Reparte(buzon, Copia(m, HopLimit), salen, Agente)
  /\ UNCHANGED << tabla, caidos, entregas >>

\* Mutant: the copies keep the hop limit.
SaltosIguales(h) == h

SaltosMenosUno(h) == h - 1

\* The entries GEOPAG_router forwards packet p of context x to.
Bajan(x, p) == IF p.hlim > 1 THEN R(x[1])!Decide(tabla[x[1]], p.msg, x[2]) ELSE {}

\* The oldest packet of context x.
Procesa(x) ==
  /\ buzon[x] # << >>
  /\ \E bajan \in {Bajan(x, Head(buzon[x]))} :
       LET r == x[1]
           p == Head(buzon[x])
           hlim == SaltosMenosUno(p.hlim)
           salen == [red \in Redes |-> Cardinality({k \in bajan : Enlace[r][k] = red})]
       IN  /\ buzon' = Reparte([buzon EXCEPT ![x] = Tail(@)], Copia(p.msg, hlim),
                               salen, r)
           /\ entregas' = [entregas EXCEPT ![p.msg] =
                [s \in Sitio |-> @[s] \o [n \in 1 .. salen[s] |-> hlim]]]
  /\ UNCHANGED << tabla, emitidos, caidos, quietos >>

\* The routing daemon of r has another table, and the updater has read it.
CambiaTabla(r) ==
  /\ tabla' \in {[tabla EXCEPT ![r] = t] : t \in Tablas[r] \ {tabla[r]}}
  /\ quietos' = {}
  /\ UNCHANGED << buzon, emitidos, caidos, entregas >>

\* A link fails; what was captured before stays in the queues.
Cae(red) ==
  /\ red \notin caidos
  /\ caidos' = caidos \cup {red}
  /\ quietos' = {}
  /\ UNCHANGED << tabla, buzon, emitidos, entregas >>

Next == \/ \E m \in Mensaje : Emite(m)
        \/ \E x \in Contexto : Procesa(x)
        \/ \E r \in Router : CambiaTabla(r)
        \/ \E red \in Fragil : Cae(red)

Spec == Init /\ [][Next]_vars

\* No context is idle for ever with a packet to take.
FairSpec == Spec /\ \A x \in Contexto : WF_vars(Procesa(x))
----------------------------------------------------------------------------
Area ==
  [m \in Mensaje |-> {s \in Sitio : \E dst \in Celdas[s] :
                        GEOPAG_calcula_distancia(m.ip6_dst, dst) <= m.dist}]

A == INSTANCE AreaPaging WITH
       avisos <- {a \in Mensaje \X Sitio : entregas[a[1]][a[2]] # << >>}

\* The network pages areas: a site is handed a message only after it was sent
\* and when it has a cell within its distance (GEOPAG.c:167-170).
AvisaElArea == A!Spec

\* Whatever loop the tables make, every copy leaves the network: the hop limit
\* ends what RPF lets turn round (GEOPAG.c:176-178).
SeVacia == <>[](\A x \in Contexto : buzon[x] = << >>)
============================================================================
