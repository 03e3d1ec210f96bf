--------------------------- MODULE GeopagRouter ---------------------------
(***************************************************************************)
(* One Geopaging router process (Mcast/src/main.c, RT.c, PCAP.c, GEOPAG.c, *)
(* NET.c).  Its threads:                                                   *)
(*                                                                         *)
(*   - the updater, which rebuilds the global table todas_rutas from       *)
(*     /proc/net/ipv6_route every three seconds, for ever, in place;       *)
(*   - one context per active interface entry, which takes the packets of  *)
(*     its interface and forwards them after four checks, reading the same *)
(*     global table.                                                       *)
(*                                                                         *)
(* There is no lock, so every access to the shared table is a step of its  *)
(* own, in the order of the C statements; what a thread does on its own    *)
(* data is folded into the neighbouring step.  Memory is taken to be       *)
(* sequentially consistent and a name of ten bytes to be copied at once.   *)
(***************************************************************************)
EXTENDS Decision, SequencesExt

CONSTANTS
  Tablas,        \* the tables the kernel may hold, sequences of rows
  Origen,        \* source addresses of packets
  Grupo,         \* multicast destinations, the cells where paging is centred
  MaxHop,        \* largest hop limit of a packet
  Distancias,    \* paging distances, also what an unset "distance" may hold
  SinDato,       \* a packet whose option does not begin with the distance text
  MAX_RUTAS      \* rows of todas_rutas

\* Every table has a line (the loopback and link-local routes); nothing says
\* that its lines, or its site-local ones, fit in the array.
ASSUME TablasAssumption ==
  /\ MAX_RUTAS \in Nat
  /\ Tablas \subseteq Seq(Fila)
  /\ << >> \notin Tablas

ASSUME PaqueteAssumption ==
  /\ Origen \subseteq Direccion /\ Origen # {}
  /\ Grupo # {}
  /\ MaxHop \in Nat
  /\ Distancias \subseteq Int /\ Distancias # {}
  /\ SinDato \notin Distancias

\* nxt: the next header field; dist: the text of the extension header.
Paquete == [ip6_src : Origen, ip6_dst : Grupo, ip6_hlim : 0 .. MaxHop,
            nxt : {"hopopts", "dstopts", "udp"},
            dist : Distancias \cup {SinDato}]

\* What GEOPAG_router is given of a packet.
Cabecera == [ip6_src : Origen, ip6_dst : Grupo, ip6_hlim : 0 .. MaxHop,
             dist : Distancias]

Ctx == ifaces_activas

VARIABLES
  kernel,      \* the kernel's routing table, as /proc shows it
  \* todas_rutas, shared by all threads
  cantidad, ruta,
  \* RT_parsea_from_proc: where it is, lines counted, the rows its fscanf calls
  \* give, the row just parsed, iterations done, field being stored
  upc, contador, lineas, fila, j, campo,
  \* main: its phase and the contexts it has created
  fase, creados,
  \* a context: where it is, its packet, the row index of its loop, the length
  \* passed to UTIL_compare_network, rutas_rango_IDceldas and the row being
  \* copied to it, the downlink entries, those given to libnet_write
  pc, pkt, i, mascara, rutas, copia, downlink, inyectadas,
  vivo,        \* exit() has not been called, nor a row stored past the array
  enviadas,    \* history: the entries whose libnet_write did send the copy
  \* history: what the updater did since this context began its search,
  \* "nada", "crece" (rows were published) or "pisada" (the table was wiped)
  intrusion

tabla  == << cantidad, ruta >>
upd    == << upc, contador, lineas, fila, j, campo >>
main   == << fase, creados >>
bucle  == << i, mascara, rutas, copia >>
local  == << pkt, bucle, downlink, inyectadas, enviadas >>
vars   == << kernel, tabla, upd, main, pc, local, vivo, intrusion >>

\* Mutant: the name of the interface is not stored.
CamposSinDev == << "dst", "dst_len", "metric" >>

Campos == << "dst", "dst_len", "metric", "dev" >>   \* order of lines 39-51

Publicadas == [n \in 1 .. cantidad |-> ruta[n]]

CabeceraNula == CHOOSE p \in Cabecera : TRUE
CopiaNula == [dst |-> Nula, dev |-> SinDev]

Init ==
  /\ kernel \in Tablas
  /\ cantidad = 0 /\ ruta = [n \in 1 .. MAX_RUTAS |-> FilaNula]
  /\ upc = "cuenta" /\ contador = 0 /\ lineas = << >> /\ fila = FilaNula
  /\ j = 0 /\ campo = 1
  /\ fase = "parsea" /\ creados = {}
  /\ pc = [c \in Ctx |-> "espera"]
  /\ pkt = [c \in Ctx |-> CabeceraNula]
  /\ i = [c \in Ctx |-> 1]
  /\ mascara = [c \in Ctx |-> 0]
  /\ rutas = [c \in Ctx |-> {}]
  /\ copia = [c \in Ctx |-> CopiaNula]
  /\ downlink = [c \in Ctx |-> {}]
  /\ inyectadas = [c \in Ctx |-> {}]
  /\ enviadas = [c \in Ctx |-> {}]
  /\ vivo = TRUE
  /\ intrusion = [c \in Ctx |-> "nada"]
----------------------------------------------------------------------------
\* The kernel's table changes under the process (a routing daemon, ip route).
CambiaKernel ==
  /\ kernel' \in Tablas \ {kernel}
  /\ UNCHANGED << tabla, upd, main, pc, local, vivo, intrusion >>

\* sleep (3) is over.  Only the updater sleeps; the first pass is main's.
Despierta ==
  /\ vivo
  /\ fase = "espera" /\ upc = "duerme"
  /\ upc' = "cuenta"
  /\ UNCHANGED << kernel, tabla, contador, lineas, fila, j, campo, main, pc,
                  local, vivo, intrusion >>

\* Mutant: the lines are counted in the first pass only.
LineasDelPrincipio == IF contador = 0 THEN Len(kernel) ELSE contador

\* UTIL_get_number_of_lines
NumeroDeLineas == Len(kernel)

\* fopen and the first reading of the file.
Cuenta ==
  /\ vivo
  /\ upc = "cuenta"
  /\ contador' = NumeroDeLineas
  /\ upc' = "limpia"
  /\ UNCHANGED << kernel, tabla, lineas, fila, j, campo, main, pc, local, vivo,
                  intrusion >>

\* Mutant: the rows are cleared, cantidad is not.
LimpiaSoloFilas ==
  /\ vivo
  /\ upc = "limpia"
  /\ ruta' = [n \in 1 .. MAX_RUTAS |-> FilaNula]
  /\ lineas' = << >> /\ fila' = FilaNula /\ j' = 0
  /\ upc' = "limpiaNombres"
  /\ UNCHANGED << kernel, cantidad, contador, campo, main, pc, local, vivo,
                  intrusion >>

\* memset of todas_rutas.  It goes up through the structure, cantidad first
\* and each row's name after its other fields: two steps keep that order for
\* the row a context is reading.
Limpia ==
  /\ vivo
  /\ upc = "limpia"
  /\ cantidad' = 0
  /\ ruta' = [n \in 1 .. MAX_RUTAS |-> [FilaNula EXCEPT !.dev = ruta[n].dev]]
  /\ lineas' = << >> /\ fila' = FilaNula /\ j' = 0
  /\ upc' = "limpiaNombres"
  /\ intrusion' = [c \in Ctx |-> IF pc[c] = "espera" THEN "nada" ELSE "pisada"]
  /\ UNCHANGED << kernel, contador, campo, main, pc, local, vivo >>

LimpiaNombres ==
  /\ vivo
  /\ upc = "limpiaNombres"
  /\ ruta' = [n \in 1 .. MAX_RUTAS |-> FilaNula]
  /\ upc' = "relee"
  /\ UNCHANGED << kernel, cantidad, contador, lineas, fila, j, campo, main, pc,
                  local, vivo, intrusion >>

\* The first fscanf after rewind brings the file in again, all the lines in
\* one block; the kernel's table may have changed since they were counted.
Relee ==
  /\ vivo
  /\ upc = "relee"
  /\ lineas' = Lectura(kernel, contador)
  /\ upc' = "lee"
  /\ UNCHANGED << kernel, tabla, contador, fila, j, campo, main, pc, local,
                  vivo, intrusion >>

\* One iteration up to the test of line 37: a site-local row is stored next,
\* any other line is skipped.
Lee ==
  /\ vivo
  /\ upc = "lee" /\ j < contador
  /\ fila' = lineas[j + 1]
  /\ IF fila'.dst \in Sitelocal
     THEN upc' = "guarda" /\ campo' = 1 /\ j' = j
     ELSE j' = j + 1 /\ UNCHANGED << upc, campo >>
  /\ UNCHANGED << kernel, tabla, contador, lineas, main, pc, local, vivo,
                  intrusion >>

\* One field of the row after the last published one.
Guarda ==
  /\ vivo
  /\ upc = "guarda" /\ cantidad < MAX_RUTAS
  /\ LET f == Campos[campo]
     IN  ruta' = [ruta EXCEPT ![cantidad + 1][f] = fila[f]]
  /\ IF campo < Len(Campos)
     THEN campo' = campo + 1 /\ UNCHANGED upc
     ELSE upc' = "publica" /\ UNCHANGED campo
  /\ UNCHANGED << kernel, cantidad, contador, lineas, fila, j, main, pc, local,
                  vivo, intrusion >>

\* rts->cantidad++
Publica ==
  /\ vivo
  /\ upc = "publica"
  /\ cantidad' = cantidad + 1
  /\ j' = j + 1
  /\ upc' = "lee"
  /\ intrusion' = [c \in Ctx |->
       IF pc[c] # "espera" /\ intrusion[c] = "nada" THEN "crece" ELSE intrusion[c]]
  /\ UNCHANGED << kernel, ruta, contador, lineas, fila, campo, main, pc, local,
                  vivo >>

\* fclose; after the first pass main goes on to create the threads.
Cierra ==
  /\ vivo
  /\ upc = "lee" /\ j = contador
  /\ upc' = "duerme"
  /\ fase' = IF fase = "parsea" THEN "crea" ELSE fase
  /\ UNCHANGED << kernel, tabla, contador, lineas, fila, j, campo, creados, pc,
                  local, vivo, intrusion >>

\* pthread_create of the updater, before any context.
CreaActualizador ==
  /\ vivo
  /\ fase = "crea"
  /\ fase' = "espera"
  /\ UNCHANGED << kernel, tabla, upd, creados, pc, local, vivo, intrusion >>

\* pthread_create of the contexts, in list order.
CreaContexto(c) ==
  /\ vivo
  /\ fase = "espera"
  /\ c \notin creados /\ \A k \in Ctx : k > c => k \in creados
  /\ creados' = creados \cup {c}
  /\ UNCHANGED << kernel, tabla, upd, fase, pc, local, vivo, intrusion >>
----------------------------------------------------------------------------
(***************************************************************************)
(* A context.                                                              *)
(***************************************************************************)

\* GEOPAG_router returns to pcap_loop; its local variables are gone.
Acaba(c) == /\ pc' = [pc EXCEPT ![c] = "espera"]
            /\ intrusion' = [intrusion EXCEPT ![c] = "nada"]
            /\ pkt' = [pkt EXCEPT ![c] = CabeceraNula]
            /\ i' = [i EXCEPT ![c] = 1]
            /\ mascara' = [mascara EXCEPT ![c] = 0]
            /\ rutas' = [rutas EXCEPT ![c] = {}]
            /\ copia' = [copia EXCEPT ![c] = CopiaNula]
            /\ downlink' = [downlink EXCEPT ![c] = {}]
            /\ inyectadas' = [inyectadas EXCEPT ![c] = {}]
            /\ enviadas' = [enviadas EXCEPT ![c] = {}]

\* What sscanf leaves in the local "distance": the number, or, when the text
\* is not at the start of the hop-by-hop options or the extension header is
\* another one, whatever the variable held.
Distancia(p) ==
  IF p.nxt = "hopopts" /\ p.dist # SinDato THEN {p.dist} ELSE Distancias

\* PCAP_receptor_msg: a packet of the multicast range arrives, sent by another
\* machine.  Without an extension header it is ignored.
Recibe(c) ==
  /\ vivo
  /\ c \in creados /\ pc[c] = "espera"
  /\ \E p \in Paquete :
       /\ p.nxt \in {"hopopts", "dstopts"}
       /\ \E d \in Distancia(p) :
            pkt' = [pkt EXCEPT ![c] = [ip6_src |-> p.ip6_src, ip6_dst |-> p.ip6_dst,
                                       ip6_hlim |-> p.ip6_hlim, dist |-> d]]
  /\ pc' = [pc EXCEPT ![c] = "paso1"]
  /\ UNCHANGED << kernel, tabla, upd, main, bucle, downlink, inyectadas,
                  enviadas, vivo, intrusion >>

\* Mutant: an unsigned is never less than zero.
SobreviveSiempre(p) == p.ip6_hlim >= 0

Sobrevive(p) == p.ip6_hlim > 1

\* PASO 1: the hop limit.
Paso1(c) ==
  /\ vivo
  /\ pc[c] = "paso1"
  /\ Sobrevive(pkt[c])
  /\ pkt' = [pkt EXCEPT ![c].ip6_hlim = @ - 1]
  /\ pc' = [pc EXCEPT ![c] = "busca"]
  /\ intrusion' = [intrusion EXCEPT ![c] = "nada"]
  /\ UNCHANGED << kernel, tabla, upd, main, bucle, downlink, inyectadas,
                  enviadas, vivo >>

Paso1Descarta(c) ==
  /\ vivo
  /\ pc[c] = "paso1"
  /\ ~Sobrevive(pkt[c])
  /\ Acaba(c)
  /\ UNCHANGED << kernel, tabla, upd, main, vivo >>

\* Mutant: the last row is never looked at.
QuedanMenosUna(c) == i[c] < cantidad

\* Mutant: the row being stored is looked at too.
QuedanUnaMas(c) == i[c] <= cantidad + 1

\* The test of the loops over the shared table.
Quedan(c) == i[c] <= cantidad

\* PASO 2a, RT_busca_ifaz_uplink: the loop test.
Busca(c) ==
  /\ vivo
  /\ pc[c] = "busca"
  /\ IF Quedan(c)
     THEN pc' = [pc EXCEPT ![c] = "metrica"] /\ UNCHANGED << local, intrusion >>
     ELSE Acaba(c)
  /\ UNCHANGED << kernel, tabla, upd, main, vivo >>

\* if (rts->ruta[i].metric==-1) return -1
BuscaMetrica(c) ==
  /\ vivo
  /\ pc[c] = "metrica"
  /\ IF ruta[i[c]].metric = Unreachable
     THEN Acaba(c)
     ELSE pc' = [pc EXCEPT ![c] = "mascara"] /\ UNCHANGED << local, intrusion >>
  /\ UNCHANGED << kernel, tabla, upd, main, vivo >>

\* The length is an argument by value, read before the network it goes with.
BuscaMascara(c) ==
  /\ vivo
  /\ pc[c] = "mascara"
  /\ mascara' = [mascara EXCEPT ![c] = ruta[i[c]].dst_len]
  /\ pc' = [pc EXCEPT ![c] = "red"]
  /\ UNCHANGED << kernel, tabla, upd, main, pkt, i, rutas, copia, downlink,
                  inyectadas, enviadas, vivo, intrusion >>

BuscaRed(c) ==
  /\ vivo
  /\ pc[c] = "red"
  /\ IF Coincide(ruta[i[c]].dst, pkt[c].ip6_src, mascara[c])
     THEN pc' = [pc EXCEPT ![c] = "dev"] /\ UNCHANGED i
     ELSE pc' = [pc EXCEPT ![c] = "busca"] /\ i' = [i EXCEPT ![c] = @ + 1]
  /\ UNCHANGED << kernel, tabla, upd, main, pkt, mascara, rutas, copia,
                  downlink, inyectadas, enviadas, vivo, intrusion >>

\* PASO 2b: the entry with that name is on the interface of the context.
LlegoPor(c, dev) == \E k \in IFS_consigue_struct_ifaz(dev) : IFS_compara(c, k)

\* strcpy of the name, then PASO 2b on the context's own data.
BuscaDev(c) ==
  /\ vivo
  /\ pc[c] = "dev"
  /\ IF LlegoPor(c, ruta[i[c]].dev)
     THEN /\ pc' = [pc EXCEPT ![c] = "filtra"]
          /\ i' = [i EXCEPT ![c] = 1]
          /\ UNCHANGED << pkt, mascara, rutas, copia, downlink, inyectadas,
                          enviadas, intrusion >>
     ELSE Acaba(c)
  /\ UNCHANGED << kernel, tabla, upd, main, vivo >>

\* PASO 3, RT_filtra_sitelocals_por_rango: the loop test.
Filtra(c) ==
  /\ vivo
  /\ pc[c] = "filtra"
  /\ pc' = [pc EXCEPT ![c] = IF Quedan(c) THEN "rango" ELSE "elige"]
  /\ UNCHANGED << kernel, tabla, upd, main, local, vivo, intrusion >>

\* Mutant: a row out of range is looked at again.
FiltraRangoSinAvanzar(c) ==
  /\ vivo
  /\ pc[c] = "rango"
  /\ pc' = [pc EXCEPT ![c] = IF EnRango(ruta[i[c]].dst) THEN "copia" ELSE "filtra"]
  /\ UNCHANGED << kernel, tabla, upd, main, local, vivo, intrusion >>

\* if (UTIL_compare_network (dst, rango, 64))
FiltraRango(c) ==
  /\ vivo
  /\ pc[c] = "rango"
  /\ IF EnRango(ruta[i[c]].dst)
     THEN pc' = [pc EXCEPT ![c] = "copia"] /\ UNCHANGED i
     ELSE pc' = [pc EXCEPT ![c] = "filtra"] /\ i' = [i EXCEPT ![c] = @ + 1]
  /\ UNCHANGED << kernel, tabla, upd, main, pkt, mascara, rutas, copia,
                  downlink, inyectadas, enviadas, vivo, intrusion >>

\* memcpy of the row: its first field and its last one.
FiltraCopia(c) ==
  /\ vivo
  /\ pc[c] = "copia"
  /\ copia' = [copia EXCEPT ![c].dst = ruta[i[c]].dst]
  /\ pc' = [pc EXCEPT ![c] = "copiaDev"]
  /\ UNCHANGED << kernel, tabla, upd, main, pkt, i, mascara, rutas, downlink,
                  inyectadas, enviadas, vivo, intrusion >>

FiltraCopiaDev(c) ==
  /\ vivo
  /\ pc[c] = "copiaDev"
  /\ rutas' = [rutas EXCEPT ![c] =
                 @ \cup {[dst |-> copia[c].dst, dev |-> ruta[i[c]].dev]}]
  /\ copia' = [copia EXCEPT ![c] = CopiaNula]
  /\ i' = [i EXCEPT ![c] = @ + 1]
  /\ pc' = [pc EXCEPT ![c] = "filtra"]
  /\ UNCHANGED << kernel, tabla, upd, main, pkt, mascara, downlink, inyectadas,
                  enviadas, vivo, intrusion >>

\* The rest of PASO 3 works on the context's copy: the children that lead to a
\* cell within the distance.
Elige(c) ==
  /\ vivo
  /\ pc[c] = "elige"
  /\ LET bajan == {k \in IFS_crear_lista_ifaces_child(c) :
                     \E r \in RT_filtra_por_ifaz(rutas[c], nombre(k)) :
                        GEOPAG_calcula_distancia(pkt[c].ip6_dst, r.dst)
                          <= pkt[c].dist}
     IN  IF bajan = {}
         THEN Acaba(c)
         ELSE /\ downlink' = [downlink EXCEPT ![c] = bajan]
              /\ pc' = [pc EXCEPT ![c] = "inyecta"]
              /\ UNCHANGED << pkt, bucle, inyectadas, enviadas, intrusion >>
  /\ UNCHANGED << kernel, tabla, upd, main, vivo >>

\* Mutant: the copies end at the first libnet_write that fails.
InyectaHastaFallo(c) ==
  /\ vivo
  /\ pc[c] = "inyecta"
  /\ \E k \in downlink[c] \ inyectadas[c] :
       /\ \A m \in downlink[c] \ inyectadas[c] : m <= k
       /\ \/ /\ inyectadas' = [inyectadas EXCEPT ![c] = @ \cup {k}]
             /\ enviadas' = [enviadas EXCEPT ![c] = @ \cup {k}]
             /\ UNCHANGED << pc, pkt, bucle, downlink, intrusion >>
          \/ Acaba(c)
  /\ UNCHANGED << kernel, tabla, upd, main, vivo >>

\* PASO 4: NET_libnet_inject on the next downlink entry, in list order.  A
\* libnet_write that fails is printed, its result is not looked at and the
\* loop goes on: that copy is not sent.
Inyecta(c) ==
  /\ vivo
  /\ pc[c] = "inyecta"
  /\ \E k \in downlink[c] \ inyectadas[c] :
       /\ \A m \in downlink[c] \ inyectadas[c] : m <= k
       /\ inyectadas' = [inyectadas EXCEPT ![c] = @ \cup {k}]
       /\ \/ enviadas' = [enviadas EXCEPT ![c] = @ \cup {k}]
          \/ UNCHANGED enviadas
  /\ UNCHANGED << kernel, tabla, upd, main, pc, pkt, bucle, downlink, vivo,
                  intrusion >>

\* The loop is over: return 0.
Devuelve(c) ==
  /\ vivo
  /\ pc[c] = "inyecta" /\ inyectadas[c] = downlink[c]
  /\ Acaba(c)
  /\ UNCHANGED << kernel, tabla, upd, main, vivo >>

\* The whole process ends, whatever its other threads were doing.
Muere ==
  /\ vivo
  /\ vivo' = FALSE
  /\ UNCHANGED << kernel, tabla, upd, main, pc, local, intrusion >>

\* libnet_init returns NULL (the interface has gone): exit (EXIT_FAILURE).
InyectaFalla(c) == pc[c] = "inyecta" /\ inyectadas[c] # downlink[c] /\ Muere

\* The row is stored past the array: undefined from there on, so the model
\* ends.
GuardaFuera == upc = "guarda" /\ cantidad = MAX_RUTAS /\ Muere

\* sscanf through a pointer only set for hop-by-hop options faults on a packet
\* with another extension header; so, too, ends a context that cannot open its
\* interface.
RecibeFalla(c) == c \in creados /\ pc[c] = "espera" /\ Muere

\* fopen returned NULL and nobody looked.
AbreFalla == upc = "cuenta" /\ Muere
----------------------------------------------------------------------------
Actualizador ==
  \/ Despierta \/ Cuenta \/ Limpia \/ LimpiaNombres \/ Relee
  \/ Lee \/ Guarda \/ Publica \/ Cierra

Principal == CreaActualizador \/ \E c \in Ctx : CreaContexto(c)

\* The steps of a context that has a packet.
Procesa(c) ==
  \/ Paso1(c) \/ Paso1Descarta(c)
  \/ Busca(c) \/ BuscaMetrica(c) \/ BuscaMascara(c) \/ BuscaRed(c) \/ BuscaDev(c)
  \/ Filtra(c) \/ FiltraRango(c) \/ FiltraCopia(c) \/ FiltraCopiaDev(c)
  \/ Elige(c) \/ Inyecta(c) \/ Devuelve(c)

Falla == \/ AbreFalla \/ GuardaFuera
         \/ \E c \in Ctx : RecibeFalla(c) \/ InyectaFalla(c)

Next == \/ CambiaKernel
        \/ Actualizador
        \/ Principal
        \/ Falla
        \/ \E c \in Ctx : Recibe(c) \/ Procesa(c)

Spec == Init /\ [][Next]_vars

\* The scheduler runs every thread; packets and route changes may never come.
FairSpec == /\ Spec
            /\ WF_vars(Actualizador)
            /\ WF_vars(Principal)
            /\ \A c \in Ctx : WF_vars(Procesa(c))
----------------------------------------------------------------------------
Estados == {"espera", "paso1", "busca", "metrica", "mascara", "red", "dev",
            "filtra", "rango", "copia", "copiaDev", "elige", "inyecta"}

Copias == [dst : Direccion, dev : Dev \cup {SinDev}]

\* Every variable has its type.
TypeOK ==
  /\ kernel \in Tablas
  /\ cantidad \in 0 .. MAX_RUTAS
  /\ ruta \in [1 .. MAX_RUTAS -> Fila]
  /\ upc \in {"duerme", "cuenta", "limpia", "limpiaNombres", "relee", "lee",
              "guarda", "publica"}
  /\ contador \in Nat
  /\ lineas \in Seq(Fila)
  /\ fila \in Fila
  /\ j \in Nat
  /\ campo \in 1 .. Len(Campos)
  /\ fase \in {"parsea", "crea", "espera"}
  /\ creados \subseteq Ctx
  /\ pc \in [Ctx -> Estados]
  /\ pkt \in [Ctx -> Cabecera]
  /\ i \in [Ctx -> 1 .. MAX_RUTAS + 1]
  /\ mascara \in [Ctx -> Mascara]
  /\ rutas \in [Ctx -> SUBSET Copias]
  /\ copia \in [Ctx -> Copias]
  /\ downlink \in [Ctx -> SUBSET Ctx]
  /\ inyectadas \in [Ctx -> SUBSET Ctx]
  /\ enviadas \in [Ctx -> SUBSET Ctx]
  /\ vivo \in BOOLEAN
  /\ intrusion \in [Ctx -> {"nada", "crece", "pisada"}]

\* The rows below cantidad are always whole rows of the last reading, in its
\* order, and all of them once the pass is over: a row is counted only when
\* its last field is in place (RT.c:34-54).
FilasPublicadas ==
  /\ IsPrefix(Publicadas, Sitelocales(lineas))
  /\ upc \in {"duerme", "cuenta", "limpia"} /\ fase # "parsea"
       => Publicadas = Sitelocales(lineas)

\* A row goes past the array only when the lines counted in one table of the
\* kernel and read in another give more site-local rows than it holds; the
\* iterations without a line repeat the last one's address, so two tables that
\* fit may do it (RT.c:9-31 against RT.c:34-51).
SoloDesbordaLectura ==
  upc = "guarda" /\ cantidad = MAX_RUTAS
    => \E t, u \in Tablas : /\ lineas = Lectura(t, Len(u))
                            /\ Len(Sitelocales(lineas)) > MAX_RUTAS

\* A context whose search was not overtaken by the memset of the table sends a
\* packet only where the rows published by then would send it, however many of
\* them it saw appear: it may forward less, never elsewhere (GEOPAG.c:189-271
\* against RT.c:14-54).
SoloDondeDebe ==
  \A c \in Ctx :
    pc[c] = "inyecta" /\ intrusion[c] # "pisada"
      => downlink[c] \subseteq Decide(Publicadas, pkt[c], c)

\* When the updater does nothing to the table during the search, the packet is
\* forwarded exactly where that table says, or dropped when that is nowhere.
DecisionExacta ==
  [][\A c \in Ctx :
       /\ pc[c] \notin {"espera", "paso1", "inyecta"}
       /\ intrusion[c] = "nada"
       /\ pc'[c] \in {"espera", "inyecta"}
       => downlink'[c] = Decide(Publicadas, pkt[c], c)]_vars

\* Seen from outside, one packet at a time: the promise of Reenvio.
estadoVisto == [c \in Ctx |->
  CASE pc[c] = "espera" -> "espera"
    [] pc[c] = "inyecta" -> "reenvia"
    [] OTHER -> "decide"]

saltosVistos == [c \in Ctx |->
  CASE pc[c] = "espera" -> 0
    [] pc[c] \in {"paso1", "inyecta"} -> pkt[c].ip6_hlim
    [] OTHER -> pkt[c].ip6_hlim + 1]

R == INSTANCE Reenvio WITH
       Entradas <- Ctx,
       Interfaz <- [c \in Ctx |-> todas_ifaces[c].nl_dev_number],
       estado <- estadoVisto, saltos <- saltosVistos

\* The context forwards as Reenvio allows in every interleaving with the
\* updater: never back, each entry tried once and in order whatever became of
\* the others, one hop less, and all of them tried unless the process ends.
PrometeReenvio == R!Spec

\* RPF (GEOPAG.c:166): a packet past step 2 came by the interface that leads
\* to its source in the kernel's table.
RPFPorLaMasCorta ==
  \A c \in Ctx :
    pc[c] \in {"filtra", "rango", "copia", "copiaDev", "elige", "inyecta"}
      => \E k \in IFS_consigue_struct_ifaz(
                     RT_busca_ifaz_uplink(Sitelocales(kernel), pkt[c].ip6_src)) :
            IFS_compara(c, k)

\* The context comes back for its next packet, whatever the updater does to
\* the table it is searching.
SiempreVuelve ==
  \A c \in Ctx : pc[c] # "espera" ~> (pc[c] = "espera" \/ ~vivo)

\* Once the kernel's table is stable the router's copy becomes equal to it,
\* again and again.
TablaAlDia ==
  \A t \in Tablas :
    <>[](kernel = t /\ vivo)
      => []<>(upc = "duerme" /\ Publicadas = Sitelocales(t))
============================================================================
