------------------------------ MODULE Iproute ------------------------------
(***************************************************************************)
(* What the copy of iproute2 does over libnetlink (ip_functions.c and      *)
(* ip2hack.h): iproute_get, the question main_ol.c asks, and print_route   *)
(* as the filter of a dump with a flush buffer, which deletes the routes   *)
(* the global filter selects.  The caller of the latter, and ll_init_map,  *)
(* are not in the repository: external.                                    *)
(*                                                                         *)
(* A route is [family, table, cloned, atr, campo, dst, dst_len, src,       *)
(* src_len, gw, prefsrc]: atr are the attributes it has, campo its masked  *)
(* fields as sets of bits, the rest addresses as tuples of Bits(family)    *)
(* bits, zero when the attribute is absent.                                *)
(***************************************************************************)
EXTENDS Libnetlink, Utils

CONSTANTS Argumentos,       \* texts iproute_get is called with
          Filtros,          \* what the caller of a flush sets in filter
          FiltroVacio,      \* filter after iproute_reset_filter
          CabeFlush,        \* routes the flush buffer holds
          Bits4, Bits6      \* bits of an address of each family

Familias == {"inet", "inet6"}
Prefijos == {"rdst", "mdst", "rsrc", "msrc", "rvia", "rprefsrc"}
Bits(family) == IF family = "inet6" THEN Bits6 ELSE Bits4
Direccion(family) == [1..Bits(family) -> {0, 1}]

\* What the kernel sends, and what a caller sets with get_prefix.  With a rvia
\* or rprefsrc prefix and a route that has the attribute, the code copies
\* host_len BYTES of it, a count of bits, over the stack (lines 225 and 231):
\* there is no saying what it does then.
RutaBien(r) ==
  /\ r.family \in Familias /\ r.table \in Nat
  /\ {r.dst_len, r.src_len} \subseteq 0..Bits(r.family)
  /\ {r.dst, r.src, r.gw, r.prefsrc} \subseteq Direccion(r.family)
FiltroBien(f) ==
  /\ f.tb \in Nat \cup {-1}
  /\ \A p \in Prefijos : f[p].family \in Familias =>
       f[p].bitlen \in 0..Bits(f[p].family) /\ f[p].data \in Direccion(f[p].family)
Pisa(f, r) ==
  \/ f.rvia.bitlen > 0 /\ "GATEWAY" \in r.atr
  \/ f.rprefsrc.bitlen > 0 /\ "PREFSRC" \in r.atr

ASSUME IprouteAssumption ==
  /\ CabeFlush \in Nat \ {0} /\ Bits4 \in Nat /\ Bits6 \in Nat
  /\ \A f \in Filtros \cup {FiltroVacio}, r \in UNION Tablas :
       FiltroBien(f) /\ RutaBien(r) /\ ~Pisa(f, r)

VARIABLES quien,      \* "aplicacion", "iproute_get" or "vaciado"
          paso,       \* where the caller's control is
          salida,     \* what iproute_get returned, or "exit"
          filtro,     \* the global filter, but for its buffer
          flush,      \* [buf, flushed]: its flush buffer and count
          pregunta,   \* attributes of the question iproute_get asks
          mirado,     \* history: the routes print_route was given in a flush,
                      \* the links ll_init_map was told of
          borrados    \* history: those whose deletion was sent

propias == <<quien, paso, salida, filtro, flush, pregunta, mirado, borrados>>
ipvars == <<libvars, propias>>

IpInit ==
  /\ quien \in {"aplicacion", "iproute_get", "vaciado"}
  /\ LibInit
  /\ paso = "inicio" /\ salida = "nada" /\ filtro = FiltroVacio
  /\ flush = [buf |-> <<>>, flushed |-> 0] /\ pregunta = {}
  /\ mirado = <<>> /\ borrados = <<>>
---------------------------------------------------------------------------
(* print_route: which routes the filter lets through.                      *)

RT_TABLE_MAIN == 254
RT_TABLE_LOCAL == 255
RTN_UNICAST == {0}
RTN_LOCAL == {1}
RTN_UNREACHABLE == {0, 1, 2}
RTM_NEWROUTE == "NEWROUTE"

\* The table of an IPv6 route is told by its type and its being cloned.
EligeTabla(f, r) ==
  IF r.family = "inet6"
  THEN f.tb # 0 => IF f.tb < 0 THEN r.cloned
                   ELSE /\ ~r.cloned
                        /\ \/ f.tb = RT_TABLE_LOCAL /\ r.campo["type"] = RTN_LOCAL
                           \/ f.tb = RT_TABLE_MAIN /\ r.campo["type"] # RTN_LOCAL
  ELSE f.tb > 0 => f.tb = r.table

\* A route whose family is not that of a prefix of the filter, or shorter
\* than a root prefix or longer than a match prefix, is left out.
EligeFamilia(f, r) ==
  /\ \A p \in Prefijos :
       f[p].family # "unspec" => f[p].family = r.family
  /\ f.rdst.family # "unspec" => f.rdst.bitlen <= r.dst_len
  /\ f.rsrc.family # "unspec" => f.rsrc.bitlen <= r.src_len
  /\ f.mdst.family # "unspec" /\ f.mdst.bitlen >= 0 => f.mdst.bitlen >= r.dst_len
  /\ f.msrc.family # "unspec" /\ f.msrc.bitlen >= 0 => f.msrc.bitlen >= r.src_len

\* The addresses, as far as the shorter prefix of the two says, when the code
\* does not write over its stack (Pisa).
EligePrefijos(f, r) ==
  /\ f.rdst.family # "unspec" => inet_addr_match(r.dst, f.rdst.data, f.rdst.bitlen)
  /\ f.mdst.family # "unspec" /\ f.mdst.bitlen >= 0 => inet_addr_match(r.dst, f.mdst.data, r.dst_len)
  /\ f.rsrc.family # "unspec" => inet_addr_match(r.src, f.rsrc.data, f.rsrc.bitlen)
  /\ f.msrc.family # "unspec" /\ f.msrc.bitlen >= 0 => inet_addr_match(r.src, f.msrc.data, r.src_len)
  /\ f.rvia.family # "unspec" => inet_addr_match(r.gw, f.rvia.data, f.rvia.bitlen)
  /\ f.rprefsrc.family # "unspec" =>
       inet_addr_match(r.prefsrc, f.rprefsrc.data, f.rprefsrc.bitlen)

\* (filter.c ^ c) & filter.cmask, for each field of the header or attribute.
EligeCampos(f, r) ==
  \A c \in DOMAIN r.campo :
    ((f.valor[c] \ r.campo[c]) \cup (r.campo[c] \ f.valor[c])) \cap f.mascara[c] = {}

\* The unreachable default of IPv6 that the kernel keeps for itself.
Inamovible(r) ==
  /\ r.family = "inet6" /\ r.dst_len = 0
  /\ r.campo["type"] = RTN_UNREACHABLE /\ "PRIORITY-1" \in r.atr

Elige(f, r) ==
  EligeTabla(f, r) /\ EligeCampos(f, r) /\ EligeFamilia(f, r) /\ EligePrefijos(f, r)

\* print_route with a flush buffer, on route r: s is [buf, flushed, seq,
\* fuera, mal]; fuera are the deletions flush_update sends when the buffer is
\* full, mal that it could not (falla).
print_route(s, r, falla) ==
  IF s.mal \/ ~Elige(filtro, r) \/ Inamovible(r) THEN s
  ELSE LET lleno == Len(s.buf) = CabeFlush
       IN IF lleno /\ falla THEN [s EXCEPT !.mal = TRUE]
          ELSE [buf |-> Append(IF lleno THEN <<>> ELSE s.buf, [ruta |-> r, sec |-> s.seq + 1]),
                fuera |-> IF lleno THEN s.fuera \o s.buf ELSE s.fuera,
                flushed |-> s.flushed + 1, seq |-> s.seq + 1, mal |-> FALSE]

\* The state it leaves behind each of the routes of a datagram.
Recorre(rs, falla) ==
  LET F[k \in 0..Len(rs)] ==
        IF k = 0 THEN [buf |-> flush.buf, flushed |-> flush.flushed, seq |-> rth.seq,
                       fuera |-> <<>>, mal |-> FALSE]
        ELSE print_route(F[k - 1], rs[k], falla)
  IN F

Secuencias(b) == {b[k].sec : k \in DOMAIN b}
Rutas(b) == [k \in DOMAIN b |-> b[k].ruta]
---------------------------------------------------------------------------
(* A flush: dump, print_route on each route, flush_update, once more.      *)

SinCambio == UNCHANGED <<quien, salida, pregunta>>

VaciaAbre ==
  /\ quien = "vaciado" /\ paso = "inicio"
  /\ rtnl_open(FALSE) /\ \E f \in Filtros : filtro' = f
  /\ paso' = "pide" /\ SinCambio /\ UNCHANGED <<flush, mirado, borrados>>

VaciaPide ==
  /\ quien = "vaciado" /\ paso = "pide" /\ rtnl_wilddump_request
  /\ paso' = IF ret'.valor = 0 THEN "llama" ELSE "fin"
  /\ flush' = [flush EXCEPT !.flushed = 0]
  /\ SinCambio /\ UNCHANGED <<filtro, mirado, borrados>>

VaciaLlama ==
  /\ quien = "vaciado" /\ paso = "llama" /\ llama_dump_filter(FALSE) /\ paso' = "filtra"
  /\ SinCambio /\ UNCHANGED <<filtro, flush, mirado, borrados>>

\* A datagram of the dump: print_route on its routes.
VaciaFiltra ==
  /\ quien = "vaciado" /\ paso = "filtra" /\ fase = "filtra" /\ ~so_error /\ cola # <<>>
  /\ \E falla \in BOOLEAN :
       LET d == Head(cola)
           rs == Filtrado(d, 0).dados
           F == Recorre(rs, falla)
           malos == {k \in DOMAIN rs : F[k].mal}
           c == IF malos = {} THEN 0 ELSE Min(malos)
           s == F[Len(rs)]
       IN /\ rtnl_dump_filter(c)
          /\ Manda(Tail(cola), Secuencias(s.fuera), c > 0)
          /\ rth' = [rth EXCEPT !.seq = s.seq]
          /\ flush' = [buf |-> s.buf, flushed |-> s.flushed]
          /\ mirado' = mirado \o SubSeq(rs, 1, IF c = 0 THEN Len(rs) ELSE c)
          /\ borrados' = borrados \o Rutas(s.fuera)
  /\ paso' = IF fase' = "libre" THEN IF ret'.valor = 0 THEN "vuelca" ELSE "fin" ELSE paso
  /\ SinCambio /\ UNCHANGED filtro

\* The round's last flush_update, if there was anything, and a new round.
flush_update ==
  /\ quien = "vaciado" /\ paso = "vuelca"
  /\ IF flush.flushed = 0
     THEN paso' = "fin" /\ UNCHANGED <<libvars, flush, borrados>>
     ELSE /\ rtnl_send(Secuencias(flush.buf)) /\ UNCHANGED rth
          /\ IF ret'.valor = 0
             THEN /\ borrados' = borrados \o Rutas(flush.buf)
                  /\ flush' = [flush EXCEPT !.buf = <<>>] /\ paso' = "pide"
             ELSE UNCHANGED <<borrados, flush>> /\ paso' = "fin"
  /\ SinCambio /\ UNCHANGED <<filtro, mirado>>

Vaciado == VaciaAbre \/ VaciaPide \/ VaciaLlama \/ VaciaFiltra \/ flush_update
---------------------------------------------------------------------------
(* iproute_get.                                                            *)

Va(p) == paso' = p /\ UNCHANGED salida
Termina(v) == paso' = "fin" /\ salida' = v
Quedan == UNCHANGED <<quien, flush, borrados>>
Resto == Quedan /\ UNCHANGED mirado

\* The filter is cleared and the destination read: get_prefix ends the
\* program if it is no IPv6 prefix.
iproute_reset_filter ==
  /\ quien = "iproute_get" /\ paso = "inicio"
  /\ filtro' = FiltroVacio
  /\ \E t \in Argumentos :
       LET addr == get_prefix(t, "inet6")
       IN IF addr.ret = 0
          THEN Va("abre") /\ pregunta' = (IF addr.bytelen > 0 THEN {"DST"} ELSE {})
          ELSE Termina("exit") /\ UNCHANGED pregunta
  /\ UNCHANGED libvars /\ Resto

Abre ==
  /\ quien = "iproute_get" /\ paso = "abre" /\ rtnl_open(FALSE)
  /\ IF ret'.valor < 0 THEN Termina("1") ELSE Va("mapa")
  /\ Resto /\ UNCHANGED <<filtro, pregunta>>

\* The names of the interfaces: a dump of the links, read to its end; ends the
\* program if either call fails.  A datagram of it that was cut is no failure.
ll_init_map ==
  /\ quien = "iproute_get"
  /\ \/ /\ paso = "mapa" /\ rtnl_wilddump_request
        /\ IF ret'.valor < 0 THEN Termina("exit") ELSE Va("mapa2")
        /\ UNCHANGED mirado
     \/ /\ paso = "mapa2" /\ llama_dump_filter(FALSE) /\ Va("mapa3")
        /\ UNCHANGED mirado
     \/ /\ paso = "mapa3" /\ rtnl_dump_filter(0) /\ Llegan(Tail(cola), <<>>)
        /\ UNCHANGED <<rth, hecho, restos>>
        /\ IF fase' # "libre" THEN Va("mapa3")
           ELSE IF ret'.valor < 0 THEN Termina("exit") ELSE Va("pregunta")
        /\ mirado' = visto'
  /\ Quedan /\ UNCHANGED <<filtro, pregunta>>

\* Both questions, without callbacks: rtnl_talk until it returns.
Pregunta ==
  /\ quien = "iproute_get" /\ paso \in {"pregunta", "repite"}
  /\ llama_talk("GET", TRUE, FALSE)
  /\ IF ret'.valor < 0 THEN Termina("2") ELSE Va(IF paso = "pregunta" THEN "oye" ELSE "reoye")
  /\ Resto /\ UNCHANGED <<filtro, pregunta>>

\* Mutant: what the second call returns is not looked at.
OyeSinMirar ==
  /\ quien = "iproute_get" /\ paso \in {"oye", "reoye"} /\ rtnl_talk
  /\ IF fase' # "libre" THEN Va(paso)
     ELSE IF paso = "reoye" THEN Termina("0")
     ELSE IF ret'.valor < 0 THEN Termina("2") ELSE Va("imprime")
  /\ Resto /\ UNCHANGED <<filtro, pregunta>>

Oye ==
  /\ quien = "iproute_get" /\ paso \in {"oye", "reoye"} /\ rtnl_talk
  /\ IF fase' # "libre" THEN Va(paso)
     ELSE IF ret'.valor < 0 THEN Termina("2")
     ELSE IF paso = "oye" THEN Va("imprime") ELSE Termina("0")
  /\ Resto /\ UNCHANGED <<filtro, pregunta>>

\* The second question: from the address the kernel prefers, or the one asked
\* from, and free to choose interface and gateway.
Reescrita(atr) == (atr \ {"PREFSRC", "OIF", "GATEWAY", "IIF"}) \cup {"SRC"}

\* The answer printed becomes the second question, if it is a route with a source.
Reescribe ==
  /\ quien = "iproute_get" /\ paso = "imprime"
  /\ LET m == ret.dato[1]  atr == m.dato.atr
     IN IF m.tipo # RTM_NEWROUTE \/ atr \cap {"PREFSRC", "SRC"} = {}
        THEN Termina("-1") /\ UNCHANGED pregunta
        ELSE /\ Va("repite")
             /\ pregunta' = Reescrita(atr)
  /\ UNCHANGED libvars /\ Resto /\ UNCHANGED filtro

iproute_get == iproute_reset_filter \/ Abre \/ ll_init_map \/ Pregunta \/ Oye \/ Reescribe

\* Reads that fail, the kernel and any other caller of the library.
Ajeno ==
  /\ \/ quien # "aplicacion" /\ Sobrepasa
     \/ quien = "aplicacion" /\ (LibLlama \/ Lee)
     \/ Vuelca
     \/ Avisa
  /\ UNCHANGED propias

IpNext == Vaciado \/ iproute_get \/ Ajeno
IpSpec == IpInit /\ [][IpNext]_ipvars
Lecturas ==
  \/ ll_init_map \/ Oye
  \/ UNCHANGED propias /\ quien # "vaciado" /\ (Sobrepasa \/ (quien = "aplicacion" /\ Lee))
---------------------------------------------------------------------------
\* What the filter means: the route is inside the root prefixes and holds the
\* match ones, as sets of addresses, and agrees with it in the masked fields.
Cubre(p, n, family) == {a \in Direccion(family) : \A k \in 1..n : a[k] = p[k]}
Dentro(p, n, q, m, family) == Cubre(p, n, family) \subseteq Cubre(q, m, family)

Pedida(f, r) ==
  /\ IF r.family = "inet"
     THEN f.tb \in {0, -1, r.table}
     ELSE CASE f.tb = 0 -> TRUE
            [] f.tb = -1 -> r.cloned
            [] f.tb = RT_TABLE_LOCAL -> ~r.cloned /\ r.campo["type"] = RTN_LOCAL
            [] f.tb = RT_TABLE_MAIN -> ~r.cloned /\ r.campo["type"] # RTN_LOCAL
            [] OTHER -> FALSE
  /\ \A c \in DOMAIN r.campo : r.campo[c] \cap f.mascara[c] = f.valor[c] \cap f.mascara[c]
  /\ \A p \in Prefijos :
       f[p].family # "unspec" =>
         /\ f[p].family = r.family
         /\ LET q == f[p].data  n == f[p].bitlen
            IN CASE p = "rdst" -> Dentro(r.dst, r.dst_len, q, n, r.family)
                 [] p = "rsrc" -> Dentro(r.src, r.src_len, q, n, r.family)
                 [] p = "mdst" -> Dentro(q, n, r.dst, r.dst_len, r.family)
                 [] p = "msrc" -> Dentro(q, n, r.src, r.src_len, r.family)
                 [] p = "rvia" -> r.gw \in Cubre(q, n, r.family)
                 [] p = "rprefsrc" -> r.prefsrc \in Cubre(q, n, r.family)

\* A flush deletes the routes of its dumps that its filter means, each once
\* and in order, but the kernel's own: those sent and those still in the
\* buffer are all there are, while flush_update does not fail half-way.
BorraLoPedido ==
  quien = "vaciado" /\ ~(ret.op = "dump" /\ ret.valor < 0) =>
    borrados \o Rutas(flush.buf) =
      Escoge(mirado, {r \in UNION Tablas : Pedida(filtro, r) /\ ~Inamovible(r)})

\* iproute_get returns 0 only when the kernel carried out both of its questions
\* and, before the first, it had been told of every link that reached its buffer,
\* in order: of a dump cut at 8192 bytes it misses what was cut, and the 0 does
\* not tell (libnetlink.c:191-194).  And it never turns for ever.
ConsultaCompleta ==
  quien = "iproute_get" =>
    /\ fase # "gira"
    /\ salida = "0" => {2, 3} \subseteq hecho /\ mirado = enviado

\* It always returns, unless a reply of the kernel was lost.
ConsultaAcaba == quien = "iproute_get" ~> (paso = "fin" \/ perdidas > 0)
============================================================================
