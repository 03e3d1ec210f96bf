-------------------------------- MODULE RT --------------------------------
(***************************************************************************)
(* The routing table of the Geopaging router (Mcast/src/RT.c): its rows,   *)
(* the rows one pass over /proc/net/ipv6_route produces, and the functions *)
(* that search and filter a table.  Everything here is a function of its   *)
(* arguments; the module GeopagRouter steps through the same functions     *)
(* while the updater thread rewrites the table they read.                  *)
(*                                                                         *)
(* A table is a sequence of rows, index n here being n-1 in the C array.   *)
(* Addresses are sequences of labels, a prefix length counts labels.       *)
(***************************************************************************)
EXTENDS Integers, Sequences, FiniteSets, Seleccion

CONSTANTS
  Direccion,     \* addresses and network prefixes in use
  Nula,          \* "::", what memset leaves in an address
  Sitelocal,     \* addresses for which IN6_IS_ADDR_SITELOCAL holds
  rango_unicast, \* the prefix of the cell identifiers (second argument of main)
  LenRango,      \* its length, 64 bits in the code
  Largo,         \* the length of an address, 128 bits in the code
  Dev,           \* interface names
  SinDev         \* the empty name, what memset leaves in dev_name

ASSUME DireccionAssumption ==
  /\ Largo \in Nat
  /\ LenRango \in 0 .. Largo
  /\ Direccion \subseteq [1 .. Largo -> Nat]
  /\ Sitelocal \subseteq Direccion
  /\ Nula \in Direccion \ Sitelocal
  /\ rango_unicast \in Direccion

ASSUME DevAssumption == SinDev \notin Dev

Unreachable == -1   \* every other metric is written 0: no code tells them apart

Mascara == 0 .. Largo
Metrica == {0, Unreachable}

\* RT_ruta_t, without the fields no decision reads (source, next hop, ref,
\* use, flags).
Fila == [dst : Direccion, dst_len : Mascara, metric : Metrica,
         dev : Dev \cup {SinDev}]

\* What memset leaves in a row.
FilaNula == [dst |-> Nula, dst_len |-> 0, metric |-> 0, dev |-> SinDev]

\* UTIL_compare_network: the first len labels agree; length 0 agrees with all.
Coincide(red, dir, len) == \A n \in 1 .. len : red[n] = dir[n]

EnRango(dst) == Coincide(dst, rango_unicast, LenRango)
----------------------------------------------------------------------------
\* The row that iteration k (from 1) of RT_parsea_from_proc holds after its
\* fscanf, when the file has the lines ls.  Past the last line fscanf
\* stores nothing: dstdir keeps the previous line's text (the reset of line 27
\* only reaches nhdir and dev_name) and the numbers and the name are zero.
FilaLeida(ls, k) ==
  IF k <= Len(ls) THEN ls[k]
                  ELSE [FilaNula EXCEPT !.dst = ls[Len(ls)].dst]

\* The rows of n iterations, in order.
Lectura(ls, n) == [k \in 1 .. n |-> FilaLeida(ls, k)]

\* Only these are stored.
Sitelocales(ls) == Escoge(ls, {f \in Fila : f.dst \in Sitelocal})

\* The interface towards an address, SinDev when the search returns -1.  The
\* loop stops at the first row that is unreachable, whatever its network, or
\* that covers the address.
RT_busca_ifaz_uplink(filas, dir) ==
  LET para == {n \in DOMAIN filas :
                 \/ filas[n].metric = Unreachable
                 \/ Coincide(filas[n].dst, dir, filas[n].dst_len)}
      primera == CHOOSE n \in para : \A m \in para : n <= m
  IN  IF para = {} \/ filas[primera].metric = Unreachable
      THEN SinDev
      ELSE filas[primera].dev

\* The networks of the cell range, with the interface that leads to each.
RT_filtra_sitelocals_por_rango(filas) ==
  {[dst |-> filas[n].dst, dev |-> filas[n].dev] :
     n \in {m \in DOMAIN filas : EnRango(filas[m].dst)}}

\* Those of them that one interface leads to.
RT_filtra_por_ifaz(rutas, devname) == {r \in rutas : r.dev = devname}
============================================================================
