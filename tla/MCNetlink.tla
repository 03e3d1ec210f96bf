----------------------------- MODULE MCNetlink -----------------------------
(***************************************************************************)
(* An instance of Netlink for TLC.                                         *)
(***************************************************************************)
EXTENDS Netlink, TLC

\* Bits of the masked fields, and routes.
Campo(tipo, proto) == ("type" :> tipo) @@ ("protocol" :> proto)
R6(dst, len, tipo) ==
  [family |-> "inet6", table |-> RT_TABLE_MAIN, cloned |-> FALSE,
   atr |-> {"DST", "OIF", "PREFSRC"}, campo |-> Campo(tipo, {0}),
   dst |-> dst, dst_len |-> len, src |-> <<0, 0, 0>>, src_len |-> 0,
   gw |-> <<0, 0, 0>>, prefsrc |-> <<1, 0, 0>>]
R4(dst, len, table) ==
  [R6(dst, len, RTN_UNICAST) EXCEPT !.family = "inet", !.table = table,
     !.src = <<0, 0>>, !.gw = <<0, 1>>, !.prefsrc = <<0, 0>>, !.atr = {"DST", "GATEWAY"}]

RutasMC == {
  R6(<<1, 0, 0>>, 2, RTN_UNICAST), R6(<<1, 0, 1>>, 3, RTN_LOCAL),
  [R6(<<1, 0, 0>>, 3, RTN_UNICAST) EXCEPT !.cloned = TRUE, !.atr = {"DST", "SRC"},
     !.src = <<1, 1, 0>>, !.src_len = 3],
  [R6(<<0, 0, 0>>, 0, RTN_UNREACHABLE) EXCEPT !.atr = {"PRIORITY-1"}],
  [R6(<<0, 0, 0>>, 0, RTN_UNICAST) EXCEPT !.gw = <<0, 1, 1>>, !.campo = Campo(RTN_UNICAST, {1}),
     !.atr = {"GATEWAY", "OIF"}],
  R4(<<1, 0>>, 1, RT_TABLE_MAIN), R4(<<1, 1>>, 2, 100) }

\* Pairs of them; the other programs meet one.
MCTablas == {S \in SUBSET RutasMC : Cardinality(S) = 2}
UnPar == {R6(<<1, 0, 0>>, 2, RTN_UNICAST), R4(<<1, 0>>, 1, RT_TABLE_MAIN)}

P(f, n, d) == [family |-> f, bitlen |-> n, data |-> d]
SinP == P("unspec", 0, <<>>)
FVacio == [tb |-> 0, valor |-> Campo({}, {}), mascara |-> Campo({}, {}),
           rdst |-> SinP, mdst |-> P("unspec", -1, <<>>), rsrc |-> SinP,
           msrc |-> P("unspec", -1, <<>>), rvia |-> SinP, rprefsrc |-> SinP]
FMain == [FVacio EXCEPT !.tb = RT_TABLE_MAIN]
MCFiltros == {
  FVacio, FMain, [FVacio EXCEPT !.tb = RT_TABLE_LOCAL], [FVacio EXCEPT !.tb = -1],
  [FVacio EXCEPT !.tb = 100],
  [FMain EXCEPT !.rdst = P("inet6", 1, <<1, 0, 0>>)],
  [FMain EXCEPT !.rdst = P("inet6", 3, <<1, 0, 0>>)],
  [FVacio EXCEPT !.mdst = P("inet6", 3, <<1, 0, 1>>)],
  [FVacio EXCEPT !.mdst = P("inet", 1, <<1, 0>>)],
  [FVacio EXCEPT !.rsrc = P("inet6", 1, <<1, 0, 0>>)],
  [FVacio EXCEPT !.msrc = P("inet6", 3, <<1, 1, 0>>)],
  [FMain EXCEPT !.valor["protocol"] = {1}, !.mascara["protocol"] = {0, 1, 2}],
  [FMain EXCEPT !.valor["type"] = RTN_UNICAST, !.mascara["type"] = {0, 1, 2}] }

T(clase, grupos, plen) == [clase |-> clase, grupos |-> grupos, plen |-> plen]
Plen(n) == [num |-> n, entero |-> TRUE, hay |-> TRUE]
MCArgumentos == {T("v6", <<>>, Plen(8)), T("v6", <<>>, SinPlen), T("default", <<>>, SinPlen),
                 T("v4", <<1, 2, 3, 4>>, SinPlen)}

\* The variables of the programs that do not run do not matter, and only a
\* flush meets all the tables.
MCInit ==
  /\ Init
  /\ cliente # "iproute" => quien = "aplicacion"
  /\ cliente # "esp" => programa = "ex1"
  /\ cliente = "esp" \/ quien # "vaciado" => rutas = UnPar

\* Spec, from those states.
MCSpec == MCInit /\ [][Next]_vars /\ Justicia
---------------------------------------------------------------------------
(* Texts around every limit, for the parsers.                              *)

MCNumeros == -DosA(BitsLong + 1)..DosA(BitsLong + 1)

Plenes == {Plen(n) : n \in -2..(Largo6 * BitsByte + 1)} \cup
          {SinPlen, [Plen(1) EXCEPT !.entero = FALSE]}
Grupos == UNION {[1..k -> {0, 1, MaxU(BitsByte), MaxU(BitsByte) + 1}] : k \in 1..2} \cup
          {<<1, 2, 3, 1>>, <<1, 2, 3, 1, 2>>}
MCDirecciones ==
  {T("v4", g, p) : g \in Grupos, p \in Plenes} \cup
  {T(c, <<>>, p) : c \in {"default", "v6", "mal6", "otro"}, p \in Plenes}

MCCadenas == BoundedSeq(0..MaxU(BitsByte), 3)
MCHuecos == 0..10

\* Attributes of all paddings, with types on both sides of MaxTipo; files of up
\* to three records, the last one cut anywhere.
MCListas == BoundedSeq([tipo : 0..(MaxTipo + 1), alen : {0, 3, 4, 5}], 3)
Registro(cab, len, hay) == [cab |-> cab, len |-> len, hay |-> hay]
RegistrosMC == { Registro(CabMensaje, CabMensaje, 0), Registro(CabMensaje, CabMensaje + 3, 4),
                 Registro(CabMensaje, 12, 0), Registro(CabMensaje, Buffer + 4, Buffer - 12) }
FinesMC == [cab : {4, CabMensaje}, len : {CabMensaje, CabMensaje + 4}, hay : {0}]
MCFicheros == BoundedSeq(RegistrosMC, 2) \cup {Append(f, r) : f \in BoundedSeq(RegistrosMC, 2), r \in FinesMC}
============================================================================
