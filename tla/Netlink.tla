------------------------------ MODULE Netlink ------------------------------
(***************************************************************************)
(* The programs of the repository that speak with rtnetlink, one at a time *)
(* (they share nothing): the listings of esp2008; iproute_get, a flush and *)
(* any caller of libnetlink; or "lector", which only uses the parsers.     *)
(***************************************************************************)
EXTENDS EspNetlink, Iproute, Rtattr

CONSTANT SeqAplicacion    \* bound: requests of a caller of its own
ASSUME NetlinkAssumption == SeqAplicacion \in Nat

VARIABLE cliente
vars == <<evars, ipvars, cliente>>

Init == cliente \in {"esp", "iproute", "lector"} /\ EspInit /\ IpInit

DeEsp(A) == cliente = "esp" /\ A /\ UNCHANGED <<ipvars, cliente>>
DeIp(A) == cliente = "iproute" /\ A /\ UNCHANGED <<evars, cliente>>

\* Those of Iproute make up to MaxSeq.
Acotado == quien = "aplicacion" => rth'.seq <= SeqAplicacion

Next == DeEsp(EspNext) \/ DeIp(IpNext /\ Acotado)

\* A program that can go on does, and so does the kernel with a dump.
Justicia ==
  /\ WF_vars(DeEsp(EspPrograma))
  /\ \A z \in Zocalos : WF_vars(DeEsp(z \in abiertos /\ Sigue(z)))
  /\ WF_vars(DeIp(iproute_get))
  /\ WF_vars(DeIp(Lecturas))
  /\ WF_vars(DeIp(Vuelca /\ UNCHANGED propias))

Spec == Init /\ [][Next]_vars /\ Justicia

\* LlamadaVuelve and EspTermina, of the programs they are about.
LlamadasVuelven == quien # "vaciado" => LlamadaVuelve
ListadoTermina == cliente = "esp" => EspTermina
---------------------------------------------------------------------------
\* What the reader's parsers promise, see Utils and Rtattr: numbers, prefixes,
\* names and bytes written and read back, attributes, files.
PruebaEnteros == cliente = "lector" => EnterosBien
PruebaPrefijos == cliente = "lector" => PrefijosBien
IdaYVuelta == cliente = "lector" => VueltaBien
PruebaAtributos == cliente = "lector" => ListasBien
PruebaFichero == cliente = "lector" => FicherosBien
============================================================================
