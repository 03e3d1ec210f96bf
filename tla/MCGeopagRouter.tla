-------------------------- MODULE MCGeopagRouter --------------------------
(***************************************************************************)
(* Small instances of GeopagRouter.  An address is a pair <<r, a>>: r = 0  *)
(* is "::" and the global addresses, r = 1 the range of the cells (fec0),  *)
(* r = 2 the other site-local addresses (fede).                            *)
(***************************************************************************)
EXTENDS GeopagRouter, TLC

MCDireccion == {<<0, 0>>, <<0, 1>>, <<1, 0>>, <<1, 1>>, <<1, 2>>,
                <<2, 0>>, <<2, 1>>, <<2, 2>>}
MCNula == <<0, 0>>
MCSitelocal == {d \in MCDireccion : d[1] \in {1, 2}}
MCRango == <<1, 0>>

Ruta(dst, len, dev) == [dst |-> dst, dst_len |-> len, metric |-> 0, dev |-> dev]
Corte(dst, len) == [Ruta(dst, len, "lo") EXCEPT !.metric = Unreachable]
Local == Ruta(<<0, 1>>, 2, "lo")     \* a line that is not site-local

MCDev == {"eth0", "eth1", "lo"}

\* One site-local address on each interface.
MCIfaces == <<
  [direccion |-> <<0, 1>>, dev_name |-> "lo",   nl_dev_number |-> 1],
  [direccion |-> <<2, 0>>, dev_name |-> "eth0", nl_dev_number |-> 2],
  [direccion |-> <<2, 2>>, dev_name |-> "eth1", nl_dev_number |-> 3] >>

\* eth1 with a second address: two entries, so two copies.
MCIfacesDoble == Append(MCIfaces,
  [direccion |-> <<2, 1>>, dev_name |-> "eth1", nl_dev_number |-> 3])

\* The source <<2, 1>> is behind eth0 and the cell <<1, 1>> behind eth1; then
\* the link of eth0 fails and one line, towards eth1, is left.  Both fit in an
\* array of three, the second read with the count of the first does not.
TablaA == << Ruta(<<2, 1>>, 2, "eth0"), Local, Ruta(<<1, 1>>, 2, "eth1"), Local >>
TablaB == << Ruta(<<2, 1>>, 1, "eth1") >>
TablasAB == {TablaA, TablaB}
TablasA == {TablaA}

\* The row of a cell and the source's, and one row that ends every search.
TablasF == {<< Corte(<<2, 2>>, 2) >>,
            << Ruta(<<1, 1>>, 2, "eth1"), Ruta(<<2, 1>>, 2, "eth0") >>}

\* Bound of one run: one context at a time has a packet.  Contexts share
\* nothing they write, so each meets the updater as it would with others.
UnPaquete == \A a, b \in Ctx : pc[a] = "espera" \/ pc[b] = "espera" \/ a = b

\* Cells are the second label.
MCDistancia(a, b) == IF a[2] >= b[2] THEN a[2] - b[2] ELSE b[2] - a[2]
MCGrupo == {<<3, 1>>}
MCOrigen == {<<2, 1>>}
============================================================================
