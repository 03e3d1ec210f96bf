------------------------------- MODULE IFS --------------------------------
(***************************************************************************)
(* The interface lists of the Geopaging router (Mcast/src/IFS.c).  The     *)
(* list todas_ifaces has one entry per configured ADDRESS, so an interface *)
(* with two addresses appears twice.  A list taken from it is written as   *)
(* the set of its positions; IFS_sacar_solo_sitelocal walks todas_ifaces   *)
(* from the end, so list order is descending position.                     *)
(***************************************************************************)
EXTENDS RT

CONSTANT todas_ifaces   \* what IFS_parsea_from_proc read, once, at start

Entrada == [direccion : Direccion, dev_name : Dev, nl_dev_number : Nat]

\* nl_dev_number is the kernel's index of the interface: one per name.
ASSUME IfacesAssumption ==
  /\ todas_ifaces \in Seq(Entrada)
  /\ \A a, b \in DOMAIN todas_ifaces :
       (todas_ifaces[a].dev_name = todas_ifaces[b].dev_name)
         <=> (todas_ifaces[a].nl_dev_number = todas_ifaces[b].nl_dev_number)

nombre(k) == todas_ifaces[k].dev_name

\* The loop starts one past the last entry, which memset left as "::", and so
\* selects nothing there.
IFS_sacar_solo_sitelocal ==
  {k \in DOMAIN todas_ifaces : todas_ifaces[k].direccion \in Sitelocal}

ifaces_activas == IFS_sacar_solo_sitelocal

\* The entries with a name; the code keeps the first and returns -1 on none.
IFS_consigue_struct_ifaz(dev) == {k \in ifaces_activas : nombre(k) = dev}

\* Same interface index (the C function returns 0).
IFS_compara(a, b) ==
  todas_ifaces[a].nl_dev_number = todas_ifaces[b].nl_dev_number

IFS_crear_lista_ifaces_child(parent) ==
  {k \in ifaces_activas : ~IFS_compara(k, parent)}
============================================================================
