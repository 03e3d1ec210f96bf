------------------------------ MODULE Reenvio -----------------------------
(***************************************************************************)
(* What a Geopaging router promises of every packet, whatever its routing  *)
(* table is doing meanwhile: the packet is dropped, or a copy of it with   *)
(* one hop less is tried, once, on each of some other interface entries,   *)
(* the last of the list first, never back to the interface it came from.   *)
(* A copy that cannot be written is lost and does not keep the others from *)
(* being tried.  The process may end at any moment and then does nothing   *)
(* more.                                                                   *)
(***************************************************************************)
EXTENDS Integers

CONSTANTS
  Entradas,    \* the active interface entries, numbers; each has its context
  Interfaz,    \* the interface of an entry
  MaxHop

VARIABLES
  estado,      \* of a context: "espera", "decide" or "reenvia"
  saltos,      \* hop limit of the packet in hand, 0 without one
  downlink,    \* entries the packet in hand is to be copied to
  inyectadas,  \* those it has been tried on
  enviadas,    \* those it did go to
  vivo

vars == << estado, saltos, downlink, inyectadas, enviadas, vivo >>

Hijas(c) == {k \in Entradas : Interfaz[k] # Interfaz[c]}

Init == /\ estado = [c \in Entradas |-> "espera"]
        /\ saltos = [c \in Entradas |-> 0]
        /\ downlink = [c \in Entradas |-> {}]
        /\ inyectadas = [c \in Entradas |-> {}]
        /\ enviadas = [c \in Entradas |-> {}]
        /\ vivo = TRUE

Suelta(c) == /\ estado' = [estado EXCEPT ![c] = "espera"]
             /\ saltos' = [saltos EXCEPT ![c] = 0]
             /\ downlink' = [downlink EXCEPT ![c] = {}]
             /\ inyectadas' = [inyectadas EXCEPT ![c] = {}]
             /\ enviadas' = [enviadas EXCEPT ![c] = {}]

Recibe(c) ==
  /\ vivo /\ estado[c] = "espera"
  /\ \E h \in 0 .. MaxHop : saltos' = [saltos EXCEPT ![c] = h]
  /\ estado' = [estado EXCEPT ![c] = "decide"]
  /\ UNCHANGED << downlink, inyectadas, enviadas, vivo >>

Descarta(c) ==
  /\ vivo /\ estado[c] = "decide"
  /\ Suelta(c)
  /\ UNCHANGED vivo

Acepta(c) ==
  /\ vivo /\ estado[c] = "decide" /\ saltos[c] > 1
  /\ \E D \in SUBSET Hijas(c) :
       D # {} /\ downlink' = [downlink EXCEPT ![c] = D]
  /\ saltos' = [saltos EXCEPT ![c] = @ - 1]
  /\ estado' = [estado EXCEPT ![c] = "reenvia"]
  /\ UNCHANGED << inyectadas, enviadas, vivo >>

Copia(c) ==
  /\ vivo /\ estado[c] = "reenvia"
  /\ \E k \in downlink[c] \ inyectadas[c] :
       /\ \A m \in downlink[c] \ inyectadas[c] : m <= k
       /\ inyectadas' = [inyectadas EXCEPT ![c] = @ \cup {k}]
       /\ enviadas' \in {enviadas, [enviadas EXCEPT ![c] = @ \cup {k}]}
  /\ UNCHANGED << estado, saltos, downlink, vivo >>

Termina(c) ==
  /\ vivo /\ estado[c] = "reenvia" /\ inyectadas[c] = downlink[c]
  /\ Suelta(c)
  /\ UNCHANGED vivo

Muere == /\ vivo
         /\ vivo' = FALSE
         /\ UNCHANGED << estado, saltos, downlink, inyectadas, enviadas >>

Next == \/ \E c \in Entradas :
             Recibe(c) \/ Descarta(c) \/ Acepta(c) \/ Copia(c) \/ Termina(c)
        \/ Muere

Spec == Init /\ [][Next]_vars
============================================================================
