----------------------------- MODULE MCMedidas ----------------------------
(***************************************************************************)
(* The two smallest programs in one instance, the distance of the router   *)
(* and the status file of the probe.  They share nothing: a behaviour is   *)
(* of one of them, and the other keeps one of its initial states.          *)
(***************************************************************************)
EXTENDS MCGeopag, Sonda

VARIABLE programa

DeDistancia == programa = "distancia"
DeSonda == programa = "sonda"

MedidasInit == /\ programa \in {"distancia", "sonda"}
               /\ DistInit /\ (DeSonda => par = << Centro, 16384 >>)
               /\ Init /\ (DeDistancia => fichero = 0)

MedidasNext == /\ \/ DeDistancia /\ DistNext /\ UNCHANGED vars
                  \/ DeSonda /\ Next /\ UNCHANGED distvars
               /\ UNCHANGED programa

MedidasSpec == MedidasInit /\ [][MedidasNext]_<< distvars, vars, programa >>
============================================================================
