----------------------------- MODULE AreaPaging ---------------------------
(***************************************************************************)
(* What a network of Geopaging routers is for: each message of a paging    *)
(* agent is handed, once, to each site with a cell within its distance,    *)
(* and to no other.                                                        *)
(***************************************************************************)
CONSTANTS
  Mensaje,
  Sitio,        \* where messages are handed to the cells
  Area          \* the sites of the paging area of each message

VARIABLES
  emitidos,     \* messages sent so far
  avisos        \* the pairs <<message, site>> handed over

vars == << emitidos, avisos >>

Init == emitidos = {} /\ avisos = {}

Emite(m) == /\ m \notin emitidos
            /\ emitidos' = emitidos \cup {m}
            /\ UNCHANGED avisos

\* Some of its sites at a time.
Avisa(m, S) == /\ m \in emitidos /\ S \subseteq Area[m]
               /\ avisos \cap ({m} \X S) = {}
               /\ avisos' = avisos \cup ({m} \X S)
               /\ UNCHANGED emitidos

Next == \E m \in Mensaje : Emite(m) \/ \E S \in SUBSET Sitio : Avisa(m, S)

Spec == Init /\ [][Next]_vars
============================================================================
