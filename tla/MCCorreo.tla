------------------------------ MODULE MCCorreo ----------------------------
(***************************************************************************)
(* Small instances of Correo: a problem, a recovery and a mail that the    *)
(* monitor does not know.                                                  *)
(***************************************************************************)
EXTENDS Correo

Aviso == [id |-> 1, tipo |-> "PROBLEM", estado |-> "WARNING"]
Vuelta == [id |-> 2, tipo |-> "RECOVERY", estado |-> "OK"]
Otro == [id |-> 3, tipo |-> "PROBLEM", estado |-> "UNKNOWN"]
Dos == {Aviso, Otro}
Tres == Dos \cup {Vuelta}
============================================================================
