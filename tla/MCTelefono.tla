----------------------------- MODULE MCTelefono ----------------------------
(* The groups of the phone are interchangeable. *)
EXTENDS Telefono, TLC

Simetria == Permutations(Grupos)

\* Bound: a press of the button and a change from the network in one behaviour
\* meet only while no callback runs; either of them meets the callbacks.
UnaEnLlamada == senales + remotos = 2 => pc["gui"] \in {"ocioso", "borra", "anula", "retorna", "fin"}
============================================================================
