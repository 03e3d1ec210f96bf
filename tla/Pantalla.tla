------------------------------ MODULE Pantalla -----------------------------
(***************************************************************************)
(* What of the phone's window is on the screen.  updateWidgets sets values *)
(* and marks the widgets as damaged; FLTK, external, draws what is damaged *)
(* when its loop, in the interface's thread, comes back from a callback or *)
(* wakes up, and a mark made by another thread does not wake it up.        *)
(***************************************************************************)
EXTENDS Telefono

VARIABLE dibujado   \* the state trunkStatus was last drawn with

varsPantalla == << vars, dibujado >>

EnBucle == pc["gui"] = "ocioso" /\ pc["sig"] = "ocioso"

\* Fl::run, back from a callback, or from a wait that a signal has cut short.
Dibuja == IF EnBucle' /\ ~ EnBucle THEN dibujado' = trunkStatus' ELSE UNCHANGED dibujado

\* An event of the user or of the display, of any kind, wakes the loop.
Despierta == /\ fallo = "no" /\ EnBucle
             /\ dibujado' = trunkStatus
             /\ UNCHANGED vars

SpecPantalla == /\ Init /\ dibujado = trunkStatus
                /\ [][(Next /\ Dibuja) \/ Despierta]_varsPantalla
----------------------------------------------------------------------------
\* "we draw in status the current state via the callback" (GUIclient.cpp:413):
\* when nothing is going on, and updates have not overlapped, what is on the
\* screen is the state of the phone.
PantallaAlDia == Quieto /\ ~ solapada => dibujado = estado
============================================================================
