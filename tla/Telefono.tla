------------------------------ MODULE Telefono -----------------------------
(***************************************************************************)
(* The GUI of the trunking phone (GUIclient/GUIclient.cpp).  Three things  *)
(* run over one phone and one window: the callbacks of the interface, the  *)
(* updates that the phone's library makes from its own thread, and the     *)
(* handlers of the signals sent by the button of the PDA, which interrupt  *)
(* the callbacks.  There is no lock.  The library (trunkClient) is         *)
(* external: its state changes when it is told to and when the network     *)
(* says so, and it follows every change with a TRUNKING_EVENT.             *)
(***************************************************************************)
EXTENDS Naturals

CONSTANTS
  Grupos,      \* the groups in the list (the entries with an "@")
  MaxRemotos,  \* changes of state that come from the network
  MaxSenales,  \* presses of the button of the PDA
  MaxErrores   \* error windows of the login

ASSUME TelefonoAssumption ==
  /\ Grupos \cap {"ninguno", "No Group", "otro"} = {}
  /\ MaxRemotos \in Nat /\ MaxSenales \in Nat /\ MaxErrores \in Nat

VARIABLES
  \* the library
  configurado, \* isConfigured()
  estado,      \* voice state, and whether it is associated to a group
  grupo,       \* that group
  pedido,      \* the group of a joinGroup that is unanswered
  pendiente,   \* there is a TRUNKING_EVENT to deliver
  \* the process
  proc,        \* ph, the window and its registration, the pid file, the
               \*   handlers, exitted and the error windows of the login
  fallo,       \* how it died: "no", "memoria", "carrera" or "senal"
  pc,          \* of "gui", of "lib" (an update) and of "sig" (a handler)
  vuelve,      \* where gui goes after updateWidgets
  toca,        \* the event gui or sig is about to touch
  elegido,     \* the entry chosen in cb_list_i
  \* the window
  associatedGroup,
  leido,       \* what gui and lib have read in updateWidgets
  trunkStatus, \* the widget's value and color: the state it stands for
  status,      \* its value: the group connected to, or "otro" for other texts
  \* history and bounds
  solapada,    \* the last update of the window overlapped another
  cruzada,     \* the last choice of a group was refused, or was made while
               \*   another was unanswered
  remotos, senales

libreria == << configurado, estado, grupo, pedido, pendiente >>
ventana == << leido, trunkStatus, status, solapada >>
eleccion == << elegido, associatedGroup, cruzada >>
cuentas == << remotos, senales >>
vars == << libreria, proc, fallo, pc, vuelve, toca, ventana, eleccion, cuentas >>

Voz == {"SILENCE", "TALKING", "LISTENING"}
E(v, a) == [voz |-> v, asociado |-> a]
Pinta == {"w1", "w2", "w3", "w4", "w5", "w6"}     \* inside updateWidgets
Solapa(t) == pc[IF t = "lib" THEN "gui" ELSE "lib"] \in Pinta

Init ==
  /\ configurado = FALSE /\ estado = E("SILENCE", FALSE)
  /\ grupo = "ninguno" /\ pedido = "ninguno" /\ pendiente = FALSE
  /\ proc = [ph |-> "NULL", ventana |-> FALSE, observada |-> FALSE, pid |-> FALSE,
             manejador |-> {}, exitted |-> TRUE, errores |-> 0]
  /\ fallo = "no"
  /\ pc = [gui |-> "login", lib |-> "ocioso", sig |-> "ocioso"]
  /\ vuelve = "ocioso" /\ toca = [gui |-> "nada", sig |-> "nada"]
  /\ elegido = "ninguno" /\ associatedGroup = "ninguno"
  /\ leido = [gui |-> E("nada", FALSE), lib |-> E("nada", FALSE)]
  /\ trunkStatus = E("nada", FALSE) /\ status = "otro"
  /\ solapada = FALSE /\ cruzada = FALSE /\ remotos = 0 /\ senales = 0

\* Thread t goes from a point to another; a handler suspends gui.
Va(t, de, a) ==
  /\ fallo = "no" /\ pc[t] = de /\ (t = "gui" => pc["sig"] = "ocioso")
  /\ pc' = [pc EXCEPT ![t] = a]
----------------------------------------------------------------------------
(* main, the login window and the constructor of PhoneWin.                 *)

Vive(de, a, p) ==
  /\ Va("gui", de, a)
  /\ proc' = p
  /\ UNCHANGED << libreria, fallo, vuelve, toca, ventana, eleccion, cuentas >>

\* cb_accept_i: the window is hidden, or an error window is shown beside it.
Acepta == Vive("login", "espera", [proc EXCEPT !.exitted = FALSE])
AceptaMal == /\ proc.errores < MaxErrores
             /\ Vive("login", "login", [proc EXCEPT !.errores = @ + 1])

\* cb_quit_i of the login.
Renuncia == Vive("login", "espera", [proc EXCEPT !.exitted = TRUE])

\* The button of an error window runs the same cb_quit_i: exitted is set again
\* even when the login has been accepted.
CierraError ==
  /\ proc.errores > 0
  /\ \E p \in {"login", "espera"} :
       Vive(p, p, [proc EXCEPT !.errores = @ - 1, !.exitted = TRUE])

\* Fl::run returns when no window is shown.
SinVentanas == /\ proc.errores = 0
               /\ Vive("espera", IF proc.exitted THEN "borra" ELSE "crea", proc)

\* Mutant: the window registers before its widgets exist.
CreaObservada == Vive("crea", "registra", [proc EXCEPT !.ph = "vivo", !.observada = TRUE])

\* new trunkClient
Crea == Vive("crea", "registra", [proc EXCEPT !.ph = "vivo"])

\* PhoneWin: the widgets, addGUIObserver, the list, updateWidgets.
Registra ==
  /\ Va("gui", "registra", "w1")
  /\ proc' = [proc EXCEPT !.ventana = TRUE, !.observada = TRUE]
  /\ vuelve' = "pid" /\ solapada' = FALSE
  /\ UNCHANGED << libreria, fallo, toca, leido, trunkStatus, status, eleccion, cuentas >>

\* The process number is in the file before the signals have handlers.
EscribePid == Vive("pid", "usr2", [proc EXCEPT !.pid = TRUE])
Maneja == \/ Vive("usr2", "usr1", [proc EXCEPT !.manejador = @ \cup {"USR2"}])
          \/ Vive("usr1", "ocioso", [proc EXCEPT !.manejador = @ \cup {"USR1"}])

\* cb_quit_i: Fl::run returns and win2 is destroyed, still an observer.
Cierra == Vive("ocioso", "borra", [proc EXCEPT !.ventana = FALSE])

\* delete ph ends the library's thread; ph = NULL; return.
Borra == /\ pc["lib"] = "ocioso"
         /\ Vive("borra", "anula", [proc EXCEPT !.ph = IF @ = "NULL" THEN @ ELSE "borrado"])
Anula == Vive("anula", "retorna", [proc EXCEPT !.ph = "NULL"])
Retorna == Vive("retorna", "fin", proc)

Principal == \/ Acepta \/ AceptaMal \/ Renuncia \/ CierraError \/ SinVentanas \/ Crea
             \/ Registra \/ EscribePid \/ Maneja \/ Cierra \/ Borra \/ Anula \/ Retorna
----------------------------------------------------------------------------
(* updateWidgets, run by gui and by lib: each look at the phone is a step. *)

Memoria == /\ fallo' = "memoria"
           /\ UNCHANGED << libreria, proc, pc, vuelve, toca, ventana, eleccion, cuentas >>

Sale(t) == IF t = "gui" THEN vuelve ELSE "ocioso"

\* Not configured: the status says so.
Configurado(t) ==
  /\ Va(t, "w1", IF configurado THEN "w2" ELSE Sale(t))
  /\ status' = IF configurado THEN status ELSE "otro"
  /\ UNCHANGED << libreria, proc, fallo, vuelve, toca, leido, trunkStatus, solapada,
                  eleccion, cuentas >>

LeeAsociado(t) ==
  /\ Va(t, "w2", "w3")
  /\ leido' = [leido EXCEPT ![t] = E("nada", estado.asociado)]
  /\ UNCHANGED << libreria, proc, fallo, vuelve, toca, trunkStatus, status, solapada,
                  eleccion, cuentas >>

\* The three tests of the voice state, each with a look of its own; "otro" is
\* the branch marked MAY NEVER ENTER HERE.
LeeVoz(t) ==
  /\ \E p \in {<<"w3", "TALKING", "w4">>, <<"w4", "LISTENING", "w5">>, <<"w5", "SILENCE", "w6">>} :
       /\ Va(t, p[1], IF estado.voz = p[2] THEN "w6" ELSE p[3])
       /\ leido' = [leido EXCEPT ![t].voz =
                      IF estado.voz = p[2] THEN p[2] ELSE IF p[1] = "w5" THEN "otro" ELSE @]
  /\ UNCHANGED << libreria, proc, fallo, vuelve, toca, trunkStatus, status, solapada,
                  eleccion, cuentas >>

\* The values of the widgets; the screen is another matter (Pantalla).
PonValores(t) ==
  /\ Va(t, "w6", Sale(t))
  /\ trunkStatus' = leido[t]
  /\ status' = IF leido[t].asociado THEN associatedGroup ELSE status
  /\ leido' = [leido EXCEPT ![t] = E("nada", FALSE)]
  /\ UNCHANGED << libreria, proc, fallo, vuelve, toca, solapada, eleccion, cuentas >>

\* The window an update writes to has been destroyed.
PintaMuerta == /\ fallo = "no" /\ ~ proc.ventana
               /\ pc["lib"] \in {"w1", "w6"}
               /\ Memoria

\* Both threads are about to write the same strings.
Colision == /\ fallo = "no" /\ pc["sig"] = "ocioso"
            /\ pc["lib"] = "w6" /\ pc["gui"] \in {"w6", "elige"}
            /\ fallo' = "carrera"
            /\ UNCHANGED << libreria, proc, pc, vuelve, toca, ventana, eleccion, cuentas >>

updateWidgets == \/ \E t \in {"gui", "lib"} :
                      Configurado(t) \/ LeeAsociado(t) \/ LeeVoz(t) \/ PonValores(t)
                 \/ PintaMuerta \/ Colision
----------------------------------------------------------------------------
(* Callbacks and handlers.                                                 *)

\* A callback ends in updateWidgets.
Repinta(de) == /\ Va("gui", de, "w1")
               /\ vuelve' = "ocioso" /\ solapada' = Solapa("gui")

Callback == \E p \in {"t0", "e1", "l0"} :
  /\ Va("gui", "ocioso", p)
  /\ IF p = "l0" THEN elegido' \in Grupos \cup {"NO GROUP", "sin @", "nada"}
                 ELSE UNCHANGED elegido
  /\ UNCHANGED << libreria, proc, fallo, vuelve, toca, ventana, associatedGroup, cruzada,
                  cuentas >>

cb_main == /\ Repinta("ocioso")
           /\ UNCHANGED << libreria, proc, fallo, toca, leido, trunkStatus, status,
                           eleccion, cuentas >>

\* A button of the PDA; without a handler the signal kills the process.
Pulsa(s) ==
  /\ fallo = "no" /\ proc.pid /\ pc["gui"] # "fin" /\ pc["sig"] = "ocioso"
  /\ senales < MaxSenales /\ senales' = senales + 1
  /\ IF s \in proc.manejador
       THEN pc' = [pc EXCEPT !["sig"] = IF s = "USR2" THEN "t1" ELSE "g1"] /\ UNCHANGED fallo
       ELSE fallo' = "senal" /\ UNCHANGED pc
  /\ UNCHANGED << libreria, proc, vuelve, toca, ventana, eleccion, remotos >>

\* One test of the phone's state: the event to touch, or the next test.
Prueba(t, de, cond, ev, si_no) ==
  /\ t = "sig" => proc.ph = "vivo"
  /\ Va(t, de, IF cond THEN "toca" ELSE si_no)
  /\ toca' = [toca EXCEPT ![t] = IF cond THEN ev ELSE @]
  /\ UNCHANGED << libreria, proc, fallo, vuelve, ventana, eleccion, cuentas >>

\* cb_trunk_i looks first whether the phone is configured.
TrunkConfigurado ==
  /\ Va("gui", "t0", IF configurado THEN "t1" ELSE "ocioso")
  /\ status' = IF configurado THEN status ELSE "otro"
  /\ UNCHANGED << libreria, proc, fallo, vuelve, toca, leido, trunkStatus, solapada,
                  eleccion, cuentas >>

\* cb_trunk_i and catch_trunk
Trunk(t) == \/ Prueba(t, "t1", estado = E("SILENCE", TRUE), "TRUNK_I_ON", "t2")
            \/ Prueba(t, "t2", estado = E("TALKING", TRUE), "TRUNK_I_OFF", "ocioso")

cb_emerg_i == \/ Prueba("gui", "e1", estado.voz = "SILENCE", "EMERG_I_ON", "e2")
              \/ Prueba("gui", "e2", estado = E("LISTENING", TRUE), "EMERG_I_ON", "e3")
              \/ Prueba("gui", "e3", estado = E("TALKING", FALSE), "EMERG_I_OFF", "ocioso")

catch_emerg == \/ Prueba("sig", "g1", estado = E("TALKING", FALSE), "EMERG_I_OFF", "g2")
               \/ Prueba("sig", "g2", estado # E("LISTENING", FALSE), "EMERG_I_ON", "ocioso")

\* What the library makes of an event; out of its place it is ignored.
Efecto(ev) ==
  CASE ev = "TRUNK_I_ON" /\ estado = E("SILENCE", TRUE) -> E("TALKING", TRUE)
    [] ev = "TRUNK_I_OFF" /\ estado = E("TALKING", TRUE) -> E("SILENCE", TRUE)
    [] ev = "EMERG_I_ON" /\ configurado /\ estado \notin {E("TALKING", FALSE), E("LISTENING", FALSE)}
         -> E("TALKING", FALSE)
    [] ev = "EMERG_I_OFF" /\ estado = E("TALKING", FALSE) -> E("SILENCE", FALSE)
    [] OTHER -> estado

touch(ev) == /\ estado' = Efecto(ev)
             /\ grupo' = IF estado'.asociado THEN grupo ELSE "ninguno"
             /\ pendiente' = (pendiente \/ estado' # estado)
             /\ UNCHANGED << configurado, pedido >>

TocaGui == /\ Repinta("toca")
           /\ touch(toca["gui"])
           /\ toca' = [toca EXCEPT !["gui"] = "nada"]
           /\ UNCHANGED << proc, fallo, leido, trunkStatus, status, eleccion, cuentas >>

\* A handler leaves the window to the library's event.
TocaSig == /\ proc.ph = "vivo"
           /\ Va("sig", "toca", "ocioso")
           /\ touch(toca["sig"])
           /\ toca' = [toca EXCEPT !["sig"] = "nada"]
           /\ UNCHANGED << proc, fallo, vuelve, ventana, eleccion, cuentas >>

\* A handler uses a phone that is no more: what it reads of one deleted may be
\* anything.
UsaMuerto == /\ fallo = "no" /\ proc.ph # "vivo" /\ pc["sig"] # "ocioso"
             /\ \/ Memoria
                \/ /\ proc.ph = "borrado"
                   /\ pc' = [pc EXCEPT !["sig"] = "ocioso"]
                   /\ UNCHANGED << libreria, proc, fallo, vuelve, toca, ventana, eleccion,
                                   cuentas >>

Botones == \/ Callback \/ cb_main \/ (\E s \in {"USR1", "USR2"} : Pulsa(s))
           \/ TrunkConfigurado \/ (\E t \in {"gui", "sig"} : Trunk(t))
           \/ cb_emerg_i \/ catch_emerg \/ TocaGui \/ TocaSig \/ UsaMuerto
----------------------------------------------------------------------------
(* cb_list_i                                                               *)

\* Not configured, an entry that is no group, or a group refused during an
\* emergency: a text in the status, and updateWidgets.
ListaAviso(de, cond) ==
  /\ cond
  /\ Repinta(de)
  /\ status' = "otro" /\ elegido' = "ninguno"
  /\ UNCHANGED << libreria, proc, fallo, toca, leido, trunkStatus, associatedGroup,
                  cruzada, cuentas >>

Lista(de, cond, a) ==
  /\ cond
  /\ Va("gui", de, a)
  /\ UNCHANGED << libreria, proc, fallo, vuelve, toca, ventana, eleccion, cuentas >>

\* Which branch, with the two looks at the phone of the last test.
ListaRama ==
  \/ ListaAviso("l0", ~ configurado \/ elegido \in {"nada", "sin @"})
  \/ Lista("l0", configurado /\ elegido = "NO GROUP", "deja")
  \/ Lista("l0", configurado /\ elegido \in Grupos, "l4")
  \/ Lista("l4", TRUE, IF estado.asociado THEN "elige" ELSE "l5")
  \/ ListaAviso("l5", estado.voz # "SILENCE")
  \/ Lista("l5", estado.voz = "SILENCE", "elige")

\* NO GROUP: exitFromGroup when associated; then touch(PSM_INIT).
Deja ==
  /\ Va("gui", "deja", "psm_init")
  /\ IF estado.asociado THEN estado' = E("SILENCE", FALSE) /\ grupo' = "ninguno" /\ pendiente' = TRUE
                        ELSE UNCHANGED << estado, grupo, pendiente >>
  /\ status' = "otro"
  /\ UNCHANGED << configurado, pedido, proc, fallo, vuelve, toca, leido, trunkStatus,
                  solapada, eleccion, cuentas >>

PsmInit ==
  /\ Repinta("psm_init")
  /\ associatedGroup' = "No Group" /\ cruzada' = (pedido # "ninguno")
  /\ elegido' = "ninguno"
  /\ estado' = E("SILENCE", FALSE) /\ grupo' = "ninguno"
  /\ pendiente' = (pendiente \/ estado' # estado)
  /\ UNCHANGED << configurado, pedido, proc, fallo, toca, leido, trunkStatus, status,
                  cuentas >>

\* Mutant: the new group is not remembered, only put in status.
EligeSinGuardar ==
  /\ Va("gui", "elige", "une")
  /\ status' = elegido
  /\ cruzada' = (pedido # "ninguno")
  /\ UNCHANGED << libreria, proc, fallo, vuelve, toca, leido, trunkStatus, solapada,
                  elegido, associatedGroup, cuentas >>

\* The status says connected, and then the group is asked for.
Elige ==
  /\ Va("gui", "elige", "une")
  /\ associatedGroup' = elegido /\ status' = elegido
  /\ cruzada' = (pedido # "ninguno")
  /\ UNCHANGED << libreria, proc, fallo, vuelve, toca, leido, trunkStatus, solapada,
                  elegido, cuentas >>

joinGroup ==
  /\ Repinta("une")
  /\ pedido' = elegido /\ elegido' = "ninguno"
  /\ UNCHANGED << configurado, estado, grupo, pendiente, proc, fallo, toca, leido,
                  trunkStatus, status, associatedGroup, cruzada, cuentas >>

cb_list_i == ListaRama \/ Deja \/ PsmInit \/ Elige \/ joinGroup
----------------------------------------------------------------------------
(* The library: what comes from the network, and its updates.              *)

Biblioteca == /\ fallo = "no" /\ proc.ph = "vivo"
              /\ UNCHANGED << proc, fallo, pc, vuelve, toca, ventana, elegido,
                              associatedGroup, senales >>

Configura == /\ Biblioteca /\ ~ configurado
             /\ configurado' = TRUE /\ pendiente' = TRUE
             /\ UNCHANGED << estado, grupo, pedido, cruzada, remotos >>

\* Somebody talks or stops, here or in an emergency; the group may be lost.
Remoto == /\ Biblioteca /\ configurado /\ remotos < MaxRemotos
          /\ \E v \in {"SILENCE", "LISTENING"}, a \in {estado.asociado, FALSE} :
               estado' = E(v, a)
          /\ estado' # estado
          /\ grupo' = IF estado'.asociado THEN grupo ELSE "ninguno"
          /\ pendiente' = TRUE /\ remotos' = remotos + 1
          /\ UNCHANGED << configurado, pedido, cruzada >>

\* The answer to joinGroup.
Responde == /\ Biblioteca /\ pedido # "ninguno"
            /\ pedido' = "ninguno"
            /\ \/ /\ estado' = E("SILENCE", TRUE) /\ grupo' = pedido
                  /\ pendiente' = TRUE /\ UNCHANGED cruzada
               \/ /\ cruzada' = TRUE
                  /\ UNCHANGED << estado, grupo, pendiente >>
            /\ UNCHANGED << configurado, remotos >>

\* Mutant: an update only redraws what is there.
AvisaSinPintar == /\ pendiente /\ proc.ph = "vivo"
                  /\ Va("lib", "ocioso", "ocioso")
                  /\ pendiente' = FALSE
                  /\ UNCHANGED << configurado, estado, grupo, pedido, proc, fallo, vuelve,
                                  toca, ventana, eleccion, cuentas >>

\* update, TRUNKING_EVENT
Avisa == /\ pendiente /\ proc.ph = "vivo"
         /\ Va("lib", "ocioso", IF proc.observada THEN "w1" ELSE "ocioso")
         /\ pendiente' = FALSE
         /\ solapada' = IF proc.observada THEN Solapa("lib") ELSE solapada
         /\ UNCHANGED << configurado, estado, grupo, pedido, proc, fallo, vuelve, toca,
                         leido, trunkStatus, status, eleccion, cuentas >>

\* update, TXTMSG_RECEIVED
Mensaje == /\ proc.ph = "vivo" /\ proc.observada
           /\ Va("lib", "ocioso", "ocioso")
           /\ IF proc.ventana THEN status' = "otro" /\ UNCHANGED fallo
                              ELSE fallo' = "memoria" /\ UNCHANGED status
           /\ UNCHANGED << libreria, proc, vuelve, toca, leido, trunkStatus, solapada,
                           eleccion, cuentas >>

Red == Configura \/ Remoto \/ Responde \/ Avisa \/ Mensaje

Next == Principal \/ updateWidgets \/ Botones \/ cb_list_i \/ Red

Spec == Init /\ [][Next]_vars
----------------------------------------------------------------------------
TypeOK ==
  /\ configurado \in BOOLEAN /\ estado \in [voz : Voz, asociado : BOOLEAN]
  /\ grupo \in Grupos \cup {"ninguno"} /\ pedido \in Grupos \cup {"ninguno"}
  /\ estado.asociado <=> grupo # "ninguno"
  /\ fallo \in {"no", "memoria", "carrera", "senal"}
  /\ status \in Grupos \cup {"ninguno", "No Group", "otro"}
  /\ associatedGroup \in Grupos \cup {"ninguno", "No Group"}

Quieto == /\ fallo = "no" /\ configurado /\ ~ pendiente
          /\ \A t \in DOMAIN pc : pc[t] = "ocioso"

\* When nothing is going on the value of trunkStatus is the state of the phone,
\* whatever changed in the middle of an update and whoever changed it (a
\* callback, a handler, the network), unless the last update overlapped another:
\* then the older text may have been set last (GUIclient.cpp:187-262).
ValoresAlDia == Quieto /\ ~ solapada => trunkStatus = estado

\* The group in the value of status is the one the phone is in, although it is
\* set before the group is asked for (GUIclient.cpp:357-364); the
\* exceptions are a choice that was refused and one made before the answer to
\* the one before.
GrupoMostrado ==
  Quieto /\ pedido = "ninguno" /\ ~ solapada /\ ~ cruzada
    /\ estado.asociado /\ status # "otro"
    => status = grupo

\* No update reaches a window that does not exist, and no handler a phone that
\* does not, before the user quits; a signal only kills the process between
\* the writing of the pid file and the installation of its handler
\* (GUIclient.cpp:156-178, 447-455).
SoloFallaAlSalir ==
  /\ fallo = "memoria" => pc["gui"] \in {"borra", "anula", "retorna"}
  /\ fallo = "senal" => pc["gui"] \in {"usr2", "usr1"}
============================================================================
