--------------------------- MODULE TelefonoProofs --------------------------
(***************************************************************************)
(* Theorems about Telefono for every list of groups and every number of    *)
(* events.                                                                 *)
(***************************************************************************)
EXTENDS Telefono, TLAPS

(***************************************************************************)
(* The invariant says at which points of the GUI's thread there is a       *)
(* phone, a window, a registration, a process number in the file, and      *)
(* handlers; and when an update or a handler may be under way.             *)
(***************************************************************************)

Antes == {"login", "espera", "crea"}
Despues == {"anula", "retorna", "fin"}
Listas == {"l4", "l5", "elige", "une"}
Servicio == {"ocioso", "t0", "t1", "t2", "toca", "e1", "e2", "e3", "l0", "deja", "psm_init"}
              \cup Listas
Constructor == {"registra", "pid"}
Manejo == {"usr2", "usr1"}
Puntos == Antes \cup Constructor \cup Pinta \cup Manejo \cup Servicio
            \cup {"borra"} \cup Despues
Entradas == Grupos \cup {"ninguno", "NO GROUP", "sin @", "nada"}

Control ==
  /\ DOMAIN pc = {"gui", "lib", "sig"}
  /\ pc["gui"] \in Puntos
  /\ vuelve \in {"ocioso", "pid"}
  /\ elegido \in Entradas
  /\ pc["gui"] \in Listas => elegido \in Grupos

\* The phone lives from its creation to its deletion.
Vida ==
  /\ DOMAIN proc = {"ph", "ventana", "observada", "pid", "manejador", "exitted", "errores"}
  /\ pc["gui"] \in Antes => proc.ph = "NULL" /\ ~ proc.observada /\ ~ proc.pid
  /\ pc["gui"] \in Antes \cup Despues \cup {"borra"} \/ proc.ph = "vivo"
  /\ pc["gui"] = "borra" => proc.ph = "vivo" \/ ~ proc.pid
  /\ pc["gui"] \in Despues => proc.ph # "vivo"

\* The window is there from its registration until the user quits.
Ventana ==
  /\ proc.observada => proc.ventana \/ pc["gui"] \in Despues \cup {"borra"}
  /\ pc["lib"] # "ocioso" => proc.observada /\ proc.ph = "vivo"

\* The handlers are there soon after the process number.
Manejadores ==
  /\ pc["gui"] \in Constructor => ~ proc.pid
  /\ pc["gui"] \in Pinta /\ vuelve = "pid" => ~ proc.pid
  /\ pc["gui"] = "usr1" => "USR2" \in proc.manejador
  /\ proc.pid /\ pc["gui"] \notin Manejo => {"USR1", "USR2"} \subseteq proc.manejador
  /\ pc["sig"] # "ocioso" => proc.pid /\ pc["gui"] # "fin"

Hilos == Control /\ Vida /\ Ventana /\ Manejadores /\ SoloFallaAlSalir

IInv == TypeOK /\ Hilos
----------------------------------------------------------------------------
LEMMA InitInv == Init => IInv
<1> SUFFICES ASSUME Init
             PROVE  IInv
  OBVIOUS
<1> USE DEF Init
<1>1. TypeOK
  <2>1. configurado \in BOOLEAN /\ estado \in [voz : Voz, asociado : BOOLEAN]
    BY DEF E, Voz
  <2> QED
    BY <2>1, TelefonoAssumption DEF TypeOK, E
<1>2. Control
  BY DEF Control, Puntos, Antes, Listas, Entradas
<1>3. Vida
  BY DEF Vida, Antes, Despues
<1>4. Ventana
  BY DEF Ventana
<1>5. Manejadores
  BY DEF Manejadores, Constructor, Pinta, Manejo
<1>6. SoloFallaAlSalir
  BY DEF SoloFallaAlSalir
<1> QED
  BY <1>1, <1>2, <1>3, <1>4, <1>5, <1>6 DEF IInv, Hilos
----------------------------------------------------------------------------
(* Who moves, and what that disturbs.                                      *)

LEMMA VaGui ==
  ASSUME NEW de, NEW a, Va("gui", de, a), Control
  PROVE  /\ fallo = "no" /\ pc["sig"] = "ocioso" /\ pc["gui"] = de /\ pc'["gui"] = a
         /\ pc'["lib"] = pc["lib"] /\ pc'["sig"] = pc["sig"] /\ DOMAIN pc' = {"gui", "lib", "sig"}
BY DEF Va, Control

LEMMA VaLib ==
  ASSUME NEW de, NEW a, Va("lib", de, a), Control
  PROVE  /\ fallo = "no" /\ pc["lib"] = de /\ pc'["lib"] = a
         /\ pc'["gui"] = pc["gui"] /\ pc'["sig"] = pc["sig"] /\ DOMAIN pc' = {"gui", "lib", "sig"}
BY DEF Va, Control

LEMMA VaSig ==
  ASSUME NEW de, NEW a, Va("sig", de, a), Control
  PROVE  /\ fallo = "no" /\ pc["sig"] = de /\ pc'["sig"] = a
         /\ pc'["gui"] = pc["gui"] /\ pc'["lib"] = pc["lib"] /\ DOMAIN pc' = {"gui", "lib", "sig"}
BY DEF Va, Control

\* The thread of the GUI goes on in a callback or in updateWidgets.
LEMMA MueveGui ==
  ASSUME NEW de, NEW a, Hilos, Va("gui", de, a), proc' = proc, fallo' = fallo,
         elegido' \in Entradas, a \in Listas => elegido' \in Grupos,
         \/ de \in Servicio /\ a \in Servicio /\ vuelve' = vuelve
         \/ de \in Servicio /\ a \in Pinta /\ vuelve' = "ocioso"
         \/ de \in Pinta /\ a \in Pinta /\ vuelve' = vuelve
         \/ de \in Pinta /\ a = vuelve /\ vuelve' = vuelve
  PROVE  Hilos'
<1>1. /\ fallo = "no" /\ pc["sig"] = "ocioso" /\ pc["gui"] = de /\ pc'["gui"] = a
      /\ pc'["lib"] = pc["lib"] /\ pc'["sig"] = pc["sig"] /\ DOMAIN pc' = {"gui", "lib", "sig"}
  BY VaGui DEF Hilos
<1>2. vuelve \in {"ocioso", "pid"}
  BY DEF Hilos, Control
<1>3. Control'
  BY <1>1, <1>2 DEF Control, Puntos, Antes, Despues, Listas, Servicio, Constructor, Pinta, Manejo
<1>4. Vida'
  BY <1>1, <1>2 DEF Hilos, Vida, Antes, Despues, Listas, Servicio, Constructor, Pinta, Manejo
<1>5. Ventana'
  BY <1>1, <1>2 DEF Hilos, Ventana, Antes, Despues, Listas, Servicio, Constructor, Pinta, Manejo
<1>6. Manejadores'
  BY <1>1, <1>2 DEF Hilos, Manejadores, Antes, Despues, Listas, Servicio, Constructor, Pinta, Manejo
<1>7. SoloFallaAlSalir'
  BY <1>1 DEF SoloFallaAlSalir
<1> QED
  BY <1>3, <1>4, <1>5, <1>6, <1>7 DEF Hilos

\* The library's thread goes on in an update, or begins one.
LEMMA MueveLib ==
  ASSUME NEW de, NEW a, Hilos, Va("lib", de, a), proc' = proc, fallo' = fallo,
         elegido' = elegido, vuelve' = vuelve,
         de # "ocioso" \/ (proc.observada /\ proc.ph = "vivo") \/ a = "ocioso"
  PROVE  Hilos'
<1>1. /\ fallo = "no" /\ pc["lib"] = de /\ pc'["lib"] = a
      /\ pc'["gui"] = pc["gui"] /\ pc'["sig"] = pc["sig"] /\ DOMAIN pc' = {"gui", "lib", "sig"}
  BY VaLib DEF Hilos
<1>2. Control'
  BY <1>1 DEF Hilos, Control
<1>3. Vida' /\ Manejadores'
  BY <1>1 DEF Hilos, Vida, Manejadores
<1>4. Ventana'
  BY <1>1 DEF Hilos, Ventana
<1>5. SoloFallaAlSalir'
  BY <1>1 DEF SoloFallaAlSalir
<1> QED
  BY <1>2, <1>3, <1>4, <1>5 DEF Hilos

\* A handler goes on.
LEMMA MueveSig ==
  ASSUME NEW de, NEW a, Hilos, Va("sig", de, a), proc' = proc, fallo' = fallo,
         elegido' = elegido, vuelve' = vuelve, de # "ocioso"
  PROVE  Hilos'
<1>1. /\ fallo = "no" /\ pc["sig"] = de /\ pc'["sig"] = a
      /\ pc'["gui"] = pc["gui"] /\ pc'["lib"] = pc["lib"] /\ DOMAIN pc' = {"gui", "lib", "sig"}
  BY VaSig DEF Hilos
<1>2. Control'
  BY <1>1 DEF Hilos, Control
<1>3. Vida' /\ Manejadores'
  BY <1>1 DEF Hilos, Vida, Manejadores
<1>4. Ventana'
  BY <1>1 DEF Hilos, Ventana
<1>5. SoloFallaAlSalir'
  BY <1>1 DEF SoloFallaAlSalir
<1> QED
  BY <1>2, <1>3, <1>4, <1>5 DEF Hilos

\* Nobody moves.
LEMMA Quietos ==
  ASSUME Hilos, proc' = proc, elegido' = elegido, vuelve' = vuelve, SoloFallaAlSalir',
         DOMAIN pc' = DOMAIN pc, \A t \in {"gui", "lib", "sig"} : pc'[t] = pc[t]
  PROVE  Hilos'
<1>1. Control' /\ Vida'
  BY DEF Hilos, Control, Vida
<1>2. Ventana' /\ Manejadores'
  BY DEF Hilos, Ventana, Manejadores
<1> QED
  BY <1>1, <1>2 DEF Hilos
----------------------------------------------------------------------------
(* updateWidgets                                                           *)

LEMMA UpdateWidgetsInv == IInv /\ updateWidgets => IInv'
<1> USE DEF libreria, ventana, eleccion, cuentas
<1>1. ASSUME IInv, NEW t \in {"gui", "lib"}, Configurado(t) \/ LeeAsociado(t) \/ LeeVoz(t) \/ PonValores(t)
      PROVE  IInv'
  <2>1. TypeOK'
    BY <1>1 DEF IInv, TypeOK, Configurado, LeeAsociado, LeeVoz, PonValores
  <2>2. PICK de, a : de \in Pinta /\ Va(t, de, a) /\ a \in Pinta \cup {Sale(t)}
    <3>1. CASE Configurado(t)
      BY <3>1 DEF Configurado, Pinta
    <3>2. CASE LeeAsociado(t)
      BY <3>2 DEF LeeAsociado, Pinta
    <3>3. CASE LeeVoz(t)
      BY <3>3 DEF LeeVoz, Pinta
    <3>4. CASE PonValores(t)
      BY <3>4 DEF PonValores, Pinta
    <3> QED
      BY <1>1, <3>1, <3>2, <3>3, <3>4
  <2>3. proc' = proc /\ fallo' = fallo /\ elegido' = elegido /\ vuelve' = vuelve
    BY <1>1 DEF Configurado, LeeAsociado, LeeVoz, PonValores
  <2>4. Hilos /\ elegido \in Entradas /\ vuelve \in {"ocioso", "pid"} /\ a \notin Listas
    BY <1>1, <2>2 DEF IInv, Hilos, Control, Pinta, Listas, Sale
  <2>5. CASE t = "gui"
    BY <2>1, <2>2, <2>3, <2>4, <2>5, MueveGui DEF Sale, IInv
  <2>6. CASE t = "lib"
    <3>1. de # "ocioso"
      BY <2>2 DEF Pinta
    <3> QED
      BY <2>1, <2>2, <2>3, <2>4, <2>6, <3>1, MueveLib DEF IInv
  <2> QED
    BY <1>1, <2>5, <2>6
<1>2. ASSUME IInv, PintaMuerta
      PROVE  IInv'
  <2>1. TypeOK'
    BY <1>2 DEF IInv, TypeOK, PintaMuerta, Memoria
  <2>2. pc["gui"] \in Despues \cup {"borra"} /\ pc["gui"] # "fin"
    BY <1>2 DEF IInv, Hilos, Ventana, Vida, PintaMuerta, Despues
  <2>3. SoloFallaAlSalir'
    BY <1>2, <2>2 DEF SoloFallaAlSalir, PintaMuerta, Memoria, Despues
  <2> QED
    BY <1>2, <2>1, <2>3, Quietos DEF IInv, PintaMuerta, Memoria
<1>3. ASSUME IInv, Colision
      PROVE  IInv'
  <2>1. TypeOK'
    BY <1>3 DEF IInv, TypeOK, Colision
  <2>2. SoloFallaAlSalir'
    BY <1>3 DEF SoloFallaAlSalir, Colision
  <2> QED
    BY <1>3, <2>1, <2>2, Quietos DEF IInv, Colision
<1> QED
  BY <1>1, <1>2, <1>3 DEF updateWidgets
----------------------------------------------------------------------------
(* Callbacks and handlers.                                                 *)

LEMMA TouchTipos ==
  ASSUME NEW ev, TypeOK, touch(ev)
  PROVE  /\ configurado' \in BOOLEAN /\ estado' \in [voz : Voz, asociado : BOOLEAN]
         /\ grupo' \in Grupos \cup {"ninguno"} /\ pedido' \in Grupos \cup {"ninguno"}
         /\ estado'.asociado <=> grupo' # "ninguno"
<1>1. estado' = estado \/ (estado' \in [voz : Voz, asociado : BOOLEAN] /\ (estado'.asociado => estado.asociado))
  <2>1. CASE ev = "TRUNK_I_ON" /\ estado = E("SILENCE", TRUE)
    BY <2>1 DEF touch, Efecto, E, Voz
  <2>2. CASE ev = "TRUNK_I_OFF" /\ estado = E("TALKING", TRUE)
    BY <2>2 DEF touch, Efecto, E, Voz
  <2>3. CASE ev = "EMERG_I_ON" /\ configurado /\ estado \notin {E("TALKING", FALSE), E("LISTENING", FALSE)}
    BY <2>3 DEF touch, Efecto, E, Voz
  <2>4. CASE ev = "EMERG_I_OFF" /\ estado = E("TALKING", FALSE)
    BY <2>4 DEF touch, Efecto, E, Voz
  <2> QED
    BY <2>1, <2>2, <2>3, <2>4 DEF touch, Efecto
<1>2. estado' \in [voz : Voz, asociado : BOOLEAN] /\ (estado'.asociado => estado.asociado)
  BY <1>1 DEF TypeOK
<1> QED
  BY <1>2 DEF TypeOK, touch

LEMMA PulsaInv == ASSUME NEW s \in {"USR1", "USR2"}, IInv, Pulsa(s) PROVE IInv'
<1> USE DEF libreria, ventana, eleccion, cuentas
<1>1. TypeOK'
  BY DEF IInv, TypeOK, Pulsa
<1>2. /\ fallo = "no" /\ proc.pid /\ pc["gui"] # "fin" /\ pc["sig"] = "ocioso"
      /\ proc' = proc /\ vuelve' = vuelve /\ elegido' = elegido
  BY DEF Pulsa
<1>3. CASE s \in proc.manejador
  <2>1. /\ fallo' = fallo /\ pc'["sig"] \in {"t1", "g1"} /\ pc'["gui"] = pc["gui"]
        /\ pc'["lib"] = pc["lib"] /\ DOMAIN pc' = {"gui", "lib", "sig"}
    BY <1>3 DEF Pulsa, IInv, Hilos, Control
  <2>2. Control' /\ SoloFallaAlSalir'
    BY <1>2, <2>1 DEF IInv, Hilos, Control, SoloFallaAlSalir
  <2>3. Vida' /\ Ventana'
    BY <1>2, <2>1 DEF IInv, Hilos, Vida, Ventana
  <2>4. Manejadores'
    BY <1>2, <2>1 DEF IInv, Hilos, Manejadores
  <2> QED
    BY <1>1, <2>2, <2>3, <2>4 DEF IInv, Hilos
<1>4. CASE s \notin proc.manejador
  <2>1. fallo' = "senal" /\ pc' = pc
    BY <1>4 DEF Pulsa
  <2>2. pc["gui"] \in Manejo
    BY <1>2, <1>4 DEF IInv, Hilos, Manejadores
  <2>3. SoloFallaAlSalir'
    BY <2>1, <2>2 DEF SoloFallaAlSalir, Manejo
  <2> QED
    BY <1>1, <1>2, <2>1, <2>3, Quietos DEF IInv
<1> QED
  BY <1>3, <1>4

LEMMA BotonesInv == IInv /\ Botones => IInv'
<1> USE DEF libreria, ventana, eleccion, cuentas
<1>1. ASSUME IInv, Callback
      PROVE  IInv'
  <2>1. TypeOK'
    BY <1>1 DEF IInv, TypeOK, Callback
  <2>2. PICK p \in {"t0", "e1", "l0"} :
          /\ Va("gui", "ocioso", p)
          /\ proc' = proc /\ fallo' = fallo /\ vuelve' = vuelve
          /\ elegido' = elegido \/ elegido' \in Grupos \cup {"NO GROUP", "sin @", "nada"}
    BY <1>1 DEF Callback
  <2>3. elegido' \in Entradas
    BY <1>1, <2>2 DEF IInv, Hilos, Control, Entradas
  <2> QED
    BY <1>1, <2>1, <2>2, <2>3, MueveGui DEF IInv, Servicio, Listas
<1>2. ASSUME IInv, cb_main
      PROVE  IInv'
  <2>1. TypeOK'
    BY <1>2 DEF IInv, TypeOK, cb_main
  <2>2. /\ Va("gui", "ocioso", "w1") /\ proc' = proc /\ fallo' = fallo /\ vuelve' = "ocioso"
        /\ elegido' = elegido
    BY <1>2 DEF cb_main, Repinta
  <2> QED
    BY <1>2, <2>1, <2>2, MueveGui DEF IInv, Hilos, Control, Servicio, Listas, Pinta
<1>3. ASSUME IInv, NEW s \in {"USR1", "USR2"}, Pulsa(s)
      PROVE  IInv'
  BY <1>3, PulsaInv
<1>4. ASSUME IInv, TrunkConfigurado
      PROVE  IInv'
  <2>1. TypeOK'
    BY <1>4 DEF IInv, TypeOK, TrunkConfigurado
  <2>2. PICK a \in {"t1", "ocioso"} : Va("gui", "t0", a)
    BY <1>4 DEF TrunkConfigurado
  <2>3. proc' = proc /\ fallo' = fallo /\ vuelve' = vuelve /\ elegido' = elegido
    BY <1>4 DEF TrunkConfigurado
  <2> QED
    BY <1>4, <2>1, <2>2, <2>3, MueveGui DEF IInv, Hilos, Control, Servicio, Listas
<1>5. ASSUME IInv, NEW t \in {"gui", "sig"}, Trunk(t) \/ cb_emerg_i \/ catch_emerg
      PROVE  IInv'
  <2>1. PICK u \in {"gui", "sig"}, de \in {"t1", "t2", "e1", "e2", "e3", "g1", "g2"},
             a \in {"toca", "t2", "e2", "e3", "g2", "ocioso"} :
          /\ Va(u, de, a)
          /\ u = "gui" => de \in {"t1", "t2", "e1", "e2", "e3"} /\ a # "g2"
          /\ UNCHANGED << libreria, proc, fallo, vuelve, ventana, eleccion, cuentas >>
    <3>1. CASE Trunk(t)
      BY <3>1 DEF Trunk, Prueba
    <3>2. CASE cb_emerg_i
      BY <3>2 DEF cb_emerg_i, Prueba
    <3>3. CASE catch_emerg
      BY <3>3 DEF catch_emerg, Prueba
    <3> QED
      BY <1>5, <3>1, <3>2, <3>3
  <2>2. TypeOK'
    BY <1>5, <2>1 DEF IInv, TypeOK
  <2>3. Hilos /\ elegido \in Entradas
    BY <1>5 DEF IInv, Hilos, Control
  <2>4. CASE u = "gui"
    <3>1. de \in Servicio /\ a \in Servicio /\ a \notin Listas
      BY <2>1, <2>4 DEF Servicio, Listas
    <3> QED
      BY <2>1, <2>2, <2>3, <2>4, <3>1, MueveGui DEF IInv
  <2>5. CASE u = "sig"
    BY <2>1, <2>2, <2>3, <2>5, MueveSig DEF IInv
  <2> QED
    BY <2>1, <2>4, <2>5
<1>6. ASSUME IInv, TocaGui
      PROVE  IInv'
  <2>1. TypeOK'
    BY <1>6, TouchTipos DEF IInv, TypeOK, TocaGui
  <2>2. /\ Va("gui", "toca", "w1") /\ proc' = proc /\ fallo' = fallo /\ vuelve' = "ocioso"
        /\ elegido' = elegido
    BY <1>6 DEF TocaGui, Repinta
  <2> QED
    BY <1>6, <2>1, <2>2, MueveGui DEF IInv, Hilos, Control, Servicio, Listas, Pinta
<1>7. ASSUME IInv, TocaSig
      PROVE  IInv'
  <2>1. TypeOK'
    BY <1>7, TouchTipos DEF IInv, TypeOK, TocaSig
  <2>2. /\ Va("sig", "toca", "ocioso") /\ proc' = proc /\ fallo' = fallo /\ vuelve' = vuelve
        /\ elegido' = elegido
    BY <1>7 DEF TocaSig
  <2> QED
    BY <1>7, <2>1, <2>2, MueveSig DEF IInv
<1>8. ASSUME IInv, UsaMuerto
      PROVE  IInv'
  <2>1. TypeOK'
    BY <1>8 DEF IInv, TypeOK, UsaMuerto, Memoria
  <2>2. CASE Memoria
    <3>1. pc["gui"] \in Despues \ {"fin"}
      BY <1>8 DEF UsaMuerto, IInv, Hilos, Vida, Manejadores
    <3>2. SoloFallaAlSalir'
      BY <2>2, <3>1 DEF SoloFallaAlSalir, Memoria, Despues
    <3> QED
      BY <1>8, <2>1, <2>2, <3>2, Quietos DEF IInv, Memoria
  <2>3. CASE /\ pc' = [pc EXCEPT !["sig"] = "ocioso"]
             /\ UNCHANGED << proc, fallo, vuelve, elegido >>
    <3>1. Va("sig", pc["sig"], "ocioso")
      BY <1>8, <2>3 DEF UsaMuerto, Va
    <3> QED
      BY <1>8, <2>1, <2>3, <3>1, MueveSig DEF IInv, UsaMuerto
  <2> QED
    BY <1>8, <2>2, <2>3 DEF UsaMuerto
<1> QED
  BY <1>1, <1>2, <1>3, <1>4, <1>5, <1>6, <1>7, <1>8 DEF Botones
----------------------------------------------------------------------------
(* The list of groups, and the library.                                    *)

LEMMA ListaInv == IInv /\ cb_list_i => IInv'
<1> USE DEF libreria, ventana, eleccion, cuentas
<1>1. ASSUME IInv, ListaRama
      PROVE  IInv'
  <2>1. TypeOK'
    BY <1>1 DEF IInv, TypeOK, ListaRama, ListaAviso, Lista
  <2>2. elegido \in Entradas
    BY <1>1 DEF IInv, Hilos, Control
  <2>3. CASE \E de \in {"l0", "l5"} : Va("gui", de, "w1") /\ vuelve' = "ocioso" /\ elegido' = "ninguno"
                                        /\ UNCHANGED << proc, fallo >>
    BY <1>1, <2>1, <2>3, MueveGui DEF IInv, Entradas, Servicio, Listas, Pinta
  <2>4. CASE /\ \E de \in {"l0", "l4", "l5"}, a \in {"deja", "l4", "l5", "elige"} :
                  Va("gui", de, a) /\ (de = "l0" /\ a # "deja" => elegido \in Grupos)
             /\ UNCHANGED << proc, fallo, vuelve, elegido >>
    <3>1. PICK de \in {"l0", "l4", "l5"}, a \in {"deja", "l4", "l5", "elige"} :
            Va("gui", de, a) /\ (de = "l0" /\ a # "deja" => elegido \in Grupos)
      BY <2>4
    <3>2. pc["gui"] = de
      BY <3>1 DEF Va
    <3>3. a \in Listas => elegido \in Grupos
      BY <1>1, <3>1, <3>2 DEF IInv, Hilos, Control, Listas
    <3>4. de \in Servicio /\ a \in Servicio
      BY DEF Servicio, Listas
    <3> QED
      BY <1>1, <2>1, <2>2, <2>4, <3>1, <3>3, <3>4, MueveGui DEF IInv
  <2> QED
    BY <1>1, <2>3, <2>4 DEF ListaRama, ListaAviso, Lista, Repinta
<1>2. ASSUME IInv, Deja
      PROVE  IInv'
  <2>1. TypeOK'
    <3>1. CASE UNCHANGED << estado, grupo >>
      BY <1>2, <3>1 DEF IInv, TypeOK, Deja
    <3>2. CASE estado' = E("SILENCE", FALSE) /\ grupo' = "ninguno"
      BY <1>2, <3>2 DEF IInv, TypeOK, Deja, E, Voz
    <3> QED
      BY <1>2, <3>1, <3>2 DEF Deja
  <2>2. Va("gui", "deja", "psm_init") /\ UNCHANGED << proc, fallo, vuelve, elegido >>
    BY <1>2 DEF Deja
  <2> QED
    BY <1>2, <2>1, <2>2, MueveGui DEF IInv, Hilos, Control, Servicio, Listas
<1>3. ASSUME IInv, PsmInit
      PROVE  IInv'
  <2>1. TypeOK'
    BY <1>3 DEF IInv, TypeOK, PsmInit, E, Voz
  <2>2. Va("gui", "psm_init", "w1") /\ vuelve' = "ocioso" /\ elegido' = "ninguno" /\ UNCHANGED << proc, fallo >>
    BY <1>3 DEF PsmInit, Repinta
  <2> QED
    BY <1>3, <2>1, <2>2, MueveGui DEF IInv, Entradas, Servicio, Listas, Pinta
<1>4. ASSUME IInv, Elige \/ joinGroup
      PROVE  IInv'
  <2>1. elegido \in Grupos
    BY <1>4 DEF IInv, Hilos, Control, Listas, Elige, joinGroup, Repinta, Va
  <2>2. TypeOK'
    BY <1>4, <2>1 DEF IInv, TypeOK, Elige, joinGroup
  <2>3. CASE Elige
    <3>1. Va("gui", "elige", "une") /\ UNCHANGED << proc, fallo, vuelve, elegido >>
      BY <2>3 DEF Elige
    <3> QED
      BY <1>4, <2>1, <2>2, <3>1, MueveGui DEF IInv, Entradas, Servicio, Listas
  <2>4. CASE joinGroup
    <3>1. Va("gui", "une", "w1") /\ vuelve' = "ocioso" /\ elegido' = "ninguno" /\ UNCHANGED << proc, fallo >>
      BY <2>4 DEF joinGroup, Repinta
    <3> QED
      BY <1>4, <2>2, <3>1, MueveGui DEF IInv, Entradas, Servicio, Listas, Pinta
  <2> QED
    BY <1>4, <2>3, <2>4
<1> QED
  BY <1>1, <1>2, <1>3, <1>4 DEF cb_list_i

LEMMA RedInv == IInv /\ Red => IInv'
<1> USE DEF libreria, ventana, eleccion, cuentas
<1>1. ASSUME IInv, Configura \/ Remoto \/ Responde
      PROVE  IInv'
  <2>1. fallo = "no" /\ UNCHANGED << proc, fallo, pc, vuelve, elegido, associatedGroup, status >>
    BY <1>1 DEF Configura, Remoto, Responde, Biblioteca
  <2>2. TypeOK'
    <3>1. CASE Configura
      BY <2>1, <1>1, <3>1 DEF IInv, TypeOK, Configura
    <3>2. CASE Remoto
      <4>1. /\ estado' \in [voz : Voz, asociado : BOOLEAN]
            /\ estado'.asociado => estado.asociado
            /\ grupo' = IF estado'.asociado THEN grupo ELSE "ninguno"
        <5>1. PICK v \in {"SILENCE", "LISTENING"}, a \in {estado.asociado, FALSE} : estado' = E(v, a)
          BY <3>2 DEF Remoto
        <5>2. a \in BOOLEAN /\ (a => estado.asociado)
          BY <1>1 DEF IInv, TypeOK
        <5> QED
          BY <3>2, <5>1, <5>2 DEF Remoto, E, Voz
      <4> QED
        BY <1>1, <2>1, <3>2, <4>1 DEF IInv, TypeOK, Remoto
    <3>3. CASE Responde
      <4>1. \/ estado' = E("SILENCE", TRUE) /\ grupo' = pedido
            \/ UNCHANGED << estado, grupo >>
        BY <3>3 DEF Responde
      <4>2. pedido' = "ninguno" /\ pedido # "ninguno" /\ configurado' = configurado
        BY <3>3 DEF Responde
      <4>3. CASE estado' = E("SILENCE", TRUE) /\ grupo' = pedido
        <5>1. estado' \in [voz : Voz, asociado : BOOLEAN] /\ estado'.asociado
          BY <4>3 DEF E, Voz
        <5> QED
          BY <1>1, <2>1, <4>2, <4>3, <5>1 DEF IInv, TypeOK
      <4>4. CASE UNCHANGED << estado, grupo >>
        BY <1>1, <2>1, <4>2, <4>4 DEF IInv, TypeOK
      <4> QED
        BY <4>1, <4>3, <4>4
    <3> QED
      BY <1>1, <3>1, <3>2, <3>3
  <2>3. SoloFallaAlSalir'
    BY <2>1 DEF SoloFallaAlSalir
  <2> QED
    BY <1>1, <2>1, <2>2, <2>3, Quietos DEF IInv
<1>2. ASSUME IInv, Avisa
      PROVE  IInv'
  <2>1. TypeOK'
    BY <1>2 DEF IInv, TypeOK, Avisa
  <2>2. PICK a : Va("lib", "ocioso", a) /\ (proc.observada \/ a = "ocioso")
    BY <1>2 DEF Avisa
  <2>3. proc.ph = "vivo" /\ UNCHANGED << proc, fallo, vuelve, elegido >>
    BY <1>2 DEF Avisa
  <2> QED
    BY <1>2, <2>1, <2>2, <2>3, MueveLib DEF IInv
<1>3. ASSUME IInv, Mensaje
      PROVE  IInv'
  <2>1. TypeOK'
    BY <1>3 DEF IInv, TypeOK, Mensaje
  <2>2. Va("lib", "ocioso", "ocioso") /\ UNCHANGED << proc, vuelve, elegido >>
    BY <1>3 DEF Mensaje
  <2>3. CASE fallo' = fallo
    BY <1>3, <2>1, <2>2, <2>3, MueveLib DEF IInv
  <2>4. CASE fallo' # fallo
    <3>1. fallo' = "memoria" /\ ~ proc.ventana /\ proc.observada /\ proc.ph = "vivo"
      BY <1>3, <2>4 DEF Mensaje
    <3>2. pc["gui"] = "borra"
      BY <1>3, <3>1 DEF IInv, Hilos, Vida, Ventana
    <3>3. pc["lib"] = "ocioso" /\ pc' = [pc EXCEPT !["lib"] = "ocioso"]
      BY <2>2 DEF Va
    <3>4. DOMAIN pc' = DOMAIN pc /\ \A t \in {"gui", "lib", "sig"} : pc'[t] = pc[t]
      BY <1>3, <3>3 DEF IInv, Hilos, Control
    <3>5. SoloFallaAlSalir'
      BY <3>1, <3>2, <3>4 DEF SoloFallaAlSalir
    <3> QED
      BY <1>3, <2>1, <2>2, <3>4, <3>5, Quietos DEF IInv
  <2> QED
    BY <2>3, <2>4
<1> QED
  BY <1>1, <1>2, <1>3 DEF Red
----------------------------------------------------------------------------
(* main: the login, the constructor of the window, and the end.            *)

\* What is left to show of a step of main: who has what after it.
LEMMA AvanzaMain ==
  ASSUME NEW de, NEW a, Va("gui", de, a), IInv, TypeOK', fallo' = fallo, elegido' = elegido,
         vuelve' \in {"ocioso", "pid"}, a \in Puntos \ Listas, Vida', Ventana', Manejadores'
  PROVE  IInv'
<1>1. /\ fallo = "no" /\ pc'["gui"] = a /\ DOMAIN pc' = {"gui", "lib", "sig"}
  BY VaGui DEF IInv, Hilos
<1>2. Control'
  BY <1>1 DEF IInv, Hilos, Control
<1>3. SoloFallaAlSalir'
  BY <1>1 DEF SoloFallaAlSalir
<1> QED
  BY <1>2, <1>3 DEF IInv, Hilos

LEMMA PrincipalInv == IInv /\ Principal => IInv'
<1> USE DEF libreria, ventana, eleccion, cuentas, Antes, Despues, Listas, Servicio, Constructor,
            Pinta, Manejo
<1>0. ASSUME IInv, Principal
      PROVE  TypeOK' /\ fallo' = fallo /\ elegido' = elegido
  BY <1>0 DEF IInv, TypeOK, Principal, Vive, Acepta, AceptaMal, Renuncia, CierraError, SinVentanas,
              Crea, Registra, EscribePid, Maneja, Cierra, Borra, Anula, Retorna
<1>1. ASSUME IInv, Acepta
      PROVE  IInv'
  <2>1. Va("gui", "login", "espera") /\ vuelve' = vuelve
    BY <1>1 DEF Acepta, Vive
  <2>2. /\ proc'.ph = proc.ph
        /\ proc'.ventana = proc.ventana
        /\ proc'.observada = proc.observada
        /\ proc'.pid = proc.pid
        /\ proc'.manejador = proc.manejador
        /\ DOMAIN proc' = DOMAIN proc
    BY <1>1, <2>1 DEF Acepta, Vive, IInv, Hilos, Vida
  <2>3. /\ pc["gui"] = "login" /\ pc'["gui"] = "espera" /\ pc["sig"] = "ocioso"
        /\ pc'["lib"] = pc["lib"] /\ pc'["sig"] = pc["sig"]
    BY <1>1, <2>1, VaGui DEF IInv, Hilos
  <2>4. Vida' /\ Ventana'
    BY <1>1, <2>1, <2>2, <2>3 DEF IInv, Hilos, Vida, Ventana
  <2>5. Manejadores'
    BY <1>1, <2>1, <2>2, <2>3 DEF IInv, Hilos, Vida, Manejadores
  <2>6. "espera" \in Puntos \ Listas /\ vuelve' \in {"ocioso", "pid"}
    BY <1>1, <2>1 DEF IInv, Hilos, Control, Puntos
  <2> QED
    BY <1>0, <1>1, <2>1, <2>4, <2>5, <2>6, AvanzaMain DEF Principal
<1>2. ASSUME IInv, AceptaMal
      PROVE  IInv'
  <2>1. Va("gui", "login", "login") /\ vuelve' = vuelve
    BY <1>2 DEF AceptaMal, Vive
  <2>2. /\ proc'.ph = proc.ph
        /\ proc'.ventana = proc.ventana
        /\ proc'.observada = proc.observada
        /\ proc'.pid = proc.pid
        /\ proc'.manejador = proc.manejador
        /\ DOMAIN proc' = DOMAIN proc
    BY <1>2, <2>1 DEF AceptaMal, Vive, IInv, Hilos, Vida
  <2>3. /\ pc["gui"] = "login" /\ pc'["gui"] = "login" /\ pc["sig"] = "ocioso"
        /\ pc'["lib"] = pc["lib"] /\ pc'["sig"] = pc["sig"]
    BY <1>2, <2>1, VaGui DEF IInv, Hilos
  <2>4. Vida' /\ Ventana'
    BY <1>2, <2>1, <2>2, <2>3 DEF IInv, Hilos, Vida, Ventana
  <2>5. Manejadores'
    BY <1>2, <2>1, <2>2, <2>3 DEF IInv, Hilos, Vida, Manejadores
  <2>6. "login" \in Puntos \ Listas /\ vuelve' \in {"ocioso", "pid"}
    BY <1>2, <2>1 DEF IInv, Hilos, Control, Puntos
  <2> QED
    BY <1>0, <1>2, <2>1, <2>4, <2>5, <2>6, AvanzaMain DEF Principal
<1>3. ASSUME IInv, Renuncia
      PROVE  IInv'
  <2>1. Va("gui", "login", "espera") /\ vuelve' = vuelve
    BY <1>3 DEF Renuncia, Vive
  <2>2. /\ proc'.ph = proc.ph
        /\ proc'.ventana = proc.ventana
        /\ proc'.observada = proc.observada
        /\ proc'.pid = proc.pid
        /\ proc'.manejador = proc.manejador
        /\ DOMAIN proc' = DOMAIN proc
    BY <1>3, <2>1 DEF Renuncia, Vive, IInv, Hilos, Vida
  <2>3. /\ pc["gui"] = "login" /\ pc'["gui"] = "espera" /\ pc["sig"] = "ocioso"
        /\ pc'["lib"] = pc["lib"] /\ pc'["sig"] = pc["sig"]
    BY <1>3, <2>1, VaGui DEF IInv, Hilos
  <2>4. Vida' /\ Ventana'
    BY <1>3, <2>1, <2>2, <2>3 DEF IInv, Hilos, Vida, Ventana
  <2>5. Manejadores'
    BY <1>3, <2>1, <2>2, <2>3 DEF IInv, Hilos, Vida, Manejadores
  <2>6. "espera" \in Puntos \ Listas /\ vuelve' \in {"ocioso", "pid"}
    BY <1>3, <2>1 DEF IInv, Hilos, Control, Puntos
  <2> QED
    BY <1>0, <1>3, <2>1, <2>4, <2>5, <2>6, AvanzaMain DEF Principal
<1>4. ASSUME IInv, CierraError
      PROVE  IInv'
  <2>1. PICK p \in {"login", "espera"} : Vive(p, p, proc') /\ Va("gui", p, p) /\ vuelve' = vuelve
    BY <1>4 DEF CierraError, Vive
  <2>2. /\ proc'.ph = proc.ph
        /\ proc'.ventana = proc.ventana
        /\ proc'.observada = proc.observada
        /\ proc'.pid = proc.pid
        /\ proc'.manejador = proc.manejador
        /\ DOMAIN proc' = DOMAIN proc
    BY <1>4, <2>1 DEF CierraError, Vive, IInv, Hilos, Vida
  <2>3. /\ pc["gui"] = p /\ pc'["gui"] = p /\ pc["sig"] = "ocioso"
        /\ pc'["lib"] = pc["lib"] /\ pc'["sig"] = pc["sig"]
    BY <1>4, <2>1, VaGui DEF IInv, Hilos
  <2>4. Vida' /\ Ventana'
    BY <1>4, <2>1, <2>2, <2>3 DEF IInv, Hilos, Vida, Ventana
  <2>5. Manejadores'
    BY <1>4, <2>1, <2>2, <2>3 DEF IInv, Hilos, Vida, Manejadores
  <2>6. p \in Puntos \ Listas /\ vuelve' \in {"ocioso", "pid"}
    BY <1>4, <2>1 DEF IInv, Hilos, Control, Puntos
  <2> QED
    BY <1>0, <1>4, <2>1, <2>4, <2>5, <2>6, AvanzaMain DEF Principal
<1>5. ASSUME IInv, SinVentanas
      PROVE  IInv'
  <2>1. PICK a \in {"borra", "crea"} : Vive("espera", a, proc') /\ Va("gui", "espera", a) /\ vuelve' = vuelve
    BY <1>5 DEF SinVentanas, Vive
  <2>2. /\ proc'.ph = proc.ph
        /\ proc'.ventana = proc.ventana
        /\ proc'.observada = proc.observada
        /\ proc'.pid = proc.pid
        /\ proc'.manejador = proc.manejador
        /\ DOMAIN proc' = DOMAIN proc
    BY <1>5, <2>1 DEF SinVentanas, Vive, IInv, Hilos, Vida
  <2>3. /\ pc["gui"] = "espera" /\ pc'["gui"] = a /\ pc["sig"] = "ocioso"
        /\ pc'["lib"] = pc["lib"] /\ pc'["sig"] = pc["sig"]
    BY <1>5, <2>1, VaGui DEF IInv, Hilos
  <2>4. Vida' /\ Ventana'
    BY <1>5, <2>1, <2>2, <2>3 DEF IInv, Hilos, Vida, Ventana
  <2>5. Manejadores'
    BY <1>5, <2>1, <2>2, <2>3 DEF IInv, Hilos, Vida, Manejadores
  <2>6. a \in Puntos \ Listas /\ vuelve' \in {"ocioso", "pid"}
    BY <1>5, <2>1 DEF IInv, Hilos, Control, Puntos
  <2> QED
    BY <1>0, <1>5, <2>1, <2>4, <2>5, <2>6, AvanzaMain DEF Principal
<1>6. ASSUME IInv, Crea
      PROVE  IInv'
  <2>1. Va("gui", "crea", "registra") /\ vuelve' = vuelve
    BY <1>6 DEF Crea, Vive
  <2>2. /\ proc'.ph = "vivo"
        /\ proc'.ventana = proc.ventana
        /\ proc'.observada = proc.observada
        /\ proc'.pid = proc.pid
        /\ proc'.manejador = proc.manejador
        /\ DOMAIN proc' = DOMAIN proc
    BY <1>6, <2>1 DEF Crea, Vive, IInv, Hilos, Vida
  <2>3. /\ pc["gui"] = "crea" /\ pc'["gui"] = "registra" /\ pc["sig"] = "ocioso"
        /\ pc'["lib"] = pc["lib"] /\ pc'["sig"] = pc["sig"]
    BY <1>6, <2>1, VaGui DEF IInv, Hilos
  <2>4. Vida' /\ Ventana'
    BY <1>6, <2>1, <2>2, <2>3 DEF IInv, Hilos, Vida, Ventana
  <2>5. Manejadores'
    BY <1>6, <2>1, <2>2, <2>3 DEF IInv, Hilos, Vida, Manejadores
  <2>6. "registra" \in Puntos \ Listas /\ vuelve' \in {"ocioso", "pid"}
    BY <1>6, <2>1 DEF IInv, Hilos, Control, Puntos
  <2> QED
    BY <1>0, <1>6, <2>1, <2>4, <2>5, <2>6, AvanzaMain DEF Principal
<1>7. ASSUME IInv, Registra
      PROVE  IInv'
  <2>1. Va("gui", "registra", "w1") /\ vuelve' = "pid"
    BY <1>7 DEF Registra, Vive
  <2>2. /\ proc'.ph = proc.ph
        /\ proc'.ventana = TRUE
        /\ proc'.observada = TRUE
        /\ proc'.pid = proc.pid
        /\ proc'.manejador = proc.manejador
        /\ DOMAIN proc' = DOMAIN proc
    BY <1>7, <2>1 DEF Registra, Vive, IInv, Hilos, Vida
  <2>3. /\ pc["gui"] = "registra" /\ pc'["gui"] = "w1" /\ pc["sig"] = "ocioso"
        /\ pc'["lib"] = pc["lib"] /\ pc'["sig"] = pc["sig"]
    BY <1>7, <2>1, VaGui DEF IInv, Hilos
  <2>4. Vida' /\ Ventana'
    BY <1>7, <2>1, <2>2, <2>3 DEF IInv, Hilos, Vida, Ventana
  <2>5. Manejadores'
    BY <1>7, <2>1, <2>2, <2>3 DEF IInv, Hilos, Vida, Manejadores
  <2>6. "w1" \in Puntos \ Listas /\ vuelve' \in {"ocioso", "pid"}
    BY <1>7, <2>1 DEF IInv, Hilos, Control, Puntos
  <2> QED
    BY <1>0, <1>7, <2>1, <2>4, <2>5, <2>6, AvanzaMain DEF Principal
<1>8. ASSUME IInv, EscribePid
      PROVE  IInv'
  <2>1. Va("gui", "pid", "usr2") /\ vuelve' = vuelve
    BY <1>8 DEF EscribePid, Vive
  <2>2. /\ proc'.ph = proc.ph
        /\ proc'.ventana = proc.ventana
        /\ proc'.observada = proc.observada
        /\ proc'.pid = TRUE
        /\ proc'.manejador = proc.manejador
        /\ DOMAIN proc' = DOMAIN proc
    BY <1>8, <2>1 DEF EscribePid, Vive, IInv, Hilos, Vida
  <2>3. /\ pc["gui"] = "pid" /\ pc'["gui"] = "usr2" /\ pc["sig"] = "ocioso"
        /\ pc'["lib"] = pc["lib"] /\ pc'["sig"] = pc["sig"]
    BY <1>8, <2>1, VaGui DEF IInv, Hilos
  <2>4. Vida' /\ Ventana'
    BY <1>8, <2>1, <2>2, <2>3 DEF IInv, Hilos, Vida, Ventana
  <2>5. Manejadores'
    BY <1>8, <2>1, <2>2, <2>3 DEF IInv, Hilos, Vida, Manejadores
  <2>6. "usr2" \in Puntos \ Listas /\ vuelve' \in {"ocioso", "pid"}
    BY <1>8, <2>1 DEF IInv, Hilos, Control, Puntos
  <2> QED
    BY <1>0, <1>8, <2>1, <2>4, <2>5, <2>6, AvanzaMain DEF Principal
<1>9. ASSUME IInv, Maneja
      PROVE  IInv'
  <2>1. PICK de, a, s : /\ Va("gui", de, a)
                        /\ <<de, a, s>> \in {<<"usr2", "usr1", "USR2">>, <<"usr1", "ocioso", "USR1">>}
                        /\ proc' = [proc EXCEPT !.manejador = @ \cup {s}] /\ vuelve' = vuelve
    BY <1>9 DEF Maneja, Vive
  <2>2. /\ proc'.ph = proc.ph
        /\ proc'.ventana = proc.ventana
        /\ proc'.observada = proc.observada
        /\ proc'.pid = proc.pid
        /\ proc'.manejador = proc.manejador \cup {s}
        /\ DOMAIN proc' = DOMAIN proc
    BY <1>9, <2>1 DEF Maneja, Vive, IInv, Hilos, Vida
  <2>3. /\ pc["gui"] = de /\ pc'["gui"] = a /\ pc["sig"] = "ocioso"
        /\ pc'["lib"] = pc["lib"] /\ pc'["sig"] = pc["sig"]
    BY <1>9, <2>1, VaGui DEF IInv, Hilos
  <2>4. Vida' /\ Ventana'
    BY <1>9, <2>1, <2>2, <2>3 DEF IInv, Hilos, Vida, Ventana
  <2>5. Manejadores'
    BY <1>9, <2>1, <2>2, <2>3 DEF IInv, Hilos, Vida, Manejadores
  <2>6. a \in Puntos \ Listas /\ vuelve' \in {"ocioso", "pid"}
    BY <1>9, <2>1 DEF IInv, Hilos, Control, Puntos
  <2> QED
    BY <1>0, <1>9, <2>1, <2>4, <2>5, <2>6, AvanzaMain DEF Principal
<1>10. ASSUME IInv, Cierra
      PROVE  IInv'
  <2>1. Va("gui", "ocioso", "borra") /\ vuelve' = vuelve
    BY <1>10 DEF Cierra, Vive
  <2>2. /\ proc'.ph = proc.ph
        /\ proc'.ventana = FALSE
        /\ proc'.observada = proc.observada
        /\ proc'.pid = proc.pid
        /\ proc'.manejador = proc.manejador
        /\ DOMAIN proc' = DOMAIN proc
    BY <1>10, <2>1 DEF Cierra, Vive, IInv, Hilos, Vida
  <2>3. /\ pc["gui"] = "ocioso" /\ pc'["gui"] = "borra" /\ pc["sig"] = "ocioso"
        /\ pc'["lib"] = pc["lib"] /\ pc'["sig"] = pc["sig"]
    BY <1>10, <2>1, VaGui DEF IInv, Hilos
  <2>4. Vida' /\ Ventana'
    BY <1>10, <2>1, <2>2, <2>3 DEF IInv, Hilos, Vida, Ventana
  <2>5. Manejadores'
    BY <1>10, <2>1, <2>2, <2>3 DEF IInv, Hilos, Vida, Manejadores
  <2>6. "borra" \in Puntos \ Listas /\ vuelve' \in {"ocioso", "pid"}
    BY <1>10, <2>1 DEF IInv, Hilos, Control, Puntos
  <2> QED
    BY <1>0, <1>10, <2>1, <2>4, <2>5, <2>6, AvanzaMain DEF Principal
<1>11. ASSUME IInv, Borra
      PROVE  IInv'
  <2>1. Va("gui", "borra", "anula") /\ vuelve' = vuelve /\ pc["lib"] = "ocioso"
    BY <1>11 DEF Borra, Vive
  <2>2. /\ proc'.ph = IF proc.ph = "NULL" THEN "NULL" ELSE "borrado"
        /\ proc'.ventana = proc.ventana
        /\ proc'.observada = proc.observada
        /\ proc'.pid = proc.pid
        /\ proc'.manejador = proc.manejador
        /\ DOMAIN proc' = DOMAIN proc
    BY <1>11, <2>1 DEF Borra, Vive, IInv, Hilos, Vida
  <2>3. /\ pc["gui"] = "borra" /\ pc'["gui"] = "anula" /\ pc["sig"] = "ocioso"
        /\ pc'["lib"] = pc["lib"] /\ pc'["sig"] = pc["sig"]
    BY <1>11, <2>1, VaGui DEF IInv, Hilos
  <2>4. Vida' /\ Ventana'
    BY <1>11, <2>1, <2>2, <2>3 DEF IInv, Hilos, Vida, Ventana
  <2>5. Manejadores'
    BY <1>11, <2>1, <2>2, <2>3 DEF IInv, Hilos, Vida, Manejadores
  <2>6. "anula" \in Puntos \ Listas /\ vuelve' \in {"ocioso", "pid"}
    BY <1>11, <2>1 DEF IInv, Hilos, Control, Puntos
  <2> QED
    BY <1>0, <1>11, <2>1, <2>4, <2>5, <2>6, AvanzaMain DEF Principal
<1>12. ASSUME IInv, Anula
      PROVE  IInv'
  <2>1. Va("gui", "anula", "retorna") /\ vuelve' = vuelve
    BY <1>12 DEF Anula, Vive
  <2>2. /\ proc'.ph = "NULL"
        /\ proc'.ventana = proc.ventana
        /\ proc'.observada = proc.observada
        /\ proc'.pid = proc.pid
        /\ proc'.manejador = proc.manejador
        /\ DOMAIN proc' = DOMAIN proc
    BY <1>12, <2>1 DEF Anula, Vive, IInv, Hilos, Vida
  <2>3. /\ pc["gui"] = "anula" /\ pc'["gui"] = "retorna" /\ pc["sig"] = "ocioso"
        /\ pc'["lib"] = pc["lib"] /\ pc'["sig"] = pc["sig"]
    BY <1>12, <2>1, VaGui DEF IInv, Hilos
  <2>4. Vida' /\ Ventana'
    BY <1>12, <2>1, <2>2, <2>3 DEF IInv, Hilos, Vida, Ventana
  <2>5. Manejadores'
    BY <1>12, <2>1, <2>2, <2>3 DEF IInv, Hilos, Vida, Manejadores
  <2>6. "retorna" \in Puntos \ Listas /\ vuelve' \in {"ocioso", "pid"}
    BY <1>12, <2>1 DEF IInv, Hilos, Control, Puntos
  <2> QED
    BY <1>0, <1>12, <2>1, <2>4, <2>5, <2>6, AvanzaMain DEF Principal
<1>13. ASSUME IInv, Retorna
      PROVE  IInv'
  <2>1. Va("gui", "retorna", "fin") /\ vuelve' = vuelve
    BY <1>13 DEF Retorna, Vive
  <2>2. /\ proc'.ph = proc.ph
        /\ proc'.ventana = proc.ventana
        /\ proc'.observada = proc.observada
        /\ proc'.pid = proc.pid
        /\ proc'.manejador = proc.manejador
        /\ DOMAIN proc' = DOMAIN proc
    BY <1>13, <2>1 DEF Retorna, Vive, IInv, Hilos, Vida
  <2>3. /\ pc["gui"] = "retorna" /\ pc'["gui"] = "fin" /\ pc["sig"] = "ocioso"
        /\ pc'["lib"] = pc["lib"] /\ pc'["sig"] = pc["sig"]
    BY <1>13, <2>1, VaGui DEF IInv, Hilos
  <2>4. Vida' /\ Ventana'
    BY <1>13, <2>1, <2>2, <2>3 DEF IInv, Hilos, Vida, Ventana
  <2>5. Manejadores'
    BY <1>13, <2>1, <2>2, <2>3 DEF IInv, Hilos, Vida, Manejadores
  <2>6. "fin" \in Puntos \ Listas /\ vuelve' \in {"ocioso", "pid"}
    BY <1>13, <2>1 DEF IInv, Hilos, Control, Puntos
  <2> QED
    BY <1>0, <1>13, <2>1, <2>4, <2>5, <2>6, AvanzaMain DEF Principal
<1> QED
  BY <1>1, <1>2, <1>3, <1>4, <1>5, <1>6, <1>7, <1>8, <1>9, <1>10, <1>11, <1>12, <1>13 DEF Principal
----------------------------------------------------------------------------
LEMMA Invariante == Spec => []IInv
<1>1. IInv /\ UNCHANGED vars => IInv'
  <2> SUFFICES ASSUME IInv, UNCHANGED vars
               PROVE  IInv'
    OBVIOUS
  <2> USE DEF vars, libreria, ventana, eleccion, cuentas
  <2>1. TypeOK' /\ SoloFallaAlSalir'
    BY DEF IInv, Hilos, TypeOK, SoloFallaAlSalir
  <2> QED
    BY <2>1, Quietos DEF IInv
<1>2. IInv /\ [Next]_vars => IInv'
  BY <1>1, PrincipalInv, UpdateWidgetsInv, BotonesInv, ListaInv, RedInv DEF Next
<1> QED
  BY InitInv, <1>2, PTL DEF Spec

\* Every variable of the phone and its window keeps its type; the phone is in
\* a group exactly while it is associated, whatever the buttons, the handlers
\* and the network do in between (GUIclient.cpp).
THEOREM TypeCorrect == Spec => []TypeOK
<1>1. IInv => TypeOK
  BY DEF IInv
<1> QED
  BY <1>1, Invariante, PTL

\* For any number of groups, signals and network events: nothing writes to a
\* window, nor asks a phone, that is not there before the user quits, and a
\* signal kills the process only between the writing of its number and the
\* installation of the handler (GUIclient.cpp:156-178, 447-455).
THEOREM SoloAlSalir == Spec => []SoloFallaAlSalir
<1>1. IInv => SoloFallaAlSalir
  BY DEF IInv, Hilos
<1> QED
  BY <1>1, Invariante, PTL
----------------------------------------------------------------------------
(***************************************************************************)
(* The values of the window's widgets: the argument above, which says who  *)
(* may run when, is continued with what each update has read so far.       *)
(***************************************************************************)

\* Nothing has happened that the library has not told.
Vigente == /\ fallo = "no" /\ configurado /\ ~ pendiente /\ ~ solapada
           /\ pc["gui"] \notin Antes \cup {"registra"}

\* What thread t has read agrees with the phone, point by point.
Lectura(t) ==
  /\ pc[t] \in {"w3", "w4", "w5"} => leido[t] = E("nada", estado.asociado)
  /\ pc[t] \in {"w4", "w5"} => estado.voz # "TALKING"
  /\ pc[t] = "w5" => estado.voz # "LISTENING"
  /\ pc[t] = "w6" => leido[t] = estado

Sola == ~ solapada => pc["gui"] \notin Pinta \/ pc["lib"] \notin Pinta
Leida == Vigente => \A t \in {"gui", "lib"} : Lectura(t)
Mostrada == Vigente /\ pc["gui"] \notin Pinta /\ pc["lib"] \notin Pinta
              => /\ trunkStatus = estado
                 /\ estado.asociado => status \in {associatedGroup, "otro"}

\* A step leaves in the status what it says, a text, or the group just chosen.
Texto == \/ UNCHANGED << status, associatedGroup >>
         \/ status' \in {associatedGroup', "otro"}

Dibujo == Sola /\ Leida /\ Mostrada

\* From the constructor of the window on, the library has where to tell.
Registrada ==
  /\ DOMAIN leido = {"gui", "lib"}
  /\ configurado \/ proc.ph # "NULL" => proc.observada \/ pc["gui"] = "registra"
  /\ pc["gui"] = "registra" => ~ proc.observada

PInv == Dibujo /\ Registrada
\* The group remembered is the one asked for, and then the one joined.
Elegida ==
  ~ cruzada =>
    /\ pc["gui"] = "une" => pedido = "ninguno" /\ associatedGroup = elegido
    /\ pc["gui"] # "une" /\ pedido # "ninguno" => pedido = associatedGroup
    /\ pc["gui"] # "une" /\ pedido = "ninguno" /\ estado.asociado => grupo = associatedGroup
----------------------------------------------------------------------------
(* Three ways a step may touch an update: not at all, by beginning it, and *)
(* by going on with it.                                                    *)

\* The step is nobody's update; the phone changes only with an event to tell.
LEMMA Ajena ==
  ASSUME Dibujo, leido' = leido, trunkStatus' = trunkStatus, solapada' = solapada,
         fallo' = "no" => fallo = "no",
         Texto, pendiente => pendiente',
         (estado' = estado /\ configurado' = configurado) \/ pendiente',
         \A t \in {"gui", "lib"} : pc'[t] = pc[t] \/ (pc[t] \notin Pinta /\ pc'[t] \notin Pinta),
         pc["gui"] \in Antes \cup {"registra"}
           => pc'["gui"] \in Antes \cup {"registra"} \/ ~ configurado'
  PROVE  Dibujo'
<1>1. Sola'
  BY DEF Dibujo, Sola
<1>2. ASSUME Vigente'
      PROVE  Vigente /\ estado' = estado
  BY <1>2 DEF Vigente
<1>3. Leida'
  <2>1. ASSUME Vigente', NEW t \in {"gui", "lib"}
        PROVE  Lectura(t)'
    <3>1. Lectura(t) /\ leido'[t] = leido[t] /\ estado' = estado
      BY <2>1, <1>2 DEF Dibujo, Leida
    <3> QED
      BY <2>1, <3>1 DEF Lectura, Pinta
  <2> QED
    BY <2>1 DEF Leida
<1>4. Mostrada'
  BY <1>2 DEF Dibujo, Mostrada, Texto
<1> QED
  BY <1>1, <1>3, <1>4 DEF Dibujo

\* Thread t begins an update; it only counts if u is in none.
LEMMA Empieza ==
  ASSUME NEW t \in {"gui", "lib"}, NEW u \in {"gui", "lib"}, t # u,
         pc'[t] = "w1", ~ solapada' => pc'[u] \notin Pinta
  PROVE  Dibujo'
<1>1. Sola' /\ Mostrada'
  BY DEF Sola, Mostrada, Vigente, Pinta
<1>2. Leida'
  BY DEF Leida, Vigente, Lectura, Pinta
<1> QED
  BY <1>1, <1>2 DEF Dibujo

\* Thread t goes on with an update, or ends it having set what it had read.
LEMMA Sigue ==
  ASSUME NEW t \in {"gui", "lib"}, NEW u \in {"gui", "lib"}, t # u, Dibujo,
         pc[t] \in Pinta, pc'[u] = pc[u], leido'[u] = leido[u],
         pc["gui"] \in Antes \cup {"registra"} => pc'["gui"] \in Antes \cup {"registra"},
         UNCHANGED << fallo, configurado, estado, pendiente, solapada >>,
         Vigente /\ Lectura(t) => Lectura(t)',
         Vigente /\ Lectura(t) /\ pc'[t] \notin Pinta
           => trunkStatus' = estado /\ (estado.asociado => status' = associatedGroup')
  PROVE  Dibujo'
<1>1. Sola'
  BY DEF Dibujo, Sola
<1>2. ASSUME Vigente'
      PROVE  Vigente /\ Lectura(t) /\ Lectura(u)
  BY <1>2 DEF Vigente, Dibujo, Leida
<1>3. Leida'
  <2>1. ASSUME Vigente'
        PROVE  Lectura(u)' /\ Lectura(t)'
    BY <2>1, <1>2 DEF Lectura
  <2> QED
    BY <2>1 DEF Leida
<1>4. Mostrada'
  BY <1>2 DEF Mostrada
<1> QED
  BY <1>1, <1>3, <1>4 DEF Dibujo

\* Only main and the constructor pass by "registra", with no window observed.
LEMMA Queda ==
  ASSUME Registrada, DOMAIN leido' = DOMAIN leido, proc' = proc,
         configurado' = configurado \/ proc.ph # "NULL",
         pc'["gui"] = pc["gui"] \/ (pc["gui"] # "registra" /\ pc'["gui"] # "registra")
  PROVE  Registrada'
BY DEF Registrada
----------------------------------------------------------------------------
(* updateWidgets                                                           *)

LEMMA VaUno ==
  ASSUME NEW t \in {"gui", "lib"}, NEW de, NEW a, Va(t, de, a), Control
  PROVE  /\ pc[t] = de /\ pc'[t] = a /\ fallo = "no"
         /\ \A u \in {"gui", "lib"} \ {t} : pc'[u] = pc[u]
BY DEF Va, Control

LEMMA UpdateWidgetsP == IInv /\ PInv /\ updateWidgets => PInv'
<1> USE DEF libreria, ventana, eleccion, cuentas
<1>1. ASSUME IInv, PInv, NEW t \in {"gui", "lib"},
             Configurado(t) \/ LeeAsociado(t) \/ LeeVoz(t) \/ PonValores(t)
      PROVE  PInv'
  <2>1. PICK u \in {"gui", "lib"} : u # t
    BY <1>1
  <2>2. PICK de, a : de \in Pinta /\ Va(t, de, a) /\ a \in Pinta \cup {Sale(t)}
    <3>1. CASE Configurado(t)
      BY <3>1 DEF Configurado, Pinta
    <3>2. CASE LeeAsociado(t)
      BY <3>2 DEF LeeAsociado, Pinta
    <3>3. CASE LeeVoz(t)
      BY <3>3 DEF LeeVoz, Pinta
    <3>4. CASE PonValores(t)
      BY <3>4 DEF PonValores, Pinta
    <3> QED
      BY <1>1, <3>1, <3>2, <3>3, <3>4
  <2>3. pc[t] = de /\ pc'[t] = a /\ pc'[u] = pc[u] /\ fallo = "no"
    BY <1>1, <2>1, <2>2, VaUno DEF IInv, Hilos
  <2>4. /\ UNCHANGED << fallo, configurado, estado, pendiente, solapada, proc >>
        /\ DOMAIN leido' = DOMAIN leido /\ leido'[u] = leido[u] /\ DOMAIN leido = {"gui", "lib"}
    BY <1>1, <2>1 DEF Configurado, LeeAsociado, LeeVoz, PonValores, PInv, Registrada
  <2>5. vuelve \in {"ocioso", "pid"} /\ vuelve \notin Pinta /\ "ocioso" \notin Pinta
    BY <1>1 DEF IInv, Hilos, Control, Pinta
  <2>6. pc["gui"] \in Antes \cup {"registra"} => pc'["gui"] \in Antes \cup {"registra"}
    BY <1>1, <2>1, <2>2, <2>3 DEF Antes, Pinta
  <2>7. Registrada'
    <3>1. pc'["gui"] = pc["gui"] \/ (pc["gui"] # "registra" /\ pc'["gui"] # "registra")
      BY <1>1, <2>1, <2>2, <2>3, <2>5 DEF Sale, Pinta
    <3> QED
      BY <1>1, <2>4, <3>1, Queda DEF PInv
  <2>8. ASSUME Vigente, Lectura(t)
        PROVE  /\ Lectura(t)'
               /\ pc'[t] \notin Pinta
                    => trunkStatus' = estado /\ (estado.asociado => status' = associatedGroup')
    <3>1. estado \in [voz : Voz, asociado : BOOLEAN]
      BY <1>1 DEF IInv, TypeOK
    <3>2. CASE Configurado(t)
      <4>1. Va(t, "w1", "w2")
        BY <2>8, <3>2 DEF Configurado, Vigente
      <4>2. pc'[t] = "w2"
        BY <1>1, <4>1, VaUno DEF IInv, Hilos
      <4> QED
        BY <4>2 DEF Lectura, Pinta
    <3>3. CASE LeeAsociado(t)
      <4>1. Va(t, "w2", "w3") /\ leido'[t] = E("nada", estado.asociado)
        BY <1>1, <2>4, <3>3 DEF LeeAsociado
      <4>2. pc'[t] = "w3"
        BY <1>1, <4>1, VaUno DEF IInv, Hilos
      <4> QED
        BY <2>4, <4>1, <4>2 DEF Lectura, Pinta
    <3>4. CASE LeeVoz(t)
      <4>1. PICK p \in {<<"w3", "TALKING", "w4">>, <<"w4", "LISTENING", "w5">>, <<"w5", "SILENCE", "w6">>} :
              /\ Va(t, p[1], IF estado.voz = p[2] THEN "w6" ELSE p[3])
              /\ leido' = [leido EXCEPT ![t].voz =
                             IF estado.voz = p[2] THEN p[2] ELSE IF p[1] = "w5" THEN "otro" ELSE @]
        BY <3>4 DEF LeeVoz
      <4>2. pc[t] = p[1] /\ pc'[t] = IF estado.voz = p[2] THEN "w6" ELSE p[3]
        BY <1>1, <4>1, VaUno DEF IInv, Hilos
      <4>3. leido[t] = E("nada", estado.asociado)
        BY <2>8, <4>1, <4>2 DEF Lectura
      <4>4. leido'[t] = E(IF estado.voz = p[2] THEN p[2] ELSE IF p[1] = "w5" THEN "otro" ELSE "nada",
                          estado.asociado)
        BY <1>1, <2>4, <4>1, <4>3 DEF E
      <4>5. estado = E(estado.voz, estado.asociado) /\ estado.voz \in Voz
        BY <3>1 DEF E
      <4>6. CASE estado.voz = p[2]
        BY <2>4, <4>1, <4>2, <4>4, <4>5, <4>6 DEF Lectura, Pinta
      <4>7. CASE estado.voz # p[2]
        <5>1. p[1] # "w5"
          BY <2>8, <4>1, <4>2, <4>5, <4>7 DEF Lectura, Voz
        <5> QED
          BY <2>4, <2>8, <4>1, <4>2, <4>4, <4>7, <5>1 DEF Lectura, Pinta
      <4> QED
        BY <4>6, <4>7
    <3>5. CASE PonValores(t)
      <4>1. /\ Va(t, "w6", Sale(t)) /\ trunkStatus' = leido[t]
            /\ leido[t].asociado => status' = associatedGroup'
        BY <3>5 DEF PonValores
      <4>2. pc[t] = "w6" /\ pc'[t] = Sale(t)
        BY <1>1, <4>1, VaUno DEF IInv, Hilos
      <4> QED
        BY <2>5, <2>8, <4>1, <4>2 DEF Lectura, Sale, Pinta
    <3> QED
      BY <1>1, <3>2, <3>3, <3>4, <3>5
  <2>9. Dibujo'
    BY <1>1, <2>1, <2>2, <2>3, <2>4, <2>6, <2>8, Sigue DEF PInv
  <2> QED
    BY <2>7, <2>9 DEF PInv
<1>2. ASSUME IInv, PInv, PintaMuerta \/ Colision
      PROVE  PInv'
  <2>1. fallo' # "no" /\ UNCHANGED << libreria, proc, pc, ventana, associatedGroup >>
    BY <1>2 DEF PintaMuerta, Memoria, Colision
  <2>2. Dibujo'
    BY <1>2, <2>1, Ajena DEF PInv, Texto
  <2>3. Registrada'
    BY <1>2, <2>1, Queda DEF PInv
  <2> QED
    BY <2>2, <2>3 DEF PInv
<1> QED
  BY <1>1, <1>2 DEF updateWidgets
----------------------------------------------------------------------------
(* main, callbacks, handlers and the list                                  *)

\* A step of the GUI's thread outside every update.
LEMMA AjenaGui ==
  ASSUME NEW de, NEW a, IInv, PInv, Va("gui", de, a), de \notin Pinta, a \notin Pinta,
         de # "registra", a # "registra", de \in Antes => a \in Antes,
         UNCHANGED << leido, trunkStatus, solapada, fallo, configurado, proc >>, Texto,
         pendiente => pendiente', estado' = estado \/ pendiente'
  PROVE  PInv'
<1>1. /\ pc["gui"] = de /\ pc'["gui"] = a /\ pc'["lib"] = pc["lib"]
  BY VaGui DEF IInv, Hilos
<1>2. Dibujo'
  BY <1>1, Ajena DEF PInv
<1>3. Registrada'
  BY <1>1, Queda DEF PInv
<1> QED
  BY <1>2, <1>3 DEF PInv

\* A callback begins an update.
LEMMA RepintaP ==
  ASSUME NEW de, IInv, PInv, Repinta(de), de # "registra",
         UNCHANGED << leido, configurado, proc >>
  PROVE  PInv'
<1>1. /\ pc["gui"] = de /\ pc'["gui"] = "w1" /\ pc'["lib"] = pc["lib"]
  BY VaGui DEF IInv, Hilos, Repinta
<1>2. Dibujo'
  BY <1>1, Empieza DEF Repinta, Solapa
<1>3. Registrada'
  BY <1>1, Queda DEF PInv
<1> QED
  BY <1>2, <1>3 DEF PInv

\* A step of main; it enters and leaves the constructor of the window.
LEMMA ViveP ==
  ASSUME NEW de, NEW a, IInv, PInv, Va("gui", de, a), de \notin Pinta, a \notin Pinta,
         de # "registra", de \in Antes => a \in Antes \cup {"registra", "borra"},
         UNCHANGED << libreria, fallo, ventana, eleccion >>,
         proc'.observada = proc.observada, proc'.ph # "NULL" => proc.ph # "NULL" \/ a = "registra",
         a = "registra" => de \in Antes
  PROVE  PInv'
<1> USE DEF libreria, ventana, eleccion
<1>1. /\ pc["gui"] = de /\ pc'["gui"] = a /\ pc'["lib"] = pc["lib"]
  BY VaGui DEF IInv, Hilos
<1>2. de \in Antes => ~ proc.observada /\ ~ configurado
  BY <1>1 DEF IInv, Hilos, Vida, PInv, Registrada, Antes
<1>3. Dibujo'
  BY <1>1, <1>2, Ajena DEF PInv, Texto
<1>4. Registrada'
  BY <1>1, <1>2 DEF PInv, Registrada
<1> QED
  BY <1>3, <1>4 DEF PInv

LEMMA PrincipalP == IInv /\ PInv /\ Principal => PInv'
<1>1. ASSUME IInv, PInv, Registra
      PROVE  PInv'
  <2>1. Va("gui", "registra", "w1") /\ proc'.observada = TRUE /\ UNCHANGED << libreria, leido >>
    BY <1>1 DEF Registra, IInv, Hilos, Vida
  <2>2. pc["gui"] = "registra" /\ pc'["gui"] = "w1" /\ pc'["lib"] = pc["lib"]
    BY <1>1, <2>1, VaGui DEF IInv, Hilos
  <2>3. pc'["lib"] \notin Pinta
    BY <1>1, <2>2 DEF IInv, Hilos, Ventana, PInv, Registrada, Pinta
  <2>4. Dibujo'
    BY <2>2, <2>3, Empieza
  <2>5. Registrada'
    BY <1>1, <2>1, <2>2 DEF PInv, Registrada, libreria
  <2> QED
    BY <2>4, <2>5 DEF PInv
<1>2. ASSUME IInv, PInv,
             \/ Acepta \/ AceptaMal \/ Renuncia \/ CierraError \/ SinVentanas \/ Crea
             \/ EscribePid \/ Maneja \/ Cierra \/ Borra \/ Anula \/ Retorna
      PROVE  PInv'
  <2>1. PICK de, a :
          /\ <<de, a>> \in { <<"login", "espera">>, <<"login", "login">>, <<"espera", "espera">>,
                             <<"espera", "borra">>, <<"espera", "crea">>, <<"crea", "registra">>,
                             <<"pid", "usr2">>, <<"usr2", "usr1">>, <<"usr1", "ocioso">>,
                             <<"ocioso", "borra">>, <<"borra", "anula">>, <<"anula", "retorna">>,
                             <<"retorna", "fin">> }
          /\ Va("gui", de, a)
    BY <1>2 DEF Acepta, AceptaMal, Renuncia, CierraError, SinVentanas, Crea, EscribePid, Maneja,
                Cierra, Borra, Anula, Retorna, Vive
  <2>2. /\ UNCHANGED << libreria, fallo, ventana, eleccion >>
        /\ proc'.observada = proc.observada
        /\ proc'.ph # "NULL" => proc.ph # "NULL" \/ Crea
    BY <1>2 DEF Acepta, AceptaMal, Renuncia, CierraError, SinVentanas, Crea, EscribePid, Maneja,
                Cierra, Borra, Anula, Retorna, Vive, IInv, Hilos, Vida
  <2>3. Crea => a = "registra"
    <3>1. ASSUME Crea
          PROVE  a = "registra"
      <4>1. Va("gui", "crea", "registra")
        BY <3>1 DEF Crea, Vive
      <4> QED
        BY <1>2, <2>1, <4>1, VaGui DEF IInv, Hilos
    <3> QED
      BY <3>1
  <2> QED
    BY <1>2, <2>1, <2>2, <2>3, ViveP DEF Pinta, Antes, Texto
<1> QED
  BY <1>1, <1>2 DEF Principal

LEMMA BotonesP == IInv /\ PInv /\ Botones => PInv'
<1> USE DEF libreria, ventana, eleccion, cuentas
<1>1. ASSUME IInv, PInv, Callback
      PROVE  PInv'
  <2>1. PICK p \in {"t0", "e1", "l0"} : Va("gui", "ocioso", p)
    BY <1>1 DEF Callback
  <2>2. UNCHANGED << leido, trunkStatus, solapada, status, associatedGroup, fallo, libreria, proc >>
    BY <1>1 DEF Callback
  <2> QED
    BY <1>1, <2>1, <2>2, AjenaGui DEF Pinta, Antes, Texto
<1>2. ASSUME IInv, PInv, TrunkConfigurado
      PROVE  PInv'
  <2>1. PICK a \in {"t1", "ocioso"} : Va("gui", "t0", a)
    BY <1>2 DEF TrunkConfigurado
  <2>2. UNCHANGED << leido, trunkStatus, solapada, fallo, libreria, proc >> /\ Texto
    BY <1>2 DEF TrunkConfigurado, Texto
  <2> QED
    BY <1>2, <2>1, <2>2, AjenaGui DEF Pinta, Antes
<1>3. ASSUME IInv, PInv, cb_main
      PROVE  PInv'
  BY <1>3, RepintaP DEF cb_main
<1>4. ASSUME IInv, PInv, NEW s \in {"USR1", "USR2"}, Pulsa(s)
      PROVE  PInv'
  <2>1. /\ UNCHANGED << libreria, proc, ventana, associatedGroup >> /\ fallo = "no"
        /\ pc'["gui"] = pc["gui"] /\ pc'["lib"] = pc["lib"]
    BY <1>4 DEF Pulsa, IInv, Hilos, Control
  <2>2. Dibujo'
    BY <1>4, <2>1, Ajena DEF PInv, Texto
  <2>3. Registrada'
    BY <1>4, <2>1, Queda DEF PInv
  <2> QED
    BY <2>2, <2>3 DEF PInv
<1>5. ASSUME IInv, PInv, NEW t \in {"gui", "sig"}, Trunk(t) \/ cb_emerg_i \/ catch_emerg
      PROVE  PInv'
  <2>1. PICK u \in {"gui", "sig"}, de \in {"t1", "t2", "e1", "e2", "e3", "g1", "g2"},
             a \in {"toca", "t2", "e2", "e3", "g2", "ocioso"} :
          /\ Va(u, de, a)
          /\ UNCHANGED << libreria, proc, fallo, vuelve, ventana, eleccion, cuentas >>
    <3>1. CASE Trunk(t)
      BY <3>1 DEF Trunk, Prueba
    <3>2. CASE cb_emerg_i
      BY <3>2 DEF cb_emerg_i, Prueba
    <3>3. CASE catch_emerg
      BY <3>3 DEF catch_emerg, Prueba
    <3> QED
      BY <1>5, <3>1, <3>2, <3>3
  <2>2. CASE u = "gui"
    BY <1>5, <2>1, <2>2, AjenaGui DEF Pinta, Antes, Texto
  <2>3. CASE u = "sig"
    <3>1. pc'["gui"] = pc["gui"] /\ pc'["lib"] = pc["lib"]
      BY <1>5, <2>1, <2>3, VaSig DEF IInv, Hilos
    <3>2. Dibujo' /\ Registrada'
      BY <1>5, <2>1, <3>1, Ajena, Queda DEF PInv, Texto
    <3> QED
      BY <3>2 DEF PInv
  <2> QED
    BY <2>1, <2>2, <2>3
<1>6. ASSUME IInv, PInv, TocaGui
      PROVE  PInv'
  BY <1>6, RepintaP DEF TocaGui, touch
<1>7. ASSUME IInv, PInv, TocaSig
      PROVE  PInv'
  <2>1. /\ pc'["gui"] = pc["gui"] /\ pc'["lib"] = pc["lib"]
    BY <1>7, VaSig DEF TocaSig, IInv, Hilos
  <2>2. /\ UNCHANGED << configurado, proc, fallo, ventana, associatedGroup >>
        /\ pendiente' = (pendiente \/ estado' # estado)
    BY <1>7 DEF TocaSig, touch
  <2>3. Dibujo' /\ Registrada'
    BY <1>7, <2>1, <2>2, Ajena, Queda DEF PInv, Texto
  <2> QED
    BY <2>3 DEF PInv
<1>8. ASSUME IInv, PInv, UsaMuerto
      PROVE  PInv'
  <2>1. /\ pc'["gui"] = pc["gui"] /\ pc'["lib"] = pc["lib"]
        /\ UNCHANGED << libreria, proc, ventana, associatedGroup >> /\ fallo = "no"
    BY <1>8 DEF UsaMuerto, Memoria, IInv, Hilos, Control
  <2>2. Dibujo' /\ Registrada'
    BY <1>8, <2>1, Ajena, Queda DEF PInv, Texto
  <2> QED
    BY <2>2 DEF PInv
<1> QED
  BY <1>1, <1>2, <1>3, <1>4, <1>5, <1>6, <1>7, <1>8 DEF Botones

LEMMA ListaP == IInv /\ PInv /\ cb_list_i => PInv'
<1> USE DEF libreria, ventana, eleccion, cuentas
<1>1. ASSUME IInv, PInv, NEW de \in {"l0", "l5"}, NEW cond, ListaAviso(de, cond)
      PROVE  PInv'
  BY <1>1, RepintaP DEF ListaAviso
<1>2. ASSUME IInv, PInv, NEW de \in {"l0", "l4", "l5"}, NEW a \in {"deja", "l4", "l5", "elige"},
             NEW cond, Lista(de, cond, a)
      PROVE  PInv'
  BY <1>2, AjenaGui DEF Lista, Pinta, Antes, Texto
<1>3. ASSUME IInv, PInv, Deja
      PROVE  PInv'
  <2>1. (estado' = estado /\ pendiente' = pendiente) \/ pendiente'
    BY <1>3 DEF Deja
  <2>2. Va("gui", "deja", "psm_init")
        /\ UNCHANGED << leido, trunkStatus, solapada, fallo, configurado, proc >>
        /\ Texto
    BY <1>3 DEF Deja, Texto
  <2> QED
    BY <1>3, <2>1, <2>2, AjenaGui DEF Pinta, Antes
<1>4. ASSUME IInv, PInv, PsmInit \/ joinGroup
      PROVE  PInv'
  BY <1>4, RepintaP DEF PsmInit, joinGroup
<1>5. ASSUME IInv, PInv, Elige
      PROVE  PInv'
  BY <1>5, AjenaGui DEF Elige, Pinta, Antes, Texto
<1> QED
  BY <1>1, <1>2, <1>3, <1>4, <1>5 DEF cb_list_i, ListaRama
----------------------------------------------------------------------------
(* The library                                                             *)

LEMMA RedP == IInv /\ PInv /\ Red => PInv'
<1> USE DEF libreria, ventana, eleccion, cuentas
<1>1. ASSUME IInv, PInv, Configura \/ Remoto \/ Responde
      PROVE  PInv'
  <2>1. /\ UNCHANGED << fallo, proc, pc, ventana, associatedGroup >> /\ proc.ph = "vivo"
        /\ (configurado' = configurado /\ estado' = estado) \/ pendiente'
        /\ pendiente => pendiente'
    <3>1. UNCHANGED << fallo, proc, pc, ventana, associatedGroup >> /\ proc.ph = "vivo"
      BY <1>1 DEF Configura, Remoto, Responde, Biblioteca
    <3>2. CASE Configura
      BY <3>1, <3>2 DEF Configura
    <3>3. CASE Remoto
      BY <3>1, <3>3 DEF Remoto
    <3>4. CASE Responde
      <4>1. configurado' = configurado
        BY <3>4 DEF Responde
      <4>2. pendiente' = TRUE \/ (estado' = estado /\ pendiente' = pendiente)
        BY <3>4 DEF Responde
      <4> QED
        BY <3>1, <4>1, <4>2
    <3> QED
      BY <1>1, <3>2, <3>3, <3>4
  <2>2. Dibujo'
    BY <1>1, <2>1, Ajena DEF PInv, Texto
  <2>3. Registrada'
    BY <1>1, <2>1, Queda DEF PInv
  <2> QED
    BY <2>2, <2>3 DEF PInv
<1>2. ASSUME IInv, PInv, Avisa
      PROVE  PInv'
  <2>1. /\ Va("lib", "ocioso", IF proc.observada THEN "w1" ELSE "ocioso")
        /\ UNCHANGED << configurado, estado, leido, trunkStatus, fallo, proc >>
    BY <1>2 DEF Avisa
  <2>2. /\ pc["lib"] = "ocioso" /\ pc'["lib"] = IF proc.observada THEN "w1" ELSE "ocioso"
        /\ pc'["gui"] = pc["gui"]
    BY <1>2, <2>1, VaLib DEF IInv, Hilos
  <2>3. Registrada'
    BY <1>2, <2>1, <2>2, Queda DEF PInv
  <2>4. CASE proc.observada
    <3>1. pc'["lib"] = "w1" /\ (~ solapada' => pc'["gui"] \notin Pinta)
      BY <1>2, <2>2, <2>4 DEF Avisa, Solapa
    <3> QED
      BY <2>3, <3>1, Empieza DEF PInv
  <2>5. CASE ~ proc.observada
    <3>1. ~ Vigente'
      BY <1>2, <2>1, <2>2, <2>5 DEF Vigente, PInv, Registrada
    <3>2. Sola'
      BY <2>2, <2>5 DEF Sola, Pinta
    <3> QED
      BY <2>3, <3>1, <3>2 DEF PInv, Dibujo, Leida, Mostrada
  <2> QED
    BY <2>4, <2>5
<1>3. ASSUME IInv, PInv, Mensaje
      PROVE  PInv'
  <2>1. /\ pc'["gui"] = pc["gui"] /\ pc'["lib"] = pc["lib"] /\ fallo = "no"
        /\ UNCHANGED << libreria, proc, leido, trunkStatus, solapada >> /\ Texto
    BY <1>3, VaLib DEF Mensaje, Va, Texto, IInv, Hilos
  <2>2. Dibujo' /\ Registrada'
    BY <1>3, <2>1, Ajena, Queda DEF PInv
  <2> QED
    BY <2>2 DEF PInv
<1> QED
  BY <1>1, <1>2, <1>3 DEF Red
----------------------------------------------------------------------------
LEMMA InvariantePantalla == Spec => []PInv
<1>1. Init => PInv
  <2> SUFFICES ASSUME Init
               PROVE  PInv
    OBVIOUS
  <2>1. ~ configurado /\ proc.ph = "NULL" /\ pc["gui"] = "login" /\ DOMAIN leido = {"gui", "lib"}
    BY DEF Init
  <2> QED
    BY <2>1 DEF PInv, Dibujo, Sola, Leida, Mostrada, Vigente, Registrada, Pinta
<1>2. IInv /\ PInv /\ UNCHANGED vars => PInv'
  <2> SUFFICES ASSUME IInv, PInv, UNCHANGED vars
               PROVE  PInv'
    OBVIOUS
  <2> USE DEF vars, libreria, ventana, eleccion
  <2>1. Dibujo' /\ Registrada'
    BY Ajena, Queda DEF PInv, Texto
  <2> QED
    BY <2>1 DEF PInv
<1>3. IInv /\ PInv /\ [Next]_vars => PInv'
  BY <1>2, PrincipalP, UpdateWidgetsP, BotonesP, ListaP, RedP DEF Next
<1> QED
  BY <1>1, <1>3, Invariante, PTL DEF Spec

\* For any number of groups, presses of the button and events of the network:
\* when nothing is going on the value of trunkStatus is the state of the phone,
\* unless the last update overlapped another (GUIclient.cpp:187-262).  The updates
\* read the phone up to four times without a lock; whatever changes it in
\* between leaves an event whose own update has yet to come.
THEOREM WidgetsHoldState == Spec => []ValoresAlDia
<1>1. IInv /\ PInv => ValoresAlDia
  <2> SUFFICES ASSUME IInv, PInv, Quieto, ~ solapada
               PROVE  trunkStatus = estado
    BY DEF ValoresAlDia
  <2>1. pc["gui"] = "ocioso" /\ pc["lib"] = "ocioso"
    BY DEF Quieto, IInv, Hilos, Control
  <2> QED
    BY <2>1 DEF Quieto, PInv, Dibujo, Mostrada, Vigente, Antes, Pinta
<1> QED
  BY <1>1, Invariante, InvariantePantalla, PTL
----------------------------------------------------------------------------
(* The group the value of status names.                                    *)

\* The step asks for no group; if it changes that of the phone, it leaves it.
LEMMA NoElige ==
  ASSUME Elegida, UNCHANGED << pedido, associatedGroup, cruzada >>,
         estado'.asociado => estado.asociado /\ grupo' = grupo,
         pc'["gui"] = "une" <=> pc["gui"] = "une",
         pc'["gui"] = "une" => elegido' = elegido
  PROVE  Elegida'
BY DEF Elegida

LEMMA NoEligeGui ==
  ASSUME NEW de, NEW a, Hilos, Va("gui", de, a), de # "une", a # "une",
         Elegida, UNCHANGED << pedido, associatedGroup, cruzada >>,
         estado'.asociado => estado.asociado /\ grupo' = grupo
  PROVE  Elegida'
<1>1. pc["gui"] = de /\ pc'["gui"] = a
  BY VaGui DEF Hilos
<1> QED
  BY <1>1, NoElige

LEMMA PrincipalE == IInv /\ Elegida /\ Principal => Elegida'
<1> SUFFICES ASSUME IInv, Elegida, Principal
             PROVE  Elegida'
  OBVIOUS
<1>1. UNCHANGED << libreria, eleccion >>
  BY DEF Principal, Acepta, AceptaMal, Renuncia, CierraError, SinVentanas, Crea, Registra, EscribePid,
         Maneja, Cierra, Borra, Anula, Retorna, Vive
<1>2. PICK de, a : Va("gui", de, a) /\ de # "une" /\ a # "une"
  BY DEF Principal, Acepta, AceptaMal, Renuncia, CierraError, SinVentanas, Crea, Registra, EscribePid,
         Maneja, Cierra, Borra, Anula, Retorna, Vive
<1> QED
  BY <1>1, <1>2, NoEligeGui DEF IInv, libreria, eleccion

LEMMA UpdateWidgetsE == IInv /\ Elegida /\ updateWidgets => Elegida'
<1> USE DEF libreria, ventana, eleccion, cuentas
<1>1. ASSUME IInv, Elegida, NEW t \in {"gui", "lib"},
             Configurado(t) \/ LeeAsociado(t) \/ LeeVoz(t) \/ PonValores(t)
      PROVE  Elegida'
  <2>1. UNCHANGED << libreria, eleccion >>
    BY <1>1 DEF Configurado, LeeAsociado, LeeVoz, PonValores
  <2>2. PICK de, a : de \in Pinta /\ Va(t, de, a) /\ a \in Pinta \cup {Sale(t)}
    <3>1. CASE Configurado(t)
      BY <3>1 DEF Configurado, Pinta
    <3>2. CASE LeeAsociado(t)
      BY <3>2 DEF LeeAsociado, Pinta
    <3>3. CASE LeeVoz(t)
      BY <3>3 DEF LeeVoz, Pinta
    <3>4. CASE PonValores(t)
      BY <3>4 DEF PonValores, Pinta
    <3> QED
      BY <1>1, <3>1, <3>2, <3>3, <3>4
  <2>3. CASE t = "gui"
    BY <1>1, <2>1, <2>2, <2>3, NoEligeGui DEF IInv, Hilos, Control, Sale, Pinta
  <2>4. CASE t = "lib"
    <3>1. pc'["gui"] = pc["gui"]
      BY <1>1, <2>2, <2>4, VaLib DEF IInv, Hilos
    <3> QED
      BY <1>1, <2>1, <3>1, NoElige
  <2> QED
    BY <2>3, <2>4
<1>2. ASSUME IInv, Elegida, PintaMuerta \/ Colision
      PROVE  Elegida'
  <2>1. UNCHANGED << libreria, pc, eleccion >>
    BY <1>2 DEF PintaMuerta, Memoria, Colision
  <2> QED
    BY <1>2, <2>1, NoElige
<1> QED
  BY <1>1, <1>2 DEF updateWidgets

\* An event may take the phone out of its group, never into another.
LEMMA TouchGrupo ==
  ASSUME NEW ev, TypeOK, touch(ev)
  PROVE  pedido' = pedido /\ (estado'.asociado => estado.asociado /\ grupo' = grupo)
<1>1. pedido' = pedido /\ grupo' = IF estado'.asociado THEN grupo ELSE "ninguno"
  BY DEF touch
<1>2. estado'.asociado <=> grupo' # "ninguno"
  BY TouchTipos
<1>3. grupo # "ninguno" => estado.asociado
  BY DEF TypeOK
<1> QED
  BY <1>1, <1>2, <1>3

LEMMA BotonesE == IInv /\ Elegida /\ Botones => Elegida'
<1> USE DEF libreria, ventana, eleccion, cuentas
<1>1. ASSUME IInv, Elegida, Callback
      PROVE  Elegida'
  <2>1. PICK p \in {"t0", "e1", "l0"} : Va("gui", "ocioso", p)
    BY <1>1 DEF Callback
  <2>2. UNCHANGED << libreria, associatedGroup, cruzada >>
    BY <1>1 DEF Callback
  <2> QED
    BY <1>1, <2>1, <2>2, NoEligeGui DEF IInv
<1>2. ASSUME IInv, Elegida, TrunkConfigurado
      PROVE  Elegida'
  <2>1. PICK a \in {"t1", "ocioso"} : Va("gui", "t0", a)
    BY <1>2 DEF TrunkConfigurado
  <2>2. UNCHANGED << libreria, eleccion >>
    BY <1>2 DEF TrunkConfigurado
  <2> QED
    BY <1>2, <2>1, <2>2, NoEligeGui DEF IInv
<1>3. ASSUME IInv, Elegida, cb_main
      PROVE  Elegida'
  BY <1>3, NoEligeGui DEF cb_main, Repinta, IInv
<1>4. ASSUME IInv, Elegida, NEW s \in {"USR1", "USR2"}, Pulsa(s)
      PROVE  Elegida'
  <2>1. UNCHANGED << libreria, eleccion >> /\ pc'["gui"] = pc["gui"]
    BY <1>4 DEF Pulsa, IInv, Hilos, Control
  <2> QED
    BY <1>4, <2>1, NoElige
<1>5. ASSUME IInv, Elegida, NEW t \in {"gui", "sig"}, Trunk(t) \/ cb_emerg_i \/ catch_emerg
      PROVE  Elegida'
  <2>1. PICK u \in {"gui", "sig"}, de \in {"t1", "t2", "e1", "e2", "e3", "g1", "g2"},
             a \in {"toca", "t2", "e2", "e3", "g2", "ocioso"} :
          /\ Va(u, de, a)
          /\ UNCHANGED << libreria, proc, fallo, vuelve, ventana, eleccion, cuentas >>
    <3>1. CASE Trunk(t)
      BY <3>1 DEF Trunk, Prueba
    <3>2. CASE cb_emerg_i
      BY <3>2 DEF cb_emerg_i, Prueba
    <3>3. CASE catch_emerg
      BY <3>3 DEF catch_emerg, Prueba
    <3> QED
      BY <1>5, <3>1, <3>2, <3>3
  <2>2. CASE u = "gui"
    BY <1>5, <2>1, <2>2, NoEligeGui DEF IInv
  <2>3. CASE u = "sig"
    <3>1. pc'["gui"] = pc["gui"]
      BY <1>5, <2>1, <2>3, VaSig DEF IInv, Hilos
    <3> QED
      BY <1>5, <2>1, <3>1, NoElige
  <2> QED
    BY <2>1, <2>2, <2>3
<1>6. ASSUME IInv, Elegida, TocaGui
      PROVE  Elegida'
  <2>1. Va("gui", "toca", "w1") /\ UNCHANGED eleccion /\ touch(toca["gui"])
    BY <1>6 DEF TocaGui, Repinta
  <2> QED
    BY <1>6, <2>1, TouchGrupo, NoEligeGui DEF IInv
<1>7. ASSUME IInv, Elegida, TocaSig
      PROVE  Elegida'
  <2>1. pc'["gui"] = pc["gui"] /\ UNCHANGED eleccion /\ touch(toca["sig"])
    BY <1>7, VaSig DEF TocaSig, IInv, Hilos
  <2> QED
    BY <1>7, <2>1, TouchGrupo, NoElige DEF IInv
<1>8. ASSUME IInv, Elegida, UsaMuerto
      PROVE  Elegida'
  <2>1. pc'["gui"] = pc["gui"] /\ UNCHANGED << libreria, eleccion >>
    BY <1>8 DEF UsaMuerto, Memoria, IInv, Hilos, Control
  <2> QED
    BY <1>8, <2>1, NoElige
<1> QED
  BY <1>1, <1>2, <1>3, <1>4, <1>5, <1>6, <1>7, <1>8 DEF Botones

LEMMA ListaE == IInv /\ Elegida /\ cb_list_i => Elegida'
<1> USE DEF libreria, ventana, eleccion, cuentas
<1>1. ASSUME IInv, Elegida, NEW de \in {"l0", "l5"}, NEW cond, ListaAviso(de, cond)
      PROVE  Elegida'
  BY <1>1, NoEligeGui DEF ListaAviso, Repinta, IInv
<1>2. ASSUME IInv, Elegida, NEW de \in {"l0", "l4", "l5"}, NEW a \in {"deja", "l4", "l5", "elige"},
             NEW cond, Lista(de, cond, a)
      PROVE  Elegida'
  BY <1>2, NoEligeGui DEF Lista, IInv
<1>3. ASSUME IInv, Elegida, Deja
      PROVE  Elegida'
  <2>1. estado'.asociado => estado.asociado /\ grupo' = grupo
    BY <1>3 DEF Deja, E
  <2>2. Va("gui", "deja", "psm_init") /\ UNCHANGED << pedido, eleccion >>
    BY <1>3 DEF Deja
  <2> QED
    BY <1>3, <2>1, <2>2, NoEligeGui DEF IInv
<1>4. ASSUME IInv, Elegida, PsmInit
      PROVE  Elegida'
  <2>1. ~ estado'.asociado /\ cruzada' = (pedido # "ninguno") /\ pedido' = pedido
    BY <1>4 DEF PsmInit, E
  <2>2. pc'["gui"] = "w1"
    BY <1>4, VaGui DEF PsmInit, Repinta, IInv, Hilos
  <2> QED
    BY <2>1, <2>2 DEF Elegida
<1>5. ASSUME IInv, Elegida, Elige
      PROVE  Elegida'
  <2>1. pc'["gui"] = "une"
    BY <1>5, VaGui DEF Elige, IInv, Hilos
  <2>2. /\ cruzada' = (pedido # "ninguno") /\ pedido' = pedido
        /\ associatedGroup' = elegido /\ elegido' = elegido
    BY <1>5 DEF Elige
  <2> QED
    BY <2>1, <2>2 DEF Elegida
<1>6. ASSUME IInv, Elegida, joinGroup
      PROVE  Elegida'
  <2>1. pc["gui"] = "une" /\ pc'["gui"] = "w1"
    BY <1>6, VaGui DEF joinGroup, Repinta, IInv, Hilos
  <2>2. elegido \in Grupos /\ "ninguno" \notin Grupos
    BY <1>6, <2>1, TelefonoAssumption DEF IInv, Hilos, Control, Listas
  <2>3. pedido' = elegido /\ UNCHANGED << cruzada, associatedGroup >>
    BY <1>6 DEF joinGroup
  <2> QED
    BY <1>6, <2>1, <2>2, <2>3 DEF Elegida
<1> QED
  BY <1>1, <1>2, <1>3, <1>4, <1>5, <1>6 DEF cb_list_i, ListaRama

LEMMA RedE == IInv /\ Elegida /\ Red => Elegida'
<1> USE DEF libreria, ventana, eleccion, cuentas
<1>1. ASSUME IInv, Elegida, Configura
      PROVE  Elegida'
  BY <1>1, NoElige DEF Configura, Biblioteca
<1>2. ASSUME IInv, Elegida, Remoto
      PROVE  Elegida'
  <2>1. PICK v \in {"SILENCE", "LISTENING"}, b \in {estado.asociado, FALSE} : estado' = E(v, b)
    BY <1>2 DEF Remoto
  <2>2. estado'.asociado => estado.asociado
    BY <2>1 DEF E
  <2>3. UNCHANGED << pc, eleccion, pedido >> /\ (estado'.asociado => grupo' = grupo)
    BY <1>2 DEF Remoto, Biblioteca
  <2> QED
    BY <1>2, <2>2, <2>3, NoElige
<1>3. ASSUME IInv, Elegida, Responde
      PROVE  Elegida'
  <2>1. /\ pedido # "ninguno" /\ pedido' = "ninguno"
        /\ UNCHANGED << pc, elegido, associatedGroup >>
        /\ cruzada' = TRUE \/ (cruzada' = cruzada /\ grupo' = pedido)
    BY <1>3 DEF Responde, Biblioteca
  <2> QED
    BY <1>3, <2>1 DEF Elegida
<1>4. ASSUME IInv, Elegida, Avisa \/ Mensaje
      PROVE  Elegida'
  <2>1. UNCHANGED << estado, grupo, pedido, eleccion >> /\ pc'["gui"] = pc["gui"]
    BY <1>4, VaLib DEF Avisa, Mensaje, IInv, Hilos
  <2> QED
    BY <1>4, <2>1, NoElige
<1> QED
  BY <1>1, <1>2, <1>3, <1>4 DEF Red

LEMMA InvarianteElegida == Spec => []Elegida
<1>1. Init => Elegida
  <2> SUFFICES ASSUME Init
               PROVE  Elegida
    OBVIOUS
  <2>1. pedido = "ninguno" /\ ~ estado.asociado /\ pc["gui"] = "login"
    BY DEF Init, E
  <2> QED
    BY <2>1 DEF Elegida
<1>2. IInv /\ Elegida /\ UNCHANGED vars => Elegida'
  BY NoElige DEF vars, libreria, eleccion
<1>3. IInv /\ Elegida /\ [Next]_vars => Elegida'
  BY <1>2, PrincipalE, UpdateWidgetsE, BotonesE, ListaE, RedE DEF Next
<1> QED
  BY <1>1, <1>3, Invariante, PTL DEF Spec

\* For any number of groups and events: the group the status names is the one
\* the phone is in, although it is set before it is asked for
\* (GUIclient.cpp:357-364), unless the last choice was refused or was made
\* while another was unanswered.
THEOREM GroupShown == Spec => []GrupoMostrado
<1>1. IInv /\ PInv /\ Elegida => GrupoMostrado
  <2> SUFFICES ASSUME IInv, PInv, Elegida, Quieto, pedido = "ninguno", ~ solapada, ~ cruzada,
                      estado.asociado, status # "otro"
               PROVE  status = grupo
    BY DEF GrupoMostrado
  <2>1. pc["gui"] = "ocioso" /\ pc["lib"] = "ocioso"
    BY DEF Quieto, IInv, Hilos, Control
  <2>2. status = associatedGroup
    BY <2>1 DEF Quieto, PInv, Dibujo, Mostrada, Vigente, Antes, Pinta
  <2>3. grupo = associatedGroup
    BY <2>1 DEF Elegida
  <2> QED
    BY <2>2, <2>3
<1> QED
  BY <1>1, Invariante, InvariantePantalla, InvarianteElegida, PTL
============================================================================
