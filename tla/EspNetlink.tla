---------------------------- MODULE EspNetlink ----------------------------
(***************************************************************************)
(* The two listings of cttc-exercici/esp2008: 2008ex1 asks the kernel for  *)
(* its links and, for each of them, for the addresses; 2008ex2 asks for    *)
(* the routes.  Both read with recv_reply (2008ex_common.h), which fills a *)
(* buffer of BUFSIZE bytes until NLMSG_DONE comes or the buffer is full.   *)
(*                                                                         *)
(* A message is a pair <<i, d>>: i is the index of the interface of a link *)
(* or of an address, or the table of a route, and d the rest of it.  Each  *)
(* takes Largo units of the buffer, so a datagram can be cut inside one.   *)
(* The kernel is external: it answers a request with datagrams of whole    *)
(* messages and then, in a datagram of its own, NLMSG_DONE; or a recv      *)
(* fails, which moves the pointer of the reader one byte back.             *)
(*                                                                         *)
(* MaxFallos stands for up to four failures in one reading: no message is  *)
(* that short, and a header up to four bytes out of place shows NLMSG_OK   *)
(* its type and flags as a length of more than the buffer.                 *)
(***************************************************************************)
EXTENDS Integers, Sequences, SequencesExt, Seleccion

CONSTANTS Indices,          \* indexes of interfaces, tables of routes
          TablaMain,        \* the main one of them, as a table
          Datos,            \* what else an address or a route says
          NombreIF,         \* what else a link says
          Alterado,         \* a datum whose last byte was overwritten
          SinIP,            \* the empty string of get_interface_ip
          BUFSIZE, Largo,   \* units of the buffer and of each message
          MaxMensajes,      \* bound: messages of one answer
          MaxFallos,        \* bound: recvs that fail in a reading of a socket
          Pila              \* bytes of stack there are before a buffer

ASSUME EspAssumption ==
  /\ TablaMain \in Indices
  /\ Alterado \notin Datos /\ SinIP \notin Datos \cup {Alterado}
  /\ BUFSIZE \in Nat /\ Largo \in Nat \ {0} /\ MaxMensajes \in Nat
  /\ Largo < BUFSIZE  \* no message fills 8192 bytes by itself
  /\ MaxFallos \in Nat /\ MaxFallos < Largo /\ Pila \in Nat \ {0}

VARIABLES programa,   \* "ex1" or "ex2"
          ep,         \* where its control is, or "muerto"
          abiertos,   \* open sockets: 1 is main's, 2 get_interface_ip's
          ecola,      \* datagrams queued at each socket
          eresto,     \* "nada", "volcado" while a dump goes on, "mudo" if refused
          eerror,     \* the next recv of the socket fails
          mandado,    \* history: the messages the kernel sent on each socket
          buf,        \* what each socket was read into, see Vacio
          ii,         \* the link read_reply_getlink is at
          ip,         \* what get_interface_ip returned for it
          lineas      \* the messages main has printed a line for

evars == <<programa, ep, abiertos, ecola, eresto, eerror, mandado, buf, ii, ip, lineas>>

Zocalos == {1, 2}
Mensajes(z) == Indices \X (IF programa = "ex1" /\ z = 1 THEN {NombreIF} ELSE Datos)
DONE == <<"DONE">>
ERROR == <<"ERROR">>
\* A buffer: the messages put whole in their place, total_bytes_rcvd, where the
\* pointer is too, the recvs that failed, and whether a datagram came after one:
\* it is then out of place.
Vacio == [msgs |-> <<>>, total |-> 0, fallos |-> 0, corrido |-> FALSE]

EspInit ==
  /\ programa \in {"ex1", "ex2"} /\ ep = "abre"
  /\ abiertos = {} /\ ecola = [z \in Zocalos |-> <<>>]
  /\ eresto = [z \in Zocalos |-> "nada"]
  /\ eerror = [z \in Zocalos |-> FALSE]
  /\ mandado = [z \in Zocalos |-> <<>>]
  /\ buf = [z \in Zocalos |-> Vacio]
  /\ ii = 0 /\ ip = SinIP /\ lineas = <<>>

\* The socket in use: main's, or the one get_interface_ip opened meanwhile.
Zocalo == IF ii = 0 THEN 1 ELSE 2

\* A new socket, or -1, which nobody looks at.  bind's failure on the second
\* (main's holds the process's port) is not looked at either: the kernel binds
\* it to another when it sends.
open_netlink_socket ==
  /\ ep = "abre" /\ ep' = "pide"
  /\ abiertos' \in {abiertos \cup {Zocalo}, abiertos}
  /\ UNCHANGED <<programa, ecola, eresto, eerror, mandado, buf, ii, ip, lineas>>

\* form_request_* and send_request, whose result nobody looks at: the kernel
\* takes the request, answers with an error, or never gets it; without a socket
\* nothing is sent.
send_request ==
  /\ ep = "pide"
  /\ IF Zocalo \notin abiertos THEN UNCHANGED <<eresto, ecola>>
     ELSE \/ eresto' = [eresto EXCEPT ![Zocalo] = "volcado"] /\ UNCHANGED ecola
          \/ /\ eresto' = [eresto EXCEPT ![Zocalo] = "mudo"]
             /\ \/ ecola' = [ecola EXCEPT ![Zocalo] = <<<<ERROR>>>>]
                \/ UNCHANGED ecola
  /\ mandado' = [mandado EXCEPT ![Zocalo] = <<>>]
  /\ buf' = [buf EXCEPT ![Zocalo] = Vacio] /\ ep' = "recibe"
  /\ UNCHANGED <<programa, abiertos, eerror, ii, ip, lineas>>

\* The kernel, external, once its last datagram is read: another datagram of the
\* dump, its end, or a failure that the next recv reports, before anything came
\* or later, once or more.
Sigue(z) ==
  /\ eresto[z] = "volcado" /\ ~eerror[z] /\ ecola[z] = <<>>
  /\ \/ \E d \in BoundedSeq(Mensajes(z), 2) \ {<<>>} :
          /\ Len(mandado[z]) + Len(d) <= MaxMensajes
          /\ ecola' = [ecola EXCEPT ![z] = Append(@, d)]
          /\ mandado' = [mandado EXCEPT ![z] = @ \o d]
          /\ UNCHANGED <<eresto, eerror>>
     \/ /\ ecola' = [ecola EXCEPT ![z] = Append(@, <<DONE>>)]
        /\ eresto' = [eresto EXCEPT ![z] = "nada"]
        /\ UNCHANGED <<eerror, mandado>>
     \/ /\ buf[z].fallos < MaxFallos
        /\ eerror' = [eerror EXCEPT ![z] = TRUE]
        /\ UNCHANGED <<ecola, eresto, mandado>>
  /\ UNCHANGED <<programa, ep, abiertos, buf, ii, ip, lineas>>

\* Where the pointer is after datagram d: recv is given what is left of the
\* BUFSIZE bytes, more than those when the pointer is before the buffer.
Suma(b, d) ==
  LET t == b.total + Largo * Len(d) IN IF t < BUFSIZE THEN t ELSE BUFSIZE

\* Mutant: every datagram goes at the beginning of the buffer.
LlenaAlPrincipio(b, d) == {[b EXCEPT !.msgs = d, !.total = Largo * Len(d)]}

\* A datagram out of place covers the end of the last message, a datum or
\* padding.
Pisados(ms) ==
  {ms} \cup {[ms EXCEPT ![n] = <<ms[n][1], Alterado>>] : n \in {Len(ms)} \ {0}}

\* What may be in the buffer after a datagram came where the pointer was: the
\* messages that fit whole or, behind a recv that failed, none that NLMSG_OK
\* takes, for their headers are out of place.
Llena(b, d) ==
  LET enteros == (BUFSIZE - b.total) \div Largo
  IN IF b.fallos = 0
     THEN { [b EXCEPT !.msgs = @ \o SubSeq(d, 1, IF enteros < Len(d) THEN enteros ELSE Len(d)),
                      !.total = Suma(b, d)] }
     ELSE { [b EXCEPT !.msgs = ms, !.total = Suma(b, d), !.corrido = TRUE] :
              ms \in IF b.corrido THEN {b.msgs} ELSE Pisados(b.msgs) }

\* A recv that fails takes one from the pointer and from the total.
Retrocede(b) == [b EXCEPT !.total = @ - 1, !.fallos = @ + 1]

\* The process is killed: the kernel closes its sockets.
Muere == ep' = "muerto" /\ abiertos' = {}

\* One turn of the loop of recv_reply on a datagram.  With the pointer before
\* the buffer it is written over the stack, and there is no saying whether the
\* process survives.
recv_reply ==
  /\ ep = "recibe" /\ ~eerror[Zocalo] /\ ecola[Zocalo] # <<>>
  /\ LET d == Head(ecola[Zocalo])
     IN \/ \E b \in IF Head(d) = DONE THEN {buf[Zocalo]} ELSE Llena(buf[Zocalo], d) :
             /\ buf' = [buf EXCEPT ![Zocalo] = b]
             /\ ep' = IF Head(d) = DONE \/ b.total >= BUFSIZE THEN "lee" ELSE "recibe"
             /\ UNCHANGED abiertos
        \/ buf[Zocalo].total < 0 /\ Muere /\ UNCHANGED buf
  /\ ecola' = [ecola EXCEPT ![Zocalo] = Tail(@)]
  /\ UNCHANGED <<programa, eresto, eerror, mandado, ii, ip, lineas>>

\* One turn on a recv that fails; what is at the pointer is not NLMSG_DONE yet.
recv_falla ==
  /\ ep = "recibe" /\ eerror[Zocalo]
  /\ buf' = [buf EXCEPT ![Zocalo] = Retrocede(@)]
  /\ eerror' = [eerror EXCEPT ![Zocalo] = FALSE]
  /\ UNCHANGED <<programa, ep, abiertos, ecola, eresto, mandado, ii, ip, lineas>>

\* Without a socket every recv fails, and the pointer goes back through the
\* stack until what is there is taken for NLMSG_DONE or the stack ends.
recv_sin_zocalo ==
  /\ ep = "recibe" /\ Zocalo \notin abiertos
  /\ LET t == buf[Zocalo].total
     IN \/ /\ t > -Pila /\ buf' = [buf EXCEPT ![Zocalo] = Retrocede(@)]
           /\ UNCHANGED <<ep, abiertos>>
        \/ t < 0 /\ ep' = "lee" /\ UNCHANGED <<buf, abiertos>>
        \/ t = -Pila /\ Muere /\ UNCHANGED buf
  /\ UNCHANGED <<programa, ecola, eresto, eerror, mandado, ii, ip, lineas>>

\* The messages NLMSG_OK takes: those whose end the total reaches.
Legibles(b) ==
  LET n == b.total \div Largo
  IN SubSeq(b.msgs, 1, IF n < Len(b.msgs) THEN n ELSE Len(b.msgs))

\* 2008ex2: every route of the main table becomes a line.
read_reply ==
  /\ ep = "lee" /\ programa = "ex2"
  /\ LET ms == Legibles(buf[1])
     IN lineas' = Escoge(ms, {m \in Range(ms) : m[1] = TablaMain})
  /\ ep' = "cierra"
  /\ UNCHANGED <<programa, abiertos, ecola, eresto, eerror, mandado, buf, ii, ip>>

\* 2008ex1: the next link; its addresses are asked for on a second socket.
read_reply_getlink ==
  /\ ep = "lee" /\ programa = "ex1" /\ ii = 0
  /\ IF Len(lineas) < Len(Legibles(buf[1]))
     THEN ii' = Len(lineas) + 1 /\ ep' = "abre"
     ELSE ep' = "cierra" /\ UNCHANGED ii
  /\ UNCHANGED <<programa, abiertos, ecola, eresto, eerror, mandado, buf, ip, lineas>>

\* Mutant: ifa_index is not looked at.
UltimaDeTodas(msgs, i) == IF msgs = <<>> THEN SinIP ELSE Last(msgs)[2]

\* The kernel sends the addresses of every interface: the last one of the
\* interface asked for stays in the string.
UltimaDe(msgs, i) ==
  LET suyas == Escoge(msgs, {m \in Range(msgs) : m[1] = i})
  IN IF suyas = <<>> THEN SinIP ELSE Last(suyas)[2]

\* read_reply_getaddr and the return of get_interface_ip, its socket closed.
get_interface_ip ==
  /\ ep = "lee" /\ programa = "ex1" /\ ii > 0
  /\ ip' = UltimaDe(Legibles(buf[2]), buf[1].msgs[ii][1])
  /\ abiertos' = abiertos \ {2} /\ ep' = "linea"
  /\ ecola' = [ecola EXCEPT ![2] = <<>>]
  /\ eresto' = [eresto EXCEPT ![2] = "nada"]
  /\ eerror' = [eerror EXCEPT ![2] = FALSE]
  /\ UNCHANGED <<programa, mandado, buf, ii, lineas>>

\* The line of the link ends with the address, and the loop goes on.
Linea ==
  /\ ep = "linea"
  /\ lineas' = Append(lineas, buf[1].msgs[ii])
  /\ ii' = 0 /\ ip' = SinIP /\ ep' = "lee"
  /\ buf' = [buf EXCEPT ![2] = Vacio] /\ mandado' = [mandado EXCEPT ![2] = <<>>]
  /\ UNCHANGED <<programa, abiertos, ecola, eresto, eerror>>

\* Mutant: main returns without closing its socket.
CierraSinClose == ep = "cierra" /\ ep' = "fin" /\
  UNCHANGED <<programa, abiertos, ecola, eresto, eerror, mandado, buf, ii, ip, lineas>>

\* The end of main.
Cierra ==
  /\ ep = "cierra" /\ ep' = "fin" /\ abiertos' = abiertos \ {1}
  /\ UNCHANGED <<programa, ecola, eresto, eerror, mandado, buf, ii, ip, lineas>>

EspPrograma ==
  \/ open_netlink_socket \/ send_request \/ recv_reply \/ recv_falla \/ recv_sin_zocalo
  \/ read_reply \/ read_reply_getlink \/ get_interface_ip \/ Linea \/ Cierra

EspNext == EspPrograma \/ \E z \in abiertos : Sigue(z)

EspSpec == EspInit /\ [][EspNext]_evars
---------------------------------------------------------------------------
\* A reading that is over: what it left in the buffer is being listed, or was.
Leido(z) ==
  /\ ep # "muerto"
  /\ \/ z = 1 /\ (ii > 0 \/ ep \in {"lee", "cierra", "fin"})
     \/ z = 2 /\ ii > 0 /\ ep \in {"lee", "linea"}

\* What a reader finds in its buffer is the beginning of what the kernel sent on
\* that very socket, whatever failed.  A recv that failed costs the last message,
\* if nothing came after it, or else the end of the last before it and all that
\* came later; with none, everything is there unless the buffer filled.
ListaFiel ==
  \A z \in Zocalos : Leido(z) =>
    LET b == buf[z]  m == Legibles(b)  e == mandado[z]
    IN /\ Len(m) <= Len(e)
       /\ \A k \in 1..Len(m) :
            \/ m[k] = e[k]
            \/ b.corrido /\ k = Len(b.msgs) /\ m[k] = <<e[k][1], Alterado>>
       /\ Len(m) < Len(e) => b.fallos > 0 \/ b.total = BUFSIZE
       /\ Len(m) + 1 < Len(e) => b.corrido \/ b.total = BUFSIZE

\* The address a line ends with is one the kernel gave for that very
\* interface while the line was being made; the line has none only if the
\* kernel gave none, a recv failed, or the answer was cut.
DireccionSuya ==
  ep = "linea" =>
    LET i == buf[1].msgs[ii][1]  dadas == {mandado[2][k] : k \in DOMAIN mandado[2]}
    IN \/ <<i, ip>> \in dadas
       \/ ip = Alterado /\ buf[2].corrido
       \/ /\ ip = SinIP
          /\ buf[2].fallos > 0 \/ buf[2].total = BUFSIZE \/ \A m \in dadas : m[1] # i

\* The listing comes to its end, with every socket closed, however many recvs
\* fail; unless the kernel refused a request, when recv is waited for without
\* end, or the process dies, which takes a recv that failed before anything came.
EspTermina ==
  \/ <>[](ep = "fin" /\ abiertos = {})
  \/ <>(\E z \in Zocalos : eresto[z] = "mudo")
  \/ <>[](ep = "muerto" /\ buf[Zocalo].msgs = <<>> /\ buf[Zocalo].fallos > 0)
============================================================================
