---------------------------- MODULE Libnetlink ----------------------------
(***************************************************************************)
(* libnetlink.c: requests to the kernel over one handle and the loops that *)
(* read what comes back.  Each call is one action up to its recvmsg, and   *)
(* one action for each datagram it then receives: nothing else can happen  *)
(* between two messages of a datagram.                                     *)
(*                                                                         *)
(* A message is [mio, sec, tipo, dato]: mio when its nlmsg_pid is the      *)
(* handle's, sec its nlmsg_seq.  A datagram is [msgs, corte]: corte says   *)
(* whether it was cut at the 8192 bytes of the reader's buffer, between    *)
(* two messages ("justo") or inside one ("medio").  The kernel is external *)
(* and sends well-formed messages: the exits for others are not modelled.  *)
(***************************************************************************)
EXTENDS Integers, Sequences, SequencesExt, FiniteSets, FiniteSetsExt, Seleccion

CONSTANTS Tablas,           \* the sets of routes or links the kernel may have
          SinCuerpo,        \* what a message without a body carries
          MaxSeq,           \* bound: requests made over the handle
          MaxVolcado,       \* bound: messages of one dump
          MaxAvisos,        \* bound: notices to a subscribed handle
          MaxPerdidas       \* bound: replies the kernel cannot deliver

ASSUME LibAssumption ==
  /\ {} \notin Tablas /\ SinCuerpo \notin UNION Tablas
  /\ MaxSeq \in Nat /\ MaxVolcado \in Nat /\ MaxAvisos \in Nat /\ MaxPerdidas \in Nat

VARIABLES rutas,      \* what the kernel's messages carry
          rth,        \* [seq, dump, grupos]: counters, and subscriptions or none
          cola,       \* datagrams in the receive queue of its socket
          so_error,   \* the next recvmsg fails with ENOBUFS
          volcando,   \* sequence number of the dump the kernel is at, 0 if none
          enviado,    \* history: what of the last dump reached the reader's
                      \* buffer; what was cut there is not in it
          hecho,      \* history: the requests the kernel carried out
          avisos, perdidas,
          fase,       \* the call in progress, "libre" between calls
          hablo,      \* [sec, answer]: the request of rtnl_talk
          corta,      \* the caller's callbacks may end the call in progress
          pedido,     \* a dump was asked for and not read yet
          visto,      \* what the filter of the last dump was given
          ret,        \* [op, valor, dato] of the last call that returned
          restos      \* history: something was left unread, see ColaLimpia

nucleo == <<rutas, cola, so_error, volcando, enviado, hecho, avisos, perdidas>>
manejo == <<rth, fase, hablo, corta, pedido, visto, ret, restos>>
libvars == <<nucleo, manejo>>

Nada == [op |-> "ninguna", valor |-> 0, dato |-> <<>>]
\* NLMSG_ERROR is "ACK" when its error is zero.
Finales == {"DONE", "ERROR", "ACK"}
Mensaje(mio, sec, tipo, dato) == [mio |-> mio, sec |-> sec, tipo |-> tipo, dato |-> dato]
Datagrama(msgs) == [msgs |-> msgs, corte |-> "no"]

LibInit ==
  /\ rutas \in Tablas
  /\ rth = [seq |-> 0, dump |-> 0, grupos |-> FALSE]
  /\ cola = <<>> /\ so_error = FALSE /\ volcando = 0
  /\ enviado = <<>> /\ hecho = {} /\ avisos = 0 /\ perdidas = 0
  /\ fase = "cerrado" /\ hablo = [sec |-> 0, answer |-> FALSE]
  /\ corta = FALSE /\ pedido = FALSE /\ visto = <<>>
  /\ ret = Nada /\ restos = FALSE
---------------------------------------------------------------------------
(* The kernel.                                                             *)

\* Replies reach the queue in order; those it has no memory for are lost, and
\* the reader is told by an error of its next recvmsg.
Llegan(resto, ds) ==
  \/ cola' = resto \o ds /\ UNCHANGED <<so_error, perdidas>>
  \/ /\ perdidas < MaxPerdidas /\ perdidas' = perdidas + 1 /\ so_error' = TRUE
     /\ \E k \in 0..(Len(ds) - 1) : cola' = resto \o SubSeq(ds, 1, k)

Acuse(sec, t) == Datagrama(<<Mensaje(TRUE, sec, t, SinCuerpo)>>)

\* A dump is begun, or refused: only one at a time on a socket.
Acepta(sec) ==
  \/ /\ volcando = 0
     /\ volcando' = sec /\ enviado' = <<>> /\ UNCHANGED <<cola, so_error, perdidas>>
  \/ /\ UNCHANGED <<volcando, enviado>>
     /\ Llegan(cola, <<Acuse(sec, "ERROR")>>)

\* The dump goes on once the queue has been read: another datagram, whole or
\* cut by the reader's buffer, or its end.
Vuelca ==
  /\ volcando # 0 /\ cola = <<>> /\ ~so_error
  /\ \/ \E cs \in BoundedSeq(rutas, 2) \ {<<>>}, c \in {"no", "justo", "medio"} :
          /\ Len(enviado) + Len(cs) <= MaxVolcado
          /\ cola' = << [msgs |-> [k \in DOMAIN cs |-> Mensaje(TRUE, volcando, "NEWROUTE", cs[k])],
                         corte |-> c] >>
          /\ enviado' = enviado \o cs
          /\ UNCHANGED <<volcando, so_error, perdidas>>
     \/ /\ Llegan(cola, <<Datagrama(<<Mensaje(TRUE, volcando, "DONE", SinCuerpo)>>)>>)
        /\ volcando' = 0 /\ UNCHANGED enviado
  /\ UNCHANGED <<rutas, hecho, avisos, manejo>>

\* A change somewhere else, told to those who subscribed.
Avisa ==
  /\ rth.grupos /\ avisos < MaxAvisos /\ avisos' = avisos + 1
  /\ \E c \in rutas, t \in {"NEWROUTE", "DELROUTE"} :
       Llegan(cola, <<Datagrama(<<Mensaje(FALSE, 0, t, c)>>)>>)
  /\ UNCHANGED <<rutas, volcando, enviado, hecho, manejo>>
---------------------------------------------------------------------------
(* The library.                                                            *)

Devuelve(op, v, d) ==
  /\ fase' = "libre" /\ corta' = FALSE /\ ret' = [op |-> op, valor |-> v, dato |-> d]

\* The socket, its port and, if asked for, its groups.  seq starts at the
\* clock, here 0; dump is not set: memset clears the size of a pointer.
rtnl_open(grupos) ==
  /\ fase = "cerrado"
  /\ \/ /\ rth' = [rth EXCEPT !.seq = 0, !.grupos = grupos]
        /\ restos' = grupos /\ Devuelve("open", 0, <<>>)
     \/ ret' = [Nada EXCEPT !.op = "open", !.valor = -1] /\ UNCHANGED <<rth, restos, fase, corta>>
  /\ UNCHANGED <<nucleo, hablo, pedido, visto>>

\* Both requests for a dump: the next sequence number, which the reading will
\* look for; the send may fail.
rtnl_dump_request ==
  /\ fase = "libre" /\ rth.seq < MaxSeq
  /\ LET sec == rth.seq + 1
     IN /\ rth' = [rth EXCEPT !.seq = sec, !.dump = sec]
        /\ \/ /\ Acepta(sec) /\ pedido' = TRUE
              /\ ret' = [Nada EXCEPT !.op = "pide"]
           \/ /\ UNCHANGED <<volcando, enviado, cola, so_error, perdidas, pedido>>
              /\ ret' = [Nada EXCEPT !.op = "pide", !.valor = -1]
  /\ UNCHANGED <<rutas, hecho, avisos, fase, hablo, corta, visto, restos>>

\* A request with a family only: the same steps.
rtnl_wilddump_request == rtnl_dump_request

\* recvmsg fails: "OVERRUN", and the loop goes on.
Sobrepasa ==
  /\ fase \in {"filtra", "habla", "escucha"} /\ so_error /\ so_error' = FALSE
  /\ UNCHANGED <<rutas, cola, volcando, enviado, hecho, avisos, perdidas, manejo>>

\* Mutants: the sequence number is not looked at; the one looked for is that of
\* the request before.
PropioSinSec(m) == m.mio
PropioAnterior(m) == m.mio /\ m.sec = rth.dump - 1

\* What rtnl_dump_filter makes of datagram d when the callback that ends the
\* call is that of message c (0: none does): the first message that makes it
\* return, with what, and those the filter was given.
Propio(m) == m.mio /\ m.sec = rth.dump
Filtrado(d, c) ==
  LET ms == d.msgs
      paran == {i \in DOMAIN ms : i = c \/ (Propio(ms[i]) /\ ms[i].tipo \in Finales)}
      i0 == IF paran = {} THEN Len(ms) + 1 ELSE Min(paran)
      dados == Escoge(SubSeq(ms, 1, IF i0 < Len(ms) THEN i0 ELSE Len(ms)),
                 {m \in Range(ms) : Propio(m) /\ m.tipo \notin Finales})
  IN [vuelve |-> paran # {},
      valor |-> IF paran # {} /\ i0 # c /\ ms[i0].tipo = "DONE" THEN 0 ELSE -1,
      dados |-> [k \in DOMAIN dados |-> dados[k].dato]]

\* The call, and one turn of its loop.  What the filter itself sends over the
\* handle, and what that leaves in the queue, is the caller's.
llama_dump_filter(puede) ==
  /\ fase = "libre" /\ pedido
  /\ fase' = "filtra" /\ corta' = puede /\ pedido' = FALSE
  /\ visto' = <<>> /\ ret' = Nada
  /\ UNCHANGED <<nucleo, rth, hablo, restos>>

rtnl_dump_filter(c) ==
  /\ fase = "filtra" /\ ~so_error /\ cola # <<>>
  /\ LET f == Filtrado(Head(cola), c)
     IN /\ visto' = visto \o f.dados
        /\ IF f.vuelve THEN Devuelve("dump", f.valor, <<>>) ELSE UNCHANGED <<fase, corta, ret>>
  /\ UNCHANGED <<rutas, volcando, enviado, avisos, hablo, pedido>>

\* The request of rtnl_talk and the kernel's answer.  A question ("GET") is
\* answered with a message; an order ("SET") only if it fails or asks for an
\* acknowledgement, as every call without an answer to fill does.
Respuestas(sec, clase, ack) ==
  { <<Acuse(sec, "ERROR")>> } \cup
  IF clase = "GET"
  THEN { <<Datagrama(<<Mensaje(TRUE, sec, "NEWROUTE", c)>>)>> \o
         (IF ack THEN <<Acuse(sec, "ACK")>> ELSE <<>>) : c \in rutas }
       \cup { <<[msgs |-> <<>>, corte |-> "medio"]>> \o
              (IF ack THEN <<Acuse(sec, "ACK")>> ELSE <<>>) }
  ELSE { IF ack THEN <<Acuse(sec, "ACK")>> ELSE <<>> }

Cumplida(r) == \A k \in DOMAIN r : \A j \in DOMAIN r[k].msgs : r[k].msgs[j].tipo # "ERROR"

llama_talk(clase, answer, puede) ==
  /\ fase = "libre" /\ rth.seq < MaxSeq
  /\ LET sec == rth.seq + 1
     IN /\ rth' = [rth EXCEPT !.seq = sec]
        /\ hablo' = [sec |-> sec, answer |-> answer]
        /\ \/ /\ fase' = "habla" /\ corta' = puede /\ ret' = Nada
              /\ \E r \in Respuestas(sec, clase, ~answer) :
                   /\ Llegan(cola, r)
                   /\ hecho' = IF Cumplida(r) THEN hecho \cup {sec} ELSE hecho
           \/ /\ Devuelve("talk", -1, <<>>)
              /\ UNCHANGED <<hecho, cola, so_error, perdidas>>
  /\ visto' = <<>>
  /\ UNCHANGED <<rutas, volcando, enviado, avisos, pedido, restos>>

\* Mutants: the sequence number is not looked at; any message stops the
\* reading, an answer nobody asked for too.
DeOtroSinSec(m) == ~m.mio
ParaPronto(m) == TRUE

\* Whose message it is; the first one that stops the reading of a datagram.
DeOtro(m) == ~(m.mio /\ m.sec = hablo.sec)
Para(m) == DeOtro(m) \/ m.tipo \in {"ERROR", "ACK"} \/ hablo.answer

\* One turn of its loop.  A message of another request is given to junk and,
\* if that does not end the call, examined again: h and status stay, and the
\* call never ends ("gira").
rtnl_talk ==
  /\ fase = "habla" /\ ~so_error /\ cola # <<>>
  /\ cola' = Tail(cola)
  /\ LET d == Head(cola)  k == SelectInSeq(d.msgs, Para)
     IN IF k = 0
        THEN IF d.corte = "medio"
             THEN Devuelve("talk", -1, <<>>) /\ restos' = (restos \/ ~hablo.answer)
             ELSE UNCHANGED <<fase, corta, ret, restos>>
        ELSE /\ UNCHANGED restos
             /\ LET m == d.msgs[k]
                IN CASE DeOtro(m) /\ corta -> Devuelve("talk", -1, <<>>)
                     [] DeOtro(m) /\ ~corta -> fase' = "gira" /\ UNCHANGED <<corta, ret>>
                     [] ~DeOtro(m) /\ m.tipo = "ERROR" -> Devuelve("talk", -1, <<>>)
                     [] OTHER -> Devuelve("talk", 0, <<m>>)
  /\ UNCHANGED <<rutas, so_error, volcando, enviado, hecho, avisos, perdidas,
                 rth, hablo, pedido, visto>>

\* A listener reads for ever; a message cut, or its handler, ends it.
llama_listen(puede) ==
  /\ fase = "libre" /\ fase' = "escucha" /\ corta' = puede
  /\ visto' = <<>> /\ ret' = Nada
  /\ UNCHANGED <<nucleo, rth, hablo, pedido, restos>>

rtnl_listen(c) ==
  /\ fase = "escucha" /\ ~so_error /\ cola # <<>>
  /\ cola' = Tail(cola) /\ restos' = (restos \/ c > 0)
  /\ IF c > 0 \/ Head(cola).corte = "medio"
     THEN Devuelve("listen", -1, <<>>) ELSE UNCHANGED <<fase, corta, ret>>
  /\ UNCHANGED <<rutas, so_error, volcando, enviado, hecho, avisos, perdidas,
                 rth, hablo, pedido, visto>>

\* Orders sent without asking for an answer, those numbered secs: each that
\* fails is answered with an error nobody waits for.  deja: whoever sends them
\* leaves something unread.
Manda(resto, secs, deja) ==
  \E mal \in SUBSET secs : \E q \in SetToSeqs(mal) :
    /\ \A i, j \in DOMAIN q : i < j => q[i] < q[j]
    /\ Llegan(resto, [k \in DOMAIN q |-> Acuse(q[k], "ERROR")])
    /\ hecho' = hecho \cup (secs \ mal)
    /\ restos' = (restos \/ deja \/ mal # {})

rtnl_send(secs) ==
  /\ fase = "libre"
  /\ \/ Manda(cola, secs, FALSE) /\ ret' = [Nada EXCEPT !.op = "send"]
     \/ /\ ret' = [Nada EXCEPT !.op = "send", !.valor = -1]
        /\ UNCHANGED <<cola, so_error, perdidas, hecho, restos>>
  /\ UNCHANGED <<rutas, volcando, enviado, avisos, fase, hablo, corta, pedido, visto>>
---------------------------------------------------------------------------
(* Any caller of the library.                                              *)

\* Which callback of datagram d, if any, ends the call.
Cortes(d) == {0} \cup (IF corta THEN DOMAIN d.msgs ELSE {})

Lee ==
  \/ \E c \in (IF cola = <<>> THEN {} ELSE Cortes(Head(cola))) :
       \/ /\ rtnl_dump_filter(c) /\ Llegan(Tail(cola), <<>>)
          /\ restos' = (restos \/ c > 0)
          /\ UNCHANGED <<rth, hecho>>
       \/ rtnl_listen(c)
  \/ rtnl_talk
  \/ Sobrepasa

\* A caller reads the dump it asked for before it does anything else, and
\* asks rtnl_talk for an answer only to a question.
LibLlama ==
  \/ \E g \in BOOLEAN : rtnl_open(g)
  \/ \E b \in BOOLEAN : llama_dump_filter(b)
  \/ /\ ~pedido
     /\ \/ rtnl_dump_request
        \/ \E clase \in {"GET", "SET"}, a, b \in BOOLEAN :
             (a => clase = "GET") /\ llama_talk(clase, a, b)
        \/ \E b \in BOOLEAN : llama_listen(b)
        \/ /\ rth.seq < MaxSeq /\ rth' = [rth EXCEPT !.seq = @ + 1]
           /\ rtnl_send({rth.seq + 1})

LibNext == LibLlama \/ Lee \/ Vuelca \/ Avisa
LibSpec == LibInit /\ [][LibNext]_libvars
---------------------------------------------------------------------------
\* A dump read to its end gave the filter what of that dump reached the buffer,
\* all of it and in order, whatever else was in the queue.  What was cut at the
\* 8192 bytes is lost, and the call still returns 0 (libnetlink.c:191-194).
ListaCompleta == ret.op = "dump" /\ ret.valor = 0 /\ fase = "libre" /\ ~pedido => visto = enviado

\* rtnl_talk returns 0 only for a request the kernel carried out, and the
\* answer it copies is to that request and no other.
RespuestaPropia ==
  ret.op = "talk" /\ ret.valor = 0 /\ fase = "libre" =>
    /\ hablo.sec \in hecho
    /\ ret.dato[1].mio /\ ret.dato[1].sec = hablo.sec
    /\ hablo.answer => ret.dato[1].tipo = "NEWROUTE"

\* Between calls nothing is left to be read on a handle without subscriptions,
\* if no callback ended a call, no order sent without waiting failed and no
\* answer nobody wanted was cut: the next call meets only what is its own, and
\* rtnl_talk turns for ever on a message of another only after one of those
\* (libnetlink.c:277-303).
ColaLimpia ==
  /\ fase = "libre" /\ ~restos /\ ~pedido => cola = <<>> /\ volcando = 0 /\ ~so_error
  /\ fase = "gira" => restos

\* Every call that reads returns, unless a reply was lost or it spins.
LlamadaVuelve == fase \in {"filtra", "habla"} ~> (fase \in {"libre", "gira"} \/ perdidas > 0)
============================================================================
