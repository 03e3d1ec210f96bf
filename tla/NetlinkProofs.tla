--------------------------- MODULE NetlinkProofs ---------------------------
(***************************************************************************)
(* Theorems about the programs that talk to the kernel: Libnetlink for any *)
(* routes, any number of requests, any dumps and notices, and any replies  *)
(* the kernel loses or refuses; EspNetlink for any answers, of datagrams   *)
(* of up to two messages, cut anywhere by a buffer of any size, sockets    *)
(* that are not opened and recvs that fail before, between and behind      *)
(* them, fewer than a message has bytes; Iproute for any arguments, any    *)
(* filters and any routes, addresses of any length and a flush buffer of   *)
(* any size; Rtattr for any attributes and any file; the parsers of Utils  *)
(* for texts of any numbers and words, and types of any width; and         *)
(* Netlink, of which each of the programs is a part.                       *)
(***************************************************************************)
EXTENDS Netlink, SeleccionProofs, FiniteSetTheorems, TLAPS

(***************************************************************************)
(* The invariant.  A message of the queue that carries the handle's port   *)
(* and is not an error answers a request already made; if it bears the     *)
(* number of the last rtnl_talk, the kernel carried that request out, and  *)
(* it is a route when an answer was asked for.  No dump bears that number. *)
(***************************************************************************)

TiposMensaje == {"NEWROUTE", "DELROUTE", "DONE", "ERROR", "ACK"}
MensajesLib == [mio : BOOLEAN, sec : Nat, tipo : TiposMensaje,
             dato : (UNION Tablas) \cup {SinCuerpo}]

Fiable(m) ==
  m.mio /\ m.tipo # "ERROR" =>
    /\ m.sec <= rth.seq
    /\ m.sec = hablo.sec => hablo.sec \in hecho /\ (hablo.answer => m.tipo = "NEWROUTE")
Fiables == {m \in MensajesLib : Fiable(m)}
DatagramasDe(S) == [msgs : Seq(S), corte : {"no", "justo", "medio"}]

LibTipos ==
  /\ rutas \in Tablas
  /\ rth \in [seq : Nat, dump : Nat, grupos : BOOLEAN]
  /\ hablo \in [sec : Nat, answer : BOOLEAN]
  /\ volcando \in Nat

Numeros ==
  /\ volcando <= rth.seq /\ hablo.sec <= rth.seq
  /\ volcando # 0 => volcando # hablo.sec

Cerrado == fase = "cerrado" => cola = <<>> /\ volcando = 0 /\ rth.seq = 0 /\ ~rth.grupos

Cola == cola \in Seq(DatagramasDe(Fiables))

IInv == LibTipos /\ Numeros /\ Cerrado /\ Cola /\ RespuestaPropia
----------------------------------------------------------------------------
(* Queues.                                                                 *)

\* A queue of some messages is one of more messages.
LEMMA ColaMayor ==
  ASSUME NEW A, NEW B, A \subseteq B
  PROVE  Seq(DatagramasDe(A)) \subseteq Seq(DatagramasDe(B))
<1>1. Seq(A) \subseteq Seq(B)
  OBVIOUS
<1>2. DatagramasDe(A) \subseteq DatagramasDe(B)
  BY <1>1 DEF DatagramasDe
<1> QED
  BY <1>2

\* What Llegan leaves in the queue is of what was there and of what arrived.
LEMMA LleganCola ==
  ASSUME NEW S, NEW resto \in Seq(S), NEW ds \in Seq(S), Llegan(resto, ds)
  PROVE  cola' \in Seq(S)
<1>1. CASE cola' = resto \o ds
  BY <1>1
<1>2. CASE \E k \in 0..(Len(ds) - 1) : cola' = resto \o SubSeq(ds, 1, k)
  <2>1. PICK k \in 0..(Len(ds) - 1) : cola' = resto \o SubSeq(ds, 1, k)
    BY <1>2
  <2>2. SubSeq(ds, 1, k) \in Seq(S)
    BY <2>1
  <2> QED
    BY <2>1, <2>2
<1> QED
  BY <1>1, <1>2 DEF Llegan

\* When nothing arrives the queue is what was left of it.
LEMMA NadaLlega ==
  ASSUME NEW S, NEW resto \in Seq(S), Llegan(resto, <<>>)
  PROVE  cola' = resto /\ UNCHANGED so_error
BY DEF Llegan

\* A datagram of one message.
LEMMA UnMensaje ==
  ASSUME NEW S, NEW m \in S
  PROVE  Datagrama(<<m>>) \in DatagramasDe(S)
BY DEF Datagrama, DatagramasDe

\* A set of numbers has a least one.
LEMMA HayMenor ==
  ASSUME NEW I, I \subseteq Nat, I # {}
  PROVE  Min(I) \in I
<1>1. PICK x \in I : \A y \in I : x <= y
  BY Minimo
<1> QED
  BY <1>1 DEF Min

\* The first message rtnl_talk stops at is one of the datagram.
LEMMA PrimeroPara ==
  ASSUME NEW S, NEW ms \in Seq(S), SelectInSeq(ms, Para) # 0
  PROVE  /\ SelectInSeq(ms, Para) \in 1..Len(ms)
         /\ Para(ms[SelectInSeq(ms, Para)])
<1> DEFINE I == {i \in 1..Len(ms) : Para(ms[i])}
<1>1. I # {} /\ SelectInSeq(ms, Para) = Min(I)
  BY DEF SelectInSeq
<1>2. I \subseteq Nat
  OBVIOUS
<1>3. Min(I) \in I
  BY <1>1, <1>2, HayMenor
<1> QED
  BY <1>1, <1>3
----------------------------------------------------------------------------
(* What is trusted stays trusted when nothing is asked, when something     *)
(* other than rtnl_talk is, and when rtnl_talk asks.                       *)

LEMMA FiablesQuedan ==
  ASSUME LibTipos, LibTipos', rth.seq <= rth'.seq, UNCHANGED hablo, hecho \subseteq hecho'
  PROVE  Fiables \subseteq Fiables'
BY DEF Fiables, Fiable, LibTipos, MensajesLib

LEMMA FiablesPregunta ==
  ASSUME LibTipos, LibTipos', hablo'.sec = rth.seq + 1, rth'.seq = rth.seq + 1
  PROVE  Fiables \subseteq Fiables'
BY DEF Fiables, Fiable, LibTipos, MensajesLib

\* Errors are always trusted, and so is what is not the handle's.
LEMMA ErrorFiable ==
  ASSUME NEW n \in Nat
  PROVE  Mensaje(TRUE, n, "ERROR", SinCuerpo) \in Fiables'
<1> USE DEF Fiable, Mensaje
<1>1. Mensaje(TRUE, n, "ERROR", SinCuerpo) \in MensajesLib
  BY DEF MensajesLib, TiposMensaje
<1>2. Fiable(Mensaje(TRUE, n, "ERROR", SinCuerpo))'
  BY Zenon
<1> QED
  BY <1>1, <1>2 DEF Fiables

LEMMA ErroresCaben ==
  ASSUME NEW n \in Nat
  PROVE  /\ Acuse(n, "ERROR") \in DatagramasDe(Fiables')
         /\ Acuse(n, "ERROR") \in DatagramasDe(MensajesLib)
<1>1. Acuse(n, "ERROR") \in DatagramasDe(Fiables')
  BY ErrorFiable, UnMensaje DEF Acuse
<1>2. Mensaje(TRUE, n, "ERROR", SinCuerpo) \in MensajesLib
  BY DEF MensajesLib, Mensaje, TiposMensaje
<1>3. Acuse(n, "ERROR") \in DatagramasDe(MensajesLib)
  BY <1>2, UnMensaje DEF Acuse
<1> QED
  BY <1>1, <1>3

LEMMA AjenoFiable ==
  ASSUME NEW t \in TiposMensaje, NEW c \in UNION Tablas
  PROVE  Mensaje(FALSE, 0, t, c) \in Fiables'
<1> USE DEF Fiable, Mensaje
<1>1. Mensaje(FALSE, 0, t, c) \in MensajesLib
  BY DEF MensajesLib
<1>2. Fiable(Mensaje(FALSE, 0, t, c))'
  BY Zenon
<1> QED
  BY <1>1, <1>2 DEF Fiables

\* What the kernel answers to orders nobody waits for are errors.
LEMMA MandaEn ==
  ASSUME NEW D, NEW resto \in Seq(D), \A n \in Nat : Acuse(n, "ERROR") \in D,
         NEW secs, secs \subseteq Nat, IsFiniteSet(secs), NEW deja, Manda(resto, secs, deja)
  PROVE  /\ cola' \in Seq(D) /\ hecho \subseteq hecho'
         /\ restos \/ deja => restos'
         /\ ~ restos' => ~ restos /\ cola' = resto /\ UNCHANGED so_error
<1>1. PICK mal \in SUBSET secs : \E q \in SetToSeqs(mal) :
        /\ Llegan(resto, [k \in DOMAIN q |-> Acuse(q[k], "ERROR")])
        /\ hecho' = hecho \cup (secs \ mal)
        /\ restos' = (restos \/ deja \/ mal # {})
  BY DEF Manda
<1>2. PICK q \in SetToSeqs(mal) : Llegan(resto, [k \in DOMAIN q |-> Acuse(q[k], "ERROR")])
  BY <1>1
<1> DEFINE n == Cardinality(mal)
           ds == [k \in DOMAIN q |-> Acuse(q[k], "ERROR")]
<1>3. n \in Nat /\ (mal = {} => n = 0)
  <2>1. IsFiniteSet(mal)
    BY <1>1, FS_Subset
  <2> QED
    BY <2>1, FS_CardinalityType, FS_EmptySet
<1>4. q \in [1..n -> mal] /\ mal \subseteq Nat
  BY DEF SetToSeqs
<1> HIDE DEF n
<1>5. \A k \in 1..n : Acuse(q[k], "ERROR") \in D
  <2> SUFFICES ASSUME NEW k \in 1..n
               PROVE  Acuse(q[k], "ERROR") \in D
    OBVIOUS
  <2>1. q[k] \in Nat
    BY <1>4
  <2> QED
    BY <2>1
<1>6. ds \in Seq(D)
  BY <1>3, <1>4, <1>5
<1>7. mal = {} => ds = <<>>
  BY <1>3, <1>4
<1> HIDE DEF ds
<1>8. Llegan(resto, ds)
  BY <1>2 DEF ds
<1>9. cola' \in Seq(D)
  BY <1>6, <1>8, LleganCola
<1>10. ASSUME ~ restos' PROVE ~ restos /\ cola' = resto /\ UNCHANGED so_error
  <2>1. ~ restos /\ mal = {}
    BY <1>1, <1>10
  <2>2. Llegan(resto, <<>>)
    BY <1>7, <1>8, <2>1
  <2> QED
    BY <2>1, <2>2, NadaLlega
<1>11. hecho \subseteq hecho' /\ (restos \/ deja => restos')
  BY <1>1
<1> QED
  BY <1>9, <1>10, <1>11

\* The number of one order.
LEMMA UnaOrden ==
  ASSUME IInv
  PROVE  {rth.seq + 1} \subseteq Nat /\ IsFiniteSet({rth.seq + 1})
<1> DEFINE n == rth.seq + 1
<1>1. n \in Nat
  BY DEF IInv, LibTipos
<1> HIDE DEF n
<1>2. IsFiniteSet({n})
  BY FS_Singleton, Zenon
<1>3. {n} \subseteq Nat
  BY <1>1
<1> QED
  BY <1>2, <1>3 DEF n
----------------------------------------------------------------------------
(* The invariant holds at the start and is kept by every step.             *)

LEMMA Inicio == LibInit => IInv
BY DEF LibInit, IInv, LibTipos, Numeros, Cerrado, Cola, RespuestaPropia, Nada

\* A step that asks for nothing keeps the invariant if what is in the queue
\* was there or is trusted, and the call that returns is not rtnl_talk.
LEMMA Callado ==
  ASSUME IInv, UNCHANGED <<rutas, hablo>>, hecho \subseteq hecho', rth' = rth,
         volcando' \in {volcando, 0}, fase # "cerrado" /\ fase' # "cerrado",
         cola' \in Seq(DatagramasDe(Fiables')) \/ cola' \in Seq(DatagramasDe(Fiables)),
         UNCHANGED <<fase, ret>> \/ fase' # "libre" \/ ret'.op # "talk" \/ ret'.valor # 0
  PROVE  IInv'
<1>1. LibTipos'
  BY DEF IInv, LibTipos
<1>2. Numeros' /\ Cerrado'
  BY DEF IInv, LibTipos, Numeros, Cerrado
<1>3. Cola'
  <2>1. Fiables \subseteq Fiables'
    BY <1>1, FiablesQuedan DEF IInv, LibTipos
  <2> QED
    BY <2>1, ColaMayor DEF Cola
<1>4. RespuestaPropia'
  BY DEF IInv, RespuestaPropia
<1> QED
  BY <1>1, <1>2, <1>3, <1>4 DEF IInv

LEMMA AbreI ==
  ASSUME IInv, NEW g \in BOOLEAN, rtnl_open(g)
  PROVE  IInv'
<1> USE DEF IInv, rtnl_open, nucleo
<1>1. LibTipos' /\ Numeros' /\ Cerrado'
  BY DEF LibTipos, Numeros, Cerrado, Devuelve
<1>2. Cola'
  BY DEF Cola, Cerrado
<1>3. RespuestaPropia'
  BY DEF RespuestaPropia, Devuelve, Nada
<1> QED
  BY <1>1, <1>2, <1>3

LEMMA Escucha ==
  ASSUME IInv, NEW b \in BOOLEAN, llama_dump_filter(b) \/ llama_listen(b)
  PROVE  IInv'
<1>1. /\ fase = "libre" /\ fase' \in {"filtra", "escucha"}
      /\ UNCHANGED <<rutas, hablo, hecho, rth, volcando, cola>>
  BY DEF llama_dump_filter, llama_listen, nucleo
<1> QED
  BY <1>1, Callado DEF IInv, Cola

\* The number a dump takes is above that of the last rtnl_talk.
LEMMA PideVolcado ==
  ASSUME IInv, rtnl_dump_request
  PROVE  IInv'
<1> DEFINE sec == rth.seq + 1
<1>0. PICK r : r = [rth EXCEPT !.seq = sec] /\ rth' = [r EXCEPT !.dump = sec]
  <2>1. rth' = [rth EXCEPT !.seq = sec, !.dump = sec]
    BY DEF rtnl_dump_request
  <2> QED
    BY <2>1, Zenon
<1>1. /\ fase = "libre" /\ fase' = fase
      /\ UNCHANGED <<rutas, hablo, hecho>>
      /\ ret'.op = "pide"
  BY DEF rtnl_dump_request, Nada
<1>2. \/ volcando' = sec /\ cola' = cola
      \/ volcando' = volcando /\ Llegan(cola, <<Acuse(sec, "ERROR")>>)
      \/ volcando' = volcando /\ cola' = cola
  BY DEF rtnl_dump_request, Acepta
<1>3. sec \in Nat /\ sec > rth.seq /\ rth'.seq = sec /\ LibTipos'
  <2>1. sec \in Nat /\ sec > rth.seq /\ rth \in [seq : Nat, dump : Nat, grupos : BOOLEAN]
    BY DEF IInv, LibTipos
  <2> HIDE DEF sec
  <2>2. r \in [seq : Nat, dump : Nat, grupos : BOOLEAN] /\ r.seq = sec
    BY <1>0, <2>1
  <2>3. rth' \in [seq : Nat, dump : Nat, grupos : BOOLEAN] /\ rth'.seq = sec
    BY <1>0, <2>1, <2>2
  <2> QED
    BY <1>1, <1>2, <2>1, <2>3 DEF IInv, LibTipos
<1>4. Numeros' /\ Cerrado'
  BY <1>1, <1>2, <1>3 DEF IInv, LibTipos, Numeros, Cerrado
<1>5. Cola'
  <2>1. Fiables \subseteq Fiables'
    BY <1>1, <1>3, FiablesQuedan DEF IInv, LibTipos
  <2>2. cola \in Seq(DatagramasDe(Fiables'))
    BY <2>1, ColaMayor DEF IInv, Cola
  <2>3. Acuse(sec, "ERROR") \in DatagramasDe(Fiables')
    <3>1. Mensaje(TRUE, sec, "ERROR", SinCuerpo) \in Fiables'
      BY <1>3, ErrorFiable
    <3> QED
      BY <3>1, UnMensaje DEF Acuse
  <2>4. <<Acuse(sec, "ERROR")>> \in Seq(DatagramasDe(Fiables'))
    BY <2>3
  <2> QED
    BY <1>2, <2>2, <2>4, LleganCola DEF Cola
<1>6. RespuestaPropia'
  BY <1>1 DEF RespuestaPropia
<1> QED
  BY <1>3, <1>4, <1>5, <1>6 DEF IInv

\* What the kernel answers to the request of rtnl_talk is trusted.
LEMMA RespuestasFiables ==
  ASSUME NEW sec \in Nat, NEW clase \in {"GET", "SET"}, NEW a \in BOOLEAN, a => clase = "GET",
         LibTipos, rth'.seq = sec, hablo' = [sec |-> sec, answer |-> a],
         NEW r \in Respuestas(sec, clase, ~a), Cumplida(r) => sec \in hecho'
  PROVE  r \in Seq(DatagramasDe(Fiables'))
<1> DEFINE D == DatagramasDe(Fiables')
           cortado == [msgs |-> <<>>, corte |-> "medio"]
<1>1. CASE r = <<Acuse(sec, "ERROR")>>
  <2>1. Acuse(sec, "ERROR") \in DatagramasDe(Fiables')
    BY ErrorFiable, UnMensaje DEF Acuse
  <2> QED
    BY <1>1, <2>1
<1>2. ~a /\ sec \in hecho' => Acuse(sec, "ACK") \in D
  <2> SUFFICES ASSUME ~a, sec \in hecho'
               PROVE  Mensaje(TRUE, sec, "ACK", SinCuerpo) \in Fiables'
    BY UnMensaje DEF Acuse
  <2> QED
    BY DEF Mensaje, MensajesLib, TiposMensaje, Fiables, Fiable
<1>3. ASSUME NEW c \in rutas, sec \in hecho'
      PROVE  Datagrama(<<Mensaje(TRUE, sec, "NEWROUTE", c)>>) \in D
  <2>1. Mensaje(TRUE, sec, "NEWROUTE", c) \in Fiables'
    BY <1>3 DEF Mensaje, MensajesLib, TiposMensaje, Fiables, Fiable, LibTipos
  <2> QED
    BY <2>1, UnMensaje
<1>4. cortado \in D
  BY DEF DatagramasDe
<1>5. /\ \A j \in DOMAIN Acuse(sec, "ACK").msgs : Acuse(sec, "ACK").msgs[j].tipo # "ERROR"
      /\ \A c : \A j \in DOMAIN Datagrama(<<Mensaje(TRUE, sec, "NEWROUTE", c)>>).msgs :
           Datagrama(<<Mensaje(TRUE, sec, "NEWROUTE", c)>>).msgs[j].tipo # "ERROR"
      /\ \A j \in DOMAIN cortado.msgs : cortado.msgs[j].tipo # "ERROR"
  BY DEF Acuse, Datagrama, Mensaje
<1>6. CASE r = IF ~a THEN <<Acuse(sec, "ACK")>> ELSE <<>>
  <2>1. Cumplida(r)
    BY <1>5, <1>6 DEF Cumplida
  <2> QED
    BY <1>2, <1>6, <2>1
<1> HIDE DEF D, cortado
<1>7. ASSUME NEW d, r = <<d>> \o (IF ~a THEN <<Acuse(sec, "ACK")>> ELSE <<>>),
             \A j \in DOMAIN d.msgs : d.msgs[j].tipo # "ERROR",
             sec \in hecho' => d \in D
      PROVE  r \in Seq(D)
  <2>1. r = IF ~a THEN <<d, Acuse(sec, "ACK")>> ELSE <<d>>
    BY <1>7
  <2>2. Cumplida(r)
    BY <1>5, <1>7, <2>1 DEF Cumplida
  <2> QED
    BY <1>2, <1>7, <2>1, <2>2
<1>8. CASE \E c \in rutas : r = <<Datagrama(<<Mensaje(TRUE, sec, "NEWROUTE", c)>>)>> \o
                               (IF ~a THEN <<Acuse(sec, "ACK")>> ELSE <<>>)
  BY <1>3, <1>5, <1>7, <1>8 DEF D
<1>9. CASE r = <<cortado>> \o (IF ~a THEN <<Acuse(sec, "ACK")>> ELSE <<>>)
  BY <1>4, <1>5, <1>7, <1>9 DEF D
<1> QED
  BY <1>1, <1>6, <1>8, <1>9 DEF Respuestas, cortado

\* The number of a request is above all those in the queue and of a dump.
LEMMA Habla ==
  ASSUME IInv, NEW clase \in {"GET", "SET"}, NEW a \in BOOLEAN, NEW b \in BOOLEAN,
         a => clase = "GET", llama_talk(clase, a, b)
  PROVE  IInv'
<1> DEFINE sec == rth.seq + 1
<1>1. /\ fase = "libre" /\ rth' = [rth EXCEPT !.seq = sec]
      /\ hablo' = [sec |-> sec, answer |-> a]
      /\ UNCHANGED <<rutas, volcando>>
  BY DEF llama_talk
<1>2. \/ /\ fase' = "habla"
         /\ \E r \in Respuestas(sec, clase, ~a) :
              Llegan(cola, r) /\ (Cumplida(r) => sec \in hecho')
      \/ /\ fase' = "libre" /\ ret'.op = "talk" /\ ret'.valor = -1 /\ cola' = cola
  BY DEF llama_talk, Devuelve
<1>3. sec \in Nat /\ sec > rth.seq /\ rth \in [seq : Nat, dump : Nat, grupos : BOOLEAN]
  BY DEF IInv, LibTipos
<1> HIDE DEF sec
<1>4. rth'.seq = sec /\ rth' \in [seq : Nat, dump : Nat, grupos : BOOLEAN]
  BY <1>1, <1>3
<1>5. LibTipos'
  BY <1>1, <1>3, <1>4 DEF IInv, LibTipos
<1>6. Numeros' /\ Cerrado'
  BY <1>1, <1>2, <1>3, <1>4 DEF IInv, LibTipos, Numeros, Cerrado
<1>7. Cola'
  <2>1. Fiables \subseteq Fiables'
    BY <1>1, <1>4, <1>5, FiablesPregunta DEF IInv, sec
  <2>2. cola \in Seq(DatagramasDe(Fiables'))
    BY <2>1, ColaMayor DEF IInv, Cola
  <2>3. ASSUME NEW r \in Respuestas(sec, clase, ~a), Llegan(cola, r), Cumplida(r) => sec \in hecho'
        PROVE  Cola'
    <3>1. r \in Seq(DatagramasDe(Fiables'))
      BY <1>1, <1>3, <1>4, <2>3, RespuestasFiables DEF IInv
    <3> QED
      BY <2>2, <2>3, <3>1, LleganCola DEF Cola
  <2> QED
    BY <1>2, <2>2, <2>3 DEF Cola
<1>8. RespuestaPropia'
  BY <1>2 DEF RespuestaPropia
<1> QED
  BY <1>5, <1>6, <1>7, <1>8 DEF IInv

\* An order sent without waiting may be answered, but only with errors.
LEMMA Envia ==
  ASSUME IInv, rth.seq < MaxSeq, rth' = [rth EXCEPT !.seq = @ + 1], rtnl_send({rth.seq + 1})
  PROVE  IInv'
<1>1. /\ fase = "libre" /\ fase' = "libre" /\ ret'.op = "send"
      /\ UNCHANGED <<rutas, volcando, hablo>> /\ hecho \subseteq hecho'
      /\ \/ Manda(cola, {rth.seq + 1}, FALSE)
         \/ cola' = cola
  BY DEF rtnl_send, Manda, Nada
<1>2. LibTipos' /\ rth'.seq = rth.seq + 1
  BY <1>1 DEF IInv, LibTipos
<1>3. Numeros' /\ Cerrado'
  BY <1>1, <1>2 DEF IInv, LibTipos, Numeros, Cerrado
<1>4. cola \in Seq(DatagramasDe(Fiables'))
  <2>1. Fiables \subseteq Fiables'
    BY <1>1, <1>2, FiablesQuedan DEF IInv, LibTipos
  <2> QED
    BY <2>1, ColaMayor DEF IInv, Cola
<1>5. Cola'
  BY <1>1, <1>4, ErroresCaben, MandaEn, UnaOrden DEF Cola
<1>6. RespuestaPropia'
  BY <1>1 DEF RespuestaPropia
<1> QED
  BY <1>2, <1>3, <1>5, <1>6 DEF IInv

\* What is left of the queue, and its first datagram.
LEMMA ColaPrimera ==
  ASSUME IInv, cola # <<>>
  PROVE  /\ Head(cola) \in DatagramasDe(Fiables)
         /\ Tail(cola) \in Seq(DatagramasDe(Fiables))
BY DEF IInv, Cola

\* The loops that read, except that of rtnl_talk.
LEMMA LeeOtro ==
  ASSUME IInv,
         \/ \E c : /\ rtnl_dump_filter(c) /\ Llegan(Tail(cola), <<>>)
                           /\ UNCHANGED <<rth, hecho>>
         \/ \E c : rtnl_listen(c)
         \/ Sobrepasa
  PROVE  IInv'
<1>1. CASE \E c : /\ rtnl_dump_filter(c) /\ Llegan(Tail(cola), <<>>)
                          /\ UNCHANGED <<rth, hecho>>
  <2>1. PICK c : /\ rtnl_dump_filter(c) /\ Llegan(Tail(cola), <<>>)
                         /\ UNCHANGED <<rth, hecho>>
    BY <1>1
  <2>2. /\ cola # <<>> /\ fase = "filtra" /\ UNCHANGED <<rutas, volcando, hablo>>
        /\ fase' \in {"libre", "filtra"} /\ (fase' = "libre" => ret'.op = "dump")
    BY <2>1 DEF rtnl_dump_filter, Devuelve
  <2>3. cola' \in Seq(DatagramasDe(Fiables))
    <3>1. <<>> \in Seq(DatagramasDe(Fiables))
      OBVIOUS
    <3> QED
      BY <2>1, <2>2, <3>1, ColaPrimera, LleganCola
  <2> QED
    BY <2>1, <2>2, <2>3, Callado
<1>2. CASE \E c : rtnl_listen(c)
  <2>1. /\ cola # <<>> /\ fase = "escucha" /\ cola' = Tail(cola)
        /\ UNCHANGED <<rutas, volcando, hablo, rth, hecho>>
        /\ fase' \in {"libre", "escucha"} /\ (fase' = "libre" => ret'.op = "listen")
    BY <1>2 DEF rtnl_listen, Devuelve
  <2> QED
    BY <2>1, ColaPrimera, Callado
<1>3. CASE Sobrepasa
  <2>1. /\ fase \in {"filtra", "habla", "escucha"}
        /\ UNCHANGED <<rutas, volcando, hablo, rth, hecho, cola, fase, ret>>
    BY <1>3 DEF Sobrepasa, manejo
  <2> QED
    BY <2>1, Callado DEF IInv, Cola
<1> QED
  BY <1>1, <1>2, <1>3

\* rtnl_talk returns 0 only with a trusted message of its own number.
LEMMA Talk ==
  ASSUME IInv, rtnl_talk
  PROVE  IInv'
<1> DEFINE d == Head(cola)
           k == SelectInSeq(d.msgs, Para)
           m == d.msgs[k]
<1>1. /\ cola # <<>> /\ fase = "habla" /\ cola' = Tail(cola)
      /\ UNCHANGED <<rutas, volcando, hablo, rth, hecho>>
  BY DEF rtnl_talk
<1>2. \/ fase' = fase
      \/ fase' = "gira"
      \/ fase' = "libre" /\ ret'.op = "talk" /\ ret'.valor = -1
      \/ /\ k # 0 /\ ~DeOtro(m) /\ m.tipo # "ERROR"
         /\ fase' = "libre" /\ ret' = [op |-> "talk", valor |-> 0, dato |-> <<m>>]
  BY DEF rtnl_talk, Devuelve
<1>3. d \in DatagramasDe(Fiables) /\ Tail(cola) \in Seq(DatagramasDe(Fiables))
  BY <1>1, ColaPrimera
<1>4. CASE /\ k # 0 /\ ~DeOtro(m) /\ m.tipo # "ERROR"
           /\ fase' = "libre" /\ ret' = [op |-> "talk", valor |-> 0, dato |-> <<m>>]
  <2>1. d.msgs \in Seq(Fiables)
    BY <1>3 DEF DatagramasDe
  <2>2. k \in 1..Len(d.msgs)
    BY <1>4, <2>1, PrimeroPara
  <2>3. m \in Fiables
    BY <2>1, <2>2
  <2> HIDE DEF m, k, d
  <2>4. /\ m.mio /\ m.sec = hablo.sec /\ hablo.sec \in hecho
        /\ hablo.answer => m.tipo = "NEWROUTE"
    BY <1>4, <2>3 DEF Fiables, Fiable, DeOtro
  <2>5. RespuestaPropia'
    BY <1>1, <1>4, <2>4 DEF RespuestaPropia
  <2>6. LibTipos' /\ Numeros' /\ Cerrado'
    BY <1>1, <1>4 DEF IInv, LibTipos, Numeros, Cerrado
  <2>7. Cola'
    <3>1. Fiables \subseteq Fiables'
      BY <1>1, <2>6, FiablesQuedan DEF IInv, LibTipos
    <3> QED
      BY <1>1, <1>3, <3>1, ColaMayor DEF Cola
  <2> QED
    BY <2>5, <2>6, <2>7 DEF IInv
<1>5. CASE \/ fase' \in {fase, "gira"}
           \/ fase' = "libre" /\ ret'.op = "talk" /\ ret'.valor = -1
  BY <1>1, <1>3, <1>5, Callado
<1> QED
  BY <1>2, <1>4, <1>5

\* The kernel.
LEMMA Nucleo ==
  ASSUME IInv, Vuelca \/ Avisa
  PROVE  IInv'
<1>1. CASE Vuelca
  <2>1. /\ volcando # 0 /\ UNCHANGED <<rutas, hecho, rth, hablo, fase, ret>>
        /\ volcando' \in {volcando, 0}
    BY <1>1 DEF Vuelca, manejo
  <2>2. fase # "cerrado"
    BY <2>1 DEF IInv, Cerrado
  <2>3. \A t \in TiposMensaje, c \in (UNION Tablas) \cup {SinCuerpo} :
          Mensaje(TRUE, volcando, t, c) \in Fiables
    BY <2>1 DEF IInv, LibTipos, Numeros, Fiables, Fiable, Mensaje, MensajesLib
  <2>4. ASSUME NEW cs \in BoundedSeq(rutas, 2), NEW c \in {"no", "justo", "medio"},
               cola' = << [msgs |-> [k \in DOMAIN cs |-> Mensaje(TRUE, volcando, "NEWROUTE", cs[k])],
                           corte |-> c] >>
        PROVE  cola' \in Seq(DatagramasDe(Fiables))
    <3>1. cs \in Seq(rutas)
      <4>1. PICK n \in 0..2 : cs \in [1..n -> rutas]
        BY DEF BoundedSeq, SeqOf
      <4> QED
        BY <4>1
    <3>2. ASSUME NEW k \in 1..Len(cs)
          PROVE  Mensaje(TRUE, volcando, "NEWROUTE", cs[k]) \in Fiables
      <4>1. cs[k] \in UNION Tablas
        BY <3>1 DEF IInv, LibTipos
      <4> QED
        BY <2>3, <4>1 DEF TiposMensaje
    <3> DEFINE ms == [k \in DOMAIN cs |-> Mensaje(TRUE, volcando, "NEWROUTE", cs[k])]
    <3>3. ms \in Seq(Fiables)
      <4>1. Len(cs) \in Nat /\ DOMAIN cs = 1..Len(cs)
        BY <3>1
      <4>2. ms \in [1..Len(cs) -> Fiables]
        BY <3>2, <4>1, Zenon
      <4> HIDE DEF ms
      <4> QED
        BY <4>1, <4>2
    <3> HIDE DEF ms
    <3>4. [msgs |-> ms, corte |-> c] \in DatagramasDe(Fiables)
      BY <3>3 DEF DatagramasDe
    <3> QED
      BY <2>4, <3>4 DEF ms
  <2>5. ASSUME Llegan(cola, <<Datagrama(<<Mensaje(TRUE, volcando, "DONE", SinCuerpo)>>)>>)
        PROVE  cola' \in Seq(DatagramasDe(Fiables))
    <3>1. Datagrama(<<Mensaje(TRUE, volcando, "DONE", SinCuerpo)>>) \in DatagramasDe(Fiables)
      BY <2>3, UnMensaje DEF TiposMensaje
    <3>2. <<Datagrama(<<Mensaje(TRUE, volcando, "DONE", SinCuerpo)>>)>> \in Seq(DatagramasDe(Fiables))
      BY <3>1
    <3> QED
      BY <2>5, <3>2, LleganCola DEF IInv, Cola
  <2>6. cola' \in Seq(DatagramasDe(Fiables))
    BY <1>1, <2>4, <2>5 DEF Vuelca
  <2> QED
    BY <2>1, <2>2, <2>6, Callado
<1>2. CASE Avisa
  <2>1. PICK c \in rutas, t \in {"NEWROUTE", "DELROUTE"} :
          Llegan(cola, <<Datagrama(<<Mensaje(FALSE, 0, t, c)>>)>>)
    BY <1>2 DEF Avisa
  <2>2. UNCHANGED <<rutas, volcando, hecho, rth, hablo, fase, ret>>
    BY <1>2 DEF Avisa, manejo
  <2>3. LibTipos'
    BY <2>2 DEF IInv, LibTipos
  <2>4. cola \in Seq(DatagramasDe(Fiables'))
    BY <2>2, <2>3, FiablesQuedan, ColaMayor DEF IInv, LibTipos, Cola
  <2>5. Datagrama(<<Mensaje(FALSE, 0, t, c)>>) \in DatagramasDe(Fiables')
    BY AjenoFiable, UnMensaje DEF IInv, LibTipos, TiposMensaje
  <2>6. Cola'
    <3>1. <<Datagrama(<<Mensaje(FALSE, 0, t, c)>>)>> \in Seq(DatagramasDe(Fiables'))
      BY <2>5
    <3> QED
      BY <2>1, <2>4, <3>1, LleganCola DEF Cola
  <2>7. Numeros' /\ RespuestaPropia'
    BY <2>2 DEF IInv, Numeros, RespuestaPropia
  <2>8. Cerrado'
    BY <1>2, <2>2 DEF IInv, Cerrado, Avisa
  <2> QED
    BY <2>3, <2>6, <2>7, <2>8 DEF IInv
<1> QED
  BY <1>1, <1>2

LEMMA Paso == IInv /\ [LibNext]_libvars => IInv'
<1> SUFFICES ASSUME IInv, [LibNext]_libvars
             PROVE  IInv'
  OBVIOUS
<1>1. CASE LibLlama
  BY <1>1, AbreI, Escucha, PideVolcado, Habla, Envia DEF LibLlama
<1>2. CASE Lee
  BY <1>2, LeeOtro, Talk DEF Lee
<1>3. CASE Vuelca \/ Avisa
  BY <1>3, Nucleo
<1>4. CASE UNCHANGED libvars
  <2>1. UNCHANGED <<rutas, volcando, hecho, rth, hablo, fase, ret, cola>>
    BY <1>4 DEF libvars, nucleo, manejo
  <2> QED
    BY <2>1 DEF IInv, LibTipos, Numeros, Cerrado, Cola, RespuestaPropia, Fiables, Fiable
<1> QED
  BY <1>1, <1>2, <1>3, <1>4 DEF LibNext
----------------------------------------------------------------------------
\* Whatever the caller asks and whatever is in the queue, lost or refused,
\* rtnl_talk returns 0 only for a request the kernel carried out, with the
\* answer to that request (libnetlink.c:221-314).
THEOREM OwnAnswer == LibSpec => []RespuestaPropia
<1>1. IInv => RespuestaPropia
  BY DEF IInv
<1> QED
  BY Inicio, Paso, <1>1, PTL DEF LibSpec
----------------------------------------------------------------------------
(***************************************************************************)
(* What a call leaves behind.  While nothing has been left unread, the     *)
(* queue is empty between calls and while listening; from the request of a *)
(* dump to its end it holds at most one datagram, and no final message     *)
(* before the kernel is done; and in rtnl_talk it holds what is left of    *)
(* the answer, at most two datagrams, of which the first does not stop the *)
(* reading of a caller that wants no answer.                               *)
(***************************************************************************)

SinFinal(d) == \A i \in DOMAIN d.msgs : d.msgs[i].tipo = "NEWROUTE"
Contesta(sec, d) == \A i \in DOMAIN d.msgs : d.msgs[i].mio /\ d.msgs[i].sec = sec

Limpio == cola = <<>> /\ volcando = 0 /\ ~so_error

EnVolcado ==
  /\ Len(cola) <= 1
  /\ volcando # 0 => ~so_error /\ (cola # <<>> => SinFinal(cola[1]))

EnHabla ==
  /\ volcando = 0 /\ Len(cola) <= 2
  /\ \A i \in DOMAIN cola : Contesta(hablo.sec, cola[i])
  /\ Len(cola) = 2 => ~hablo.answer /\ SinFinal(cola[1])

Fases == {"cerrado", "libre", "filtra", "habla", "gira", "escucha"}

LInv ==
  /\ fase \in Fases /\ (fase = "cerrado" => ~restos)
  /\ ~restos =>
       /\ ~rth.grupos /\ fase # "gira"
       /\ fase \in {"cerrado", "escucha"} \/ (fase = "libre" /\ ~pedido) => Limpio
       /\ (fase = "libre" /\ pedido) \/ fase = "filtra" => EnVolcado
       /\ fase = "habla" => EnHabla

\* An empty queue with nothing to come is right in every phase but "gira".
LEMMA Vacia ==
  ASSUME cola' = <<>>, volcando' = 0, ~so_error', ~rth'.grupos, fase' \in Fases \ {"gira"},
         fase' = "cerrado" => ~restos'
  PROVE  LInv'
BY DEF LInv, Limpio, EnVolcado, EnHabla

\* Nothing is said once something was left unread.
LEMMA Sucia ==
  ASSUME restos', fase' \in Fases \ {"cerrado"}
  PROVE  LInv'
BY DEF LInv

LEMMA InicioL == LibInit => LInv
BY DEF LibInit, LInv, Limpio, EnVolcado, EnHabla, Fases

\* Queues of one or two datagrams.
LEMMA UnaODos ==
  ASSUME NEW d, NEW e
  PROVE  /\ <<d>> \o <<e>> = <<d, e>> /\ <<d>> \o <<>> = <<d>>
         /\ SubSeq(<<d, e>>, 1, 0) = <<>> /\ SubSeq(<<d, e>>, 1, 1) = <<d>>
         /\ Tail(<<d, e>>) = <<e>>
<1> DEFINE S == {d, e}
<1>1. /\ <<d>> \in Seq(S) /\ <<e>> \in Seq(S) /\ <<d, e>> \in Seq(S) /\ <<>> \in Seq(S)
      /\ Len(<<d>>) = 1 /\ <<d>>[1] = d /\ <<e>>[1] = e
      /\ Len(<<d, e>>) = 2 /\ <<d, e>>[1] = d /\ <<d, e>>[2] = e
  OBVIOUS
<1>2. ASSUME NEW s \in Seq(S), NEW t \in Seq(S), Len(s) = Len(t),
             \A i \in 1..Len(s) : s[i] = t[i]
      PROVE  s = t
  BY <1>2, SeqEqual
<1>3. <<d>> \o <<e>> = <<d, e>>
  <2>1. <<d>> \o <<e>> \in Seq(S) /\ Len(<<d>> \o <<e>>) = 2
    BY <1>1
  <2>2. (<<d>> \o <<e>>)[1] = d /\ (<<d>> \o <<e>>)[2] = e
    BY <1>1
  <2>3. \A i \in 1..2 : i = 1 \/ i = 2
    OBVIOUS
  <2> HIDE DEF S
  <2> QED
    BY <1>1, <1>2, <2>1, <2>2, <2>3
<1>4. <<d>> \o <<>> = <<d>>
  BY <1>1
<1>5. SubSeq(<<d, e>>, 1, 0) = <<>>
  BY <1>1
<1>6. SubSeq(<<d, e>>, 1, 1) = <<d>>
  <2> DEFINE s == SubSeq(<<d, e>>, 1, 1)
  <2>1. s \in Seq(S) /\ Len(s) = 1
    BY <1>1
  <2>2. s[1] = d
    BY <1>1
  <2> HIDE DEF S, s
  <2>3. s = <<d>>
    BY <1>1, <1>2, <2>1, <2>2
  <2> QED
    BY <2>3 DEF s
<1>7. Tail(<<d, e>>) = <<e>>
  <2>1. Tail(<<d, e>>) \in Seq(S) /\ Len(Tail(<<d, e>>)) = 1
    BY <1>1
  <2>2. Tail(<<d, e>>)[1] = e
    BY <1>1
  <2> HIDE DEF S
  <2> QED
    BY <1>1, <1>2, <2>1, <2>2
<1> QED
  BY <1>3, <1>4, <1>5, <1>6, <1>7

\* What Llegan leaves in an empty queue when at most one datagram arrives.
LEMMA LlegaUna ==
  ASSUME NEW d, Llegan(<<>>, <<d>>)
  PROVE  cola' = <<>> \/ cola' = <<d>>
<1>1. CASE cola' = <<>> \o <<d>>
  BY <1>1
<1>2. CASE \E k \in 0..(Len(<<d>>) - 1) : cola' = <<>> \o SubSeq(<<d>>, 1, k)
  <2>1. PICK k \in 0..(Len(<<d>>) - 1) : cola' = <<>> \o SubSeq(<<d>>, 1, k)
    BY <1>2
  <2>2. k = 0
    BY <2>1
  <2>3. SubSeq(<<d>>, 1, k) = <<>>
    BY <2>2
  <2> QED
    BY <2>1, <2>3
<1> QED
  BY <1>1, <1>2 DEF Llegan
----------------------------------------------------------------------------
(* Each step keeps it.                                                     *)

LEMMA AbreL ==
  ASSUME LInv, NEW g \in BOOLEAN, rtnl_open(g), rth \in [seq : Nat, dump : Nat, grupos : BOOLEAN]
  PROVE  LInv'
<1>1. /\ fase = "cerrado" /\ ~restos /\ ~rth.grupos
      /\ cola' = <<>> /\ volcando' = 0 /\ ~so_error'
  BY DEF rtnl_open, nucleo, LInv, Limpio
<1>2. CASE fase' = "libre" /\ rth'.grupos = g /\ restos' = g
  BY <1>1, <1>2, Vacia, Sucia DEF Fases
<1>3. CASE UNCHANGED <<rth, restos, fase>>
  BY <1>1, <1>3, Vacia DEF Fases
<1>4. rth' = [rth EXCEPT !.seq = 0, !.grupos = g] => rth'.grupos = g
  OBVIOUS
<1> QED
  BY <1>2, <1>3, <1>4 DEF rtnl_open, Devuelve

LEMMA EscuchaL ==
  ASSUME LInv, NEW b \in BOOLEAN, llama_dump_filter(b) \/ (~pedido /\ llama_listen(b))
  PROVE  LInv'
<1>1. fase = "libre" /\ UNCHANGED <<nucleo, rth, hablo, restos>>
  BY DEF llama_dump_filter, llama_listen
<1>2. UNCHANGED <<cola, volcando, so_error>>
  BY <1>1 DEF nucleo
<1>3. CASE llama_dump_filter(b)
  BY <1>1, <1>2, <1>3 DEF llama_dump_filter, LInv, EnVolcado, Fases
<1>4. CASE ~pedido /\ llama_listen(b)
  BY <1>1, <1>2, <1>4 DEF llama_listen, LInv, Limpio, Fases
<1> QED
  BY <1>3, <1>4

\* A request leaves the queue empty, or with the refusal of the dump.
LEMMA PideVolcadoL ==
  ASSUME LInv, IInv, ~pedido, rtnl_dump_request
  PROVE  LInv'
<1> DEFINE sec == rth.seq + 1
<1>1. /\ fase = "libre" /\ fase' = fase /\ UNCHANGED <<hablo, restos>>
      /\ \/ Acepta(sec) /\ pedido'
         \/ UNCHANGED <<volcando, cola, so_error, pedido>>
  BY DEF rtnl_dump_request
<1>2. rth'.grupos = rth.grupos
  <2>1. rth \in [seq : Nat, dump : Nat, grupos : BOOLEAN]
    BY DEF IInv, LibTipos
  <2>2. rth' = [rth EXCEPT !.seq = sec, !.dump = sec]
    BY DEF rtnl_dump_request
  <2> HIDE DEF sec
  <2>3. [rth EXCEPT !.seq = sec, !.dump = sec].grupos = rth.grupos
    BY <2>1
  <2> QED
    BY <2>2, <2>3, Zenon
<1>3. CASE restos
  BY <1>1, <1>3, Sucia DEF Fases
<1>4. CASE ~restos
  <2>1. Limpio /\ ~rth'.grupos /\ ~restos'
    BY <1>1, <1>2, <1>4 DEF LInv
  <2>2. CASE UNCHANGED <<volcando, cola, so_error>>
    BY <1>1, <2>1, <2>2, Vacia DEF Limpio, Fases
  <2>3. CASE pedido' /\ volcando' = sec /\ UNCHANGED <<cola, so_error>>
    BY <1>1, <2>1, <2>3 DEF LInv, EnVolcado, Limpio, Fases
  <2>4. CASE pedido' /\ volcando' = volcando /\ Llegan(cola, <<Acuse(sec, "ERROR")>>)
    <3>1. cola' = <<>> \/ cola' = <<Acuse(sec, "ERROR")>>
      BY <2>1, <2>4, LlegaUna DEF Limpio
    <3>2. volcando' = 0
      BY <2>1, <2>4, Zenon DEF Limpio
    <3>3. Len(cola') <= 1
      <4>1. Len(<<>>) <= 1 /\ \A d : Len(<<d>>) <= 1
        OBVIOUS
      <4> QED
        BY <3>1, <4>1, Zenon
    <3> QED
      BY <1>1, <2>1, <2>4, <3>2, <3>3 DEF LInv, EnVolcado, Fases
  <2> QED
    BY <1>1, <2>2, <2>3, <2>4 DEF Acepta
<1> QED
  BY <1>3, <1>4

\* The answer to the request of rtnl_talk.
LEMMA RespuestasContestan ==
  ASSUME NEW sec \in Nat, NEW clase \in {"GET", "SET"}, NEW a \in BOOLEAN,
         NEW r \in Respuestas(sec, clase, ~a)
  PROVE  \/ r = <<>>
         \/ \E d : r = <<d>> /\ Contesta(sec, d)
         \/ \E d, e : r = <<d, e>> /\ ~a /\ Contesta(sec, d) /\ Contesta(sec, e) /\ SinFinal(d)
<1>1. \A t : Contesta(sec, Acuse(sec, t))
  BY DEF Contesta, Acuse, Datagrama, Mensaje
<1>2. \A c : LET d == Datagrama(<<Mensaje(TRUE, sec, "NEWROUTE", c)>>)
             IN Contesta(sec, d) /\ SinFinal(d)
  BY DEF Contesta, SinFinal, Datagrama, Mensaje
<1> DEFINE cortado == [msgs |-> <<>>, corte |-> "medio"]
<1>3. Contesta(sec, cortado) /\ SinFinal(cortado)
  BY DEF Contesta, SinFinal
<1> HIDE DEF cortado
<1>4. ASSUME NEW d, Contesta(sec, d), SinFinal(d),
             r = <<d>> \o (IF ~a THEN <<Acuse(sec, "ACK")>> ELSE <<>>)
      PROVE  \/ r = <<d>>
             \/ r = <<d, Acuse(sec, "ACK")>> /\ ~a
  BY <1>4, UnaODos
<1>5. CASE r \in {<<>>, <<Acuse(sec, "ERROR")>>, <<Acuse(sec, "ACK")>>}
  BY <1>1, <1>5
<1>6. CASE \E c \in rutas : r = <<Datagrama(<<Mensaje(TRUE, sec, "NEWROUTE", c)>>)>> \o
                               (IF ~a THEN <<Acuse(sec, "ACK")>> ELSE <<>>)
  BY <1>1, <1>2, <1>4, <1>6
<1>7. CASE r = <<cortado>> \o (IF ~a THEN <<Acuse(sec, "ACK")>> ELSE <<>>)
  BY <1>1, <1>3, <1>4, <1>7
<1> QED
  BY <1>5, <1>6, <1>7 DEF Respuestas, cortado

\* What arrives of an answer in an empty queue.
LEMMA LlegaRespuesta ==
  ASSUME NEW sec \in Nat, NEW a \in BOOLEAN, NEW r, Llegan(<<>>, r),
         \/ r = <<>>
         \/ \E d : r = <<d>> /\ Contesta(sec, d)
         \/ \E d, e : r = <<d, e>> /\ ~a /\ Contesta(sec, d) /\ Contesta(sec, e) /\ SinFinal(d)
  PROVE  \/ cola' = <<>>
         \/ \E d : cola' = <<d>> /\ Contesta(sec, d)
         \/ \E d, e : cola' = <<d, e>> /\ ~a /\ Contesta(sec, d) /\ Contesta(sec, e) /\ SinFinal(d)
<1>1. CASE r = <<>>
  BY <1>1 DEF Llegan
<1>2. CASE \E d : r = <<d>> /\ Contesta(sec, d)
  BY <1>2, LlegaUna
<1>3. CASE \E d, e : r = <<d, e>> /\ ~a /\ Contesta(sec, d) /\ Contesta(sec, e) /\ SinFinal(d)
  <2>1. PICK d, e : r = <<d, e>> /\ ~a /\ Contesta(sec, d) /\ Contesta(sec, e) /\ SinFinal(d)
    BY <1>3
  <2>2. CASE cola' = <<>> \o r
    BY <2>1, <2>2
  <2>3. CASE \E k \in 0..(Len(r) - 1) : cola' = <<>> \o SubSeq(r, 1, k)
    <3>1. PICK k \in 0..1 : cola' = <<>> \o SubSeq(<<d, e>>, 1, k)
      BY <2>1, <2>3
    <3>2. SubSeq(<<d, e>>, 1, 0) = <<>> /\ SubSeq(<<d, e>>, 1, 1) = <<d>>
      BY UnaODos
    <3>3. cola' = <<>> \/ cola' = <<d>>
      <4>1. k = 0 \/ k = 1
        OBVIOUS
      <4> QED
        BY <3>1, <3>2, <4>1
    <3> QED
      BY <2>1, <3>3
  <2> QED
    BY <2>2, <2>3 DEF Llegan
<1> QED
  BY <1>1, <1>2, <1>3

LEMMA HablaL ==
  ASSUME LInv, IInv, ~pedido, NEW clase \in {"GET", "SET"}, NEW a \in BOOLEAN,
         NEW b \in BOOLEAN, llama_talk(clase, a, b)
  PROVE  LInv'
<1> DEFINE sec == rth.seq + 1
<1>1. /\ fase = "libre" /\ rth' = [rth EXCEPT !.seq = sec]
      /\ hablo' = [sec |-> sec, answer |-> a]
      /\ UNCHANGED <<volcando, pedido, restos>>
      /\ \/ fase' = "habla" /\ \E r \in Respuestas(sec, clase, ~a) : Llegan(cola, r)
         \/ fase' = "libre" /\ UNCHANGED <<cola, so_error>>
  BY DEF llama_talk, Devuelve
<1>2. sec \in Nat /\ rth \in [seq : Nat, dump : Nat, grupos : BOOLEAN]
  BY DEF IInv, LibTipos
<1> HIDE DEF sec
<1>3. rth'.grupos = rth.grupos
  BY <1>1, <1>2
<1>4. CASE restos
  BY <1>1, <1>4, Sucia DEF Fases
<1>5. CASE ~restos /\ fase' = "libre"
  BY <1>1, <1>3, <1>5, Vacia DEF LInv, Limpio, Fases
<1>6. CASE ~restos /\ fase' = "habla"
  <2>1. cola = <<>> /\ volcando' = 0 /\ ~rth'.grupos /\ ~restos'
    BY <1>1, <1>3, <1>6 DEF LInv, Limpio
  <2>2. PICK r \in Respuestas(sec, clase, ~a) : Llegan(<<>>, r)
    BY <1>1, <1>6, <2>1
  <2>3. \/ cola' = <<>>
        \/ \E d : cola' = <<d>> /\ Contesta(sec, d)
        \/ \E d, e : cola' = <<d, e>> /\ ~a /\ Contesta(sec, d) /\ Contesta(sec, e) /\ SinFinal(d)
    BY <1>2, <2>2, RespuestasContestan, LlegaRespuesta
  <2>4. hablo'.sec = sec /\ hablo'.answer = a
    BY <1>1
  <2>5. EnHabla'
    <3>1. CASE cola' = <<>>
      BY <2>1, <3>1 DEF EnHabla
    <3>2. CASE \E d : cola' = <<d>> /\ Contesta(sec, d)
      <4>1. PICK d : cola' = <<d>> /\ Contesta(sec, d)
        BY <3>2
      <4>2. DOMAIN <<d>> = {1} /\ <<d>>[1] = d /\ Len(<<d>>) = 1
        OBVIOUS
      <4>3. \A i \in DOMAIN cola' : Contesta(hablo'.sec, cola'[i])
        BY <2>4, <4>1, <4>2
      <4> QED
        BY <2>1, <4>1, <4>2, <4>3 DEF EnHabla, Contesta
    <3>3. CASE \E d, e : /\ cola' = <<d, e>> /\ ~a
                         /\ Contesta(sec, d) /\ Contesta(sec, e) /\ SinFinal(d)
      <4>1. PICK d, e : /\ cola' = <<d, e>> /\ ~a
                        /\ Contesta(sec, d) /\ Contesta(sec, e) /\ SinFinal(d)
        BY <3>3
      <4>2. /\ DOMAIN <<d, e>> = {1, 2} /\ <<d, e>>[1] = d /\ <<d, e>>[2] = e
            /\ Len(<<d, e>>) = 2
        OBVIOUS
      <4>3. \A i \in DOMAIN cola' : Contesta(hablo'.sec, cola'[i])
        BY <2>4, <4>1, <4>2
      <4>4. SinFinal(cola'[1]) /\ ~hablo'.answer
        BY <2>4, <4>1, <4>2
      <4> QED
        BY <2>1, <4>1, <4>2, <4>3, <4>4 DEF EnHabla, Contesta, SinFinal
    <3> QED
      BY <2>3, <3>1, <3>2, <3>3
  <2> QED
    BY <1>6, <2>1, <2>5 DEF LInv, Fases
<1> QED
  BY <1>1, <1>4, <1>5, <1>6

\* An order that does not fail leaves nothing.
LEMMA EnviaL ==
  ASSUME LInv, IInv, ~pedido, rth'.grupos = rth.grupos,
         NEW secs, secs \subseteq Nat, IsFiniteSet(secs), rtnl_send(secs)
  PROVE  LInv'
<1>1. /\ fase = "libre" /\ fase' = "libre" /\ UNCHANGED <<volcando, pedido>>
      /\ \/ Manda(cola, secs, FALSE)
         \/ UNCHANGED <<cola, so_error, restos>>
  BY DEF rtnl_send
<1>2. CASE restos'
  BY <1>1, <1>2, Sucia DEF Fases
<1>3. CASE ~restos'
  <2>1. ~restos /\ cola' = cola /\ UNCHANGED so_error
    <3>1. cola \in Seq(DatagramasDe(MensajesLib))
      <4>1. Fiables \subseteq MensajesLib
        BY DEF Fiables
      <4> QED
        BY <4>1, ColaMayor DEF IInv, Cola
    <3>2. \A k \in Nat : Acuse(k, "ERROR") \in DatagramasDe(MensajesLib)
      BY ErroresCaben
    <3>3. CASE Manda(cola, secs, FALSE)
      BY <1>3, <3>1, <3>2, <3>3, MandaEn
    <3>4. CASE UNCHANGED <<cola, so_error, restos>>
      BY <1>3, <3>4
    <3> QED
      BY <1>1, <3>3, <3>4
  <2> QED
    BY <1>1, <1>3, <2>1, Vacia DEF LInv, Limpio, Fases
<1> QED
  BY <1>2, <1>3

LEMMA OrdenL ==
  ASSUME LInv, IInv, ~pedido, rth' = [rth EXCEPT !.seq = @ + 1], rtnl_send({rth.seq + 1})
  PROVE  LInv'
<1>1. rth'.grupos = rth.grupos
  BY DEF IInv, LibTipos
<1> QED
  BY <1>1, EnviaL, UnaOrden

\* What is left of a queue of one or of two, and its first datagram.
LEMMA Avanza ==
  ASSUME IInv, cola # <<>>
  PROVE  /\ cola \in Seq(DatagramasDe(MensajesLib)) /\ Tail(cola) \in Seq(DatagramasDe(MensajesLib))
         /\ Head(cola) = cola[1] /\ 1 \in DOMAIN cola /\ cola[1].msgs \in Seq(MensajesLib)
         /\ Len(cola) <= 1 => Tail(cola) = <<>>
         /\ Len(cola) = 2 => /\ Len(Tail(cola)) = 1 /\ DOMAIN Tail(cola) = {1}
                             /\ 2 \in DOMAIN cola /\ Tail(cola)[1] = cola[2]
<1>1. Fiables \subseteq MensajesLib
  BY DEF Fiables
<1>2. cola \in Seq(DatagramasDe(MensajesLib))
  BY <1>1, ColaMayor DEF IInv, Cola
<1> DEFINE D == DatagramasDe(MensajesLib)
<1>3. \A d \in D : d.msgs \in Seq(MensajesLib)
  BY DEF DatagramasDe
<1> HIDE DEF D
<1>4. cola \in Seq(D)
  BY <1>2 DEF D
<1>5. /\ Tail(cola) \in Seq(D) /\ Head(cola) = cola[1] /\ cola[1] \in D
      /\ Len(cola) \in Nat /\ Len(cola) >= 1 /\ DOMAIN cola = 1..Len(cola)
      /\ Len(Tail(cola)) = Len(cola) - 1
      /\ DOMAIN Tail(cola) = 1..(Len(cola) - 1)
      /\ \A i \in 1..(Len(cola) - 1) : Tail(cola)[i] = cola[i + 1]
  BY <1>4
<1>6. Len(cola) <= 1 => Tail(cola) = <<>>
  BY <1>5
<1>7. Len(cola) = 2 => /\ Len(Tail(cola)) = 1 /\ DOMAIN Tail(cola) = {1}
                       /\ 2 \in DOMAIN cola /\ Tail(cola)[1] = cola[2]
  BY <1>5
<1> QED
  BY <1>3, <1>4, <1>5, <1>6, <1>7 DEF D

\* No message of a dump ends its reading but its last, unless a callback does;
\* and then something is left unread.
LEMMA FiltraL ==
  ASSUME LInv, IInv, NEW c, rtnl_dump_filter(c), rth'.grupos = rth.grupos,
         ~restos' => ~restos /\ c = 0 /\ cola' = Tail(cola) /\ UNCHANGED so_error
  PROVE  LInv'
<1>1. /\ fase = "filtra" /\ ~so_error /\ cola # <<>> /\ UNCHANGED volcando
      /\ fase' \in {"filtra", "libre"}
      /\ fase' = "libre" => Filtrado(Head(cola), c).vuelve
  BY DEF rtnl_dump_filter, Devuelve
<1>2. CASE restos'
  BY <1>1, <1>2, Sucia DEF Fases
<1>3. CASE ~restos'
  <2>1. ~restos /\ c = 0 /\ cola' = Tail(cola) /\ ~so_error' /\ EnVolcado /\ ~rth'.grupos
    BY <1>1, <1>3 DEF LInv
  <2>2. cola' = <<>>
    BY <1>1, <2>1, Avanza DEF EnVolcado
  <2>3. CASE volcando = 0
    BY <1>1, <2>1, <2>2, <2>3, Vacia DEF Fases
  <2>4. CASE volcando # 0
    <3> DEFINE ms == Head(cola).msgs
    <3>1. SinFinal(Head(cola))
      BY <1>1, <2>1, <2>4, Avanza DEF EnVolcado
    <3>2. \A i \in DOMAIN ms : i # 0 /\ ms[i].tipo \notin Finales
      <4>1. DOMAIN ms = 1..Len(ms) /\ Len(ms) \in Nat
        BY <1>1, Avanza
      <4>2. \A i \in DOMAIN ms : ms[i].tipo = "NEWROUTE"
        BY <3>1 DEF SinFinal
      <4> QED
        BY <4>1, <4>2 DEF Finales
    <3>3. {i \in DOMAIN ms : i = c \/ (Propio(ms[i]) /\ ms[i].tipo \in Finales)} = {}
      BY <2>1, <3>2
    <3>4. ~Filtrado(Head(cola), c).vuelve
      BY <3>3 DEF Filtrado
    <3>5. fase' = "filtra"
      BY <1>1, <3>4
    <3> QED
      BY <1>3, <2>1, <2>2, <3>5 DEF LInv, EnVolcado, Fases
  <2> QED
    BY <2>3, <2>4
<1> QED
  BY <1>2, <1>3

LEMMA LeeL ==
  ASSUME LInv, IInv, NEW c \in Cortes(Head(cola)), rtnl_dump_filter(c),
         Llegan(Tail(cola), <<>>), restos' = (restos \/ c > 0), UNCHANGED rth
  PROVE  LInv'
<1>1. cola # <<>>
  BY DEF rtnl_dump_filter
<1>2. cola' = Tail(cola) /\ UNCHANGED so_error
  BY <1>1, Avanza, NadaLlega
<1>3. c = 0 \/ c > 0
  <2>1. DOMAIN Head(cola).msgs = 1..Len(Head(cola).msgs) /\ Len(Head(cola).msgs) \in Nat
    BY <1>1, Avanza
  <2> QED
    BY <2>1 DEF Cortes
<1> QED
  BY <1>2, <1>3, FiltraL

\* The answer stops rtnl_talk, and what it leaves is nothing; a caller that
\* wants no answer goes on to its acknowledgement.
LEMMA TalkL ==
  ASSUME LInv, IInv, rtnl_talk
  PROVE  LInv'
<1> DEFINE d == Head(cola)
           k == SelectInSeq(d.msgs, Para)
<1>1. /\ fase = "habla" /\ ~so_error' /\ cola # <<>> /\ cola' = Tail(cola)
      /\ UNCHANGED <<volcando, hablo, rth>>
      /\ fase' \in {"libre", "gira", "habla"}
      /\ restos => restos'
  BY DEF rtnl_talk, Devuelve
<1>2. d = cola[1] /\ 1 \in DOMAIN cola /\ d.msgs \in Seq(MensajesLib)
  BY <1>1, Avanza
<1>3. CASE restos'
  BY <1>1, <1>3, Sucia DEF Fases
<1>4. CASE ~restos'
  <2>1. EnHabla /\ ~rth'.grupos /\ volcando' = 0 /\ ~restos
    BY <1>1, <1>4 DEF LInv, EnHabla
  <2>2. Contesta(hablo.sec, d)
    BY <1>2, <2>1 DEF EnHabla
  <2>3. k # 0 => k \in DOMAIN d.msgs /\ Para(d.msgs[k]) /\ ~DeOtro(d.msgs[k])
    <3>1. k # 0 => k \in 1..Len(d.msgs) /\ Para(d.msgs[k])
      BY <1>2, PrimeroPara
    <3> HIDE DEF k
    <3>2. DOMAIN d.msgs = 1..Len(d.msgs)
      BY <1>2
    <3> QED
      BY <2>2, <3>1, <3>2 DEF Contesta, DeOtro
  <2>4. fase' # "gira"
    BY <1>1, <2>3 DEF rtnl_talk, Devuelve
  <2>5. CASE Len(cola) <= 1
    <3>1. cola' = <<>>
      BY <1>1, <2>5, Avanza
    <3> QED
      BY <1>1, <2>1, <2>4, <3>1, Vacia DEF Fases
  <2>6. CASE Len(cola) = 2
    <3>1. ~hablo.answer /\ SinFinal(d)
      BY <1>2, <2>1, <2>6 DEF EnHabla
    <3>2. k = 0
      <4> SUFFICES ASSUME k # 0 PROVE FALSE
        OBVIOUS
      <4>1. k \in DOMAIN d.msgs /\ Para(d.msgs[k]) /\ ~DeOtro(d.msgs[k])
        BY <2>3
      <4> HIDE DEF k
      <4>2. d.msgs[k].tipo = "NEWROUTE"
        BY <3>1, <4>1 DEF SinFinal
      <4> QED
        BY <3>1, <4>1, <4>2 DEF Para
    <3>3. UNCHANGED fase
      BY <1>4, <3>1, <3>2 DEF rtnl_talk
    <3>4. /\ Len(cola') = 1 /\ DOMAIN cola' = {1} /\ cola'[1] = cola[2] /\ 2 \in DOMAIN cola
      BY <1>1, <2>6, Avanza
    <3>5. Contesta(hablo.sec, cola[2])
      BY <2>1, <3>4 DEF EnHabla
    <3>6. \A i \in DOMAIN cola' : Contesta(hablo'.sec, cola'[i])
      BY <1>1, <3>4, <3>5
    <3>7. EnHabla'
      BY <2>1, <3>4, <3>6 DEF EnHabla, Contesta
    <3> QED
      BY <1>1, <1>4, <2>1, <3>3, <3>7 DEF LInv, Fases
  <2>7. Len(cola) <= 1 \/ Len(cola) = 2
    <3>1. Len(cola) \in Nat /\ Len(cola) <= 2
      BY <1>1, <2>1, Avanza DEF EnHabla
    <3>2. \A n \in Nat : n <= 2 => n <= 1 \/ n = 2
      OBVIOUS
    <3> QED
      BY <3>1, <3>2, Zenon
  <2> QED
    BY <2>5, <2>6, <2>7
<1> QED
  BY <1>3, <1>4

\* A listener reads only once something has been left for it.
LEMMA OyeL ==
  ASSUME LInv, IInv, NEW c \in Cortes(Head(cola)), rtnl_listen(c)
  PROVE  LInv'
<1>1. /\ fase = "escucha" /\ cola # <<>> /\ restos' = (restos \/ c > 0)
      /\ fase' \in {"escucha", "libre"}
  BY DEF rtnl_listen, Devuelve
<1>2. restos
  BY <1>1 DEF LInv, Limpio
<1> QED
  BY <1>1, <1>2, Sucia DEF Fases

LEMMA SobrepasaL ==
  ASSUME LInv, Sobrepasa
  PROVE  LInv'
BY DEF Sobrepasa, manejo, LInv, Limpio, EnVolcado, EnHabla, Contesta, SinFinal, Fases

\* The kernel goes on with a dump while it is asked for or read, and tells
\* nothing to a handle without subscriptions.
LEMMA VuelcaL ==
  ASSUME LInv, Vuelca
  PROVE  LInv'
<1>1. /\ volcando # 0 /\ cola = <<>> /\ ~so_error
      /\ UNCHANGED <<rth, fase, pedido, restos, hablo>>
  BY DEF Vuelca, manejo
<1>2. CASE restos
  BY <1>1, <1>2, Sucia DEF LInv
<1>3. CASE ~restos
  <2>1. (fase = "libre" /\ pedido) \/ fase = "filtra"
    BY <1>1, <1>3 DEF LInv, Limpio, EnHabla, Fases
  <2>2. CASE \E cs, c : /\ cola' = << [msgs |-> [k \in DOMAIN cs |-> Mensaje(TRUE, volcando, "NEWROUTE", cs[k])],
                                       corte |-> c] >>
                        /\ UNCHANGED so_error
    <3>1. PICK cs, c : cola' = << [msgs |-> [k \in DOMAIN cs |-> Mensaje(TRUE, volcando, "NEWROUTE", cs[k])],
                                   corte |-> c] >>
      BY <2>2
    <3> DEFINE e == [msgs |-> [k \in DOMAIN cs |-> Mensaje(TRUE, volcando, "NEWROUTE", cs[k])],
                     corte |-> c]
    <3>2. SinFinal(e)
      BY DEF SinFinal, Mensaje
    <3>3. cola' = <<e>>
      BY <3>1
    <3> HIDE DEF e
    <3>4. Len(<<e>>) <= 1 /\ <<e>>[1] = e
      OBVIOUS
    <3>5. EnVolcado'
      <4>1. Len(cola') <= 1 /\ cola'[1] = e
        BY <3>3, <3>4, Zenon
      <4>2. ~so_error'
        BY <1>1, <2>2
      <4> QED
        BY <3>2, <4>1, <4>2, Zenon DEF EnVolcado, SinFinal
    <3> QED
      BY <1>1, <1>3, <2>1, <3>5 DEF LInv, Fases
  <2>3. CASE volcando' = 0 /\ \E e : Llegan(cola, <<e>>)
    <3>1. PICK e : cola' = <<>> \/ cola' = <<e>>
      BY <1>1, <2>3, LlegaUna
    <3>2. Len(<<>>) <= 1 /\ Len(<<e>>) <= 1
      OBVIOUS
    <3>3. EnVolcado'
      BY <2>3, <3>1, <3>2 DEF EnVolcado
    <3> QED
      BY <1>1, <1>3, <2>1, <3>3 DEF LInv, Fases
  <2> QED
    BY <2>2, <2>3 DEF Vuelca
<1> QED
  BY <1>2, <1>3

LEMMA AvisaL ==
  ASSUME LInv, Avisa
  PROVE  LInv'
<1>1. rth.grupos /\ UNCHANGED <<fase, restos>>
  BY DEF Avisa, manejo
<1>2. restos
  BY <1>1 DEF LInv
<1> QED
  BY <1>1, <1>2, Sucia DEF LInv

LEMMA PasoL == IInv /\ LInv /\ [LibNext]_libvars => LInv'
<1> SUFFICES ASSUME IInv, LInv, [LibNext]_libvars
             PROVE  LInv'
  OBVIOUS
<1>1. CASE LibLlama
  <2>1. rth \in [seq : Nat, dump : Nat, grupos : BOOLEAN]
    BY DEF IInv, LibTipos
  <2> QED
    BY <1>1, <2>1, AbreL, EscuchaL, PideVolcadoL, HablaL, OrdenL DEF LibLlama
<1>2. CASE Lee
  BY <1>2, LeeL, OyeL, TalkL, SobrepasaL DEF Lee
<1>3. CASE Vuelca \/ Avisa
  BY <1>3, VuelcaL, AvisaL
<1>4. CASE UNCHANGED libvars
  BY <1>4 DEF libvars, nucleo, manejo, LInv, Limpio, EnVolcado, EnHabla, SinFinal, Contesta
<1> QED
  BY <1>1, <1>2, <1>3, <1>4 DEF LibNext

\* Whatever the calls, their order and what the kernel loses or refuses, as
\* long as no callback ended a call, no order sent without waiting failed and
\* no unwanted answer was cut, every call finds the queue as if it were the
\* first, and rtnl_talk does not turn for ever (libnetlink.c:107-314).
THEOREM NothingLeft == LibSpec => []ColaLimpia
<1>1. LInv => ColaLimpia
  BY DEF LInv, ColaLimpia, Limpio
<1>2. LibInit => IInv /\ LInv
  BY Inicio, InicioL
<1>3. (IInv /\ LInv) /\ [LibNext]_libvars => (IInv /\ LInv)'
  BY Paso, PasoL
<1> QED
  BY <1>1, <1>2, <1>3, PTL DEF LibSpec
----------------------------------------------------------------------------
(***************************************************************************)
(* A dump that is being read.  From its request to the end of its reading  *)
(* only the first datagram of the queue can hold something that the filter *)
(* takes for the dump: a piece of it, which is all that the kernel has     *)
(* delivered and the filter has not been given, or its end, when there is  *)
(* no such piece.  What else is there is of other requests or an error.    *)
(***************************************************************************)

\* A message the filter of dump n is given, or that ends its reading well.
DelVolcado(n, m) == m.mio /\ m.sec = n /\ m.tipo \notin {"ERROR", "ACK"}
Ajena(n, d) == \A i \in DOMAIN d.msgs : ~ DelVolcado(n, d.msgs[i])
Trozo(n, d) == \A i \in DOMAIN d.msgs : /\ d.msgs[i].mio /\ d.msgs[i].sec = n
                                        /\ d.msgs[i].tipo = "NEWROUTE"
Fin(d) == Len(d.msgs) = 1 /\ d.msgs[1].tipo = "DONE"
Carga(d) == [k \in DOMAIN d.msgs |-> d.msgs[k].dato]

Leyendo == pedido \/ fase = "filtra"
Dado == IF fase = "filtra" THEN visto ELSE <<>>

EnLectura ==
  /\ rth.dump # 0
  /\ \A i \in DOMAIN cola : i # 1 => Ajena(rth.dump, cola[i])
  /\ cola # <<>> => \/ Ajena(rth.dump, cola[1])
                    \/ Trozo(rth.dump, cola[1]) /\ enviado = Dado \o Carga(cola[1])
                    \/ Fin(cola[1]) /\ enviado = Dado /\ volcando = 0
  /\ volcando = rth.dump /\ (cola # <<>> => Ajena(rth.dump, cola[1])) => enviado = Dado

Entregado ==
  ret.op = "dump" /\ ret.valor = 0 /\ fase = "libre" /\ ~ pedido
    => visto = enviado /\ volcando = 0

Dichos == (UNION Tablas) \cup {SinCuerpo}

VInv ==
  /\ visto \in Seq(Dichos)
  /\ pedido => fase = "libre"
  /\ Leyendo => EnLectura
  /\ Entregado
\* What arrives of one datagram.
LEMMA LlegaOtra ==
  ASSUME NEW S, NEW resto \in Seq(S), NEW d \in S, Llegan(resto, <<d>>)
  PROVE  cola' = resto \/ cola' = Append(resto, d)
<1>1. CASE cola' = resto \o <<d>>
  BY <1>1
<1>2. CASE \E k \in 0..(Len(<<d>>) - 1) : cola' = resto \o SubSeq(<<d>>, 1, k)
  <2>1. PICK k \in 0..(Len(<<d>>) - 1) : cola' = resto \o SubSeq(<<d>>, 1, k)
    BY <1>2
  <2>2. k = 0
    BY <2>1
  <2>3. SubSeq(<<d>>, 1, k) = <<>>
    BY <2>2
  <2> QED
    BY <2>1, <2>3
<1> QED
  BY <1>1, <1>2 DEF Llegan

LEMMA InicioV == LibInit => VInv
BY DEF LibInit, VInv, Leyendo, Entregado, Nada

\* A step that reads no dump keeps it.
LEMMA SinLeer ==
  ASSUME visto' \in Seq(Dichos), ~ Leyendo', ~ (ret'.op = "dump" /\ fase' = "libre")
  PROVE  VInv'
BY DEF VInv, Leyendo, Entregado, Dichos

LEMMA AbreV ==
  ASSUME VInv, NEW g \in BOOLEAN, rtnl_open(g)
  PROVE  VInv'
<1>1. fase = "cerrado" /\ fase' # "filtra" /\ UNCHANGED <<visto, pedido>> /\ ret'.op = "open"
  <2> DEFINE n == [Nada EXCEPT !.op = "open", !.valor = -1]
  <2>1. n.op = "open"
    BY DEF Nada
  <2> HIDE DEF n
  <2>2. /\ fase = "cerrado" /\ UNCHANGED <<visto, pedido>>
        /\ \/ fase' = "libre" /\ ret' = [op |-> "open", valor |-> 0, dato |-> <<>>]
           \/ ret' = n /\ UNCHANGED fase
    BY DEF rtnl_open, Devuelve, n
  <2> QED
    BY <2>1, <2>2
<1> QED
  BY <1>1, SinLeer DEF VInv, Leyendo, Dichos

LEMMA EscuchaV ==
  ASSUME VInv, NEW b \in BOOLEAN, ~ pedido, llama_listen(b)
  PROVE  VInv'
<1>1. fase' = "escucha" /\ visto' = <<>> /\ UNCHANGED pedido
  BY DEF llama_listen
<1>2. <<>> \in Seq(Dichos)
  OBVIOUS
<1> QED
  BY <1>1, <1>2, SinLeer DEF Leyendo

LEMMA HablaV ==
  ASSUME VInv, ~ pedido, NEW clase, NEW a \in BOOLEAN, NEW b \in BOOLEAN, llama_talk(clase, a, b)
  PROVE  VInv'
<1>1. /\ fase' = "habla" \/ (fase' = "libre" /\ ret'.op = "talk")
      /\ visto' = <<>> /\ UNCHANGED pedido
  BY DEF llama_talk, Devuelve
<1>2. <<>> \in Seq(Dichos)
  OBVIOUS
<1> QED
  BY <1>1, <1>2, SinLeer DEF Leyendo

LEMMA EnviaV ==
  ASSUME VInv, ~ pedido, NEW secs, rtnl_send(secs)
  PROVE  VInv'
<1>1. fase = "libre" /\ fase' = "libre" /\ UNCHANGED <<visto, pedido>> /\ ret'.op = "send"
  BY DEF rtnl_send, Nada
<1> QED
  BY <1>1, SinLeer DEF VInv, Leyendo, Dichos

LEMMA OtrasV ==
  ASSUME VInv, IInv, rtnl_talk \/ \E c : rtnl_listen(c)
  PROVE  VInv'
<1>1. /\ fase \in {"habla", "escucha"} /\ UNCHANGED <<visto, pedido>>
      /\ fase' \in {fase, "gira"} \/ (fase' = "libre" /\ ret'.op \in {"talk", "listen"})
  BY DEF rtnl_talk, rtnl_listen, Devuelve
<1>2. ~ pedido
  BY <1>1 DEF VInv
<1> QED
  BY <1>1, <1>2, SinLeer DEF VInv, Leyendo, Dichos

\* What the reading says is of what it reads.
LEMMA IgualV ==
  ASSUME VInv, UNCHANGED <<cola, volcando, enviado, rth, visto, fase, pedido, ret>>
  PROVE  VInv'
<1>1. Leyendo' <=> Leyendo
  BY DEF Leyendo
<1>2. EnLectura' <=> EnLectura
  BY DEF EnLectura, Dado
<1> QED
  BY <1>1, <1>2 DEF VInv, Entregado

LEMMA LlamaV ==
  ASSUME VInv, NEW b \in BOOLEAN, llama_dump_filter(b)
  PROVE  VInv'
<1>1. /\ fase = "libre" /\ pedido /\ fase' = "filtra" /\ ~ pedido' /\ visto' = <<>>
      /\ UNCHANGED <<cola, volcando, enviado, rth>>
  BY DEF llama_dump_filter, nucleo
<1>2. <<>> \in Seq(Dichos)
  OBVIOUS
<1>3. EnLectura
  BY <1>1 DEF VInv, Leyendo
<1>4. Dado = <<>> /\ Dado' = <<>>
  BY <1>1 DEF Dado
<1>5. EnLectura'
  BY <1>1, <1>3, <1>4 DEF EnLectura
<1> QED
  BY <1>1, <1>2, <1>5 DEF VInv, Leyendo, Entregado, Dichos

LEMMA SobrepasaV ==
  ASSUME VInv, Sobrepasa
  PROVE  VInv'
BY IgualV DEF Sobrepasa, manejo

\* A datagram of something else arrives.
LEMMA CreceV ==
  ASSUME NEW S, NEW d, cola \in Seq(S), cola' = Append(cola, d), Ajena(rth.dump, d), EnLectura,
         UNCHANGED <<volcando, enviado, rth, visto, fase>>
  PROVE  EnLectura'
<1>2. Dado' = Dado
  BY DEF Dado
<1>3. /\ DOMAIN cola' = 1..(Len(cola) + 1) /\ Len(cola) \in Nat
      /\ \A i \in 1..Len(cola) : cola'[i] = cola[i]
      /\ cola'[Len(cola) + 1] = d /\ DOMAIN cola = 1..Len(cola)
      /\ cola' # <<>> /\ (cola = <<>> <=> Len(cola) = 0)
  <2>1. cola \in Seq(S \cup {d}) /\ d \in S \cup {d}
    OBVIOUS
  <2> QED
    BY <2>1, AppendProperties
<1>4. \A i \in DOMAIN cola' : i # 1 => Ajena(rth.dump, cola'[i])
  <2> SUFFICES ASSUME NEW i \in 1..(Len(cola) + 1), i # 1
               PROVE  Ajena(rth.dump, cola'[i])
    BY <1>3
  <2>1. CASE i = Len(cola) + 1
    BY <1>3, <2>1
  <2>2. CASE i \in 1..Len(cola)
    BY <1>3, <2>2 DEF EnLectura
  <2> QED
    BY <1>3, <2>1, <2>2
<1>5. CASE cola = <<>>
  <2>1. cola'[1] = d
    BY <1>3, <1>5
  <2> QED
    BY <1>2, <1>3, <1>4, <1>5, <2>1 DEF EnLectura
<1>6. CASE cola # <<>>
  <2>1. cola'[1] = cola[1]
    BY <1>3, <1>6
  <2> QED
    BY <1>2, <1>3, <1>4, <1>6, <2>1 DEF EnLectura
<1> QED
  BY <1>5, <1>6

LEMMA AvisaV ==
  ASSUME VInv, IInv, Avisa
  PROVE  VInv'
<1>1. PICK c, t : Llegan(cola, <<Datagrama(<<Mensaje(FALSE, 0, t, c)>>)>>)
  BY DEF Avisa
<1> DEFINE d == Datagrama(<<Mensaje(FALSE, 0, t, c)>>)
           S == DatagramasDe(Fiables) \cup {d}
<1>2. UNCHANGED <<volcando, enviado, rth, visto, fase, pedido, ret>>
  BY DEF Avisa, manejo
<1>3. Ajena(rth.dump, d)
  BY DEF Ajena, DelVolcado, Datagrama, Mensaje
<1>4. cola \in Seq(S) /\ d \in S
  <2>1. cola \in Seq(DatagramasDe(Fiables))
    BY DEF IInv, Cola
  <2> QED
    BY <2>1
<1> HIDE DEF d, S
<1>5. cola' = cola \/ cola' = Append(cola, d)
  BY <1>1, <1>4, LlegaOtra DEF d
<1>6. CASE cola' = cola
  BY <1>2, <1>6, IgualV
<1>7. CASE cola' = Append(cola, d)
  <2>1. Leyendo' => EnLectura'
    BY <1>2, <1>3, <1>4, <1>7, CreceV DEF VInv, Leyendo
  <2> QED
    BY <1>2, <2>1 DEF VInv, Entregado
<1> QED
  BY <1>5, <1>6, <1>7

\* No message of the queue bears a number not given yet, but an error.
LEMMA NingunaNueva ==
  ASSUME IInv, NEW n \in Nat, n > rth.seq, NEW i \in DOMAIN cola
  PROVE  Ajena(n, cola[i])
<1>1. cola[i].msgs \in Seq(Fiables)
  <2>1. cola[i] \in DatagramasDe(Fiables)
    <3>1. cola \in Seq(DatagramasDe(Fiables))
      BY DEF IInv, Cola
    <3> QED
      BY <3>1
  <2> QED
    BY <2>1 DEF DatagramasDe
<1>2. \A m \in Fiables : ~ DelVolcado(n, m)
  BY DEF Fiables, Fiable, MensajesLib, DelVolcado, IInv, LibTipos
<1> QED
  BY <1>1, <1>2 DEF Ajena

LEMMA PideV ==
  ASSUME VInv, IInv, ~ pedido, rtnl_dump_request
  PROVE  VInv'
<1> DEFINE sec == rth.seq + 1
<1>1. /\ fase = "libre" /\ fase' = "libre" /\ visto' = visto
      /\ rth' = [rth EXCEPT !.seq = sec, !.dump = sec]
      /\ \/ Acepta(sec) /\ pedido' = TRUE
         \/ pedido' = pedido
  BY DEF rtnl_dump_request
<1>2. ret'.op = "pide"
  BY DEF rtnl_dump_request, Nada
<1>3. sec \in Nat /\ sec > rth.seq /\ sec # 0 /\ volcando # sec
  BY DEF IInv, LibTipos, Numeros
<1>4. rth'.dump = sec
  <2>1. rth \in [seq : Nat, dump : Nat, grupos : BOOLEAN]
    BY DEF IInv, LibTipos
  <2> HIDE DEF sec
  <2> QED
    BY <1>1, <2>1
<1>5. CASE pedido' = pedido
  BY <1>1, <1>2, <1>5, SinLeer DEF Leyendo, VInv, Dichos
<1>6. CASE Acepta(sec) /\ pedido'
  <2>1. \A i \in DOMAIN cola : Ajena(sec, cola[i])
    BY <1>3, NingunaNueva
  <2>2. Dado' = <<>>
    BY <1>1 DEF Dado
  <2>3. CASE volcando' = sec /\ enviado' = <<>> /\ UNCHANGED cola
    <3>1. cola # <<>> => 1 \in DOMAIN cola
      BY DEF IInv, Cola
    <3>2. EnLectura'
      <4> HIDE DEF sec
      <4> QED
        BY <1>3, <1>4, <2>1, <2>2, <2>3, <3>1 DEF EnLectura
    <3> QED
      BY <1>1, <1>2, <3>2 DEF VInv, Entregado
  <2>4. CASE UNCHANGED <<volcando, enviado>> /\ Llegan(cola, <<Acuse(sec, "ERROR")>>)
    <3> DEFINE d == Acuse(sec, "ERROR")
               S == DatagramasDe(Fiables) \cup {d}
    <3>1. cola \in Seq(S) /\ d \in S
      <4>1. cola \in Seq(DatagramasDe(Fiables))
        BY DEF IInv, Cola
      <4> QED
        BY <4>1
    <3>2. Ajena(sec, d)
      BY DEF Ajena, DelVolcado, Acuse, Datagrama, Mensaje
    <3> HIDE DEF d, S
    <3>3. cola' = cola \/ cola' = Append(cola, d)
      BY <2>4, <3>1, LlegaOtra DEF d
    <3>4. \A i \in DOMAIN cola' : Ajena(sec, cola'[i])
      <4>1. CASE cola' = cola
        BY <2>1, <4>1
      <4>2. CASE cola' = Append(cola, d)
        <5>1. /\ DOMAIN cola' = 1..(Len(cola) + 1) /\ DOMAIN cola = 1..Len(cola) /\ Len(cola) \in Nat
              /\ \A i \in 1..Len(cola) : cola'[i] = cola[i]
              /\ cola'[Len(cola) + 1] = d
          BY <3>1, <4>2, AppendProperties
        <5> SUFFICES ASSUME NEW i \in 1..(Len(cola) + 1)
                     PROVE  Ajena(sec, cola'[i])
          BY <5>1
        <5>2. i \in 1..Len(cola) \/ i = Len(cola) + 1
          BY <5>1
        <5> HIDE DEF sec
        <5> QED
          BY <2>1, <3>2, <5>1, <5>2
      <4> QED
        BY <3>3, <4>1, <4>2
    <3>5. cola' # <<>> => 1 \in DOMAIN cola'
      BY <3>1, <3>3
    <3>6. EnLectura'
      <4> HIDE DEF sec
      <4> QED
        BY <1>3, <1>4, <2>2, <2>4, <3>4, <3>5 DEF EnLectura
    <3> QED
      BY <1>1, <1>2, <3>6 DEF VInv, Entregado
  <2> QED
    BY <1>6, <2>3, <2>4 DEF Acepta
<1> QED
  BY <1>1, <1>5, <1>6

\* The kernel delivers another piece of the dump, or its end, once the queue
\* has been read.
LEMMA VuelcaV ==
  ASSUME VInv, IInv, Vuelca
  PROVE  VInv'
<1>1. /\ volcando # 0 /\ cola = <<>>
      /\ UNCHANGED <<rth, visto, fase, pedido, ret>>
  BY DEF Vuelca, manejo
<1>2. Entregado'
  BY <1>1 DEF VInv, Entregado
<1>3. Dado' = Dado
  BY <1>1 DEF Dado
<1>4. ASSUME EnLectura PROVE EnLectura'
  <2>1. CASE \E cs \in BoundedSeq(rutas, 2) \ {<<>>}, c \in {"no", "justo", "medio"} :
               /\ cola' = << [msgs |-> [k \in DOMAIN cs |-> Mensaje(TRUE, volcando, "NEWROUTE", cs[k])],
                              corte |-> c] >>
               /\ enviado' = enviado \o cs /\ UNCHANGED volcando
    <3>1. PICK cs \in BoundedSeq(rutas, 2) \ {<<>>}, c \in {"no", "justo", "medio"} :
               /\ cola' = << [msgs |-> [k \in DOMAIN cs |-> Mensaje(TRUE, volcando, "NEWROUTE", cs[k])],
                              corte |-> c] >>
               /\ enviado' = enviado \o cs /\ UNCHANGED volcando
      BY <2>1
    <3> DEFINE d == [msgs |-> [k \in DOMAIN cs |-> Mensaje(TRUE, volcando, "NEWROUTE", cs[k])],
                     corte |-> c]
    <3>2. cs \in Seq(rutas) /\ cs # <<>>
      <4>1. PICK n \in 0..2 : cs \in [1..n -> rutas]
        BY DEF BoundedSeq, SeqOf
      <4> QED
        BY <4>1
    <3>3. 1 \in DOMAIN d.msgs /\ \A k \in DOMAIN d.msgs : /\ d.msgs[k].mio /\ d.msgs[k].sec = volcando
                                  /\ d.msgs[k].tipo = "NEWROUTE" /\ d.msgs[k].dato = cs[k]
      BY <3>2 DEF Mensaje
    <3>4. Carga(d) = cs
      <4>1. DOMAIN d.msgs = DOMAIN cs /\ cs = [k \in DOMAIN cs |-> cs[k]]
        BY <3>2
      <4> HIDE DEF d
      <4> QED
        BY <3>3, <4>1 DEF Carga
    <3>5. Trozo(volcando, d)
      BY <3>3 DEF Trozo
    <3> HIDE DEF d
    <3>6. \A n : Ajena(n, d) <=> n # volcando
      BY <3>3 DEF Ajena, DelVolcado
    <3>7. cola' = <<d>> /\ DOMAIN cola' = {1} /\ cola'[1] = d /\ cola' # <<>>
      BY <3>1 DEF d
    <3>8. CASE volcando = rth.dump
      <4>1. enviado' = Dado \o Carga(d)
        BY <1>1, <1>4, <3>1, <3>4, <3>8 DEF EnLectura
      <4> QED
        BY <1>1, <1>3, <1>4, <3>1, <3>5, <3>6, <3>7, <3>8, <4>1 DEF EnLectura
    <3>9. CASE volcando # rth.dump
      BY <1>1, <1>3, <1>4, <3>1, <3>6, <3>7, <3>9 DEF EnLectura
    <3> QED
      BY <3>8, <3>9
  <2>2. CASE /\ Llegan(cola, <<Datagrama(<<Mensaje(TRUE, volcando, "DONE", SinCuerpo)>>)>>)
             /\ volcando' = 0 /\ UNCHANGED enviado
    <3> DEFINE d == Datagrama(<<Mensaje(TRUE, volcando, "DONE", SinCuerpo)>>)
    <3>1. Fin(d) /\ \A n : n # volcando => Ajena(n, d)
      BY DEF Fin, Ajena, DelVolcado, Datagrama, Mensaje
    <3> HIDE DEF d
    <3>2. cola' = <<>> \/ cola' = <<d>>
      BY <1>1, <2>2, LlegaUna DEF d
    <3>3. CASE cola' = <<>>
      BY <1>1, <1>4, <2>2, <3>3 DEF EnLectura
    <3>4. CASE cola' = <<d>>
      <4>1. DOMAIN cola' = {1} /\ cola'[1] = d /\ cola' # <<>>
        BY <3>4
      <4>2. volcando = rth.dump => enviado = Dado
        BY <1>1, <1>4 DEF EnLectura
      <4> QED
        BY <1>1, <1>3, <1>4, <2>2, <3>1, <4>1, <4>2 DEF EnLectura
    <3> QED
      BY <3>2, <3>3, <3>4
  <2> QED
    BY <2>1, <2>2 DEF Vuelca
<1> QED
  BY <1>1, <1>2, <1>4 DEF VInv, Leyendo

\* What the filter is given of each datagram, when no callback ends the call.
LEMMA FiltraTipo ==
  ASSUME NEW d \in DatagramasDe(MensajesLib), NEW c
  PROVE  Filtrado(d, c).dados \in Seq(Dichos)
<1> DEFINE ms == d.msgs
           paran == {i \in DOMAIN ms : i = c \/ (Propio(ms[i]) /\ ms[i].tipo \in Finales)}
           i0 == IF paran = {} THEN Len(ms) + 1 ELSE Min(paran)
           r == SubSeq(ms, 1, IF i0 < Len(ms) THEN i0 ELSE Len(ms))
           S == {m \in Range(ms) : Propio(m) /\ m.tipo \notin Finales}
           q == Escoge(r, S)
<1>1. ms \in Seq(MensajesLib) /\ DOMAIN ms = 1..Len(ms) /\ Len(ms) \in Nat
  BY DEF DatagramasDe
<1>2. i0 \in Nat
  <2>1. paran # {} => Min(paran) \in Nat
    <3>1. paran \subseteq Nat
      BY <1>1
    <3> HIDE DEF paran
    <3> QED
      BY <3>1, HayMenor
  <2> QED
    BY <1>1, <2>1
<1>3. r \in Seq(MensajesLib)
  <2> HIDE DEF i0, ms
  <2> QED
    BY <1>1, <1>2
<1>4. q \in Seq(MensajesLib)
  <2> HIDE DEF r, S
  <2> QED
    BY <1>3, EscogeTipo
<1>5. Filtrado(d, c).dados = [k \in DOMAIN q |-> q[k].dato]
  BY DEF Filtrado
<1> HIDE DEF q
<1>6. \A m \in MensajesLib : m.dato \in Dichos
  BY DEF MensajesLib, Dichos
<1> QED
  BY <1>4, <1>5, <1>6

LEMMA FiltraAjena ==
  ASSUME NEW d \in DatagramasDe(MensajesLib), NEW c, Ajena(rth.dump, d)
  PROVE  Filtrado(d, c).dados = <<>> /\ Filtrado(d, c).valor # 0
<1> DEFINE ms == d.msgs
           paran == {i \in DOMAIN ms : i = c \/ (Propio(ms[i]) /\ ms[i].tipo \in Finales)}
           i0 == IF paran = {} THEN Len(ms) + 1 ELSE Min(paran)
           r == SubSeq(ms, 1, IF i0 < Len(ms) THEN i0 ELSE Len(ms))
           S == {m \in Range(ms) : Propio(m) /\ m.tipo \notin Finales}
           q == Escoge(r, S)
<1>1. ms \in Seq(MensajesLib) /\ DOMAIN ms = 1..Len(ms) /\ Len(ms) \in Nat
  BY DEF DatagramasDe
<1>2. paran # {} => Min(paran) \in paran
  <2>1. paran \subseteq Nat
    BY <1>1
  <2> HIDE DEF paran
  <2> QED
    BY <2>1, HayMenor
<1>3. i0 \in Nat
  BY <1>1, <1>2
<1>4. \A m \in S : \E i \in DOMAIN ms : m = ms[i] /\ FALSE
  BY DEF Range, Ajena, DelVolcado, Propio, Finales
<1>5. S = {}
  BY <1>4
<1>6. r \in Seq(MensajesLib)
  <2> HIDE DEF i0, ms
  <2> QED
    BY <1>1, <1>3
<1>7. q = <<>>
  <2> HIDE DEF r, S
  <2> QED
    BY <1>5, <1>6, EscogeNinguno
<1>8. Filtrado(d, c).dados = [k \in DOMAIN q |-> q[k].dato]
  BY DEF Filtrado
<1>9. Filtrado(d, c).valor = IF paran # {} /\ i0 # c /\ ms[i0].tipo = "DONE" THEN 0 ELSE -1
  BY DEF Filtrado
<1>10. ~ (paran # {} /\ i0 # c /\ ms[i0].tipo = "DONE")
  <2> SUFFICES ASSUME paran # {}, i0 # c, ms[i0].tipo = "DONE" PROVE FALSE
    OBVIOUS
  <2>1. i0 \in paran
    BY <1>2
  <2> HIDE DEF i0
  <2>2. i0 \in DOMAIN ms /\ Propio(ms[i0])
    BY <2>1
  <2> QED
    BY <2>2 DEF Ajena, DelVolcado, Propio
<1> HIDE DEF q, i0, paran, ms
<1> QED
  BY <1>7, <1>8, <1>9, <1>10

LEMMA FiltraTrozo ==
  ASSUME NEW d \in DatagramasDe(MensajesLib), Trozo(rth.dump, d)
  PROVE  /\ Filtrado(d, 0).dados = Carga(d) /\ ~ Filtrado(d, 0).vuelve
         /\ \A c : Filtrado(d, c).valor # 0
<1> DEFINE ms == d.msgs
           paran(c) == {i \in DOMAIN ms : i = c \/ (Propio(ms[i]) /\ ms[i].tipo \in Finales)}
           i0(c) == IF paran(c) = {} THEN Len(ms) + 1 ELSE Min(paran(c))
           r == SubSeq(ms, 1, IF i0(0) < Len(ms) THEN i0(0) ELSE Len(ms))
           S == {m \in Range(ms) : Propio(m) /\ m.tipo \notin Finales}
           q == Escoge(r, S)
<1>1. ms \in Seq(MensajesLib) /\ DOMAIN ms = 1..Len(ms) /\ Len(ms) \in Nat
  BY DEF DatagramasDe
<1>2. \A i \in DOMAIN ms : ms[i].tipo \notin Finales /\ ms[i].tipo # "DONE" /\ Propio(ms[i])
  BY DEF Trozo, Finales, Propio
<1>3. paran(0) = {}
  BY <1>1, <1>2
<1>4. r = ms
  <2>1. i0(0) = Len(ms) + 1
    BY <1>3
  <2>2. r = SubSeq(ms, 1, Len(ms))
    <3> HIDE DEF i0, ms
    <3> QED
      BY <1>1, <2>1
  <2> HIDE DEF r, ms
  <2> QED
    BY <1>1, <2>2, SubSeqFull
<1>5. q = ms
  <2>1. \A n \in 1..Len(ms) : ms[n] \in S
    BY <1>1, <1>2 DEF Range
  <2> HIDE DEF r, ms, S
  <2> QED
    BY <1>1, <1>4, <2>1, EscogeTodos
<1>6. Filtrado(d, 0).dados = [k \in DOMAIN q |-> q[k].dato] /\ Filtrado(d, 0).vuelve = (paran(0) # {})
  BY DEF Filtrado
<1>7. \A c : Filtrado(d, c).valor # 0
  <2> SUFFICES ASSUME NEW c PROVE Filtrado(d, c).valor # 0
    OBVIOUS
  <2>1. Filtrado(d, c).valor = IF paran(c) # {} /\ i0(c) # c /\ ms[i0(c)].tipo = "DONE" THEN 0 ELSE -1
    BY DEF Filtrado
  <2>2. paran(c) # {} => i0(c) \in DOMAIN ms
    <3>1. paran(c) \subseteq Nat /\ paran(c) \subseteq DOMAIN ms
      BY <1>1
    <3> HIDE DEF paran
    <3> QED
      BY <3>1, HayMenor
  <2> HIDE DEF paran, i0, ms
  <2> QED
    BY <1>2, <2>1, <2>2
<1> HIDE DEF q, paran
<1> QED
  BY <1>3, <1>5, <1>6, <1>7 DEF Carga

LEMMA FiltraFin ==
  ASSUME NEW d \in DatagramasDe(MensajesLib), NEW c, Fin(d)
  PROVE  Filtrado(d, c).dados = <<>>
<1> DEFINE ms == d.msgs
           paran == {i \in DOMAIN ms : i = c \/ (Propio(ms[i]) /\ ms[i].tipo \in Finales)}
           i0 == IF paran = {} THEN Len(ms) + 1 ELSE Min(paran)
           r == SubSeq(ms, 1, IF i0 < Len(ms) THEN i0 ELSE Len(ms))
           S == {m \in Range(ms) : Propio(m) /\ m.tipo \notin Finales}
           q == Escoge(r, S)
<1>1. ms \in Seq(MensajesLib) /\ DOMAIN ms = 1..Len(ms) /\ Len(ms) = 1 /\ ms[1].tipo = "DONE"
  BY DEF DatagramasDe, Fin
<1>2. S = {}
  BY <1>1 DEF Range, Finales
<1>3. i0 \in Nat
  <2>1. paran # {} => Min(paran) \in Nat
    <3>1. paran \subseteq Nat
      BY <1>1
    <3> HIDE DEF paran
    <3> QED
      BY <3>1, HayMenor
  <2> QED
    BY <1>1, <2>1
<1>4. r \in Seq(MensajesLib)
  <2> HIDE DEF i0, ms
  <2> QED
    BY <1>1, <1>3
<1>5. q = <<>>
  <2> HIDE DEF r, S
  <2> QED
    BY <1>2, <1>4, EscogeNinguno
<1>6. Filtrado(d, c).dados = [k \in DOMAIN q |-> q[k].dato]
  BY DEF Filtrado
<1> HIDE DEF q
<1> QED
  BY <1>5, <1>6

\* Datagrams with nothing that a dump that is being read waits for.
Ajenos == {e \in DatagramasDe(MensajesLib) : Ajena(rth.dump, e)}

\* After the first one they are all such, and so is an error.
LEMMA RestoAjeno ==
  ASSUME VInv, IInv, fase = "filtra", cola # <<>>
  PROVE  Tail(cola) \in Seq(Ajenos)
<1>1. EnLectura /\ cola \in Seq(DatagramasDe(MensajesLib))
  BY Avanza DEF VInv, Leyendo
<1>2. \A i \in 1 .. Len(cola) - 1 : Tail(cola)[i] = cola[i + 1] /\ Ajena(rth.dump, cola[i + 1])
  BY <1>1 DEF EnLectura
<1>3. /\ Len(Tail(cola)) = Len(cola) - 1 /\ Len(cola) - 1 \in Nat
      /\ Tail(cola) \in Seq(DatagramasDe(MensajesLib))
  BY <1>1
<1> DEFINE t == Tail(cola)
<1>4. \A i \in 1 .. Len(t) : t[i] \in Ajenos
  <2>1. \A i \in 1 .. Len(t) : t[i] \in DatagramasDe(MensajesLib)
    <3> HIDE DEF t
    <3> QED
      BY <1>3 DEF t
  <2> QED
    BY <1>2, <1>3, <2>1 DEF Ajenos
<1> HIDE DEF t
<1>5. t \in Seq(DatagramasDe(MensajesLib))
  BY <1>3 DEF t
<1>6. t \in Seq(Ajenos)
  BY <1>4, <1>5
<1> QED
  BY <1>6 DEF t

LEMMA ErrorAjeno ==
  ASSUME NEW n \in Nat
  PROVE  Acuse(n, "ERROR") \in Ajenos
<1>1. Acuse(n, "ERROR") \in DatagramasDe(MensajesLib)
  BY ErroresCaben
<1>2. Ajena(rth.dump, Acuse(n, "ERROR"))
  BY DEF Ajena, DelVolcado, Acuse, Datagrama, Mensaje
<1> QED
  BY <1>1, <1>2 DEF Ajenos

\* A turn of the loop gives the filter what was not given yet.
LEMMA FiltraV ==
  ASSUME VInv, IInv, NEW c, c = 0 \/ c \in DOMAIN Head(cola).msgs, rtnl_dump_filter(c),
         rth'.dump = rth.dump, cola' \in Seq(Ajenos)
  PROVE  VInv'
<1> DEFINE d == Head(cola)
           f == Filtrado(d, c)
<1>1. /\ fase = "filtra" /\ cola # <<>> /\ visto' = visto \o f.dados
      /\ UNCHANGED <<volcando, enviado, pedido>>
      /\ \/ f.vuelve /\ fase' = "libre" /\ ret'.op = "dump" /\ ret'.valor = f.valor
         \/ ~ f.vuelve /\ fase' = "filtra"
  BY DEF rtnl_dump_filter, Devuelve
<1>2. /\ d = cola[1] /\ 1 \in DOMAIN cola /\ d \in DatagramasDe(MensajesLib)
      /\ \A i \in DOMAIN cola' : Ajena(rth.dump, cola'[i])
      /\ cola' # <<>> => 1 \in DOMAIN cola'
  <2>1. cola \in Seq(DatagramasDe(MensajesLib)) /\ d = cola[1] /\ 1 \in DOMAIN cola
    BY <1>1, Avanza
  <2>2. \A i \in DOMAIN cola' : Ajena(rth.dump, cola'[i])
    BY DEF Ajenos
  <2> HIDE DEF d
  <2> QED
    BY <2>1, <2>2
<1> HIDE DEF d
<1>3. ~ pedido /\ EnLectura /\ Dado = visto /\ visto \in Seq(Dichos)
  BY <1>1 DEF VInv, Leyendo, Dado, Dichos
<1>4. f.dados \in Seq(Dichos)
  BY <1>2, FiltraTipo
<1>6. \/ Ajena(rth.dump, d)
      \/ Trozo(rth.dump, d) /\ enviado = visto \o Carga(d)
      \/ Fin(d) /\ enviado = visto /\ volcando = 0
  BY <1>1, <1>2, <1>3 DEF EnLectura
<1>7. Ajena(rth.dump, d) => f.dados = <<>> /\ f.valor # 0
  BY <1>2, FiltraAjena
<1>8. Trozo(rth.dump, d) => f.valor # 0 /\ (c = 0 => f.dados = Carga(d))
  BY <1>2, FiltraTrozo
<1>9. Fin(d) => f.dados = <<>>
  BY <1>2, FiltraFin
<1>10. ~ f.vuelve => c = 0
  <2>1. c = 0 \/ c \in DOMAIN d.msgs
    BY DEF d
  <2>2. c \in DOMAIN d.msgs => f.vuelve
    BY DEF Filtrado
  <2> QED
    BY <2>1, <2>2
<1> HIDE DEF f
<1>11. visto \o <<>> = visto /\ visto' \in Seq(Dichos)
  BY <1>1, <1>3, <1>4
<1>12. CASE fase' = "libre"
  <2>1. ret'.valor = 0 => visto' = enviado /\ volcando = 0
    BY <1>1, <1>6, <1>7, <1>8, <1>9, <1>11, <1>12
  <2> QED
    BY <1>1, <1>3, <1>11, <1>12, <2>1 DEF VInv, Leyendo, Entregado, Dichos
<1>13. CASE fase' = "filtra"
  <2>1. c = 0 /\ Dado' = visto'
    BY <1>1, <1>10, <1>13 DEF Dado
  <2>3. volcando = rth.dump => enviado = visto'
    <3>1. CASE Ajena(rth.dump, d)
      BY <1>1, <1>2, <1>3, <1>7, <1>11, <3>1 DEF EnLectura
    <3>2. CASE Trozo(rth.dump, d) /\ enviado = visto \o Carga(d)
      BY <1>1, <1>8, <2>1, <3>2
    <3>3. CASE Fin(d) /\ enviado = visto /\ volcando = 0
      BY <1>3, <3>3 DEF EnLectura
    <3> QED
      BY <1>6, <3>1, <3>2, <3>3
  <2>4. EnLectura'
    BY <1>1, <1>2, <1>3, <2>1, <2>3 DEF EnLectura
  <2> QED
    BY <1>1, <1>3, <1>11, <1>13, <2>4 DEF VInv, Leyendo, Entregado, Dichos
<1> QED
  BY <1>1, <1>12, <1>13

LEMMA LeeV ==
  ASSUME VInv, IInv, NEW c \in Cortes(Head(cola)), rtnl_dump_filter(c),
         Llegan(Tail(cola), <<>>), UNCHANGED rth
  PROVE  VInv'
<1>1. fase = "filtra" /\ cola # <<>>
  BY DEF rtnl_dump_filter
<1>2. cola' \in Seq(Ajenos)
  BY <1>1, RestoAjeno, NadaLlega
<1> QED
  BY <1>2, FiltraV DEF Cortes

LEMMA PasoV == IInv /\ VInv /\ [LibNext]_libvars => VInv'
<1> SUFFICES ASSUME IInv, VInv, [LibNext]_libvars
             PROVE  VInv'
  OBVIOUS
<1>1. CASE LibLlama
  BY <1>1, AbreV, LlamaV, EscuchaV, PideV, HablaV, EnviaV DEF LibLlama
<1>2. CASE Lee
  BY <1>2, LeeV, OtrasV, SobrepasaV DEF Lee
<1>3. CASE Vuelca \/ Avisa
  BY <1>3, VuelcaV, AvisaV
<1>4. CASE UNCHANGED libvars
  BY <1>4, IgualV DEF libvars, nucleo, manejo
<1> QED
  BY <1>1, <1>2, <1>3, <1>4 DEF LibNext

\* A dump read to its end gave the filter all that the kernel delivered of it,
\* in order and nothing else, whatever other messages, errors and losses there
\* were in between (libnetlink.c:107-219).
THEOREM CompleteList == LibSpec => []ListaCompleta
<1>1. VInv => ListaCompleta
  BY DEF VInv, Entregado, ListaCompleta
<1>2. LibInit => IInv /\ VInv
  BY Inicio, InicioV
<1>3. (IInv /\ VInv) /\ [LibNext]_libvars => (IInv /\ VInv)'
  BY Paso, PasoV
<1> QED
  BY <1>1, <1>2, <1>3, PTL DEF LibSpec
---------------------------------------------------------------------------
(***************************************************************************)
(* The listings of esp2008.  What a buffer holds is the beginning of what  *)
(* came from its socket: all of it until a datagram comes behind a recv    *)
(* that failed or the buffer is full, and the total then says how much but *)
(* for one byte of each failure.  What came is all that was sent but for   *)
(* one datagram, that still in the queue.  Nothing comes to a reader that  *)
(* has no socket, so that the process dies with nothing read.              *)
(***************************************************************************)

Enviables == Indices \X (Datos \cup {NombreIF})
Leibles == (Indices \X (Datos \cup {NombreIF, Alterado})) \cup {ERROR}
Puntos == {"abre", "pide", "recibe", "lee", "linea", "cierra", "fin"}
Totales == {t \in Int : t <= BUFSIZE}
Bufer == [msgs : Seq(Leibles), total : Totales, fallos : Nat, corrido : BOOLEAN]

\* Of the messages e sent, r have been received into buffer b.
Recibido(b, e, r) ==
  /\ Len(b.msgs) <= r
  /\ \A k \in 1..Len(b.msgs) :
       \/ b.msgs[k] = e[k]
       \/ b.corrido /\ k = Len(b.msgs) /\ b.msgs[k] = <<e[k][1], Alterado>>
  /\ b.corrido => b.fallos > 0
  /\ b.fallos <= MaxFallos \/ Len(b.msgs) = 0
  /\ ~ b.corrido /\ b.total < BUFSIZE => Len(b.msgs) = r /\ b.total = Largo * r - b.fallos

\* The rest is the datagram in the queue q, if it is not the end.
Resto1(q, e, r) ==
  \/ q \in {<<>>, <<<<DONE>>>>} /\ r = Len(e)
  \/ \E a, d \in Seq(Enviables) : d # <<>> /\ q = <<d>> /\ e = a \o d /\ r = Len(a)

Fiel(z) == \E r \in Nat : Recibido(buf[z], mandado[z], r) /\ Resto1(ecola[z], mandado[z], r)
Mudo(z) ==
  /\ ep = "recibe" /\ Zocalo = z /\ ~ eerror[z]
  /\ \/ ecola[z] = <<>>
     \/ ecola[z] = <<<<ERROR>>>> /\ buf[z].total = 0 /\ buf[z].fallos = 0
Quieto(z) == ecola[z] = <<>> /\ eresto[z] = "nada"

EspTipos ==
  /\ ep \in Puntos /\ abiertos \subseteq Zocalos /\ ii \in Nat /\ lineas \in Seq(Leibles)
  /\ ecola \in [Zocalos -> Seq(Seq(Leibles \cup {DONE}))]
  /\ eresto \in [Zocalos -> {"nada", "volcado", "mudo"}]
  /\ eerror \in [Zocalos -> BOOLEAN]
  /\ mandado \in [Zocalos -> Seq(Enviables)]
  /\ buf \in [Zocalos -> Bufer]

\* Nothing comes to a reader that got no socket.
SinZocalo ==
  ep = "recibe" /\ Zocalo \notin abiertos =>
    Quieto(Zocalo) /\ ~ eerror[Zocalo] /\ mandado[Zocalo] = <<>>

EspControl ==
  /\ ii > 0 => ii <= Len(buf[1].msgs) /\ programa = "ex1"
  /\ ep = "linea" => ii > 0 /\ ip = UltimaDe(Legibles(buf[2]), buf[1].msgs[ii][1])
  /\ ep \in {"cierra", "fin"} => ii = 0
  /\ ep \in {"abre", "pide"} => Quieto(Zocalo) /\ ~ eerror[Zocalo]
  /\ ii = 0 \/ ep = "linea" => Quieto(2) /\ ~ eerror[2]
  /\ ep = "recibe" => buf[Zocalo].total < BUFSIZE
  /\ SinZocalo

LecturaDe(z) ==
  /\ IF eresto[z] = "mudo" THEN Mudo(z) ELSE Fiel(z)
  /\ ecola[z] = <<<<DONE>>>> => eresto[z] = "nada"
  /\ eerror[z] => buf[z].fallos < MaxFallos
  /\ Leido(z) => buf[z].total = BUFSIZE \/ Quieto(z)

EInv == EspTipos /\ EspControl /\ \A z \in Zocalos : LecturaDe(z)

\* The invariant: that, for as long as the process lives.
Muerto == ep = "muerto" /\ abiertos = {}
EVive == Muerto \/ EInv

LEMMA Caben ==
  ASSUME NEW x \in Nat, NEW L \in Nat \ {0}, NEW q \in Nat, L * q < x
  PROVE  q <= x \div L
<1> DEFINE c == x \div L
<1>1. c \in Nat /\ x < L * c + L
  BY SMTT(30)
<1> HIDE DEF c
<1>2. ASSUME c < q PROVE FALSE
  <2>1. c + 1 <= q
    BY <1>1, <1>2
  <2>2. L * (c + 1) <= L * q
    BY <1>1, <2>1, SMTT(30)
  <2>3. L * (c + 1) = L * c + L
    BY <1>1, SMTT(30)
  <2> QED
    BY <1>1, <2>2, <2>3, SMTT(30)
<1> QED
  BY <1>1, <1>2 DEF c

LEMMA Enteros ==
  ASSUME NEW x \in Nat, NEW L \in Nat \ {0}, NEW q \in Nat
  PROVE  x \div L \in Nat /\ L * q \in Nat
BY SMTT(30)

LEMMA Distribuye ==
  ASSUME NEW L \in Nat, NEW a \in Nat, NEW d \in Nat
  PROVE  L * (a + d) = L * a + L * d /\ L * a \in Nat /\ L * d \in Nat
BY SMTT(30)

\* A total that f < L failed recvs left short has lost one message at most.
LEMMA Alcanza ==
  ASSUME NEW L \in Nat \ {0}, NEW n \in Nat, NEW f \in Nat, f < L
  PROVE  /\ (L * n - f) \div L \in Int /\ n - 1 <= (L * n - f) \div L
         /\ f = 0 => n <= (L * n - f) \div L
<1> DEFINE x == L * n - f
           c == x \div L
<1>1. x \in Int /\ L * n \in Nat
  BY Enteros, SMTT(30)
<1>2. c \in Int /\ x < L * c + L
  <2> HIDE DEF x
  <2> QED
    BY <1>1, SMTT(30)
<1> HIDE DEF c
<1>3. ASSUME c < n - 1 PROVE FALSE
  <2>1. c + 2 <= n
    BY <1>2, <1>3
  <2>2. L * (c + 2) <= L * n
    BY <1>2, <2>1, SMTT(30)
  <2>3. L * (c + 2) = L * c + 2 * L
    BY <1>2, SMTT(30)
  <2> QED
    BY <1>1, <1>2, <2>2, <2>3, SMTT(30) DEF x
<1>4. ASSUME f = 0, c < n PROVE FALSE
  <2>1. c + 1 <= n
    BY <1>2, <1>4
  <2>2. L * (c + 1) <= L * n
    BY <1>2, <2>1, SMTT(30)
  <2>3. L * (c + 1) = L * c + L
    BY <1>2, SMTT(30)
  <2> QED
    BY <1>1, <1>2, <1>4, <2>2, <2>3, SMTT(30) DEF x
<1>5. n - 1 <= c /\ (f = 0 => n <= c)
  BY <1>2, <1>3, <1>4
<1> QED
  BY <1>2, <1>5 DEF c

LEMMA Distintos ==
  /\ DONE # ERROR /\ DONE \notin Leibles
  /\ Enviables \subseteq Leibles /\ \A m \in Enviables : m # DONE /\ m # ERROR
<1>1. Len(DONE) = 1 /\ Len(ERROR) = 1 /\ DONE[1] = "DONE" /\ ERROR[1] = "ERROR"
  BY DEF DONE, ERROR
<1>2. \A i, x : Len(<<i, x>>) = 2
  OBVIOUS
<1>3. \A m \in Indices \X (Datos \cup {NombreIF, Alterado}) : Len(m) = 2
  BY <1>2
<1> QED
  BY <1>1, <1>3 DEF Enviables, Leibles

LEMMA BuferVacio == Vacio \in Bufer /\ Vacio.total = 0 /\ Vacio.fallos = 0 /\ 0 < BUFSIZE
<1>1. 0 \in Totales /\ 0 < BUFSIZE
  BY EspAssumption DEF Totales
<1>2. Vacio = [msgs |-> <<>>, total |-> 0, fallos |-> 0, corrido |-> FALSE]
  BY DEF Vacio
<1>3. Vacio \in Bufer
  BY <1>1, <1>2 DEF Bufer
<1>4. Vacio.total = 0 /\ Vacio.fallos = 0
  BY <1>2
<1> QED
  BY <1>1, <1>3, <1>4

LEMMA SumaTipo ==
  ASSUME NEW b \in Bufer, NEW d, Len(d) \in Nat
  PROVE  /\ Suma(b, d) \in Totales
         /\ Suma(b, d) < BUFSIZE => Suma(b, d) = b.total + Largo * Len(d)
         /\ ~ Suma(b, d) < BUFSIZE => Suma(b, d) = BUFSIZE
         /\ b.total + Largo * Len(d) < BUFSIZE => Suma(b, d) < BUFSIZE
<1> DEFINE l == Largo * Len(d)
           t == b.total + l
<1>1. l \in Nat /\ b.total \in Int /\ BUFSIZE \in Nat
  BY EspAssumption, Enteros DEF Bufer, Totales
<1>2. Suma(b, d) = IF t < BUFSIZE THEN t ELSE BUFSIZE
  BY Zenon DEF Suma
<1> HIDE DEF l
<1> QED
  BY <1>1, <1>2 DEF l, Totales

\* The first messages of a datagram go behind those before, and all of them
\* unless they fill the buffer.
LEMMA LlenaTipo ==
  ASSUME NEW b \in Bufer, b.fallos = 0, NEW d \in Seq(Leibles), NEW c \in Llena(b, d)
  PROVE  /\ c \in Bufer /\ c.total = Suma(b, d) /\ c.fallos = 0 /\ c.corrido = b.corrido
         /\ \E q \in 0..Len(d) :
              /\ c.msgs = b.msgs \o SubSeq(d, 1, q)
              /\ Suma(b, d) < BUFSIZE => q = Len(d)
<1> DEFINE enteros == (BUFSIZE - b.total) \div Largo
           q == IF enteros < Len(d) THEN enteros ELSE Len(d)
           r == SubSeq(d, 1, q)
           n == b.msgs \o r
           u == Suma(b, d)
<1>1. b.msgs \in Seq(Leibles) /\ b.total \in Totales /\ b.corrido \in BOOLEAN
  BY DEF Bufer
<1>2. BUFSIZE \in Nat /\ Largo \in Nat \ {0} /\ Len(d) \in Nat /\ BUFSIZE - b.total \in Nat
  BY <1>1, EspAssumption DEF Totales
<1>3. enteros \in Nat /\ Largo * Len(d) \in Nat
  BY <1>2, Enteros
<1>4. u \in Totales /\ (u < BUFSIZE => u = b.total + Largo * Len(d))
  BY <1>2, SumaTipo
<1>5. u < BUFSIZE => q = Len(d)
  <2>1. Largo * Len(d) < BUFSIZE - b.total => Len(d) <= enteros
    BY <1>2, Caben
  <2> DEFINE l == Largo * Len(d)
  <2>2. l \in Nat /\ (u < BUFSIZE => u = b.total + l)
    BY <1>3, <1>4
  <2> HIDE DEF enteros, l, u
  <2>3. u < BUFSIZE => l < BUFSIZE - b.total
    BY <1>1, <1>2, <2>2 DEF Totales
  <2> QED
    BY <1>2, <1>3, <2>1, <2>3 DEF l
<1>6. q \in 0..Len(d)
  <2> HIDE DEF enteros
  <2> QED
    BY <1>2, <1>3
<1>7. c = [[b EXCEPT !.msgs = n] EXCEPT !.total = u]
  BY Zenon DEF Llena
<1>8. n \in Seq(Leibles)
  <2> HIDE DEF q
  <2>1. r \in Seq(Leibles)
    BY <1>6
  <2> HIDE DEF r
  <2> QED
    BY <1>1, <2>1
<1> HIDE DEF n, u, q
<1>9. c = [msgs |-> n, total |-> u, fallos |-> 0, corrido |-> b.corrido]
  BY <1>7 DEF Bufer
<1> QED
  BY <1>1, <1>4, <1>5, <1>6, <1>8, <1>9 DEF Bufer, n, u

LEMMA LlenaSeguida ==
  ASSUME NEW b \in Bufer, NEW a \in Seq(Enviables), NEW d \in Seq(Enviables),
         Recibido(b, a, Len(a)), b.total < BUFSIZE, b.fallos = 0, NEW c \in Llena(b, d)
  PROVE  c \in Bufer /\ Recibido(c, a \o d, Len(a \o d))
<1> DEFINE e == a \o d
<1>1. d \in Seq(Leibles) /\ Len(d) \in Nat /\ Len(a) \in Nat /\ Largo \in Nat /\ BUFSIZE \in Nat
  BY Distintos, EspAssumption
<1>2. ~ b.corrido /\ Len(b.msgs) = Len(a) /\ b.total = Largo * Len(a) - 0
  BY DEF Recibido, Bufer
<1>3. PICK q \in 0..Len(d) :
        /\ c \in Bufer /\ c.total = Suma(b, d) /\ c.fallos = 0 /\ ~ c.corrido
        /\ c.msgs = b.msgs \o SubSeq(d, 1, q)
        /\ c.total < BUFSIZE => q = Len(d)
  <2>1. /\ c \in Bufer /\ c.total = Suma(b, d) /\ c.fallos = 0 /\ c.corrido = b.corrido
        /\ \E q \in 0..Len(d) :
             /\ c.msgs = b.msgs \o SubSeq(d, 1, q)
             /\ Suma(b, d) < BUFSIZE => q = Len(d)
    BY <1>1, LlenaTipo
  <2> QED
    BY <1>2, <2>1, Zenon
<1> DEFINE s == b.msgs
           r == SubSeq(d, 1, q)
           n == s \o r
<1>4. s \in Seq(Leibles) /\ Len(s) = Len(a) /\ \A k \in 1..Len(a) : s[k] = a[k]
  BY <1>2 DEF Bufer, Recibido
<1>5. r \in Seq(Leibles) /\ Len(r) = q /\ \A k \in 1..q : r[k] = d[k]
  BY <1>1
<1>6. /\ Len(e) = Len(a) + Len(d)
      /\ \A k \in 1..Len(a) : e[k] = a[k]
      /\ \A k \in 1..Len(d) : e[Len(a) + k] = d[k]
  OBVIOUS
<1> HIDE DEF s, r, e
<1>7. Len(n) = Len(a) + q
  <2>1. \A x, y \in Seq(Leibles) : Len(x \o y) = Len(x) + Len(y)
    OBVIOUS
  <2>2. Len(n) = Len(s) + Len(r)
    BY <1>4, <1>5, <2>1, Zenon
  <2> QED
    BY <1>4, <1>5, <2>2, Zenon
<1>8. \A k \in 1..Len(n) : n[k] = e[k]
  <2> SUFFICES ASSUME NEW k \in 1..(Len(a) + q)
               PROVE  n[k] = e[k]
    BY <1>7
  <2>1. CASE k \in 1..Len(a)
    <3>0. \A x, y \in Seq(Leibles) : \A j \in 1..Len(x) : (x \o y)[j] = x[j]
      OBVIOUS
    <3>1. n[k] = s[k]
      BY <1>4, <1>5, <2>1, <3>0, Zenon
    <3> QED
      BY <1>4, <1>6, <2>1, <3>1
  <2>2. CASE k \notin 1..Len(a)
    <3>1. k - Len(a) \in 1..q /\ k - Len(a) \in 1..Len(d) /\ Len(a) + (k - Len(a)) = k
      BY <1>1, <2>2
    <3>2. \A x, y \in Seq(Leibles) : \A j \in 1..Len(y) : (x \o y)[Len(x) + j] = y[j]
      OBVIOUS
    <3>3. n[Len(s) + (k - Len(a))] = r[k - Len(a)]
      BY <1>4, <1>5, <3>1, <3>2, Zenon
    <3> QED
      BY <1>4, <1>5, <1>6, <3>1, <3>3
  <2> QED
    BY <2>1, <2>2
<1>9. c.total < BUFSIZE => c.total = Largo * Len(e) - 0
  <2>1. c.total < BUFSIZE => c.total = (Largo * Len(a) - 0) + Largo * Len(d)
    BY <1>1, <1>2, <1>3, SumaTipo, Zenon
  <2>2. Largo * (Len(a) + Len(d)) = Largo * Len(a) + Largo * Len(d)
        /\ Largo * Len(a) \in Nat /\ Largo * Len(d) \in Nat
    BY <1>1, Distribuye
  <2> DEFINE la == Largo * Len(a)  ld == Largo * Len(d)  le == Largo * Len(e)
  <2>3. le = la + ld /\ la \in Nat /\ ld \in Nat
    BY <1>6, <2>2
  <2>4. c.total < BUFSIZE => c.total = (la - 0) + ld
    BY <2>1
  <2> HIDE DEF la, ld, le
  <2>5. c.total < BUFSIZE => c.total = le - 0
    BY <2>3, <2>4
  <2> QED
    BY <2>5 DEF le
<1>10. Len(n) <= Len(e) /\ (c.total < BUFSIZE => Len(n) = Len(e))
  <2> DEFINE j == Len(n)  x == c.total
  <2>1. j = Len(a) + q /\ (x < BUFSIZE => q = Len(d))
    BY <1>3, <1>7
  <2> HIDE DEF j, x
  <2>2. j <= Len(e) /\ (x < BUFSIZE => j = Len(e))
    BY <1>1, <1>6, <2>1
  <2> QED
    BY <2>2 DEF j, x
<1>11. c.msgs = n /\ c.fallos = 0 /\ ~ c.corrido /\ MaxFallos \in Nat
  BY <1>3, EspAssumption DEF s, r
<1> HIDE DEF n
<1>12. Recibido(c, e, Len(e))
  <2>1. c.fallos <= MaxFallos
    BY <1>11
  <2> DEFINE le == Largo * Len(e)
  <2>2. c.total < BUFSIZE => c.total = le - c.fallos
    BY <1>9, <1>11
  <2> HIDE DEF le
  <2> QED
    BY <1>8, <1>10, <1>11, <2>1, <2>2 DEF Recibido, le
<1> QED
  BY <1>3, <1>12 DEF e

\* Behind a recv that failed nothing is received: the end of the last message
\* may be lost.
LEMMA LlenaCorrida ==
  ASSUME NEW b \in Bufer, NEW a \in Seq(Enviables), NEW d \in Seq(Enviables),
         Recibido(b, a, Len(a)), b.fallos # 0, NEW c \in Llena(b, d)
  PROVE  c \in Bufer /\ Recibido(c, a \o d, Len(a \o d))
<1> DEFINE n == Len(b.msgs)
           e == a \o d
           u == Suma(b, d)
<1>1. b.msgs \in Seq(Leibles) /\ n \in Nat /\ b.fallos \in Nat /\ Len(d) \in Nat
  BY DEF Bufer
<1>2. Len(a) <= Len(e) /\ Len(a) \in Nat /\ Len(e) \in Nat /\ \A k \in 1..Len(a) : e[k] = a[k]
  OBVIOUS
<1>3. u \in Totales
  BY <1>1, SumaTipo
<1>4. PICK ms \in IF b.corrido THEN {b.msgs} ELSE Pisados(b.msgs) :
        c = [[[b EXCEPT !.msgs = ms] EXCEPT !.total = u] EXCEPT !.corrido = TRUE]
  BY Zenon DEF Llena
<1> HIDE DEF u
<1>5. c = [msgs |-> ms, total |-> u, fallos |-> b.fallos, corrido |-> TRUE]
  BY <1>4 DEF Bufer
<1>6. \A k \in 1..n : k \in 1..Len(a) /\ e[k] = a[k] /\ a[k] \in Enviables
  BY <1>1, <1>2 DEF Recibido
<1> HIDE DEF e
<1>7. /\ ms \in Seq(Leibles) /\ Len(ms) = n
      /\ \A k \in 1..n : ms[k] = e[k] \/ (k = n /\ ms[k] = <<e[k][1], Alterado>>)
  <2>1. CASE ms = b.msgs
    BY <1>1, <1>6, <2>1 DEF Recibido
  <2>2. CASE ms # b.msgs
    <3>1. ~ b.corrido /\ n # 0 /\ ms = [b.msgs EXCEPT ![n] = <<b.msgs[n][1], Alterado>>]
      BY <2>2, Zenon DEF Pisados
    <3> DEFINE x == <<b.msgs[n][1], Alterado>>
    <3>2. n \in 1..n /\ \A k \in 1..n : b.msgs[k] = e[k] /\ e[k] \in Enviables
      BY <1>1, <1>6, <3>1 DEF Recibido
    <3>3. x = <<e[n][1], Alterado>> /\ x \in Leibles
      BY <3>2 DEF Enviables, Leibles
    <3> HIDE DEF x
    <3>4. ms \in Seq(Leibles) /\ Len(ms) = n /\ ms[n] = x /\ \A k \in 1..n : k # n => ms[k] = b.msgs[k]
      BY <1>1, <3>1, <3>2, <3>3 DEF x
    <3> HIDE DEF n
    <3> QED
      BY <3>2, <3>3, <3>4
  <2> QED
    BY <2>1, <2>2
<1> HIDE DEF n
<1>8. c \in Bufer /\ c.msgs = ms /\ c.corrido /\ c.fallos = b.fallos
  BY <1>1, <1>3, <1>5, <1>7 DEF Bufer
<1>9. n <= Len(e)
  BY <1>1, <1>2 DEF Recibido, n
<1>10. Recibido(c, e, Len(e))
  <2>1. c.fallos > 0 /\ (c.fallos <= MaxFallos \/ Len(ms) = 0)
    BY <1>1, <1>7, <1>8 DEF Recibido, n
  <2> QED
    BY <1>7, <1>8, <1>9, <2>1 DEF Recibido
<1> QED
  BY <1>8, <1>10 DEF e

LEMMA LlenaRecibe ==
  ASSUME NEW b \in Bufer, NEW a \in Seq(Enviables), NEW d \in Seq(Enviables),
         Recibido(b, a, Len(a)), b.total < BUFSIZE, NEW c \in Llena(b, d)
  PROVE  c \in Bufer /\ Recibido(c, a \o d, Len(a \o d))
BY LlenaSeguida, LlenaCorrida

\* A failed recv takes a byte from the total; there is room for it where the
\* next message is refused, or no message at all.
LEMMA RetrocedeRecibe ==
  ASSUME NEW b \in Bufer, NEW e, NEW r \in Nat, Recibido(b, e, r), b.total < BUFSIZE,
         b.fallos < MaxFallos \/ Len(b.msgs) = 0
  PROVE  LET c == Retrocede(b)
         IN  /\ c \in Bufer /\ c.total < BUFSIZE /\ c.msgs = b.msgs /\ c.fallos = b.fallos + 1
             /\ Recibido(c, e, r)
<1> DEFINE c == Retrocede(b)
           l == Largo * r
<1>1. /\ b.msgs \in Seq(Leibles) /\ b.total \in Int /\ b.fallos \in Nat /\ b.corrido \in BOOLEAN
      /\ BUFSIZE \in Nat /\ MaxFallos \in Nat /\ l \in Nat
  BY EspAssumption, Enteros DEF Bufer, Totales
<1>2. c = [msgs |-> b.msgs, total |-> b.total - 1, fallos |-> b.fallos + 1, corrido |-> b.corrido]
  <2>1. c = [[b EXCEPT !.total = b.total - 1] EXCEPT !.fallos = b.fallos + 1]
    BY Zenon DEF Retrocede
  <2> HIDE DEF c
  <2> QED
    BY <2>1 DEF Bufer
<1>3. b.total - 1 \in Totales /\ b.total - 1 < BUFSIZE /\ b.fallos + 1 \in Nat
  BY <1>1 DEF Totales
<1>4. ~ b.corrido => Len(b.msgs) = r /\ b.total = l - b.fallos
  BY DEF Recibido
<1> HIDE DEF l, c
<1>5. c.msgs = b.msgs /\ c.total = b.total - 1 /\ c.fallos = b.fallos + 1 /\ c.corrido = b.corrido
  BY <1>2
<1>6. ~ c.corrido => Len(c.msgs) = r /\ c.total = l - c.fallos
  BY <1>1, <1>4, <1>5
<1>7. c.fallos > 0 /\ (c.fallos <= MaxFallos \/ Len(c.msgs) = 0)
  BY <1>1, <1>5
<1>8. Recibido(c, e, r)
  BY <1>5, <1>6, <1>7 DEF Recibido, l
<1>9. c \in Bufer
  BY <1>1, <1>2, <1>3 DEF Bufer
<1> QED
  BY <1>3, <1>5, <1>8, <1>9 DEF c

\* What NLMSG_OK takes is the beginning of what is there: all of it, unless the
\* total is short.
LEMMA LegiblesDe ==
  ASSUME NEW b \in Bufer
  PROVE  /\ Legibles(b) \in Seq(Leibles) /\ Len(Legibles(b)) <= Len(b.msgs)
         /\ \A k \in 1..Len(Legibles(b)) : Legibles(b)[k] = b.msgs[k]
         /\ \A n \in 0..Len(b.msgs) : n <= b.total \div Largo => n <= Len(Legibles(b))
<1> DEFINE t == b.total \div Largo
           n == IF t < Len(b.msgs) THEN t ELSE Len(b.msgs)
<1>1. b.msgs \in Seq(Leibles) /\ Len(b.msgs) \in Nat /\ b.total \in Int /\ Largo \in Nat \ {0}
  BY EspAssumption DEF Bufer, Totales
<1>2. t \in Int
  BY <1>1, SMTT(30)
<1>3. Legibles(b) = SubSeq(b.msgs, 1, n)
  BY Zenon DEF Legibles
<1> HIDE DEF t
<1>4. n \in Int /\ n <= Len(b.msgs) /\ \A k \in 0..Len(b.msgs) : k <= t => k <= n
  BY <1>1, <1>2
<1> HIDE DEF n
<1>5. CASE n < 1
  <2>1. Legibles(b) = <<>>
    BY <1>1, <1>3, <1>4, <1>5
  <2>2. \A k \in 0..Len(b.msgs) : k <= t => k <= 0
    BY <1>4, <1>5
  <2> QED
    BY <1>1, <2>1, <2>2 DEF t
<1>6. CASE ~ n < 1
  <2>1. Legibles(b) \in Seq(Leibles) /\ Len(Legibles(b)) = n /\ \A k \in 1..n : Legibles(b)[k] = b.msgs[k]
    BY <1>1, <1>3, <1>4, <1>6
  <2> QED
    BY <1>4, <2>1 DEF t
<1> QED
  BY <1>5, <1>6

\* What is sent later changes nothing of what was received.
LEMMA MasEnviado ==
  ASSUME NEW b \in Bufer, NEW e \in Seq(Enviables), NEW d \in Seq(Enviables), NEW r \in 0..Len(e),
         Recibido(b, e, r)
  PROVE  Recibido(b, e \o d, r)
<1>1. Len(b.msgs) \in Nat
  BY DEF Bufer
<1>2. \A k \in 1..Len(b.msgs) : k \in 1..Len(e) /\ (e \o d)[k] = e[k]
  BY <1>1 DEF Recibido
<1> QED
  BY <1>2 DEF Recibido

\* The messages received are among the first of those sent.
LEMMA MenosEnviado ==
  ASSUME NEW b \in Bufer, NEW a \in Seq(Enviables), NEW d \in Seq(Enviables),
         Recibido(b, a \o d, Len(a))
  PROVE  Recibido(b, a, Len(a))
<1>1. Len(b.msgs) \in Nat
  BY DEF Bufer
<1>2. \A k \in 1..Len(b.msgs) : k \in 1..Len(a) /\ (a \o d)[k] = a[k]
  BY <1>1 DEF Recibido
<1> QED
  BY <1>2 DEF Recibido

LEMMA NadaEnVacio == Recibido(Vacio, <<>>, 0)
<1>1. Vacio.msgs = <<>> /\ Vacio.total = 0 /\ Vacio.fallos = 0 /\ Vacio.corrido = FALSE
  BY DEF Vacio
<1>2. Len(<<>>) = 0 /\ Largo * 0 = 0
  BY EspAssumption
<1> QED
  BY <1>1, <1>2 DEF Recibido

\* Nothing received of nothing sent.
LEMMA NadaRecibido ==
  ASSUME NEW z \in Zocalos, mandado'[z] = <<>>, buf'[z] = Vacio, ecola'[z] = <<>>
  PROVE  Fiel(z)'
<1>1. Recibido(Vacio, <<>>, 0)
  BY NadaEnVacio
<1>2. Resto1(<<>>, <<>>, 0)
  BY DEF Resto1
<1> QED
  BY <1>1, <1>2, Zenon DEF Fiel

LEMMA EspInicio == EspInit => EInv
<1> SUFFICES ASSUME EspInit PROVE EInv
  OBVIOUS
<1>1. Vacio \in Bufer
  BY BuferVacio
<1>2. EspTipos
  BY <1>1 DEF EspInit, EspTipos, Puntos
<1>3. EspControl
  BY DEF EspInit, EspControl, SinZocalo, Quieto, Zocalo, Zocalos
<1>4. ASSUME NEW z \in Zocalos PROVE LecturaDe(z)
  <2>1. mandado[z] = <<>> /\ buf[z] = Vacio /\ ecola[z] = <<>> /\ eresto[z] = "nada"
    BY DEF EspInit
  <2>2. Recibido(Vacio, <<>>, 0)
    BY NadaEnVacio
  <2>3. Resto1(<<>>, <<>>, 0)
    BY DEF Resto1
  <2>4. Fiel(z)
    BY <2>1, <2>2, <2>3, Zenon DEF Fiel
  <2>5. eerror[z] = FALSE
    BY DEF EspInit
  <2> QED
    BY <2>1, <2>4, <2>5 DEF LecturaDe, Quieto
<1> QED
  BY <1>2, <1>3, <1>4 DEF EInv

\* A socket nothing happens to, and whose reader is not at recv.
LEMMA OtroZocalo ==
  ASSUME NEW z \in Zocalos, LecturaDe(z), eresto[z] # "mudo" \/ UNCHANGED <<ep, ii>>,
         Leido(z)' => Leido(z),
         ecola'[z] = ecola[z], eresto'[z] = eresto[z], eerror'[z] = eerror[z],
         mandado'[z] = mandado[z], buf'[z] = buf[z]
  PROVE  LecturaDe(z)'
BY DEF LecturaDe, Fiel, Mudo, Quieto, Zocalo

\* A socket whose request failed is that of the reader, at recv.
LEMMA SinMudos ==
  ASSUME EInv, ep # "recibe", NEW z \in Zocalos
  PROVE  eresto[z] # "mudo" /\ Fiel(z)
BY DEF EInv, LecturaDe, Mudo

LEMMA AbreE ==
  ASSUME EInv, open_netlink_socket
  PROVE  EInv'
<1> USE DEF open_netlink_socket
<1>1. EspTipos'
  BY DEF EInv, EspTipos, Puntos, Zocalo, Zocalos
<1>2. EspControl'
  BY DEF EInv, EspControl, SinZocalo, Zocalo, Quieto
<1>3. ASSUME NEW z \in Zocalos PROVE LecturaDe(z)'
  <2>1. eresto[z] # "mudo"
    BY SinMudos
  <2> QED
    BY <2>1, OtroZocalo DEF EInv, Leido
<1> QED
  BY <1>1, <1>2, <1>3 DEF EInv

LEMMA PideE ==
  ASSUME EInv, send_request
  PROVE  EInv'
<1>z. PICK z \in Zocalos : z = Zocalo
  BY DEF Zocalo, Zocalos
<1>w. PICK w \in Zocalos : w # z
  BY DEF Zocalos
<1>0. Zocalos = {z, w} /\ Zocalos = {1, 2}
  BY <1>w DEF Zocalos
<1>1. /\ ep = "pide" /\ ep' = "recibe" /\ UNCHANGED <<programa, abiertos, eerror, ii, ip, lineas>>
      /\ mandado' = [mandado EXCEPT ![z] = <<>>]
      /\ buf' = [buf EXCEPT ![z] = Vacio]
      /\ \/ z \notin abiertos /\ eresto' = eresto /\ ecola' = ecola
         \/ z \in abiertos /\ eresto' = [eresto EXCEPT ![z] = "volcado"] /\ ecola' = ecola
         \/ /\ z \in abiertos /\ eresto' = [eresto EXCEPT ![z] = "mudo"]
            /\ ecola' = [ecola EXCEPT ![z] = <<<<ERROR>>>>] \/ ecola' = ecola
  BY <1>z DEF send_request
<1>2. /\ EspTipos /\ EspControl /\ Quieto(z) /\ ~ eerror[z]
      /\ z = 1 <=> ii = 0
      /\ Zocalo' = z
  BY <1>z, <1>1 DEF EInv, EspControl, Zocalo
<1>3. 0 < BUFSIZE /\ Vacio.total = 0 /\ Vacio.fallos = 0 /\ Vacio \in Bufer
  BY BuferVacio
<1>4. /\ mandado'[z] = <<>> /\ buf'[z] = Vacio /\ eerror' = eerror
      /\ \/ z \notin abiertos /\ eresto'[z] = "nada" /\ ecola'[z] = <<>>
         \/ z \in abiertos /\ eresto'[z] = "volcado" /\ ecola'[z] = <<>>
         \/ z \in abiertos /\ eresto'[z] = "mudo" /\ ecola'[z] \in {<<<<ERROR>>>>, <<>>}
      /\ mandado'[w] = mandado[w] /\ buf'[w] = buf[w] /\ eresto'[w] = eresto[w] /\ ecola'[w] = ecola[w]
  BY <1>w, <1>1, <1>2 DEF EspTipos, Quieto
<1>5. EspTipos'
  <2>1. <<<<ERROR>>>> \in Seq(Seq(Leibles \cup {DONE}))
    BY DEF Leibles
  <2>2. ecola' \in [Zocalos -> Seq(Seq(Leibles \cup {DONE}))]
    <3>1. ecola' = [ecola EXCEPT ![z] = <<<<ERROR>>>>] \/ ecola' = ecola
      BY <1>1
    <3> HIDE DEF Zocalos
    <3> QED
      BY <1>2, <2>1, <3>1 DEF EspTipos
  <2>3. mandado' \in [Zocalos -> Seq(Enviables)]
    BY <1>0, <1>1, <1>2 DEF EspTipos
  <2>4. buf' \in [Zocalos -> Bufer]
    BY <1>0, <1>1, <1>2, <1>3 DEF EspTipos
  <2>5. eresto' \in [Zocalos -> {"nada", "volcado", "mudo"}]
    BY <1>0, <1>1, <1>2 DEF EspTipos
  <2> QED
    BY <1>1, <1>2, <2>2, <2>3, <2>4, <2>5 DEF EspTipos, Puntos
<1>6. EspControl'
  <2>1. ii > 0 => buf'[1] = buf[1]
    <3>1. ii > 0 => ii # 0
      BY <1>2 DEF EspTipos
    <3>2. ii # 0 => w = 1
      BY <1>0, <1>2
    <3> QED
      BY <1>4, <3>1, <3>2
  <2>2. ii = 0 => w = 2
    BY <1>0, <1>w, <1>2
  <2>3. SinZocalo'
    BY <1>1, <1>2, <1>4 DEF SinZocalo, Quieto
  <2> QED
    BY <1>1, <1>2, <1>3, <1>4, <2>1, <2>2, <2>3 DEF EspControl, Quieto
<1>7. LecturaDe(z)'
  <2>1. ~ Leido(z)'
    BY <1>0, <1>1, <1>2 DEF Leido, EspTipos
  <2>3. DONE # ERROR /\ <<<<ERROR>>>> # <<<<DONE>>>> /\ <<>> # <<<<DONE>>>>
    BY Distintos
  <2>4. eresto'[z] # "mudo" => Fiel(z)'
    BY <1>0, <1>4, NadaRecibido
  <2> QED
    BY <1>1, <1>2, <1>3, <1>4, <2>1, <2>3, <2>4 DEF LecturaDe, Mudo
<1>8. LecturaDe(w)'
  <2>1. eresto[w] # "mudo"
    BY <1>w, <1>1, SinMudos
  <2>2. Leido(w)' => Leido(w)
    BY <1>0, <1>w, <1>1, <1>2 DEF Leido
  <2> QED
    BY <1>w, <1>4, <2>1, <2>2, OtroZocalo DEF EInv
<1> QED
  BY <1>0, <1>5, <1>6, <1>7, <1>8 DEF EInv

LEMMA DatagramaE ==
  ASSUME NEW z \in Zocalos, NEW d \in BoundedSeq(Mensajes(z), 2) \ {<<>>}
  PROVE  /\ d \in Seq(Enviables) /\ d # <<>> /\ <<d>> # <<<<DONE>>>>
         /\ \A e \in Seq(Enviables) : e \o d \in Seq(Enviables)
<1>1. PICK m \in 0..2 : d \in [1..m -> Mensajes(z)]
  BY DEF BoundedSeq, SeqOf
<1>2. Mensajes(z) \subseteq Enviables
  BY DEF Mensajes, Enviables
<1>3. d \in Seq(Enviables) /\ d # <<>>
  BY <1>1, <1>2
<1>4. d # <<DONE>>
  <2>1. d[1] \in Enviables
    BY <1>3
  <2> QED
    BY <2>1, Distintos
<1>5. \A e \in Seq(Enviables) : e \o d \in Seq(Enviables)
  BY <1>3
<1> QED
  BY <1>3, <1>4, <1>5

\* With nothing queued, everything sent has been received.
LEMMA TodoRecibido ==
  ASSUME NEW z \in Zocalos, EspTipos, Fiel(z), ecola[z] = <<>>
  PROVE  Recibido(buf[z], mandado[z], Len(mandado[z]))
<1>1. PICK r \in Nat : Recibido(buf[z], mandado[z], r) /\ Resto1(<<>>, mandado[z], r)
  BY DEF Fiel
<1>2. r = Len(mandado[z])
  BY <1>1 DEF Resto1
<1> QED
  BY <1>1, <1>2

LEMMA EncolaTipo ==
  ASSUME NEW S, NEW D, NEW f \in [D -> Seq(S)], NEW z, NEW x \in S
  PROVE  [f EXCEPT ![z] = Append(@, x)] \in [D -> Seq(S)]
<1> DEFINE g == [f EXCEPT ![z] = Append(@, x)]
<1>1. \A s \in Seq(S) : Append(s, x) \in Seq(S)
  OBVIOUS
<1>2. DOMAIN g = D /\ g = [y \in D |-> IF y = z THEN Append(f[z], x) ELSE f[y]]
  OBVIOUS
<1>3. ASSUME NEW y \in D PROVE g[y] \in Seq(S)
  <2>1. f[y] \in Seq(S)
    OBVIOUS
  <2>2. y = z => g[y] = Append(f[y], x)
    BY <1>2
  <2>3. y # z => g[y] = f[y]
    BY <1>2
  <2> QED
    BY <1>1, <2>1, <2>2, <2>3
<1> HIDE DEF g
<1>4. g = [y \in D |-> g[y]]
  BY <1>2
<1> QED
  BY <1>3, <1>4 DEF g

LEMMA SigueE ==
  ASSUME EInv, NEW z \in abiertos, Sigue(z)
  PROVE  EInv'
<1>z. z \in Zocalos
  BY DEF EInv, EspTipos
<1>w. PICK w \in Zocalos : w # z
  BY DEF Zocalos
<1>0. Zocalos = {z, w} /\ Zocalos = {1, 2}
  BY <1>z, <1>w DEF Zocalos
<1>1. /\ eresto[z] = "volcado" /\ ~ eerror[z] /\ ecola[z] = <<>>
      /\ UNCHANGED <<programa, ep, abiertos, buf, ii, ip, lineas>>
  BY DEF Sigue
<1>2. EspTipos /\ EspControl /\ LecturaDe(z) /\ LecturaDe(w)
  BY <1>z DEF EInv
<1> DEFINE e == mandado[z]
<1>3. Fiel(z) /\ Recibido(buf[z], e, Len(e)) /\ e \in Seq(Enviables) /\ Len(e) \in Nat /\ buf[z] \in Bufer
  <2>1. Fiel(z)
    BY <1>1, <1>2 DEF LecturaDe
  <2>2. Recibido(buf[z], e, Len(e))
    BY <2>1, <1>z, <1>1, <1>2, TodoRecibido
  <2> QED
    BY <2>1, <2>2, <1>z, <1>2 DEF EspTipos, Bufer
<1>4. ~ Quieto(z) /\ (Leido(z) => buf[z].total = BUFSIZE)
  BY <1>1, <1>2 DEF Quieto, LecturaDe
<1>5. \/ \E d \in BoundedSeq(Mensajes(z), 2) \ {<<>>} :
           /\ ecola' = [ecola EXCEPT ![z] = Append(@, d)]
           /\ mandado' = [mandado EXCEPT ![z] = @ \o d]
           /\ UNCHANGED <<eresto, eerror>>
      \/ /\ ecola' = [ecola EXCEPT ![z] = Append(@, <<DONE>>)]
         /\ eresto' = [eresto EXCEPT ![z] = "nada"]
         /\ UNCHANGED <<eerror, mandado>>
      \/ /\ buf[z].fallos < MaxFallos
         /\ eerror' = [eerror EXCEPT ![z] = TRUE]
         /\ UNCHANGED <<ecola, eresto, mandado>>
  BY DEF Sigue
<1>6. /\ EspTipos' /\ Fiel(z)' /\ eresto'[z] # "mudo"
      /\ ecola'[z] = <<<<DONE>>>> => eresto'[z] = "nada"
      /\ eerror'[z] => buf[z].fallos < MaxFallos
      /\ ecola'[w] = ecola[w] /\ eresto'[w] = eresto[w] /\ eerror'[w] = eerror[w] /\ mandado'[w] = mandado[w]
  <2>1. ASSUME NEW d \in BoundedSeq(Mensajes(z), 2) \ {<<>>},
               ecola' = [ecola EXCEPT ![z] = Append(@, d)], mandado' = [mandado EXCEPT ![z] = @ \o d],
               UNCHANGED <<eresto, eerror>>
        PROVE  <1>6!:
    <3>1. d \in Seq(Enviables) /\ d # <<>> /\ <<d>> # <<<<DONE>>>> /\ e \o d \in Seq(Enviables)
      BY <1>z, <1>3, DatagramaE
    <3>2. ecola'[z] = <<d>> /\ mandado'[z] = e \o d
      <4>1. /\ ecola \in [Zocalos -> Seq(Seq(Leibles \cup {DONE}))]
            /\ mandado \in [Zocalos -> Seq(Enviables)]
        BY <1>2 DEF EspTipos
      <4> QED
        BY <1>z, <1>1, <2>1, <4>1
    <3>3. Recibido(buf'[z], e \o d, Len(e)) /\ Resto1(<<d>>, e \o d, Len(e))
      <4>1. Recibido(buf[z], e \o d, Len(e))
        BY <1>3, <3>1, MasEnviado
      <4>2. Resto1(<<d>>, e \o d, Len(e))
        BY <1>3, <3>1 DEF Resto1
      <4> QED
        BY <1>1, <4>1, <4>2
    <3>4. Fiel(z)'
      BY <1>3, <3>2, <3>3, Zenon DEF Fiel
    <3>5. ecola' \in [Zocalos -> Seq(Seq(Leibles \cup {DONE}))]
      <4>1. d \in Seq(Leibles \cup {DONE})
        BY <3>1, Distintos
      <4>2. d \in Seq(Leibles \cup {DONE}) => [ecola EXCEPT ![z] = Append(@, d)] \in [Zocalos -> Seq(Seq(Leibles \cup {DONE}))]
        BY <1>2, EncolaTipo, Zenon DEF EspTipos
      <4> QED
        BY <2>1, <4>1, <4>2
    <3>6. mandado' \in [Zocalos -> Seq(Enviables)]
      BY <1>2, <2>1, <3>1 DEF EspTipos
    <3> QED
      BY <1>w, <1>1, <1>2, <2>1, <3>1, <3>2, <3>4, <3>5, <3>6 DEF EspTipos
  <2>2. ASSUME ecola' = [ecola EXCEPT ![z] = Append(@, <<DONE>>)], eresto' = [eresto EXCEPT ![z] = "nada"],
               UNCHANGED <<eerror, mandado>>
        PROVE  <1>6!:
    <3>1. ecola'[z] = <<<<DONE>>>> /\ eresto'[z] = "nada"
      BY <1>z, <1>1, <1>2, <2>2 DEF EspTipos
    <3>2. Resto1(<<<<DONE>>>>, e, Len(e))
      BY DEF Resto1
    <3>3. Fiel(z)'
      BY <1>1, <1>3, <2>2, <3>1, <3>2, Zenon DEF Fiel
    <3>4. ecola' \in [Zocalos -> Seq(Seq(Leibles \cup {DONE}))]
      <4>1. <<DONE>> \in Seq(Leibles \cup {DONE})
        OBVIOUS
      <4>2. <<DONE>> \in Seq(Leibles \cup {DONE}) => [ecola EXCEPT ![z] = Append(@, <<DONE>>)] \in [Zocalos -> Seq(Seq(Leibles \cup {DONE}))]
        BY <1>2, EncolaTipo, Zenon DEF EspTipos
      <4> QED
        BY <2>2, <4>1, <4>2
    <3> QED
      BY <1>w, <1>1, <1>2, <2>2, <3>1, <3>3, <3>4 DEF EspTipos
  <2>3. ASSUME buf[z].fallos < MaxFallos,
               eerror' = [eerror EXCEPT ![z] = TRUE], UNCHANGED <<ecola, eresto, mandado>>
        PROVE  <1>6!:
    <3>1. Fiel(z)'
      BY <1>1, <1>3, <2>3, Zenon DEF Fiel
    <3>2. ecola'[z] # <<<<DONE>>>>
      <4>1. ecola'[z] = <<>>
        BY <1>1, <2>3
      <4> QED
        BY <4>1
    <3> QED
      BY <1>w, <1>1, <1>2, <2>3, <3>1, <3>2 DEF EspTipos
  <2> QED
    BY <1>5, <2>1, <2>2, <2>3
<1>7. EspControl'
  <2>1. Zocalo' = Zocalo /\ Zocalo \in Zocalos
    BY <1>1 DEF Zocalo, Zocalos
  <2>2. ASSUME NEW v \in Zocalos, Quieto(v), ~ eerror[v]
        PROVE  Quieto(v)' /\ ~ eerror'[v]
    <3>1. v = w
      BY <1>0, <1>4, <2>2
    <3> QED
      BY <1>6, <2>2, <3>1 DEF Quieto
  <2>3. ep \in {"abre", "pide"} => Quieto(Zocalo)' /\ ~ eerror'[Zocalo]
    BY <1>2, <2>1, <2>2 DEF EspControl
  <2>4. ii = 0 \/ ep = "linea" => Quieto(2)' /\ ~ eerror'[2]
    BY <1>0, <1>2, <2>2 DEF EspControl
  <2>5. SinZocalo'
    <3>1. ep = "recibe" /\ Zocalo \notin abiertos => Zocalo = w
      BY <1>0, <2>1
    <3> QED
      BY <1>1, <1>2, <1>6, <2>1, <3>1 DEF EspControl, SinZocalo, Quieto
  <2> QED
    BY <1>1, <1>2, <2>1, <2>3, <2>4, <2>5 DEF EspControl, Quieto
<1>8. LecturaDe(z)'
  BY <1>1, <1>4, <1>6 DEF LecturaDe, Leido
<1>9. LecturaDe(w)'
  BY <1>1, <1>2, <1>6, OtroZocalo DEF Leido
<1> QED
  BY <1>0, <1>6, <1>7, <1>8, <1>9 DEF EInv

\* What a datagram leaves in the buffer, and where the loop goes on.
LEMMA RecibeUno ==
  ASSUME EInv, NEW z \in Zocalos, z = Zocalo, recv_reply, ep' # "muerto"
  PROVE  /\ ecola'[z] = <<>> /\ buf'[z] \in Bufer
         /\ \/ ep' = "recibe" /\ buf'[z].total < BUFSIZE /\ (eresto[z] # "mudo" => Fiel(z)')
            \/ /\ ep' = "lee" /\ eresto[z] # "mudo" /\ Fiel(z)'
               /\ buf'[z].total = BUFSIZE \/ eresto[z] = "nada"
<1> DEFINE q == ecola[z]  e == mandado[z]  d == Head(q)
<1>1. PICK b \in IF Head(d) = DONE THEN {buf[z]} ELSE Llena(buf[z], d) :
      /\ ep = "recibe" /\ ~ eerror[z] /\ q # <<>>
      /\ buf' = [buf EXCEPT ![z] = b]
      /\ ep' = IF Head(d) = DONE \/ b.total >= BUFSIZE THEN "lee" ELSE "recibe"
      /\ ecola' = [ecola EXCEPT ![z] = Tail(@)]
      /\ UNCHANGED <<eresto, mandado>>
  BY DEF recv_reply, Muere
<1>2. EspTipos /\ EspControl /\ LecturaDe(z)
  BY DEF EInv
<1>3. buf[z] \in Bufer /\ e \in Seq(Enviables) /\ buf[z].total < BUFSIZE
  BY <1>1, <1>2 DEF EspTipos, EspControl
<1>4. buf'[z] = b /\ ecola'[z] = Tail(q) /\ eresto'[z] = eresto[z] /\ mandado'[z] = e
  BY <1>1, <1>2 DEF EspTipos
<1>5. BUFSIZE \in Nat /\ Largo \in Nat /\ Largo < BUFSIZE
  BY EspAssumption
<1>6. \A c \in Bufer : /\ c.total >= BUFSIZE => c.total = BUFSIZE
                       /\ ~ c.total >= BUFSIZE => c.total < BUFSIZE
  <2>1. \A x \in Totales : (x >= BUFSIZE => x = BUFSIZE) /\ (~ x >= BUFSIZE => x < BUFSIZE)
    BY <1>5 DEF Totales
  <2> QED
    BY <2>1 DEF Bufer
<1>7. CASE eresto[z] = "mudo"
  <2>1. q = <<<<ERROR>>>> /\ buf[z].total = 0 /\ buf[z].fallos = 0
    BY <1>1, <1>2, <1>7 DEF LecturaDe, Mudo
  <2>2. d = <<ERROR>> /\ Tail(q) = <<>> /\ Head(d) = ERROR
    BY <2>1
  <2>3. d \in Seq(Leibles) /\ Len(d) = 1
    <3>1. ERROR \in Leibles
      BY DEF Leibles
    <3> HIDE DEF d
    <3> QED
      BY <2>2, <3>1
  <2>4. b \in Llena(buf[z], d)
    BY <1>1, <2>2, Distintos
  <2>5. b \in Bufer /\ b.total = Suma(buf[z], d)
    BY <1>3, <2>1, <2>3, <2>4, LlenaTipo
  <2>6. buf[z].total + Largo * Len(d) = Largo
    BY <1>5, <2>1, <2>3
  <2>7. b.total < BUFSIZE
    <3>1. Len(d) \in Nat /\ buf[z].total + Largo * Len(d) < BUFSIZE
      BY <1>5, <2>3, <2>6
    <3> QED
      BY <1>3, <2>5, <3>1, SumaTipo
  <2>8. ep' = "recibe"
    <3>1. ~ b.total >= BUFSIZE
      <4>1. b.total \in Int
        BY <2>5 DEF Bufer, Totales
      <4> QED
        BY <1>5, <2>7, <4>1
    <3> QED
      BY <1>1, <2>2, <3>1, Distintos
  <2> QED
    BY <1>4, <1>7, <2>2, <2>5, <2>7, <2>8
<1>8. CASE eresto[z] # "mudo"
  <2>1. PICK r \in Nat : Recibido(buf[z], e, r) /\ Resto1(q, e, r)
    BY <1>2, <1>8 DEF LecturaDe, Fiel
  <2>2. CASE q = <<<<DONE>>>> /\ r = Len(e)
    <3>1. b = buf[z] /\ Tail(q) = <<>> /\ Head(d) = DONE
      BY <1>1, <2>2
    <3>2. ep' = "lee" /\ eresto[z] = "nada"
      BY <1>1, <1>2, <2>2, <3>1 DEF LecturaDe
    <3>3. Resto1(<<>>, e, r)
      BY <2>2 DEF Resto1
    <3>4. Fiel(z)'
      BY <1>4, <2>1, <3>1, <3>3, Zenon DEF Fiel
    <3> QED
      BY <1>3, <1>4, <1>8, <3>1, <3>2, <3>4
  <2>3. ASSUME NEW a \in Seq(Enviables), NEW x \in Seq(Enviables),
               x # <<>>, q = <<x>>, e = a \o x, r = Len(a)
        PROVE  /\ ecola'[z] = <<>> /\ buf'[z] \in Bufer
               /\ \/ ep' = "recibe" /\ buf'[z].total < BUFSIZE /\ (eresto[z] # "mudo" => Fiel(z)')
                  \/ /\ ep' = "lee" /\ eresto[z] # "mudo" /\ Fiel(z)'
                     /\ buf'[z].total = BUFSIZE \/ eresto[z] = "nada"
    <3>1. d = x /\ Tail(q) = <<>> /\ Head(d) \in Enviables
      BY <2>3
    <3>2. b \in Llena(buf[z], x) /\ Head(d) # DONE
      BY <1>1, <3>1, Distintos
    <3>5. Recibido(buf[z], a, Len(a))
      BY <1>3, <2>1, <2>3, MenosEnviado
    <3>6. b \in Bufer /\ Recibido(b, e, Len(e))
      BY <1>3, <2>3, <3>2, <3>5, LlenaRecibe
    <3>7. Resto1(<<>>, e, Len(e)) /\ Len(e) \in Nat
      BY <1>3 DEF Resto1
    <3>8. Fiel(z)'
      BY <1>4, <3>1, <3>6, <3>7, Zenon DEF Fiel
    <3>9. ep' = IF b.total >= BUFSIZE THEN "lee" ELSE "recibe"
      BY <1>1, <3>2
    <3> QED
      BY <1>4, <1>6, <1>8, <3>1, <3>6, <3>8, <3>9
  <2> QED
    BY <1>1, <2>1, <2>2, <2>3 DEF Resto1
<1> QED
  BY <1>7, <1>8

LEMMA RecibeE ==
  ASSUME EInv, recv_reply, ep' # "muerto"
  PROVE  EInv'
<1>z. PICK z \in Zocalos : z = Zocalo
  BY DEF Zocalo, Zocalos
<1>w. PICK w \in Zocalos : w # z
  BY DEF Zocalos
<1>0. Zocalos = {z, w} /\ Zocalos = {1, 2}
  BY <1>z, <1>w DEF Zocalos
<1>1. /\ ep = "recibe" /\ ~ eerror[z] /\ ecola[z] # <<>>
      /\ \E b : buf' = [buf EXCEPT ![z] = b]
      /\ ecola' = [ecola EXCEPT ![z] = Tail(@)]
      /\ UNCHANGED <<programa, abiertos, eresto, eerror, mandado, ii, ip, lineas>>
  BY <1>z DEF recv_reply, Muere
<1>2. /\ EspTipos /\ EspControl /\ LecturaDe(z) /\ LecturaDe(w)
      /\ z = 1 <=> ii = 0
      /\ Zocalo' = z
  BY <1>z, <1>1 DEF EInv, Zocalo
<1>3. /\ ecola'[z] = <<>> /\ buf'[z] \in Bufer
      /\ \/ ep' = "recibe" /\ buf'[z].total < BUFSIZE /\ (eresto[z] # "mudo" => Fiel(z)')
         \/ /\ ep' = "lee" /\ eresto[z] # "mudo" /\ Fiel(z)'
            /\ buf'[z].total = BUFSIZE \/ eresto[z] = "nada"
  BY <1>z, RecibeUno
<1>4. buf'[w] = buf[w] /\ ecola'[w] = ecola[w]
  BY <1>w, <1>1, <1>2 DEF EspTipos
<1>5. /\ DOMAIN buf' = Zocalos /\ DOMAIN ecola' = Zocalos
      /\ buf' = [v \in Zocalos |-> buf'[v]] /\ ecola' = [v \in Zocalos |-> ecola'[v]]
  BY <1>1, <1>2 DEF EspTipos
<1>6. EspTipos'
  <2>1. \A v \in Zocalos : buf'[v] \in Bufer
    BY <1>0, <1>2, <1>3, <1>4 DEF EspTipos
  <2>2. \A v \in Zocalos : ecola'[v] \in Seq(Seq(Leibles \cup {DONE}))
    <3>1. ecola'[z] \in Seq(Seq(Leibles \cup {DONE}))
      BY <1>3
    <3>2. ecola'[w] \in Seq(Seq(Leibles \cup {DONE}))
      BY <1>w, <1>2, <1>4 DEF EspTipos
    <3> QED
      BY <1>0, <3>1, <3>2
  <2>3. buf' \in [Zocalos -> Bufer] /\ ecola' \in [Zocalos -> Seq(Seq(Leibles \cup {DONE}))]
    BY <1>5, <2>1, <2>2
  <2>4. ep' \in Puntos
    BY <1>3 DEF Puntos
  <2> QED
    BY <1>1, <1>2, <2>3, <2>4 DEF EspTipos
<1>7. ii > 0 => ii # 0
  BY <1>2 DEF EspTipos
<1>8. EspControl'
  <2>1. ii > 0 => buf'[1] = buf[1]
    <3>1. ii # 0 => w = 1
      BY <1>0, <1>2
    <3> QED
      BY <1>4, <1>7, <3>1
  <2>2. ii = 0 => w = 2
    BY <1>0, <1>w, <1>2
  <2>3. z \in abiertos
    BY <1>z, <1>1, <1>2 DEF EspControl, SinZocalo, Quieto
  <2> QED
    BY <1>1, <1>2, <1>3, <1>4, <2>1, <2>2, <2>3 DEF EspControl, SinZocalo, Quieto
<1>9. LecturaDe(z)'
  <2>1. ep' = "recibe" => ~ Leido(z)'
    BY <1>0, <1>1, <1>2, <1>7 DEF Leido
  <2>2. ep' = "recibe" /\ eresto[z] = "mudo" => Mudo(z)'
    BY <1>1, <1>2, <1>3 DEF Mudo
  <2> QED
    BY <1>1, <1>3, <2>1, <2>2 DEF LecturaDe, Quieto
<1>10. LecturaDe(w)'
  <2>1. eresto[w] # "mudo"
    BY <1>z, <1>w, <1>2 DEF LecturaDe, Mudo
  <2>2. Leido(w)' => Leido(w)
    <3>1. ii # 0 => ii > 0
      BY <1>2 DEF EspTipos
    <3> QED
      BY <1>0, <1>w, <1>1, <1>2, <1>7, <3>1 DEF Leido
  <2> QED
    BY <1>w, <1>1, <1>2, <1>4, <2>1, <2>2, OtroZocalo
<1> QED
  BY <1>0, <1>6, <1>8, <1>9, <1>10 DEF EInv

LEMMA FallaE ==
  ASSUME EInv, recv_falla
  PROVE  EInv'
<1>z. PICK z \in Zocalos : z = Zocalo
  BY DEF Zocalo, Zocalos
<1>w. PICK w \in Zocalos : w # z
  BY DEF Zocalos
<1>0. Zocalos = {z, w} /\ Zocalos = {1, 2}
  BY <1>z, <1>w DEF Zocalos
<1> DEFINE b == Retrocede(buf[z])
<1>1. /\ ep = "recibe" /\ eerror[z]
      /\ buf' = [buf EXCEPT ![z] = b]
      /\ eerror' = [eerror EXCEPT ![z] = FALSE]
      /\ UNCHANGED <<programa, ep, abiertos, ecola, eresto, mandado, ii, ip, lineas>>
  BY <1>z DEF recv_falla
<1> HIDE DEF b
<1>2. /\ EspTipos /\ EspControl /\ LecturaDe(z) /\ LecturaDe(w)
      /\ z = 1 <=> ii = 0
      /\ Zocalo' = z
  BY <1>z, <1>1 DEF EInv, Zocalo
<1>3. /\ eresto[z] # "mudo" /\ Fiel(z) /\ buf[z] \in Bufer
      /\ buf[z].fallos < MaxFallos /\ buf[z].total < BUFSIZE
  BY <1>z, <1>1, <1>2 DEF LecturaDe, Mudo, EspTipos, EspControl
<1>4. buf'[z] = b /\ buf'[w] = buf[w] /\ eerror'[w] = eerror[w] /\ ~ eerror'[z]
  BY <1>w, <1>1, <1>2 DEF EspTipos
<1>5. b \in Bufer /\ b.total < BUFSIZE /\ Len(b.msgs) = Len(buf[z].msgs) /\ Fiel(z)'
  <2>1. PICK r \in Nat : Recibido(buf[z], mandado[z], r) /\ Resto1(ecola[z], mandado[z], r)
    BY <1>3 DEF Fiel
  <2>2. b \in Bufer /\ b.total < BUFSIZE /\ b.msgs = buf[z].msgs /\ Recibido(b, mandado[z], r)
    BY <1>3, <2>1, RetrocedeRecibe DEF b
  <2>3. Fiel(z)'
    BY <1>1, <1>4, <2>1, <2>2, Zenon DEF Fiel
  <2> QED
    BY <2>2, <2>3
<1>6. EspTipos'
  <2>1. buf' \in [Zocalos -> Bufer] /\ eerror' \in [Zocalos -> BOOLEAN]
    BY <1>1, <1>2, <1>5 DEF EspTipos
  <2> QED
    BY <1>1, <1>2, <2>1 DEF EspTipos
<1>7. EspControl'
  <2>1. ii > 0 => Len(buf'[1].msgs) = Len(buf[1].msgs)
    BY <1>0, <1>4, <1>5
  <2>2. buf'[Zocalo'].total < BUFSIZE
    BY <1>2, <1>4, <1>5
  <2>3. ii = 0 => Quieto(2)' /\ ~ eerror'[2]
    <3>1. ii = 0 => w = 2
      BY <1>0, <1>w, <1>2
    <3> QED
      BY <1>1, <1>2, <1>4, <3>1 DEF EspControl, Quieto
  <2>4. z \in abiertos
    BY <1>z, <1>1, <1>2 DEF EspControl, SinZocalo
  <2> QED
    BY <1>1, <1>2, <2>1, <2>2, <2>3, <2>4 DEF EspControl, SinZocalo
<1>8. LecturaDe(z)'
  <2>1. ~ Leido(z)'
    <3>1. ii > 0 => ii # 0
      BY <1>2 DEF EspTipos
    <3> QED
      BY <1>0, <1>1, <1>2, <3>1 DEF Leido
  <2> QED
    BY <1>1, <1>2, <1>3, <1>4, <1>5, <2>1 DEF LecturaDe
<1>9. LecturaDe(w)'
  BY <1>w, <1>1, <1>2, <1>4, OtroZocalo DEF Leido
<1> QED
  BY <1>0, <1>6, <1>7, <1>8, <1>9 DEF EInv

\* Without a socket the pointer goes back, or what is there is taken for the end.
LEMMA CaeE ==
  ASSUME EInv, recv_sin_zocalo, ep' # "muerto"
  PROVE  EInv'
<1>z. PICK z \in Zocalos : z = Zocalo
  BY DEF Zocalo, Zocalos
<1>w. PICK w \in Zocalos : w # z
  BY DEF Zocalos
<1>0. Zocalos = {z, w} /\ Zocalos = {1, 2}
  BY <1>z, <1>w DEF Zocalos
<1>1. /\ ep = "recibe" /\ z \notin abiertos
      /\ UNCHANGED <<programa, abiertos, ecola, eresto, eerror, mandado, ii, ip, lineas>>
      /\ \/ ep' = ep /\ buf' = [buf EXCEPT ![z] = Retrocede(buf[z])]
         \/ ep' = "lee" /\ buf' = buf
  BY <1>z DEF recv_sin_zocalo, Muere
<1>2. /\ EspTipos /\ EspControl /\ LecturaDe(z) /\ LecturaDe(w)
      /\ Quieto(z) /\ ~ eerror[z] /\ mandado[z] = <<>>
      /\ z = 1 <=> ii = 0
      /\ Zocalo' = z
  BY <1>z, <1>1 DEF EInv, EspControl, SinZocalo, Zocalo
<1>3. eresto[z] # "mudo" /\ Fiel(z) /\ buf[z] \in Bufer /\ buf[z].total < BUFSIZE
  BY <1>z, <1>1, <1>2 DEF LecturaDe, EspTipos, EspControl, Quieto
<1>4. buf'[w] = buf[w]
  BY <1>w, <1>1, <1>2 DEF EspTipos
<1>5. PICK r \in Nat : Recibido(buf[z], mandado[z], r) /\ Resto1(ecola[z], mandado[z], r)
  BY <1>3 DEF Fiel
<1>6. Len(buf[z].msgs) = 0
  <2>1. r = 0
    <3>1. ecola[z] = <<>> /\ Len(<<>>) = 0
      BY <1>2 DEF Quieto
    <3> QED
      BY <1>2, <1>5, <3>1 DEF Resto1
  <2>2. Len(buf[z].msgs) \in Nat
    BY <1>3 DEF Bufer
  <2> QED
    BY <1>5, <2>1, <2>2 DEF Recibido
<1>7. buf'[z] \in Bufer /\ buf'[z].total < BUFSIZE /\ buf'[z].msgs = buf[z].msgs /\ Fiel(z)'
  <2>1. CASE buf' = buf
    BY <1>1, <1>3, <2>1 DEF Fiel
  <2>2. CASE buf' = [buf EXCEPT ![z] = Retrocede(buf[z])]
    <3>1. buf'[z] = Retrocede(buf[z])
      BY <1>2, <2>2 DEF EspTipos
    <3>2. buf'[z] \in Bufer /\ buf'[z].total < BUFSIZE /\ buf'[z].msgs = buf[z].msgs /\ Recibido(buf'[z], mandado[z], r)
      BY <1>3, <1>5, <1>6, <3>1, RetrocedeRecibe
    <3>3. Fiel(z)'
      BY <1>1, <1>5, <3>2, Zenon DEF Fiel
    <3> QED
      BY <3>2, <3>3
  <2> QED
    BY <1>1, <2>1, <2>2
<1>8. EspTipos'
  <2>1. DOMAIN buf' = Zocalos /\ buf' = [v \in Zocalos |-> buf'[v]]
    BY <1>1, <1>2 DEF EspTipos
  <2>2. \A v \in Zocalos : buf'[v] \in Bufer
    BY <1>0, <1>2, <1>4, <1>7 DEF EspTipos
  <2>3. buf' \in [Zocalos -> Bufer]
    BY <2>1, <2>2
  <2> QED
    BY <1>1, <1>2, <2>3 DEF EspTipos, Puntos
<1>9. EspControl'
  <2>1. ii > 0 => Len(buf'[1].msgs) = Len(buf[1].msgs)
    BY <1>0, <1>4, <1>7
  <2>2. ii = 0 => Quieto(2)' /\ ~ eerror'[2]
    BY <1>1, <1>2 DEF EspControl, Quieto
  <2>3. SinZocalo'
    BY <1>1, <1>2 DEF SinZocalo, Quieto
  <2> QED
    BY <1>1, <1>2, <1>7, <2>1, <2>2, <2>3 DEF EspControl
<1>10. LecturaDe(z)'
  <2>1. Quieto(z)' /\ ~ eerror'[z] /\ eresto'[z] # "mudo" /\ eresto'[z] = "nada"
    BY <1>1, <1>2, <1>3 DEF Quieto
  <2> QED
    BY <1>7, <2>1 DEF LecturaDe
<1>11. LecturaDe(w)'
  <2>1. eresto[w] # "mudo"
    BY <1>z, <1>w, <1>2 DEF LecturaDe, Mudo
  <2>2. Leido(w)' => Leido(w)
    <3>1. ii # 0 => ii > 0
      BY <1>2 DEF EspTipos
    <3> QED
      BY <1>0, <1>w, <1>1, <1>2, <3>1 DEF Leido
  <2> QED
    BY <1>w, <1>1, <1>2, <1>4, <2>1, <2>2, OtroZocalo
<1> QED
  BY <1>0, <1>8, <1>9, <1>10, <1>11 DEF EInv

LEMMA LeeRutasE ==
  ASSUME EInv, read_reply
  PROVE  EInv'
<1>1. /\ ep = "lee" /\ programa = "ex2" /\ ep' = "cierra"
      /\ lineas' = Escoge(Legibles(buf[1]), {m \in Range(Legibles(buf[1])) : m[1] = TablaMain})
      /\ UNCHANGED <<programa, abiertos, ecola, eresto, eerror, mandado, buf, ii, ip>>
  BY DEF read_reply
<1>2. EspTipos /\ EspControl
  BY DEF EInv
<1>3. ii = 0
  <2>1. ~ ii > 0
    BY <1>1, <1>2 DEF EspControl
  <2> QED
    BY <1>2, <2>1 DEF EspTipos
<1>4. lineas' \in Seq(Leibles)
  <2>1. Legibles(buf[1]) \in Seq(Leibles)
    BY <1>2, LegiblesDe DEF EspTipos, Zocalos
  <2> QED
    BY <1>1, <2>1, EscogeTipo
<1>5. EspTipos'
  BY <1>1, <1>2, <1>4 DEF EspTipos, Puntos
<1>6. EspControl'
  BY <1>1, <1>2, <1>3 DEF EspControl, SinZocalo, Zocalo, Quieto
<1>7. ASSUME NEW z \in Zocalos PROVE LecturaDe(z)'
  <2>1. eresto[z] # "mudo" /\ LecturaDe(z)
    BY <1>1, SinMudos DEF EInv
  <2>2. Leido(z)' => Leido(z)
    BY <1>1, <1>3 DEF Leido
  <2> QED
    BY <1>1, <2>1, <2>2, OtroZocalo
<1> QED
  BY <1>5, <1>6, <1>7 DEF EInv

LEMMA SiguienteE ==
  ASSUME EInv, read_reply_getlink
  PROVE  EInv'
<1>1. /\ ep = "lee" /\ programa = "ex1" /\ ii = 0
      /\ UNCHANGED <<programa, abiertos, ecola, eresto, eerror, mandado, buf, ip, lineas>>
      /\ \/ Len(lineas) < Len(Legibles(buf[1])) /\ ii' = Len(lineas) + 1 /\ ep' = "abre"
         \/ ep' = "cierra" /\ ii' = ii
  BY DEF read_reply_getlink
<1>2. EspTipos /\ EspControl /\ Quieto(2) /\ ~ eerror[2]
  BY <1>1 DEF EInv, EspControl
<1>3. /\ Len(lineas) \in Nat /\ Len(buf[1].msgs) \in Nat /\ Len(Legibles(buf[1])) \in Nat
      /\ Len(Legibles(buf[1])) <= Len(buf[1].msgs)
  <2>1. buf[1] \in Bufer
    BY <1>2 DEF EspTipos, Zocalos
  <2> QED
    BY <1>2, <2>1, LegiblesDe DEF EspTipos, Bufer
<1>4. ii' \in Nat /\ (ii' > 0 => ii' <= Len(buf[1].msgs) /\ ep' = "abre") /\ (ep' = "abre" => ii' # 0) /\ (ep' = "cierra" => ii' = 0)
  BY <1>1, <1>3
<1>5. EspTipos'
  BY <1>1, <1>2, <1>4 DEF EspTipos, Puntos
<1>6. EspControl'
  <2>1. ep' = "abre" => Zocalo' = 2
    BY <1>4 DEF Zocalo
  <2>2. ep' \in {"abre", "cierra"}
    BY <1>1
  <2> QED
    BY <1>1, <1>2, <1>4, <2>1, <2>2 DEF EspControl, SinZocalo, Quieto
<1>7. ASSUME NEW z \in Zocalos PROVE LecturaDe(z)'
  <2>1. eresto[z] # "mudo" /\ LecturaDe(z)
    BY <1>1, SinMudos DEF EInv
  <2>2. Leido(z)' => Leido(z)
    BY <1>1 DEF Leido
  <2> QED
    BY <1>1, <2>1, <2>2, OtroZocalo
<1> QED
  BY <1>5, <1>6, <1>7 DEF EInv

\* What a reading that is over has in its buffer.
LEMMA Recogido ==
  ASSUME EInv, NEW z \in Zocalos, Leido(z)
  PROVE  eresto[z] # "mudo" /\ Recibido(buf[z], mandado[z], Len(mandado[z]))
<1>1. EspTipos /\ LecturaDe(z)
  BY DEF EInv
<1>2. eresto[z] # "mudo"
  <2>1. ii > 0 => ii # 0
    BY <1>1 DEF EspTipos
  <2>2. ~ Mudo(z)
    BY <2>1 DEF Mudo, Leido, Zocalo
  <2> QED
    BY <1>1, <2>2 DEF LecturaDe
<1>3. Fiel(z) /\ mandado[z] \in Seq(Enviables) /\ buf[z] \in Bufer /\ (buf[z].total = BUFSIZE \/ Quieto(z))
  BY <1>1, <1>2 DEF LecturaDe, EspTipos
<1>4. PICK r \in Nat : Recibido(buf[z], mandado[z], r) /\ Resto1(ecola[z], mandado[z], r)
  BY <1>3 DEF Fiel
<1>5. CASE Quieto(z)
  BY <1>1, <1>2, <1>3, <1>5, TodoRecibido DEF Quieto
<1>6. CASE buf[z].total = BUFSIZE
  <2>1. r <= Len(mandado[z]) /\ Len(mandado[z]) \in Nat
    BY <1>3, <1>4 DEF Resto1
  <2>2. ~ buf[z].total < BUFSIZE
    BY <1>6, EspAssumption
  <2>3. Len(buf[z].msgs) <= Len(mandado[z])
    BY <1>3, <1>4, <2>1 DEF Recibido, Bufer
  <2> QED
    BY <1>2, <1>4, <2>2, <2>3 DEF Recibido
<1> QED
  BY <1>3, <1>5, <1>6

LEMMA DireccionE ==
  ASSUME EInv, get_interface_ip
  PROVE  EInv'
<1>1. /\ ep = "lee" /\ programa = "ex1" /\ ii > 0 /\ ep' = "linea"
      /\ ip' = UltimaDe(Legibles(buf[2]), buf[1].msgs[ii][1])
      /\ abiertos' = abiertos \ {2}
      /\ ecola' = [ecola EXCEPT ![2] = <<>>]
      /\ eresto' = [eresto EXCEPT ![2] = "nada"]
      /\ eerror' = [eerror EXCEPT ![2] = FALSE]
      /\ UNCHANGED <<programa, mandado, buf, ii, lineas>>
  BY DEF get_interface_ip
<1>2. EspTipos /\ EspControl /\ LecturaDe(1) /\ 1 \in Zocalos /\ 2 \in Zocalos /\ Zocalos = {1, 2}
  BY DEF EInv, Zocalos
<1>3. /\ ecola'[2] = <<>> /\ eresto'[2] = "nada" /\ ~ eerror'[2]
      /\ ecola'[1] = ecola[1] /\ eresto'[1] = eresto[1] /\ eerror'[1] = eerror[1]
  BY <1>1, <1>2 DEF EspTipos
<1>4. EspTipos'
  <2>1. ecola' \in [Zocalos -> Seq(Seq(Leibles \cup {DONE}))]
    <3>1. <<>> \in Seq(Seq(Leibles \cup {DONE}))
      OBVIOUS
    <3> QED
      BY <1>1, <1>2, <3>1 DEF EspTipos
  <2> QED
    BY <1>1, <1>2, <2>1 DEF EspTipos, Puntos
<1>5. EspControl'
  BY <1>1, <1>2, <1>3 DEF EspControl, SinZocalo, Quieto
<1>6. LecturaDe(1)'
  <2>1. Leido(1) /\ eresto[1] # "mudo"
    BY <1>1, <1>2, SinMudos DEF Leido
  <2> QED
    BY <1>1, <1>2, <1>3, <2>1, OtroZocalo
<1>7. LecturaDe(2)'
  <2>1. Leido(2)
    BY <1>1 DEF Leido
  <2>2. Recibido(buf'[2], mandado'[2], Len(mandado'[2])) /\ Len(mandado'[2]) \in Nat
    BY <1>1, <1>2, <2>1, Recogido DEF EspTipos
  <2>3. Resto1(<<>>, mandado'[2], Len(mandado'[2]))
    BY DEF Resto1
  <2>4. Fiel(2)'
    BY <1>3, <2>2, <2>3, Zenon DEF Fiel
  <2> QED
    BY <1>3, <2>4 DEF LecturaDe, Quieto
<1> QED
  BY <1>2, <1>4, <1>5, <1>6, <1>7 DEF EInv

LEMMA LineaE ==
  ASSUME EInv, Linea
  PROVE  EInv'
<1>1. /\ ep = "linea" /\ ep' = "lee" /\ ii' = 0 /\ ip' = SinIP
      /\ lineas' = Append(lineas, buf[1].msgs[ii])
      /\ buf' = [buf EXCEPT ![2] = Vacio] /\ mandado' = [mandado EXCEPT ![2] = <<>>]
      /\ UNCHANGED <<programa, abiertos, ecola, eresto, eerror>>
  BY DEF Linea
<1>2. /\ EspTipos /\ EspControl /\ LecturaDe(1) /\ 1 \in Zocalos /\ 2 \in Zocalos /\ Zocalos = {1, 2}
      /\ ii > 0 /\ ii <= Len(buf[1].msgs) /\ Quieto(2) /\ ~ eerror[2]
  BY <1>1 DEF EInv, EspControl, Zocalos
<1>3. buf'[2] = Vacio /\ mandado'[2] = <<>> /\ buf'[1] = buf[1] /\ mandado'[1] = mandado[1]
  BY <1>1, <1>2 DEF EspTipos
<1>4. EspTipos'
  <2>1. Vacio \in Bufer
    BY BuferVacio
  <2>2. buf[1].msgs[ii] \in Leibles
    BY <1>2 DEF EspTipos, Bufer
  <2>3. lineas' \in Seq(Leibles)
    BY <1>1, <1>2, <2>2 DEF EspTipos
  <2>4. buf' \in [Zocalos -> Bufer]
    BY <1>1, <1>2, <2>1 DEF EspTipos
  <2>5. mandado' \in [Zocalos -> Seq(Enviables)]
    BY <1>1, <1>2 DEF EspTipos
  <2> QED
    BY <1>1, <1>2, <2>3, <2>4, <2>5 DEF EspTipos, Puntos
<1>5. EspControl'
  BY <1>1, <1>2, <1>3 DEF EspControl, SinZocalo, Quieto, Zocalo
<1>6. LecturaDe(1)'
  <2>1. Leido(1) /\ eresto[1] # "mudo"
    BY <1>1, <1>2, SinMudos DEF Leido
  <2> QED
    BY <1>1, <1>2, <1>3, <2>1, OtroZocalo
<1>7. LecturaDe(2)'
  <2>1. Fiel(2)'
    BY <1>1, <1>2, <1>3, NadaRecibido DEF Quieto
  <2> QED
    BY <1>1, <1>2, <2>1 DEF LecturaDe, Quieto
<1> QED
  BY <1>2, <1>4, <1>5, <1>6, <1>7 DEF EInv

LEMMA CierraE ==
  ASSUME EInv, Cierra
  PROVE  EInv'
<1>1. /\ ep = "cierra" /\ ep' = "fin" /\ abiertos' = abiertos \ {1}
      /\ UNCHANGED <<programa, ecola, eresto, eerror, mandado, buf, ii, ip, lineas>>
  BY DEF Cierra
<1>2. EspTipos /\ EspControl
  BY DEF EInv
<1>3. EspTipos'
  BY <1>1, <1>2 DEF EspTipos, Puntos
<1>4. EspControl'
  BY <1>1, <1>2 DEF EspControl, SinZocalo, Quieto, Zocalo
<1>5. ASSUME NEW z \in Zocalos PROVE LecturaDe(z)'
  <2>1. eresto[z] # "mudo" /\ LecturaDe(z)
    BY <1>1, SinMudos DEF EInv
  <2>2. Leido(z)' => Leido(z)
    BY <1>1 DEF Leido
  <2> QED
    BY <1>1, <2>1, <2>2, OtroZocalo
<1> QED
  BY <1>3, <1>4, <1>5 DEF EInv

LEMMA EspPaso == EVive /\ [EspNext]_evars => EVive'
<1> SUFFICES ASSUME EVive, [EspNext]_evars PROVE EVive'
  OBVIOUS
<1>1. CASE EInv /\ EspNext
  <2>1. CASE recv_reply \/ recv_sin_zocalo
    <3>1. ep' = "muerto" => Muerto'
      BY <2>1 DEF recv_reply, recv_sin_zocalo, Muere, Muerto
    <3>2. ep' # "muerto" => EInv'
      BY <1>1, <2>1, RecibeE, CaeE
    <3> QED
      BY <3>1, <3>2 DEF EVive
  <2>2. CASE ~ (recv_reply \/ recv_sin_zocalo)
    <3>1. EInv'
      BY <1>1, <2>2, AbreE, PideE, FallaE, LeeRutasE, SiguienteE, DireccionE, LineaE, CierraE, SigueE
         DEF EspNext, EspPrograma
    <3> QED
      BY <3>1 DEF EVive
  <2> QED
    BY <2>1, <2>2
<1>2. CASE EInv /\ UNCHANGED evars
  <2>1. /\ ep' = ep /\ ii' = ii /\ ip' = ip /\ programa' = programa /\ abiertos' = abiertos
        /\ ecola' = ecola /\ eresto' = eresto /\ eerror' = eerror /\ mandado' = mandado
        /\ buf' = buf /\ lineas' = lineas
    BY <1>2 DEF evars
  <2>2. EspTipos' /\ EspControl'
    BY <1>2, <2>1 DEF EInv, EspTipos, EspControl, SinZocalo, Quieto, Zocalo
  <2>3. \A z \in Zocalos : LecturaDe(z)'
    BY <1>2, <2>1, OtroZocalo DEF EInv, Leido
  <2> QED
    BY <2>2, <2>3 DEF EVive, EInv
<1>3. CASE Muerto
  <2>1. ~ EspNext
    BY <1>3 DEF Muerto, EspNext, EspPrograma, open_netlink_socket, send_request, recv_reply, recv_falla,
                recv_sin_zocalo, read_reply, read_reply_getlink, get_interface_ip, Linea, Cierra
  <2> QED
    BY <1>3, <2>1 DEF EVive, Muerto, evars
<1> QED
  BY <1>1, <1>2, <1>3 DEF EVive

LEMMA EspEmpieza == EspInit => EVive
BY EspInicio DEF EVive

\* Which of the messages sent on a socket a reading that is over leaves to be
\* listed.
LEMMA Listado ==
  ASSUME EInv, NEW z \in Zocalos, Leido(z)
  PROVE  LET b == buf[z]  m == Legibles(b)  e == mandado[z]
         IN  /\ m \in Seq(Leibles) /\ Len(m) \in Nat /\ e \in Seq(Enviables) /\ Len(e) \in Nat
             /\ Len(m) <= Len(e)
             /\ \A k \in 1..Len(m) :
                  \/ m[k] = e[k]
                  \/ b.corrido /\ k = Len(b.msgs) /\ m[k] = <<e[k][1], Alterado>>
             /\ b.corrido => b.fallos > 0
             /\ Len(m) < Len(e) => b.fallos > 0 \/ b.total = BUFSIZE
             /\ Len(m) + 1 < Len(e) => b.corrido \/ b.total = BUFSIZE
<1> DEFINE b == buf[z]  m == Legibles(b)  e == mandado[z]
           n == Len(e)  l == Len(m)  t == b.total \div Largo
<1>1. b \in Bufer /\ e \in Seq(Enviables) /\ n \in Nat /\ Len(b.msgs) \in Nat
  BY DEF EInv, EspTipos, Bufer
<1>2. Recibido(b, e, n)
  BY Recogido
<1>3. /\ m \in Seq(Leibles) /\ l \in Nat /\ l <= Len(b.msgs)
      /\ \A k \in 1..l : m[k] = b.msgs[k]
      /\ \A k \in 0..Len(b.msgs) : k <= t => k <= l
  BY <1>1, LegiblesDe
<1>4. /\ b.fallos \in Nat /\ MaxFallos \in Nat /\ Largo \in Nat \ {0} /\ MaxFallos < Largo
      /\ b.total = BUFSIZE \/ b.total < BUFSIZE
  BY <1>1, EspAssumption DEF Bufer, Totales
<1> HIDE DEF b, m, e, n, l, t
<1>5. l <= n
  BY <1>1, <1>2, <1>3 DEF Recibido
<1>6. \A k \in 1..l : m[k] = e[k] \/ (b.corrido /\ k = Len(b.msgs) /\ m[k] = <<e[k][1], Alterado>>)
  BY <1>1, <1>2, <1>3 DEF Recibido
<1>7. b.corrido => b.fallos > 0
  BY <1>2 DEF Recibido
<1>8. ASSUME ~ b.corrido, b.total # BUFSIZE
      PROVE  n <= l + 1 /\ (b.fallos = 0 => n <= l)
  <2>1. Len(b.msgs) = n /\ b.total = Largo * n - b.fallos /\ (b.fallos < Largo \/ n = 0)
    BY <1>1, <1>2, <1>4, <1>8 DEF Recibido
  <2>2. CASE n = 0
    BY <1>3, <2>2
  <2>3. CASE n # 0
    <3>1. t \in Int /\ n - 1 <= t /\ (b.fallos = 0 => n <= t)
      BY <1>1, <1>4, <2>1, <2>3, Alcanza DEF t
    <3>2. n - 1 \in 0..Len(b.msgs) /\ n \in 0..Len(b.msgs)
      BY <1>1, <2>1, <2>3
    <3>3. n - 1 <= l /\ (b.fallos = 0 => n <= l)
      BY <1>3, <3>1, <3>2
    <3> QED
      BY <1>1, <1>3, <3>3
  <2> QED
    BY <2>2, <2>3
<1>9. /\ l < n => b.fallos > 0 \/ b.total = BUFSIZE
      /\ l + 1 < n => b.corrido \/ b.total = BUFSIZE
  <2>1. b.fallos # 0 => b.fallos > 0
    BY <1>4
  <2>2. (l < n => ~ n <= l) /\ (l + 1 < n => ~ n <= l + 1)
    BY <1>1, <1>3
  <2> QED
    BY <1>7, <1>8, <2>1, <2>2
<1> QED
  BY <1>1, <1>3, <1>5, <1>6, <1>7, <1>9 DEF b, m, e, n, l

\* What a reader finds in its buffer is the beginning of what the kernel sent on
\* that socket, and all of it unless the 8192 bytes were filled or a recv failed,
\* which costs one message, the last, or what came after it (recv_reply).
THEOREM FaithfulList == EspSpec => []ListaFiel
<1>1. EVive => ListaFiel
  <2>1. Muerto => ListaFiel
    BY DEF Muerto, ListaFiel, Leido
  <2>2. EInv => ListaFiel
    BY Listado, Zenon DEF ListaFiel
  <2> QED
    BY <2>1, <2>2 DEF EVive
<1> QED
  BY <1>1, EspEmpieza, EspPaso, PTL DEF EspSpec

\* The address a line ends with is one the kernel gave for that interface;
\* it is empty only if the kernel gave none, a recv failed, or the answer was
\* cut (get_interface_ip).
THEOREM OwnAddress == EspSpec => []DireccionSuya
<1>1. EVive => DireccionSuya
  <2> SUFFICES ASSUME EVive, ep = "linea" PROVE DireccionSuya
    BY DEF DireccionSuya
  <2>0. EInv
    BY DEF EVive, Muerto
  <2> DEFINE i == buf[1].msgs[ii][1]
             m == Legibles(buf[2])
             e == mandado[2]
             S == {x \in Range(m) : x[1] = i}
             suyas == Escoge(m, S)
  <2>1. ii > 0 /\ ip = UltimaDe(m, i) /\ 2 \in Zocalos
    BY <2>0 DEF EInv, EspControl, Zocalos
  <2>3. /\ m \in Seq(Leibles) /\ e \in Seq(Enviables) /\ Len(m) \in Nat /\ Len(e) \in Nat
        /\ Len(m) <= Len(e)
        /\ \A k \in 1..Len(m) : m[k] = e[k] \/ (buf[2].corrido /\ m[k] = <<e[k][1], Alterado>>)
        /\ Len(m) < Len(e) => buf[2].fallos > 0 \/ buf[2].total = BUFSIZE
        /\ buf[2].corrido => buf[2].fallos > 0
    <3>1. Leido(2)
      BY <2>1 DEF Leido
    <3> QED
      BY <2>0, <2>1, <3>1, Listado
  <2>4. ip = IF suyas = <<>> THEN SinIP ELSE suyas[Len(suyas)][2]
    BY <2>1 DEF UltimaDe, Last
  <2>5. suyas \in Seq(Leibles)
    <3> HIDE DEF m, S
    <3> QED
      BY <2>3, EscogeTipo
  <2>6. \A k \in 1..Len(m) : /\ k \in 1..Len(e) /\ e[k] \in Enviables
                             /\ m[k] = e[k] \/ (buf[2].corrido /\ m[k] = <<e[k][1], Alterado>>)
    <3> HIDE DEF m, e
    <3> QED
      BY <2>3
  <2>9. /\ \A j \in 1..Len(suyas) : suyas[j] \in S /\ \E k \in 1..Len(m) : m[k] = suyas[j]
        /\ \A k \in 1..Len(m) : m[k] \in S => \E j \in 1..Len(suyas) : suyas[j] = m[k]
    <3> HIDE DEF m, S
    <3> QED
      BY <2>3, EscogeElementos, EscogeGuarda
  <2>7. CASE suyas # <<>>
    <3> DEFINE n == Len(suyas)
    <3>1. n \in 1..Len(suyas)
      BY <2>5, <2>7
    <3>2. suyas[n] \in S /\ \E k \in 1..Len(m) : m[k] = suyas[n]
      BY <2>9, <3>1
    <3>3. PICK k \in 1..Len(m) : m[k] = suyas[n]
      BY <3>2
    <3> HIDE DEF suyas, n
    <3>4. m[k][1] = i /\ ip = m[k][2]
      BY <2>4, <2>7, <3>2, <3>3 DEF n
    <3>5. m[k] = e[k] => <<i, ip>> = e[k]
      <4>1. e[k] = <<e[k][1], e[k][2]>>
        BY <2>6 DEF Enviables
      <4> QED
        BY <3>4, <4>1
    <3>6. m[k] = <<e[k][1], Alterado>> => ip = Alterado
      BY <3>4
    <3>7. k \in DOMAIN e
      BY <2>3, <2>6
    <3> QED
      BY <2>6, <3>5, <3>6, <3>7 DEF DireccionSuya
  <2>8. CASE suyas = <<>>
    <3>1. ip = SinIP
      BY <2>4, <2>8
    <3>2. ASSUME ~ buf[2].fallos > 0, buf[2].total # BUFSIZE, NEW k \in DOMAIN e
          PROVE  e[k][1] # i
      <4>1. Len(m) = Len(e)
        <5> HIDE DEF m, e
        <5> QED
          BY <2>3, <3>2
      <4>2. k \in 1..Len(m) /\ m[k] = e[k]
        <5> HIDE DEF m, e
        <5> QED
          BY <2>3, <2>6, <3>2, <4>1
      <4>3. e[k][1] = i => m[k] \in S
        <5> HIDE DEF m, e
        <5> QED
          BY <2>3, <4>2 DEF Range
      <4>4. m[k] \notin S
        <5>1. m[k] \in S => \E j \in 1..Len(suyas) : suyas[j] = m[k]
          BY <2>9, <4>2
        <5>2. Len(suyas) = 0
          BY <2>8
        <5> HIDE DEF suyas
        <5> QED
          BY <5>1, <5>2
      <4> QED
        BY <4>3, <4>4
    <3> QED
      BY <3>1, <3>2 DEF DireccionSuya
  <2> QED
    BY <2>7, <2>8
<1> QED
  BY <1>1, EspEmpieza, EspPaso, PTL DEF EspSpec
----------------------------------------------------------------------------
(***************************************************************************)
(* iproute_get.  It is a caller of the library like any other, so that the *)
(* invariants above are its own, and it leaves nothing behind: the first   *)
(* call of the handle is a dump, number 1, and its questions are numbers 2 *)
(* and 3.                                                                  *)
(***************************************************************************)

EnPaso ==
  \/ paso \in {"inicio", "abre"} /\ fase = "cerrado"
  \/ paso = "mapa" /\ fase = "libre" /\ rth.seq = 0
  \/ paso = "mapa3" /\ fase = "filtra" /\ rth.seq = 1
  \/ paso = "pregunta" /\ fase = "libre" /\ rth.seq = 1
  \/ paso = "oye" /\ fase = "habla" /\ rth.seq = 2 /\ hablo = [sec |-> 2, answer |-> TRUE]
  \/ paso = "imprime" /\ fase = "libre" /\ rth.seq = 2 /\ 2 \in hecho
  \/ paso = "repite" /\ fase = "libre" /\ rth.seq = 2 /\ 2 \in hecho
  \/ paso = "reoye" /\ fase = "habla" /\ 2 \in hecho /\ hablo = [sec |-> 3, answer |-> TRUE]
  \/ paso = "fin" /\ fase \in {"cerrado", "libre"}

Consulta ==
  /\ restos = FALSE
  /\ (paso = "mapa2" /\ fase = "libre" /\ rth.seq = 1) \/ (~ pedido /\ EnPaso)
  /\ salida = "0" => paso = "fin" /\ fase = "libre" /\ {2, 3} \subseteq hecho

QInv == quien = "iproute_get" => IInv /\ LInv /\ Consulta

\* A step of any caller of the library is one of LibNext.
LEMMA DeLaBiblioteca ==
  ASSUME IInv, LInv, [LibNext]_libvars, ~ restos'
  PROVE  /\ IInv' /\ LInv' /\ fase' # "gira"
         /\ fase' = "libre" /\ ret'.op = "talk" /\ ret'.valor = 0 => hablo'.sec \in hecho'
<1>1. IInv' /\ LInv'
  BY Paso, PasoL
<1> QED
  BY <1>1 DEF LInv, IInv, RespuestaPropia

LEMMA ConsultaAbre ==
  ASSUME IInv, LInv, Consulta, iproute_reset_filter \/ Abre
  PROVE  IInv' /\ LInv' /\ Consulta'
<1>1. CASE iproute_reset_filter
  <2>1. /\ paso = "inicio" /\ UNCHANGED libvars
        /\ \/ paso' = "abre" /\ salida' = salida
           \/ paso' = "fin" /\ salida' = "exit"
    BY <1>1 DEF iproute_reset_filter, Va, Termina
  <2>2. UNCHANGED <<restos, fase, pedido, rth>>
    BY <2>1 DEF libvars, nucleo, manejo
  <2>3. IInv' /\ LInv'
    BY <2>1, Paso, PasoL
  <2> QED
    BY <2>1, <2>2, <2>3 DEF Consulta, EnPaso
<1>2. CASE Abre
  <2>1. /\ paso = "abre" /\ rtnl_open(FALSE)
        /\ IF ret'.valor < 0 THEN Termina("1") ELSE Va("mapa")
    BY <1>2 DEF Abre
  <2>2. IInv' /\ LInv'
    <3>1. LibNext
      BY <2>1 DEF LibNext, LibLlama
    <3> QED
      BY <3>1, Paso, PasoL
  <2>3. /\ UNCHANGED pedido /\ restos' = FALSE
        /\ \/ fase' = "libre" /\ rth'.seq = 0 /\ ret'.valor = 0
           \/ fase' = fase /\ ret'.valor = -1
    <3>1. rth \in [seq : Nat, dump : Nat, grupos : BOOLEAN]
      BY DEF IInv, LibTipos
    <3> DEFINE n == [Nada EXCEPT !.op = "open", !.valor = -1]
               h == [rth EXCEPT !.seq = 0, !.grupos = FALSE]
    <3>2. n.valor = -1
      BY DEF Nada
    <3>3. h.seq = 0
      BY <3>1
    <3> HIDE DEF n, h
    <3>4. /\ UNCHANGED pedido
          /\ \/ rth' = h /\ restos' = FALSE /\ fase' = "libre" /\ ret' = [op |-> "open", valor |-> 0, dato |-> <<>>]
             \/ ret' = n /\ UNCHANGED <<rth, restos, fase>>
      BY <2>1 DEF rtnl_open, Devuelve, n, h
    <3> QED
      BY <3>2, <3>3, <3>4 DEF Consulta
  <2> QED
    BY <2>1, <2>2, <2>3 DEF Consulta, EnPaso, Va, Termina
<1> QED
  BY <1>1, <1>2

LEMMA ConsultaMapa ==
  ASSUME IInv, LInv, Consulta, ll_init_map
  PROVE  IInv' /\ LInv' /\ Consulta'
<1>0. rth \in [seq : Nat, dump : Nat, grupos : BOOLEAN]
  BY DEF IInv, LibTipos
<1>1. CASE paso = "mapa" /\ rtnl_dump_request /\ IF ret'.valor < 0 THEN Termina("exit") ELSE Va("mapa2")
  <2>1. fase = "libre" /\ ~ pedido /\ rth.seq = 0 /\ salida # "0" /\ restos = FALSE
    BY <1>1 DEF Consulta, EnPaso
  <2>2. IInv' /\ LInv'
    <3>1. LibNext
      BY <1>1, <2>1 DEF LibNext, LibLlama
    <3> QED
      BY <3>1, Paso, PasoL
  <2>3. /\ UNCHANGED <<fase, restos>> /\ rth'.seq = 1
        /\ \/ ret'.valor = 0
           \/ ret'.valor = -1 /\ UNCHANGED pedido
    <3> DEFINE n == [Nada EXCEPT !.op = "pide"]
               v == [Nada EXCEPT !.op = "pide", !.valor = -1]
               h == [rth EXCEPT !.seq = rth.seq + 1, !.dump = rth.seq + 1]
    <3>1. n.valor = 0 /\ v.valor = -1
      BY DEF Nada
    <3>2. h.seq = 1
      <4>1. PICK x : x = [rth EXCEPT !.seq = rth.seq + 1] /\ h = [x EXCEPT !.dump = rth.seq + 1]
        BY Zenon
      <4>2. x \in [seq : Nat, dump : Nat, grupos : BOOLEAN] /\ x.seq = 1
        BY <1>0, <2>1, <4>1
      <4> HIDE DEF h
      <4> QED
        BY <4>1, <4>2
    <3> HIDE DEF n, v, h
    <3>3. /\ rth' = h /\ UNCHANGED <<fase, restos>>
          /\ \/ ret' = n
             \/ ret' = v /\ UNCHANGED pedido
      BY <1>1 DEF rtnl_dump_request, n, v, h
    <3> QED
      BY <3>1, <3>2, <3>3
  <2> QED
    BY <1>1, <2>1, <2>2, <2>3 DEF Consulta, EnPaso, Va, Termina
<1>2. CASE paso = "mapa2" /\ llama_dump_filter(FALSE) /\ Va("mapa3")
  <2>1. IInv' /\ LInv'
    <3>1. LibNext
      BY <1>2 DEF LibNext, LibLlama
    <3> QED
      BY <3>1, Paso, PasoL
  <2>2. fase' = "filtra" /\ ~ pedido' /\ UNCHANGED <<rth, restos>>
    BY <1>2 DEF llama_dump_filter
  <2> QED
    BY <1>2, <2>1, <2>2 DEF Consulta, EnPaso, Va
<1>3. CASE /\ paso = "mapa3" /\ rtnl_dump_filter(0) /\ Llegan(Tail(cola), <<>>)
           /\ UNCHANGED <<rth, hecho, restos>>
           /\ IF fase' # "libre" THEN Va("mapa3")
              ELSE IF ret'.valor < 0 THEN Termina("exit") ELSE Va("pregunta")
  <2>1. fase = "filtra" /\ ~ pedido /\ rth.seq = 1 /\ salida # "0" /\ restos = FALSE
    BY <1>3 DEF Consulta, EnPaso
  <2>2. IInv' /\ LInv'
    <3>1. cola # <<>> /\ 0 \in Cortes(Head(cola)) /\ restos' = (restos \/ 0 > 0)
      <4>1. ~ (0 > 0)
        OBVIOUS
      <4>2. restos' = (restos \/ 0 > 0)
        BY <1>3, <2>1, <4>1, Zenon
      <4> QED
        BY <1>3, <4>2 DEF Cortes, rtnl_dump_filter
    <3>2. LibNext
      BY <1>3, <3>1 DEF LibNext, Lee
    <3> QED
      BY <3>2, Paso, PasoL
  <2>3. /\ UNCHANGED <<pedido, restos, rth>>
        /\ fase' = "filtra" \/ fase' = "libre"
    BY <1>3 DEF rtnl_dump_filter, Devuelve
  <2> QED
    BY <1>3, <2>1, <2>2, <2>3 DEF Consulta, EnPaso, Va, Termina
<1> QED
  BY <1>1, <1>2, <1>3 DEF ll_init_map, rtnl_wilddump_request

LEMMA ConsultaPregunta ==
  ASSUME IInv, LInv, Consulta, Pregunta
  PROVE  IInv' /\ LInv' /\ Consulta'
<1>0. rth \in [seq : Nat, dump : Nat, grupos : BOOLEAN]
  BY DEF IInv, LibTipos
<1>1. /\ paso \in {"pregunta", "repite"} /\ llama_talk("GET", TRUE, FALSE)
      /\ IF ret'.valor < 0 THEN Termina("2") ELSE Va(IF paso = "pregunta" THEN "oye" ELSE "reoye")
  BY DEF Pregunta
<1>2. /\ fase = "libre" /\ ~ pedido /\ salida # "0" /\ restos = FALSE
      /\ \/ paso = "pregunta" /\ rth.seq = 1
         \/ paso = "repite" /\ rth.seq = 2 /\ 2 \in hecho
  BY <1>1 DEF Consulta, EnPaso
<1>3. IInv' /\ LInv'
  <2>1. LibNext
    BY <1>1, <1>2 DEF LibNext, LibLlama
  <2> QED
    BY <2>1, Paso, PasoL
<1>4. /\ UNCHANGED <<pedido, restos>> /\ hecho \subseteq hecho'
      /\ rth'.seq = rth.seq + 1 /\ hablo' = [sec |-> rth.seq + 1, answer |-> TRUE]
      /\ \/ fase' = "habla" /\ ret'.valor = 0
         \/ fase' = "libre" /\ ret'.valor = -1
  BY <1>0, <1>1 DEF llama_talk, Devuelve, Nada
<1>6. CASE ret'.valor = -1
  BY <1>1, <1>2, <1>3, <1>4, <1>6 DEF Consulta, EnPaso, Termina
<1>7. CASE fase' = "habla" /\ ret'.valor = 0
  <2>1. salida' = salida /\ paso' = (IF paso = "pregunta" THEN "oye" ELSE "reoye")
    BY <1>1, <1>7 DEF Va
  <2>2. EnPaso'
    <3>1. CASE paso = "pregunta" /\ rth.seq = 1
      BY <1>4, <1>7, <2>1, <3>1 DEF EnPaso
    <3>2. CASE paso = "repite" /\ rth.seq = 2 /\ 2 \in hecho
      BY <1>4, <1>7, <2>1, <3>2 DEF EnPaso
    <3> QED
      BY <1>2, <3>1, <3>2
  <2> QED
    BY <1>2, <1>3, <1>4, <2>1, <2>2 DEF Consulta
<1> QED
  BY <1>4, <1>6, <1>7

LEMMA ConsultaOye ==
  ASSUME IInv, LInv, Consulta, Oye
  PROVE  IInv' /\ LInv' /\ Consulta'
<1>1. /\ paso \in {"oye", "reoye"} /\ rtnl_talk
      /\ IF fase' # "libre" THEN Va(paso)
         ELSE IF ret'.valor < 0 THEN Termina("2")
         ELSE IF paso = "oye" THEN Va("imprime") ELSE Termina("0")
  BY DEF Oye
<1>2. /\ fase = "habla" /\ ~ pedido /\ salida # "0" /\ restos = FALSE /\ hablo.answer
      /\ \/ paso = "oye" /\ rth.seq = 2 /\ hablo = [sec |-> 2, answer |-> TRUE]
         \/ paso = "reoye" /\ 2 \in hecho /\ hablo = [sec |-> 3, answer |-> TRUE]
  BY <1>1 DEF Consulta, EnPaso
<1>3. /\ UNCHANGED <<pedido, rth, hablo, hecho>> /\ restos' = FALSE
      /\ \/ fase' = "habla"
         \/ fase' = "gira"
         \/ fase' = "libre" /\ ret'.op = "talk" /\ ret'.valor \in {0, -1}
  <2> DEFINE k == SelectInSeq(Head(cola).msgs, Para)
             m == Head(cola).msgs[k]
             medio == Head(cola).corte = "medio"
  <2> HIDE DEF k, m, medio
  <2>1. /\ UNCHANGED <<pedido, rth, hablo, hecho>>
        /\ \/ Devuelve("talk", -1, <<>>) /\ restos' = (restos \/ ~ hablo.answer)
           \/ Devuelve("talk", -1, <<>>) /\ UNCHANGED restos
           \/ Devuelve("talk", 0, <<m>>) /\ UNCHANGED restos
           \/ UNCHANGED <<fase, restos>>
           \/ fase' = "gira" /\ UNCHANGED restos
    <3>1. /\ UNCHANGED <<pedido, rth, hablo, hecho>>
          /\ IF k = 0
             THEN IF medio
                  THEN Devuelve("talk", -1, <<>>) /\ restos' = (restos \/ ~ hablo.answer)
                  ELSE UNCHANGED <<fase, corta, ret, restos>>
             ELSE /\ UNCHANGED restos
                  /\ CASE DeOtro(m) /\ corta -> Devuelve("talk", -1, <<>>)
                       [] DeOtro(m) /\ ~corta -> fase' = "gira" /\ UNCHANGED <<corta, ret>>
                       [] ~DeOtro(m) /\ m.tipo = "ERROR" -> Devuelve("talk", -1, <<>>)
                       [] OTHER -> Devuelve("talk", 0, <<m>>)
      BY <1>1 DEF rtnl_talk, k, m, medio
    <3> QED
      BY <3>1, Zenon
  <2>2. restos' = restos \/ restos' = (restos \/ ~ hablo.answer)
    BY <2>1
  <2>3. restos' = FALSE
    BY <1>2, <2>2, Zenon
  <2> QED
    BY <1>2, <2>1, <2>3 DEF Devuelve
<1>4. /\ IInv' /\ LInv' /\ fase' # "gira"
      /\ fase' = "libre" /\ ret'.op = "talk" /\ ret'.valor = 0 => hablo.sec \in hecho
  <2>1. LibNext
    BY <1>1 DEF LibNext, Lee
  <2> QED
    BY <2>1, <1>3, DeLaBiblioteca
<1>6. CASE fase' = "habla"
  BY <1>1, <1>2, <1>3, <1>4, <1>6 DEF Consulta, EnPaso, Va
<1>7. CASE fase' = "libre" /\ ret'.valor = -1
  BY <1>1, <1>2, <1>3, <1>4, <1>7 DEF Consulta, EnPaso, Termina
<1>8. CASE fase' = "libre" /\ ret'.op = "talk" /\ ret'.valor = 0
  <2>1. hablo.sec \in hecho
    BY <1>4, <1>8
  <2>2. CASE paso = "oye"
    BY <1>1, <1>2, <1>3, <1>4, <1>8, <2>1, <2>2 DEF Consulta, EnPaso, Va
  <2>3. CASE paso = "reoye"
    BY <1>1, <1>2, <1>3, <1>4, <1>8, <2>1, <2>3 DEF Consulta, EnPaso, Termina
  <2> QED
    BY <1>1, <2>2, <2>3
<1> QED
  BY <1>3, <1>4, <1>6, <1>7, <1>8

LEMMA ConsultaReescribe ==
  ASSUME IInv, LInv, Consulta, Reescribe
  PROVE  IInv' /\ LInv' /\ Consulta'
<1>1. /\ paso = "imprime" /\ UNCHANGED libvars
      /\ \/ paso' = "fin" /\ salida' = "-1"
         \/ paso' = "repite" /\ salida' = salida
  BY DEF Reescribe, Termina, Va
<1>2. UNCHANGED <<restos, pedido, fase, rth, hecho>>
  BY <1>1 DEF libvars, nucleo, manejo
<1>3. IInv' /\ LInv'
  BY <1>1, Paso, PasoL
<1>4. fase = "libre" /\ ~ pedido /\ rth.seq = 2 /\ 2 \in hecho /\ restos = FALSE /\ salida # "0"
  BY <1>1 DEF Consulta, EnPaso
<1> QED
  BY <1>1, <1>2, <1>3, <1>4 DEF Consulta, EnPaso

LEMMA ConsultaAjena ==
  ASSUME IInv, LInv, Consulta, UNCHANGED propias, Sobrepasa \/ Vuelca \/ Avisa
  PROVE  IInv' /\ LInv' /\ Consulta'
<1>1. IInv' /\ LInv'
  <2>1. LibNext
    BY DEF LibNext, Lee
  <2> QED
    BY <2>1, Paso, PasoL
<1>2. UNCHANGED <<restos, pedido, fase, rth, hecho, hablo, paso, salida>>
  BY DEF Sobrepasa, Vuelca, Avisa, manejo, propias
<1> QED
  BY <1>1, <1>2 DEF Consulta, EnPaso

LEMMA ConsultaPaso == QInv /\ [IpNext]_ipvars => QInv'
<1> SUFFICES ASSUME QInv, [IpNext]_ipvars, quien' = "iproute_get"
             PROVE  IInv' /\ LInv' /\ Consulta'
  BY DEF QInv
<1>1. quien = "iproute_get"
  BY DEF IpNext, Vaciado, VaciaAbre, VaciaPide, VaciaLlama, VaciaFiltra, flush_update, SinCambio,
         iproute_get, iproute_reset_filter, Abre, ll_init_map, Pregunta, Oye, Reescribe, Resto, Quedan,
         Ajeno, ipvars, propias
<1>2. IInv /\ LInv /\ Consulta
  BY <1>1 DEF QInv
<1>3. CASE iproute_get
  BY <1>2, <1>3, ConsultaAbre, ConsultaMapa, ConsultaPregunta, ConsultaOye, ConsultaReescribe DEF iproute_get
<1>4. CASE Ajeno
  BY <1>1, <1>2, <1>4, ConsultaAjena DEF Ajeno
<1>5. CASE UNCHANGED ipvars
  <2>1. UNCHANGED libvars /\ UNCHANGED <<restos, pedido, fase, rth, hecho, hablo, paso, salida>>
    BY <1>5 DEF ipvars, libvars, manejo, nucleo, propias
  <2>2. IInv' /\ LInv'
    BY <1>2, <2>1, Paso, PasoL
  <2> QED
    BY <1>2, <2>1, <2>2 DEF Consulta, EnPaso
<1>6. ~ Vaciado
  BY <1>1 DEF Vaciado, VaciaAbre, VaciaPide, VaciaLlama, VaciaFiltra, flush_update
<1> QED
  BY <1>3, <1>4, <1>5, <1>6 DEF IpNext
----------------------------------------------------------------------------
(***************************************************************************)
(* The filter of a flush.  print_route compares words and the bits left    *)
(* over, for the shorter of two lengths; what the filter means is said in  *)
(* sets of addresses.  For addresses of any length, and words of any size, *)
(* the two choose the same routes.                                         *)
(***************************************************************************)

\* memcmp of the whole words and the mask of the rest see the first n bits.
LEMMA Coinciden ==
  ASSUME NEW N \in Nat, NEW a \in [1..N -> {0, 1}], NEW b \in [1..N -> {0, 1}], NEW n \in 0..N
  PROVE  inet_addr_match(a, b, n) <=> \A k \in 1..n : a[k] = b[k]
<1> DEFINE words == n \div Palabra
           resto == n % Palabra
           m == words * Palabra
<1>1. Palabra \in Nat \ {0}
  BY UtilsAssumption
<1>2. m \in Nat /\ resto \in Nat /\ n = m + resto
  BY <1>1, SMTT(30)
<1>3. inet_addr_match(a, b, n) <=>
        /\ SubSeq(a, 1, m) = SubSeq(b, 1, m)
        /\ resto > 0 => \A k \in 1..resto : a[m + k] = b[m + k]
  BY DEF inet_addr_match
<1> HIDE DEF m, resto, words
<1>4. a \in Seq({0, 1}) /\ b \in Seq({0, 1}) /\ Len(a) = N /\ Len(b) = N /\ m <= N /\ n \in Nat
  BY <1>2
<1>5. SubSeq(a, 1, m) = SubSeq(b, 1, m) <=> \A k \in 1..m : a[k] = b[k]
  <2>1. /\ SubSeq(a, 1, m) = [k \in 1..m |-> a[k]]
        /\ SubSeq(b, 1, m) = [k \in 1..m |-> b[k]]
    BY <1>2, <1>4
  <2> QED
    BY <2>1
<1>6. (resto > 0 => \A k \in 1..resto : a[m + k] = b[m + k])
        <=> \A k \in (m + 1)..n : a[k] = b[k]
  <2>1. ASSUME resto > 0 => \A k \in 1..resto : a[m + k] = b[m + k], NEW k \in (m + 1)..n
        PROVE  a[k] = b[k]
    <3>1. k - m \in 1..resto /\ resto > 0 /\ m + (k - m) = k
      BY <1>2
    <3> QED
      BY <2>1, <3>1
  <2>2. ASSUME \A k \in (m + 1)..n : a[k] = b[k], NEW k \in 1..resto
        PROVE  a[m + k] = b[m + k]
    BY <1>2, <2>2
  <2> QED
    BY <2>1, <2>2
<1>7. 1..n = (1..m) \cup ((m + 1)..n)
  BY <1>2
<1> QED
  BY <1>3, <1>5, <1>6, <1>7

\* One prefix is inside another when the other is no longer and they agree on
\* its bits.
LEMMA DentroSi ==
  ASSUME NEW family, Bits(family) \in Nat, NEW p \in Direccion(family), NEW q \in Direccion(family),
         NEW n \in 0..Bits(family), NEW m \in 0..Bits(family)
  PROVE  Dentro(p, n, q, m, family) <=> m <= n /\ \A k \in 1..m : p[k] = q[k]
<1>1. ASSUME m <= n, \A k \in 1..m : p[k] = q[k]
      PROVE  Dentro(p, n, q, m, family)
  BY <1>1 DEF Dentro, Cubre
<1>2. ASSUME Dentro(p, n, q, m, family)
      PROVE  \A k \in 1..m : p[k] = q[k]
  <2>1. p \in Cubre(p, n, family)
    BY DEF Cubre
  <2> QED
    BY <1>2, <2>1 DEF Dentro, Cubre
<1>3. ASSUME Dentro(p, n, q, m, family), ~ (m <= n)
      PROVE  FALSE
  <2> DEFINE x == [p EXCEPT ![n + 1] = 1 - p[n + 1]]
  <2>1. n + 1 \in 1..m /\ n + 1 \in 1..Bits(family)
    BY <1>3
  <2>2. p[n + 1] \in {0, 1} /\ 1 - p[n + 1] \in {0, 1} /\ 1 - p[n + 1] # p[n + 1]
    BY <2>1 DEF Direccion
  <2>3. x \in Direccion(family) /\ x[n + 1] # p[n + 1] /\ \A k \in 1..n : x[k] = p[k]
    BY <2>1, <2>2 DEF Direccion
  <2> HIDE DEF x
  <2>4. x \in Cubre(p, n, family)
    BY <2>3 DEF Cubre
  <2>5. x[n + 1] = q[n + 1]
    BY <1>3, <2>1, <2>4 DEF Dentro, Cubre
  <2>6. p[n + 1] = q[n + 1]
    BY <1>2, <1>3, <2>1
  <2> QED
    BY <2>3, <2>5, <2>6
<1> QED
  BY <1>1, <1>2, <1>3

LEMMA HayBits ==
  ASSUME NEW family
  PROVE  Bits(family) \in Nat
BY IprouteAssumption DEF Bits

LEMMA TablaPedida ==
  ASSUME NEW f, NEW r, FiltroBien(f), RutaBien(r)
  PROVE  EligeTabla(f, r) <=>
           IF r.family = "inet"
           THEN f.tb \in {0, -1, r.table}
           ELSE CASE f.tb = 0 -> TRUE
                  [] f.tb = -1 -> r.cloned
                  [] f.tb = RT_TABLE_LOCAL -> ~r.cloned /\ r.campo["type"] = RTN_LOCAL
                  [] f.tb = RT_TABLE_MAIN -> ~r.cloned /\ r.campo["type"] # RTN_LOCAL
                  [] OTHER -> FALSE
<1>1. f.tb \in Nat \cup {-1} /\ r.family \in {"inet", "inet6"} /\ r.table \in Nat
  BY DEF FiltroBien, RutaBien, Familias
<1>2. "inet" # "inet6"
  OBVIOUS
<1>3. CASE r.family = "inet"
  <2>1. EligeTabla(f, r) <=> (f.tb > 0 => f.tb = r.table)
    BY <1>2, <1>3 DEF EligeTabla
  <2> QED
    BY <1>1, <1>3, <2>1
<1>4. CASE r.family = "inet6"
  <2> DEFINE L == r.campo["type"] = RTN_LOCAL
             C == r.cloned
  <2> HIDE DEF L, C
  <2>1. EligeTabla(f, r) <=>
          (f.tb # 0 => IF f.tb < 0 THEN C
                       ELSE ~ C /\ ((f.tb = 255 /\ L) \/ (f.tb = 254 /\ ~ L)))
    BY <1>4 DEF EligeTabla, RT_TABLE_LOCAL, RT_TABLE_MAIN, L, C
  <2>2. (CASE f.tb = 0 -> TRUE
           [] f.tb = -1 -> r.cloned
           [] f.tb = RT_TABLE_LOCAL -> ~r.cloned /\ r.campo["type"] = RTN_LOCAL
           [] f.tb = RT_TABLE_MAIN -> ~r.cloned /\ r.campo["type"] # RTN_LOCAL
           [] OTHER -> FALSE) <=>
        (f.tb = 0 \/ (f.tb = -1 /\ C) \/ (f.tb = 255 /\ ~ C /\ L) \/ (f.tb = 254 /\ ~ C /\ ~ L))
    <3>1. f.tb \in Int
      BY <1>1
    <3> QED
      BY <3>1 DEF RT_TABLE_LOCAL, RT_TABLE_MAIN, L, C
  <2>3. f.tb < 0 <=> f.tb = -1
    BY <1>1
  <2> QED
    BY <1>1, <1>2, <1>4, <2>1, <2>2, <2>3
<1> QED
  BY <1>1, <1>3, <1>4

LEMMA CamposPedidos ==
  ASSUME NEW f, NEW r
  PROVE  EligeCampos(f, r) <=>
           \A c \in DOMAIN r.campo : r.campo[c] \cap f.mascara[c] = f.valor[c] \cap f.mascara[c]
<1>1. \A x, y, z : ((y \ x) \cup (x \ y)) \cap z = {} <=> x \cap z = y \cap z
  OBVIOUS
<1>2. ASSUME NEW c
      PROVE  ((f.valor[c] \ r.campo[c]) \cup (r.campo[c] \ f.valor[c])) \cap f.mascara[c] = {}
               <=> r.campo[c] \cap f.mascara[c] = f.valor[c] \cap f.mascara[c]
  BY <1>1, Zenon
<1> QED
  BY <1>2, Zenon DEF EligeCampos

\* A prefix of the filter and the address of a route, in the family of both.
LEMMA UnPrefijo ==
  ASSUME NEW family, NEW a \in Direccion(family), NEW n \in 0..Bits(family),
         NEW q \in Direccion(family), NEW m \in 0..Bits(family)
  PROVE  /\ Dentro(a, n, q, m, family) <=> m <= n /\ inet_addr_match(a, q, m)
         /\ Dentro(q, m, a, n, family) <=> m >= n /\ inet_addr_match(a, q, n)
         /\ a \in Cubre(q, m, family) <=> inet_addr_match(a, q, m)
<1>1. Bits(family) \in Nat
  BY HayBits
<1>2. /\ inet_addr_match(a, q, m) <=> \A k \in 1..m : a[k] = q[k]
      /\ inet_addr_match(a, q, n) <=> \A k \in 1..n : a[k] = q[k]
  BY <1>1, Coinciden DEF Direccion
<1>3. /\ Dentro(a, n, q, m, family) <=> m <= n /\ \A k \in 1..m : a[k] = q[k]
      /\ Dentro(q, m, a, n, family) <=> n <= m /\ \A k \in 1..n : q[k] = a[k]
  BY <1>1, DentroSi
<1> QED
  BY <1>2, <1>3 DEF Cubre

LEMMA PrefijosPedidos ==
  ASSUME NEW f, NEW r, FiltroBien(f), RutaBien(r)
  PROVE  EligeFamilia(f, r) /\ EligePrefijos(f, r) <=>
           \A p \in Prefijos :
             f[p].family # "unspec" =>
               /\ f[p].family = r.family
               /\ LET q == f[p].data  n == f[p].bitlen
                  IN CASE p = "rdst" -> Dentro(r.dst, r.dst_len, q, n, r.family)
                       [] p = "rsrc" -> Dentro(r.src, r.src_len, q, n, r.family)
                       [] p = "mdst" -> Dentro(q, n, r.dst, r.dst_len, r.family)
                       [] p = "msrc" -> Dentro(q, n, r.src, r.src_len, r.family)
                       [] p = "rvia" -> r.gw \in Cubre(q, n, r.family)
                       [] p = "rprefsrc" -> r.prefsrc \in Cubre(q, n, r.family)
<1> DEFINE hay(p) == f[p].family # "unspec"
           q(p) == f[p].data
           n(p) == f[p].bitlen
           F == \A p \in Prefijos : hay(p) => f[p].family = r.family
<1>1. /\ r.family \in Familias
      /\ r.dst_len \in 0..Bits(r.family) /\ r.src_len \in 0..Bits(r.family)
      /\ r.dst \in Direccion(r.family) /\ r.src \in Direccion(r.family)
      /\ r.gw \in Direccion(r.family) /\ r.prefsrc \in Direccion(r.family)
  BY DEF RutaBien
<1>2. F => \A p \in Prefijos : hay(p) => q(p) \in Direccion(r.family) /\ n(p) \in 0..Bits(r.family) /\ n(p) >= 0
  <2>1. Bits(r.family) \in Nat
    BY HayBits
  <2> QED
    BY <1>1, <2>1 DEF FiltroBien
<1>3. Prefijos = {"rdst", "mdst", "rsrc", "msrc", "rvia", "rprefsrc"}
  BY DEF Prefijos
<1>4. EligeFamilia(f, r) /\ EligePrefijos(f, r) <=>
        /\ F
        /\ hay("rdst") => n("rdst") <= r.dst_len /\ inet_addr_match(r.dst, q("rdst"), n("rdst"))
        /\ hay("rsrc") => n("rsrc") <= r.src_len /\ inet_addr_match(r.src, q("rsrc"), n("rsrc"))
        /\ hay("mdst") /\ n("mdst") >= 0 => n("mdst") >= r.dst_len /\ inet_addr_match(r.dst, q("mdst"), r.dst_len)
        /\ hay("msrc") /\ n("msrc") >= 0 => n("msrc") >= r.src_len /\ inet_addr_match(r.src, q("msrc"), r.src_len)
        /\ hay("rvia") => inet_addr_match(r.gw, q("rvia"), n("rvia"))
        /\ hay("rprefsrc") => inet_addr_match(r.prefsrc, q("rprefsrc"), n("rprefsrc"))
  BY Zenon DEF EligeFamilia, EligePrefijos
<1> DEFINE D(p) == CASE p = "rdst" -> Dentro(r.dst, r.dst_len, q(p), n(p), r.family)
                     [] p = "rsrc" -> Dentro(r.src, r.src_len, q(p), n(p), r.family)
                     [] p = "mdst" -> Dentro(q(p), n(p), r.dst, r.dst_len, r.family)
                     [] p = "msrc" -> Dentro(q(p), n(p), r.src, r.src_len, r.family)
                     [] p = "rvia" -> r.gw \in Cubre(q(p), n(p), r.family)
                     [] p = "rprefsrc" -> r.prefsrc \in Cubre(q(p), n(p), r.family)
<1>5. /\ D("rdst") = Dentro(r.dst, r.dst_len, q("rdst"), n("rdst"), r.family)
      /\ D("rsrc") = Dentro(r.src, r.src_len, q("rsrc"), n("rsrc"), r.family)
      /\ D("mdst") = Dentro(q("mdst"), n("mdst"), r.dst, r.dst_len, r.family)
      /\ D("msrc") = Dentro(q("msrc"), n("msrc"), r.src, r.src_len, r.family)
      /\ D("rvia") = (r.gw \in Cubre(q("rvia"), n("rvia"), r.family))
      /\ D("rprefsrc") = (r.prefsrc \in Cubre(q("rprefsrc"), n("rprefsrc"), r.family))
  OBVIOUS
<1> HIDE DEF D, q, n, hay
<1>6. ASSUME F
      PROVE  /\ hay("rdst") => (D("rdst") <=> n("rdst") <= r.dst_len /\ inet_addr_match(r.dst, q("rdst"), n("rdst")))
             /\ hay("rsrc") => (D("rsrc") <=> n("rsrc") <= r.src_len /\ inet_addr_match(r.src, q("rsrc"), n("rsrc")))
             /\ hay("mdst") => (D("mdst") <=> n("mdst") >= r.dst_len /\ inet_addr_match(r.dst, q("mdst"), r.dst_len))
             /\ hay("msrc") => (D("msrc") <=> n("msrc") >= r.src_len /\ inet_addr_match(r.src, q("msrc"), r.src_len))
             /\ hay("rvia") => (D("rvia") <=> inet_addr_match(r.gw, q("rvia"), n("rvia")))
             /\ hay("rprefsrc") => (D("rprefsrc") <=> inet_addr_match(r.prefsrc, q("rprefsrc"), n("rprefsrc")))
  <2>1. \A p \in Prefijos : hay(p) => q(p) \in Direccion(r.family) /\ n(p) \in 0..Bits(r.family)
    BY <1>2, <1>6
  <2>2. hay("rdst") => (D("rdst") <=> n("rdst") <= r.dst_len /\ inet_addr_match(r.dst, q("rdst"), n("rdst")))
    BY <1>1, <1>3, <1>5, <2>1, UnPrefijo
  <2>3. hay("rsrc") => (D("rsrc") <=> n("rsrc") <= r.src_len /\ inet_addr_match(r.src, q("rsrc"), n("rsrc")))
    BY <1>1, <1>3, <1>5, <2>1, UnPrefijo
  <2>4. hay("mdst") => (D("mdst") <=> n("mdst") >= r.dst_len /\ inet_addr_match(r.dst, q("mdst"), r.dst_len))
    BY <1>1, <1>3, <1>5, <2>1, UnPrefijo
  <2>5. hay("msrc") => (D("msrc") <=> n("msrc") >= r.src_len /\ inet_addr_match(r.src, q("msrc"), r.src_len))
    BY <1>1, <1>3, <1>5, <2>1, UnPrefijo
  <2>6. hay("rvia") => (D("rvia") <=> inet_addr_match(r.gw, q("rvia"), n("rvia")))
    BY <1>1, <1>3, <1>5, <2>1, UnPrefijo
  <2>7. hay("rprefsrc") => (D("rprefsrc") <=> inet_addr_match(r.prefsrc, q("rprefsrc"), n("rprefsrc")))
    <3> SUFFICES ASSUME hay("rprefsrc")
                 PROVE  D("rprefsrc") <=> inet_addr_match(r.prefsrc, q("rprefsrc"), n("rprefsrc"))
      OBVIOUS
    <3>1. "rprefsrc" \in Prefijos
      BY <1>3
    <3>2. q("rprefsrc") \in Direccion(r.family) /\ n("rprefsrc") \in 0..Bits(r.family)
      BY <2>1, <3>1, Zenon
    <3> QED
      BY <1>1, <1>5, <3>2, UnPrefijo
  <2> QED
    BY <2>2, <2>3, <2>4, <2>5, <2>6, <2>7
<1>7. (\A p \in Prefijos : hay(p) => f[p].family = r.family /\ D(p)) <=>
        /\ F
        /\ hay("rdst") => D("rdst")
        /\ hay("rsrc") => D("rsrc")
        /\ hay("mdst") => D("mdst")
        /\ hay("msrc") => D("msrc")
        /\ hay("rvia") => D("rvia")
        /\ hay("rprefsrc") => D("rprefsrc")
  BY <1>3, Zenon
<1>8. F => (hay("mdst") => n("mdst") >= 0) /\ (hay("msrc") => n("msrc") >= 0)
  BY <1>2, <1>3
<1>9. EligeFamilia(f, r) /\ EligePrefijos(f, r) <=>
        \A p \in Prefijos : hay(p) => f[p].family = r.family /\ D(p)
  <2> HIDE DEF F
  <2> QED
    BY <1>4, <1>6, <1>7, <1>8, Zenon
<1> QED
  BY <1>9 DEF hay, D, q, n

\* print_route lets through the routes the filter means, and no other.
LEMMA EligeLoPedido ==
  ASSUME NEW f \in Filtros \cup {FiltroVacio}, NEW r \in UNION Tablas
  PROVE  Elige(f, r) <=> Pedida(f, r)
<1>1. FiltroBien(f) /\ RutaBien(r)
  BY IprouteAssumption
<1> QED
  BY <1>1, TablaPedida, CamposPedidos, PrefijosPedidos, Zenon DEF Elige, Pedida
----------------------------------------------------------------------------
(* The buffer of a flush.                                                  *)

Pieza == [ruta : UNION Tablas, sec : Nat]
Volcador == [buf : Seq(Pieza), fuera : Seq(Pieza), flushed : Nat, seq : Nat, mal : BOOLEAN]
Pedidas(f) == {r \in UNION Tablas : Pedida(f, r) /\ ~Inamovible(r)}

LEMMA Une ==
  ASSUME NEW T, NEW v \in Seq(T), NEW w \in Seq(T)
  PROVE  /\ v \o w \in Seq(T) /\ Len(v \o w) = Len(v) + Len(w)
         /\ \A k \in 1 .. Len(v) : (v \o w)[k] = v[k]
         /\ \A k \in 1 .. Len(w) : (v \o w)[Len(v) + k] = w[k]
OBVIOUS

LEMMA RutasDe ==
  ASSUME NEW b \in Seq(Pieza)
  PROVE  /\ Rutas(b) \in Seq(UNION Tablas)
         /\ \A c \in Seq(Pieza) : Rutas(b \o c) = Rutas(b) \o Rutas(c)
         /\ \A e \in Pieza : Rutas(Append(b, e)) = Append(Rutas(b), e.ruta)
<1>1. ASSUME NEW c \in Seq(Pieza)
      PROVE  /\ Len(Rutas(c)) = Len(c) /\ DOMAIN Rutas(c) = 1 .. Len(c)
             /\ Rutas(c) \in Seq(UNION Tablas)
             /\ \A k \in 1 .. Len(c) : Rutas(c)[k] = c[k].ruta
  <2>1. ASSUME NEW k \in 1 .. Len(c) PROVE c[k].ruta \in UNION Tablas
    <3>1. c[k] \in Pieza
      OBVIOUS
    <3> QED
      BY <3>1 DEF Pieza
  <2>2. Rutas(c) = [k \in 1 .. Len(c) |-> c[k].ruta] /\ Len(c) \in Nat
    BY DEF Rutas
  <2> QED
    BY <2>1, <2>2
<1>2. ASSUME NEW c \in Seq(Pieza)
      PROVE  Rutas(b \o c) = Rutas(b) \o Rutas(c)
  <2> DEFINE x == Rutas(b \o c)
             y == Rutas(b) \o Rutas(c)
  <2>1. /\ b \o c \in Seq(Pieza) /\ Len(b \o c) = Len(b) + Len(c) /\ Len(b) \in Nat /\ Len(c) \in Nat
        /\ \A k \in 1 .. Len(b) : (b \o c)[k] = b[k]
        /\ \A k \in 1 .. Len(c) : (b \o c)[Len(b) + k] = c[k]
    OBVIOUS
  <2>2. /\ x \in Seq(UNION Tablas) /\ Len(x) = Len(b) + Len(c)
        /\ \A k \in 1 .. (Len(b) + Len(c)) : x[k] = (b \o c)[k].ruta
    BY <1>1, <2>1
  <2>3. /\ y \in Seq(UNION Tablas) /\ Len(y) = Len(b) + Len(c)
        /\ \A k \in 1 .. Len(b) : y[k] = b[k].ruta
        /\ \A k \in 1 .. Len(c) : y[Len(b) + k] = c[k].ruta
    <3> DEFINE v == Rutas(b)
               w == Rutas(c)
    <3>1. /\ v \in Seq(UNION Tablas) /\ Len(v) = Len(b) /\ \A k \in 1 .. Len(b) : v[k] = b[k].ruta
          /\ w \in Seq(UNION Tablas) /\ Len(w) = Len(c) /\ \A k \in 1 .. Len(c) : w[k] = c[k].ruta
      BY <1>1
    <3> HIDE DEF v, w
    <3>2. /\ v \o w \in Seq(UNION Tablas) /\ Len(v \o w) = Len(v) + Len(w)
          /\ \A k \in 1 .. Len(v) : (v \o w)[k] = v[k]
          /\ \A k \in 1 .. Len(w) : (v \o w)[Len(v) + k] = w[k]
      <4>1. v \in Seq(UNION Tablas) /\ w \in Seq(UNION Tablas)
        BY <3>1
      <4> QED
        BY <4>1, Une
    <3> QED
      BY <3>1, <3>2 DEF v, w
  <2> HIDE DEF x, y
  <2>4. ASSUME NEW k \in 1 .. (Len(b) + Len(c)) PROVE x[k] = y[k]
    <3>1. CASE k \in 1 .. Len(b)
      BY <2>1, <2>2, <2>3, <3>1
    <3>2. CASE k \notin 1 .. Len(b)
      <4>1. PICK j \in 1 .. Len(c) : k = Len(b) + j
        <5>1. k - Len(b) \in 1 .. Len(c) /\ k = Len(b) + (k - Len(b))
          BY <2>1, <3>2
        <5> QED
          BY <5>1
      <4> QED
        BY <2>1, <2>2, <2>3, <4>1
    <3> QED
      BY <3>1, <3>2
  <2>5. x = y
    BY <2>2, <2>3, <2>4
  <2> QED
    BY <2>5 DEF x, y
<1>3. ASSUME NEW e \in Pieza
      PROVE  Rutas(Append(b, e)) = Append(Rutas(b), e.ruta)
  <2> DEFINE x == Rutas(Append(b, e))
             y == Append(Rutas(b), e.ruta)
  <2>1. /\ Append(b, e) \in Seq(Pieza) /\ Len(Append(b, e)) = Len(b) + 1 /\ Len(b) \in Nat
        /\ \A k \in 1 .. Len(b) : Append(b, e)[k] = b[k]
        /\ Append(b, e)[Len(b) + 1] = e /\ e.ruta \in UNION Tablas
    BY DEF Pieza
  <2>2. /\ x \in Seq(UNION Tablas) /\ Len(x) = Len(b) + 1
        /\ \A k \in 1 .. (Len(b) + 1) : x[k] = Append(b, e)[k].ruta
    BY <1>1, <2>1
  <2>3. /\ y \in Seq(UNION Tablas) /\ Len(y) = Len(b) + 1
        /\ \A k \in 1 .. Len(b) : y[k] = b[k].ruta
        /\ y[Len(b) + 1] = e.ruta
    <3> DEFINE v == Rutas(b)
               z == e.ruta
    <3>1. /\ v \in Seq(UNION Tablas) /\ Len(v) = Len(b) /\ \A k \in 1 .. Len(b) : v[k] = b[k].ruta
          /\ z \in UNION Tablas
      BY <1>1, <2>1
    <3> HIDE DEF v, z
    <3>2. /\ Append(v, z) \in Seq(UNION Tablas) /\ Len(Append(v, z)) = Len(v) + 1
          /\ \A k \in 1 .. Len(v) : Append(v, z)[k] = v[k]
          /\ Append(v, z)[Len(v) + 1] = z
      BY <3>1
    <3> QED
      BY <3>1, <3>2 DEF v, z
  <2> HIDE DEF x, y
  <2>4. ASSUME NEW k \in 1 .. (Len(b) + 1) PROVE x[k] = y[k]
    <3>1. k \in 1 .. Len(b) \/ k = Len(b) + 1
      BY <2>1
    <3> QED
      BY <2>1, <2>2, <2>3, <3>1
  <2>5. x = y
    BY <2>2, <2>3, <2>4
  <2> QED
    BY <2>5 DEF x, y
<1> QED
  BY <1>1, <1>2, <1>3

LEMMA PrintTipo ==
  ASSUME NEW s \in Volcador, NEW r \in UNION Tablas, NEW falla \in BOOLEAN
  PROVE  print_route(s, r, falla) \in Volcador
<1>1. /\ s.buf \in Seq(Pieza) /\ s.fuera \in Seq(Pieza) /\ s.flushed \in Nat /\ s.seq \in Nat /\ s.mal \in BOOLEAN
  BY DEF Volcador
<1> DEFINE e == [ruta |-> r, sec |-> s.seq + 1]
           lleno == Len(s.buf) = CabeFlush
           b == Append(IF lleno THEN <<>> ELSE s.buf, e)
           q == IF lleno THEN s.fuera \o s.buf ELSE s.fuera
<1>2. e \in Pieza
  BY <1>1 DEF Pieza
<1> HIDE DEF e
<1>3. b \in Seq(Pieza) /\ q \in Seq(Pieza)
  BY <1>1, <1>2
<1>4. \/ print_route(s, r, falla) = s
      \/ print_route(s, r, falla) = [s EXCEPT !.mal = TRUE]
      \/ print_route(s, r, falla) = [buf |-> b, fuera |-> q, flushed |-> s.flushed + 1, seq |-> s.seq + 1, mal |-> FALSE]
  BY Zenon DEF print_route, e
<1> HIDE DEF b, q
<1>5. [s EXCEPT !.mal = TRUE] \in Volcador
  BY DEF Volcador
<1>6. [buf |-> b, fuera |-> q, flushed |-> s.flushed + 1, seq |-> s.seq + 1, mal |-> FALSE] \in Volcador
  BY <1>1, <1>3 DEF Volcador
<1> QED
  BY <1>4, <1>5, <1>6, Zenon

\* One route of the dump.
LEMMA PrintUna ==
  ASSUME NEW s \in Volcador, NEW r \in UNION Tablas, NEW falla \in BOOLEAN,
         filtro \in Filtros \cup {FiltroVacio}, ~ print_route(s, r, falla).mal
  PROVE  /\ ~ s.mal
         /\ LET t == print_route(s, r, falla)
            IN Rutas(t.fuera) \o Rutas(t.buf) =
                 IF r \in Pedidas(filtro) THEN Append(Rutas(s.fuera) \o Rutas(s.buf), r)
                 ELSE Rutas(s.fuera) \o Rutas(s.buf)
<1>1. /\ s.buf \in Seq(Pieza) /\ s.fuera \in Seq(Pieza) /\ s.flushed \in Nat /\ s.seq \in Nat /\ s.mal \in BOOLEAN
  BY DEF Volcador
<1>2. r \in Pedidas(filtro) <=> Elige(filtro, r) /\ ~ Inamovible(r)
  BY EligeLoPedido DEF Pedidas
<1> DEFINE e == [ruta |-> r, sec |-> s.seq + 1]
           lleno == Len(s.buf) = CabeFlush
           b == Append(IF lleno THEN <<>> ELSE s.buf, e)
           q == IF lleno THEN s.fuera \o s.buf ELSE s.fuera
           t == print_route(s, r, falla)
<1>3. e \in Pieza /\ e.ruta = r
  BY <1>1 DEF Pieza
<1>4. t = IF s.mal \/ ~Elige(filtro, r) \/ Inamovible(r) THEN s
          ELSE IF lleno /\ falla THEN [s EXCEPT !.mal = TRUE]
          ELSE [buf |-> b, fuera |-> q, flushed |-> s.flushed + 1, seq |-> s.seq + 1, mal |-> FALSE]
  BY Zenon DEF print_route
<1> HIDE DEF e
<1>5. ~ s.mal
  <2> HIDE DEF b, q, lleno
  <2> QED
    BY <1>4
<1>6. [s EXCEPT !.mal = TRUE].mal
  BY DEF Volcador
<1>7. CASE r \notin Pedidas(filtro)
  <2>1. t = s
    BY <1>2, <1>4, <1>5, <1>7, Zenon
  <2> QED
    BY <1>5, <1>7, <2>1
<1>8. CASE r \in Pedidas(filtro)
  <2>1. t = [buf |-> b, fuera |-> q, flushed |-> s.flushed + 1, seq |-> s.seq + 1, mal |-> FALSE]
    <3>1. ~ (lleno /\ falla)
      <4>1. ASSUME lleno /\ falla PROVE FALSE
        <5>1. t = [s EXCEPT !.mal = TRUE]
          BY <1>2, <1>4, <1>5, <1>8, <4>1, Zenon
        <5> QED
          BY <1>6, <5>1
      <4> QED
        BY <4>1
    <3> QED
      BY <1>2, <1>4, <1>5, <1>8, <3>1, Zenon
  <2>2. t.buf = b /\ t.fuera = q
    <3> HIDE DEF b, q, t
    <3> QED
      BY <2>1
  <2> DEFINE x == Rutas(s.fuera)
             y == Rutas(s.buf)
  <2>3. x \in Seq(UNION Tablas) /\ y \in Seq(UNION Tablas)
    BY <1>1, RutasDe
  <2>4. CASE lleno
    <3>1. b = Append(<<>>, e) /\ q = s.fuera \o s.buf /\ <<>> \in Seq(Pieza)
      BY <2>4
    <3>2. Rutas(b) = Append(Rutas(<<>>), r) /\ Rutas(q) = x \o y /\ Rutas(<<>>) = <<>>
      <4>1. Rutas(<<>>) = <<>>
        BY DEF Rutas
      <4> QED
        BY <1>1, <1>3, <3>1, <4>1, RutasDe
    <3> HIDE DEF x, y, b, q, t
    <3>3. (x \o y) \o Append(<<>>, r) = Append(x \o y, r)
      BY <2>3
    <3> QED
      BY <1>5, <1>8, <2>2, <3>2, <3>3 DEF t, x, y
  <2>5. CASE ~ lleno
    <3>1. b = Append(s.buf, e) /\ q = s.fuera
      BY <2>5
    <3>2. Rutas(b) = Append(y, r) /\ Rutas(q) = x
      BY <1>1, <1>3, <3>1, RutasDe
    <3> HIDE DEF x, y, b, q, t
    <3>3. x \o Append(y, r) = Append(x \o y, r)
      BY <2>3
    <3> QED
      BY <1>5, <1>8, <2>2, <3>2, <3>3 DEF t, x, y
  <2> QED
    BY <2>4, <2>5
<1> QED
  BY <1>7, <1>8

LEMMA SubMas ==
  ASSUME NEW T, NEW s \in Seq(T), NEW k \in 1 .. Len(s)
  PROVE  /\ SubSeq(s, 1, k - 1) \in Seq(T) /\ SubSeq(s, 1, 0) = <<>>
         /\ SubSeq(s, 1, k) = Append(SubSeq(s, 1, k - 1), s[k])
<1> DEFINE a == SubSeq(s, 1, k - 1)
           b == SubSeq(s, 1, k)
<1>1. Len(s) \in Nat /\ k \in Nat /\ k - 1 \in Nat /\ s[k] \in T /\ \A n \in 1 .. k : s[n] \in T
  OBVIOUS
<1>2. a \in Seq(T) /\ Len(a) = k - 1 /\ \A n \in 1 .. k - 1 : a[n] = s[n]
  BY <1>1
<1>3. b \in Seq(T) /\ Len(b) = k /\ \A n \in 1 .. k : b[n] = s[n]
  BY <1>1
<1> HIDE DEF a, b
<1> DEFINE c == Append(a, s[k])
<1>4. c \in Seq(T) /\ Len(c) = k /\ c[k] = s[k] /\ \A n \in 1 .. k - 1 : c[n] = a[n]
  BY <1>1, <1>2
<1> HIDE DEF c
<1>5. ASSUME NEW n \in 1 .. k PROVE b[n] = c[n]
  <2>1. n = k \/ n \in 1 .. k - 1
    BY <1>1
  <2> QED
    BY <1>2, <1>3, <1>4, <2>1
<1>6. b = c
  BY <1>1, <1>3, <1>4, <1>5
<1> QED
  BY <1>2, <1>6 DEF a, b, c

\* What print_route leaves behind is what it makes of each route in turn.
LEMMA RecorreEs ==
  ASSUME NEW rs \in Seq(UNION Tablas), NEW falla \in BOOLEAN,
         flush.buf \in Seq(Pieza), flush.flushed \in Nat, rth.seq \in Nat
  PROVE  /\ Recorre(rs, falla) \in [0 .. Len(rs) -> Volcador]
         /\ Recorre(rs, falla)[0] = [buf |-> flush.buf, flushed |-> flush.flushed, seq |-> rth.seq,
                                     fuera |-> <<>>, mal |-> FALSE]
         /\ \A k \in 1 .. Len(rs) :
              Recorre(rs, falla)[k] = print_route(Recorre(rs, falla)[k - 1], rs[k], falla)
<1> DEFINE v == [buf |-> flush.buf, flushed |-> flush.flushed, seq |-> rth.seq,
                 fuera |-> <<>>, mal |-> FALSE]
           n == Len(rs)
           G == [p \in (1 .. n) \X Volcador |-> print_route(p[2], rs[p[1]], falla)]
           R(F) == [k \in 0 .. n |-> IF k = 0 THEN v ELSE print_route(F[k - 1], rs[k], falla)]
           C == CHOOSE F : F = R(F)
<1>1. v \in Volcador
  BY DEF Volcador
<1>2. n \in Nat
  OBVIOUS
<1>4. \A m \in 1 .. n, s \in Volcador : G[<<m, s>>] = print_route(s, rs[m], falla)
  <2> SUFFICES ASSUME NEW m \in 1 .. n, NEW s \in Volcador
               PROVE  G[<<m, s>>] = print_route(s, rs[m], falla)
    OBVIOUS
  <2> DEFINE q == <<m, s>>
  <2>1. q \in (1 .. n) \X Volcador /\ q[1] = m /\ q[2] = s
    OBVIOUS
  <2> HIDE DEF q
  <2>2. G[q] = print_route(q[2], rs[q[1]], falla)
    BY <2>1, Zenon
  <2>3. G[q] = print_route(s, rs[m], falla)
    BY <2>1, <2>2, Zenon
  <2> QED
    BY <2>3 DEF q
<1> HIDE DEF G, v, n
<1>5. PICK g \in [0 .. n -> Volcador] : g[0] = v /\ \A m \in 1 .. n : g[m] = G[<<m, g[m - 1]>>]
  <2>1. ASSUME NEW m \in 1 .. n, NEW y \in Volcador PROVE G[<<m, y>>] \in Volcador
    <3>1. rs[m] \in UNION Tablas
      BY DEF n
    <3> QED
      BY <1>4, <3>1, PrintTipo
  <2>2. Lleva(Volcador, n, G)
    BY <2>1 DEF Lleva
  <2>3. \E g : Recorrida(Volcador, v, n, G, g)
    BY <1>1, <1>2, <2>2, Recurre
  <2> QED
    BY <2>3 DEF Recorrida
<1>6. ASSUME NEW m \in 1 .. n PROVE g[m - 1] \in Volcador /\ g[m] = print_route(g[m - 1], rs[m], falla)
  <2>1. m - 1 \in 0 .. n
    BY <1>2
  <2> QED
    BY <1>4, <1>5, <2>1
<1>7. g = R(g)
  <2>1. ASSUME NEW k \in 0 .. n PROVE g[k] = R(g)[k]
    <3>1. k = 0 \/ (k # 0 /\ k \in 1 .. n)
      BY <1>2
    <3>2. R(g)[k] = IF k = 0 THEN v ELSE print_route(g[k - 1], rs[k], falla)
      BY Zenon
    <3> QED
      BY <1>5, <1>6, <3>1, <3>2, Zenon
  <2>2. DOMAIN R(g) = 0 .. n /\ R(g) = [k \in 0 .. n |-> R(g)[k]]
    BY Zenon
  <2> HIDE DEF R
  <2>3. g = [k \in 0 .. n |-> g[k]]
    BY <1>5
  <2> QED
    BY <2>1, <2>2, <2>3
<1>8. C = R(C)
  <2> HIDE DEF R
  <2> QED
    BY <1>7
<1>9. \A k \in 0 .. n : C[k] = IF k = 0 THEN v ELSE print_route(C[k - 1], rs[k], falla)
  <2>1. ASSUME NEW k \in 0 .. n PROVE R(C)[k] = IF k = 0 THEN v ELSE print_route(C[k - 1], rs[k], falla)
    <3> HIDE DEF C
    <3> QED
      BY Zenon
  <2> HIDE DEF C, R
  <2> QED
    BY <1>8, <2>1
<1>10. \A k \in 0 .. n : C[k] = g[k]
  <2> HIDE DEF C, R
  <2> DEFINE I == {k \in Nat : k <= n => C[k] = g[k]}
  <2>1. 0 \in I
    <3>1. 0 \in 0 .. n
      BY <1>2
    <3> QED
      BY <1>5, <1>9, <3>1
  <2>2. ASSUME NEW k \in Nat, k \in I PROVE k + 1 \in I
    <3> SUFFICES ASSUME k + 1 <= n PROVE C[k + 1] = g[k + 1]
      OBVIOUS
    <3>1. k + 1 \in 0 .. n /\ k + 1 \in 1 .. n /\ k + 1 # 0 /\ (k + 1) - 1 = k /\ C[k] = g[k]
      BY <1>2, <2>2
    <3>2. C[k + 1] = print_route(C[(k + 1) - 1], rs[k + 1], falla)
      BY <1>9, <3>1, Zenon
    <3>3. g[k + 1] = print_route(g[(k + 1) - 1], rs[k + 1], falla)
      BY <1>6, <3>1, Zenon
    <3> QED
      BY <3>1, <3>2, <3>3, Zenon
  <2> HIDE DEF I
  <2>3. Nat \subseteq I
    BY <2>1, <2>2, Induccion
  <2> QED
    BY <1>2, <2>3 DEF I
<1>11. C = g
  <2>1. R(C) = [k \in 0 .. n |-> R(C)[k]]
    <3> HIDE DEF C
    <3> QED
      BY Zenon
  <2>2. g = [k \in 0 .. n |-> g[k]]
    BY <1>5
  <2> HIDE DEF C, R
  <2> QED
    BY <1>8, <1>10, <2>1, <2>2
<1>12. Recorre(rs, falla) = C
  BY Zenon DEF Recorre, v, n
<1> HIDE DEF C, R
<1> QED
  BY <1>5, <1>6, <1>11, <1>12 DEF v, n

\* What it has deleted or left in the buffer are the routes that were to be.
LEMMA RecorreBorra ==
  ASSUME NEW rs \in Seq(UNION Tablas), NEW falla \in BOOLEAN,
         flush.buf \in Seq(Pieza), flush.flushed \in Nat, rth.seq \in Nat,
         filtro \in Filtros \cup {FiltroVacio},
         NEW F, F = Recorre(rs, falla), ~ F[Len(rs)].mal
  PROVE  Rutas(F[Len(rs)].fuera) \o Rutas(F[Len(rs)].buf)
           = Rutas(flush.buf) \o Escoge(rs, Pedidas(filtro))
<1> DEFINE n == Len(rs)
           T == UNION Tablas
           P == Pedidas(filtro)
           x == Rutas(flush.buf)
           Bien(k) == Rutas(F[k].fuera) \o Rutas(F[k].buf) = x \o Escoge(SubSeq(rs, 1, k), P)
           I == {k \in Nat : k <= n /\ ~ F[k].mal => Bien(k)}
<1>1. /\ F \in [0 .. n -> Volcador]
      /\ F[0] = [buf |-> flush.buf, flushed |-> flush.flushed, seq |-> rth.seq,
                 fuera |-> <<>>, mal |-> FALSE]
      /\ \A k \in 1 .. n : F[k] = print_route(F[k - 1], rs[k], falla)
  BY RecorreEs
<1>2. n \in Nat /\ x \in Seq(T)
  BY RutasDe
<1> HIDE DEF Bien, I
<1>3. Bien(0)
  <2>1. Rutas(F[0].fuera) = <<>> /\ Rutas(F[0].buf) = x
    BY <1>1 DEF Rutas
  <2>2. Escoge(SubSeq(rs, 1, 0), P) = <<>>
    <3>1. SubSeq(rs, 1, 0) = <<>>
      OBVIOUS
    <3> HIDE DEF P
    <3> QED
      BY <3>1, EscogeVacia
  <2>3. <<>> \o x = x /\ x \o <<>> = x
    <3> HIDE DEF x
    <3> QED
      BY <1>2, ConcatEmptySeq
  <2> HIDE DEF x, P
  <2> QED
    BY <2>1, <2>2, <2>3, Zenon DEF Bien
<1>4. ASSUME NEW k \in Nat, ~ F[k].mal => Bien(k), k + 1 <= n, ~ F[k + 1].mal
      PROVE  Bien(k + 1)
  <2> DEFINE r == rs[k + 1]
             s == F[k]
             t == F[k + 1]
             a == SubSeq(rs, 1, k)
  <2>1. r \in T /\ s \in Volcador /\ k + 1 \in 1 .. n
    <3>1. k + 1 \in 1 .. n /\ k \in 0 .. n
      BY <1>2, <1>4
    <3> QED
      BY <1>1, <3>1
  <2>2. t = print_route(s, r, falla)
    <3>1. (k + 1) - 1 = k
      OBVIOUS
    <3> QED
      BY <1>1, <2>1, <3>1, Zenon
  <2>3. ~ print_route(s, r, falla).mal
    BY <1>4, <2>2, Zenon
  <2>4. /\ ~ s.mal
        /\ Rutas(t.fuera) \o Rutas(t.buf) =
             IF r \in P THEN Append(Rutas(s.fuera) \o Rutas(s.buf), r)
             ELSE Rutas(s.fuera) \o Rutas(s.buf)
    <3> HIDE DEF s, t, r, P
    <3>1. /\ ~ s.mal
          /\ LET u == print_route(s, r, falla)
             IN Rutas(u.fuera) \o Rutas(u.buf) =
                  IF r \in Pedidas(filtro) THEN Append(Rutas(s.fuera) \o Rutas(s.buf), r)
                  ELSE Rutas(s.fuera) \o Rutas(s.buf)
      BY <2>1, <2>3, PrintUna
    <3> QED
      BY <2>2, <3>1, Zenon DEF P
  <2>5. Bien(k)
    BY <1>4, <2>4
  <2>6. a \in Seq(T) /\ SubSeq(rs, 1, k + 1) = Append(a, r)
    <3>1. (k + 1) - 1 = k /\ k + 1 \in 1 .. Len(rs)
      BY <2>1
    <3>2. SubSeq(rs, 1, (k + 1) - 1) \in Seq(T) /\ SubSeq(rs, 1, k + 1) = Append(SubSeq(rs, 1, (k + 1) - 1), rs[k + 1])
      BY <3>1, SubMas
    <3> QED
      BY <3>1, <3>2, Zenon
  <2> DEFINE e == Escoge(a, P)
  <2>7. e \in Seq(T) /\ Escoge(Append(a, r), P) = IF r \in P THEN Append(e, r) ELSE e
    <3>1. a \in Seq(T) /\ r \in T
      BY <2>1, <2>6
    <3> HIDE DEF a, r, P, T
    <3>2. e \in Seq(T)
      BY <3>1, EscogeTipo
    <3>3. Escoge(Append(a, r), P) = IF r \in P THEN Append(e, r) ELSE e
      BY <3>1, EscogeMas
    <3> QED
      BY <3>2, <3>3
  <2> HIDE DEF e, a, r, P, x, s, t
  <2>8. x \o Append(e, r) = Append(x \o e, r)
    <3>1. x \in Seq(T) /\ e \in Seq(T) /\ r \in T
      BY <1>2, <2>1, <2>7
    <3> HIDE DEF T
    <3> QED
      BY ONLY <3>1
  <2>9. Rutas(s.fuera) \o Rutas(s.buf) = x \o e
    BY <2>5, Zenon DEF Bien, s, a, e
  <2>10. Rutas(t.fuera) \o Rutas(t.buf) = x \o Escoge(Append(a, r), P)
    BY <2>4, <2>7, <2>8, <2>9, Zenon
  <2> QED
    BY <2>6, <2>10, Zenon DEF Bien, t
<1>5. n \in I
  <2>1. 0 \in I
    BY <1>3 DEF I
  <2>2. ASSUME NEW k \in Nat, k \in I PROVE k + 1 \in I
    BY <1>2, <1>4, <2>2 DEF I
  <2> QED
    BY <1>2, <2>1, <2>2, Induccion
<1>6. Bien(n)
  BY <1>2, <1>5 DEF I
<1>7. SubSeq(rs, 1, n) = rs
  BY SubSeqFull
<1> QED
  BY <1>6, <1>7, Zenon DEF Bien, n, x
----------------------------------------------------------------------------
(* What a flush is given, and what it sends.                               *)

\* Only the end of a dump and the errors carry no route.
ConRuta == {m \in MensajesLib : m.tipo \notin Finales => m.dato \in UNION Tablas}

LEMMA FiltraRutas ==
  ASSUME NEW d \in DatagramasDe(ConRuta), NEW c
  PROVE  Filtrado(d, c).dados \in Seq(UNION Tablas)
<1> DEFINE ms == d.msgs
           paran == {i \in DOMAIN ms : i = c \/ (Propio(ms[i]) /\ ms[i].tipo \in Finales)}
           i0 == IF paran = {} THEN Len(ms) + 1 ELSE Min(paran)
           r == SubSeq(ms, 1, IF i0 < Len(ms) THEN i0 ELSE Len(ms))
           S == {m \in Range(ms) : Propio(m) /\ m.tipo \notin Finales}
           q == Escoge(r, S)
<1>1. ms \in Seq(ConRuta) /\ DOMAIN ms = 1..Len(ms) /\ Len(ms) \in Nat
  BY DEF DatagramasDe
<1>2. i0 \in Nat
  <2>1. paran # {} => Min(paran) \in Nat
    <3>1. paran \subseteq Nat
      BY <1>1
    <3> HIDE DEF paran
    <3> QED
      BY <3>1, HayMenor
  <2> QED
    BY <1>1, <2>1
<1>3. r \in Seq(ConRuta)
  <2> HIDE DEF i0, ms
  <2> QED
    BY <1>1, <1>2
<1>4. q \in Seq(ConRuta) /\ \A k \in 1 .. Len(q) : q[k] \in S
  <2> HIDE DEF r, S
  <2> QED
    BY <1>3, EscogeTipo, EscogeElementos
<1>5. Filtrado(d, c).dados = [k \in DOMAIN q |-> q[k].dato]
  BY DEF Filtrado
<1>6. \A k \in 1 .. Len(q) : q[k].dato \in UNION Tablas
  <2> SUFFICES ASSUME NEW k \in 1 .. Len(q) PROVE q[k].dato \in UNION Tablas
    OBVIOUS
  <2> HIDE DEF q
  <2>1. q[k] \in ConRuta /\ q[k].tipo \notin Finales
    BY <1>4
  <2> QED
    BY <2>1 DEF ConRuta
<1> HIDE DEF q
<1> QED
  BY <1>4, <1>5, <1>6

\* When print_route fails at one of the routes it is given, the call ends.
LEMMA FiltraCorta ==
  ASSUME NEW d \in DatagramasDe(ConRuta), NEW c \in 1 .. Len(Filtrado(d, 0).dados)
  PROVE  Filtrado(d, c).vuelve /\ Filtrado(d, c).valor = -1
<1> DEFINE ms == d.msgs
           paran(e) == {i \in DOMAIN ms : i = e \/ (Propio(ms[i]) /\ ms[i].tipo \in Finales)}
           i0(e) == IF paran(e) = {} THEN Len(ms) + 1 ELSE Min(paran(e))
           hasta == IF i0(0) < Len(ms) THEN i0(0) ELSE Len(ms)
           r == SubSeq(ms, 1, hasta)
           S == {m \in Range(ms) : Propio(m) /\ m.tipo \notin Finales}
           q == Escoge(r, S)
<1>1. ms \in Seq(ConRuta) /\ DOMAIN ms = 1..Len(ms) /\ Len(ms) \in Nat
  BY DEF DatagramasDe
<1>2. \A e : paran(e) \subseteq Nat /\ paran(e) \subseteq 1 .. Len(ms)
  BY <1>1
<1>3. /\ \A e : paran(e) # {} => /\ i0(e) \in paran(e)
                                 /\ \A i \in paran(e) : i0(e) <= i
  <2> SUFFICES ASSUME NEW e, paran(e) # {}
               PROVE  Min(paran(e)) \in paran(e) /\ \A i \in paran(e) : Min(paran(e)) <= i
    OBVIOUS
  <2> DEFINE I == paran(e)
  <2>1. I \subseteq Nat /\ I # {}
    BY <1>2
  <2> HIDE DEF I
  <2>2. PICK x \in I : \A y \in I : x <= y
    BY <2>1, Minimo
  <2>3. Min(I) \in I /\ \A i \in I : Min(I) <= i
    BY <2>2 DEF Min
  <2> QED
    BY <2>3 DEF I
<1>4. hasta \in 0 .. Len(ms)
  <2>1. i0(0) = Len(ms) + 1 \/ i0(0) \in paran(0)
    BY <1>3
  <2> HIDE DEF i0, paran, ms
  <2> QED
    BY <1>1, <1>2, <2>1
<1>5. r \in Seq(ConRuta) /\ Len(r) = hasta
  <2> HIDE DEF hasta, ms
  <2> QED
    BY <1>1, <1>4
<1>6. q \in Seq(ConRuta) /\ Len(q) <= hasta
  <2> HIDE DEF r, S
  <2> QED
    BY <1>5, EscogeTipo, EscogeCorta
<1>7. c \in 1 .. Len(q)
  <2>1. Filtrado(d, 0).dados = [k \in DOMAIN q |-> q[k].dato]
    BY DEF Filtrado
  <2> HIDE DEF q
  <2> QED
    BY <1>6, <2>1
<1>8. c \in 1 .. hasta /\ c \in DOMAIN ms /\ c # 0
  <2> HIDE DEF hasta, q, ms
  <2> QED
    BY <1>1, <1>4, <1>6, <1>7
<1>9. c \in paran(c)
  BY <1>8
<1>10. ~ (i0(c) # c /\ ms[i0(c)].tipo = "DONE")
  <2> SUFFICES ASSUME i0(c) # c PROVE FALSE
    OBVIOUS
  <2>1. i0(c) \in paran(c) /\ i0(c) <= c
    BY <1>3, <1>9
  <2>2. i0(c) \in paran(0)
    BY <2>1
  <2> HIDE DEF i0, paran, ms
  <2>3. i0(0) <= i0(c)
    BY <1>3, <2>2
  <2>4. i0(0) \in paran(0)
    BY <1>3, <2>2
  <2>5. i0(0) \in Nat /\ i0(c) \in Nat /\ i0(0) \in 1 .. Len(ms)
    BY <1>2, <2>1, <2>4
  <2>6. hasta <= i0(0)
    BY <1>1, <2>5
  <2> HIDE DEF hasta
  <2> QED
    BY <1>4, <1>8, <2>1, <2>3, <2>5, <2>6
<1>11. /\ Filtrado(d, c).vuelve = (paran(c) # {})
       /\ Filtrado(d, c).valor = IF paran(c) # {} /\ i0(c) # c /\ ms[i0(c)].tipo = "DONE" THEN 0 ELSE -1
  BY DEF Filtrado
<1> HIDE DEF i0, paran, ms
<1> QED
  BY <1>9, <1>10, <1>11

LEMMA SecuenciasFinitas ==
  ASSUME NEW b \in Seq(Pieza)
  PROVE  Secuencias(b) \subseteq Nat /\ IsFiniteSet(Secuencias(b))
<1>1. \A k \in DOMAIN b : b[k].sec \in Nat
  <2> SUFFICES ASSUME NEW k \in DOMAIN b PROVE b[k].sec \in Nat
    OBVIOUS
  <2>1. b[k] \in Pieza
    OBVIOUS
  <2> QED
    BY <2>1 DEF Pieza
<1>2. Secuencias(b) \subseteq Nat
  BY <1>1 DEF Secuencias
<1>3. IsFiniteSet(DOMAIN b)
  <2>1. DOMAIN b = 1 .. Len(b) /\ 1 \in Int /\ Len(b) \in Int
    OBVIOUS
  <2>2. IsFiniteSet(1 .. Len(b))
    BY <2>1, FS_Interval
  <2> QED
    BY <2>1, <2>2
<1>4. IsFiniteSet(Secuencias(b))
  <2> DEFINE f == [k \in DOMAIN b |-> b[k].sec]
             J == {f[k] : k \in DOMAIN b}
  <2>1. J = Secuencias(b)
    BY DEF Secuencias
  <2>2. f \in Surjection(DOMAIN b, J)
    BY DEF Surjection
  <2> HIDE DEF f, J
  <2>3. IsFiniteSet(J)
    BY <1>3, <2>2, FS_Surjection
  <2> QED
    BY <2>1, <2>3
<1> QED
  BY <1>2, <1>4

\* The kernel answers the orders that fail with errors.
LEMMA MandaCola ==
  ASSUME NEW resto \in Seq(DatagramasDe(ConRuta)), NEW secs, secs \subseteq Nat, IsFiniteSet(secs),
         NEW deja, Manda(resto, secs, deja)
  PROVE  cola' \in Seq(DatagramasDe(ConRuta))
<1>1. ASSUME NEW n \in Nat PROVE Acuse(n, "ERROR") \in DatagramasDe(ConRuta)
  <2>1. Mensaje(TRUE, n, "ERROR", SinCuerpo) \in ConRuta
    BY DEF ConRuta, MensajesLib, Mensaje, TiposMensaje, Finales
  <2> QED
    BY <2>1, UnMensaje DEF Acuse
<1> QED
  BY <1>1, MandaEn
----------------------------------------------------------------------------
(* The invariant of a flush: what was deleted, with what waits in the      *)
(* buffer, is what was to be, unless print_route could not make room; and  *)
(* then the flush has ended.                                               *)

AlDia == borrados \o Rutas(flush.buf) = Escoge(mirado, Pedidas(filtro))
Fallido == paso = "fin" /\ ret.op = "dump" /\ ret.valor < 0

BTipos ==
  /\ rutas \in Tablas /\ volcando \in Nat
  /\ rth \in [seq : Nat, dump : Nat, grupos : BOOLEAN]
  /\ cola \in Seq(DatagramasDe(ConRuta))
  /\ filtro \in Filtros \cup {FiltroVacio}
  /\ flush \in [buf : Seq(Pieza), flushed : Nat]
  /\ mirado \in Seq(UNION Tablas) /\ borrados \in Seq(UNION Tablas)

BEmpieza == paso = "inicio" => mirado = <<>> /\ borrados = <<>> /\ flush.buf = <<>>

Vaciando == BTipos /\ BEmpieza /\ (AlDia \/ Fallido)
BInv == quien = "vaciado" => Vaciando

LEMMA NadaBorrado ==
  ASSUME mirado = <<>>, borrados = <<>>, flush.buf = <<>>
  PROVE  AlDia
<1>1. Rutas(<<>>) = <<>>
  BY DEF Rutas
<1>2. Escoge(<<>>, Pedidas(filtro)) = <<>>
  BY EscogeVacia
<1>3. <<>> \o <<>> = <<>>
  OBVIOUS
<1> QED
  BY <1>1, <1>2, <1>3, Zenon DEF AlDia

\* A request for a dump is answered with a dump, or with an error.
LEMMA VaciaPideB ==
  ASSUME Vaciando, VaciaAbre \/ VaciaPide \/ VaciaLlama
  PROVE  Vaciando'
<1>1. CASE VaciaAbre
  <2>1. /\ paso = "inicio" /\ rtnl_open(FALSE) /\ filtro' \in Filtros /\ paso' = "pide"
        /\ UNCHANGED <<flush, mirado, borrados>>
    BY <1>1 DEF VaciaAbre
  <2>2. UNCHANGED <<rutas, volcando, cola>> /\ rth' \in [seq : Nat, dump : Nat, grupos : BOOLEAN]
    <3> DEFINE h == [rth EXCEPT !.seq = 0, !.grupos = FALSE]
    <3>1. PICK x : x = [rth EXCEPT !.seq = 0] /\ h = [x EXCEPT !.grupos = FALSE]
      BY Zenon
    <3>2. x \in [seq : Nat, dump : Nat, grupos : BOOLEAN]
      BY <3>1 DEF Vaciando, BTipos
    <3> HIDE DEF h
    <3>3. h \in [seq : Nat, dump : Nat, grupos : BOOLEAN]
      BY <3>1, <3>2
    <3>4. UNCHANGED <<rutas, volcando, cola>> /\ rth' \in {rth, h}
      BY <2>1 DEF rtnl_open, nucleo, h
    <3> QED
      BY <3>3, <3>4 DEF Vaciando, BTipos
  <2>3. mirado' = <<>> /\ borrados' = <<>> /\ flush'.buf = <<>>
    BY <2>1 DEF Vaciando, BEmpieza
  <2>4. AlDia'
    <3>1. Rutas(<<>>) = <<>>
      BY DEF Rutas
    <3>2. Escoge(<<>>, Pedidas(filtro)') = <<>>
      BY EscogeVacia
    <3>3. <<>> \o <<>> = <<>>
      OBVIOUS
    <3>4. Rutas(flush.buf)' = Rutas(<<>>)
      BY <2>3 DEF Rutas
    <3> QED
      BY <2>3, <3>1, <3>2, <3>3, <3>4, Zenon DEF AlDia
  <2> QED
    BY <2>1, <2>2, <2>4 DEF Vaciando, BTipos, BEmpieza
<1>2. CASE VaciaPide
  <2> DEFINE n == rth.seq + 1
             e == Acuse(n, "ERROR")
  <2>1. /\ paso = "pide" /\ rtnl_dump_request /\ paso' \in {"llama", "fin"}
        /\ flush' = [flush EXCEPT !.flushed = 0] /\ UNCHANGED <<filtro, mirado, borrados>>
    BY <1>2 DEF VaciaPide, rtnl_wilddump_request
  <2>2. n \in Nat
    BY DEF Vaciando, BTipos
  <2>3. e \in DatagramasDe(ConRuta)
    <3>1. Mensaje(TRUE, n, "ERROR", SinCuerpo) \in ConRuta
      BY <2>2 DEF ConRuta, MensajesLib, Mensaje, TiposMensaje, Finales
    <3> HIDE DEF n
    <3> QED
      BY <3>1, UnMensaje DEF Acuse
  <2> HIDE DEF e
  <2>4. cola' \in Seq(DatagramasDe(ConRuta)) /\ volcando' \in Nat
    <3>1. \/ volcando' = n /\ cola' = cola
          \/ volcando' = volcando /\ cola' = cola
          \/ volcando' = volcando /\ Llegan(cola, <<e>>)
      BY <2>1 DEF rtnl_dump_request, Acepta, e
    <3>2. <<e>> \in Seq(DatagramasDe(ConRuta))
      BY <2>3
    <3>3. cola \in Seq(DatagramasDe(ConRuta)) /\ volcando \in Nat
      BY DEF Vaciando, BTipos
    <3> HIDE DEF n
    <3> QED
      BY <2>2, <3>1, <3>2, <3>3, LleganCola
  <2>5. UNCHANGED rutas /\ rth' \in [seq : Nat, dump : Nat, grupos : BOOLEAN]
    <3>1. rth' = [rth EXCEPT !.seq = n, !.dump = n] /\ UNCHANGED rutas
      BY <2>1 DEF rtnl_dump_request
    <3> HIDE DEF n
    <3> QED
      BY <2>2, <3>1 DEF Vaciando, BTipos
  <2>6. flush' \in [buf : Seq(Pieza), flushed : Nat] /\ flush'.buf = flush.buf
    BY <2>1 DEF Vaciando, BTipos
  <2>7. AlDia'
    <3>1. AlDia
      BY <2>1 DEF Vaciando, Fallido
    <3> QED
      BY <2>1, <2>6, <3>1 DEF AlDia, Rutas, Pedidas
  <2> QED
    BY <2>1, <2>4, <2>5, <2>6, <2>7 DEF Vaciando, BTipos, BEmpieza
<1>3. CASE VaciaLlama
  <2>1. /\ paso = "llama" /\ paso' = "filtra" /\ UNCHANGED <<filtro, flush, mirado, borrados>>
        /\ UNCHANGED <<rutas, volcando, rth, cola>>
    BY <1>3 DEF VaciaLlama, llama_dump_filter, nucleo
  <2>2. AlDia'
    <3>1. AlDia
      BY <2>1 DEF Vaciando, Fallido
    <3> QED
      BY <2>1, <3>1 DEF AlDia, Rutas, Pedidas
  <2> QED
    BY <2>1, <2>2 DEF Vaciando, BTipos, BEmpieza
<1> QED
  BY <1>1, <1>2, <1>3

LEMMA VaciaFiltraB ==
  ASSUME Vaciando, VaciaFiltra
  PROVE  Vaciando'
<1> DEFINE d == Head(cola)
           rs == Filtrado(d, 0).dados
           F(falla) == Recorre(rs, falla)
           malos(falla) == {k \in DOMAIN rs : F(falla)[k].mal}
           c(falla) == IF malos(falla) = {} THEN 0 ELSE Min(malos(falla))
           s(falla) == F(falla)[Len(rs)]
           T == UNION Tablas
<1>1. /\ paso = "filtra" /\ cola # <<>> /\ UNCHANGED filtro
      /\ paso' = IF fase' = "libre" THEN IF ret'.valor = 0 THEN "vuelca" ELSE "fin" ELSE paso
  BY DEF VaciaFiltra, SinCambio
<1>2. PICK falla \in BOOLEAN :
        /\ rtnl_dump_filter(c(falla))
        /\ Manda(Tail(cola), Secuencias(s(falla).fuera), c(falla) > 0)
        /\ rth' = [rth EXCEPT !.seq = s(falla).seq]
        /\ flush' = [buf |-> s(falla).buf, flushed |-> s(falla).flushed]
        /\ mirado' = mirado \o SubSeq(rs, 1, IF c(falla) = 0 THEN Len(rs) ELSE c(falla))
        /\ borrados' = borrados \o Rutas(s(falla).fuera)
  BY Zenon DEF VaciaFiltra
<1> HIDE DEF F
<1> DEFINE cc == c(falla)
           ss == s(falla)
<1>3. BTipos /\ AlDia
  BY <1>1 DEF Vaciando, Fallido
<1>4. d \in DatagramasDe(ConRuta) /\ Tail(cola) \in Seq(DatagramasDe(ConRuta))
  BY <1>1, <1>3 DEF BTipos
<1>5. rs \in Seq(T)
  <2> HIDE DEF d
  <2> QED
    BY <1>4, FiltraRutas
<1> HIDE DEF rs, d
<1>6. /\ F(falla) \in [0 .. Len(rs) -> Volcador]
      /\ F(falla)[0].mal = FALSE
  <2>1. flush.buf \in Seq(Pieza) /\ flush.flushed \in Nat /\ rth.seq \in Nat
    BY <1>3 DEF BTipos
  <2> QED
    BY <1>5, <2>1, RecorreEs DEF F
<1>7. Len(rs) \in Nat /\ ss \in Volcador
  BY <1>5, <1>6
<1>8. ss.mal => malos(falla) # {}
  <2>1. CASE Len(rs) = 0
    BY <1>6, <2>1
  <2>2. CASE Len(rs) # 0
    <3>1. Len(rs) \in DOMAIN rs
      BY <1>5, <2>2
    <3> QED
      BY <3>1
  <2> QED
    BY <2>1, <2>2
<1>9. malos(falla) # {} => cc \in 1 .. Len(rs)
  <2> SUFFICES ASSUME malos(falla) # {} PROVE Min(malos(falla)) \in 1 .. Len(rs)
    OBVIOUS
  <2>1. malos(falla) \subseteq 1 .. Len(rs) /\ malos(falla) \subseteq Nat
    BY <1>5
  <2> HIDE DEF malos
  <2> QED
    BY <2>1, HayMenor
<1>10. malos(falla) = {} => cc = 0
  OBVIOUS
<1>11. /\ ss.buf \in Seq(Pieza) /\ ss.fuera \in Seq(Pieza) /\ ss.flushed \in Nat /\ ss.seq \in Nat
  <2> HIDE DEF ss
  <2> QED
    BY <1>7 DEF Volcador
<1>12. /\ rtnl_dump_filter(cc)
       /\ Manda(Tail(cola), Secuencias(ss.fuera), cc > 0)
       /\ rth' = [rth EXCEPT !.seq = ss.seq]
       /\ flush' = [buf |-> ss.buf, flushed |-> ss.flushed]
       /\ mirado' = mirado \o SubSeq(rs, 1, IF cc = 0 THEN Len(rs) ELSE cc)
       /\ borrados' = borrados \o Rutas(ss.fuera)
  BY <1>2, Zenon
<1> DEFINE mal == malos(falla) # {}
<1>13. /\ cc \in 0 .. Len(rs) /\ (mal => cc \in 1 .. Len(rs)) /\ (~ mal => cc = 0 /\ ~ ss.mal)
  BY <1>7, <1>8, <1>9, <1>10
<1>14. /\ ~ mal => Rutas(ss.fuera) \o Rutas(ss.buf) = Rutas(flush.buf) \o Escoge(rs, Pedidas(filtro))
  <2> SUFFICES ASSUME ~ F(falla)[Len(rs)].mal
               PROVE  Rutas(ss.fuera) \o Rutas(ss.buf) = Rutas(flush.buf) \o Escoge(rs, Pedidas(filtro))
    BY <1>13
  <2>1. /\ flush.buf \in Seq(Pieza) /\ flush.flushed \in Nat /\ rth.seq \in Nat
        /\ filtro \in Filtros \cup {FiltroVacio}
    BY <1>3 DEF BTipos
  <2> DEFINE G == F(falla)
  <2>2. G = Recorre(rs, falla) /\ ~ G[Len(rs)].mal
    BY DEF F
  <2> HIDE DEF G
  <2>3. Rutas(G[Len(rs)].fuera) \o Rutas(G[Len(rs)].buf) = Rutas(flush.buf) \o Escoge(rs, Pedidas(filtro))
    BY <1>5, <2>1, <2>2, RecorreBorra
  <2> QED
    BY <2>3 DEF G
<1> HIDE DEF cc, ss, mal
<1>15. rth' \in [seq : Nat, dump : Nat, grupos : BOOLEAN] /\ UNCHANGED <<rutas, volcando>>
  BY <1>3, <1>11, <1>12 DEF BTipos, rtnl_dump_filter
<1>16. cola' \in Seq(DatagramasDe(ConRuta))
  BY <1>4, <1>11, <1>12, SecuenciasFinitas, MandaCola
<1>17. /\ flush' \in [buf : Seq(Pieza), flushed : Nat] /\ flush'.buf = ss.buf
       /\ borrados' \in Seq(T) /\ Rutas(ss.fuera) \in Seq(T) /\ Rutas(ss.buf) \in Seq(T)
  <2>1. Rutas(ss.fuera) \in Seq(T) /\ Rutas(ss.buf) \in Seq(T)
    BY <1>11, RutasDe
  <2> QED
    BY <1>3, <1>11, <1>12, <2>1 DEF BTipos
<1>18. mirado' \in Seq(T)
  <2> DEFINE k == IF cc = 0 THEN Len(rs) ELSE cc
  <2>1. k \in 0 .. Len(rs)
    BY <1>7, <1>13
  <2> HIDE DEF k
  <2>2. SubSeq(rs, 1, k) \in Seq(T)
    BY <1>5, <1>7, <2>1
  <2> QED
    BY <1>3, <1>12, <2>2 DEF BTipos, k
<1>19. CASE mal
  <2>1. cc \in 1 .. Len(Filtrado(d, 0).dados)
    BY <1>13, <1>19 DEF rs
  <2>2. Filtrado(d, cc).vuelve /\ Filtrado(d, cc).valor = -1
    BY <1>4, <2>1, FiltraCorta
  <2>3. Devuelve("dump", Filtrado(d, cc).valor, <<>>)
    BY <1>12, <2>2 DEF rtnl_dump_filter, d
  <2>4. fase' = "libre" /\ ret'.op = "dump" /\ ret'.valor = -1
    BY <2>2, <2>3 DEF Devuelve
  <2>5. Fallido' /\ paso' # "inicio"
    BY <1>1, <2>4 DEF Fallido
  <2> QED
    BY <1>1, <1>3, <1>15, <1>16, <1>17, <1>18, <2>5 DEF Vaciando, BTipos, BEmpieza
<1>20. CASE ~ mal
  <2> DEFINE P == Pedidas(filtro)
             a == Rutas(ss.fuera)
             b == Rutas(ss.buf)
             x == Rutas(flush.buf)
             e == Escoge(rs, P)
             m == Escoge(mirado, P)
  <2>1. mirado' = mirado \o rs
    <3>1. SubSeq(rs, 1, Len(rs)) = rs
      BY <1>5, SubSeqFull
    <3> QED
      BY <1>12, <1>13, <1>20, <3>1, Zenon
  <2>2. Escoge(mirado \o rs, P) = m \o e
    <3>1. mirado \in Seq(T) /\ rs \in Seq(T)
      BY <1>3, <1>5 DEF BTipos
    <3> HIDE DEF P, T
    <3> QED
      BY <3>1, EscogeConcat
  <2>3. a \o b = x \o e /\ borrados \o x = m
    BY <1>3, <1>14, <1>20 DEF AlDia
  <2>4. a \in Seq(T) /\ b \in Seq(T) /\ borrados \in Seq(T) /\ x \in Seq(T) /\ e \in Seq(T)
    <3>1. x \in Seq(T)
      BY <1>3, RutasDe DEF BTipos
    <3>2. e \in Seq(T)
      BY <1>5, EscogeTipo
    <3>3. borrados \in Seq(T)
      BY <1>3 DEF BTipos
    <3>4. a \in Seq(T) /\ b \in Seq(T)
      BY <1>17
    <3> QED
      BY <3>1, <3>2, <3>3, <3>4
  <2>5. borrados' = borrados \o a
    BY <1>12
  <2>6. Rutas(flush.buf)' = b
    BY <1>17 DEF Rutas
  <2>7. Pedidas(filtro)' = P
    BY <1>1 DEF Pedidas
  <2> HIDE DEF a, b, x, e, m, P
  <2>8. (borrados \o a) \o b = borrados \o (a \o b) /\ (borrados \o x) \o e = borrados \o (x \o e)
    <3>1. \A p, q, r \in Seq(T) : (p \o q) \o r = p \o (q \o r)
      BY ConcatAssociative
    <3> HIDE DEF T
    <3>2. (borrados \o a) \o b = borrados \o (a \o b)
      <4>1. borrados \in Seq(T) /\ a \in Seq(T) /\ b \in Seq(T)
        BY <2>4, Zenon
      <4> QED BY ONLY <3>1, <4>1, Zenon
    <3>3. (borrados \o x) \o e = borrados \o (x \o e)
      <4>1. borrados \in Seq(T) /\ x \in Seq(T) /\ e \in Seq(T)
        BY <2>4, Zenon
      <4> QED BY ONLY <3>1, <4>1, Zenon
    <3> QED
      BY <3>2, <3>3, Zenon
  <2>9. borrados' \o b = Escoge(mirado', P)
    BY <2>1, <2>2, <2>3, <2>5, <2>8, Zenon
  <2>10. AlDia'
    BY <2>6, <2>7, <2>9, Zenon DEF AlDia
  <2>11. paso' # "inicio"
    BY <1>1
  <2> QED
    BY <1>1, <1>3, <1>15, <1>16, <1>17, <1>18, <2>10, <2>11 DEF Vaciando, BTipos, BEmpieza
<1> QED
  BY <1>19, <1>20

\* Nothing new is looked at; what waited has been sent, or still waits.
LEMMA flush_updateB ==
  ASSUME Vaciando, flush_update
  PROVE  Vaciando'
<1>1. paso = "vuelca" /\ paso' \in {"fin", "pide"} /\ UNCHANGED <<filtro, mirado>>
  BY DEF flush_update
<1>2. BTipos /\ AlDia
  BY <1>1 DEF Vaciando, Fallido
<1> DEFINE b == Secuencias(flush.buf)
<1>3. UNCHANGED libvars \/ (rtnl_send(b) /\ UNCHANGED rth)
  BY DEF flush_update
<1>4. b \subseteq Nat /\ IsFiniteSet(b)
  BY <1>2, SecuenciasFinitas DEF BTipos
<1> HIDE DEF b
<1>5. /\ rutas' \in Tablas /\ volcando' \in Nat
      /\ rth' \in [seq : Nat, dump : Nat, grupos : BOOLEAN]
      /\ cola' \in Seq(DatagramasDe(ConRuta))
  <2>1. UNCHANGED <<rutas, volcando, rth>> /\ (cola' = cola \/ Manda(cola, b, FALSE))
    BY <1>3 DEF libvars, nucleo, manejo, rtnl_send
  <2>2. Manda(cola, b, FALSE) => cola' \in Seq(DatagramasDe(ConRuta))
    BY <1>2, <1>4, MandaCola DEF BTipos
  <2> QED
    BY <1>2, <2>1, <2>2 DEF BTipos
<1>6. \/ UNCHANGED <<borrados, flush>>
      \/ borrados' = borrados \o Rutas(flush.buf) /\ flush' = [flush EXCEPT !.buf = <<>>]
  BY DEF flush_update
<1>7. CASE UNCHANGED <<borrados, flush>>
  <2>1. AlDia'
    BY <1>1, <1>2, <1>7 DEF AlDia, Rutas, Pedidas
  <2> QED
    BY <1>1, <1>2, <1>5, <1>7, <2>1 DEF Vaciando, BTipos, BEmpieza
<1>8. CASE borrados' = borrados \o Rutas(flush.buf) /\ flush' = [flush EXCEPT !.buf = <<>>]
  <2>1. Rutas(flush.buf) \in Seq(UNION Tablas)
    BY <1>2, RutasDe DEF BTipos
  <2>2. /\ flush' \in [buf : Seq(Pieza), flushed : Nat] /\ flush'.buf = <<>>
        /\ borrados' \in Seq(UNION Tablas)
    <3>1. flush' \in [buf : Seq(Pieza), flushed : Nat] /\ flush'.buf = <<>>
      <4>1. flush \in [buf : Seq(Pieza), flushed : Nat]
        BY <1>2 DEF BTipos
      <4>2. flush' = [flush EXCEPT !.buf = <<>>]
        BY <1>8
      <4>3. <<>> \in Seq(Pieza)
        OBVIOUS
      <4> QED
        BY <4>1, <4>2, <4>3
    <3> DEFINE z == Rutas(flush.buf)
    <3>2. z \in Seq(UNION Tablas) /\ borrados \in Seq(UNION Tablas)
      BY <1>2, <2>1 DEF BTipos
    <3> HIDE DEF z
    <3>3. borrados \o z \in Seq(UNION Tablas)
      BY <3>2
    <3> QED
      BY <1>8, <3>1, <3>3 DEF z
  <2>3. Rutas(flush.buf)' = <<>>
    BY <2>2 DEF Rutas
  <2>4. borrados' \o <<>> = borrados'
    BY <2>2, ConcatEmptySeq
  <2>5. Pedidas(filtro)' = Pedidas(filtro)
    BY <1>1 DEF Pedidas
  <2>6. borrados' = Escoge(mirado, Pedidas(filtro))
    BY <1>2, <1>8, Zenon DEF AlDia
  <2>7. AlDia'
    BY <1>1, <2>3, <2>4, <2>5, <2>6, Zenon DEF AlDia
  <2> QED
    BY <1>1, <1>2, <1>5, <2>2, <2>7 DEF Vaciando, BTipos, BEmpieza
<1> QED
  BY <1>6, <1>7, <1>8

LEMMA VaciaAjenoB ==
  ASSUME Vaciando, UNCHANGED propias, Sobrepasa \/ Vuelca \/ Avisa \/ UNCHANGED libvars
  PROVE  Vaciando'
<1>1. UNCHANGED <<paso, filtro, flush, mirado, borrados, rth, ret, rutas>>
  BY DEF propias, Sobrepasa, Vuelca, Avisa, libvars, manejo, nucleo
<1>2. AlDia \/ Fallido => (AlDia \/ Fallido)'
  BY <1>1 DEF AlDia, Fallido, Rutas, Pedidas
<1>3. volcando' \in Nat
  <2>1. volcando' \in {volcando, 0}
    <3>1. Vuelca => volcando' \in {volcando, 0}
      BY DEF Vuelca
    <3> QED
      BY <3>1 DEF Sobrepasa, Avisa, libvars, nucleo
  <2> QED
    BY <2>1 DEF Vaciando, BTipos
<1>4. cola' \in Seq(DatagramasDe(ConRuta))
  <2>0. cola \in Seq(DatagramasDe(ConRuta)) /\ rutas \in Tablas /\ volcando \in Nat
    BY DEF Vaciando, BTipos
  <2>1. \A n \in Nat, b \in BOOLEAN, c \in UNION Tablas :
          /\ Mensaje(b, n, "NEWROUTE", c) \in ConRuta
          /\ Mensaje(b, n, "DELROUTE", c) \in ConRuta
    BY DEF ConRuta, MensajesLib, Mensaje, TiposMensaje, Finales
  <2>2. CASE Vuelca
    <3>1. ASSUME NEW cs \in BoundedSeq(rutas, 2), NEW c \in {"no", "justo", "medio"},
                 cola' = << [msgs |-> [k \in DOMAIN cs |-> Mensaje(TRUE, volcando, "NEWROUTE", cs[k])],
                             corte |-> c] >>
          PROVE  cola' \in Seq(DatagramasDe(ConRuta))
      <4>1. cs \in Seq(rutas)
        <5>1. PICK n \in 0..2 : cs \in [1..n -> rutas]
          BY DEF BoundedSeq, SeqOf
        <5> QED
          BY <5>1
      <4>2. ASSUME NEW k \in 1..Len(cs)
            PROVE  Mensaje(TRUE, volcando, "NEWROUTE", cs[k]) \in ConRuta
        <5>1. cs[k] \in UNION Tablas
          BY <2>0, <4>1
        <5> QED
          BY <2>0, <2>1, <5>1
      <4> DEFINE ms == [k \in DOMAIN cs |-> Mensaje(TRUE, volcando, "NEWROUTE", cs[k])]
      <4>3. ms \in Seq(ConRuta)
        <5>1. Len(cs) \in Nat /\ DOMAIN cs = 1..Len(cs)
          BY <4>1
        <5>2. ms \in [1..Len(cs) -> ConRuta]
          BY <4>2, <5>1, Zenon
        <5> HIDE DEF ms
        <5> QED
          BY <5>1, <5>2
      <4> HIDE DEF ms
      <4>4. [msgs |-> ms, corte |-> c] \in DatagramasDe(ConRuta)
        BY <4>3 DEF DatagramasDe
      <4> QED
        BY <3>1, <4>4 DEF ms
    <3>2. ASSUME Llegan(cola, <<Datagrama(<<Mensaje(TRUE, volcando, "DONE", SinCuerpo)>>)>>)
          PROVE  cola' \in Seq(DatagramasDe(ConRuta))
      <4> DEFINE e == Datagrama(<<Mensaje(TRUE, volcando, "DONE", SinCuerpo)>>)
      <4>1. e \in DatagramasDe(ConRuta)
        <5>1. Mensaje(TRUE, volcando, "DONE", SinCuerpo) \in ConRuta
          BY <2>0 DEF ConRuta, MensajesLib, Mensaje, TiposMensaje, Finales
        <5> QED
          BY <5>1, UnMensaje
      <4> HIDE DEF e
      <4>2. <<e>> \in Seq(DatagramasDe(ConRuta))
        BY <4>1
      <4> QED
        BY <2>0, <3>2, <4>2, LleganCola DEF e
    <3> QED
      BY <2>2, <3>1, <3>2 DEF Vuelca
  <2>3. CASE Avisa
    <3>1. PICK c \in rutas, t \in {"NEWROUTE", "DELROUTE"} :
            Llegan(cola, <<Datagrama(<<Mensaje(FALSE, 0, t, c)>>)>>)
      BY <2>3 DEF Avisa
    <3> DEFINE e == Datagrama(<<Mensaje(FALSE, 0, t, c)>>)
    <3>2. e \in DatagramasDe(ConRuta)
      <4>1. Mensaje(FALSE, 0, t, c) \in ConRuta
        BY <2>0, <2>1, <3>1
      <4> QED
        BY <4>1, UnMensaje
    <3> HIDE DEF e
    <3>3. <<e>> \in Seq(DatagramasDe(ConRuta))
      BY <3>2
    <3> QED
      BY <2>0, <3>1, <3>3, LleganCola DEF e
  <2>4. CASE Sobrepasa \/ UNCHANGED libvars
    BY <2>0, <2>4 DEF Sobrepasa, libvars, nucleo
  <2> QED
    BY <2>2, <2>3, <2>4
<1> QED
  BY <1>1, <1>2, <1>3, <1>4 DEF Vaciando, BTipos, BEmpieza

LEMMA VaciaPaso == BInv /\ [IpNext]_ipvars => BInv'
<1> SUFFICES ASSUME BInv, [IpNext]_ipvars, quien' = "vaciado"
             PROVE  Vaciando'
  BY DEF BInv
<1>1. quien = "vaciado"
  BY DEF IpNext, Vaciado, VaciaAbre, VaciaPide, VaciaLlama, VaciaFiltra, flush_update, SinCambio,
         iproute_get, iproute_reset_filter, Abre, ll_init_map, Pregunta, Oye, Reescribe, Resto, Quedan,
         Ajeno, ipvars, propias
<1>2. Vaciando
  BY <1>1 DEF BInv
<1>3. CASE Vaciado
  BY <1>2, <1>3, VaciaPideB, VaciaFiltraB, flush_updateB DEF Vaciado
<1>4. CASE Ajeno
  BY <1>1, <1>2, <1>4, VaciaAjenoB DEF Ajeno
<1>5. CASE UNCHANGED ipvars
  BY <1>2, <1>5, VaciaAjenoB DEF ipvars
<1>6. ~ iproute_get
  BY <1>1 DEF iproute_get, iproute_reset_filter, Abre, ll_init_map, Pregunta, Oye, Reescribe
<1> QED
  BY <1>3, <1>4, <1>5, <1>6 DEF IpNext

\* A flush deletes the routes of its dumps that its filter means, each once
\* and in order, but the kernel's own: whatever its buffer holds, whatever
\* deletions the kernel refuses and whatever replies it loses, as long as
\* print_route does not fail to make room (ip_functions.c:120-294); with no
\* filter by gateway or preferred source that meets a route that has it.
THEOREM FlushesAsked == IpSpec => []BorraLoPedido
<1>1. IpInit => BInv
  <2> SUFFICES ASSUME IpInit PROVE Vaciando
    BY DEF BInv
  <2>1. LibInit /\ mirado = <<>> /\ borrados = <<>> /\ flush = [buf |-> <<>>, flushed |-> 0]
        /\ filtro = FiltroVacio
    BY DEF IpInit
  <2>2. AlDia
    BY <2>1, NadaBorrado
  <2> QED
    BY <2>1, <2>2 DEF Vaciando, BTipos, BEmpieza, LibInit
<1>2. BInv => BorraLoPedido
  <2> SUFFICES ASSUME quien = "vaciado", Vaciando, ~ (ret.op = "dump" /\ ret.valor < 0)
               PROVE  borrados \o Rutas(flush.buf) = Escoge(mirado, Pedidas(filtro))
    BY Zenon DEF BInv, BorraLoPedido, Pedidas
  <2> QED
    BY DEF Vaciando, Fallido, AlDia
<1> QED
  BY <1>1, <1>2, VaciaPaso, PTL DEF IpSpec
----------------------------------------------------------------------------
(***************************************************************************)
(* The callers of the library that the repository has.  iproute_get only   *)
(* does what any caller of LibSpec may; the filter of a flush sends orders *)
(* of its own over the handle while a dump is being read, whose failures   *)
(* the kernel answers in the same queue, and the invariants hold of it all *)
(* the same: what it adds to the queue are errors.                         *)
(***************************************************************************)

\* The numbers print_route gives to its deletions only grow.
LEMMA PrintSec ==
  ASSUME NEW s \in Volcador, NEW r, NEW falla
  PROVE  print_route(s, r, falla).seq \in {s.seq, s.seq + 1}
<1> DEFINE e == [ruta |-> r, sec |-> s.seq + 1]
           lleno == Len(s.buf) = CabeFlush
           b == Append(IF lleno THEN <<>> ELSE s.buf, e)
           q == IF lleno THEN s.fuera \o s.buf ELSE s.fuera
<1>1. \/ print_route(s, r, falla) = s
      \/ print_route(s, r, falla) = [s EXCEPT !.mal = TRUE]
      \/ print_route(s, r, falla) = [buf |-> b, fuera |-> q, flushed |-> s.flushed + 1, seq |-> s.seq + 1, mal |-> FALSE]
  BY Zenon DEF print_route
<1> HIDE DEF b, q
<1>2. [s EXCEPT !.mal = TRUE].seq = s.seq
  BY DEF Volcador
<1>3. [buf |-> b, fuera |-> q, flushed |-> s.flushed + 1, seq |-> s.seq + 1, mal |-> FALSE].seq = s.seq + 1
  BY Zenon
<1> QED
  BY <1>1, <1>2, <1>3, Zenon

LEMMA RecorreSec ==
  ASSUME NEW rs \in Seq(UNION Tablas), NEW falla \in BOOLEAN,
         flush.buf \in Seq(Pieza), flush.flushed \in Nat, rth.seq \in Nat
  PROVE  Recorre(rs, falla)[Len(rs)].seq >= rth.seq
<1> DEFINE n == Len(rs)
           F == Recorre(rs, falla)
           I == {k \in Nat : k <= n => F[k].seq >= rth.seq}
<1>1. /\ F \in [0 .. n -> Volcador]
      /\ F[0].seq = rth.seq
      /\ \A k \in 1 .. n : F[k] = print_route(F[k - 1], rs[k], falla)
  BY RecorreEs
<1>2. n \in Nat
  OBVIOUS
<1> HIDE DEF F, n
<1>3. 0 \in I
  BY <1>1
<1>4. ASSUME NEW k \in Nat, k \in I PROVE k + 1 \in I
  <2> SUFFICES ASSUME k + 1 <= n PROVE F[k + 1].seq >= rth.seq
    OBVIOUS
  <2>1. k + 1 \in 1 .. n /\ (k + 1) - 1 = k /\ k \in 0 .. n /\ k <= n
    BY <1>2
  <2>2. F[k] \in Volcador /\ F[k].seq >= rth.seq
    BY <1>1, <1>4, <2>1
  <2>3. F[k + 1] = print_route(F[k], rs[k + 1], falla)
    BY <1>1, <2>1
  <2>4. F[k + 1].seq \in {F[k].seq, F[k].seq + 1}
    BY <2>2, <2>3, PrintSec
  <2>5. F[k].seq \in Nat
    BY <2>2 DEF Volcador
  <2> QED
    BY <2>2, <2>4, <2>5
<1> HIDE DEF I
<1>5. Nat \subseteq I
  BY <1>3, <1>4, Induccion
<1> QED
  BY <1>2, <1>5 DEF I, F, n

\* The filter is given at most the messages of the datagram.
LEMMA DadosCaben ==
  ASSUME NEW d \in DatagramasDe(MensajesLib), NEW c
  PROVE  /\ Len(Filtrado(d, c).dados) \in Nat
         /\ Len(Filtrado(d, c).dados) <= Len(d.msgs)
<1> DEFINE ms == d.msgs
           paran == {i \in DOMAIN ms : i = c \/ (Propio(ms[i]) /\ ms[i].tipo \in Finales)}
           i0 == IF paran = {} THEN Len(ms) + 1 ELSE Min(paran)
           hasta == IF i0 < Len(ms) THEN i0 ELSE Len(ms)
           r == SubSeq(ms, 1, hasta)
           S == {m \in Range(ms) : Propio(m) /\ m.tipo \notin Finales}
           q == Escoge(r, S)
<1>1. ms \in Seq(MensajesLib) /\ DOMAIN ms = 1..Len(ms) /\ Len(ms) \in Nat
  BY DEF DatagramasDe
<1>2. i0 \in Nat
  <2>1. paran # {} => Min(paran) \in Nat
    <3>1. paran \subseteq Nat
      BY <1>1
    <3> HIDE DEF paran
    <3> QED
      BY <3>1, HayMenor
  <2> QED
    BY <1>1, <2>1
<1>3. hasta \in 0 .. Len(ms)
  <2> HIDE DEF i0, ms
  <2> QED
    BY <1>1, <1>2
<1>4. r \in Seq(MensajesLib) /\ Len(r) = hasta
  <2> HIDE DEF hasta, ms
  <2> QED
    BY <1>1, <1>3
<1>5. q \in Seq(MensajesLib) /\ Len(q) <= hasta
  <2> HIDE DEF r, S
  <2> QED
    BY <1>4, EscogeTipo, EscogeCorta
<1>6. Filtrado(d, c).dados = [k \in DOMAIN q |-> q[k].dato]
  BY DEF Filtrado
<1> HIDE DEF q, hasta, ms
<1>7. Len(Filtrado(d, c).dados) = Len(q) /\ Len(q) \in Nat
  BY <1>5, <1>6
<1> QED
  BY <1>1, <1>3, <1>5, <1>7 DEF ms

\* One turn of the loop of rtnl_dump_filter with print_route as its filter, as
\* the library sees it: orders of new numbers are sent, and the call is cut at
\* one of the messages if print_route fails at it.
FiltraManda(c, secs, n) ==
  /\ rtnl_dump_filter(c) /\ (c = 0 \/ (c > 0 /\ c \in DOMAIN Head(cola).msgs))
  /\ Manda(Tail(cola), secs, c > 0) /\ secs \subseteq Nat /\ IsFiniteSet(secs)
  /\ n \in Nat /\ n >= rth.seq /\ rth' = [rth EXCEPT !.seq = n]

LEMMA FiltraComo ==
  ASSUME IInv, Vaciando, VaciaFiltra
  PROVE  \E c, secs, n : FiltraManda(c, secs, n)
<1> DEFINE d == Head(cola)
           rs == Filtrado(d, 0).dados
           F(falla) == Recorre(rs, falla)
           malos(falla) == {k \in DOMAIN rs : F(falla)[k].mal}
           c(falla) == IF malos(falla) = {} THEN 0 ELSE Min(malos(falla))
           s(falla) == F(falla)[Len(rs)]
<1>1. cola # <<>> /\ paso = "filtra"
  BY DEF VaciaFiltra
<1>2. PICK falla \in BOOLEAN :
        /\ rtnl_dump_filter(c(falla))
        /\ Manda(Tail(cola), Secuencias(s(falla).fuera), c(falla) > 0)
        /\ rth' = [rth EXCEPT !.seq = s(falla).seq]
  BY Zenon DEF VaciaFiltra
<1> HIDE DEF F
<1>3. d \in DatagramasDe(ConRuta) /\ d \in DatagramasDe(MensajesLib)
  <2>1. d \in DatagramasDe(ConRuta)
    BY <1>1 DEF Vaciando, BTipos
  <2>2. ConRuta \subseteq MensajesLib
    BY DEF ConRuta
  <2> HIDE DEF d
  <2>3. Seq(ConRuta) \subseteq Seq(MensajesLib)
    BY <2>2
  <2> QED
    BY <2>1, <2>3 DEF DatagramasDe
<1>4. rs \in Seq(UNION Tablas) /\ Len(rs) <= Len(d.msgs) /\ Len(rs) \in Nat
  <2> HIDE DEF d
  <2> QED
    BY <1>3, FiltraRutas, DadosCaben
<1>5. DOMAIN d.msgs = 1 .. Len(d.msgs) /\ Len(d.msgs) \in Nat
  <2> HIDE DEF d
  <2> QED
    BY <1>3 DEF DatagramasDe
<1> HIDE DEF rs, d
<1>6. flush.buf \in Seq(Pieza) /\ flush.flushed \in Nat /\ rth.seq \in Nat
  BY DEF Vaciando, BTipos
<1>7. F(falla) \in [0 .. Len(rs) -> Volcador] /\ F(falla)[Len(rs)].seq >= rth.seq
  BY <1>4, <1>6, RecorreEs, RecorreSec DEF F
<1>8. s(falla) \in Volcador
  BY <1>4, <1>7
<1> DEFINE cc == c(falla)
           ss == s(falla)
<1>9. cc = 0 \/ (cc > 0 /\ cc \in DOMAIN d.msgs)
  <2> SUFFICES ASSUME malos(falla) # {} PROVE Min(malos(falla)) \in 1 .. Len(rs)
    BY <1>4, <1>5
  <2>1. malos(falla) \subseteq 1 .. Len(rs) /\ malos(falla) \subseteq Nat
    BY <1>4
  <2> HIDE DEF malos
  <2> QED
    BY <2>1, HayMenor
<1>10. /\ rtnl_dump_filter(cc)
       /\ Manda(Tail(cola), Secuencias(ss.fuera), cc > 0)
       /\ rth' = [rth EXCEPT !.seq = ss.seq]
       /\ ss \in Volcador /\ ss.seq >= rth.seq
  BY <1>2, <1>7, <1>8, Zenon
<1> HIDE DEF cc, ss
<1>11. ss.fuera \in Seq(Pieza) /\ ss.seq \in Nat
  BY <1>10 DEF Volcador
<1> DEFINE q == Secuencias(ss.fuera)
<1>12. q \subseteq Nat /\ IsFiniteSet(q)
  BY <1>11, SecuenciasFinitas
<1> HIDE DEF q
<1>13. FiltraManda(cc, q, ss.seq)
  BY <1>9, <1>10, <1>11, <1>12 DEF FiltraManda, q, d
<1> QED
  BY <1>13, Zenon
----------------------------------------------------------------------------
(* The filter of a flush keeps the invariants of the library.              *)

LEMMA MandaI ==
  ASSUME IInv, NEW c, NEW secs, NEW n, FiltraManda(c, secs, n)
  PROVE  IInv'
<1>1. /\ fase = "filtra" /\ cola # <<>> /\ UNCHANGED <<rutas, volcando, hablo>>
      /\ \/ fase' = "libre" /\ ret'.op = "dump"
         \/ fase' = "filtra"
  BY DEF FiltraManda, rtnl_dump_filter, Devuelve
<1>2. n \in Nat /\ n >= rth.seq /\ rth' = [rth EXCEPT !.seq = n] /\ secs \subseteq Nat
      /\ IsFiniteSet(secs) /\ Manda(Tail(cola), secs, c > 0)
  BY DEF FiltraManda
<1>3. rth' \in [seq : Nat, dump : Nat, grupos : BOOLEAN] /\ rth'.seq = n
  BY <1>2 DEF IInv, LibTipos
<1>4. LibTipos'
  BY <1>1, <1>3 DEF IInv, LibTipos
<1>5. Numeros' /\ Cerrado'
  BY <1>1, <1>2, <1>3 DEF IInv, LibTipos, Numeros, Cerrado
<1>6. hecho \subseteq hecho'
  BY <1>2 DEF Manda
<1>7. Fiables \subseteq Fiables'
  BY <1>1, <1>2, <1>3, <1>4, <1>6, FiablesQuedan DEF IInv
<1>8. Tail(cola) \in Seq(DatagramasDe(Fiables'))
  BY <1>1, <1>7, ColaPrimera, ColaMayor
<1>9. Cola'
  BY <1>2, <1>8, ErroresCaben, MandaEn DEF Cola
<1>10. RespuestaPropia'
  BY <1>1 DEF RespuestaPropia
<1> QED
  BY <1>4, <1>5, <1>9, <1>10 DEF IInv

\* No message of a dump ends its reading but its last, unless print_route
\* fails; and then, or if a deletion does, something is left unread.
LEMMA MandaL ==
  ASSUME IInv, LInv, NEW c, NEW secs, NEW n, FiltraManda(c, secs, n)
  PROVE  LInv'
<1>1. rtnl_dump_filter(c) /\ cola # <<>> /\ (c = 0 \/ c > 0)
  BY DEF FiltraManda, rtnl_dump_filter
<1>2. rth'.grupos = rth.grupos
  BY DEF FiltraManda, IInv, LibTipos
<1>3. ~restos' => ~restos /\ c = 0 /\ cola' = Tail(cola) /\ UNCHANGED so_error
  <2>1. Tail(cola) \in Seq(DatagramasDe(MensajesLib))
    BY <1>1, Avanza
  <2>2. \A k \in Nat : Acuse(k, "ERROR") \in DatagramasDe(MensajesLib)
    BY ErroresCaben
  <2>3. /\ c > 0 => restos'
        /\ ~restos' => ~restos /\ cola' = Tail(cola) /\ UNCHANGED so_error
    BY <2>1, <2>2, MandaEn DEF FiltraManda
  <2> QED
    BY <1>1, <2>3
<1> QED
  BY <1>1, <1>2, <1>3, FiltraL

LEMMA MandaV ==
  ASSUME IInv, VInv, NEW c, NEW secs, NEW n, FiltraManda(c, secs, n)
  PROVE  VInv'
<1>1. /\ rtnl_dump_filter(c) /\ fase = "filtra" /\ cola # <<>>
      /\ c = 0 \/ c \in DOMAIN Head(cola).msgs
  BY DEF FiltraManda, rtnl_dump_filter
<1>2. rth'.dump = rth.dump
  BY DEF FiltraManda, IInv, LibTipos
<1>3. cola' \in Seq(Ajenos)
  BY <1>1, RestoAjeno, ErrorAjeno, MandaEn DEF FiltraManda
<1> QED
  BY <1>1, <1>2, <1>3, FiltraV

\* flush_update sends its buffer between two calls.
LEMMA ActualizaI ==
  ASSUME IInv, NEW secs, secs \subseteq Nat, IsFiniteSet(secs), rtnl_send(secs), UNCHANGED rth
  PROVE  IInv'
<1>1. /\ fase = "libre" /\ fase' = fase /\ ret'.op = "send" /\ UNCHANGED <<rutas, volcando, hablo>>
      /\ hecho \subseteq hecho'
      /\ Manda(cola, secs, FALSE) \/ cola' = cola
  BY DEF rtnl_send, Manda, Nada
<1>2. LibTipos'
  BY <1>1 DEF IInv, LibTipos
<1>3. cola \in Seq(DatagramasDe(Fiables'))
  <2>1. Fiables \subseteq Fiables'
    BY <1>1, <1>2, FiablesQuedan DEF IInv, LibTipos
  <2> QED
    BY <2>1, ColaMayor DEF IInv, Cola
<1>4. cola' \in Seq(DatagramasDe(Fiables'))
  BY <1>1, <1>3, ErroresCaben, MandaEn
<1> QED
  BY <1>1, <1>4, Callado
----------------------------------------------------------------------------
(***************************************************************************)
(* The programs of Iproute over the library.  A flush reads the dump it    *)
(* asked for before it does anything else.                                 *)
(***************************************************************************)

Ordena == quien = "vaciado" => (pedido => paso = "llama")
GInv == IInv /\ LInv /\ VInv /\ QInv /\ BInv /\ Ordena

\* What iproute_get does is what any caller of the library may do.
LEMMA ConsultaDeLib ==
  ASSUME Consulta, iproute_get
  PROVE  [LibNext]_libvars
<1>1. CASE iproute_reset_filter \/ Reescribe
  BY <1>1 DEF iproute_reset_filter, Reescribe
<1>2. CASE Abre
  BY <1>2 DEF Abre, LibNext, LibLlama
<1>3. CASE ll_init_map
  <2>1. CASE paso = "mapa" /\ rtnl_wilddump_request
    <3>1. ~ pedido
      BY <2>1 DEF Consulta
    <3> QED
      BY <2>1, <3>1 DEF rtnl_wilddump_request, LibNext, LibLlama
  <2>2. CASE llama_dump_filter(FALSE)
    BY <2>2 DEF LibNext, LibLlama
  <2>3. CASE rtnl_dump_filter(0) /\ Llegan(Tail(cola), <<>>) /\ UNCHANGED <<rth, hecho, restos>>
    <3>1. cola # <<>> /\ 0 \in Cortes(Head(cola))
      BY <2>3 DEF Cortes, rtnl_dump_filter
    <3>2. restos' = (restos \/ 0 > 0)
      <4>1. restos = FALSE /\ ~ (0 > 0)
        BY DEF Consulta
      <4> QED
        BY <2>3, <4>1, Zenon
    <3> QED
      BY <2>3, <3>1, <3>2 DEF LibNext, Lee
  <2> QED
    BY <1>3, <2>1, <2>2, <2>3 DEF ll_init_map
<1>4. CASE Pregunta
  <2>1. ~ pedido
    BY <1>4 DEF Pregunta, Consulta
  <2> QED
    BY <1>4, <2>1 DEF Pregunta, LibNext, LibLlama
<1>5. CASE Oye
  BY <1>5 DEF Oye, LibNext, Lee
<1> QED
  BY <1>1, <1>2, <1>3, <1>4, <1>5 DEF iproute_get

LEMMA VaciaDeLib ==
  ASSUME IInv, LInv, VInv, Vaciando, Vaciado, pedido => paso = "llama"
  PROVE  IInv' /\ LInv' /\ VInv' /\ (pedido' => paso' = "llama")
<1>1. CASE [LibNext]_libvars /\ (pedido' => paso' = "llama")
  BY <1>1, Paso, PasoL, PasoV
<1>2. CASE VaciaAbre
  <2>1. rtnl_open(FALSE) /\ ~ pedido
    BY <1>2 DEF VaciaAbre
  <2>2. LibNext /\ UNCHANGED pedido
    BY <2>1 DEF LibNext, LibLlama, rtnl_open
  <2> QED
    BY <1>1, <2>1, <2>2
<1>3. CASE VaciaPide
  <2>1. rtnl_dump_request /\ ~ pedido /\ paso' = (IF ret'.valor = 0 THEN "llama" ELSE "fin")
    BY <1>3 DEF VaciaPide, rtnl_wilddump_request
  <2>2. LibNext
    BY <2>1 DEF LibNext, LibLlama
  <2>3. ret'.valor = 0 \/ UNCHANGED pedido
    <3>1. [Nada EXCEPT !.op = "pide"].valor = 0
      BY DEF Nada
    <3> QED
      BY <2>1, <3>1 DEF rtnl_dump_request
  <2> QED
    BY <1>1, <2>1, <2>2, <2>3
<1>4. CASE VaciaLlama
  <2>1. llama_dump_filter(FALSE)
    BY <1>4 DEF VaciaLlama
  <2>2. LibNext /\ ~ pedido'
    BY <2>1 DEF LibNext, LibLlama, llama_dump_filter
  <2> QED
    BY <1>1, <2>2
<1>5. CASE VaciaFiltra
  <2>1. PICK c, secs, n : FiltraManda(c, secs, n)
    BY <1>5, FiltraComo
  <2>2. IInv' /\ LInv' /\ VInv'
    BY <2>1, MandaI, MandaL, MandaV
  <2>3. ~ pedido /\ UNCHANGED pedido
    BY <1>5, <2>1 DEF VaciaFiltra, FiltraManda, rtnl_dump_filter
  <2> QED
    BY <2>2, <2>3
<1>6. CASE flush_update
  <2>1. ~ pedido
    BY <1>6 DEF flush_update
  <2>2. CASE UNCHANGED libvars
    <3>1. UNCHANGED pedido
      BY <2>2 DEF libvars, manejo
    <3> QED
      BY <1>1, <2>1, <2>2, <3>1
  <2>3. CASE rtnl_send(Secuencias(flush.buf)) /\ UNCHANGED rth
    <3> DEFINE q == Secuencias(flush.buf)
    <3>1. q \subseteq Nat /\ IsFiniteSet(q)
      BY SecuenciasFinitas DEF Vaciando, BTipos
    <3> HIDE DEF q
    <3>2. rtnl_send(q) /\ UNCHANGED rth
      BY <2>3 DEF q
    <3>3. IInv' /\ LInv' /\ VInv'
      BY <2>1, <3>1, <3>2, ActualizaI, EnviaL, EnviaV
    <3>4. UNCHANGED pedido
      BY <3>2 DEF rtnl_send
    <3> QED
      BY <2>1, <3>3, <3>4
  <2> QED
    BY <1>6, <2>2, <2>3 DEF flush_update
<1> QED
  BY <1>2, <1>3, <1>4, <1>5, <1>6 DEF Vaciado

LEMMA GPaso == GInv /\ [IpNext]_ipvars => GInv'
<1> SUFFICES ASSUME GInv, [IpNext]_ipvars PROVE GInv'
  OBVIOUS
<1>1. QInv' /\ BInv'
  BY ConsultaPaso, VaciaPaso DEF GInv
<1>2. CASE Vaciado
  <2>1. quien = "vaciado" /\ quien' = quien
    BY <1>2 DEF Vaciado, VaciaAbre, VaciaPide, VaciaLlama, VaciaFiltra, flush_update, SinCambio
  <2>2. IInv /\ LInv /\ VInv /\ Vaciando /\ (pedido => paso = "llama")
    BY <2>1 DEF GInv, BInv, Ordena
  <2>3. IInv' /\ LInv' /\ VInv' /\ (pedido' => paso' = "llama")
    BY <1>2, <2>2, VaciaDeLib
  <2> QED
    BY <1>1, <2>3 DEF GInv, Ordena
<1>3. CASE ~ Vaciado
  <2>1. [LibNext]_libvars
    <3>1. CASE iproute_get
      <4>1. quien = "iproute_get"
        BY <3>1 DEF iproute_get, iproute_reset_filter, Abre, ll_init_map, Pregunta, Oye, Reescribe
      <4> QED
        BY <3>1, <4>1, ConsultaDeLib DEF GInv, QInv
    <3>2. CASE Ajeno
      BY <3>2 DEF Ajeno, LibNext, Lee
    <3>3. CASE UNCHANGED ipvars
      BY <3>3 DEF ipvars
    <3> QED
      BY <1>3, <3>1, <3>2, <3>3 DEF IpNext
  <2>2. IInv' /\ LInv' /\ VInv'
    BY <2>1, Paso, PasoL, PasoV DEF GInv
  <2>3. Ordena'
    <3> SUFFICES ASSUME quien' = "vaciado" PROVE pedido' => paso' = "llama"
      BY DEF Ordena
    <3>1. quien = "vaciado" /\ (Ajeno \/ UNCHANGED ipvars)
      BY <1>3 DEF IpNext, iproute_get, iproute_reset_filter, Abre, ll_init_map, Pregunta, Oye,
                  Reescribe, Resto, Quedan, Ajeno, ipvars, propias
    <3>2. UNCHANGED <<pedido, paso>>
      BY <3>1 DEF Ajeno, Sobrepasa, Vuelca, Avisa, ipvars, libvars, manejo, propias
    <3> QED
      BY <3>1, <3>2 DEF GInv, Ordena
  <2> QED
    BY <1>1, <2>2, <2>3 DEF GInv
<1> QED
  BY <1>2, <1>3

LEMMA GInicio == IpInit => GInv
<1> SUFFICES ASSUME IpInit PROVE GInv
  OBVIOUS
<1>1. LibInit
  BY DEF IpInit
<1>2. IInv /\ LInv /\ VInv
  BY <1>1, Inicio, InicioL, InicioV
<1>3. QInv
  <2>1. paso = "inicio" /\ salida = "nada" /\ restos = FALSE /\ ~ pedido /\ fase = "cerrado"
    BY <1>1 DEF IpInit, LibInit
  <2> QED
    BY <1>2, <2>1 DEF QInv, Consulta, EnPaso
<1>4. BInv
  <2>1. mirado = <<>> /\ borrados = <<>> /\ flush = [buf |-> <<>>, flushed |-> 0] /\ filtro = FiltroVacio
    BY DEF IpInit
  <2>2. AlDia
    BY <2>1, NadaBorrado
  <2> QED
    BY <1>1, <2>1, <2>2 DEF BInv, Vaciando, BTipos, BEmpieza, LibInit
<1>5. Ordena
  BY <1>1 DEF Ordena, LibInit
<1> QED
  BY <1>2, <1>3, <1>4, <1>5 DEF GInv

\* What the library promises, it promises to iproute_get and to a flush too,
\* whose filter sends orders over the handle while it reads the dump: a dump
\* read to its end gave the filter all of it, an answer is to its request, and
\* a call that left nothing behind leaves the queue empty.
THEOREM LibraryKept == IpSpec => [](ListaCompleta /\ RespuestaPropia /\ ColaLimpia)
<1>1. GInv => ListaCompleta /\ RespuestaPropia /\ ColaLimpia
  <2>1. VInv => ListaCompleta
    BY DEF VInv, Entregado, ListaCompleta
  <2>2. LInv => ColaLimpia
    BY DEF LInv, ColaLimpia, Limpio
  <2>3. IInv => RespuestaPropia
    BY DEF IInv
  <2> QED
    BY <2>1, <2>2, <2>3 DEF GInv
<1> QED
  BY <1>1, GInicio, GPaso, PTL DEF IpSpec

\* From the end of the dump on, iproute_get has been told of the links that
\* reached its buffer, and nothing more of them comes.
Conocidos ==
  paso \in {"pregunta", "oye", "imprime", "repite", "reoye"} \/ salida = "0" =>
    mirado = enviado /\ volcando = 0
KInv == quien = "iproute_get" => Conocidos

LEMMA ConocidosMapa ==
  ASSUME VInv', Consulta, ll_init_map
  PROVE  Conocidos'
<1>1. salida # "0"
  BY DEF ll_init_map, Consulta
<1>2. ASSUME paso = "mapa3", rtnl_dump_filter(0), Llegan(Tail(cola), <<>>),
             UNCHANGED <<rth, hecho, restos>>, mirado' = visto',
             IF fase' # "libre" THEN Va("mapa3")
             ELSE IF ret'.valor < 0 THEN Termina("exit") ELSE Va("pregunta")
      PROVE  Conocidos'
  <2>1. ~ pedido /\ restos = FALSE
    BY <1>2 DEF Consulta, EnPaso
  <2>3. CASE fase' = "libre" /\ paso' = "pregunta" /\ ~ (ret'.valor < 0)
    <3>1. ~ pedido' /\ ret'.op = "dump" /\ ret'.valor = 0
      <4> DEFINE f == Filtrado(Head(cola), 0)
      <4>1. f.valor = 0 \/ f.valor = -1
        BY DEF Filtrado
      <4> HIDE DEF f
      <4>2. UNCHANGED pedido /\ (Devuelve("dump", f.valor, <<>>) \/ UNCHANGED fase)
        BY <1>2 DEF rtnl_dump_filter, f
      <4>3. fase = "filtra"
        BY <1>2 DEF rtnl_dump_filter
      <4>4. ret' = [op |-> "dump", valor |-> f.valor, dato |-> <<>>]
        BY <2>3, <4>2, <4>3 DEF Devuelve
      <4> QED
        BY <2>1, <2>3, <4>1, <4>2, <4>4
    <3> QED
      BY <1>2, <2>3, <3>1 DEF VInv, Entregado, Conocidos
  <2>4. CASE paso' \in {"mapa3", "fin"} /\ salida' # "0"
    BY <2>4 DEF Conocidos
  <2> QED
    BY <1>1, <1>2, <2>3, <2>4 DEF Va, Termina
<1>3. CASE paso' \in {"mapa2", "mapa3", "fin"} /\ salida' # "0"
  BY <1>3 DEF Conocidos
<1> QED
  BY <1>1, <1>2, <1>3 DEF ll_init_map, Va, Termina

LEMMA ConocidosPaso ==
  QInv /\ VInv' /\ KInv /\ [IpNext]_ipvars => KInv'
<1> SUFFICES ASSUME QInv, VInv', KInv, [IpNext]_ipvars, quien' = "iproute_get"
             PROVE  Conocidos'
  BY DEF KInv
<1>1. quien = "iproute_get"
  BY DEF IpNext, Vaciado, VaciaAbre, VaciaPide, VaciaLlama, VaciaFiltra, flush_update, SinCambio,
         iproute_get, iproute_reset_filter, Abre, ll_init_map, Pregunta, Oye, Reescribe, Resto, Quedan,
         Ajeno, ipvars, propias
<1>2. Consulta /\ Conocidos
  BY <1>1 DEF QInv, KInv
<1>3. CASE iproute_reset_filter \/ Abre
  <2>1. paso' \in {"abre", "mapa", "fin"} /\ salida' # "0"
    BY <1>2, <1>3 DEF iproute_reset_filter, Abre, Consulta, Va, Termina
  <2> QED
    BY <2>1 DEF Conocidos
<1>4. CASE ll_init_map
  BY <1>2, <1>4, ConocidosMapa
<1>5. CASE Pregunta \/ Oye \/ Reescribe
  <2>1. paso \in {"pregunta", "oye", "imprime", "repite", "reoye"}
    BY <1>5 DEF Pregunta, Oye, Reescribe
  <2>2. UNCHANGED <<mirado, enviado, volcando>>
    BY <1>5 DEF Pregunta, Oye, Reescribe, Resto, llama_talk, rtnl_talk, libvars, nucleo
  <2> QED
    BY <1>2, <2>1, <2>2 DEF Conocidos
<1>6. CASE UNCHANGED propias /\ (Sobrepasa \/ Vuelca \/ Avisa)
  <2>1. UNCHANGED <<mirado, paso, salida>>
    BY <1>6 DEF propias
  <2>2. volcando # 0 \/ UNCHANGED <<enviado, volcando>>
    BY <1>6 DEF Sobrepasa, Vuelca, Avisa
  <2> QED
    BY <1>2, <2>1, <2>2 DEF Conocidos
<1>7. CASE UNCHANGED ipvars
  <2>1. UNCHANGED <<mirado, paso, salida, enviado, volcando>>
    BY <1>7 DEF ipvars, libvars, nucleo, propias
  <2> QED
    BY <1>2, <2>1 DEF Conocidos
<1>8. ~ Vaciado
  BY <1>1 DEF Vaciado, VaciaAbre, VaciaPide, VaciaLlama, VaciaFiltra, flush_update
<1> QED
  BY <1>1, <1>3, <1>4, <1>5, <1>6, <1>7, <1>8 DEF IpNext, iproute_get, Ajeno

\* What iproute_get does ends well.
LEMMA ConsultaHecha == QInv /\ KInv => ConsultaCompleta
<1> SUFFICES ASSUME quien = "iproute_get", IInv, LInv, Consulta, Conocidos
             PROVE  /\ fase # "gira"
                    /\ salida = "0" => {2, 3} \subseteq hecho /\ mirado = enviado
  BY DEF QInv, KInv, ConsultaCompleta
<1>1. fase # "gira"
  BY DEF Consulta, LInv
<1> QED
  BY <1>1 DEF Consulta, Conocidos

\* iproute_get returns 0 only when it had been told of every link that reached
\* its buffer (libnetlink.c:191-194: what was cut did not, and nobody is told)
\* and the kernel carried out both of its questions; and it never turns for
\* ever, whatever it is asked and whatever the kernel answers, refuses or loses.
THEOREM WholeQuery == IpSpec => []ConsultaCompleta
<1>1. IpInit => KInv
  BY DEF IpInit, KInv, Conocidos
<1>2. GInv /\ KInv /\ [IpNext]_ipvars => KInv'
  BY GPaso, ConocidosPaso DEF GInv
<1>3. GInv /\ KInv => ConsultaCompleta
  BY ConsultaHecha DEF GInv
<1> QED
  BY <1>1, <1>2, <1>3, GInicio, GPaso, PTL DEF IpSpec

\* The program that is being run is one of the two specifications, and the
\* variables of the other do not change.
LEMMA CadaUno == Spec => EspSpec /\ IpSpec
<1>1. Init => EspInit /\ IpInit
  BY DEF Init
<1>2. [Next]_vars => [EspNext]_evars
  BY DEF Next, DeEsp, DeIp, vars
<1>3. [Next]_vars => [IpNext]_ipvars
  BY DEF Next, DeEsp, DeIp, vars
<1> QED
  BY <1>1, <1>2, <1>3, PTL DEF Spec, EspSpec, IpSpec

\* Whichever of the programs that speak with rtnetlink is run, all that they
\* promise holds of it.
THEOREM ClientsFaithful ==
  Spec => [](/\ ListaFiel /\ DireccionSuya
             /\ ListaCompleta /\ RespuestaPropia /\ ColaLimpia
             /\ BorraLoPedido /\ ConsultaCompleta)
BY CadaUno, FaithfulList, OwnAddress, LibraryKept, FlushesAsked, WholeQuery, PTL
----------------------------------------------------------------------------
(***************************************************************************)
(* Messages of a file.  The reading ends at the first record that is       *)
(* malformed, short, or refused by the handler.                            *)
(***************************************************************************)

LEMMA MinimoDe ==
  ASSUME NEW S, S \subseteq Nat, S # {}
  PROVE  Min(S) \in S /\ \A k \in S : Min(S) <= k
<1>1. \E x \in S : \A y \in S : x <= y
  BY Minimo
<1> QED BY <1>1 DEF Min

LEMMA MaximoDe ==
  ASSUME NEW S, NEW n \in S, S \subseteq Int, \A k \in S : k <= n
  PROVE  Max(S) = n
<1>1. \E x \in S : \A y \in S : x >= y
  BY DEF Max
<1>2. Max(S) \in S /\ \A y \in S : Max(S) >= y
  BY <1>1 DEF Max
<1>3. \A m \in S : m <= n /\ m >= n => m = n
  OBVIOUS
<1> QED BY <1>2, <1>3

LEMMA FicheroLeido ==
  ASSUME NEW f, EsFichero(f), NEW c \in Nat
  PROVE  FicheroBien(f, c)
<1> DEFINE l(k) == f[k].len - CabMensaje
           malo(k) == l(k) < 0 \/ f[k].len > Buffer \/ f[k].hay < l(k)
           para == {k \in DOMAIN f : malo(k) \/ k = c}
           k0 == IF para = {} THEN Len(f) + 1 ELSE Min(para)
           r == rtnl_from_file(f, c)
<1>1. /\ r.ret = IF para = {} THEN 0 ELSE -1
      /\ r.dados = IF k0 \in DOMAIN f /\ ~malo(k0) THEN k0 ELSE k0 - 1
  BY Zenon DEF rtnl_from_file
<1>2. DOMAIN f = 1 .. Len(f) /\ Len(f) \in Nat
  BY DEF EsFichero
<1>3. \A k \in DOMAIN f : malo(k) <=> k \notin DadosEnteros(f) /\ ~(f[k].cab < CabMensaje /\ ~malo(k))
  <2> SUFFICES ASSUME NEW k \in DOMAIN f
               PROVE  malo(k) <=> k \notin DadosEnteros(f) /\ ~(f[k].cab < CabMensaje /\ ~malo(k))
    OBVIOUS
  <2>1. f[k] \in RegistroFichero
    BY <1>2 DEF EsFichero
  <2>2. f[k].cab \in 1 .. 16 /\ f[k].len \in Int /\ f[k].hay \in Nat
    BY <2>1 DEF RegistroFichero, CabMensaje
  <2>3. f[k].cab = 16 => (malo(k) <=> k \notin DadosEnteros(f))
    BY <2>2 DEF DadosEnteros, CabMensaje, Buffer
  <2>4. f[k].cab # 16 => f[k].cab < CabMensaje /\ k \notin DadosEnteros(f)
    BY <2>2 DEF DadosEnteros, CabMensaje
  <2>5. f[k].cab = 16 => ~(f[k].cab < CabMensaje)
    BY DEF CabMensaje
  <2> HIDE DEF malo
  <2> QED BY <2>3, <2>4, <2>5
<1>4. /\ para \subseteq DOMAIN f
      /\ \A k \in DOMAIN f : k \in para <=> malo(k) \/ k = c
  OBVIOUS
<1>5. \A k \in DOMAIN f : f[k].cab < CabMensaje => k = Len(f)
  BY DEF EsFichero
<1> HIDE DEF malo, para, r
<1>6. /\ para = {} => k0 = Len(f) + 1
      /\ para # {} => k0 \in para
      /\ k0 \in Nat /\ k0 >= 1
      /\ \A k \in para : k0 <= k
  <2>1. CASE para = {}
    BY <1>2, <2>1
  <2>2. CASE para # {}
    <3>1. para \subseteq Nat
      BY <1>2, <1>4
    <3> QED BY <1>2, <1>4, <2>2, <3>1, MinimoDe
  <2> QED BY <2>1, <2>2
<1> HIDE DEF k0
<1>7. \A k \in 1 .. r.dados : k \in DOMAIN f /\ ~malo(k)
  <2>1. para # {} => k0 \in DOMAIN f
    BY <1>4, <1>6
  <2> QED BY <1>1, <1>2, <1>4, <1>6, <2>1
<1>8. \A k \in 1 .. r.dados : k \in DadosEnteros(f) \/ (k = Len(f) /\ f[k].cab < CabMensaje)
  BY <1>3, <1>5, <1>7
<1>9. r.ret = 0 <=> r.dados = Len(f) /\ c \notin DOMAIN f
  <2>1. CASE para = {}
    <3>1. k0 = Len(f) + 1 /\ k0 \notin DOMAIN f
      BY <1>2, <1>6, <2>1
    <3>2. r.ret = 0 /\ r.dados = k0 - 1
      BY <1>1, <2>1, <3>1
    <3>3. r.dados = Len(f)
      BY <1>2, <3>1, <3>2
    <3>4. c \notin DOMAIN f
      BY <1>4, <2>1
    <3> QED BY <3>2, <3>3, <3>4
  <2>2. CASE para # {}
    <3>1. k0 \in DOMAIN f /\ (malo(k0) \/ k0 = c)
      BY <1>4, <1>6, <2>2
    <3>2. malo(k0) => r.dados = k0 - 1
      BY <1>1
    <3> QED BY <1>1, <1>2, <2>2, <3>1, <3>2
  <2> QED BY <2>1, <2>2
<1>10. ASSUME c = 0, NEW k \in DOMAIN f, (1 .. k) \subseteq DadosEnteros(f)
       PROVE  k <= r.dados
  <2>1. k \in Nat /\ k >= 1 /\ k <= Len(f)
    BY <1>2
  <2>2. \A n \in 1 .. k : n \in DOMAIN f /\ n \notin para
    BY <1>2, <1>3, <1>4, <1>10, <2>1
  <2>3. k0 > k
    BY <1>2, <1>6, <2>1, <2>2
  <2> QED BY <1>1, <1>6, <2>1, <2>3
<1> QED BY <1>8, <1>9, <1>10 DEF FicheroBien, r

\* For every file, cut anywhere, and every failure of the handler: it is given
\* the whole messages before the cut, in order, and 0 is returned only when
\* all were (libnetlink.c:390-444).
THEOREM FileReadToItsCut == FicherosBien /\ (Spec => []PruebaFichero)
<1>1. FicherosBien
  <2> SUFFICES ASSUME NEW f \in Ficheros, NEW c \in 0..Len(f) PROVE FicheroBien(f, c)
    BY DEF FicherosBien
  <2>1. EsFichero(f)
    BY RtattrAssumption
  <2>2. c \in Nat
    BY <2>1 DEF EsFichero
  <2> QED BY <2>1, <2>2, FicheroLeido
<1>2. PruebaFichero
  BY <1>1 DEF PruebaFichero
<1> QED BY <1>1, <1>2, PTL
----------------------------------------------------------------------------
(***************************************************************************)
(* Attributes.  What parse_rtattr makes of a list of them, and addattr of  *)
(* another, as equations on the last one.                                  *)
(***************************************************************************)
Atr == [tipo : Nat, largo : Nat]
Encontrado(max) == [tb : [0..max -> Nat], len : Int, alto : BOOLEAN]
SinAtributos(max, len) == [tb |-> [t \in 0..max |-> 0], len |-> len, alto |-> FALSE]

LEMMA AlineaDe ==
  /\ \A n \in Nat : Alinea(n) \in Nat /\ Alinea(n) - n \in 0 .. 3
  /\ \A n, k \in Nat : Alinea(n) + k \in Nat /\ Alinea(Alinea(n) + k) = Alinea(n) + Alinea(k)
<1>1. ASSUME NEW n \in Nat PROVE Alinea(n) \in Nat /\ Alinea(n) - n \in 0 .. 3
  <2> DEFINE q == (n + 3) \div 4
  <2>1. q \in Nat /\ q * 4 <= n + 3 /\ n + 3 < q * 4 + 4
    OBVIOUS
  <2> HIDE DEF q
  <2>2. q * 4 \in Nat /\ q * 4 - n \in 0 .. 3
    BY <2>1
  <2> QED BY <2>2 DEF Alinea, q
<1>2. ASSUME NEW n \in Nat, NEW k \in Nat
      PROVE  Alinea(n) + k \in Nat /\ Alinea(Alinea(n) + k) = Alinea(n) + Alinea(k)
  <2> DEFINE q == (n + 3) \div 4
             r == (k + 3) \div 4
  <2>1. q \in Nat /\ r \in Nat /\ r * 4 <= k + 3 /\ k + 3 < r * 4 + 4
    OBVIOUS
  <2>2. Alinea(n) = q * 4 /\ Alinea(k) = r * 4
    BY DEF Alinea
  <2> HIDE DEF q, r
  <2>3. (q * 4 + k + 3) \div 4 = q + r
    BY <2>1
  <2>4. Alinea(q * 4 + k) = (q + r) * 4
    BY <2>3 DEF Alinea
  <2> QED BY <2>1, <2>2, <2>4
<1> QED BY <1>1, <1>2

\* A turn keeps the types.
LEMMA VueltaTipo ==
  ASSUME NEW max \in Nat, NEW s \in Encontrado(max), NEW x \in Atr, NEW n \in Nat
  PROVE  Vuelta(s, x, n, max) \in Encontrado(max)
<1>1. Alinea(x.largo) \in Nat
  BY AlineaDe DEF Atr
<1>2. CASE s.alto \/ ~RTA_OK(x, s.len)
  BY <1>2 DEF Vuelta, Encontrado
<1>3. CASE ~(s.alto \/ ~RTA_OK(x, s.len))
  <2> DEFINE t == IF x.tipo <= max THEN [s.tb EXCEPT ![x.tipo] = n] ELSE s.tb
  <2>1. t \in [0 .. max -> Nat]
    BY DEF Encontrado, Atr
  <2> HIDE DEF t
  <2>2. s.len - Alinea(x.largo) \in Int
    BY <1>1 DEF Encontrado
  <2>3. [tb |-> t, len |-> s.len - Alinea(x.largo), alto |-> FALSE] \in Encontrado(max)
    BY <2>1, <2>2 DEF Encontrado
  <2> QED BY <1>3, <2>3, Zenon DEF Vuelta, t
<1> QED BY <1>2, <1>3

PasosV(u, max) == [t \in (1 .. Len(u)) \X Encontrado(max) |-> Vuelta(t[2], u[t[1]], t[1], max)]

LEMMA VueltasAnda ==
  ASSUME NEW max \in Nat, NEW L \in Int, NEW u \in Seq(Atr)
  PROVE  \E g : /\ Recorrida(Encontrado(max), SinAtributos(max, L), Len(u), PasosV(u, max), g)
                /\ Vueltas(u, max, L) = g[Len(u)]
<1> DEFINE S == Encontrado(max)
           x == SinAtributos(max, L)
           N == Len(u)
           G == PasosV(u, max)
           E(F) == [n \in 0 .. N |-> IF n = 0 THEN x ELSE Vuelta(F[n - 1], u[n], n, max)]
           C == CHOOSE F : F = E(F)
<1>1. x \in S /\ N \in Nat
  BY DEF SinAtributos, Encontrado
<1>2. \A m \in 1 .. N, y \in S : G[<<m, y>>] = Vuelta(y, u[m], m, max)
  <2> SUFFICES ASSUME NEW m \in 1 .. N, NEW y \in S
               PROVE  G[<<m, y>>] = Vuelta(y, u[m], m, max)
    OBVIOUS
  <2>1. <<m, y>> \in (1 .. Len(u)) \X Encontrado(max)
    OBVIOUS
  <2> DEFINE t == <<m, y>>
  <2>2. t[1] = m /\ t[2] = y /\ t \in (1 .. Len(u)) \X Encontrado(max)
    BY <2>1
  <2> HIDE DEF t
  <2>3. G[t] = Vuelta(t[2], u[t[1]], t[1], max)
    BY <2>2, Zenon DEF PasosV
  <2> QED BY <2>2, <2>3 DEF t
<1>3. Lleva(S, N, G)
  <2>1. \A m \in 1 .. N : u[m] \in Atr /\ m \in Nat
    OBVIOUS
  <2>2. \A m \in 1 .. N, y \in S : Vuelta(y, u[m], m, max) \in S
    BY <2>1, VueltaTipo
  <2> HIDE DEF S, G, N
  <2> QED BY <1>2, <2>2 DEF Lleva
<1> HIDE DEF S, x, G
<1>4. PICK g : Recorrida(S, x, N, G, g)
  BY <1>1, <1>3, Recurre
<1>5. g = E(g)
  <2>1. ASSUME NEW n \in 0 .. N PROVE g[n] = E(g)[n]
    <3>1. CASE n = 0
      BY <1>4, <3>1 DEF Recorrida
    <3>2. CASE n # 0
      <4>1. n \in 1 .. N /\ n - 1 \in 0 .. N
        BY <3>2
      <4>2. g[n - 1] \in S /\ g[n] = G[<<n, g[n - 1]>>]
        BY <1>4, <4>1 DEF Recorrida
      <4>3. g[n] = Vuelta(g[n - 1], u[n], n, max)
        BY <1>2, <4>1, <4>2
      <4> QED BY <3>2, <4>3
    <3> QED BY <3>1, <3>2
  <2>2. E(g) = [n \in 0 .. N |-> E(g)[n]]
    OBVIOUS
  <2>3. g = [n \in 0 .. N |-> g[n]]
    BY <1>4 DEF Recorrida
  <2> HIDE DEF E
  <2> QED BY <2>1, <2>2, <2>3
<1>6. C = E(C)
  <2> HIDE DEF E
  <2> QED BY <1>5
<1>7. /\ C = [n \in 0 .. N |-> C[n]] /\ C[0] = x
      /\ \A n \in 1 .. N : C[n] = Vuelta(C[n - 1], u[n], n, max)
  <2>1. 0 \in 0 .. N /\ \A m \in 1 .. N : m \in 0 .. N /\ m # 0
    BY <1>1
  <2>2. E(C)[0] = x
    BY <2>1
  <2>3. \A n \in 1 .. N : E(C)[n] = Vuelta(C[n - 1], u[n], n, max)
    <3> HIDE DEF C
    <3> QED BY <2>1
  <2>4. E(C) = [n \in 0 .. N |-> E(C)[n]]
    <3> HIDE DEF C
    <3> QED OBVIOUS
  <2> HIDE DEF C, E
  <2> QED BY <1>6, <2>2, <2>3, <2>4
<1>8. Vueltas(u, max, L) = C[N]
  BY Zenon DEF Vueltas, x, SinAtributos
<1> HIDE DEF C, E
<1>9. \A m \in 1 .. N : C[m - 1] \in S => C[m] = G[<<m, C[m - 1]>>]
  BY <1>2, <1>7
<1>10. Recorrida(S, x, N, G, C)
  <2> HIDE DEF N
  <2>1. C = [n \in 0 .. N |-> C[n]] /\ C[0] = x
    BY <1>7
  <2> QED BY <1>1, <1>3, <1>9, <2>1, EsRecorrida
<1> QED BY <1>8, <1>10 DEF S, x, G

LEMMA VueltasTipo ==
  ASSUME NEW max \in Nat, NEW L \in Int, NEW u \in Seq(Atr)
  PROVE  Vueltas(u, max, L) \in Encontrado(max)
<1>1. PICK g : /\ Recorrida(Encontrado(max), SinAtributos(max, L), Len(u), PasosV(u, max), g)
               /\ Vueltas(u, max, L) = g[Len(u)]
  BY VueltasAnda
<1>2. Len(u) \in 0 .. Len(u)
  OBVIOUS
<1> QED BY <1>1, <1>2 DEF Recorrida

LEMMA VueltasVacia ==
  ASSUME NEW max \in Nat, NEW L \in Int
  PROVE  Vueltas(<<>>, max, L) = SinAtributos(max, L)
<1> DEFINE u == <<>>
<1>1. u \in Seq(Atr) /\ Len(u) = 0
  OBVIOUS
<1> HIDE DEF u
<1>2. PICK g : /\ Recorrida(Encontrado(max), SinAtributos(max, L), Len(u), PasosV(u, max), g)
               /\ Vueltas(u, max, L) = g[Len(u)]
  BY <1>1, VueltasAnda
<1> QED BY <1>1, <1>2 DEF Recorrida, u

LEMMA VueltasMas ==
  ASSUME NEW max \in Nat, NEW L \in Int, NEW u \in Seq(Atr), NEW a \in Atr
  PROVE  Vueltas(Append(u, a), max, L) = Vuelta(Vueltas(u, max, L), a, Len(u) + 1, max)
<1> DEFINE v == Append(u, a)
           S == Encontrado(max)
           x == SinAtributos(max, L)
           n == Len(u)
<1>1. /\ v \in Seq(Atr) /\ Len(v) = n + 1 /\ v[n + 1] = a /\ n \in Nat
      /\ \A m \in 1 .. n : v[m] = u[m]
  OBVIOUS
<1> HIDE DEF v
<1>2. PICK g : Recorrida(S, x, Len(u), PasosV(u, max), g) /\ Vueltas(u, max, L) = g[Len(u)]
  BY VueltasAnda
<1>3. PICK h : Recorrida(S, x, Len(v), PasosV(v, max), h) /\ Vueltas(v, max, L) = h[Len(v)]
  BY <1>1, VueltasAnda
<1>4. ASSUME NEW w \in Seq(Atr), NEW m \in 1 .. Len(w), NEW y \in S
      PROVE  PasosV(w, max)[<<m, y>>] = Vuelta(y, w[m], m, max)
  <2> DEFINE t == <<m, y>>
  <2>1. t[1] = m /\ t[2] = y /\ t \in (1 .. Len(w)) \X Encontrado(max)
    OBVIOUS
  <2> HIDE DEF t
  <2>2. PasosV(w, max)[t] = Vuelta(t[2], w[t[1]], t[1], max)
    BY <2>1, Zenon DEF PasosV
  <2> QED BY <2>1, <2>2 DEF t
<1> HIDE DEF S, x
<1>5. MismosPasos(S, n, PasosV(u, max), PasosV(v, max))
  <2> SUFFICES ASSUME NEW m \in 1 .. n, NEW y \in S
               PROVE  PasosV(u, max)[<<m, y>>] = PasosV(v, max)[<<m, y>>]
    BY DEF MismosPasos
  <2>1. m \in 1 .. Len(u) /\ m \in 1 .. Len(v) /\ u[m] = v[m]
    BY <1>1
  <2>2. PasosV(u, max)[<<m, y>>] = Vuelta(y, u[m], m, max)
    BY <1>4, <2>1
  <2>3. PasosV(v, max)[<<m, y>>] = Vuelta(y, v[m], m, max)
    BY <1>1, <1>4, <2>1
  <2> QED BY <2>1, <2>2, <2>3
<1>6. g[n] = h[n]
  <2> DEFINE G == PasosV(u, max)
             H == PasosV(v, max)
             N == Len(v)
  <2>1. /\ n \in Nat /\ n <= n /\ N \in Nat /\ n <= N
        /\ Recorrida(S, x, n, G, g) /\ Recorrida(S, x, N, H, h)
        /\ MismosPasos(S, n, G, H)
    BY <1>1, <1>2, <1>3, <1>5
  <2> HIDE DEF G, H, N, n
  <2> QED BY <2>1, RecorridaUnica
<1>7. h[n + 1] = Vuelta(h[n], a, n + 1, max)
  <2>1. n + 1 \in 1 .. Len(v) /\ (n + 1) - 1 = n /\ n \in 0 .. Len(v)
    BY <1>1
  <2>2. h[n] \in S /\ h[n + 1] = PasosV(v, max)[<<n + 1, h[(n + 1) - 1]>>]
    BY <1>3, <2>1 DEF Recorrida
  <2> QED BY <1>1, <1>4, <2>1, <2>2
<1> QED BY <1>1, <1>2, <1>3, <1>6, <1>7 DEF v

\* More bytes behind change nothing of what has been found.
LEMMA Desplaza ==
  ASSUME NEW max \in Nat, NEW L \in Int, NEW d \in Nat, NEW u \in Seq(Atr),
         ~Vueltas(u, max, L).alto
  PROVE  /\ ~Vueltas(u, max, L + d).alto
         /\ Vueltas(u, max, L + d).len = Vueltas(u, max, L).len + d
<1> DEFINE V(w) == Vueltas(w, max, L)
           W(w) == Vueltas(w, max, L + d)
           I == {w \in Seq(Atr) : ~V(w).alto => ~W(w).alto /\ W(w).len = V(w).len + d}
<1>1. <<>> \in I
  <2>1. V(<<>>) = SinAtributos(max, L) /\ W(<<>>) = SinAtributos(max, L + d)
    BY VueltasVacia
  <2> HIDE DEF V, W
  <2>2. <<>> \in Seq(Atr)
    OBVIOUS
  <2> QED BY <2>1, <2>2 DEF SinAtributos
<1>2. ASSUME NEW w \in Seq(Atr), NEW a \in Atr, w \in I
      PROVE  Append(w, a) \in I
  <2> DEFINE v == V(w)
             y == W(w)
             n == Len(w) + 1
  <2>1. V(Append(w, a)) = Vuelta(v, a, n, max) /\ W(Append(w, a)) = Vuelta(y, a, n, max)
    BY VueltasMas
  <2>2. v \in Encontrado(max) /\ y \in Encontrado(max)
    BY VueltasTipo
  <2>3. ~v.alto => ~y.alto /\ y.len = v.len + d
    BY <1>2
  <2>4. a.largo \in Nat /\ Alinea(a.largo) \in Nat
    BY AlineaDe DEF Atr
  <2> HIDE DEF v, y, V, W
  <2>5. v.len \in Int /\ y.len \in Int
    BY <2>2 DEF Encontrado
  <2>6. ~Vuelta(v, a, n, max).alto => ~v.alto /\ RTA_OK(a, v.len)
    <3>1. CASE v.alto \/ ~RTA_OK(a, v.len)
      <4>1. Vuelta(v, a, n, max) = [v EXCEPT !.alto = TRUE]
        BY <3>1, Zenon DEF Vuelta
      <4> QED BY <2>2, <4>1 DEF Encontrado
    <3> QED BY <3>1
  <2>7. ASSUME ~v.alto, RTA_OK(a, v.len)
        PROVE  /\ ~Vuelta(y, a, n, max).alto
               /\ Vuelta(y, a, n, max).len = Vuelta(v, a, n, max).len + d
    <3>1. ~y.alto /\ RTA_OK(a, y.len)
      BY <2>3, <2>4, <2>5, <2>7 DEF RTA_OK
    <3>2. /\ Vuelta(v, a, n, max).len = v.len - Alinea(a.largo)
          /\ Vuelta(y, a, n, max).len = y.len - Alinea(a.largo)
          /\ Vuelta(y, a, n, max).alto = FALSE
      BY <2>7, <3>1, Zenon DEF Vuelta
    <3>3. y.len = v.len + d
      BY <2>3, <2>7
    <3> QED BY <2>4, <2>5, <3>2, <3>3
  <2>8. Append(w, a) \in Seq(Atr)
    OBVIOUS
  <2> QED BY <2>1, <2>6, <2>7, <2>8
<1> HIDE DEF I
<1>3. Seq(Atr) \subseteq I
  BY <1>1, <1>2, InduccionSec
<1> QED BY <1>3 DEF I

\* k is the place of the last attribute of type t, 0 if there is none.
UltimoDe(u, t, k) ==
  \/ k = 0 /\ \A i \in 1 .. Len(u) : u[i].tipo # t
  \/ k \in 1 .. Len(u) /\ u[k].tipo = t /\ \A i \in 1 .. Len(u) : i > k => u[i].tipo # t

LEMMA TbUltimo ==
  ASSUME NEW max \in Nat, NEW L \in Int, NEW u \in Seq(Atr), ~Vueltas(u, max, L).alto,
         NEW t \in 0 .. max
  PROVE  UltimoDe(u, t, Vueltas(u, max, L).tb[t])
<1> DEFINE V(w) == Vueltas(w, max, L)
           I == {w \in Seq(Atr) : ~V(w).alto => UltimoDe(w, t, V(w).tb[t])}
<1>1. <<>> \in I
  <2>1. V(<<>>) = SinAtributos(max, L)
    BY VueltasVacia
  <2> HIDE DEF V
  <2>2. <<>> \in Seq(Atr) /\ Len(<<>>) = 0
    OBVIOUS
  <2>3. V(<<>>).tb[t] = 0
    BY <2>1 DEF SinAtributos
  <2> QED BY <2>2, <2>3 DEF UltimoDe
<1>2. ASSUME NEW w \in Seq(Atr), NEW a \in Atr, w \in I
      PROVE  Append(w, a) \in I
  <2> DEFINE v == V(w)
             z == Append(w, a)
             n == Len(w) + 1
  <2>1. V(z) = Vuelta(v, a, n, max)
    BY VueltasMas
  <2>2. v \in Encontrado(max)
    BY VueltasTipo
  <2>3. /\ z \in Seq(Atr) /\ Len(z) = n /\ n \in Nat /\ n >= 1 /\ z[n] = a
        /\ \A i \in 1 .. Len(w) : z[i] = w[i]
        /\ \A i \in 1 .. n : i = n \/ i \in 1 .. Len(w)
        /\ Len(w) = n - 1
    OBVIOUS
  <2>4. ~v.alto => UltimoDe(w, t, v.tb[t])
    BY <1>2
  <2>5. a.tipo \in Nat
    BY DEF Atr
  <2> HIDE DEF v, V, z, n
  <2>6. ~Vuelta(v, a, n, max).alto => ~v.alto /\ RTA_OK(a, v.len)
    <3>1. CASE v.alto \/ ~RTA_OK(a, v.len)
      <4>1. Vuelta(v, a, n, max) = [v EXCEPT !.alto = TRUE]
        BY <3>1, Zenon DEF Vuelta
      <4> QED BY <2>2, <4>1 DEF Encontrado
    <3> QED BY <3>1
  <2>7. ASSUME ~v.alto, RTA_OK(a, v.len)
        PROVE  UltimoDe(z, t, Vuelta(v, a, n, max).tb[t])
    <3>1. Vuelta(v, a, n, max).tb
             = IF a.tipo <= max THEN [v.tb EXCEPT ![a.tipo] = n] ELSE v.tb
      BY <2>7, Zenon DEF Vuelta
    <3>2. v.tb \in [0 .. max -> Nat]
      BY <2>2 DEF Encontrado
    <3>3. Vuelta(v, a, n, max).tb[t] = IF a.tipo = t THEN n ELSE v.tb[t]
      BY <2>5, <3>1, <3>2
    <3>4. CASE a.tipo = t
      BY <2>3, <3>3, <3>4 DEF UltimoDe
    <3>5. CASE a.tipo # t
      <4>1. UltimoDe(w, t, v.tb[t]) /\ Vuelta(v, a, n, max).tb[t] = v.tb[t]
        BY <2>4, <2>7, <3>3, <3>5
      <4>2. \A i \in 1 .. n : (i \in 1 .. Len(w) /\ z[i] = w[i]) \/ z[i].tipo # t
        BY <2>3, <3>5
      <4>3. \A i \in 1 .. Len(w) : i \in 1 .. n
        BY <2>3
      <4> QED BY <2>3, <4>1, <4>2, <4>3 DEF UltimoDe
    <3> QED BY <3>4, <3>5
  <2> QED BY <2>1, <2>3, <2>6, <2>7 DEF z
<1> HIDE DEF I
<1>3. Seq(Atr) \subseteq I
  BY <1>1, <1>2, InduccionSec
<1> QED BY <1>3 DEF I

LEMMA UltimoEs ==
  ASSUME NEW u \in Seq(Atr), NEW t \in Nat, NEW k, UltimoDe(u, t, k)
  PROVE  k = SelectLastInSeq(u, LAMBDA a : a.tipo = t)
<1> DEFINE I == {i \in 1 .. Len(u) : u[i].tipo = t}
<1>1. SelectLastInSeq(u, LAMBDA a : a.tipo = t) = IF I # {} THEN Max(I) ELSE 0
  BY Zenon DEF SelectLastInSeq
<1>2. CASE k = 0 /\ \A i \in 1 .. Len(u) : u[i].tipo # t
  BY <1>1, <1>2
<1>3. CASE k \in 1 .. Len(u) /\ u[k].tipo = t /\ \A i \in 1 .. Len(u) : i > k => u[i].tipo # t
  <2>1. k \in I /\ I \subseteq Int
    BY <1>3
  <2>2. \A i \in I : i <= k
    BY <1>3
  <2> HIDE DEF I
  <2>3. Max(I) = k
    BY <2>1, <2>2, MaximoDe
  <2> QED BY <1>1, <2>1, <2>3
<1> QED BY <1>2, <1>3 DEF UltimoDe
----------------------------------------------------------------------------
(***************************************************************************)
(* Messages under construction: the bytes behind the header are those of   *)
(* the attributes, and parse_rtattr goes through all of them.              *)
(***************************************************************************)
EnObra == [len : Nat, atrs : Seq(Atr)]
Cabal(cab, sitio, max) ==
  {m \in EnObra : /\ m.len >= cab /\ m.len <= cab + sitio
                   /\ ~Vueltas(m.atrs, max, m.len - cab).alto
                   /\ Vueltas(m.atrs, max, m.len - cab).len = m.len - Alinea(m.len)}

LEMMA PonEs ==
  ASSUME NEW m, NEW a \in Pedido, NEW cab, NEW sitio
  PROVE  Pon(m, a, cab, sitio) = addattr_l(m, cab + sitio, a.tipo, a.alen)
<1>1. CASE a.alen = 4
  BY <1>1 DEF Pon, addattr32, rta_addattr32, rta_addattr_l
<1>2. CASE a.alen # 4
  BY <1>2 DEF Pon, rta_addattr_l
<1> QED BY <1>1, <1>2

LEMMA PedidoTipo ==
  ASSUME NEW a \in Pedido
  PROVE  /\ a.tipo \in Nat /\ RTA_LENGTH(a.alen) \in Nat
         /\ RTA_LENGTH(a.alen) >= CabAtributo /\ CabAtributo = 4
<1>1. a.tipo \in Nat /\ a.alen \in Nat
  BY DEF Pedido
<1>2. RTA_LENGTH(a.alen) = 4 + a.alen /\ CabAtributo = 4
  BY Zenon DEF RTA_LENGTH, CabAtributo
<1> QED BY <1>1, <1>2

LEMMA PonCabal ==
  ASSUME NEW cab \in Nat, NEW sitio \in Nat, NEW max \in Nat,
         NEW m \in Cabal(cab, sitio, max), NEW a \in Pedido
  PROVE  Pon(m, a, cab, sitio) \in Cabal(cab, sitio, max)
<1>1. CASE ~Cabe(m, cab + sitio, a.alen)
  BY <1>1, PonEs DEF addattr_l
<1>2. CASE Cabe(m, cab + sitio, a.alen)
  <2> DEFINE largo == RTA_LENGTH(a.alen)
             x == [tipo |-> a.tipo, largo |-> largo]
             l == Alinea(m.len) + largo
             n == [len |-> l, atrs |-> Append(m.atrs, x)]
             v == Vueltas(m.atrs, max, m.len - cab)
             w == Vueltas(m.atrs, max, l - cab)
             y == Vueltas(Append(m.atrs, x), max, l - cab)
  <2>1. Pon(m, a, cab, sitio) = n
    BY <1>2, PonEs, Zenon DEF addattr_l
  <2>2. /\ m \in EnObra /\ m.len \in Nat /\ m.atrs \in Seq(Atr) /\ m.len >= cab
        /\ ~v.alto /\ v.len = m.len - Alinea(m.len)
    BY DEF Cabal, EnObra
  <2>3. largo \in Nat /\ largo >= CabAtributo /\ a.tipo \in Nat /\ CabAtributo = 4
    BY PedidoTipo
  <2>4. x \in Atr /\ x.largo = largo
    BY <2>3 DEF Atr
  <2>5. Alinea(m.len) + largo <= cab + sitio
    BY <1>2, Zenon DEF Cabe
  <2> HIDE DEF largo, x, v, n, w, y
  <2>6. /\ Alinea(m.len) \in Nat /\ Alinea(m.len) >= m.len /\ Alinea(largo) \in Nat
        /\ l \in Nat /\ l >= m.len /\ Alinea(l) = Alinea(m.len) + Alinea(largo)
    <3>1. m.len \in Nat /\ largo \in Nat
      BY <2>2, <2>3
    <3>2. Alinea(m.len) \in Nat /\ Alinea(m.len) - m.len \in 0 .. 3 /\ Alinea(largo) \in Nat
      BY ONLY <3>1, AlineaDe, Zenon
    <3>3. l \in Nat /\ Alinea(l) = Alinea(m.len) + Alinea(largo)
      BY <3>1, AlineaDe, Zenon
    <3> HIDE DEF l
    <3>4. Alinea(m.len) >= m.len
      BY ONLY <3>1, <3>2
    <3>5. l >= m.len
      <4>1. l = Alinea(m.len) + largo
        BY DEF l
      <4> QED BY ONLY <3>1, <3>2, <3>4, <4>1
    <3> QED BY <3>2, <3>3, <3>4, <3>5
  <2>7. ~w.alto /\ w.len = largo
    <3> DEFINE L == m.len - cab
               d == l - m.len
    <3>1. L \in Int /\ d \in Nat /\ l - cab = L + d
      <4>1. m.len \in Nat /\ l \in Nat /\ l >= m.len /\ cab \in Nat
        BY <2>2, <2>6
      <4> HIDE DEF l
      <4> QED BY ONLY <4>1 DEF L, d
    <3>2. ~Vueltas(m.atrs, max, L).alto
      BY <2>2 DEF v
    <3>3. /\ ~Vueltas(m.atrs, max, L + d).alto
          /\ Vueltas(m.atrs, max, L + d).len = Vueltas(m.atrs, max, L).len + d
      <4> HIDE DEF L, d
      <4> QED BY <2>2, <3>1, <3>2, Desplaza
    <3>4. w.len = v.len + d
      <4> HIDE DEF l, L, d
      <4>1. w = Vueltas(m.atrs, max, L + d)
        BY <3>1 DEF w
      <4>2. v = Vueltas(m.atrs, max, L)
        BY DEF v, L
      <4> QED BY <3>3, <4>1, <4>2
    <3>5. ~w.alto
      <4> HIDE DEF l, L, d
      <4>1. w = Vueltas(m.atrs, max, L + d)
        BY <3>1 DEF w
      <4> QED BY <3>3, <4>1
    <3> HIDE DEF w
    <3>6. v.len + d = largo
      BY <2>2, <2>3, <2>6
    <3> QED BY <3>4, <3>5, <3>6
  <2>8. y = Vuelta(w, x, Len(m.atrs) + 1, max)
    <3>1. l - cab \in Int
      BY <2>6
    <3> HIDE DEF l
    <3> QED BY <2>2, <2>4, <3>1, VueltasMas DEF w, y
  <2> HIDE DEF w, y, l
  <2>9. ~y.alto /\ y.len = largo - Alinea(largo)
    <3>1. RTA_OK(x, w.len)
      BY <2>3, <2>4, <2>7 DEF RTA_OK
    <3>2. y.alto = FALSE /\ y.len = w.len - Alinea(x.largo)
      BY <2>7, <2>8, <3>1, Zenon DEF Vuelta
    <3> QED BY <2>4, <2>7, <3>2
  <2>10. largo - Alinea(largo) = l - Alinea(l)
    BY <2>2, <2>3, <2>6 DEF l
  <2>11. n \in EnObra /\ n.len = l /\ n.atrs = Append(m.atrs, x)
    BY <2>2, <2>4, <2>6 DEF EnObra, n
  <2>12. n.len >= cab /\ n.len <= cab + sitio
    BY <2>2, <2>5, <2>6, <2>11 DEF l
  <2>13. Vueltas(n.atrs, max, n.len - cab) = y
    BY <2>11 DEF y
  <2>14. n \in Cabal(cab, sitio, max)
    BY <2>9, <2>10, <2>11, <2>12, <2>13 DEF Cabal
  <2> QED BY <2>1, <2>14
<1> QED BY <1>1, <1>2

\* What each attribute keeps, all of them keep.
Cabecera(cab) == [len |-> cab, atrs |-> <<>>]
Guardan(S, cab, sitio) == \A m \in S, a \in Pedido : Pon(m, a, cab, sitio) \in S
LEMMA MontaEn ==
  ASSUME NEW lista \in Seq(Pedido), NEW cab, NEW sitio, NEW S,
         Cabecera(cab) \in S, Guardan(S, cab, sitio)
  PROVE  Monta(lista, cab, sitio) \in S
<1> DEFINE x == Cabecera(cab)
           N == Len(lista)
           G == [t \in (1 .. N) \X S |-> Pon(t[2], lista[t[1]], cab, sitio)]
           E(F) == [n \in 0 .. N |-> IF n = 0 THEN x ELSE Pon(F[n - 1], lista[n], cab, sitio)]
           C == CHOOSE F : F = E(F)
<1>1. x \in S /\ N \in Nat
  OBVIOUS
<1>2. \A m \in 1 .. N, y \in S : G[<<m, y>>] = Pon(y, lista[m], cab, sitio)
  <2> SUFFICES ASSUME NEW m \in 1 .. N, NEW y \in S
               PROVE  G[<<m, y>>] = Pon(y, lista[m], cab, sitio)
    OBVIOUS
  <2> DEFINE t == <<m, y>>
  <2>2. t[1] = m /\ t[2] = y /\ t \in (1 .. N) \X S
    OBVIOUS
  <2> HIDE DEF t
  <2>3. G[t] = Pon(t[2], lista[t[1]], cab, sitio)
    BY <2>2, Zenon
  <2> HIDE DEF G
  <2> QED BY <2>2, <2>3 DEF t
<1>3. Lleva(S, N, G)
  <2>1. \A m \in 1 .. N : lista[m] \in Pedido
    OBVIOUS
  <2>2. \A m \in 1 .. N, y \in S : Pon(y, lista[m], cab, sitio) \in S
    <3> HIDE DEF N
    <3> QED BY <2>1, Zenon DEF Guardan
  <2> HIDE DEF G, N
  <2> QED BY <1>2, <2>2 DEF Lleva
<1> HIDE DEF x, G
<1>4. PICK g : Recorrida(S, x, N, G, g)
  BY <1>1, <1>3, Recurre
<1>5. g = E(g)
  <2>1. ASSUME NEW n \in 0 .. N PROVE g[n] = E(g)[n]
    <3>1. CASE n = 0
      BY <1>4, <3>1 DEF Recorrida
    <3>2. CASE n # 0
      <4>1. n \in 1 .. N /\ n - 1 \in 0 .. N
        BY <3>2
      <4>2. g[n - 1] \in S /\ g[n] = G[<<n, g[n - 1]>>]
        BY <1>4, <4>1 DEF Recorrida
      <4>3. g[n] = Pon(g[n - 1], lista[n], cab, sitio)
        BY <1>2, <4>1, <4>2
      <4> QED BY <3>2, <4>3
    <3> QED BY <3>1, <3>2
  <2>2. E(g) = [n \in 0 .. N |-> E(g)[n]]
    OBVIOUS
  <2>3. g = [n \in 0 .. N |-> g[n]]
    BY <1>4 DEF Recorrida
  <2> HIDE DEF E
  <2> QED BY <2>1, <2>2, <2>3
<1>6. C = E(C)
  <2> HIDE DEF E
  <2> QED BY <1>5
<1>7. /\ C = [n \in 0 .. N |-> C[n]] /\ C[0] = x
      /\ \A n \in 1 .. N : C[n] = Pon(C[n - 1], lista[n], cab, sitio)
  <2>1. 0 \in 0 .. N /\ \A m \in 1 .. N : m \in 0 .. N /\ m # 0
    BY <1>1
  <2>2. E(C)[0] = x
    BY <2>1
  <2>3. \A n \in 1 .. N : E(C)[n] = Pon(C[n - 1], lista[n], cab, sitio)
    <3> HIDE DEF C
    <3> QED BY <2>1
  <2>4. E(C) = [n \in 0 .. N |-> E(C)[n]]
    <3> HIDE DEF C
    <3> QED OBVIOUS
  <2> HIDE DEF C, E
  <2> QED BY <1>6, <2>2, <2>3, <2>4
<1>8. Monta(lista, cab, sitio) = C[N]
  BY Zenon DEF Monta, x, Cabecera
<1> HIDE DEF C, E
<1>9. \A m \in 1 .. N : C[m - 1] \in S => C[m] = G[<<m, C[m - 1]>>]
  BY <1>2, <1>7
<1>10. Recorrida(S, x, N, G, C)
  <2> HIDE DEF N
  <2>1. C = [n \in 0 .. N |-> C[n]] /\ C[0] = x
    BY <1>7
  <2> QED BY <1>1, <1>3, <1>9, <2>1, EsRecorrida
<1> QED BY <1>1, <1>8, <1>10 DEF Recorrida

LEMMA AtributosHallados ==
  ASSUME NEW lista \in Seq(Pedido), NEW cab \in {CabMensaje, CabAtributo},
         NEW sitio \in Nat, NEW max \in Nat
  PROVE  AtributosBien(lista, cab, sitio, max)
<1> DEFINE S == Cabal(cab, sitio, max)
           m == Monta(lista, cab, sitio)
           v == Vueltas(m.atrs, max, m.len - cab)
           p == parse_rtattr(m.atrs, max, m.len - cab)
<1>1. cab \in Nat /\ Alinea(cab) = cab
  BY DEF CabMensaje, CabAtributo, Alinea
<1>2. Cabecera(cab) \in S
  <2> DEFINE n == Cabecera(cab)
  <2>1. n \in EnObra /\ n.len = cab /\ n.atrs = <<>>
    BY <1>1 DEF EnObra, Cabecera
  <2> HIDE DEF n
  <2>2. Vueltas(n.atrs, max, n.len - cab) = SinAtributos(max, 0)
    <3>1. n.len - cab = 0 /\ 0 \in Int
      BY <1>1, <2>1
    <3> QED BY <2>1, <3>1, VueltasVacia
  <2>3. ~Vueltas(n.atrs, max, n.len - cab).alto /\ Vueltas(n.atrs, max, n.len - cab).len = 0
    BY <2>2 DEF SinAtributos
  <2>4. n.len >= cab /\ n.len <= cab + sitio /\ n.len - Alinea(n.len) = 0
    BY <1>1, <2>1
  <2>5. n \in S
    BY <2>1, <2>3, <2>4 DEF Cabal
  <2> QED BY <2>5 DEF n
<1>3. Guardan(S, cab, sitio)
  BY <1>1, PonCabal DEF Guardan
<1>4. m \in S
  <2> HIDE DEF S
  <2> QED BY <1>2, <1>3, MontaEn
<1> HIDE DEF m
<1>5. /\ m.len \in Nat /\ m.atrs \in Seq(Atr) /\ m.len <= cab + sitio
      /\ ~v.alto /\ v.len = m.len - Alinea(m.len)
  BY <1>4 DEF Cabal, EnObra
<1>6. p = [tb |-> v.tb, len |-> v.len]
  BY Zenon DEF parse_rtattr
<1>7. \A t \in 0 .. max : v.tb[t] = SelectLastInSeq(m.atrs, LAMBDA a : a.tipo = t)
  <2> SUFFICES ASSUME NEW t \in 0 .. max
               PROVE  v.tb[t] = SelectLastInSeq(m.atrs, LAMBDA a : a.tipo = t)
    OBVIOUS
  <2>1. m.len - cab \in Int /\ t \in Nat
    BY <1>1, <1>5
  <2>2. UltimoDe(m.atrs, t, v.tb[t])
    BY <1>5, <2>1, TbUltimo
  <2> HIDE DEF v
  <2> QED BY <1>5, <2>1, <2>2, UltimoEs
<1>8. v.len \in -3 .. 0
  <2>1. Alinea(m.len) \in Nat /\ Alinea(m.len) - m.len \in 0 .. 3
    BY <1>5, AlineaDe
  <2> HIDE DEF v
  <2> QED BY <1>5, <2>1
<1> HIDE DEF v, p
<1>9. p.tb = v.tb /\ p.len = v.len
  BY <1>6
<1> QED BY <1>5, <1>7, <1>8, <1>9 DEF AtributosBien, m, p

\* For every list of attributes and every limit: a message or an attribute that
\* is built of them, as many as fit, keeps to the limit, and parse_rtattr finds
\* in it the last of each type, whatever types it has a place for, and leaves
\* at most the padding of the last one (libnetlink.c:446-516).
THEOREM AttributesFound == ListasBien /\ (Spec => []PruebaAtributos)
<1>1. ListasBien
  BY RtattrAssumption, AtributosHallados DEF ListasBien
<1>2. PruebaAtributos
  BY <1>1 DEF PruebaAtributos
<1> QED BY <1>1, <1>2, PTL
----------------------------------------------------------------------------
(***************************************************************************)
(* Powers of two, the widths of the parsers.                               *)
(***************************************************************************)
Positivos == Nat \ {0}
Dobla(n) == [t \in (1 .. n) \X Positivos |-> 2 * t[2]]

LEMMA DoblaPasos ==
  ASSUME NEW n \in Nat
  PROVE  /\ \A m \in 1 .. n, y \in Positivos : Dobla(n)[<<m, y>>] = 2 * y
         /\ Lleva(Positivos, n, Dobla(n))
<1>1. ASSUME NEW m \in 1 .. n, NEW y \in Positivos PROVE Dobla(n)[<<m, y>>] = 2 * y
  <2> DEFINE t == <<m, y>>
  <2>1. t[2] = y /\ t \in (1 .. n) \X Positivos
    OBVIOUS
  <2> HIDE DEF t
  <2>2. Dobla(n)[t] = 2 * t[2]
    BY <2>1, Zenon DEF Dobla
  <2> QED BY <2>1, <2>2 DEF t
<1>2. \A y \in Positivos : 2 * y \in Positivos
  BY DEF Positivos
<1> QED BY <1>1, <1>2 DEF Lleva

LEMMA DosAnda ==
  ASSUME NEW n \in Nat
  PROVE  \E g : Recorrida(Positivos, 1, n, Dobla(n), g) /\ DosA(n) = g[n]
<1> DEFINE S == Positivos
           G == Dobla(n)
           E(F) == [k \in 0 .. n |-> IF k = 0 THEN 1 ELSE 2 * F[k - 1]]
           C == CHOOSE F : F = E(F)
<1>1. 1 \in S
  BY DEF Positivos
<1>2. (\A m \in 1 .. n, y \in S : G[<<m, y>>] = 2 * y) /\ Lleva(S, n, G)
  BY DoblaPasos
<1> HIDE DEF S, G
<1>3. PICK g : Recorrida(S, 1, n, G, g)
  BY <1>1, <1>2, Recurre
<1>4. g = E(g)
  <2>1. ASSUME NEW k \in 0 .. n PROVE g[k] = E(g)[k]
    <3>1. CASE k = 0
      BY <1>3, <3>1 DEF Recorrida
    <3>2. CASE k # 0
      <4>1. k \in 1 .. n /\ k - 1 \in 0 .. n
        BY <3>2
      <4>2. g[k - 1] \in S /\ g[k] = G[<<k, g[k - 1]>>]
        BY <1>3, <4>1 DEF Recorrida
      <4>3. g[k] = 2 * g[k - 1]
        BY <1>2, <4>1, <4>2
      <4> QED BY <3>2, <4>3
    <3> QED BY <3>1, <3>2
  <2>2. E(g) = [k \in 0 .. n |-> E(g)[k]]
    OBVIOUS
  <2>3. g = [k \in 0 .. n |-> g[k]]
    BY <1>3 DEF Recorrida
  <2> HIDE DEF E
  <2> QED BY <2>1, <2>2, <2>3
<1>5. C = E(C)
  <2> HIDE DEF E
  <2> QED BY <1>4
<1>6. C = [k \in 0 .. n |-> C[k]] /\ C[0] = 1 /\ \A m \in 1 .. n : C[m] = 2 * C[m - 1]
  <2>1. 0 \in 0 .. n /\ \A m \in 1 .. n : m \in 0 .. n /\ m # 0
    OBVIOUS
  <2>2. E(C)[0] = 1
    BY <2>1
  <2>3. \A m \in 1 .. n : E(C)[m] = 2 * C[m - 1]
    <3> HIDE DEF C
    <3> QED BY <2>1
  <2>4. E(C) = [k \in 0 .. n |-> E(C)[k]]
    <3> HIDE DEF C
    <3> QED OBVIOUS
  <2> HIDE DEF C, E
  <2> QED BY <1>5, <2>2, <2>3, <2>4
<1>7. DosA(n) = C[n]
  BY Zenon DEF DosA
<1> HIDE DEF C, E
<1>8. \A m \in 1 .. n : C[m - 1] \in S => C[m] = G[<<m, C[m - 1]>>]
  BY <1>2, <1>6
<1>9. Recorrida(S, 1, n, G, C)
  BY <1>1, <1>2, <1>6, <1>8, EsRecorrida
<1> QED BY <1>7, <1>9 DEF S, G

\* The equations of the powers.
LEMMA DosCero == DosA(0) = 1
<1>1. PICK g : Recorrida(Positivos, 1, 0, Dobla(0), g) /\ DosA(0) = g[0]
  BY DosAnda
<1> QED BY <1>1 DEF Recorrida

LEMMA DosMas ==
  ASSUME NEW n \in Nat
  PROVE  DosA(n) \in Nat /\ DosA(n) >= 1 /\ DosA(n + 1) = 2 * DosA(n)
<1>1. PICK g : Recorrida(Positivos, 1, n, Dobla(n), g) /\ DosA(n) = g[n]
  BY DosAnda
<1>2. PICK h : Recorrida(Positivos, 1, n + 1, Dobla(n + 1), h) /\ DosA(n + 1) = h[n + 1]
  BY DosAnda
<1>3. MismosPasos(Positivos, n, Dobla(n), Dobla(n + 1))
  <2> SUFFICES ASSUME NEW m \in 1 .. n, NEW y \in Positivos
               PROVE  Dobla(n)[<<m, y>>] = Dobla(n + 1)[<<m, y>>]
    BY DEF MismosPasos
  <2>1. m \in 1 .. n + 1 /\ n + 1 \in Nat
    OBVIOUS
  <2>2. Dobla(n)[<<m, y>>] = 2 * y
    BY DoblaPasos
  <2>3. Dobla(n + 1)[<<m, y>>] = 2 * y
    BY <2>1, DoblaPasos
  <2> QED BY <2>2, <2>3
<1>4. g[n] = h[n]
  BY <1>1, <1>2, <1>3, RecorridaUnica
<1>5. g[n] \in Positivos /\ n + 1 \in 1 .. n + 1 /\ (n + 1) - 1 = n
  BY <1>1 DEF Recorrida
<1>6. h[n + 1] = Dobla(n + 1)[<<n + 1, h[n]>>]
  BY <1>2, <1>5 DEF Recorrida
<1>7. h[n + 1] = 2 * h[n]
  BY <1>4, <1>5, <1>6, DoblaPasos
<1> QED BY <1>1, <1>2, <1>4, <1>5, <1>7 DEF Positivos

LEMMA DosCrece ==
  ASSUME NEW m \in Nat, NEW n \in Nat, m < n
  PROVE  2 * DosA(m) <= DosA(n)
<1> DEFINE I == {k \in Nat : 2 * DosA(m) <= DosA(m + 1 + k)}
<1>1. 0 \in I
  <2>1. 2 * DosA(m) = DosA(m + 1) /\ DosA(m) \in Nat /\ m + 1 + 0 = m + 1
    BY DosMas
  <2> QED BY <2>1
<1>2. ASSUME NEW k \in Nat, k \in I PROVE k + 1 \in I
  <2>1. m + 1 + k \in Nat /\ m + 1 + (k + 1) = (m + 1 + k) + 1
    OBVIOUS
  <2>2. DosA(m + 1 + k) \in Nat /\ DosA(m + 1 + (k + 1)) = 2 * DosA(m + 1 + k)
    BY <2>1, DosMas
  <2>3. DosA(m) \in Nat /\ 2 * DosA(m) <= DosA(m + 1 + k)
    BY <1>2, DosMas
  <2> QED BY <2>2, <2>3
<1> HIDE DEF I
<1>3. n - (m + 1) \in I /\ m + 1 + (n - (m + 1)) = n
  BY <1>1, <1>2, Induccion
<1> QED BY <1>3 DEF I

----------------------------------------------------------------------------
(***************************************************************************)
(* Numbers.  All the widths from half of each, which grow.                 *)
(***************************************************************************)
LEMMA Ancho ==
  ASSUME NEW w \in Nat \ {0}
  PROVE  \E h \in Nat : h >= 1 /\ DosA(w) = 2 * h /\ MaxU(w) = 2 * h - 1
                        /\ MaxS(w) = h - 1 /\ MinS(w) = -h
<1>1. w - 1 \in Nat /\ (w - 1) + 1 = w
  OBVIOUS
<1>2. DosA(w - 1) \in Nat /\ DosA(w - 1) >= 1 /\ DosA(w) = 2 * DosA(w - 1)
  BY <1>1, DosMas
<1> QED BY <1>2 DEF MaxU, MaxS, MinS

LEMMA Anchos ==
  \E b, s, l \in Nat :
    /\ 1 <= b /\ 2 * b <= s /\ 2 * s <= l
    /\ DosA(BitsByte) = 2 * b /\ MaxU(BitsByte) = 2 * b - 1
    /\ MaxS(BitsByte) = b - 1 /\ MinS(BitsByte) = -b
    /\ MaxU(BitsCorto) = 2 * s - 1 /\ MaxS(BitsCorto) = s - 1 /\ MinS(BitsCorto) = -s
    /\ DosA(BitsLong) = 2 * l /\ MaxU(BitsLong) = 2 * l - 1
    /\ MaxS(BitsLong) = l - 1 /\ MinS(BitsLong) = -l
<1>1. /\ BitsByte \in Nat \ {0} /\ BitsCorto \in Nat \ {0} /\ BitsLong \in Nat \ {0}
      /\ BitsByte < BitsCorto /\ BitsCorto < BitsLong
  BY UtilsAssumption
<1>2. 2 * DosA(BitsByte) <= DosA(BitsCorto) /\ 2 * DosA(BitsCorto) <= DosA(BitsLong)
  BY <1>1, DosCrece
<1>3. PICK b \in Nat : b >= 1 /\ DosA(BitsByte) = 2 * b /\ MaxU(BitsByte) = 2 * b - 1
                       /\ MaxS(BitsByte) = b - 1 /\ MinS(BitsByte) = -b
  BY <1>1, Ancho
<1>4. PICK s \in Nat : s >= 1 /\ DosA(BitsCorto) = 2 * s /\ MaxU(BitsCorto) = 2 * s - 1
                       /\ MaxS(BitsCorto) = s - 1 /\ MinS(BitsCorto) = -s
  BY <1>1, Ancho
<1>5. PICK l \in Nat : l >= 1 /\ DosA(BitsLong) = 2 * l /\ MaxU(BitsLong) = 2 * l - 1
                       /\ MaxS(BitsLong) = l - 1 /\ MinS(BitsLong) = -l
  BY <1>1, Ancho
<1>6. 2 * b <= s /\ 2 * s <= l
  BY <1>2, <1>3, <1>4, <1>5
<1> QED BY <1>3, <1>4, <1>5, <1>6

\* What strtol and strtoul make of a number.
LEMMA Restos ==
  ASSUME NEW n \in Int, NEW d \in Nat, d >= 1
  PROVE  /\ n \in 0 .. d - 1 => n % d = n
         /\ -n \in 1 .. d - 1 => n % d = n + d
<1>1. n \in 0 .. d - 1 => n % d = n
  OBVIOUS
<1>2. -n \in 1 .. d - 1 => n % d = n + d
  OBVIOUS
<1> QED BY <1>1, <1>2

LEMMA Leidos ==
  ASSUME NEW n \in Int, NEW l \in Nat, l >= 1, DosA(BitsLong) = 2 * l,
         MaxU(BitsLong) = 2 * l - 1, MaxS(BitsLong) = l - 1, MinS(BitsLong) = -l
  PROVE  /\ strtol(n) = IF n > l - 1 THEN l - 1 ELSE IF n < -l THEN -l ELSE n
         /\ strtoul(n) = IF n > 2 * l - 1 \/ n < -(2 * l - 1) THEN 2 * l - 1
                         ELSE IF n < 0 THEN n + 2 * l ELSE n
<1>1. strtol(n) = IF n > l - 1 THEN l - 1 ELSE IF n < -l THEN -l ELSE n
  BY DEF strtol
<1>2. CASE n > 2 * l - 1 \/ n < -(2 * l - 1)
  BY <1>1, <1>2 DEF strtoul
<1>3. CASE n \in 0 .. 2 * l - 1
  <2>1. n % (2 * l) = n
    BY <1>3, Restos
  <2> QED BY <1>1, <1>3, <2>1 DEF strtoul
<1>4. CASE -n \in 1 .. 2 * l - 1
  <2>1. n % (2 * l) = n + 2 * l
    <3> DEFINE d == 2 * l
    <3>1. d \in Nat /\ d >= 1 /\ -n \in 1 .. d - 1
      BY <1>4
    <3> HIDE DEF d
    <3>2. n % d = n + d
      BY <3>1, Restos
    <3> QED BY <3>2 DEF d
  <2> QED BY <1>1, <1>4, <2>1 DEF strtoul
<1> QED BY <1>2, <1>3, <1>4

\* A value that is as it should be wherever the limits let it through.
LEMMA LeeBien ==
  ASSUME NEW n \in Int, NEW v \in Int, NEW min \in Int, NEW max \in Int,
         NEW ancho \in BOOLEAN, NEW t, t.entero,
         n \in min .. max => v = n,
         n > max /\ v \in min .. max => ancho /\ v = max,
         n < min /\ v \in min .. max =>
           IF min = 0 THEN v \in {n + DosA(BitsLong), MaxU(BitsLong)} ELSE ancho /\ v = min
  PROVE  BienLeido(n, Vale(t, v, min, max), min, max, ancho)
<1> DEFINE r == Vale(t, v, min, max)
<1>1. CASE v \in min .. max
  <2>1. r = [ret |-> 0, val |-> v]
    BY <1>1 DEF Vale
  <2>2. r.ret = 0 /\ r.val = v
    BY <2>1
  <2> HIDE DEF r
  <2>3. BienLeido(n, r, min, max, ancho)
    BY <1>1, <2>1, <2>2 DEF BienLeido
  <2> QED BY <2>3 DEF r
<1>2. CASE v \notin min .. max
  <2>1. r.ret = -1 /\ n \notin min .. max
    BY <1>2 DEF Vale, Error
  <2> HIDE DEF r
  <2>2. BienLeido(n, r, min, max, ancho)
    BY <2>1 DEF BienLeido
  <2> QED BY <2>2 DEF r
<1> QED BY <1>1, <1>2

\* Every function on every number.
LEMMA EnterosLeidos ==
  ASSUME NEW n \in Int, NEW t, t = [num |-> n, entero |-> TRUE]
  PROVE  /\ BienLeido(n, get_integer(t), MinS(BitsLong), MaxS(BitsLong), TRUE)
         /\ BienLeido(n, get_unsigned(t), 0, MaxU(BitsLong), TRUE)
         /\ BienLeido(n, get_u32(t), 0, MaxU(BitsLong), TRUE)
         /\ BienLeido(n, get_u16(t), 0, MaxU(BitsCorto), FALSE)
         /\ BienLeido(n, get_u8(t), 0, MaxU(BitsByte), FALSE)
         /\ BienLeido(n, get_s16(t), MinS(BitsCorto), MaxS(BitsCorto), FALSE)
         /\ BienLeido(n, get_s8(t), MinS(BitsByte), MaxS(BitsByte), FALSE)
<1>1. PICK b, s, l \in Nat :
    /\ 1 <= b /\ 2 * b <= s /\ 2 * s <= l
    /\ DosA(BitsByte) = 2 * b /\ MaxU(BitsByte) = 2 * b - 1
    /\ MaxS(BitsByte) = b - 1 /\ MinS(BitsByte) = -b
    /\ MaxU(BitsCorto) = 2 * s - 1 /\ MaxS(BitsCorto) = s - 1 /\ MinS(BitsCorto) = -s
    /\ DosA(BitsLong) = 2 * l /\ MaxU(BitsLong) = 2 * l - 1
    /\ MaxS(BitsLong) = l - 1 /\ MinS(BitsLong) = -l
  BY Anchos
<1> DEFINE i == strtol(n)
           u == strtoul(n)
<1>2. /\ i = IF n > l - 1 THEN l - 1 ELSE IF n < -l THEN -l ELSE n
      /\ u = IF n > 2 * l - 1 \/ n < -(2 * l - 1) THEN 2 * l - 1
             ELSE IF n < 0 THEN n + 2 * l ELSE n
  BY <1>1, Leidos
<1>3. t.num = n /\ t.entero
  OBVIOUS
<1>4. i \in Int /\ u \in Int
  BY <1>2
<1>5. /\ get_integer(t) = Vale(t, i, MinS(BitsLong), MaxS(BitsLong))
      /\ get_unsigned(t) = Vale(t, u, 0, MaxU(BitsLong))
      /\ get_u32(t) = Vale(t, u, 0, MaxU(BitsLong))
      /\ get_u16(t) = Vale(t, u, 0, MaxU(BitsCorto))
      /\ get_u8(t) = Vale(t, u, 0, MaxU(BitsByte))
      /\ get_s16(t) = Vale(t, i, MinS(BitsCorto), MaxS(BitsCorto))
      /\ get_s8(t) = Vale(t, i, MinS(BitsByte), MaxS(BitsByte))
  BY <1>3 DEF get_integer, get_unsigned, get_u32, get_u16, get_u8, get_s16, get_s8
<1> HIDE DEF i, u
<1>6. BienLeido(n, get_integer(t), MinS(BitsLong), MaxS(BitsLong), TRUE)
  <2>1. /\ n \in MinS(BitsLong) .. MaxS(BitsLong) => i = n
        /\ n > MaxS(BitsLong) => i = MaxS(BitsLong)
        /\ n < MinS(BitsLong) => i = MinS(BitsLong)
        /\ MinS(BitsLong) \in Int /\ MaxS(BitsLong) \in Int /\ MinS(BitsLong) # 0
        /\ TRUE \in BOOLEAN
    BY <1>1, <1>2
  <2>2. BienLeido(n, Vale(t, i, MinS(BitsLong), MaxS(BitsLong)), MinS(BitsLong), MaxS(BitsLong), TRUE)
    BY <1>3, <1>4, <2>1, LeeBien
  <2> QED BY <1>5, <2>2
<1>7. BienLeido(n, Vale(t, u, 0, MaxU(BitsLong)), 0, MaxU(BitsLong), TRUE)
  <2>1. /\ n \in 0 .. MaxU(BitsLong) => u = n
        /\ n > MaxU(BitsLong) => u = MaxU(BitsLong)
        /\ n < 0 => u \in {n + DosA(BitsLong), MaxU(BitsLong)}
        /\ 0 \in Int /\ MaxU(BitsLong) \in Int
    BY <1>1, <1>2
  <2> QED BY <1>3, <1>4, <2>1, LeeBien
<1>8. /\ BienLeido(n, get_unsigned(t), 0, MaxU(BitsLong), TRUE)
      /\ BienLeido(n, get_u32(t), 0, MaxU(BitsLong), TRUE)
  BY <1>5, <1>7
<1>9. \A max \in {MaxU(BitsCorto), MaxU(BitsByte)} :
        BienLeido(n, Vale(t, u, 0, max), 0, max, FALSE)
  <2> SUFFICES ASSUME NEW max \in {MaxU(BitsCorto), MaxU(BitsByte)}
               PROVE  BienLeido(n, Vale(t, u, 0, max), 0, max, FALSE)
    OBVIOUS
  <2>1. max \in Int /\ max < 2 * l - 1
    BY <1>1
  <2>2. /\ n \in 0 .. max => u = n
        /\ n > max => ~(u \in 0 .. max)
        /\ n < 0 => u \in {n + DosA(BitsLong), MaxU(BitsLong)}
        /\ 0 \in Int /\ FALSE \in BOOLEAN
    BY <1>1, <1>2, <2>1
  <2> QED BY <1>3, <1>4, <2>1, <2>2, LeeBien
<1>10. /\ BienLeido(n, get_u16(t), 0, MaxU(BitsCorto), FALSE)
       /\ BienLeido(n, get_u8(t), 0, MaxU(BitsByte), FALSE)
  BY <1>5, <1>9
<1>11. ASSUME NEW h \in {s, b}
       PROVE  BienLeido(n, Vale(t, i, -h, h - 1), -h, h - 1, FALSE)
  <2>1. /\ n \in -h .. h - 1 => i = n
        /\ n > h - 1 => ~(i \in -h .. h - 1)
        /\ n < -h => ~(i \in -h .. h - 1)
        /\ -h \in Int /\ h - 1 \in Int /\ FALSE \in BOOLEAN
    BY <1>1, <1>2
  <2> QED BY <1>3, <1>4, <2>1, LeeBien
<1>12. /\ BienLeido(n, get_s16(t), MinS(BitsCorto), MaxS(BitsCorto), FALSE)
       /\ BienLeido(n, get_s8(t), MinS(BitsByte), MaxS(BitsByte), FALSE)
  BY <1>1, <1>5, <1>11
<1> QED BY <1>6, <1>8, <1>10, <1>12

\* Every number in the range of its type is read as it is, and no other is
\* taken for one of the narrow types; the wide ones saturate (UTILS.c:32-128).
THEOREM IntegersRead == EnterosBien /\ (Spec => []PruebaEnteros)
<1>1. EnterosBien
  <2> SUFFICES ASSUME NEW n \in NumerosTexto, NEW t, t = [num |-> n, entero |-> TRUE]
               PROVE
       /\ BienLeido(n, get_integer(t), MinS(BitsLong), MaxS(BitsLong), TRUE)
       /\ BienLeido(n, get_unsigned(t), 0, MaxU(BitsLong), TRUE)
       /\ BienLeido(n, get_u32(t), 0, MaxU(BitsLong), TRUE)
       /\ BienLeido(n, get_u16(t), 0, MaxU(BitsCorto), FALSE)
       /\ BienLeido(n, get_u8(t), 0, MaxU(BitsByte), FALSE)
       /\ BienLeido(n, get_s16(t), MinS(BitsCorto), MaxS(BitsCorto), FALSE)
       /\ BienLeido(n, get_s8(t), MinS(BitsByte), MaxS(BitsByte), FALSE)
    BY Zenon DEF EnterosBien
  <2>1. n \in Int
    BY UtilsAssumption
  <2> QED BY <2>1, EnterosLeidos
<1>2. PruebaEnteros
  BY <1>1 DEF PruebaEnteros
<1> QED BY <1>1, <1>2, PTL
----------------------------------------------------------------------------
(***************************************************************************)
(* Prefixes.                                                               *)
(***************************************************************************)
FamiliasTexto == {"unspec", "inet", "inet6", "dn", "packet"}
TextoLargo == [num : Int, entero : BOOLEAN, hay : BOOLEAN]

\* The length behind the slash: one that is within e is the number written.
LEMMA LargoLeido ==
  ASSUME NEW x \in TextoLargo, NEW e \in Nat, e < MaxS(BitsLong)
  PROVE  LET n == get_integer(x)
             u == n.val % DosA(BitsLong)
         IN /\ n.ret = 0 /\ ~(u > e) => u = x.num /\ u \in 0 .. e
            /\ x.entero /\ x.num \in 0 .. e => n.ret = 0 /\ u = x.num
<1>1. PICK b, s, l \in Nat :
    /\ 1 <= b /\ 2 * b <= s /\ 2 * s <= l
    /\ DosA(BitsByte) = 2 * b /\ MaxU(BitsByte) = 2 * b - 1
    /\ MaxS(BitsByte) = b - 1 /\ MinS(BitsByte) = -b
    /\ MaxU(BitsCorto) = 2 * s - 1 /\ MaxS(BitsCorto) = s - 1 /\ MinS(BitsCorto) = -s
    /\ DosA(BitsLong) = 2 * l /\ MaxU(BitsLong) = 2 * l - 1
    /\ MaxS(BitsLong) = l - 1 /\ MinS(BitsLong) = -l
  BY Anchos
<1> DEFINE i == strtol(x.num)
           n == get_integer(x)
           d == DosA(BitsLong)
           u == n.val % d
<1>2. x.num \in Int /\ x.entero \in BOOLEAN
  BY DEF TextoLargo
<1>3. i = IF x.num > l - 1 THEN l - 1 ELSE IF x.num < -l THEN -l ELSE x.num
  BY <1>1, <1>2, Leidos
<1>4. n = Vale(x, i, -l, l - 1)
  BY <1>1 DEF get_integer
<1> HIDE DEF i, n, d
<1>5. i \in Int /\ -l <= i /\ i <= l - 1 /\ d \in Nat /\ d >= 1 /\ d = 2 * l
  BY <1>1, <1>2, <1>3 DEF d
<1>6. CASE x.entero
  <2>1. n = [ret |-> 0, val |-> i]
    BY <1>4, <1>5, <1>6 DEF Vale
  <2>2. n.ret = 0 /\ n.val = i
    BY <2>1
  <2>3. i \in 0 .. d - 1 => u = i
    BY <1>5, <2>2, Restos
  <2>4. -i \in 1 .. d - 1 => u = i + d
    BY <1>5, <2>2, Restos
  <2>5. i >= 0 => u = i
    BY <1>5, <2>3
  <2>6. i < 0 => u > e
    BY <1>1, <1>5, <2>4
  <2> HIDE DEF u
  <2>7. ~(u > e) => u = x.num /\ u \in 0 .. e
    BY <1>1, <1>2, <1>3, <1>5, <2>5, <2>6
  <2>8. x.num \in 0 .. e => u = x.num
    BY <1>1, <1>2, <1>3, <2>5
  <2> QED BY <2>2, <2>7, <2>8 DEF u, n, d
<1>7. CASE ~x.entero
  <2>1. n.ret = -1
    BY <1>4, <1>7 DEF Vale, Error
  <2> QED BY <1>7, <2>1 DEF n
<1> QED BY <1>2, <1>6, <1>7

\* An address that is taken, of what family and how long.
EsDireccion(t, f, a) ==
  /\ a.ret = 0 /\ a.family \in FamiliasTexto /\ a.bytelen \in {2, 4, 16}
  /\ Entera(a.family) = BitsByte * a.bytelen
  /\ f # "unspec" => a.family = f
  /\ a.family = "inet" /\ t.clase = "v4" => Len(t.grupos) <= 4 /\ a.data = Octetos(t.grupos)
  /\ f = "inet6" => t.clase \in {"v6", "default"}
  /\ t.clase = "v6" => a.family = "inet6"

LEMMA PrefijoDe ==
  ASSUME NEW f, NEW by, NEW bi, NEW oct
  PROVE  LET a == Prefijo(f, by, bi, oct)
         IN a.ret = 0 /\ a.family = f /\ a.bytelen = by /\ a.bitlen = bi /\ a.data = oct
BY DEF Prefijo

LEMMA DireccionLeida ==
  ASSUME NEW t \in TextoDireccion, NEW f \in FamiliasTexto
  PROVE  LET a == get_addr_1(t, f)
         IN /\ a.ret = 0 => EsDireccion(t, f, a)
            /\ t.clase = "v6" /\ f \in {"unspec", "inet6"} => a.ret = 0
            /\ \E g, by, bi, oct : a = Prefijo(g, by, bi, oct) \/ a.ret # 0
<1> DEFINE a == get_addr_1(t, f)
<1>1. Falla.ret = -1
  BY DEF Falla, Malo, Prefijo
<1>2. /\ BitsByte \in Nat
      /\ t.clase \in {"default", "v6", "mal6", "v4", "otro"}
  BY UtilsAssumption DEF TextoDireccion
<1>3. /\ Entera("inet6") = BitsByte * 16 /\ Entera("dn") = BitsByte * 2
      /\ \A g \in FamiliasTexto \ {"inet6", "dn"} : Entera(g) = BitsByte * 4
  BY <1>2 DEF Entera, Largo4, Largo6
<1>4. CASE t.clase = "default"
  <2>1. CASE f = "dn"
    <3>1. a = Falla
      BY <1>4, <2>1 DEF get_addr_1
    <3> QED BY <1>1, <1>4, <3>1
  <2>2. CASE f # "dn"
    <3>1. a = Prefijo(f, IF f = "inet6" THEN 16 ELSE 4, -1, <<>>)
      BY <1>4, <2>2 DEF get_addr_1, Largo6, Largo4
    <3> HIDE DEF a
    <3>2. a.ret = 0 /\ a.family = f /\ a.bytelen = IF f = "inet6" THEN 16 ELSE 4
      BY <3>1, PrefijoDe
    <3>3. EsDireccion(t, f, a)
      BY <1>3, <1>4, <2>2, <3>2 DEF EsDireccion, FamiliasTexto
    <3> QED BY <1>4, <3>1, <3>3 DEF a
  <2> QED BY <2>1, <2>2
<1>5. CASE t.clase \in {"v6", "mal6"}
  <2>1. CASE f \in {"unspec", "inet6"} /\ t.clase = "v6"
    <3>1. a = Prefijo("inet6", 16, -1, <<>>)
      BY <1>5, <2>1 DEF get_addr_1, Largo6
    <3> HIDE DEF a
    <3>2. a.ret = 0 /\ a.family = "inet6" /\ a.bytelen = 16
      BY <3>1, PrefijoDe
    <3>3. EsDireccion(t, f, a)
      BY <1>3, <2>1, <3>2 DEF EsDireccion, FamiliasTexto
    <3> QED BY <3>1, <3>2, <3>3 DEF a
  <2>2. CASE ~(f \in {"unspec", "inet6"} /\ t.clase = "v6")
    <3>1. a = Falla
      BY <1>5, <2>2 DEF get_addr_1
    <3> QED BY <1>1, <2>2, <3>1
  <2> QED BY <2>1, <2>2
<1>6. CASE t.clase \in {"v4", "otro"} /\ f = "dn"
  <2>1. CASE t.clase = "v4" /\ Len(t.grupos) = 2
    <3>1. a = Prefijo("dn", 2, -1, <<>>)
      BY <1>6, <2>1 DEF get_addr_1
    <3> HIDE DEF a
    <3>2. a.ret = 0 /\ a.family = "dn" /\ a.bytelen = 2
      BY <3>1, PrefijoDe
    <3>3. EsDireccion(t, f, a)
      BY <1>3, <1>6, <2>1, <3>2 DEF EsDireccion, FamiliasTexto
    <3> QED BY <1>6, <3>1, <3>3 DEF a
  <2>2. CASE ~(t.clase = "v4" /\ Len(t.grupos) = 2)
    <3>1. a = Falla
      BY <1>6, <2>2 DEF get_addr_1
    <3> QED BY <1>1, <1>6, <3>1
  <2> QED BY <2>1, <2>2
<1>7. CASE t.clase \in {"v4", "otro"} /\ f # "dn"
  <2>1. CASE t.clase = "v4" /\ f \in {"unspec", "inet"} /\ Len(t.grupos) <= 4
    <3>1. a = Prefijo("inet", 4, -1, Octetos(t.grupos))
      BY <1>7, <2>1 DEF get_addr_1, Largo4
    <3> HIDE DEF a
    <3>2. a.ret = 0 /\ a.family = "inet" /\ a.bytelen = 4 /\ a.data = Octetos(t.grupos)
      BY <3>1, PrefijoDe
    <3>3. EsDireccion(t, f, a)
      BY <1>3, <1>7, <2>1, <3>2 DEF EsDireccion, FamiliasTexto
    <3> QED BY <1>7, <3>1, <3>3 DEF a
  <2>2. CASE ~(t.clase = "v4" /\ f \in {"unspec", "inet"} /\ Len(t.grupos) <= 4)
    <3>1. a = Falla
      BY <1>7, <2>2 DEF get_addr_1, Largo4
    <3> QED BY <1>1, <1>7, <3>1
  <2> QED BY <2>1, <2>2
<1> QED BY <1>2, <1>4, <1>5, <1>6, <1>7

\* The same with a length that it has.
EsPrefijo(t, f, p) ==
  /\ p.ret = 0
  /\ f # "unspec" => p.family = f
  /\ p.bitlen \in 0..(BitsByte * p.bytelen)
  /\ p.bytelen = 0 <=> (t.clase = "default" /\ ~t.plen.hay)
  /\ t.plen.hay => p.bitlen = t.plen.num
  /\ p.family = "inet" /\ t.clase = "v4" => Len(t.grupos) <= 4 /\ p.data = Octetos(t.grupos)
  /\ f = "inet6" => t.clase \in {"v6", "default"}

LEMMA PrefijoLeido ==
  ASSUME NEW t \in TextoDireccion, NEW f \in FamiliasTexto
  PROVE  LET p == get_prefix_1(t, f)
         IN /\ p.ret = 0 => EsPrefijo(t, f, p)
            /\ /\ t.clase = "v6" /\ f \in {"unspec", "inet6"}
               /\ t.plen.hay /\ t.plen.entero /\ t.plen.num \in 0..(BitsByte * Largo6)
               => p.ret = 0
<1> DEFINE p == get_prefix_1(t, f)
           a == get_addr_1(t, f)
           n == get_integer(t.plen)
           u == n.val % DosA(BitsLong)
<1>1. Falla.ret = -1
  BY DEF Falla, Malo, Prefijo
<1>2. BitsByte \in Nat /\ MaxS(BitsLong) \in Int /\ 16 * BitsByte < MaxS(BitsLong)
  BY UtilsAssumption, Anchos DEF Largo6
<1>3. t.plen \in TextoLargo
  BY DEF TextoDireccion, TextoLargo
<1>4. CASE t.clase = "default" /\ ~t.plen.hay
  <2>1. CASE f = "dn"
    <3>1. p = Falla
      BY <1>4, <2>1 DEF get_prefix_1
    <3> QED BY <1>1, <1>4, <3>1
  <2>2. CASE f # "dn"
    <3>1. p = Prefijo(f, 0, 0, <<>>)
      BY <1>4, <2>2 DEF get_prefix_1
    <3> HIDE DEF p
    <3>2. p.ret = 0 /\ p.family = f /\ p.bytelen = 0 /\ p.bitlen = 0
      BY <3>1, PrefijoDe
    <3>3. EsPrefijo(t, f, p)
      BY <1>2, <1>4, <3>2 DEF EsPrefijo
    <3> QED BY <1>4, <3>3 DEF p
  <2> QED BY <2>1, <2>2
<1>5. CASE ~(t.clase = "default" /\ ~t.plen.hay)
  <2>1. p = IF a.ret # 0 THEN Falla
            ELSE IF ~t.plen.hay THEN [a EXCEPT !.bitlen = Entera(a.family)]
            ELSE IF n.ret # 0 \/ u > Entera(a.family) THEN Falla
            ELSE [a EXCEPT !.bitlen = u]
    BY <1>5 DEF get_prefix_1
  <2>2. /\ a.ret = 0 => EsDireccion(t, f, a)
        /\ t.clase = "v6" /\ f \in {"unspec", "inet6"} => a.ret = 0
        /\ \E g, by, bi, oct : a = Prefijo(g, by, bi, oct) \/ a.ret # 0
    BY DireccionLeida
  <2>3. \A e \in Nat : e < MaxS(BitsLong) =>
          /\ n.ret = 0 /\ ~(u > e) => u = t.plen.num /\ u \in 0 .. e
          /\ t.plen.entero /\ t.plen.num \in 0 .. e => n.ret = 0 /\ u = t.plen.num
    BY <1>3, LargoLeido
  <2> HIDE DEF p, a, n, u
  <2>4. CASE a.ret # 0
    BY <1>1, <2>1, <2>2, <2>4 DEF p
  <2>5. CASE a.ret = 0
    <3>1. EsDireccion(t, f, a)
      BY <2>2, <2>5
    <3>2. /\ Entera(a.family) \in Nat /\ Entera(a.family) < MaxS(BitsLong)
          /\ Entera(a.family) = BitsByte * a.bytelen /\ a.bytelen # 0
      <4>1. Entera(a.family) = BitsByte * a.bytelen /\ a.bytelen \in {2, 4, 16}
        BY <3>1 DEF EsDireccion
      <4> QED BY <1>2, <4>1
    <3>3. ASSUME NEW x, x \in 0 .. Entera(a.family), t.plen.hay => x = t.plen.num,
                 p = [a EXCEPT !.bitlen = x]
          PROVE  EsPrefijo(t, f, p)
      <4>1. PICK g, by, bi, oct : a = Prefijo(g, by, bi, oct)
        BY <2>2, <2>5
      <4>2. p = Prefijo(g, by, x, oct)
        BY <3>3, <4>1 DEF Prefijo
      <4>3. p.ret = 0 /\ p.family = g /\ p.bytelen = by /\ p.bitlen = x /\ p.data = oct
        BY <4>2, PrefijoDe
      <4>4. a.family = g /\ a.bytelen = by /\ a.data = oct
        BY <4>1, PrefijoDe
      <4> QED BY <1>5, <3>1, <3>2, <3>3, <4>3, <4>4 DEF EsPrefijo, EsDireccion
    <3>4. CASE ~t.plen.hay
      <4>1. p = [a EXCEPT !.bitlen = Entera(a.family)]
        BY <2>1, <2>5, <3>4
      <4> QED BY <3>2, <3>3, <3>4, <4>1 DEF p
    <3>5. CASE t.plen.hay
      <4>1. p = IF n.ret # 0 \/ u > Entera(a.family) THEN Falla ELSE [a EXCEPT !.bitlen = u]
        BY <2>1, <2>5, <3>5
      <4>2. p.ret = 0 => EsPrefijo(t, f, p)
        <5>1. CASE n.ret # 0 \/ u > Entera(a.family)
          BY <1>1, <4>1, <5>1
        <5>2. CASE ~(n.ret # 0 \/ u > Entera(a.family))
          <6>1. u = t.plen.num /\ u \in 0 .. Entera(a.family)
            BY <2>3, <3>2, <5>2
          <6> QED BY <3>3, <4>1, <5>2, <6>1
        <5> QED BY <5>1, <5>2
      <4>3. ASSUME t.clase = "v6", f \in {"unspec", "inet6"}, t.plen.entero,
                   t.plen.num \in 0..(BitsByte * Largo6)
            PROVE  p.ret = 0
        <5>1. a.family = "inet6"
          BY <3>1, <4>3 DEF EsDireccion
        <5>2. Entera(a.family) = BitsByte * Largo6
          BY <1>2, <5>1 DEF Entera, Largo6
        <5>3. n.ret = 0 /\ u = t.plen.num
          BY <2>3, <3>2, <4>3, <5>2
        <5>4. ~(u > Entera(a.family))
          BY <3>2, <4>3, <5>2, <5>3
        <5>5. p = [a EXCEPT !.bitlen = u] /\ u \in 0 .. Entera(a.family)
          BY <4>1, <4>3, <5>2, <5>3, <5>4
        <5> QED BY <3>3, <5>3, <5>5 DEF EsPrefijo
      <4> QED BY <4>2, <4>3 DEF p
    <3> QED BY <3>4, <3>5
  <2> QED BY <2>4, <2>5
<1> QED BY <1>4, <1>5

\* The octets of an address are those written, unless they wrap.
LEMMA OctetosLeidos ==
  ASSUME NEW gs \in Seq(Nat), Len(gs) <= 4, NEW k \in DOMAIN gs,
         gs[k] \in 0 .. MaxU(BitsByte)
  PROVE  Octetos(gs)[k] = gs[k]
<1>1. PICK d : d = DosA(BitsByte)
  OBVIOUS
<1>2. d \in Nat /\ d >= 1 /\ MaxU(BitsByte) = d - 1
  BY <1>1, UtilsAssumption, DosMas DEF MaxU
<1>3. gs[k] \in 0 .. d - 1
  BY <1>2
<1>4. gs[k] % d = gs[k]
  BY <1>2, <1>3, Restos
<1>5. k \in 1 .. 4 /\ k <= Len(gs)
  OBVIOUS
<1> QED BY <1>1, <1>4, <1>5 DEF Octetos, Largo4

\* For every text and family: a prefix that is taken is of the family asked for,
\* of the length written, with the octets written, and whoever asks for IPv6
\* never gets anything else (UTILS.c:130-271).
THEOREM PrefixesRead == PrefijosBien /\ (Spec => []PruebaPrefijos)
<1>1. PrefijosBien
  <2> SUFFICES ASSUME NEW t \in TextoDireccion, NEW f \in FamiliasTexto
               PROVE  PrefijoBien(t, f)
    BY UtilsAssumption DEF PrefijosBien, FamiliasTexto
  <2> DEFINE p == get_prefix(t, f)
             q == get_prefix_1(t, f)
  <2>1. Sale.ret = 1
    BY DEF Sale, Malo, Prefijo
  <2>2. f # "packet" /\ q.ret = 0 => p = q
    BY DEF get_prefix
  <2>3. f = "packet" \/ q.ret # 0 => p = Sale
    BY DEF get_prefix
  <2>4. /\ q.ret = 0 => EsPrefijo(t, f, q)
        /\ /\ t.clase = "v6" /\ f \in {"unspec", "inet6"}
           /\ t.plen.hay /\ t.plen.entero /\ t.plen.num \in 0..(BitsByte * Largo6)
           => q.ret = 0
    BY PrefijoLeido
  <2> HIDE DEF p, q
  <2>5. p.ret \in {0, 1} /\ (p.ret = 0 => EsPrefijo(t, f, p))
    BY <2>1, <2>2, <2>3, <2>4
  <2>6. t.grupos \in Seq(Nat)
    BY DEF TextoDireccion
  <2>7. /\ t.clase = "v6" /\ f \in {"unspec", "inet6"}
        /\ t.plen.hay /\ t.plen.entero /\ t.plen.num \in 0..(BitsByte * Largo6)
        => p.ret = 0
    BY <2>2, <2>4
  <2>8. ASSUME p.ret = 0, p.family = "inet", t.clase = "v4", NEW k \in DOMAIN t.grupos,
               t.grupos[k] \in 0 .. MaxU(BitsByte)
        PROVE  p.data[k] = t.grupos[k]
    BY <2>5, <2>6, <2>8, OctetosLeidos DEF EsPrefijo
  <2>9. PrefijoBien(t, f) <=>
         /\ p.ret \in {0, 1}
         /\ p.ret = 0 =>
              /\ f # "unspec" => p.family = f
              /\ p.bitlen \in 0..(BitsByte * p.bytelen)
              /\ p.bytelen = 0 <=> (t.clase = "default" /\ ~t.plen.hay)
              /\ t.plen.hay => p.bitlen = t.plen.num
              /\ p.family = "inet" /\ t.clase = "v4" =>
                   \A k \in DOMAIN t.grupos :
                     t.grupos[k] \in 0..MaxU(BitsByte) => p.data[k] = t.grupos[k]
         /\ f = "inet6" /\ p.ret = 0 => t.clase \in {"v6", "default"}
         /\ /\ t.clase = "v6" /\ f \in {"unspec", "inet6"}
            /\ t.plen.hay /\ t.plen.entero /\ t.plen.num \in 0..(BitsByte * Largo6)
            => p.ret = 0
    BY Zenon DEF PrefijoBien, p
  <2> QED BY <2>5, <2>7, <2>8, <2>9, Zenon DEF EsPrefijo
<1>2. PruebaPrefijos
  BY <1>1 DEF PruebaPrefijos
<1> QED BY <1>1, <1>2, PTL
----------------------------------------------------------------------------
(***************************************************************************)
(* Names of types.                                                         *)
(***************************************************************************)
LEMMA TiposDe ==
  /\ DOMAIN Tipos = 1 .. 11
  /\ \A i, j \in 1 .. 11 : Tipos[i] = Tipos[j] => i = j
  /\ \A i \in 1 .. 11 : Tipos[i] # "none" /\ Tipos[i] # "brd" /\ Tipos[i] # "num"
<1>1. DOMAIN Tipos = 1 .. 11
  BY DEF Tipos
<1>2. ASSUME NEW i \in 1 .. 11, NEW j \in 1 .. 11, Tipos[i] = Tipos[j] PROVE i = j
  BY <1>2 DEF Tipos
<1>3. \A i \in 1 .. 11 : Tipos[i] # "none" /\ Tipos[i] # "brd" /\ Tipos[i] # "num"
  BY DEF Tipos
<1> QED BY <1>1, <1>2, <1>3

LEMMA AbreviablesDe ==
  /\ Len(Abreviables) = 8 /\ DOMAIN Abreviables = 1 .. 8
  /\ \A i, j \in 1 .. 8 : Abreviables[i] = Abreviables[j] => i = j
  /\ \A i \in 1 .. 8 : \E n \in DOMAIN Tipos : Tipos[n] = Abreviables[i]
  /\ \A n \in 1 .. 11 : \/ Tipos[n] \in {"local", "nat", "throw"}
                        \/ \E i \in 1 .. 8 : Abreviables[i] = Tipos[n]
<1>1. Len(Abreviables) = 8 /\ DOMAIN Abreviables = 1 .. 8
  BY DEF Abreviables
<1>2. ASSUME NEW i \in 1 .. 8, NEW j \in 1 .. 8, Abreviables[i] = Abreviables[j] PROVE i = j
  BY <1>2 DEF Abreviables
<1>3. /\ Abreviables[1] = Tipos[3] /\ Abreviables[2] = Tipos[4] /\ Abreviables[3] = Tipos[5]
      /\ Abreviables[4] = Tipos[8] /\ Abreviables[5] = Tipos[7] /\ Abreviables[6] = Tipos[6]
      /\ Abreviables[7] = Tipos[11] /\ Abreviables[8] = Tipos[1]
      /\ Tipos[2] = "local" /\ Tipos[9] = "throw" /\ Tipos[10] = "nat"
  BY DEF Abreviables, Tipos
<1>4. ASSUME NEW i \in 1 .. 8 PROVE \E n \in DOMAIN Tipos : Tipos[n] = Abreviables[i]
  BY <1>3, TiposDe
<1>5. ASSUME NEW n \in 1 .. 11
      PROVE  \/ Tipos[n] \in {"local", "nat", "throw"}
             \/ \E i \in 1 .. 8 : Abreviables[i] = Tipos[n]
  BY <1>3
<1> QED BY <1>1, <1>2, <1>4, <1>5

LEMMA NumeroDe ==
  ASSUME NEW n \in DOMAIN Tipos
  PROVE  Numero(Tipos[n]) = n
BY TiposDe DEF Numero

LEMMA PalabraDe ==
  ASSUME NEW w, \E n \in DOMAIN Tipos : Tipos[n] = w
  PROVE  Numero(w) \in DOMAIN Tipos /\ Tipos[Numero(w)] = w
BY DEF Numero

\* The beginning that is found matches, and one is found if there is any.
Comienzo(t) == SelectInSeq(Abreviables, LAMBDA w : matches(t, w))

LEMMA ComienzoHallado ==
  ASSUME NEW t
  PROVE  LET n == Comienzo(t)
         IN /\ n \in 0 .. 8
            /\ n > 0 => matches(t, Abreviables[n])
            /\ (\E i \in 1 .. 8 : matches(t, Abreviables[i])) => n > 0
<1> DEFINE I == {i \in 1 .. Len(Abreviables) : matches(t, Abreviables[i])}
           n == Comienzo(t)
<1>1. n = IF I # {} THEN Min(I) ELSE 0
  BY Zenon DEF Comienzo, SelectInSeq
<1>2. I \subseteq 1 .. 8 /\ \A i \in 1 .. 8 : i \in I <=> matches(t, Abreviables[i])
  BY AbreviablesDe
<1> HIDE DEF n, I
<1>3. CASE I = {}
  BY <1>1, <1>2, <1>3 DEF n
<1>4. CASE I # {}
  <2>1. I \subseteq Nat
    BY <1>2
  <2>2. Min(I) \in I
    BY <1>4, <2>1, MinimoDe
  <2>3. n \in I
    BY <1>1, <1>4, <2>2
  <2>4. n \in 1 .. 8 /\ matches(t, Abreviables[n])
    BY <1>2, <2>3
  <2> QED BY <2>4 DEF n
<1> QED BY <1>3, <1>4

LEMMA LetrasDe == \A w : Letras(w) \in Nat /\ Letras(w) >= 3
BY DEF Letras
LEMMA ComunesDe == \A p, q : Comunes(p, q) <= 2
BY DEF Comunes

LEMMA NombreLeido ==
  ASSUME NEW id \in 1 .. 255
  PROVE  rtnl_rtntype_a2n(rtnl_rtntype_n2a(id)) = [ret |-> 0, val |-> id]
<1> DEFINE t == rtnl_rtntype_n2a(id)
           n == Comienzo(t)
           r == rtnl_rtntype_a2n(t)
<1>1. r = CASE t.de = "num" -> IF t.k <= 255 THEN [ret |-> 0, val |-> t.k] ELSE Error
            [] t.de # "num" /\ \E w \in {"local", "nat", "throw"} : strcmp(t, w) ->
                 [ret |-> 0, val |-> Numero(t.de)]
            [] strcmp(t, "brd") -> [ret |-> 0, val |-> Numero("broadcast")]
            [] OTHER -> IF n > 0 THEN [ret |-> 0, val |-> Numero(Abreviables[n])] ELSE Error
  BY Zenon DEF rtnl_rtntype_a2n, Comienzo
<1>2. CASE id \notin DOMAIN Tipos
  <2>1. t = [de |-> "num", k |-> id]
    BY <1>2 DEF rtnl_rtntype_n2a
  <2>2. t.de = "num" /\ t.k = id
    BY <2>1
  <2>3. ~strcmp(t, "brd")
    BY <2>2 DEF strcmp
  <2> HIDE DEF t, n
  <2>4. r = [ret |-> 0, val |-> id]
    BY <1>1, <2>2, <2>3
  <2> QED BY <2>4 DEF t
<1>3. CASE id \in DOMAIN Tipos
  <2> DEFINE p == Tipos[id]
  <2>1. t = [de |-> p, k |-> Letras(p)]
    BY <1>3 DEF rtnl_rtntype_n2a
  <2>2. t.de = p /\ t.k = Letras(p)
    BY <2>1
  <2>3. p # "num" /\ p # "brd" /\ Numero(p) = id
    BY <1>3, TiposDe, NumeroDe
  <2>4. p \in {"local", "nat", "throw"} \/ \E i \in 1 .. 8 : Abreviables[i] = p
    BY <1>3, TiposDe, AbreviablesDe
  <2>5. \A w : strcmp(t, w) <=> w = p
    BY <2>2 DEF strcmp
  <2>6. \A w : matches(t, w) <=> w = p
    <3> HIDE DEF t, p
    <3> SUFFICES ASSUME NEW w PROVE matches(t, w) <=> w = p
      OBVIOUS
    <3>1. Letras(p) \in Nat /\ Letras(p) >= 3
      BY LetrasDe
    <3>2. Comunes(p, w) \in Int /\ Comunes(p, w) <= 2
      BY DEF Comunes
    <3> QED BY <2>2, <3>1, <3>2 DEF matches
  <2>7. /\ n \in 0 .. 8
        /\ n > 0 => matches(t, Abreviables[n])
        /\ (\E i \in 1 .. 8 : matches(t, Abreviables[i])) => n > 0
    BY ComienzoHallado
  <2> HIDE DEF t, p, n
  <2>8. CASE p \in {"local", "nat", "throw"}
    <3>1. \E w \in {"local", "nat", "throw"} : strcmp(t, w)
      BY <2>5, <2>8
    <3>2. r = [ret |-> 0, val |-> Numero(t.de)]
      BY <1>1, <2>2, <2>3, <2>5, <3>1
    <3> QED BY <2>2, <2>3, <3>2 DEF t
  <2>9. CASE p \notin {"local", "nat", "throw"}
    <3>1. n > 0 /\ Abreviables[n] = p
      BY <2>4, <2>6, <2>7, <2>9
    <3>2. /\ ~(\E w \in {"local", "nat", "throw"} : strcmp(t, w))
          /\ ~strcmp(t, "brd") /\ t.de # "num"
      BY <2>2, <2>3, <2>5, <2>9
    <3>3. r = IF n > 0 THEN [ret |-> 0, val |-> Numero(Abreviables[n])] ELSE Error
      BY <1>1, <3>2
    <3> QED BY <2>3, <3>1, <3>3 DEF t
  <2> QED BY <2>8, <2>9
<1> QED BY <1>2, <1>3

LEMMA ComienzoLeido ==
  ASSUME NEW w \in {Tipos[n] : n \in DOMAIN Tipos} \cup {"brd", "none"}, NEW k \in 1 .. Letras(w),
         NEW t, t = [de |-> w, k |-> k],
         rtnl_rtntype_a2n(t).ret = 0
  PROVE  \/ matches(t, Tipos[rtnl_rtntype_a2n(t).val])
         \/ w = "brd" /\ Tipos[rtnl_rtntype_a2n(t).val] = "broadcast"
<1> DEFINE n == Comienzo(t)
           r == rtnl_rtntype_a2n(t)
<1>1. r = CASE t.de = "num" -> IF t.k <= 255 THEN [ret |-> 0, val |-> t.k] ELSE Error
            [] t.de # "num" /\ \E v \in {"local", "nat", "throw"} : strcmp(t, v) ->
                 [ret |-> 0, val |-> Numero(t.de)]
            [] strcmp(t, "brd") -> [ret |-> 0, val |-> Numero("broadcast")]
            [] OTHER -> IF n > 0 THEN [ret |-> 0, val |-> Numero(Abreviables[n])] ELSE Error
  BY Zenon DEF rtnl_rtntype_a2n, Comienzo
<1>2. t.de = w /\ t.k = k /\ w # "num"
  BY TiposDe
<1>3. n \in 0 .. 8 /\ (n > 0 => matches(t, Abreviables[n]))
  BY ComienzoHallado
<1> HIDE DEF n, r
<1>4. CASE \E v \in {"local", "nat", "throw"} : strcmp(t, v)
  <2>1. w \in {"local", "nat", "throw"} /\ k = Letras(w)
    BY <1>2, <1>4 DEF strcmp
  <2>2. ~strcmp(t, "brd")
    BY <1>2, <2>1 DEF strcmp
  <2>3. r = [ret |-> 0, val |-> Numero(w)]
    BY <1>1, <1>2, <1>4, <2>2
  <2>4. w = Tipos[2] \/ w = Tipos[9] \/ w = Tipos[10]
    BY <2>1 DEF Tipos
  <2>5. Tipos[Numero(w)] = w
    BY <2>4, TiposDe, PalabraDe
  <2>6. Tipos[r.val] = w
    BY <2>3, <2>5
  <2>7. matches(t, w)
    BY <1>2, <2>1, LetrasDe DEF matches
  <2> QED BY <2>6, <2>7 DEF r
<1>5. CASE strcmp(t, "brd")
  <2>1. w = "brd"
    BY <1>2, <1>5 DEF strcmp
  <2>2. ~(\E v \in {"local", "nat", "throw"} : strcmp(t, v))
    BY <1>2, <2>1 DEF strcmp
  <2>3. r = [ret |-> 0, val |-> Numero("broadcast")]
    BY <1>1, <1>2, <1>5, <2>2
  <2>4. Tipos[3] = "broadcast"
    BY DEF Tipos
  <2>5. Tipos[Numero("broadcast")] = "broadcast"
    BY <2>4, TiposDe, PalabraDe
  <2>6. Tipos[r.val] = "broadcast"
    BY <2>3, <2>5
  <2> QED BY <2>1, <2>6 DEF r
<1>6. CASE ~(\E v \in {"local", "nat", "throw"} : strcmp(t, v)) /\ ~strcmp(t, "brd")
  <2>1. r = IF n > 0 THEN [ret |-> 0, val |-> Numero(Abreviables[n])] ELSE Error
    BY <1>1, <1>2, <1>6
  <2>2. r.ret = 0 /\ Error.ret # 0
    BY DEF r, Error
  <2>3. n > 0 /\ r = [ret |-> 0, val |-> Numero(Abreviables[n])]
    BY <2>1, <2>2
  <2>4. \E i \in DOMAIN Tipos : Tipos[i] = Abreviables[n]
    BY <1>3, <2>3, AbreviablesDe
  <2>5. Tipos[r.val] = Abreviables[n]
    BY <2>3, <2>4, PalabraDe
  <2> QED BY <1>3, <2>3, <2>5 DEF r
<1> QED BY <1>4, <1>5, <1>6

\* The name of type 0 is no beginning of a word, and it is refused.
LEMMA NingunoLeido == rtnl_rtntype_a2n(rtnl_rtntype_n2a(0)) = Error
<1> DEFINE t == rtnl_rtntype_n2a(0)
           n == Comienzo(t)
           r == rtnl_rtntype_a2n(t)
<1>1. r = CASE t.de = "num" -> IF t.k <= 255 THEN [ret |-> 0, val |-> t.k] ELSE Error
            [] t.de # "num" /\ \E v \in {"local", "nat", "throw"} : strcmp(t, v) ->
                 [ret |-> 0, val |-> Numero(t.de)]
            [] strcmp(t, "brd") -> [ret |-> 0, val |-> Numero("broadcast")]
            [] OTHER -> IF n > 0 THEN [ret |-> 0, val |-> Numero(Abreviables[n])] ELSE Error
  BY Zenon DEF rtnl_rtntype_a2n, Comienzo
<1>2. t.de = "none" /\ t.k = 4
  BY DEF rtnl_rtntype_n2a
<1>3. n \in 0 .. 8 /\ (n > 0 => matches(t, Abreviables[n]))
  BY ComienzoHallado
<1> HIDE DEF n, t
<1>4. ~strcmp(t, "brd") /\ ~(\E v \in {"local", "nat", "throw"} : strcmp(t, v))
  BY <1>2 DEF strcmp
<1>5. \A i \in 1 .. 8 : Abreviables[i] # "none"
  BY DEF Abreviables
<1>6. \A i \in 1 .. 8 : ~matches(t, Abreviables[i])
  <2> TAKE i \in 1 .. 8
  <2>1. matches(t, Abreviables[i]) => 4 <= Comunes("none", Abreviables[i])
    BY <1>2, <1>5 DEF matches
  <2>2. Comunes("none", Abreviables[i]) = 0
    BY DEF Comunes
  <2> QED BY <2>1, <2>2
<1>7. n = 0
  BY <1>3, <1>6
<1> QED BY <1>1, <1>2, <1>4, <1>7 DEF t

LEMMA TiposIdaYVuelta == TipoIdaYVuelta
<1>1. \A id \in 1 .. 255 : rtnl_rtntype_a2n(rtnl_rtntype_n2a(id)) = [ret |-> 0, val |-> id]
  BY NombreLeido
<1>2. ASSUME NEW w \in {Tipos[n] : n \in DOMAIN Tipos} \cup {"brd", "none"},
             NEW k \in 1 .. Letras(w)
      PROVE  LET r == rtnl_rtntype_a2n([de |-> w, k |-> k])
             IN r.ret = 0 => matches([de |-> w, k |-> k], Tipos[r.val])
                             \/ (w = "brd" /\ Tipos[r.val] = "broadcast")
  BY ComienzoLeido
<1> QED BY <1>1, <1>2, NingunoLeido DEF TipoIdaYVuelta
----------------------------------------------------------------------------
(***************************************************************************)
(* Bytes in hexadecimal.                                                   *)
(***************************************************************************)
LEMMA HexLeido ==
  ASSUME NEW str \in Seq(0..MaxU(BitsByte)), NEW blen \in Nat, NEW largo \in Nat
  PROVE  HexIdaYVuelta(str, blen, largo)
<1> DEFINE k == IF blen \div 3 < Len(str) THEN blen \div 3 ELSE Len(str)
           x == hexstring_n2a(str, blen)
           y == hexstring_a2n(x.grupos, largo)
           d == DosA(BitsLong)
           m == MaxU(BitsByte)
           S == 0 .. m
<1>1. d \in Nat /\ m \in Nat /\ m < d
  BY Anchos
<1>2. k \in Nat /\ k <= Len(str) /\ Len(str) \in Nat /\ (3 * Len(str) <= blen => k = Len(str))
  OBVIOUS
<1>3. x.grupos = SubSeq(str, 1, k) /\ x.fin = (k > 0 /\ (k = Len(str) \/ blen = 3 * k))
  BY DEF hexstring_n2a
<1> HIDE DEF k, d, x
<1>4. x.grupos \in Seq(S) /\ Len(x.grupos) = k /\ \A n \in 1 .. k : x.grupos[n] = str[n]
  <2>1. str \in Seq(S)
    BY DEF S
  <2> HIDE DEF S
  <2> QED BY <1>2, <1>3, <2>1
<1>5. IsPrefix(x.grupos, str)
  BY <1>2, <1>3, <1>4 DEF IsPrefix
<1>6. 3 * Len(str) <= blen => x.grupos = str
  BY <1>2, <1>4
<1>8. x.grupos = str /\ str # <<>> => x.fin
  <2>1. x.grupos = str => k = Len(str)
    BY <1>4
  <2>2. str # <<>> => Len(str) > 0
    OBVIOUS
  <2> QED BY <1>2, <1>3, <2>1, <2>2
<1>7. y = [n \in 1 .. largo |-> IF n <= Len(x.grupos) THEN str[n] ELSE 0]
  <2> DEFINE g == x.grupos
             acc == [n \in DOMAIN g |-> g[n] % d]
  <2>1. y = IF \E n \in DOMAIN acc : acc[n] > m THEN <<>>
            ELSE [n \in 1 .. largo |-> IF n <= Len(acc) THEN acc[n] ELSE 0]
    BY Zenon DEF hexstring_a2n, d
  <2>2. g \in Seq(S) /\ Len(g) = k /\ DOMAIN g = 1 .. k
    BY <1>2, <1>4
  <2> HIDE DEF y, g, m, S
  <2>3. ASSUME NEW n \in 1 .. k PROVE acc[n] = g[n] /\ g[n] \in 0 .. m
    <3>1. g[n] \in 0 .. m
      <4>1. g[n] \in S
        BY <2>2
      <4> QED BY <4>1 DEF S
    <3>2. g[n] % d = g[n]
      BY <1>1, <3>1, Restos
    <3> QED BY <2>2, <3>1, <3>2
  <2>4. acc = g
    BY <2>2, <2>3
  <2> HIDE DEF acc
  <2>5. ~(\E n \in DOMAIN acc : acc[n] > m)
    BY <1>1, <2>2, <2>3, <2>4
  <2>6. y = [n \in 1 .. largo |-> IF n <= Len(g) THEN g[n] ELSE 0]
    BY <2>1, <2>4, <2>5
  <2>7. \A n \in 1 .. largo : n <= Len(g) => g[n] = str[n]
    BY <1>2, <1>4, <2>2 DEF g
  <2> QED BY <2>6, <2>7 DEF g
<1> QED BY <1>5, <1>6, <1>7, <1>8 DEF HexIdaYVuelta, x, y

\* For every string of bytes, buffer and length: a text that has an end is read
\* back as the bytes that fitted, and it has one whenever all of them did.  For
\* every type: its name is read as it, but for the "none" of type 0, and an
\* abbreviation is only taken for a name that it begins (ip_functions.c:585-654,
\* UTILS.c:473-528).
THEOREM RoundTrip == VueltaBien /\ (Spec => []IdaYVuelta)
<1>1. VueltaBien
  BY UtilsAssumption, TiposIdaYVuelta, HexLeido DEF VueltaBien
<1>2. IdaYVuelta
  BY <1>1 DEF IdaYVuelta
<1> QED BY <1>1, <1>2, PTL
=============================================================================
