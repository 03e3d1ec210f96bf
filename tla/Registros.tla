----------------------------- MODULE Registros -----------------------------
(***************************************************************************)
(* The record sender (cttc-exercici/exercici1/exercici1.c): it reads a     *)
(* file of lines with an identifier and its attributes into a hash table,  *)
(* and then sends each record in a datagram.  The file may grow while it   *)
(* is read, a reading may fail, and so may a send.                         *)
(***************************************************************************)
EXTENDS Naturals, Sequences, FiniteSets

CONSTANTS
  Mitad,            \* half of the values of an unsigned identifier (2^31)
  Ids, Valores,     \* those of the records; the two attributes, as atoi reads
                    \*   them, are one value
  MaxLineas,        \* lines of the file
  MaxDescriptores   \* descriptors the process may have open

ASSUME RegistrosAssumption ==
  /\ Mitad \in Nat \ {0} /\ Ids \subseteq 0 .. 2 * Mitad - 1
  /\ MaxLineas \in Nat /\ MaxDescriptores \in Nat

\* A line with fewer than three fields is FALSE.
Linea == [completa : BOOLEAN, id : Ids, val : Valores]

\* atoi of the build, 32 bits and signed: a larger number gives the largest.
Tope == Mitad - 1
atoi(n) == IF n <= Tope THEN n ELSE Tope

VARIABLES
  fichero,   \* lines not read yet
  leidas,    \* history: lines put in the table, in order
  perdidas,  \* history: lines read by the second reading
  malas,     \* history: a reading has failed
  tabla,     \* the hash table
  pc,        \* "lee", "relee", "envia", "fin", or "muerto"
  quedan,    \* keys g_hash_table_foreach has to visit
  enviados,  \* datagrams sent, in order
  sinRuta,   \* keys whose sendto failed
  sinSocket, \* keys whose socket failed
  abiertos   \* descriptors open

entrada == << fichero, leidas, perdidas, malas, tabla >>
salida == << quedan, enviados, sinRuta, sinSocket, abiertos >>
vars == << entrada, pc, salida >>

Total == Len(fichero) + Len(leidas) + Len(perdidas)

Init ==
  /\ fichero = <<>> /\ leidas = <<>> /\ perdidas = <<>> /\ malas = FALSE
  /\ tabla = [k \in {} |-> 0]
  /\ pc = "lee"
  /\ quedan = {} /\ enviados = <<>> /\ sinRuta = {} /\ sinSocket = {} /\ abiertos = 0
----------------------------------------------------------------------------
\* Whoever writes the file adds a line, before or while it is read.
Crece ==
  /\ pc \in {"lee", "relee"} /\ Total < MaxLineas
  /\ \E l \in Linea : fichero' = Append(fichero, l)
  /\ UNCHANGED << leidas, perdidas, malas, tabla, pc, salida >>

\* Mutant: a key that is in the table keeps its value.
InsertaNueva(k, v) ==
  tabla' = [c \in DOMAIN tabla \cup {k} |-> IF c \in DOMAIN tabla THEN tabla[c] ELSE v]

\* g_hash_table_insert: a key already there gets the new value.
Inserta(k, v) ==
  tabla' = [c \in DOMAIN tabla \cup {k} |-> IF c = k THEN v ELSE tabla[c]]

\* The reading at the head of the loop.  A line with a field missing makes
\* atoi read from a null pointer.
Lee ==
  /\ pc = "lee"
  /\ \/ /\ fichero # <<>>
        /\ fichero' = Tail(fichero)
        /\ IF Head(fichero).completa
             THEN /\ Inserta(atoi(Head(fichero).id), Head(fichero).val)
                  /\ leidas' = Append(leidas, Head(fichero))
                  /\ pc' = "lee"
             ELSE pc' = "muerto" /\ UNCHANGED << tabla, leidas >>
        /\ UNCHANGED malas
     \/ /\ fichero = <<>>
        /\ pc' = "relee"
        /\ UNCHANGED << fichero, tabla, leidas, malas >>
     \/ /\ malas' = TRUE /\ pc' = "relee"
        /\ UNCHANGED << fichero, tabla, leidas >>
  /\ UNCHANGED << perdidas, salida >>

\* Mutant: after an error the loop goes on.
ReleeSigue ==
  /\ pc = "relee"
  /\ \/ /\ fichero # <<>>
        /\ fichero' = Tail(fichero) /\ perdidas' = Append(perdidas, Head(fichero))
        /\ pc' = "lee"
        /\ UNCHANGED << malas, quedan >>
     \/ /\ fichero = <<>> \/ malas
        /\ pc' = "envia" /\ quedan' = DOMAIN tabla
        /\ UNCHANGED << fichero, perdidas, malas >>
  /\ UNCHANGED << leidas, tabla, enviados, sinRuta, sinSocket, abiertos >>

\* The reading of the else branch, made to see whether it was the end of the
\* file: whatever it gives the loop ends, and read_file returns TRUE.
Relee ==
  /\ pc = "relee"
  /\ \/ /\ fichero # <<>>
        /\ fichero' = Tail(fichero) /\ perdidas' = Append(perdidas, Head(fichero))
        /\ UNCHANGED malas
     \/ /\ fichero = <<>>
        /\ UNCHANGED << fichero, perdidas, malas >>
     \/ /\ malas' = TRUE
        /\ UNCHANGED << fichero, perdidas >>
  /\ pc' = "envia" /\ quedan' = DOMAIN tabla
  /\ UNCHANGED << leidas, tabla, enviados, sinRuta, sinSocket, abiertos >>

\* Mutant: the socket is never closed.
EnviadoSinCerrar(k) ==
  /\ enviados' = Append(enviados, [id |-> k, val |-> tabla[k]])
  /\ abiertos' = abiertos + 1
  /\ UNCHANGED << sinRuta, sinSocket >>

\* sendto gave no error: the socket is closed.
Enviado(k) ==
  /\ enviados' = Append(enviados, [id |-> k, val |-> tabla[k]])
  /\ UNCHANGED << sinRuta, sinSocket, abiertos >>

\* sendto failed: send_UDP returns before it closes the socket.
NoEnviado(k) ==
  /\ sinRuta' = sinRuta \cup {k}
  /\ abiertos' = abiertos + 1
  /\ UNCHANGED << enviados, sinSocket >>

\* send_UDP, for an entry of the table; the order is that of the hash.
Envia ==
  /\ pc = "envia"
  /\ \E k \in quedan :
       /\ quedan' = quedan \ {k}
       /\ IF abiertos = MaxDescriptores
            THEN /\ sinSocket' = sinSocket \cup {k}
                 /\ UNCHANGED << enviados, sinRuta, abiertos >>
            ELSE Enviado(k) \/ NoEnviado(k)
  /\ UNCHANGED << entrada, pc >>

\* The entries are freed and the table destroyed.
Libera ==
  /\ pc = "envia" /\ quedan = {}
  /\ pc' = "fin" /\ tabla' = [k \in {} |-> 0]
  /\ UNCHANGED << fichero, leidas, perdidas, malas, salida >>

Next == Crece \/ Lee \/ Relee \/ Envia \/ Libera

Spec == Init /\ [][Next]_vars
----------------------------------------------------------------------------
Mandados == {enviados[i] : i \in DOMAIN enviados}
Claves == {atoi(leidas[i].id) : i \in DOMAIN leidas}

TypeOK ==
  /\ fichero \in Seq(Linea) /\ leidas \in Seq(Linea) /\ perdidas \in Seq(Linea)
  /\ malas \in BOOLEAN
  /\ pc \in {"lee", "relee", "envia", "fin", "muerto"}
  /\ DOMAIN tabla \subseteq Claves
  /\ quedan \subseteq Claves /\ sinRuta \subseteq Claves /\ sinSocket \subseteq Claves
  /\ enviados \in Seq([id : Claves, val : Valores])
  /\ abiertos \in 0 .. MaxDescriptores

\* The last line read with an identifier in N has value v.
UltimaEs(N, v) ==
  \E i \in DOMAIN leidas :
    /\ leidas[i].id \in N /\ leidas[i].val = v
    /\ \A j \in DOMAIN leidas : j > i => leidas[j].id \notin N

\* The identifiers sent as k.
SeEnvianComo(k) == IF k < Tope THEN {k} ELSE {n \in Ids : n >= Tope}

\* A datagram carries the attributes of the last line read with its identifier,
\* however many repeat it, and no identifier is sent twice (exercici1.c:106,
\* 182-188).  The identifiers from the largest signed integer on share one
\* datagram, with that integer and the attributes of the last of all of them.
EnviaLaUltima ==
  /\ \A d \in Mandados : UltimaEs(SeEnvianComo(d.id), d.val)
  /\ \A i, j \in DOMAIN enviados : enviados[i].id = enviados[j].id => i = j

\* "para cada registro enviar un datagrama UDP ... conteniendo el identificador
\* de registro" (exercici1.c:18-20), an unsigned integer of 32 bits (12-13,
\* 104-106): when the program ends and nothing failed each line read has one.
CadaIdSuDatagrama ==
  pc = "fin" /\ sinRuta \cup sinSocket = {} =>
    \A i \in DOMAIN leidas : \E d \in Mandados : d.id = leidas[i].id

\* When the program ends every line that was in the file has had its datagram,
\* if its identifier is one a signed integer holds; but for lines left by a
\* reading that failed or added at the very end, of which the second reading
\* takes at most one (exercici1.c:110-119), and for the records whose send, or
\* socket, failed.
TodoSeEnvia ==
  pc = "fin" =>
    /\ \A i \in DOMAIN leidas : leidas[i].id <= Tope =>
         \/ \E d \in Mandados : d.id = leidas[i].id
         \/ leidas[i].id \in sinRuta \cup sinSocket
    /\ Len(perdidas) <= 1
    /\ ~ malas /\ perdidas = <<>> => fichero = <<>>

\* Each failed send leaves a descriptor open, and nothing else does: a record
\* gets no socket only after as many sends as the limit have failed
\* (exercici1.c:171).
Descriptores ==
  /\ abiertos = Cardinality(sinRuta)
  /\ sinSocket # {} => abiertos = MaxDescriptores
============================================================================
