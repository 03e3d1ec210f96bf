--------------------------- MODULE RegistrosProofs -------------------------
(***************************************************************************)
(* Theorems about Registros for every file, limit of descriptors and range *)
(* of the identifiers.                                                     *)
(***************************************************************************)
EXTENDS Registros, FiniteSetTheorems, TLAPS

(***************************************************************************)
(* The invariant.  While the file is read the table has the keys of the    *)
(* lines read, each with the attributes of its last line, and nothing has  *)
(* been sent; then each key is in exactly one place: still to be visited,  *)
(* sent, or failed in one of the two ways.                                 *)
(***************************************************************************)

Idos == {enviados[i].id : i \in DOMAIN enviados}

\* The last line read with key k has value v.
UltimaDe(k, v) ==
  \E i \in DOMAIN leidas :
    /\ atoi(leidas[i].id) = k /\ leidas[i].val = v
    /\ \A j \in DOMAIN leidas : j > i => atoi(leidas[j].id) # k

\* One datagram for each key, with its last line's attributes.
Ultimas ==
  /\ \A d \in Mandados : UltimaDe(d.id, d.val)
  /\ \A i, j \in DOMAIN enviados : enviados[i].id = enviados[j].id => i = j

Tipos ==
  /\ fichero \in Seq(Linea) /\ leidas \in Seq(Linea) /\ perdidas \in Seq(Linea)
  /\ enviados \in Seq([id : Claves, val : Valores])
  /\ pc \in {"lee", "relee", "envia", "fin", "muerto"}
  /\ abiertos \in 0 .. MaxDescriptores

SinEnviar ==
  pc \in {"lee", "relee", "muerto"} =>
    /\ quedan = {} /\ enviados = <<>> /\ sinRuta = {} /\ sinSocket = {}
    /\ abiertos = 0 /\ perdidas = <<>>

TablaFiel ==
  /\ pc # "fin" => DOMAIN tabla = Claves /\ \A k \in Claves : UltimaDe(k, tabla[k])
  /\ pc = "fin" => DOMAIN tabla = {}

Reparto ==
  /\ pc \in {"envia", "fin"} =>
       /\ Claves = quedan \cup Idos \cup sinRuta \cup sinSocket
       /\ Len(perdidas) <= 1
       /\ ~ malas /\ perdidas = <<>> => fichero = <<>>
  /\ quedan \cap (Idos \cup sinRuta \cup sinSocket) = {}
  /\ pc = "fin" => quedan = {}

Cuentas ==
  /\ IsFiniteSet(sinRuta) /\ abiertos = Cardinality(sinRuta)
  /\ sinSocket # {} => abiertos = MaxDescriptores

IInv == Tipos /\ SinEnviar /\ TablaFiel /\ Reparto /\ Ultimas /\ Cuentas
----------------------------------------------------------------------------
LEMMA InitInv == Init => IInv
<1> SUFFICES ASSUME Init
             PROVE  IInv
  OBVIOUS
<1> USE DEF Init
<1>1. Tipos
  BY RegistrosAssumption DEF Tipos
<1>2. SinEnviar
  BY DEF SinEnviar
<1>3. Claves = {} /\ Idos = {}
  BY DEF Claves, Idos
<1>4. TablaFiel
  BY <1>3 DEF TablaFiel
<1>5. Reparto
  BY <1>3 DEF Reparto
<1>6. Ultimas
  BY DEF Ultimas, Mandados
<1>7. Cuentas
  BY FS_EmptySet DEF Cuentas
<1> QED
  BY <1>1, <1>2, <1>4, <1>5, <1>6, <1>7 DEF IInv

\* A step that leaves the lines read alone leaves their keys and last lines.
LEMMA LeidasIguales ==
  ASSUME leidas' = leidas
  PROVE  Claves' = Claves /\ \A k, v : UltimaDe(k, v)' <=> UltimaDe(k, v)
BY DEF Claves, UltimaDe, atoi, Tope

LEMMA CreceInv == IInv /\ Crece => IInv'
<1> SUFFICES ASSUME IInv, Crece
             PROVE  IInv'
  OBVIOUS
<1> USE DEF IInv, Crece, entrada, salida
<1>0. fichero' \in Seq(Linea)
  BY DEF Tipos, Linea
<1>1. Claves' = Claves /\ Idos' = Idos /\ \A k, v : UltimaDe(k, v)' <=> UltimaDe(k, v)
  BY LeidasIguales DEF Idos
<1>2. Tipos'
  BY <1>0, <1>1 DEF Tipos
<1>3. SinEnviar' /\ Cuentas'
  BY DEF SinEnviar, Cuentas
<1>4. TablaFiel'
  BY <1>1 DEF TablaFiel
<1>5. Reparto'
  BY <1>1 DEF Reparto
<1>6. Ultimas'
  BY <1>1 DEF Ultimas, Mandados, SinEnviar
<1> QED
  BY <1>2, <1>3, <1>4, <1>5, <1>6

\* A line put in the table: its key is the last of its lines from now on, and
\* those of the other keys stay.
LEMMA LineaNueva ==
  ASSUME leidas \in Seq(Linea), NEW l \in Linea, leidas' = Append(leidas, l),
         DOMAIN tabla = Claves, \A k \in Claves : UltimaDe(k, tabla[k]),
         Inserta(atoi(l.id), l.val)
  PROVE  /\ Claves' = Claves \cup {atoi(l.id)} /\ DOMAIN tabla' = Claves'
         /\ \A k \in Claves' : UltimaDe(k, tabla[k])'
<1>1. /\ Len(leidas) \in Nat /\ DOMAIN leidas = 1 .. Len(leidas)
      /\ DOMAIN leidas' = 1 .. Len(leidas) + 1
      /\ leidas'[Len(leidas) + 1] = l
      /\ \A i \in 1 .. Len(leidas) : leidas'[i] = leidas[i]
  OBVIOUS
<1>2. Claves' = Claves \cup {atoi(l.id)}
  BY <1>1 DEF Claves, atoi, Tope
<1>3. /\ DOMAIN tabla' = Claves'
      /\ tabla'[atoi(l.id)] = l.val
      /\ \A k \in Claves : k # atoi(l.id) => tabla'[k] = tabla[k]
  <2> DEFINE n == atoi(l.id)
  <2>1. tabla' = [c \in Claves \cup {n} |-> IF c = n THEN l.val ELSE tabla[c]]
    BY DEF Inserta
  <2> HIDE DEF n
  <2>2. /\ DOMAIN tabla' = Claves \cup {n} /\ tabla'[n] = l.val
        /\ \A k \in Claves : k # n => tabla'[k] = tabla[k]
    BY <2>1
  <2> QED
    BY <1>2, <2>2 DEF n
<1>4. UltimaDe(atoi(l.id), l.val)'
  BY <1>1 DEF UltimaDe, atoi, Tope
<1>5. ASSUME NEW k \in Claves, k # atoi(l.id)
      PROVE  UltimaDe(k, tabla[k])'
  <2>1. PICK i \in DOMAIN leidas :
          /\ atoi(leidas[i].id) = k /\ leidas[i].val = tabla[k]
          /\ \A j \in DOMAIN leidas : j > i => atoi(leidas[j].id) # k
    BY DEF UltimaDe
  <2> QED
    BY <1>1, <1>3, <1>5, <2>1 DEF UltimaDe, atoi, Tope
<1>6. ASSUME NEW k \in Claves'
      PROVE  UltimaDe(k, tabla[k])'
  <2>1. CASE k = atoi(l.id)
    BY <1>3, <1>4, <2>1 DEF UltimaDe
  <2>2. CASE k # atoi(l.id)
    BY <1>2, <1>5, <2>2
  <2> QED
    BY <2>1, <2>2
<1> QED
  BY <1>2, <1>3, <1>6

\* What is left of the file, and its first line.
LEMMA CabezaCola ==
  ASSUME fichero \in Seq(Linea), fichero # <<>>
  PROVE  Head(fichero) \in Linea /\ Tail(fichero) \in Seq(Linea)
OBVIOUS

LEMMA LeeInv == IInv /\ Lee => IInv'
<1> SUFFICES ASSUME IInv, Lee
             PROVE  IInv'
  OBVIOUS
<1> USE DEF IInv
<1>1. /\ quedan = {} /\ enviados = <<>> /\ sinRuta = {} /\ sinSocket = {} /\ abiertos = 0
      /\ perdidas = <<>> /\ UNCHANGED << perdidas, salida >>
      /\ pc' \in {"lee", "relee", "muerto"}
  BY DEF Lee, SinEnviar
<1> USE DEF salida
<1>2. SinEnviar' /\ Reparto' /\ Idos' = {}
  BY <1>1 DEF SinEnviar, Reparto, Idos
<1>3. Ultimas'
  BY <1>1 DEF Ultimas, Mandados
<1>4. Cuentas'
  BY <1>1 DEF Cuentas
<1>5. CASE leidas' = leidas /\ tabla' = tabla
  <2>1. fichero' \in Seq(Linea)
    BY CabezaCola DEF Lee, Tipos
  <2>2. Claves' = Claves /\ \A k, v : UltimaDe(k, v)' <=> UltimaDe(k, v)
    BY <1>5, LeidasIguales
  <2>3. Tipos'
    BY <1>1, <1>5, <2>1, <2>2 DEF Tipos
  <2>4. TablaFiel'
    BY <1>1, <1>5, <2>2 DEF TablaFiel, Lee
  <2> QED
    BY <1>2, <1>3, <1>4, <2>3, <2>4
<1>6. CASE ~ (leidas' = leidas /\ tabla' = tabla)
  <2>1. PICK l \in Linea :
          /\ fichero # <<>> /\ l = Head(fichero) /\ fichero' = Tail(fichero)
          /\ Inserta(atoi(l.id), l.val) /\ leidas' = Append(leidas, l)
    BY <1>6, CabezaCola DEF Lee, Tipos
  <2>2. fichero' \in Seq(Linea) /\ leidas' \in Seq(Linea)
    BY <2>1 DEF Tipos
  <2>3. /\ Claves' = Claves \cup {atoi(l.id)} /\ DOMAIN tabla' = Claves'
        /\ \A k \in Claves' : UltimaDe(k, tabla[k])'
    <3>1. /\ leidas \in Seq(Linea) /\ DOMAIN tabla = Claves
          /\ \A k \in Claves : UltimaDe(k, tabla[k])
      BY DEF Tipos, TablaFiel, Lee
    <3> HIDE DEF IInv
    <3> QED
      BY <2>1, <3>1, LineaNueva
  <2>4. Tipos'
    BY <1>1, <2>2 DEF Tipos
  <2>5. TablaFiel'
    BY <1>1, <2>3 DEF TablaFiel
  <2> QED
    BY <1>2, <1>3, <1>4, <2>4, <2>5
<1> QED
  BY <1>5, <1>6

LEMMA ReleeInv == IInv /\ Relee => IInv'
<1> SUFFICES ASSUME IInv, Relee
             PROVE  IInv'
  OBVIOUS
<1> USE DEF IInv, Relee
<1>1. /\ quedan = {} /\ enviados = <<>> /\ sinRuta = {} /\ sinSocket = {} /\ abiertos = 0
      /\ perdidas = <<>> /\ Idos = {} /\ Idos' = {} /\ pc' = "envia"
  BY DEF SinEnviar, Idos
<1>2. /\ Claves' = Claves /\ DOMAIN tabla = Claves /\ quedan' = Claves
      /\ \A k, v : UltimaDe(k, v)' <=> UltimaDe(k, v)
  BY LeidasIguales DEF TablaFiel
<1>3. /\ fichero' \in Seq(Linea) /\ perdidas' \in Seq(Linea)
      /\ Len(perdidas') <= 1 /\ (~ malas' /\ perdidas' = <<>> => fichero' = <<>>)
  <2>1. CASE fichero # <<>> /\ fichero' = Tail(fichero) /\ perdidas' = Append(perdidas, Head(fichero))
    <3>1. Append(<<>>, Head(fichero)) \in Seq(Linea) /\ Len(Append(<<>>, Head(fichero))) = 1
      BY <2>1, CabezaCola DEF Tipos
    <3> QED
      BY <1>1, <2>1, <3>1, CabezaCola DEF Tipos
  <2>2. CASE fichero' = fichero /\ perdidas' = perdidas
    BY <1>1, <2>2 DEF Tipos
  <2> QED
    BY <2>1, <2>2
<1>4. Tipos'
  BY <1>1, <1>2, <1>3 DEF Tipos
<1>5. SinEnviar' /\ Cuentas'
  BY <1>1 DEF SinEnviar, Cuentas
<1>6. TablaFiel'
  BY <1>2 DEF TablaFiel
<1>7. Reparto'
  BY <1>1, <1>2, <1>3 DEF Reparto
<1>8. Ultimas'
  BY <1>1 DEF Ultimas, Mandados
<1> QED
  BY <1>4, <1>5, <1>6, <1>7, <1>8

\* One more datagram: its key joins those sent.
LEMMA UnoMas ==
  ASSUME NEW k \in Claves, enviados \in Seq([id : Claves, val : Valores]),
         tabla[k] \in Valores, Enviado(k), Claves' = Claves
  PROVE  /\ enviados' \in Seq([id : Claves, val : Valores])
         /\ Idos' = Idos \cup {k}
         /\ Mandados' = Mandados \cup {[id |-> k, val |-> tabla[k]]}
         /\ DOMAIN enviados' = 1 .. Len(enviados) + 1
         /\ enviados'[Len(enviados) + 1].id = k
         /\ \A i \in 1 .. Len(enviados) : enviados'[i] = enviados[i]
<1> DEFINE d == [id |-> k, val |-> tabla[k]]
<1>1. enviados' = Append(enviados, d) /\ d \in [id : Claves, val : Valores] /\ d.id = k
  BY DEF Enviado
<1> HIDE DEF d
<1>2. /\ enviados' \in Seq([id : Claves, val : Valores])
      /\ DOMAIN enviados' = 1 .. Len(enviados) + 1
      /\ DOMAIN enviados = 1 .. Len(enviados) /\ Len(enviados) \in Nat
      /\ enviados'[Len(enviados) + 1] = d
      /\ \A i \in 1 .. Len(enviados) : enviados'[i] = enviados[i]
  BY <1>1
<1>3. Idos' = Idos \cup {k}
  BY <1>1, <1>2 DEF Idos
<1>4. Mandados' = Mandados \cup {d}
  BY <1>1, <1>2 DEF Mandados
<1> QED
  BY <1>1, <1>2, <1>3, <1>4 DEF d

LEMMA EnviaInv == IInv /\ Envia => IInv'
<1> SUFFICES ASSUME IInv, Envia
             PROVE  IInv'
  OBVIOUS
<1> USE DEF IInv
<1>1. PICK k \in quedan :
        /\ pc = "envia" /\ quedan' = quedan \ {k} /\ UNCHANGED << entrada, pc >>
        /\ \/ /\ abiertos = MaxDescriptores /\ sinSocket' = sinSocket \cup {k}
              /\ UNCHANGED << enviados, sinRuta, abiertos >>
           \/ abiertos # MaxDescriptores /\ (Enviado(k) \/ NoEnviado(k))
  BY DEF Envia
<1> USE DEF entrada
<1>2. /\ Claves = quedan \cup Idos \cup sinRuta \cup sinSocket
      /\ quedan \cap (Idos \cup sinRuta \cup sinSocket) = {}
      /\ Len(perdidas) <= 1 /\ (~ malas /\ perdidas = <<>> => fichero = <<>>)
  BY <1>1 DEF Reparto
<1>3. k \in Claves /\ k \notin Idos /\ k \notin sinRuta
  BY <1>2
<1>4. UltimaDe(k, tabla[k]) /\ tabla[k] \in Valores
  <2>1. UltimaDe(k, tabla[k])
    BY <1>1, <1>3 DEF TablaFiel
  <2>2. PICK i \in DOMAIN leidas : leidas[i].val = tabla[k]
    BY <2>1 DEF UltimaDe
  <2>3. leidas[i] \in Linea
    BY <2>2 DEF Tipos
  <2> QED
    BY <2>1, <2>2, <2>3 DEF Linea
<1>5. Claves' = Claves /\ \A c, v : UltimaDe(c, v)' <=> UltimaDe(c, v)
  BY <1>1, LeidasIguales
<1>6. TablaFiel' /\ SinEnviar'
  BY <1>1, <1>5 DEF TablaFiel, SinEnviar
<1>7. CASE abiertos = MaxDescriptores /\ UNCHANGED << enviados, sinRuta, abiertos >>
             /\ sinSocket' = sinSocket \cup {k}
  <2>1. Idos' = Idos /\ Mandados' = Mandados
    BY <1>7 DEF Idos, Mandados
  <2>2. Tipos'
    BY <1>1, <1>5, <1>7 DEF Tipos
  <2>3. Reparto'
    BY <1>1, <1>2, <1>3, <1>5, <1>7, <2>1 DEF Reparto
  <2>4. Ultimas'
    BY <1>5, <1>7, <2>1 DEF Ultimas
  <2>5. Cuentas'
    BY <1>7 DEF Cuentas
  <2> QED
    BY <1>6, <2>2, <2>3, <2>4, <2>5
<1>8. CASE abiertos # MaxDescriptores /\ Enviado(k)
  <2>0. enviados \in Seq([id : Claves, val : Valores]) /\ Len(enviados) \in Nat
        /\ DOMAIN enviados = 1 .. Len(enviados)
    BY DEF Tipos
  <2>1. /\ enviados' \in Seq([id : Claves, val : Valores])
        /\ Idos' = Idos \cup {k}
        /\ Mandados' = Mandados \cup {[id |-> k, val |-> tabla[k]]}
        /\ DOMAIN enviados' = 1 .. Len(enviados) + 1
        /\ enviados'[Len(enviados) + 1].id = k
        /\ \A i \in 1 .. Len(enviados) : enviados'[i] = enviados[i]
    BY <1>3, <1>4, <1>5, <1>8, <2>0, UnoMas
  <2>2. UNCHANGED << sinRuta, sinSocket, abiertos >>
    BY <1>8 DEF Enviado
  <2>3. Tipos'
    BY <1>1, <1>5, <2>1, <2>2 DEF Tipos
  <2>4. Reparto'
    BY <1>1, <1>2, <1>3, <1>5, <2>1, <2>2 DEF Reparto
  <2>5. \A d \in Mandados' : UltimaDe(d.id, d.val)'
    BY <1>4, <1>5, <2>1 DEF Ultimas
  <2>6. ASSUME NEW i \in DOMAIN enviados', NEW j \in DOMAIN enviados',
               enviados'[i].id = enviados'[j].id
        PROVE  i = j
    <3>1. \A n \in 1 .. Len(enviados) : enviados[n].id \in Idos
      BY <2>0 DEF Idos
    <3>2. CASE i \in 1 .. Len(enviados) /\ j \in 1 .. Len(enviados)
      BY <2>0, <2>1, <2>6, <3>2 DEF Ultimas
    <3>3. CASE ~ (i \in 1 .. Len(enviados) /\ j \in 1 .. Len(enviados))
      BY <1>3, <2>0, <2>1, <2>6, <3>1, <3>3
    <3> QED
      BY <3>2, <3>3
  <2>7. Ultimas'
    BY <2>5, <2>6 DEF Ultimas
  <2>8. Cuentas'
    BY <2>2 DEF Cuentas
  <2> QED
    BY <1>6, <2>3, <2>4, <2>7, <2>8
<1>9. CASE abiertos # MaxDescriptores /\ NoEnviado(k)
  <2> USE <1>9 DEF NoEnviado
  <2>1. Idos' = Idos /\ Mandados' = Mandados
    BY DEF Idos, Mandados
  <2>2. abiertos' \in 0 .. MaxDescriptores
    BY RegistrosAssumption DEF Tipos
  <2>3. Tipos'
    BY <1>1, <1>5, <2>2 DEF Tipos
  <2>4. Reparto'
    BY <1>1, <1>2, <1>3, <1>5, <2>1 DEF Reparto
  <2>5. Ultimas'
    BY <1>5, <2>1 DEF Ultimas
  <2>6. IsFiniteSet(sinRuta') /\ Cardinality(sinRuta') = Cardinality(sinRuta) + 1
    BY <1>3, FS_AddElement DEF Cuentas
  <2>7. Cuentas'
    BY <2>6 DEF Cuentas
  <2> QED
    BY <1>6, <2>3, <2>4, <2>5, <2>7
<1> QED
  BY <1>1, <1>7, <1>8, <1>9

LEMMA LiberaInv == IInv /\ (Libera \/ UNCHANGED vars) => IInv'
<1> SUFFICES ASSUME IInv, Libera \/ UNCHANGED vars
             PROVE  IInv'
  OBVIOUS
<1> USE DEF IInv, Libera, vars, entrada, salida
<1>1. Claves' = Claves /\ \A k, v : UltimaDe(k, v)' <=> UltimaDe(k, v)
  BY LeidasIguales
<1>2. Idos' = Idos /\ Mandados' = Mandados
  BY DEF Idos, Mandados
<1>3. Tipos'
  BY <1>1 DEF Tipos
<1>4. SinEnviar' /\ Cuentas'
  BY DEF SinEnviar, Cuentas
<1>5. TablaFiel'
  BY <1>1 DEF TablaFiel
<1>6. Reparto'
  BY <1>1, <1>2 DEF Reparto
<1>7. Ultimas'
  BY <1>1, <1>2 DEF Ultimas
<1> QED
  BY <1>3, <1>4, <1>5, <1>6, <1>7

LEMMA Invariante == Spec => []IInv
<1>1. IInv /\ [Next]_vars => IInv'
  BY CreceInv, LeeInv, ReleeInv, EnviaInv, LiberaInv DEF Next
<1> QED
  BY <1>1, InitInv, PTL DEF Spec
----------------------------------------------------------------------------
\* The file, the table, the keys still to visit, those that failed and the
\* descriptors keep their types (exercici1.c:85-201).
THEOREM TypeCorrect == Spec => []TypeOK
<1>1. malas \in BOOLEAN /\ [Next]_vars => (malas \in BOOLEAN)'
  <2>1. [Next]_vars => malas' = malas \/ malas' = TRUE
    BY DEF Next, Crece, Lee, Relee, Envia, Libera, vars, entrada
  <2> QED
    BY <2>1, Zenon
<1>2. Init => malas \in BOOLEAN
  BY DEF Init
<1>3. IInv /\ malas \in BOOLEAN => TypeOK
  <2> SUFFICES ASSUME IInv
               PROVE  /\ DOMAIN tabla \subseteq Claves
                      /\ quedan \subseteq Claves /\ sinRuta \subseteq Claves /\ sinSocket \subseteq Claves
    BY DEF TypeOK, IInv, Tipos
  <2>1. DOMAIN tabla \subseteq Claves
    BY DEF IInv, TablaFiel
  <2>2. quedan \subseteq Claves /\ sinRuta \subseteq Claves /\ sinSocket \subseteq Claves
    BY DEF IInv, Tipos, SinEnviar, Reparto
  <2> QED
    BY <2>1, <2>2
<1> QED
  BY <1>1, <1>2, <1>3, Invariante, PTL DEF Spec

\* The keys are the identifiers that a signed integer holds, and the largest for
\* the rest.
LEMMA ClaveDe ==
  ASSUME NEW n \in Ids, NEW k \in {atoi(m) : m \in Ids}
  PROVE  atoi(n) = k <=> n \in SeEnvianComo(k)
BY RegistrosAssumption DEF atoi, Tope, SeEnvianComo

\* For every file: a datagram has the attributes of the last line read with its
\* identifier, and no identifier two datagrams; the identifiers from the largest
\* signed integer on are one (exercici1.c:106, 182-188).
THEOREM UltimaEnviada == Spec => []EnviaLaUltima
<1>1. ASSUME IInv, NEW d \in Mandados
      PROVE  UltimaEs(SeEnvianComo(d.id), d.val)
  <2>1. PICK i \in DOMAIN leidas :
          /\ atoi(leidas[i].id) = d.id /\ leidas[i].val = d.val
          /\ \A j \in DOMAIN leidas : j > i => atoi(leidas[j].id) # d.id
    BY <1>1 DEF IInv, Ultimas, UltimaDe
  <2>2. \A j \in DOMAIN leidas : leidas[j].id \in Ids
    <3>1. leidas \in Seq(Linea)
      BY <1>1 DEF IInv, Tipos
    <3>2. \A j \in DOMAIN leidas : leidas[j] \in Linea
      BY <3>1
    <3> QED
      BY <3>2 DEF Linea
  <2>3. \A j \in DOMAIN leidas : atoi(leidas[j].id) = d.id <=> leidas[j].id \in SeEnvianComo(d.id)
    BY <2>1, <2>2, ClaveDe
  <2> QED
    BY <2>1, <2>3 DEF UltimaEs
<1>2. IInv => EnviaLaUltima
  BY <1>1 DEF IInv, Ultimas, EnviaLaUltima
<1> QED
  BY <1>2, Invariante, PTL

\* At the end every line read whose identifier a signed integer holds has been
\* sent, or its send or its socket failed (exercici1.c:85-188).
THEOREM Completa == Spec => []TodoSeEnvia
<1>1. IInv => TodoSeEnvia
  <2> SUFFICES ASSUME IInv, pc = "fin"
               PROVE  /\ \A i \in DOMAIN leidas : leidas[i].id <= Tope =>
                           \/ \E d \in Mandados : d.id = leidas[i].id
                           \/ leidas[i].id \in sinRuta \cup sinSocket
                      /\ Len(perdidas) <= 1
                      /\ ~ malas /\ perdidas = <<>> => fichero = <<>>
    BY DEF TodoSeEnvia
  <2>1. Claves = Idos \cup sinRuta \cup sinSocket
    BY DEF IInv, Reparto
  <2>2. ASSUME NEW i \in DOMAIN leidas, leidas[i].id <= Tope
        PROVE  leidas[i].id \in Claves
    BY <2>2 DEF Claves, atoi
  <2>3. \A k \in Idos : \E d \in Mandados : d.id = k
    BY DEF Idos, Mandados
  <2>4. /\ Len(perdidas) <= 1
        /\ ~ malas /\ perdidas = <<>> => fichero = <<>>
    BY DEF IInv, Reparto
  <2> QED
    BY <2>1, <2>2, <2>3, <2>4
<1> QED
  BY <1>1, Invariante, PTL

\* The descriptors open are those of the sends that failed (exercici1.c:171).
THEOREM Cerrados == Spec => []Descriptores
<1>1. IInv => Descriptores
  BY DEF IInv, Cuentas, Descriptores
<1> QED
  BY <1>1, Invariante, PTL
============================================================================
