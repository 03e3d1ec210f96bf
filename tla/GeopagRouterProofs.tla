------------------------ MODULE GeopagRouterProofs ------------------------
(***************************************************************************)
(* Theorems about GeopagRouter for every table, set of packets and list of *)
(* interfaces that its assumptions allow.                                  *)
(***************************************************************************)
EXTENDS GeopagRouter, SeleccionProofs, TLAPS

(***************************************************************************)
(* TypeOK is not inductive: that cantidad stays within the array needs     *)
(* that a row was stored inside it before it is counted, that the updater  *)
(* has the line it is looking at needs its position in the file, and that  *)
(* an index stays in bounds needs the loop test made before it is used.    *)
(***************************************************************************)

\* The states in which a context holds an index that has passed a loop test.
ConIndice == {"metrica", "mascara", "red", "dev", "rango", "copia", "copiaDev"}

\* The updater has as many lines as it counted, never publishes more rows than
\* it read, and has an unread line while it stores one.
PosicionOK ==
  /\ upc \in {"lee", "guarda", "publica"}
       => lineas \in [1 .. contador -> Fila] /\ cantidad <= j /\ j <= contador
  /\ upc \in {"guarda", "publica"} => j < contador
  /\ upc = "publica" => cantidad < MAX_RUTAS
  /\ upc \in {"limpiaNombres", "relee"} => cantidad = 0 /\ j = 0

IndiceOK == \A c \in Ctx : pc[c] \in ConIndice => i[c] <= MAX_RUTAS

IInv == TypeOK /\ PosicionOK /\ IndiceOK
----------------------------------------------------------------------------
\* A reading of the file is a sequence of n rows, even past its last line.
LEMMA LecturaTipo ==
  ASSUME NEW t \in Tablas, NEW n \in Nat
  PROVE  Lectura(t, n) \in [1 .. n -> Fila] /\ Lectura(t, n) \in Seq(Fila)
<1>1. t \in Seq(Fila) /\ Len(t) \in Nat /\ Len(t) >= 1
  BY TablasAssumption
<1>2. FilaNula \in Fila
  BY DireccionAssumption DEF FilaNula, Fila, Mascara, Metrica
<1>3. ASSUME NEW k \in 1 .. n PROVE FilaLeida(t, k) \in Fila
  <2>1. CASE k <= Len(t)
    BY <1>1, <2>1 DEF FilaLeida
  <2>2. CASE ~(k <= Len(t))
    <3>1. t[Len(t)] \in Fila
      BY <1>1
    <3>2. t[Len(t)].dst \in Direccion
      BY <3>1 DEF Fila
    <3>3. [FilaNula EXCEPT !.dst = t[Len(t)].dst] \in Fila
      BY <1>2, <3>2 DEF Fila, FilaNula
    <3> QED BY <2>2, <3>3 DEF FilaLeida
  <2> QED BY <2>1, <2>2
<1>4. Lectura(t, n) \in [1 .. n -> Fila]
  BY <1>3 DEF Lectura
<1> QED BY <1>4

\* The header kept for a context without a packet is a header.
LEMMA CabeceraNulaTipo == CabeceraNula \in Cabecera
<1>1. PICK o \in Origen, g \in Grupo, d \in Distancias : TRUE
  BY PaqueteAssumption
<1>2. [ip6_src |-> o, ip6_dst |-> g, ip6_hlim |-> 0, dist |-> d] \in Cabecera
  BY PaqueteAssumption DEF Cabecera
<1> QED BY <1>2 DEF CabeceraNula

LEMMA NulasTipo == FilaNula \in Fila /\ CopiaNula \in Copias
BY DireccionAssumption DEF FilaNula, Fila, Mascara, Metrica, CopiaNula, Copias

----------------------------------------------------------------------------
LEMMA InitInv == Init => IInv
<1> SUFFICES ASSUME Init PROVE IInv
  OBVIOUS
<1> USE DEF Init
<1>1. TypeOK
  <2>1. /\ ruta \in [1 .. MAX_RUTAS -> Fila] /\ fila \in Fila
        /\ copia \in [Ctx -> Copias]
    BY NulasTipo
  <2>2. pkt \in [Ctx -> Cabecera]
    BY CabeceraNulaTipo
  <2>3. MAX_RUTAS \in Nat /\ Largo \in Nat
    BY TablasAssumption, DireccionAssumption
  <2>4. lineas \in Seq(Fila)
    OBVIOUS
  <2>5. campo \in 1 .. Len(Campos)
    BY DEF Campos
  <2>6. pc \in [Ctx -> Estados] /\ i \in [Ctx -> 1 .. MAX_RUTAS + 1] /\ mascara \in [Ctx -> Mascara]
    BY <2>3 DEF Estados, Mascara
  <2> QED BY <2>1, <2>2, <2>3, <2>4, <2>5, <2>6 DEF TypeOK
<1>2. PosicionOK
  BY DEF PosicionOK
<1>3. IndiceOK
  BY DEF IndiceOK, ConIndice
<1> QED BY <1>1, <1>2, <1>3 DEF IInv
----------------------------------------------------------------------------
\* Steps of the updater.
LEMMA CuentaInv == IInv /\ Cuenta => IInv'
<1> SUFFICES ASSUME IInv, Cuenta PROVE IInv'
  OBVIOUS
<1>1. Len(kernel) \in Nat
  BY TablasAssumption DEF IInv, TypeOK
<1>2. TypeOK'
  BY <1>1 DEF IInv, TypeOK, Cuenta, NumeroDeLineas, tabla, main, local, bucle
<1>3. PosicionOK'
  BY DEF IInv, PosicionOK, Cuenta
<1>4. IndiceOK'
  BY DEF IInv, IndiceOK, Cuenta, local, bucle
<1> QED BY <1>2, <1>3, <1>4 DEF IInv

LEMMA LimpiaInv == IInv /\ Limpia => IInv'
<1> SUFFICES ASSUME IInv, Limpia PROVE IInv'
  OBVIOUS
<1>1. MAX_RUTAS \in Nat /\ FilaNula \in Fila
  BY TablasAssumption, NulasTipo
<1>2. ruta' \in [1 .. MAX_RUTAS -> Fila]
  <2>1. ASSUME NEW n \in 1 .. MAX_RUTAS
        PROVE  [FilaNula EXCEPT !.dev = ruta[n].dev] \in Fila
    <3>1. ruta[n].dev \in Dev \cup {SinDev}
      BY DEF IInv, TypeOK, Fila
    <3> QED BY <1>1, <3>1 DEF Fila, FilaNula
  <2> QED BY <2>1 DEF Limpia
<1>3. TypeOK'
  <2>1. lineas' \in Seq(Fila)
    BY DEF Limpia
  <2> QED BY <1>1, <1>2, <2>1 DEF IInv, TypeOK, Limpia, main, local, bucle
<1>4. PosicionOK'
  BY DEF IInv, PosicionOK, Limpia
<1>5. IndiceOK'
  BY DEF IInv, IndiceOK, Limpia, local, bucle
<1> QED BY <1>3, <1>4, <1>5 DEF IInv

LEMMA LimpiaNombresInv == IInv /\ LimpiaNombres => IInv'
<1> SUFFICES ASSUME IInv, LimpiaNombres PROVE IInv'
  OBVIOUS
<1>1. TypeOK'
  BY NulasTipo DEF IInv, TypeOK, LimpiaNombres, main, local, bucle
<1>2. PosicionOK'
  BY DEF IInv, PosicionOK, LimpiaNombres
<1>3. IndiceOK'
  BY DEF IInv, IndiceOK, LimpiaNombres, local, bucle
<1> QED BY <1>1, <1>2, <1>3 DEF IInv

LEMMA ReleeInv == IInv /\ Relee => IInv'
<1> SUFFICES ASSUME IInv, Relee PROVE IInv'
  OBVIOUS
<1>1. lineas' \in [1 .. contador -> Fila] /\ lineas' \in Seq(Fila) /\ contador \in Nat
  <2>1. kernel \in Tablas /\ contador \in Nat
    BY TablasAssumption DEF IInv, TypeOK
  <2> QED BY <2>1, LecturaTipo DEF Relee
<1>2. TypeOK'
  BY <1>1 DEF IInv, TypeOK, Relee, tabla, main, local, bucle
<1>3. PosicionOK'
  BY <1>1 DEF IInv, PosicionOK, Relee, tabla
<1>4. IndiceOK'
  BY DEF IInv, IndiceOK, Relee, local, bucle
<1> QED BY <1>2, <1>3, <1>4 DEF IInv

LEMMA LeeInv == IInv /\ Lee => IInv'
<1> SUFFICES ASSUME IInv, Lee PROVE IInv'
  OBVIOUS
<1>1. /\ MAX_RUTAS \in Nat /\ contador \in Nat /\ j \in Nat
      /\ j < contador /\ lineas \in [1 .. contador -> Fila]
  BY TablasAssumption DEF IInv, TypeOK, PosicionOK, Lee
<1>2. fila' \in Fila /\ j' \in Nat
  BY <1>1 DEF Lee
<1>3. TypeOK'
  BY <1>1, <1>2 DEF IInv, TypeOK, Lee, tabla, main, local, bucle, Campos
<1>4. PosicionOK'
  BY <1>1 DEF IInv, TypeOK, PosicionOK, Lee, tabla
<1>5. IndiceOK'
  BY DEF IInv, IndiceOK, Lee, local, bucle
<1> QED BY <1>3, <1>4, <1>5 DEF IInv

\* Storing one field of a row leaves a row.
LEMMA GuardaTipo ==
  ASSUME NEW g \in Fila, NEW h \in Fila, NEW k \in 1 .. Len(Campos)
  PROVE  [g EXCEPT ![Campos[k]] = h[Campos[k]]] \in Fila
<1>1. Campos[k] \in {"dst", "dst_len", "metric", "dev"}
  BY DEF Campos
<1> QED BY <1>1 DEF Fila

LEMMA GuardaInv == IInv /\ Guarda => IInv'
<1> SUFFICES ASSUME IInv, Guarda PROVE IInv'
  OBVIOUS
<1>1. /\ MAX_RUTAS \in Nat /\ contador \in Nat /\ j \in Nat
      /\ cantidad \in Nat /\ cantidad <= j /\ j < contador /\ cantidad < MAX_RUTAS
      /\ campo \in 1 .. Len(Campos)
  BY TablasAssumption DEF IInv, TypeOK, PosicionOK, Guarda
<1>2. cantidad + 1 \in 1 .. MAX_RUTAS
  BY <1>1
<1>3. ruta' \in [1 .. MAX_RUTAS -> Fila]
  <2> DEFINE g == [ruta[cantidad + 1] EXCEPT ![Campos[campo]] = fila[Campos[campo]]]
  <2>1. g \in Fila
    <3>1. ruta[cantidad + 1] \in Fila /\ fila \in Fila
      BY <1>2 DEF IInv, TypeOK
    <3> QED BY <1>1, <3>1, GuardaTipo
  <2>2. ruta' = [ruta EXCEPT ![cantidad + 1] = g]
    BY DEF Guarda
  <2> HIDE DEF g
  <2> QED BY <1>2, <2>1, <2>2 DEF IInv, TypeOK
<1>4. campo' \in 1 .. Len(Campos)
  BY <1>1 DEF Guarda, Campos
<1>5. TypeOK'
  BY <1>3, <1>4 DEF IInv, TypeOK, Guarda, main, local, bucle
<1>6. PosicionOK'
  BY <1>1 DEF IInv, PosicionOK, Guarda
<1>7. IndiceOK'
  BY DEF IInv, IndiceOK, Guarda, local, bucle
<1> QED BY <1>5, <1>6, <1>7 DEF IInv

LEMMA PublicaInv == IInv /\ Publica => IInv'
<1> SUFFICES ASSUME IInv, Publica PROVE IInv'
  OBVIOUS
<1>1. /\ MAX_RUTAS \in Nat /\ contador \in Nat /\ j \in Nat
      /\ cantidad \in Nat /\ cantidad <= j /\ j < contador /\ cantidad < MAX_RUTAS
      /\ lineas \in [1 .. contador -> Fila]
  BY TablasAssumption DEF IInv, TypeOK, PosicionOK, Publica
<1>2. TypeOK'
  BY <1>1 DEF IInv, TypeOK, Publica, main, local, bucle
<1>3. PosicionOK'
  BY <1>1 DEF IInv, PosicionOK, Publica
<1>4. IndiceOK'
  BY DEF IInv, IndiceOK, Publica, local, bucle
<1> QED BY <1>2, <1>3, <1>4 DEF IInv

LEMMA RestoActualizadorInv == IInv /\ (Despierta \/ Cierra) => IInv'
<1> SUFFICES ASSUME IInv, Despierta \/ Cierra PROVE IInv'
  OBVIOUS
<1>1. TypeOK'
  BY DEF IInv, TypeOK, Despierta, Cierra, tabla, main, local, bucle
<1>2. PosicionOK'
  BY DEF IInv, PosicionOK, Despierta, Cierra, tabla
<1>3. IndiceOK'
  BY DEF IInv, IndiceOK, Despierta, Cierra, local, bucle
<1> QED BY <1>1, <1>2, <1>3 DEF IInv

\* Steps of the kernel and of main.
LEMMA PrincipalInv == IInv /\ (CambiaKernel \/ Principal) => IInv'
<1> SUFFICES ASSUME IInv, CambiaKernel \/ Principal PROVE IInv'
  OBVIOUS
<1> USE DEF Principal, CambiaKernel, CreaActualizador, CreaContexto
<1>1. TypeOK'
  BY DEF IInv, TypeOK, tabla, upd, main, local, bucle
<1>2. PosicionOK'
  BY DEF IInv, PosicionOK, tabla, upd
<1>3. IndiceOK'
  BY DEF IInv, IndiceOK, local, bucle
<1> QED BY <1>1, <1>2, <1>3 DEF IInv
----------------------------------------------------------------------------
\* Steps of a context.  They leave the table, the updater and
\* main alone, so that the variables of the context are what is to be checked.
LocalOK ==
  /\ pc \in [Ctx -> Estados]
  /\ pkt \in [Ctx -> Cabecera]
  /\ i \in [Ctx -> 1 .. MAX_RUTAS + 1]
  /\ mascara \in [Ctx -> Mascara]
  /\ rutas \in [Ctx -> SUBSET Copias]
  /\ copia \in [Ctx -> Copias]
  /\ downlink \in [Ctx -> SUBSET Ctx]
  /\ inyectadas \in [Ctx -> SUBSET Ctx]
  /\ enviadas \in [Ctx -> SUBSET Ctx]
  /\ intrusion \in [Ctx -> {"nada", "crece", "pisada"}]

LEMMA ContextoInv ==
  ASSUME IInv, UNCHANGED << kernel, tabla, upd, main, vivo >>, LocalOK', IndiceOK'
  PROVE  IInv'
<1>1. TypeOK'
  BY DEF IInv, TypeOK, LocalOK, tabla, upd, main
<1>2. PosicionOK'
  BY DEF IInv, PosicionOK, tabla, upd
<1> QED BY <1>1, <1>2 DEF IInv

LEMMA AcabaInv ==
  ASSUME NEW c \in Ctx, IInv, Acaba(c)
  PROVE  LocalOK' /\ IndiceOK'
<1>1. MAX_RUTAS \in Nat /\ Largo \in Nat
  BY TablasAssumption, DireccionAssumption
<1>2. LocalOK'
  BY <1>1, NulasTipo, CabeceraNulaTipo DEF IInv, TypeOK, LocalOK, Acaba, Estados, Mascara
<1>3. IndiceOK'
  BY <1>1 DEF IInv, TypeOK, IndiceOK, ConIndice, Acaba
<1> QED BY <1>2, <1>3

LEMMA RecibeInv == ASSUME NEW c \in Ctx, IInv, Recibe(c) PROVE IInv'
<1>1. pkt' \in [Ctx -> Cabecera]
  <2> DEFINE cab(p, d) == [ip6_src |-> p.ip6_src, ip6_dst |-> p.ip6_dst,
                           ip6_hlim |-> p.ip6_hlim, dist |-> d]
  <2>1. PICK p \in Paquete :
          \E d \in Distancia(p) : pkt' = [pkt EXCEPT ![c] = cab(p, d)]
    BY DEF Recibe
  <2>2. PICK d \in Distancia(p) : pkt' = [pkt EXCEPT ![c] = cab(p, d)]
    BY <2>1
  <2>3. d \in Distancias
    BY DEF Distancia, Paquete
  <2>4. cab(p, d) \in Cabecera
    BY <2>3 DEF Paquete, Cabecera
  <2> QED BY <2>2, <2>4 DEF IInv, TypeOK
<1>2. LocalOK'
  BY <1>1 DEF IInv, TypeOK, LocalOK, Recibe, bucle, Estados
<1>3. IndiceOK'
  BY DEF IInv, TypeOK, IndiceOK, ConIndice, Recibe, bucle
<1> QED BY <1>2, <1>3, ContextoInv DEF Recibe

LEMMA Paso1Inv ==
  ASSUME NEW c \in Ctx, IInv, Paso1(c) \/ Paso1Descarta(c)
  PROVE  IInv'
<1>1. CASE Paso1Descarta(c)
  BY <1>1, AcabaInv, ContextoInv DEF Paso1Descarta
<1>2. CASE Paso1(c)
  <2>1. pkt' \in [Ctx -> Cabecera]
    <3>1. pkt[c] \in Cabecera /\ pkt[c].ip6_hlim > 1
      BY <1>2 DEF IInv, TypeOK, Paso1, Sobrevive
    <3>2. pkt[c].ip6_hlim - 1 \in 0 .. MaxHop
      BY <3>1, PaqueteAssumption DEF Cabecera
    <3>3. [pkt[c] EXCEPT !.ip6_hlim = pkt[c].ip6_hlim - 1] \in Cabecera
      BY <3>1, <3>2 DEF Cabecera
    <3> QED BY <1>2, <3>3 DEF IInv, TypeOK, Paso1
  <2>2. LocalOK'
    BY <1>2, <2>1 DEF IInv, TypeOK, LocalOK, Paso1, bucle, Estados
  <2>3. IndiceOK'
    BY <1>2 DEF IInv, TypeOK, IndiceOK, ConIndice, Paso1, bucle
  <2> QED BY <1>2, <2>2, <2>3, ContextoInv DEF Paso1
<1> QED BY <1>1, <1>2

LEMMA BuscaInv ==
  ASSUME NEW c \in Ctx, IInv,
         Busca(c) \/ BuscaMetrica(c) \/ BuscaMascara(c) \/ BuscaRed(c) \/ BuscaDev(c)
  PROVE  IInv'
<1>1. /\ MAX_RUTAS \in Nat /\ cantidad \in 0 .. MAX_RUTAS
      /\ i[c] \in 1 .. MAX_RUTAS + 1
      /\ pc[c] \in ConIndice => i[c] <= MAX_RUTAS
  BY TablasAssumption DEF IInv, TypeOK, IndiceOK
<1>2. CASE Acaba(c) /\ UNCHANGED << kernel, tabla, upd, main, vivo >>
  BY <1>2, AcabaInv, ContextoInv
<1>3. CASE ~Acaba(c) /\ (Busca(c) \/ BuscaMetrica(c))
  <2>1. LocalOK'
    BY <1>3 DEF IInv, TypeOK, LocalOK, Busca, BuscaMetrica, local, bucle, Estados
  <2>2. IndiceOK'
    BY <1>1, <1>3 DEF IInv, TypeOK, IndiceOK, ConIndice, Busca, BuscaMetrica, Quedan, local, bucle
  <2> QED BY <1>3, <2>1, <2>2, ContextoInv DEF Busca, BuscaMetrica
<1>4. CASE BuscaMascara(c)
  <2>1. ruta[i[c]].dst_len \in Mascara
    BY <1>1, <1>4 DEF BuscaMascara, ConIndice, IInv, TypeOK, Fila
  <2>2. LocalOK'
    BY <1>4, <2>1 DEF IInv, TypeOK, LocalOK, BuscaMascara, Estados
  <2>3. IndiceOK'
    BY <1>1, <1>4 DEF IInv, TypeOK, IndiceOK, ConIndice, BuscaMascara
  <2> QED BY <1>4, <2>2, <2>3, ContextoInv DEF BuscaMascara
<1>5. CASE BuscaRed(c)
  <2>1. i[c] + 1 \in 1 .. MAX_RUTAS + 1
    BY <1>1, <1>5 DEF BuscaRed, ConIndice
  <2>2. LocalOK'
    <3>1. pc' \in [Ctx -> Estados]
      BY <1>5 DEF IInv, TypeOK, BuscaRed, Estados
    <3>2. i' \in [Ctx -> 1 .. MAX_RUTAS + 1]
      BY <1>5, <2>1 DEF IInv, TypeOK, BuscaRed
    <3>3. UNCHANGED << pkt, mascara, rutas, copia, downlink, inyectadas, enviadas, intrusion >>
      BY <1>5 DEF BuscaRed, local
    <3> QED BY <3>1, <3>2, <3>3 DEF IInv, TypeOK, LocalOK
  <2>3. IndiceOK'
    <3>1. \A d \in Ctx \ {c} : pc'[d] = pc[d] /\ i'[d] = i[d]
      BY <1>5 DEF BuscaRed, IInv, TypeOK
    <3>2. pc[c] = "red" /\ (pc'[c] = "busca" \/ (pc'[c] = "dev" /\ i'[c] = i[c]))
      BY <1>5 DEF BuscaRed, IInv, TypeOK
    <3>3. pc'[c] \in ConIndice => i'[c] <= MAX_RUTAS
      BY ONLY <1>1, <3>2 DEF ConIndice
    <3> QED BY <3>1, <3>3, Zenon DEF IInv, IndiceOK
  <2> QED BY <1>5, <2>2, <2>3, ContextoInv DEF BuscaRed
<1>6. CASE ~Acaba(c) /\ BuscaDev(c)
  <2>1. /\ i' = [i EXCEPT ![c] = 1] /\ pc' = [pc EXCEPT ![c] = "filtra"]
        /\ UNCHANGED << pkt, mascara, rutas, copia, downlink, inyectadas, enviadas, intrusion >>
    BY <1>6 DEF BuscaDev
  <2>2. LocalOK'
    BY <1>1, <2>1 DEF IInv, TypeOK, LocalOK, Estados
  <2>3. IndiceOK'
    BY <1>1, <2>1 DEF IInv, TypeOK, IndiceOK, ConIndice
  <2> QED BY <1>6, <2>2, <2>3, ContextoInv DEF BuscaDev
<1> QED BY <1>2, <1>3, <1>4, <1>5, <1>6 DEF Busca, BuscaMetrica, BuscaDev

LEMMA FiltraInv ==
  ASSUME NEW c \in Ctx, IInv,
         Filtra(c) \/ FiltraRango(c) \/ FiltraCopia(c) \/ FiltraCopiaDev(c)
  PROVE  IInv'
<1>1. /\ MAX_RUTAS \in Nat /\ cantidad \in 0 .. MAX_RUTAS
      /\ i[c] \in 1 .. MAX_RUTAS + 1
      /\ pc[c] \in ConIndice => i[c] <= MAX_RUTAS
  BY TablasAssumption DEF IInv, TypeOK, IndiceOK
<1>2. CASE Filtra(c)
  <2>1. LocalOK'
    BY <1>2 DEF IInv, TypeOK, LocalOK, Filtra, local, bucle, Estados
  <2>2. IndiceOK'
    <3>1. i' = i /\ (pc'[c] = "elige" \/ (pc'[c] = "rango" /\ i[c] <= cantidad))
      BY <1>2 DEF IInv, TypeOK, Filtra, Quedan, local, bucle
    <3>2. \A d \in Ctx \ {c} : pc'[d] = pc[d]
      BY <1>2 DEF IInv, TypeOK, Filtra
    <3>3. pc'[c] \in ConIndice => i[c] <= MAX_RUTAS
      BY ONLY <1>1, <3>1 DEF ConIndice
    <3> QED BY <3>1, <3>2, <3>3, Zenon DEF IInv, IndiceOK
  <2> QED BY <1>2, <2>1, <2>2, ContextoInv DEF Filtra
<1>3. CASE FiltraRango(c)
  <2>1. i[c] + 1 \in 1 .. MAX_RUTAS + 1
    BY <1>1, <1>3 DEF FiltraRango, ConIndice
  <2>2. LocalOK'
    <3>1. pc' \in [Ctx -> Estados]
      BY <1>3 DEF IInv, TypeOK, FiltraRango, Estados
    <3>2. i' \in [Ctx -> 1 .. MAX_RUTAS + 1]
      BY <1>3, <2>1 DEF IInv, TypeOK, FiltraRango
    <3>3. UNCHANGED << pkt, mascara, rutas, copia, downlink, inyectadas, enviadas, intrusion >>
      BY <1>3 DEF FiltraRango, local
    <3> QED BY <3>1, <3>2, <3>3 DEF IInv, TypeOK, LocalOK
  <2>3. IndiceOK'
    BY <1>1, <1>3 DEF IInv, TypeOK, IndiceOK, ConIndice, FiltraRango
  <2> QED BY <1>3, <2>2, <2>3, ContextoInv DEF FiltraRango
<1>4. CASE FiltraCopia(c)
  <2>1. ruta[i[c]].dst \in Direccion
    BY <1>1, <1>4 DEF FiltraCopia, ConIndice, IInv, TypeOK, Fila
  <2>2. [copia[c] EXCEPT !.dst = ruta[i[c]].dst] \in Copias
    BY <2>1 DEF IInv, TypeOK, Copias
  <2>3. copia' \in [Ctx -> Copias]
    BY <1>4, <2>2 DEF IInv, TypeOK, FiltraCopia
  <2>4. LocalOK'
    BY <1>4, <2>3 DEF IInv, TypeOK, LocalOK, FiltraCopia, Estados
  <2>5. IndiceOK'
    BY <1>1, <1>4 DEF IInv, TypeOK, IndiceOK, ConIndice, FiltraCopia
  <2> QED BY <1>4, <2>4, <2>5, ContextoInv DEF FiltraCopia
<1>5. CASE FiltraCopiaDev(c)
  <2>1. ruta[i[c]].dev \in Dev \cup {SinDev} /\ i[c] + 1 \in 1 .. MAX_RUTAS + 1
    BY <1>1, <1>5 DEF FiltraCopiaDev, ConIndice, IInv, TypeOK, Fila
  <2>2. [dst |-> copia[c].dst, dev |-> ruta[i[c]].dev] \in Copias
    BY <2>1 DEF IInv, TypeOK, Copias
  <2>3. LocalOK'
    BY <1>5, <2>1, <2>2, NulasTipo DEF IInv, TypeOK, LocalOK, FiltraCopiaDev, Estados
  <2>4. IndiceOK'
    BY <1>1, <1>5 DEF IInv, TypeOK, IndiceOK, ConIndice, FiltraCopiaDev
  <2> QED BY <1>5, <2>3, <2>4, ContextoInv DEF FiltraCopiaDev
<1> QED BY <1>2, <1>3, <1>4, <1>5

LEMMA ReenviaInv ==
  ASSUME NEW c \in Ctx, IInv, Elige(c) \/ Inyecta(c) \/ Devuelve(c)
  PROVE  IInv'
<1>1. CASE Acaba(c) /\ UNCHANGED << kernel, tabla, upd, main, vivo >>
  BY <1>1, AcabaInv, ContextoInv
<1>2. CASE ~Acaba(c) /\ Elige(c)
  <2>1. PICK D \in SUBSET Ctx :
          /\ downlink' = [downlink EXCEPT ![c] = D]
          /\ pc' = [pc EXCEPT ![c] = "inyecta"]
          /\ UNCHANGED << pkt, bucle, inyectadas, enviadas, intrusion >>
    BY <1>2 DEF Elige, IFS_crear_lista_ifaces_child, Ctx
  <2>2. LocalOK'
    BY <2>1 DEF IInv, TypeOK, LocalOK, bucle, Estados
  <2>3. IndiceOK'
    BY <2>1 DEF IInv, TypeOK, IndiceOK, ConIndice, bucle
  <2> QED BY <1>2, <2>2, <2>3, ContextoInv DEF Elige
<1>3. CASE Inyecta(c)
  <2>1. PICK k \in downlink[c] :
          /\ inyectadas' = [inyectadas EXCEPT ![c] = @ \cup {k}]
          /\ \/ enviadas' = [enviadas EXCEPT ![c] = @ \cup {k}]
             \/ UNCHANGED enviadas
    BY <1>3 DEF Inyecta
  <2>2. UNCHANGED << pc, pkt, bucle, downlink, intrusion >>
    BY <1>3 DEF Inyecta
  <2>3. k \in Ctx
    BY DEF IInv, TypeOK
  <2>4. enviadas' \in [Ctx -> SUBSET Ctx] /\ inyectadas' \in [Ctx -> SUBSET Ctx]
    <3>1. inyectadas[c] \cup {k} \in SUBSET Ctx /\ enviadas[c] \cup {k} \in SUBSET Ctx
      BY <2>3 DEF IInv, TypeOK
    <3>2. [inyectadas EXCEPT ![c] = @ \cup {k}] \in [Ctx -> SUBSET Ctx]
      BY <3>1 DEF IInv, TypeOK
    <3>3. [enviadas EXCEPT ![c] = @ \cup {k}] \in [Ctx -> SUBSET Ctx]
      BY <3>1 DEF IInv, TypeOK
    <3> QED BY <2>1, <3>2, <3>3 DEF IInv, TypeOK
  <2>5. LocalOK'
    BY <2>2, <2>4 DEF IInv, TypeOK, LocalOK, bucle
  <2>6. IndiceOK'
    BY <2>2 DEF IInv, IndiceOK, bucle
  <2> QED BY <1>3, <2>5, <2>6, ContextoInv DEF Inyecta
<1> QED BY <1>1, <1>2, <1>3 DEF Elige, Devuelve

\* The process ends and nothing else changes.
LEMMA FallaInv == IInv /\ Falla => IInv'
<1> SUFFICES ASSUME IInv, Falla PROVE IInv'
  OBVIOUS
<1> USE DEF Falla, InyectaFalla, RecibeFalla, AbreFalla, GuardaFuera, Muere
<1>1. TypeOK'
  BY DEF IInv, TypeOK, tabla, upd, main, local, bucle
<1>2. PosicionOK'
  BY DEF IInv, PosicionOK, tabla, upd
<1>3. IndiceOK'
  BY DEF IInv, IndiceOK, local, bucle
<1> QED BY <1>1, <1>2, <1>3 DEF IInv

----------------------------------------------------------------------------
LEMMA NextInv == IInv /\ [Next]_vars => IInv'
<1> SUFFICES ASSUME IInv, [Next]_vars PROVE IInv'
  OBVIOUS
<1>1. CASE CambiaKernel \/ Principal \/ Falla
  BY <1>1, PrincipalInv, FallaInv
<1>2. CASE Actualizador
  BY <1>2, CuentaInv, LimpiaInv, LimpiaNombresInv, ReleeInv, LeeInv, GuardaInv,
     PublicaInv, RestoActualizadorInv DEF Actualizador
<1>3. ASSUME NEW c \in Ctx, Recibe(c) \/ Procesa(c)
      PROVE  IInv'
  BY <1>3, RecibeInv, Paso1Inv, BuscaInv, FiltraInv, ReenviaInv DEF Procesa
<1>4. CASE UNCHANGED vars
  <2>1. TypeOK' /\ PosicionOK' /\ IndiceOK'
    BY <1>4 DEF vars, IInv, TypeOK, PosicionOK, IndiceOK, tabla, upd, main, local, bucle
  <2> QED BY <2>1 DEF IInv
<1> QED BY <1>1, <1>2, <1>3, <1>4 DEF Next

\* Every variable keeps its type, however the kernel changes its table between
\* the two readings of a pass and whatever libnet_write sends.
THEOREM TypeCorrect == Spec => []TypeOK
<1>1. IInv => TypeOK
  BY DEF IInv
<1> QED BY InitInv, NextInv, <1>1, PTL DEF Spec

(***************************************************************************)
(* SoloDondeDebe.  A context reads the table a field at a time while the   *)
(* updater adds rows to it, so the invariant says what the context knows   *)
(* at each point of its two loops, of rows that stay as they are until the *)
(* next memset.  It quantifies over row numbers and leaves the choice of   *)
(* the first row of RT_busca_ifaz_uplink to the end of the argument.       *)
(***************************************************************************)

\* Row n lets the search for a source go on, or ends it.
Pasa(n, dir) == /\ ruta[n].metric # Unreachable
                /\ ~Coincide(ruta[n].dst, dir, ruta[n].dst_len)
Cubre(n, dir) == /\ ruta[n].metric # Unreachable
                 /\ Coincide(ruta[n].dst, dir, ruta[n].dst_len)

Buscando == {"busca", "metrica", "mascara", "red", "dev"}
Aceptado == {"filtra", "rango", "copia", "copiaDev", "elige", "inyecta"}

\* The first published row that covers the source is on the context's interface.
Justificado(c) ==
  \E n \in 1 .. cantidad :
    /\ Cubre(n, pkt[c].ip6_src)
    /\ \A m \in 1 .. n - 1 : Pasa(m, pkt[c].ip6_src)
    /\ LlegoPor(c, ruta[n].dev)

\* Entry k leads to a cell of a published row within the packet's distance.
Alcanza(c, k) ==
  \E n \in 1 .. cantidad :
    /\ EnRango(ruta[n].dst) /\ ruta[n].dev = nombre(k)
    /\ GEOPAG_calcula_distancia(pkt[c].ip6_dst, ruta[n].dst) <= pkt[c].dist

Avance(c) ==
  /\ pc[c] \in Buscando
       => \A m \in 1 .. i[c] - 1 : m <= cantidad /\ Pasa(m, pkt[c].ip6_src)
  /\ pc[c] \in ConIndice => i[c] <= cantidad
  /\ pc[c] \in {"mascara", "red", "dev"} => ruta[i[c]].metric # Unreachable
  /\ pc[c] = "red" => mascara[c] = ruta[i[c]].dst_len
  /\ pc[c] = "dev" => Cubre(i[c], pkt[c].ip6_src)
  /\ pc[c] \in {"copia", "copiaDev"} => EnRango(ruta[i[c]].dst)
  /\ pc[c] = "copiaDev" => copia[c].dst = ruta[i[c]].dst
  /\ pc[c] \in Aceptado => Justificado(c)
  /\ \A r \in rutas[c] : \E n \in 1 .. cantidad :
       EnRango(ruta[n].dst) /\ r.dst = ruta[n].dst /\ r.dev = ruta[n].dev
  /\ pc[c] = "inyecta"
       => \A k \in downlink[c] : k \in IFS_crear_lista_ifaces_child(c) /\ Alcanza(c, k)

\* A context that has not begun has nothing of an earlier packet.
Limpio(c) == i[c] = 1 /\ rutas[c] = {}

VCtx(c) ==
  /\ pc[c] \in {"espera", "paso1"} => Limpio(c)
  /\ pc[c] \in Buscando \cup Aceptado /\ intrusion[c] # "pisada" => Avance(c)

VInv == \A c \in Ctx : VCtx(c)
----------------------------------------------------------------------------
\* The step leaves the published rows and everything context c holds alone.
Crece == /\ cantidad' \in Nat /\ cantidad' >= cantidad
         /\ \A n \in 1 .. cantidad : ruta'[n] = ruta[n]

Quieto(c) ==
  /\ pc'[c] = pc[c] /\ pkt'[c] = pkt[c] /\ i'[c] = i[c]
  /\ mascara'[c] = mascara[c] /\ rutas'[c] = rutas[c] /\ copia'[c] = copia[c]
  /\ downlink'[c] = downlink[c]

LEMMA JustificadoCrece ==
  ASSUME NEW c \in Ctx, cantidad \in Nat, Crece, Justificado(c), pkt'[c] = pkt[c]
  PROVE  Justificado(c)'
<1>1. PICK n \in 1 .. cantidad :
        /\ Cubre(n, pkt[c].ip6_src)
        /\ \A m \in 1 .. n - 1 : Pasa(m, pkt[c].ip6_src)
        /\ LlegoPor(c, ruta[n].dev)
  BY DEF Justificado
<1>2. n \in 1 .. cantidad' /\ \A m \in 1 .. n : ruta'[m] = ruta[m]
  BY DEF Crece
<1>3. Cubre(n, pkt[c].ip6_src)' /\ LlegoPor(c, ruta[n].dev)'
  BY <1>1, <1>2 DEF Cubre
<1>4. ASSUME NEW m \in 1 .. n - 1 PROVE Pasa(m, pkt[c].ip6_src)'
  <2>1. ruta'[m] = ruta[m] /\ Pasa(m, pkt[c].ip6_src)
    BY <1>1, <1>2
  <2> QED BY <2>1 DEF Pasa
<1> QED BY <1>2, <1>3, <1>4 DEF Justificado

LEMMA AlcanzaCrece ==
  ASSUME NEW c \in Ctx, NEW k, cantidad \in Nat, Crece, Alcanza(c, k), pkt'[c] = pkt[c]
  PROVE  Alcanza(c, k)'
BY DEF Alcanza, Crece

LEMMA AvanceQuieto ==
  ASSUME NEW c \in Ctx, IInv, Crece, Quieto(c), Avance(c),
         i[c] \in 1 .. MAX_RUTAS + 1
  PROVE  Avance(c)'
<1>0. cantidad \in Nat /\ MAX_RUTAS \in Nat /\ i[c] \in Nat \ {0}
  BY TablasAssumption DEF IInv, TypeOK
<1>1. (pc[c] \in Buscando
        => \A m \in 1 .. i[c] - 1 : m <= cantidad /\ Pasa(m, pkt[c].ip6_src))'
  <2> SUFFICES ASSUME pc[c] \in Buscando, NEW m \in 1 .. i[c] - 1
               PROVE  m <= cantidad' /\ Pasa(m, pkt[c].ip6_src)'
    BY DEF Quieto
  <2>1. m \in 1 .. cantidad /\ Pasa(m, pkt[c].ip6_src)
    BY <1>0 DEF Avance
  <2>2. ruta'[m] = ruta[m] /\ m <= cantidad'
    BY <1>0, <2>1 DEF Crece
  <2> QED BY <2>1, <2>2 DEF Pasa, Quieto
<1>2. pc[c] \in ConIndice => i[c] <= cantidad' /\ ruta'[i[c]] = ruta[i[c]]
  BY <1>0 DEF Avance, Crece
<1>3. (pc[c] \in ConIndice => i[c] <= cantidad)'
  BY <1>2 DEF Quieto
<1>4. /\ (pc[c] \in {"mascara", "red", "dev"} => ruta[i[c]].metric # Unreachable)'
      /\ (pc[c] = "red" => mascara[c] = ruta[i[c]].dst_len)'
      /\ (pc[c] = "dev" => Cubre(i[c], pkt[c].ip6_src))'
      /\ (pc[c] \in {"copia", "copiaDev"} => EnRango(ruta[i[c]].dst))'
      /\ (pc[c] = "copiaDev" => copia[c].dst = ruta[i[c]].dst)'
  BY <1>2 DEF Avance, Quieto, ConIndice, Cubre
<1>5. (pc[c] \in Aceptado => Justificado(c))'
  BY <1>0, JustificadoCrece DEF Avance, Quieto
<1>6. (\A r \in rutas[c] : \E n \in 1 .. cantidad :
        EnRango(ruta[n].dst) /\ r.dst = ruta[n].dst /\ r.dev = ruta[n].dev)'
  BY <1>0 DEF Avance, Quieto, Crece
<1>7. (pc[c] = "inyecta"
        => \A k \in downlink[c] : k \in IFS_crear_lista_ifaces_child(c) /\ Alcanza(c, k))'
  BY <1>0, AlcanzaCrece DEF Avance, Quieto
<1> QED BY <1>1, <1>3, <1>4, <1>5, <1>6, <1>7 DEF Avance

LEMMA VCtxQuieto ==
  ASSUME NEW c \in Ctx, IInv, VCtx(c), Quieto(c), Crece,
         intrusion'[c] # "pisada" => intrusion[c] # "pisada"
  PROVE  VCtx(c)'
<1>1. (pc[c] \in {"espera", "paso1"} => Limpio(c))'
  BY DEF VCtx, Quieto, Limpio
<1>2. i[c] \in 1 .. MAX_RUTAS + 1
  BY DEF IInv, TypeOK
<1>3. (pc[c] \in Buscando \cup Aceptado /\ intrusion[c] # "pisada" => Avance(c))'
  BY <1>2, AvanceQuieto DEF VCtx, Quieto
<1> QED BY <1>1, <1>3 DEF VCtx

LEMMA VActualizador == ASSUME IInv, VInv, Actualizador PROVE VInv'
<1>0. cantidad \in Nat
  BY TablasAssumption DEF IInv, TypeOK
<1>1. CASE Limpia
  BY <1>1 DEF Limpia, VInv, VCtx, IInv, TypeOK, local, bucle, Limpio, Buscando, Aceptado
<1>2. CASE ~Limpia
  <2>1. Crece
    <3>1. CASE LimpiaNombres
      BY <1>0, <3>1 DEF LimpiaNombres, Crece, IInv, PosicionOK
    <3>2. CASE Guarda
      BY <1>0, <3>2 DEF Guarda, Crece, IInv, TypeOK
    <3>3. CASE Publica
      BY <1>0, <3>3 DEF Publica, Crece
    <3>4. CASE Despierta \/ Cuenta \/ Relee \/ Lee \/ Cierra
      BY <1>0, <3>4 DEF Despierta, Cuenta, Relee, Lee, Cierra, tabla, Crece
    <3> QED BY <1>2, <3>1, <3>2, <3>3, <3>4 DEF Actualizador
  <2>2. UNCHANGED << pc, local >>
    BY <1>2 DEF Actualizador, Despierta, Cuenta, LimpiaNombres, Relee, Lee, Guarda,
                Publica, Cierra
  <2>3. ASSUME NEW c \in Ctx, intrusion'[c] # "pisada" PROVE intrusion[c] # "pisada"
    BY <1>2, <2>3 DEF Actualizador, Despierta, Cuenta, LimpiaNombres, Relee, Lee, Guarda,
                Publica, Cierra, IInv, TypeOK
  <2>4. \A c \in Ctx : Quieto(c)
    BY <2>2 DEF Quieto, local, bucle
  <2> QED BY <2>1, <2>3, <2>4, VCtxQuieto DEF VInv
<1> QED BY <1>1, <1>2

\* The kernel, main and the end of the process touch nothing the invariant
\* reads.
LEMMA VRestoSistema ==
  ASSUME IInv, VInv,
         CambiaKernel \/ Principal \/ Falla \/ UNCHANGED vars
  PROVE  VInv'
<1>1. UNCHANGED << tabla, pc, local, intrusion >>
  BY DEF CambiaKernel, Principal, CreaActualizador, CreaContexto, Falla, AbreFalla,
     GuardaFuera, RecibeFalla, InyectaFalla, Muere, vars
<1>2. Crece
  BY <1>1, TablasAssumption DEF IInv, TypeOK, Crece, tabla
<1>3. \A c \in Ctx : Quieto(c) /\ intrusion'[c] = intrusion[c]
  BY <1>1 DEF Quieto, local, bucle
<1> QED BY <1>2, <1>3, VCtxQuieto DEF VInv

\* A step of context c leaves the other contexts alone.
LEMMA VContexto ==
  ASSUME NEW c \in Ctx, IInv, VInv, UNCHANGED tabla, VCtx(c)',
         \A d \in Ctx \ {c} : Quieto(d) /\ intrusion'[d] = intrusion[d]
  PROVE  VInv'
<1>1. Crece
  BY TablasAssumption DEF IInv, TypeOK, Crece, tabla
<1>2. \A d \in Ctx \ {c} : VCtx(d)'
  BY <1>1, VCtxQuieto DEF VInv
<1> QED BY <1>2 DEF VInv

LEMMA VAcaba ==
  ASSUME NEW c \in Ctx, IInv, VInv, UNCHANGED tabla, Acaba(c)
  PROVE  VInv'
<1>1. VCtx(c)'
  BY DEF IInv, TypeOK, Acaba, VCtx, Limpio, Buscando, Aceptado
<1>2. \A d \in Ctx \ {c} : Quieto(d) /\ intrusion'[d] = intrusion[d]
  BY DEF IInv, TypeOK, Acaba, Quieto
<1> QED BY <1>1, <1>2, VContexto

\* Any step of a context is quiet for the others.
LEMMA OtrosQuietos ==
  ASSUME NEW c \in Ctx, IInv, Recibe(c) \/ Procesa(c)
  PROVE  /\ UNCHANGED tabla
         /\ \A d \in Ctx \ {c} : Quieto(d) /\ intrusion'[d] = intrusion[d]
<1> USE DEF IInv, TypeOK, Quieto, bucle, local
<1>0. UNCHANGED tabla
  BY DEF Recibe, Procesa, Paso1, Paso1Descarta, Busca, BuscaMetrica, BuscaMascara,
         BuscaRed, BuscaDev, Filtra, FiltraRango, FiltraCopia, FiltraCopiaDev, Elige,
         Inyecta, Devuelve
<1>1. CASE Acaba(c)
  BY <1>0, <1>1 DEF Acaba
<1>2. CASE ~Acaba(c) /\ (Recibe(c) \/ Paso1(c) \/ Paso1Descarta(c))
  BY <1>2 DEF Recibe, Paso1, Paso1Descarta
<1>3. CASE ~Acaba(c) /\ (Busca(c) \/ BuscaMetrica(c) \/ BuscaMascara(c) \/ BuscaRed(c))
  BY <1>3 DEF Busca, BuscaMetrica, BuscaMascara, BuscaRed
<1>4. CASE ~Acaba(c) /\ (BuscaDev(c) \/ Filtra(c) \/ FiltraRango(c))
  BY <1>4 DEF BuscaDev, Filtra, FiltraRango
<1>5. CASE ~Acaba(c) /\ (FiltraCopia(c) \/ FiltraCopiaDev(c))
  BY <1>5 DEF FiltraCopia, FiltraCopiaDev
<1>6. CASE ~Acaba(c) /\ Elige(c)
  <2>1. PICK D : /\ downlink' = [downlink EXCEPT ![c] = D]
                 /\ pc' = [pc EXCEPT ![c] = "inyecta"]
                 /\ UNCHANGED << pkt, bucle, inyectadas, enviadas, intrusion, tabla >>
    BY <1>6 DEF Elige
  <2> QED BY <2>1
<1>7. CASE Inyecta(c)
  <2>1. UNCHANGED << pc, pkt, bucle, downlink, intrusion, tabla >>
    BY <1>7 DEF Inyecta
  <2> QED BY <2>1
<1> QED BY <1>1, <1>2, <1>3, <1>4, <1>5, <1>6, <1>7 DEF Procesa, Devuelve

LEMMA VPaso1 ==
  ASSUME NEW c \in Ctx, IInv, VInv, Recibe(c) \/ Paso1(c) \/ Paso1Descarta(c)
  PROVE  VInv'
<1>1. CASE Paso1Descarta(c)
  BY <1>1, VAcaba DEF Paso1Descarta
<1>2. CASE Recibe(c)
  <2>1. VCtx(c)'
    BY <1>2 DEF IInv, TypeOK, VInv, Recibe, VCtx, Limpio, bucle, Buscando, Aceptado
  <2> QED BY <1>2, <2>1, OtrosQuietos, VContexto
<1>3. CASE Paso1(c)
  <2>1. pc'[c] = "busca" /\ i'[c] = 1 /\ rutas'[c] = {}
    BY <1>3 DEF IInv, TypeOK, VInv, Paso1, VCtx, Limpio, bucle
  <2>2. VCtx(c)'
    BY <2>1 DEF VCtx, Limpio, Avance, Buscando, ConIndice, Aceptado
  <2> QED BY <1>3, <2>2, OtrosQuietos, VContexto DEF Procesa
<1> QED BY <1>1, <1>2, <1>3

LEMMA VBusca ==
  ASSUME NEW c \in Ctx, IInv, VInv,
         Busca(c) \/ BuscaMetrica(c) \/ BuscaMascara(c) \/ BuscaRed(c)
  PROVE  VInv'
<1>1. CASE Acaba(c)
  BY <1>1, OtrosQuietos, VAcaba DEF Procesa
<1>2. ASSUME ~Acaba(c), intrusion'[c] # "pisada" PROVE Avance(c)'
  <2> USE DEF IInv, TypeOK
  <2>1. intrusion[c] # "pisada" /\ UNCHANGED << tabla, pkt, rutas >>
    BY <1>2 DEF Busca, BuscaMetrica, BuscaMascara, BuscaRed, local, bucle
  <2>2. Avance(c) /\ i[c] \in Nat \ {0} /\ cantidad \in Nat
    BY <1>2, <2>1, TablasAssumption
       DEF VInv, VCtx, Buscando, Busca, BuscaMetrica, BuscaMascara, BuscaRed
  <2>3. CASE Busca(c)
    <3>1. pc'[c] = "metrica" /\ i'[c] = i[c] /\ i[c] <= cantidad /\ pc[c] = "busca"
      BY <1>2, <2>3 DEF Busca, Quedan, local, bucle
    <3> QED BY <2>1, <2>2, <3>1 DEF Avance, Buscando, ConIndice, Aceptado, tabla, Pasa
  <2>4. CASE BuscaMetrica(c)
    <3>1. /\ pc'[c] = "mascara" /\ i'[c] = i[c] /\ pc[c] = "metrica"
          /\ ruta[i[c]].metric # Unreachable
      BY <1>2, <2>4 DEF BuscaMetrica, local, bucle
    <3> QED BY <2>1, <2>2, <3>1 DEF Avance, Buscando, ConIndice, Aceptado, tabla, Pasa
  <2>5. CASE BuscaMascara(c)
    <3>1. /\ pc'[c] = "red" /\ i'[c] = i[c] /\ pc[c] = "mascara"
          /\ mascara'[c] = ruta[i[c]].dst_len
      BY <1>2, <2>5 DEF BuscaMascara, local, bucle
    <3> QED BY <2>1, <2>2, <3>1 DEF Avance, Buscando, ConIndice, Aceptado, tabla, Pasa
  <2>6. CASE BuscaRed(c)
    <3>1. pc[c] = "red" /\ mascara[c] = ruta[i[c]].dst_len /\ i[c] <= cantidad
          /\ ruta[i[c]].metric # Unreachable
      BY <2>2, <2>6 DEF BuscaRed, Avance, ConIndice
    <3>2. CASE Coincide(ruta[i[c]].dst, pkt[c].ip6_src, mascara[c])
      <4>1. pc'[c] = "dev" /\ i'[c] = i[c]
        BY <2>6, <3>2 DEF BuscaRed
      <4>2. Cubre(i[c], pkt[c].ip6_src)
        BY <3>1, <3>2 DEF Cubre
      <4> QED BY <2>1, <2>2, <3>1, <4>1, <4>2
              DEF Avance, Buscando, ConIndice, Aceptado, tabla, Pasa, Cubre
    <3>3. CASE ~Coincide(ruta[i[c]].dst, pkt[c].ip6_src, mascara[c])
      <4>1. pc'[c] = "busca" /\ i'[c] = i[c] + 1
        BY <2>6, <3>3 DEF BuscaRed
      <4>2. Pasa(i[c], pkt[c].ip6_src)
        BY <3>1, <3>3 DEF Pasa
      <4>3. \A m \in 1 .. i'[c] - 1 : m <= cantidad /\ Pasa(m, pkt[c].ip6_src)
        BY <2>2, <3>1, <4>1, <4>2 DEF Avance, Buscando
      <4>4. (\A m \in 1 .. i[c] - 1 : m <= cantidad /\ Pasa(m, pkt[c].ip6_src))'
        BY <2>1, <4>3 DEF Pasa, tabla
      <4> QED BY <2>1, <2>2, <4>1, <4>4 DEF Avance, Buscando, ConIndice, Aceptado, tabla
    <3> QED BY <3>2, <3>3
  <2> QED BY <2>3, <2>4, <2>5, <2>6
<1>3. CASE ~Acaba(c)
  <2>1. pc'[c] \in Buscando
    BY <1>3 DEF IInv, TypeOK, Buscando, Busca, BuscaMetrica, BuscaMascara, BuscaRed
  <2>2. VCtx(c)'
    BY <1>2, <1>3, <2>1 DEF VCtx, Buscando
  <2> QED BY <2>2, OtrosQuietos, VContexto DEF Procesa
<1> QED BY <1>1, <1>3

\* The step that accepts the packet turns what the loop has passed over into
\* the reason for accepting it.
LEMMA VBuscaDev == ASSUME NEW c \in Ctx, IInv, VInv, BuscaDev(c) PROVE VInv'
<1>1. CASE Acaba(c)
  BY <1>1, OtrosQuietos, VAcaba DEF Procesa
<1>2. CASE ~Acaba(c)
  <2>1. /\ pc[c] = "dev" /\ pc'[c] = "filtra" /\ i'[c] = 1 /\ LlegoPor(c, ruta[i[c]].dev)
        /\ UNCHANGED << tabla, pkt, rutas, intrusion >>
    BY <1>2 DEF IInv, TypeOK, BuscaDev
  <2>2. ASSUME intrusion[c] # "pisada" PROVE Avance(c)'
    <3>1. Avance(c)
      BY <2>1, <2>2 DEF VInv, VCtx, Buscando
    <3>2. /\ i[c] \in 1 .. cantidad /\ Cubre(i[c], pkt[c].ip6_src)
          /\ \A m \in 1 .. i[c] - 1 : Pasa(m, pkt[c].ip6_src)
      BY <2>1, <3>1 DEF Avance, Buscando, ConIndice, IInv, TypeOK
    <3>3. Justificado(c)
      BY <2>1, <3>2 DEF Justificado
    <3>4. Justificado(c)'
      BY <2>1, <3>3 DEF Justificado, Cubre, Pasa, tabla
    <3> QED BY <2>1, <3>1, <3>4 DEF Avance, Buscando, ConIndice, tabla
  <2>3. VCtx(c)'
    BY <2>1, <2>2 DEF VCtx
  <2> QED BY <2>3, OtrosQuietos, VContexto DEF Procesa
<1> QED BY <1>1, <1>2

LEMMA VFiltra ==
  ASSUME NEW c \in Ctx, IInv, VInv,
         Filtra(c) \/ FiltraRango(c) \/ FiltraCopia(c) \/ FiltraCopiaDev(c)
  PROVE  VInv'
<1> USE DEF IInv, TypeOK
<1>1. /\ UNCHANGED << tabla, pkt, intrusion >> /\ pc[c] \in Aceptado \ {"inyecta"}
      /\ pc'[c] \in Aceptado \ {"inyecta"}
  BY DEF Filtra, FiltraRango, FiltraCopia, FiltraCopiaDev, Aceptado, local
<1>2. ASSUME intrusion[c] # "pisada" PROVE Avance(c)'
  <2>1. Avance(c) /\ i[c] \in Nat \ {0} /\ cantidad \in Nat
    BY <1>1, <1>2, TablasAssumption DEF VInv, VCtx
  <2>2. Justificado(c)'
    BY <1>1, <2>1 DEF Avance, Justificado, Cubre, Pasa, tabla
  <2>3. ruta' = ruta /\ cantidad' = cantidad
    BY <1>1 DEF tabla
  <2>4. CASE Filtra(c)
    <3>1. /\ pc'[c] \in {"rango", "elige"} /\ i'[c] = i[c] /\ rutas'[c] = rutas[c]
          /\ pc'[c] = "rango" => i[c] <= cantidad
      BY <2>4 DEF Filtra, Quedan, local, bucle
    <3>2. pc'[c] \notin Buscando /\ pc'[c] \notin {"mascara", "red", "dev", "copia", "copiaDev", "inyecta"}
      BY <3>1 DEF Buscando
    <3>3. pc'[c] \in ConIndice => i'[c] <= cantidad'
      BY <2>3, <3>1 DEF ConIndice
    <3>4. \A q \in rutas'[c] : \E n \in 1 .. cantidad' :
            EnRango(ruta'[n].dst) /\ q.dst = ruta'[n].dst /\ q.dev = ruta'[n].dev
      BY <2>1, <2>3, <3>1 DEF Avance
    <3> QED BY <2>2, <3>2, <3>3, <3>4 DEF Avance
  <2>5. CASE FiltraRango(c)
    <3>1. /\ pc[c] = "rango" /\ pc'[c] \in {"copia", "filtra"} /\ rutas'[c] = rutas[c]
          /\ pc'[c] = "copia" => EnRango(ruta[i[c]].dst) /\ i'[c] = i[c]
      BY <2>5 DEF FiltraRango
    <3> QED BY <2>1, <2>2, <2>3, <3>1 DEF Avance, Buscando, ConIndice
  <2>6. CASE FiltraCopia(c)
    <3>1. /\ pc[c] = "copia" /\ pc'[c] = "copiaDev" /\ rutas'[c] = rutas[c]
          /\ i'[c] = i[c]
      BY <2>6 DEF FiltraCopia
    <3>2. copia'[c].dst = ruta[i[c]].dst
      <4>1. copia'[c] = [copia[c] EXCEPT !.dst = ruta[i[c]].dst]
        BY <2>6 DEF FiltraCopia
      <4> QED BY <4>1 DEF Copias
    <3> QED BY <2>1, <2>2, <2>3, <3>1, <3>2 DEF Avance, Buscando, ConIndice
  <2>7. CASE FiltraCopiaDev(c)
    <3> DEFINE r0 == [dst |-> copia[c].dst, dev |-> ruta[i[c]].dev]
    <3>1. /\ pc[c] = "copiaDev" /\ pc'[c] = "filtra"
          /\ rutas'[c] = rutas[c] \cup {r0}
      BY <2>7 DEF FiltraCopiaDev
    <3>2. /\ i[c] \in 1 .. cantidad /\ EnRango(ruta[i[c]].dst)
          /\ r0.dst = ruta[i[c]].dst /\ r0.dev = ruta[i[c]].dev
      BY <2>1, <3>1 DEF Avance, ConIndice
    <3>3. \A r \in rutas'[c] : \E n \in 1 .. cantidad :
            EnRango(ruta[n].dst) /\ r.dst = ruta[n].dst /\ r.dev = ruta[n].dev
      BY <2>1, <3>1, <3>2 DEF Avance
    <3> QED BY <2>1, <2>2, <2>3, <3>1, <3>3 DEF Avance, Buscando, ConIndice
  <2> QED BY <2>4, <2>5, <2>6, <2>7
<1>3. VCtx(c)'
  BY <1>1, <1>2 DEF VCtx, Aceptado
<1> QED BY <1>3, OtrosQuietos, VContexto DEF Procesa

LEMMA VElige == ASSUME NEW c \in Ctx, IInv, VInv, Elige(c) PROVE VInv'
<1>1. CASE Acaba(c)
  BY <1>1, OtrosQuietos, VAcaba DEF Procesa
<1>2. CASE ~Acaba(c)
  <2> DEFINE bajan == {k \in IFS_crear_lista_ifaces_child(c) :
                         \E r \in RT_filtra_por_ifaz(rutas[c], nombre(k)) :
                            GEOPAG_calcula_distancia(pkt[c].ip6_dst, r.dst)
                              <= pkt[c].dist}
  <2>1. /\ pc[c] = "elige" /\ downlink' = [downlink EXCEPT ![c] = bajan]
        /\ pc' = [pc EXCEPT ![c] = "inyecta"]
        /\ UNCHANGED << tabla, pkt, rutas, intrusion >>
    BY <1>2 DEF Elige, bucle
  <2>2. pc'[c] = "inyecta" /\ downlink'[c] = bajan
    BY <2>1 DEF IInv, TypeOK
  <2>3. ASSUME intrusion[c] # "pisada" PROVE Avance(c)'
    <3>1. Avance(c) /\ Justificado(c)
      BY <2>1, <2>3 DEF VInv, VCtx, Avance, Aceptado
    <3>2. Justificado(c)'
      BY <2>1, <3>1 DEF Justificado, Cubre, Pasa, tabla
    <3>3. ASSUME NEW k \in bajan PROVE Alcanza(c, k)
      <4>1. PICK r \in rutas[c] :
              /\ r.dev = nombre(k)
              /\ GEOPAG_calcula_distancia(pkt[c].ip6_dst, r.dst) <= pkt[c].dist
        BY DEF RT_filtra_por_ifaz
      <4>2. PICK n \in 1 .. cantidad :
              EnRango(ruta[n].dst) /\ r.dst = ruta[n].dst /\ r.dev = ruta[n].dev
        BY <3>1 DEF Avance
      <4> QED BY <4>1, <4>2 DEF Alcanza
    <3>4. \A k \in bajan : k \in IFS_crear_lista_ifaces_child(c) /\ Alcanza(c, k)'
      BY <2>1, <3>3 DEF Alcanza, tabla
    <3> HIDE DEF bajan
    <3> QED BY <2>1, <2>2, <3>1, <3>2, <3>4 DEF Avance, Buscando, ConIndice, tabla
  <2>4. VCtx(c)'
    BY <2>1, <2>2, <2>3 DEF VCtx
  <2> QED BY <2>4, OtrosQuietos, VContexto DEF Procesa
<1> QED BY <1>1, <1>2

LEMMA VInyecta ==
  ASSUME NEW c \in Ctx, IInv, VInv, Inyecta(c) \/ Devuelve(c)
  PROVE  VInv'
<1>1. CASE Devuelve(c)
  BY <1>1, OtrosQuietos, VAcaba DEF Procesa, Devuelve
<1>2. CASE Inyecta(c)
  <2>1. UNCHANGED << tabla, pc, pkt, bucle, downlink, intrusion >>
    BY <1>2 DEF Inyecta
  <2>2. Crece /\ Quieto(c)
    BY <2>1, TablasAssumption DEF IInv, TypeOK, Crece, Quieto, tabla, bucle
  <2>3. VCtx(c)'
    BY <2>1, <2>2, VCtxQuieto DEF VInv
  <2> QED BY <2>3, OtrosQuietos, VContexto DEF Procesa
<1> QED BY <1>1, <1>2

LEMMA VNext == IInv /\ VInv /\ [Next]_vars => VInv'
<1> SUFFICES ASSUME IInv, VInv, [Next]_vars PROVE VInv'
  OBVIOUS
<1>1. ASSUME NEW c \in Ctx, Recibe(c) \/ Procesa(c) PROVE VInv'
  BY <1>1, VPaso1, VBusca, VBuscaDev, VFiltra, VElige, VInyecta DEF Procesa
<1> QED BY <1>1, VActualizador, VRestoSistema DEF Next

LEMMA VInit == Init => VInv
BY DEF Init, VInv, VCtx, Limpio, Buscando, Aceptado

----------------------------------------------------------------------------
\* The row at which RT_busca_ifaz_uplink stops is the first that may stop it.
LEMMA PrimeraFila ==
  ASSUME NEW para \in SUBSET Nat, NEW n \in para, \A m \in para : n <= m
  PROVE  (CHOOSE x \in para : \A m \in para : x <= m) = n
<1>1. \E x \in para : \A m \in para : x <= m
  OBVIOUS
<1> DEFINE z == CHOOSE x \in para : \A m \in para : x <= m
<1>2. z \in para /\ \A m \in para : z <= m
  BY <1>1
<1>3. z <= n /\ n <= z
  BY <1>2
<1>4. z = n
  <2> HIDE DEF z
  <2> QED BY <1>2, <1>3
<1> QED BY <1>4

\* The search of a table ends at the first row that does not let it go on.
LEMMA PrimeraQueParaUplink ==
  ASSUME NEW dir, NEW n \in 1 .. cantidad, IInv,
         ~Pasa(n, dir), \A m \in 1 .. n - 1 : Pasa(m, dir)
  PROVE  RT_busca_ifaz_uplink(Publicadas, dir)
           = IF ruta[n].metric = Unreachable THEN SinDev ELSE ruta[n].dev
<1> DEFINE para == {m \in DOMAIN Publicadas :
                      \/ Publicadas[m].metric = Unreachable
                      \/ Coincide(Publicadas[m].dst, dir, Publicadas[m].dst_len)}
<1>1. /\ cantidad \in Nat /\ DOMAIN Publicadas = 1 .. cantidad
      /\ \A m \in 1 .. cantidad : Publicadas[m] = ruta[m]
  BY TablasAssumption DEF IInv, TypeOK, Publicadas
<1>2. n \in para /\ para \subseteq Nat
  BY <1>1 DEF Pasa
<1>3. ASSUME NEW m \in para PROVE n <= m
  <2>1. m \in 1 .. cantidad /\ ~Pasa(m, dir)
    BY <1>1 DEF Pasa
  <2> QED BY <1>1, <2>1
<1>4. (CHOOSE x \in para : \A m \in para : x <= m) = n
  <2> HIDE DEF para
  <2> QED BY <1>2, <1>3, PrimeraFila
<1>5. RT_busca_ifaz_uplink(Publicadas, dir)
        = IF Publicadas[n].metric = Unreachable THEN SinDev ELSE Publicadas[n].dev
  <2> DEFINE z == CHOOSE x \in para : \A m \in para : x <= m
  <2>1. RT_busca_ifaz_uplink(Publicadas, dir)
          = IF para = {} \/ Publicadas[z].metric = Unreachable
            THEN SinDev ELSE Publicadas[z].dev
    BY Zenon DEF RT_busca_ifaz_uplink
  <2>2. z = n /\ para # {}
    BY <1>2, <1>4
  <2> HIDE DEF para, z
  <2> QED BY <2>1, <2>2
<1> QED BY <1>1, <1>5

LEMMA JustificadoUplink ==
  ASSUME NEW c \in Ctx, IInv, Justificado(c)
  PROVE  LlegoPor(c, RT_busca_ifaz_uplink(Publicadas, pkt[c].ip6_src))
<1>1. PICK n \in 1 .. cantidad :
        /\ Cubre(n, pkt[c].ip6_src)
        /\ \A m \in 1 .. n - 1 : Pasa(m, pkt[c].ip6_src)
        /\ LlegoPor(c, ruta[n].dev)
  BY DEF Justificado
<1>2. ~Pasa(n, pkt[c].ip6_src) /\ ruta[n].metric # Unreachable
  BY <1>1 DEF Pasa, Cubre
<1> QED BY <1>1, <1>2, PrimeraQueParaUplink

\* However many rows the updater publishes while a packet is processed, short
\* of wiping the table, the packet goes only where the rows published by then
\* send it, and only if it came by the interface they give for its source.
THEOREM Forwarding == Spec => []SoloDondeDebe
<1>1. IInv /\ VInv => SoloDondeDebe
  <2> SUFFICES ASSUME IInv, VInv, NEW c \in Ctx,
                      pc[c] = "inyecta", intrusion[c] # "pisada",
                      NEW k \in downlink[c]
               PROVE  k \in Decide(Publicadas, pkt[c], c)
    BY DEF SoloDondeDebe
  <2>1. Justificado(c) /\ k \in IFS_crear_lista_ifaces_child(c) /\ Alcanza(c, k)
    BY DEF VInv, VCtx, Avance, Aceptado
  <2>2. LlegoPor(c, RT_busca_ifaz_uplink(Publicadas, pkt[c].ip6_src))
    BY <2>1, JustificadoUplink
  <2>3. \E r \in RT_filtra_por_ifaz(RT_filtra_sitelocals_por_rango(Publicadas), nombre(k)) :
          GEOPAG_calcula_distancia(pkt[c].ip6_dst, r.dst) <= pkt[c].dist
    <3>1. PICK n \in 1 .. cantidad :
            /\ EnRango(ruta[n].dst) /\ ruta[n].dev = nombre(k)
            /\ GEOPAG_calcula_distancia(pkt[c].ip6_dst, ruta[n].dst) <= pkt[c].dist
      BY <2>1 DEF Alcanza
    <3>2. n \in DOMAIN Publicadas /\ Publicadas[n] = ruta[n]
      BY DEF Publicadas
    <3>3. [dst |-> ruta[n].dst, dev |-> ruta[n].dev]
            \in RT_filtra_por_ifaz(RT_filtra_sitelocals_por_rango(Publicadas), nombre(k))
      BY <3>1, <3>2 DEF RT_filtra_sitelocals_por_rango, RT_filtra_por_ifaz
    <3> QED BY <3>1, <3>3
  <2> QED BY <2>1, <2>2, <2>3 DEF Decide, EnArea, LlegoPor
<1> QED BY InitInv, NextInv, VInit, VNext, <1>1, PTL DEF Spec

(***************************************************************************)
(* FilasPublicadas.  The invariant follows a pass through its iterations:  *)
(* the rows published are the site-local ones of the lines read, and the   *)
(* row after them holds the fields stored so far.                          *)
(***************************************************************************)

SitelocalesEs == {f \in Fila : f.dst \in Sitelocal}

\* The fields of the row being stored that are already in place.
Guardados(n) ==
  /\ n > 1 => ruta[cantidad + 1].dst = fila.dst
  /\ n > 2 => ruta[cantidad + 1].dst_len = fila.dst_len
  /\ n > 3 => ruta[cantidad + 1].metric = fila.metric
  /\ n > 4 => ruta[cantidad + 1].dev = fila.dev

FInv ==
  /\ upc \in {"lee", "guarda", "publica"}
       => Publicadas = Sitelocales(SubSeq(lineas, 1, j))
  /\ upc \in {"guarda", "publica"} => fila = lineas[j + 1] /\ fila.dst \in Sitelocal
  /\ upc = "guarda" => Guardados(campo)
  /\ upc = "publica" => Guardados(5)
  /\ upc \notin {"lee", "guarda", "publica"} => Publicadas = Sitelocales(lineas)
  /\ upc \in {"limpiaNombres", "relee"} => lineas = << >>

LEMMA SitelocalesEscoge == \A s : Sitelocales(s) = Escoge(s, SitelocalesEs)
BY DEF Sitelocales, SitelocalesEs

\* With no rows published the table is empty.
LEMMA SinPublicadas == cantidad = 0 => Publicadas = << >>
BY DEF Publicadas

LEMMA FInit == Init => FInv
<1> SUFFICES ASSUME Init PROVE FInv
  OBVIOUS
<1>1. Publicadas = << >> /\ upc = "cuenta" /\ lineas = << >>
  BY SinPublicadas DEF Init
<1>2. Sitelocales(<< >>) = << >>
  BY SitelocalesEscoge, EscogeVacia
<1> QED BY <1>1, <1>2 DEF FInv

\* A line more: its row is added to the site-local ones when it is one.
LEMMA LineaMas ==
  ASSUME NEW s \in Seq(Fila), NEW k \in 0 .. Len(s) - 1
  PROVE  Sitelocales(SubSeq(s, 1, k + 1))
           = IF s[k + 1].dst \in Sitelocal
             THEN Append(Sitelocales(SubSeq(s, 1, k)), s[k + 1])
             ELSE Sitelocales(SubSeq(s, 1, k))
<1> DEFINE r == SubSeq(s, 1, k)
<1>1. /\ k \in Nat /\ s[k + 1] \in Fila /\ k + 1 \in 1 .. Len(s)
      /\ \A n \in 1 .. k + 1 : s[n] \in Fila
  OBVIOUS
<1>2. /\ r \in Seq(Fila) /\ Len(r) = k /\ \A n \in 1 .. k : r[n] = s[n]
      /\ SubSeq(s, 1, k + 1) \in Seq(Fila) /\ Len(SubSeq(s, 1, k + 1)) = k + 1
      /\ \A n \in 1 .. k + 1 : SubSeq(s, 1, k + 1)[n] = s[n]
  OBVIOUS
<1> HIDE DEF r
<1>3. /\ Append(r, s[k + 1]) \in Seq(Fila) /\ Len(Append(r, s[k + 1])) = k + 1
      /\ \A n \in 1 .. k + 1 : Append(r, s[k + 1])[n] = s[n]
  BY <1>1, <1>2
<1>4. SubSeq(s, 1, k + 1) = Append(r, s[k + 1])
  <2> DEFINE a == SubSeq(s, 1, k + 1)
             b == Append(r, s[k + 1])
  <2>1. /\ a \in Seq(Fila) /\ b \in Seq(Fila) /\ Len(a) = Len(b)
        /\ \A n \in 1 .. Len(a) : a[n] = b[n]
    BY <1>2, <1>3
  <2> HIDE DEF a, b
  <2>2. a = b
    BY <2>1, SeqEqual
  <2> QED BY <2>2 DEF a, b
<1>5. \A q \in Seq(Fila), x \in Fila :
        Sitelocales(Append(q, x)) = IF x.dst \in Sitelocal
                                    THEN Append(Sitelocales(q), x) ELSE Sitelocales(q)
  <2> SUFFICES ASSUME NEW q \in Seq(Fila), NEW x \in Fila
               PROVE  Sitelocales(Append(q, x)) = IF x.dst \in Sitelocal
                                    THEN Append(Sitelocales(q), x) ELSE Sitelocales(q)
    OBVIOUS
  <2>1. x \in SitelocalesEs <=> x.dst \in Sitelocal
    BY DEF SitelocalesEs
  <2> QED BY <2>1, EscogeMas, SitelocalesEscoge
<1>6. Sitelocales(Append(r, s[k + 1]))
        = IF s[k + 1].dst \in Sitelocal
          THEN Append(Sitelocales(r), s[k + 1]) ELSE Sitelocales(r)
  BY <1>1, <1>2, <1>5
<1> QED BY <1>4, <1>6 DEF r

\* While the rows below cantidad stay, so does what is published.
LEMMA PublicadasQuietas ==
  ASSUME cantidad \in Nat, cantidad' = cantidad,
         \A n \in 1 .. cantidad : ruta'[n] = ruta[n]
  PROVE  Publicadas' = Publicadas
BY DEF Publicadas

LEMMA FLee == ASSUME IInv, FInv, Lee PROVE FInv'
<1>1. /\ contador \in Nat /\ j \in Nat /\ j < contador /\ lineas \in [1 .. contador -> Fila]
      /\ lineas \in Seq(Fila) /\ Len(lineas) = contador
      /\ cantidad \in Nat /\ Publicadas = Sitelocales(SubSeq(lineas, 1, j))
      /\ fila' = lineas[j + 1] /\ UNCHANGED << cantidad, ruta, lineas >>
  BY TablasAssumption DEF IInv, TypeOK, PosicionOK, FInv, Lee, tabla
<1>2. Publicadas' = Publicadas
  BY <1>1 DEF Publicadas
<1>3. CASE lineas[j + 1].dst \in Sitelocal
  <2>1. upc' = "guarda" /\ campo' = 1 /\ j' = j
    BY <1>1, <1>3 DEF Lee
  <2> QED BY <1>1, <1>2, <1>3, <2>1 DEF FInv, Guardados
<1>4. CASE lineas[j + 1].dst \notin Sitelocal
  <2>1. upc' = "lee" /\ j' = j + 1
    BY <1>1, <1>4 DEF Lee
  <2>2. Sitelocales(SubSeq(lineas, 1, j + 1)) = Publicadas
    <3>1. j \in 0 .. Len(lineas) - 1
      BY <1>1
    <3> QED BY <1>1, <1>4, <3>1, LineaMas
  <2> QED BY <1>1, <1>2, <2>1, <2>2 DEF FInv
<1> QED BY <1>3, <1>4

LEMMA FGuarda == ASSUME IInv, FInv, Guarda PROVE FInv'
<1> DEFINE n0 == cantidad + 1
           f == Campos[campo]
<1>1. /\ cantidad \in Nat /\ n0 \in 1 .. MAX_RUTAS /\ ruta \in [1 .. MAX_RUTAS -> Fila]
      /\ ruta[n0] \in Fila /\ fila \in Fila /\ campo \in 1 .. 4 /\ upc = "guarda"
  BY TablasAssumption DEF IInv, TypeOK, PosicionOK, Guarda, Campos
<1>2. /\ UNCHANGED << cantidad, lineas, fila, j >>
      /\ ruta' = [ruta EXCEPT ![n0] = [ruta[n0] EXCEPT ![f] = fila[f]]]
  BY DEF Guarda
<1>3. ruta'[n0] = [ruta[n0] EXCEPT ![f] = fila[f]]
  <2> DEFINE g == [ruta[n0] EXCEPT ![f] = fila[f]]
  <2> HIDE DEF g, n0
  <2>1. ruta' = [ruta EXCEPT ![n0] = g]
    BY <1>2 DEF g
  <2> QED BY <1>1, <2>1 DEF g
<1>4. Publicadas' = Publicadas
  <2>1. \A n \in 1 .. cantidad : n # n0
    BY <1>1
  <2> HIDE DEF f, n0
  <2>2. \A n \in 1 .. cantidad : ruta'[n] = ruta[n]
    <3>1. \A n \in 1 .. cantidad : n \in 1 .. MAX_RUTAS
      BY <1>1, TablasAssumption DEF n0
    <3> QED BY <1>1, <1>2, <2>1, <3>1
  <2> QED BY <1>1, <1>2, <2>2, PublicadasQuietas
<1>5. Guardados(campo)
  BY <1>1 DEF FInv
<1>6. /\ campo > 1 => ruta'[n0].dst = fila.dst
      /\ campo > 2 => ruta'[n0].dst_len = fila.dst_len
      /\ campo > 3 => ruta'[n0].metric = fila.metric
      /\ ruta'[n0][f] = fila[f]
  <2>1. CASE campo = 1
    BY <1>1, <1>3, <1>5, <2>1 DEF Guardados, Campos, Fila
  <2>2. CASE campo = 2
    BY <1>1, <1>3, <1>5, <2>2 DEF Guardados, Campos, Fila
  <2>3. CASE campo = 3
    BY <1>1, <1>3, <1>5, <2>3 DEF Guardados, Campos, Fila
  <2>4. CASE campo = 4
    BY <1>1, <1>3, <1>5, <2>4 DEF Guardados, Campos, Fila
  <2> QED BY <1>1, <2>1, <2>2, <2>3, <2>4
<1>7. /\ campo = 1 => f = "dst"
      /\ campo = 2 => f = "dst_len"
      /\ campo = 3 => f = "metric"
      /\ campo = 4 => f = "dev"
  BY DEF Campos
<1>8. /\ campo < 4 => upc' = "guarda" /\ campo' = campo + 1
      /\ ~(campo < 4) => upc' = "publica" /\ campo' = campo
  BY DEF Guarda, Campos
<1>9. /\ campo + 1 > 1 => ruta'[n0].dst = fila.dst
      /\ campo + 1 > 2 => ruta'[n0].dst_len = fila.dst_len
      /\ campo + 1 > 3 => ruta'[n0].metric = fila.metric
      /\ campo + 1 > 4 => ruta'[n0].dev = fila.dev
  <2> HIDE DEF f
  <2> QED BY <1>1, <1>6, <1>7
<1>10. ruta'[n0] = ruta'[cantidad' + 1] /\ fila' = fila
  BY <1>2
<1>11. (upc = "guarda" => Guardados(campo))' /\ (upc = "publica" => Guardados(5))'
  <2> HIDE DEF n0, f
  <2>1. CASE campo < 4
    BY <1>1, <1>8, <1>9, <1>10, <2>1 DEF Guardados
  <2>2. CASE ~(campo < 4)
    <3>1. campo = 4
      BY <1>1, <2>2
    <3> QED BY <1>8, <1>9, <1>10, <3>1 DEF Guardados
  <2> QED BY <2>1, <2>2
<1>12. upc' \in {"guarda", "publica"}
  BY <1>8
<1> QED BY <1>1, <1>2, <1>4, <1>11, <1>12 DEF FInv

\* A row whose fields are all in place is the row that was read.
LEMMA FilaEntera ==
  ASSUME NEW a \in Fila, NEW b \in Fila,
         a.dst = b.dst, a.dst_len = b.dst_len, a.metric = b.metric, a.dev = b.dev
  PROVE  a = b
BY DEF Fila

LEMMA FPublica == ASSUME IInv, FInv, Publica PROVE FInv'
<1>1. /\ contador \in Nat /\ j \in Nat /\ j < contador /\ lineas \in Seq(Fila)
      /\ Len(lineas) = contador /\ fila = lineas[j + 1] /\ fila.dst \in Sitelocal
      /\ cantidad \in Nat /\ cantidad + 1 \in 1 .. MAX_RUTAS
      /\ ruta[cantidad + 1] \in Fila /\ fila \in Fila /\ Guardados(5)
      /\ Publicadas = Sitelocales(SubSeq(lineas, 1, j)) /\ ruta \in [1 .. MAX_RUTAS -> Fila]
  BY TablasAssumption DEF IInv, TypeOK, PosicionOK, FInv, Publica
<1>2. ruta[cantidad + 1] = fila
  BY <1>1, FilaEntera DEF Guardados
<1>3. /\ cantidad' = cantidad + 1 /\ j' = j + 1 /\ upc' = "lee"
      /\ UNCHANGED << ruta, lineas >>
  BY DEF Publica
<1>4. Publicadas' = Append(Publicadas, fila)
  <2>0. \A n \in 1 .. cantidad + 1 : ruta[n] \in Fila
    BY <1>1, TablasAssumption
  <2>1. Publicadas \in Seq(Fila) /\ Len(Publicadas) = cantidad
    <3>1. [n \in 1 .. cantidad |-> ruta[n]] \in [1 .. cantidad -> Fila]
      BY <1>1, <2>0
    <3> QED BY <1>1, <3>1 DEF Publicadas
  <2>2. Publicadas' \in Seq(Fila) /\ Len(Publicadas') = cantidad + 1
    <3>1. [n \in 1 .. cantidad + 1 |-> ruta[n]] \in [1 .. cantidad + 1 -> Fila]
      BY <1>1, <2>0
    <3> QED BY <1>1, <1>3, <3>1 DEF Publicadas
  <2>3. /\ Append(Publicadas, fila) \in Seq(Fila) /\ Len(Append(Publicadas, fila)) = cantidad + 1
        /\ \A n \in 1 .. cantidad : Append(Publicadas, fila)[n] = Publicadas[n]
        /\ Append(Publicadas, fila)[cantidad + 1] = fila
    BY <1>1, <2>1, AppendProperties
  <2>4. \A n \in 1 .. cantidad + 1 : Publicadas'[n] = ruta[n]
    BY <1>3 DEF Publicadas
  <2>5. \A n \in 1 .. cantidad : Publicadas[n] = ruta[n]
    BY DEF Publicadas
  <2>6. \A n \in 1 .. cantidad + 1 : Publicadas'[n] = Append(Publicadas, fila)[n]
    BY <1>1, <1>2, <2>3, <2>4, <2>5
  <2> DEFINE a == Publicadas'
             b == Append(Publicadas, fila)
  <2>7. /\ a \in Seq(Fila) /\ b \in Seq(Fila) /\ Len(a) = Len(b)
        /\ \A n \in 1 .. Len(a) : a[n] = b[n]
    BY <2>2, <2>3, <2>6
  <2> HIDE DEF a, b
  <2>8. a = b
    BY <2>7, SeqEqual
  <2> QED BY <2>8 DEF a, b
<1>5. Sitelocales(SubSeq(lineas, 1, j + 1)) = Append(Publicadas, fila)
  <2>1. j \in 0 .. Len(lineas) - 1
    BY <1>1
  <2> QED BY <1>1, <2>1, LineaMas
<1> QED BY <1>3, <1>4, <1>5 DEF FInv

LEMMA FActualizador == ASSUME IInv, FInv, Actualizador PROVE FInv'
<1>0. cantidad \in Nat
  BY TablasAssumption DEF IInv, TypeOK
<1>1. CASE Limpia
  <2>1. cantidad' = 0 /\ lineas' = << >> /\ upc' = "limpiaNombres"
    BY <1>1 DEF Limpia
  <2>2. Publicadas' = << >>
    BY <2>1 DEF Publicadas
  <2>3. Sitelocales(lineas') = << >>
    BY <2>1, SitelocalesEscoge, EscogeVacia
  <2> QED BY <2>1, <2>2, <2>3 DEF FInv
<1>2. CASE LimpiaNombres
  <2>1. /\ upc' = "relee" /\ lineas' = lineas /\ cantidad = 0 /\ cantidad' = 0
        /\ lineas = << >> /\ Publicadas = Sitelocales(lineas)
    BY <1>2 DEF LimpiaNombres, IInv, PosicionOK, FInv
  <2>2. Publicadas' = Publicadas
    BY <2>1 DEF Publicadas
  <2> QED BY <2>1, <2>2 DEF FInv
<1>3. CASE Relee
  <2>1. /\ upc' = "lee" /\ cantidad' = cantidad /\ cantidad = 0 /\ j' = j /\ j = 0
        /\ ruta' = ruta
    BY <1>3 DEF Relee, IInv, PosicionOK, tabla
  <2>2. Publicadas' = << >>
    BY <2>1 DEF Publicadas
  <2>3. SubSeq(lineas', 1, 0) = << >>
    BY SubSeqEmpty
  <2>4. Sitelocales(SubSeq(lineas', 1, j')) = << >>
    BY <2>1, <2>3, SitelocalesEscoge, EscogeVacia
  <2> QED BY <2>1, <2>2, <2>4 DEF FInv
<1>4. CASE Cierra
  <2>1. /\ upc' = "duerme" /\ UNCHANGED << lineas, cantidad, ruta >> /\ j = contador
        /\ Publicadas = Sitelocales(SubSeq(lineas, 1, j)) /\ lineas \in Seq(Fila)
        /\ lineas \in [1 .. contador -> Fila] /\ contador \in Nat
    BY <1>4, TablasAssumption DEF Cierra, FInv, IInv, TypeOK, PosicionOK, tabla
  <2>2. Len(lineas) = j
    BY <2>1
  <2>3. SubSeq(lineas, 1, j) = lineas
    BY <2>1, <2>2, SubSeqFull
  <2>4. Publicadas' = Publicadas
    BY <2>1 DEF Publicadas
  <2> QED BY <2>1, <2>3, <2>4 DEF FInv
<1>5. CASE Despierta \/ Cuenta
  <2>1. /\ upc \in {"duerme", "cuenta"} /\ upc' \in {"cuenta", "limpia"}
        /\ UNCHANGED << lineas, cantidad, ruta >>
    BY <1>5 DEF Despierta, Cuenta, tabla
  <2>2. Publicadas' = Publicadas
    BY <2>1 DEF Publicadas
  <2> QED BY <2>1, <2>2 DEF FInv
<1> QED BY <1>1, <1>2, <1>3, <1>4, <1>5, FLee, FGuarda, FPublica DEF Actualizador

LEMMA FNext == IInv /\ FInv /\ [Next]_vars => FInv'
<1> SUFFICES ASSUME IInv, FInv, [Next]_vars PROVE FInv'
  OBVIOUS
<1>1. CASE Actualizador
  BY <1>1, FActualizador
<1>2. CASE UNCHANGED << tabla, upd >>
  <2>1. Publicadas' = Publicadas
    BY <1>2 DEF tabla, Publicadas
  <2> QED BY <1>2, <2>1 DEF FInv, Guardados, upd, tabla
<1>3. CASE CambiaKernel \/ Principal \/ Falla \/ UNCHANGED vars
  BY <1>2, <1>3 DEF CambiaKernel, Principal, CreaActualizador, CreaContexto, Falla,
     AbreFalla, GuardaFuera, RecibeFalla, InyectaFalla, Muere, vars
<1>4. ASSUME NEW c \in Ctx, Recibe(c) \/ Procesa(c) PROVE FInv'
  BY <1>2, <1>4 DEF Recibe, Procesa, Paso1, Paso1Descarta, Busca, BuscaMetrica,
     BuscaMascara, BuscaRed, BuscaDev, Filtra, FiltraRango, FiltraCopia, FiltraCopiaDev,
     Elige, Inyecta, Devuelve
<1> QED BY <1>1, <1>3, <1>4 DEF Next

LEMMA PrefijoConcat ==
  ASSUME NEW T, NEW s \in Seq(T), NEW r \in Seq(T)
  PROVE  IsPrefix(s, s \o r)
<1>1. s \o r \in Seq(T) /\ Len(s \o r) = Len(s) + Len(r)
  BY ConcatProperties
<1>2. Len(s) <= Len(s \o r)
  BY <1>1
<1>3. SubSeq(s, 1, Len(s)) = SubSeq(s \o r, 1, Len(s))
  <2>1. CASE Len(s) = 0
    BY <2>1, SubSeqEmpty
  <2>2. CASE Len(s) # 0
    <3>1. 1 \in 1 .. Len(s) /\ Len(s) \in 1 .. Len(s)
      BY <2>2
    <3> QED BY <3>1, SubSeqOfConcat1, SubSeqFull
  <2> QED BY <2>1, <2>2
<1> QED BY <1>2, <1>3 DEF IsPrefix

\* The rows below cantidad are always whole rows of the last reading, in its
\* order, and all of them once the pass is over.
THEOREM WholeRows == Spec => []FilasPublicadas
<1>1. IInv /\ FInv => FilasPublicadas
  <2> SUFFICES ASSUME IInv, FInv PROVE FilasPublicadas
    OBVIOUS
  <2>1. lineas \in Seq(Fila)
    BY DEF IInv, TypeOK
  <2>2. ASSUME NEW k \in 0 .. Len(lineas), Publicadas = Sitelocales(SubSeq(lineas, 1, k))
        PROVE  IsPrefix(Publicadas, Sitelocales(lineas))
    <3>1. PICK r \in Seq(Fila) :
            Escoge(lineas, SitelocalesEs)
              = Escoge(SubSeq(lineas, 1, k), SitelocalesEs) \o r
      BY <2>1, EscogePrefijo, ZenonT(60)
    <3>2. SubSeq(lineas, 1, k) \in Seq(Fila)
      BY <2>1
    <3>3. Escoge(SubSeq(lineas, 1, k), SitelocalesEs) \in Seq(Fila)
      BY <3>2, EscogeTipo
    <3>4. Publicadas \in Seq(Fila) /\ Sitelocales(lineas) = Publicadas \o r
      BY <2>2, <3>1, <3>3, SitelocalesEscoge
    <3>5. IsPrefix(Publicadas, Publicadas \o r)
      BY ONLY <3>4, PrefijoConcat
    <3> QED BY <3>4, <3>5, Zenon
  <2>3. CASE upc \in {"lee", "guarda", "publica"}
    <3>1. j \in 0 .. Len(lineas)
      BY <2>3, TablasAssumption DEF IInv, TypeOK, PosicionOK
    <3> QED BY <2>2, <2>3, <3>1 DEF FInv, FilasPublicadas
  <2>4. CASE upc \notin {"lee", "guarda", "publica"}
    <3>1. Publicadas = Sitelocales(lineas)
      BY <2>4 DEF FInv
    <3>2. SubSeq(lineas, 1, Len(lineas)) = lineas /\ Len(lineas) \in 0 .. Len(lineas)
      BY <2>1, SubSeqFull
    <3> QED BY <2>2, <3>1, <3>2 DEF FilasPublicadas
  <2> QED BY <2>3, <2>4
<1> QED BY InitInv, NextInv, FInit, FNext, <1>1, PTL DEF Spec

(***************************************************************************)
(* SoloDesbordaLectura.  The lines in hand come from the two tables, and   *)
(* the rows published are those of the lines passed (FInv): when there is  *)
(* one more to store and no room, the reading has more than fit.           *)
(***************************************************************************)

LInv ==
  /\ upc # "cuenta" => \E u \in Tablas : contador = Len(u)
  /\ upc \in {"lee", "guarda", "publica"}
       => \E t, u \in Tablas : lineas = Lectura(t, Len(u))

LEMMA LInit == Init => LInv
BY DEF Init, LInv

LEMMA LNext == IInv /\ LInv /\ [Next]_vars => LInv'
<1> SUFFICES ASSUME IInv, LInv, [Next]_vars PROVE LInv'
  OBVIOUS
<1>1. CASE UNCHANGED upd
  BY <1>1 DEF LInv, upd
<1>2. CASE CambiaKernel \/ Principal \/ Falla \/ UNCHANGED vars
  BY <1>1, <1>2 DEF CambiaKernel, Principal, CreaActualizador, CreaContexto, Falla,
     AbreFalla, GuardaFuera, RecibeFalla, InyectaFalla, Muere, vars
<1>3. ASSUME NEW c \in Ctx, Recibe(c) \/ Procesa(c) PROVE LInv'
  BY <1>1, <1>3 DEF Recibe, Procesa, Paso1, Paso1Descarta, Busca, BuscaMetrica,
     BuscaMascara, BuscaRed, BuscaDev, Filtra, FiltraRango, FiltraCopia, FiltraCopiaDev,
     Elige, Inyecta, Devuelve
<1>4. CASE Cuenta
  <2>1. upc' = "limpia" /\ contador' = Len(kernel) /\ kernel \in Tablas
    BY <1>4 DEF Cuenta, NumeroDeLineas, IInv, TypeOK
  <2> QED BY <2>1 DEF LInv
<1>5. CASE Relee
  <2>1. /\ upc = "relee" /\ contador' = contador /\ lineas' = Lectura(kernel, contador)
        /\ kernel \in Tablas
    BY <1>5 DEF Relee, IInv, TypeOK
  <2>2. PICK u \in Tablas : contador = Len(u)
    BY <2>1 DEF LInv
  <2> QED BY <2>1, <2>2 DEF LInv
<1>6. CASE Despierta \/ Limpia \/ LimpiaNombres \/ Cierra
  <2>1. /\ upc' \notin {"lee", "guarda", "publica"} /\ contador' = contador
        /\ upc' # "cuenta" => upc # "cuenta"
    BY <1>6 DEF Despierta, Limpia, LimpiaNombres, Cierra
  <2> QED BY <2>1 DEF LInv
<1>7. CASE Lee \/ Guarda \/ Publica
  <2>1. upc \in {"lee", "guarda", "publica"} /\ contador' = contador /\ lineas' = lineas
    BY <1>7 DEF Lee, Guarda, Publica
  <2> QED BY <2>1 DEF LInv
<1> QED BY <1>2, <1>3, <1>4, <1>5, <1>6, <1>7 DEF Next, Actualizador

\* A row goes past the array only when the lines counted in one table and read
\* in another hold more site-local rows than it does.
THEOREM OverflowsOnReading == Spec => []SoloDesbordaLectura
<1>1. IInv /\ FInv /\ LInv => SoloDesbordaLectura
  <2> SUFFICES ASSUME IInv, FInv, LInv, upc = "guarda", cantidad = MAX_RUTAS
               PROVE  \E t, u \in Tablas : /\ lineas = Lectura(t, Len(u))
                                           /\ Len(Sitelocales(lineas)) > MAX_RUTAS
    BY DEF SoloDesbordaLectura
  <2>1. /\ lineas \in Seq(Fila) /\ Len(lineas) = contador /\ j \in 0 .. Len(lineas) - 1
        /\ lineas[j + 1].dst \in Sitelocal /\ fila = lineas[j + 1] /\ fila \in Fila
        /\ Publicadas = Sitelocales(SubSeq(lineas, 1, j)) /\ cantidad \in Nat
    BY TablasAssumption DEF IInv, TypeOK, PosicionOK, FInv
  <2>2. Publicadas \in Seq(Fila) /\ Len(Publicadas) = cantidad
    <3>1. \A n \in 1 .. cantidad : ruta[n] \in Fila
      BY <2>1, TablasAssumption DEF IInv, TypeOK
    <3>2. [n \in 1 .. cantidad |-> ruta[n]] \in [1 .. cantidad -> Fila]
      BY <2>1, <3>1
    <3> QED BY <2>1, <3>2 DEF Publicadas
  <2>3. Sitelocales(SubSeq(lineas, 1, j + 1)) = Append(Publicadas, fila)
    BY <2>1, LineaMas
  <2>4. PICK r \in Seq(Fila) :
          Sitelocales(lineas) = Sitelocales(SubSeq(lineas, 1, j + 1)) \o r
    <3>1. j + 1 \in 0 .. Len(lineas)
      BY <2>1
    <3>2. PICK r \in Seq(Fila) :
            Escoge(lineas, SitelocalesEs)
              = Escoge(SubSeq(lineas, 1, j + 1), SitelocalesEs) \o r
      BY <2>1, <3>1, EscogePrefijo, ZenonT(60)
    <3>3. SubSeq(lineas, 1, j + 1) \in Seq(Fila)
      BY <2>1
    <3> QED BY <2>1, <3>2, <3>3, SitelocalesEscoge
  <2>5. Len(Sitelocales(lineas)) >= cantidad + 1
    <3>1. Append(Publicadas, fila) \in Seq(Fila) /\ Len(Append(Publicadas, fila)) = cantidad + 1
      BY <2>1, <2>2, AppendProperties
    <3>2. Len(Append(Publicadas, fila) \o r) = cantidad + 1 + Len(r) /\ Len(r) \in Nat
      <4> DEFINE a == Append(Publicadas, fila)
      <4> HIDE DEF a
      <4>1. a \in Seq(Fila) /\ Len(a) = cantidad + 1 /\ r \in Seq(Fila)
        BY <2>4, <3>1 DEF a
      <4>2. Len(a \o r) = Len(a) + Len(r) /\ Len(r) \in Nat
        BY ONLY <4>1
      <4> QED BY <4>1, <4>2 DEF a
    <3> QED BY <2>1, <2>3, <2>4, <3>2
  <2>6. PICK t \in Tablas, u \in Tablas : lineas = Lectura(t, Len(u))
    BY DEF LInv
  <2>7. Len(Sitelocales(lineas)) > MAX_RUTAS
    BY <2>1, <2>5
  <2> QED BY <2>6, <2>7
<1> QED BY InitInv, NextInv, FInit, FNext, LInit, LNext, <1>1, PTL DEF Spec

(***************************************************************************)
(* DecisionExacta.  What SoloDondeDebe says of the rows a context has      *)
(* copied, that they are of the table, is not enough here: every row in    *)
(* range that the second loop has passed must have been copied, and a      *)
(* search that ends before it must have had reason to, which is what the   *)
(* first loop has passed over.                                             *)
(***************************************************************************)

\* The rows in range that the loop has passed have been copied.
Copiadas(c, hasta) ==
  \A n \in 1 .. cantidad :
    n < hasta /\ EnRango(ruta[n].dst)
      => [dst |-> ruta[n].dst, dev |-> ruta[n].dev] \in rutas[c]

ECtx(c) ==
  intrusion[c] = "nada" =>
    /\ pc[c] \in {"filtra", "rango", "copia", "copiaDev"} => Copiadas(c, i[c])
    /\ pc[c] = "elige" => Copiadas(c, cantidad + 1)

EInv == \A c \in Ctx : ECtx(c)

LEMMA EInit == Init => EInv
BY DEF Init, EInv, ECtx

\* A step that leaves the published rows and the context alone.
LEMMA EQuieto ==
  ASSUME NEW c \in Ctx, ECtx(c), cantidad \in Nat, Quieto(c), cantidad' = cantidad,
         \A n \in 1 .. cantidad : ruta'[n] = ruta[n],
         intrusion'[c] = "nada" => intrusion[c] = "nada"
  PROVE  ECtx(c)'
BY DEF ECtx, Copiadas, Quieto

LEMMA EActualizador == ASSUME IInv, EInv, Actualizador PROVE EInv'
<1>0. cantidad \in Nat /\ pc \in [Ctx -> Estados] /\ ruta \in [1 .. MAX_RUTAS -> Fila]
      /\ intrusion \in [Ctx -> {"nada", "crece", "pisada"}]
  BY TablasAssumption DEF IInv, TypeOK
<1>1. CASE Limpia \/ Publica
  \* The context is not searching, or it now knows it was disturbed.
  <2> SUFFICES ASSUME NEW c \in Ctx, intrusion'[c] = "nada"
               PROVE  ECtx(c)'
    BY DEF EInv, ECtx
  <2>1. pc[c] = "espera" /\ pc'[c] = pc[c]
    BY <1>0, <1>1 DEF Limpia, Publica
  <2> QED BY <2>1 DEF ECtx
<1>2. CASE ~Limpia /\ ~Publica
  <2>1. /\ UNCHANGED << cantidad, pc, local, intrusion >>
        /\ \A n \in 1 .. cantidad : ruta'[n] = ruta[n]
    <3>1. CASE LimpiaNombres
      BY <1>0, <3>1 DEF LimpiaNombres, IInv, PosicionOK
    <3>2. CASE Guarda
      BY <1>0, <3>2 DEF Guarda
    <3>3. CASE Despierta \/ Cuenta \/ Relee \/ Lee \/ Cierra
      BY <3>3 DEF Despierta, Cuenta, Relee, Lee, Cierra, tabla
    <3> QED BY <1>2, <3>1, <3>2, <3>3 DEF Actualizador
  <2>2. \A c \in Ctx : Quieto(c)
    BY <2>1 DEF Quieto, local, bucle
  <2> QED BY <1>0, <2>1, <2>2, EQuieto DEF EInv
<1> QED BY <1>1, <1>2

LEMMA ERestoSistema ==
  ASSUME IInv, EInv, CambiaKernel \/ Principal \/ Falla \/ UNCHANGED vars
  PROVE  EInv'
<1>1. UNCHANGED << tabla, pc, local, intrusion >>
  BY DEF CambiaKernel, Principal, CreaActualizador, CreaContexto, Falla, AbreFalla,
     GuardaFuera, RecibeFalla, InyectaFalla, Muere, vars
<1>2. cantidad \in Nat /\ cantidad' = cantidad /\ ruta' = ruta
  BY <1>1, TablasAssumption DEF IInv, TypeOK, tabla
<1>3. \A c \in Ctx : Quieto(c) /\ intrusion'[c] = intrusion[c]
  BY <1>1 DEF Quieto, local, bucle
<1> QED BY <1>2, <1>3, EQuieto DEF EInv

LEMMA EContexto ==
  ASSUME NEW c \in Ctx, IInv, EInv, Recibe(c) \/ Procesa(c), ECtx(c)'
  PROVE  EInv'
<1>1. /\ UNCHANGED tabla
      /\ \A d \in Ctx \ {c} : Quieto(d) /\ intrusion'[d] = intrusion[d]
  BY OtrosQuietos
<1>0. cantidad \in Nat /\ UNCHANGED << cantidad, ruta >>
  BY <1>1, TablasAssumption DEF tabla, IInv, TypeOK
<1>2. \A d \in Ctx \ {c} : ECtx(d)'
  BY <1>0, <1>1, EQuieto DEF EInv
<1> QED BY <1>2 DEF EInv

LEMMA EFiltra ==
  ASSUME NEW c \in Ctx, IInv, VInv, EInv,
         Filtra(c) \/ FiltraRango(c) \/ FiltraCopia(c) \/ FiltraCopiaDev(c)
  PROVE  ECtx(c)'
<1> SUFFICES ASSUME intrusion'[c] = "nada"
             PROVE  /\ (pc[c] \in {"filtra", "rango", "copia", "copiaDev"}
                          => Copiadas(c, i[c]))'
                    /\ (pc[c] = "elige" => Copiadas(c, cantidad + 1))'
  BY DEF ECtx
<1> USE DEF IInv, TypeOK
<1>1. /\ UNCHANGED << cantidad, ruta, intrusion >> /\ cantidad \in Nat /\ i[c] \in Nat
      /\ pc[c] \in {"filtra", "rango", "copia", "copiaDev"}
  BY TablasAssumption DEF Filtra, FiltraRango, FiltraCopia, FiltraCopiaDev, local, tabla
<1>2. Copiadas(c, i[c]) /\ Avance(c)
  BY <1>1 DEF EInv, ECtx, VInv, VCtx, Aceptado
<1>3. CASE Filtra(c)
  <2>1. /\ rutas'[c] = rutas[c] /\ i'[c] = i[c]
        /\ pc'[c] = IF i[c] <= cantidad THEN "rango" ELSE "elige"
    BY <1>3 DEF Filtra, Quedan, local, bucle
  <2>2. CASE i[c] <= cantidad
    BY <1>1, <1>2, <2>1, <2>2 DEF Copiadas
  <2>3. CASE ~(i[c] <= cantidad)
    <3>1. \A n \in 1 .. cantidad : n < i[c]
      BY <1>1, <2>3
    <3> QED BY <1>1, <1>2, <2>1, <2>3, <3>1 DEF Copiadas
  <2> QED BY <2>2, <2>3
<1>4. CASE FiltraRango(c)
  <2>1. rutas'[c] = rutas[c]
    BY <1>4 DEF FiltraRango
  <2>2. CASE EnRango(ruta[i[c]].dst)
    <3>1. pc'[c] = "copia" /\ i'[c] = i[c]
      BY <1>4, <2>2 DEF FiltraRango
    <3> QED BY <1>1, <1>2, <2>1, <3>1 DEF Copiadas
  <2>3. CASE ~EnRango(ruta[i[c]].dst)
    <3>1. pc'[c] = "filtra" /\ i'[c] = i[c] + 1
      BY <1>4, <2>3 DEF FiltraRango
    <3>2. \A n \in 1 .. cantidad : n < i[c] + 1 => n < i[c] \/ n = i[c]
      BY <1>1
    <3> QED BY <1>1, <1>2, <2>1, <2>3, <3>1, <3>2 DEF Copiadas
  <2> QED BY <2>2, <2>3
<1>5. CASE FiltraCopia(c)
  <2>1. rutas'[c] = rutas[c] /\ pc'[c] = "copiaDev" /\ i'[c] = i[c]
    BY <1>5 DEF FiltraCopia
  <2> QED BY <1>1, <1>2, <2>1 DEF Copiadas
<1>6. CASE FiltraCopiaDev(c)
  <2>1. /\ pc'[c] = "filtra" /\ i'[c] = i[c] + 1
        /\ rutas'[c] = rutas[c] \cup {[dst |-> copia[c].dst, dev |-> ruta[i[c]].dev]}
        /\ copia[c].dst = ruta[i[c]].dst
    BY <1>2, <1>6 DEF FiltraCopiaDev, Avance
  <2>2. \A n \in 1 .. cantidad : n < i[c] + 1 => n < i[c] \/ n = i[c]
    BY <1>1
  <2> QED BY <1>1, <1>2, <2>1, <2>2 DEF Copiadas
<1> QED BY <1>3, <1>4, <1>5, <1>6

LEMMA ENext == IInv /\ VInv /\ EInv /\ [Next]_vars => EInv'
<1> SUFFICES ASSUME IInv, VInv, EInv, [Next]_vars PROVE EInv'
  OBVIOUS
<1> USE DEF IInv, TypeOK
<1>1. ASSUME NEW c \in Ctx, Recibe(c) \/ Procesa(c) PROVE EInv'
  <2>1. CASE Filtra(c) \/ FiltraRango(c) \/ FiltraCopia(c) \/ FiltraCopiaDev(c)
    BY <1>1, <2>1, EFiltra, EContexto
  <2>2. CASE Acaba(c)
    <3>1. ECtx(c)'
      BY <2>2 DEF Acaba, ECtx
    <3> QED BY <1>1, <3>1, EContexto
  <2>3. CASE BuscaDev(c) /\ ~Acaba(c)
    <3>1. i'[c] = 1 /\ pc'[c] = "filtra"
      BY <2>3 DEF BuscaDev
    <3>2. ECtx(c)'
      BY <3>1 DEF ECtx, Copiadas
    <3> QED BY <1>1, <3>2, EContexto
  <2>4. CASE /\ ~Acaba(c)
             /\ \/ Recibe(c) \/ Paso1(c) \/ Paso1Descarta(c) \/ Busca(c) \/ BuscaMetrica(c)
                \/ BuscaMascara(c) \/ BuscaRed(c) \/ Elige(c)
    <3>1. pc'[c] \in {"paso1", "busca", "metrica", "mascara", "red", "dev", "inyecta"}
      BY <2>4 DEF Recibe, Paso1, Paso1Descarta, Busca, BuscaMetrica, BuscaMascara,
         BuscaRed, Elige
    <3>2. ECtx(c)'
      BY <3>1 DEF ECtx
    <3> QED BY <1>1, <3>2, EContexto
  <2>5. CASE Inyecta(c)
    <3>1. pc'[c] = "inyecta"
      BY <2>5 DEF Inyecta, IInv, TypeOK
    <3>2. ECtx(c)'
      BY <3>1 DEF ECtx
    <3> QED BY <1>1, <3>2, EContexto
  <2> QED BY <1>1, <2>1, <2>2, <2>3, <2>4, <2>5 DEF Procesa, Devuelve
<1> QED BY <1>1, EActualizador, ERestoSistema DEF Next

\* A search that gives no interface, or one the packet did not come by, sends
\* it nowhere.
LEMMA NoLlego ==
  ASSUME NEW c \in Ctx, ~LlegoPor(c, RT_busca_ifaz_uplink(Publicadas, pkt[c].ip6_src))
  PROVE  Decide(Publicadas, pkt[c], c) = {}
BY DEF Decide, LlegoPor

LEMMA SinInterfaz == ASSUME NEW c \in Ctx PROVE ~LlegoPor(c, SinDev)
<1>1. ASSUME NEW k \in ifaces_activas PROVE nombre(k) \in Dev
  <2>1. todas_ifaces \in Seq(Entrada) /\ k \in DOMAIN todas_ifaces
    BY IfacesAssumption DEF ifaces_activas, IFS_sacar_solo_sitelocal
  <2>2. todas_ifaces[k] \in Entrada
    BY <2>1
  <2> QED BY <2>2 DEF nombre, Entrada
<1> QED BY <1>1, DevAssumption DEF LlegoPor, IFS_consigue_struct_ifaz

\* The first loop ends with nothing: the table is exhausted, an unreachable row
\* comes first, or the row found is on another interface.
LEMMA DecideNada ==
  ASSUME NEW c \in Ctx, IInv, Avance(c), Acaba(c),
         Busca(c) \/ BuscaMetrica(c) \/ BuscaDev(c)
  PROVE  Decide(Publicadas, pkt[c], c) = {}
<1> DEFINE dir == pkt[c].ip6_src
<1>1. /\ cantidad \in Nat /\ i[c] \in Nat \ {0} /\ pc[c] \in Buscando
      /\ pc'[c] = "espera"
      /\ \A m \in 1 .. i[c] - 1 : m <= cantidad /\ Pasa(m, dir)
  BY TablasAssumption DEF IInv, TypeOK, Avance, Busca, BuscaMetrica, BuscaDev, Buscando, Acaba
<1>2. CASE Busca(c)
  <2>1. ~(i[c] <= cantidad)
    BY <1>1, <1>2 DEF Busca, Quedan, IInv, TypeOK
  <2>2. \A m \in 1 .. cantidad : Pasa(m, dir)
    BY <1>1, <2>1
  <2>3. RT_busca_ifaz_uplink(Publicadas, dir) = SinDev
    BY <2>2 DEF RT_busca_ifaz_uplink, Publicadas, Pasa
  <2> QED BY <2>3, SinInterfaz, NoLlego
<1>3. CASE BuscaMetrica(c)
  <2>1. ruta[i[c]].metric = Unreachable /\ i[c] \in 1 .. cantidad
    BY <1>1, <1>3 DEF BuscaMetrica, Avance, ConIndice, IInv, TypeOK
  <2>2. ~Pasa(i[c], dir)
    BY <2>1 DEF Pasa
  <2>3. RT_busca_ifaz_uplink(Publicadas, dir) = SinDev
    BY <1>1, <2>1, <2>2, PrimeraQueParaUplink
  <2> QED BY <2>3, SinInterfaz, NoLlego
<1>4. CASE BuscaDev(c)
  <2>1. ~LlegoPor(c, ruta[i[c]].dev) /\ i[c] \in 1 .. cantidad /\ Cubre(i[c], dir)
    BY <1>1, <1>4 DEF BuscaDev, Avance, ConIndice, IInv, TypeOK
  <2>2. ~Pasa(i[c], dir) /\ ruta[i[c]].metric # Unreachable
    BY <2>1 DEF Pasa, Cubre
  <2>3. RT_busca_ifaz_uplink(Publicadas, dir) = ruta[i[c]].dev
    BY <1>1, <2>1, <2>2, PrimeraQueParaUplink
  <2> QED BY <2>1, <2>3, NoLlego
<1> QED BY <1>2, <1>3, <1>4

\* The copy is complete and has nothing else.
LEMMA CopiaCompleta ==
  ASSUME NEW c \in Ctx, IInv, Avance(c), Copiadas(c, cantidad + 1)
  PROVE  rutas[c] = RT_filtra_sitelocals_por_rango(Publicadas)
<1>1. /\ cantidad \in Nat /\ DOMAIN Publicadas = 1 .. cantidad
      /\ \A n \in 1 .. cantidad : Publicadas[n] = ruta[n] /\ n < cantidad + 1
      /\ rutas[c] \subseteq Copias
  BY TablasAssumption DEF IInv, TypeOK, Publicadas
<1> DEFINE G == {[dst |-> ruta[n].dst, dev |-> ruta[n].dev] :
                   n \in {m \in 1 .. cantidad : EnRango(ruta[m].dst)}}
<1>2. RT_filtra_sitelocals_por_rango(Publicadas) = G
  BY <1>1 DEF RT_filtra_sitelocals_por_rango
<1>3. G \subseteq rutas[c]
  BY <1>1 DEF Copiadas
<1>4. ASSUME NEW r \in rutas[c] PROVE r \in G
  <2>1. PICK n \in 1 .. cantidad :
          EnRango(ruta[n].dst) /\ r.dst = ruta[n].dst /\ r.dev = ruta[n].dev
    BY DEF Avance
  <2>2. r = [dst |-> r.dst, dev |-> r.dev]
    BY <1>1 DEF Copias
  <2> QED BY <2>1, <2>2
<1> QED BY <1>2, <1>3, <1>4

LEMMA DecideElige ==
  ASSUME NEW c \in Ctx, IInv, Avance(c), Copiadas(c, cantidad + 1), Elige(c)
  PROVE  downlink'[c] = Decide(Publicadas, pkt[c], c)
<1> DEFINE bajan == {k \in IFS_crear_lista_ifaces_child(c) :
                       \E r \in RT_filtra_por_ifaz(rutas[c], nombre(k)) :
                          GEOPAG_calcula_distancia(pkt[c].ip6_dst, r.dst)
                            <= pkt[c].dist}
<1>1. Justificado(c)
  BY DEF Elige, Avance, Aceptado
<1>2. LlegoPor(c, RT_busca_ifaz_uplink(Publicadas, pkt[c].ip6_src))
  BY <1>1, JustificadoUplink
<1>3. Decide(Publicadas, pkt[c], c) = EnArea(Publicadas, pkt[c], c)
  BY <1>2 DEF Decide, LlegoPor
<1>4. EnArea(Publicadas, pkt[c], c) = bajan
  BY CopiaCompleta DEF EnArea
<1>5. downlink \in [Ctx -> SUBSET Ctx]
  BY DEF IInv, TypeOK
<1>6. downlink'[c] = bajan
  <2>1. IF bajan = {} THEN Acaba(c) ELSE downlink' = [downlink EXCEPT ![c] = bajan]
    BY DEF Elige
  <2> HIDE DEF bajan
  <2>2. CASE bajan = {}
    BY <1>5, <2>1, <2>2 DEF Acaba
  <2>3. CASE bajan # {}
    BY <1>5, <2>1, <2>3
  <2> QED BY <2>2, <2>3
<1> QED BY <1>3, <1>4, <1>6

\* When the updater does nothing to the table during the search, the packet is
\* forwarded exactly where that table says, or dropped when that is nowhere.
THEOREM ExactDecision == Spec => DecisionExacta
<1> DEFINE Exacta == \A c \in Ctx :
             /\ pc[c] \notin {"espera", "paso1", "inyecta"}
             /\ intrusion[c] = "nada"
             /\ pc'[c] \in {"espera", "inyecta"}
             => downlink'[c] = Decide(Publicadas, pkt[c], c)
<1>1. IInv /\ VInv /\ EInv /\ [Next]_vars => [Exacta]_vars
  <2> SUFFICES ASSUME IInv, VInv, EInv, [Next]_vars, NEW c \in Ctx,
                      pc[c] \notin {"espera", "paso1", "inyecta"},
                      intrusion[c] = "nada", pc'[c] \in {"espera", "inyecta"}
               PROVE  downlink'[c] = Decide(Publicadas, pkt[c], c)
    OBVIOUS
  <2>1. pc'[c] # pc[c] /\ pc[c] \in Estados
    BY DEF IInv, TypeOK
  <2>2. pc[c] \in Buscando \cup Aceptado
    BY <2>1 DEF Estados, Buscando, Aceptado
  <2>3. Avance(c)
    BY <2>2 DEF VInv, VCtx
  <2>4. Procesa(c)
    <3>1. CASE CambiaKernel \/ Principal \/ Falla \/ UNCHANGED vars
      BY <2>1, <3>1 DEF CambiaKernel, Principal, CreaActualizador, CreaContexto, Falla,
         AbreFalla, GuardaFuera, RecibeFalla, InyectaFalla, Muere, vars
    <3>2. CASE Actualizador
      BY <2>1, <3>2 DEF Actualizador, Despierta, Cuenta, Limpia, LimpiaNombres, Relee,
         Lee, Guarda, Publica, Cierra
    <3>3. ASSUME NEW d \in Ctx, Recibe(d) \/ Procesa(d) PROVE Procesa(c)
      <4>1. d = c
        BY <2>1, <3>3, OtrosQuietos DEF Quieto
      <4>2. ~Recibe(c)
        BY DEF Recibe
      <4> QED BY <3>3, <4>1, <4>2
    <3> QED BY <3>1, <3>2, <3>3 DEF Next
  <2>5. CASE Elige(c)
    <3>1. Copiadas(c, cantidad + 1)
      BY <2>5 DEF EInv, ECtx, Elige
    <3> QED BY <2>3, <2>5, <3>1, DecideElige
  <2>6. CASE ~Elige(c)
    <3>1. Acaba(c) /\ (Busca(c) \/ BuscaMetrica(c) \/ BuscaDev(c))
      BY <2>1, <2>2, <2>4, <2>6 DEF Procesa, Paso1, Paso1Descarta, Busca, BuscaMetrica,
         BuscaMascara, BuscaRed, BuscaDev, Filtra, FiltraRango, FiltraCopia,
         FiltraCopiaDev, Inyecta, Devuelve, IInv, TypeOK, Buscando, Aceptado
    <3>2. downlink'[c] = {}
      BY <3>1 DEF Acaba, IInv, TypeOK
    <3> QED BY <2>3, <3>1, <3>2, DecideNada
  <2> QED BY <2>5, <2>6
<1>2. Spec => [][Exacta]_vars
  <2> HIDE DEF Exacta
  <2> QED BY InitInv, NextInv, VInit, VNext, EInit, ENext, <1>1, PTL DEF Spec
<1> QED BY <1>2 DEF DecisionExacta

(***************************************************************************)
(* The router implements Reenvio.  A step of the updater, of main, of the  *)
(* kernel or inside a search shows nothing; the end of one shows the       *)
(* packet dropped or accepted.                                             *)
(***************************************************************************)

\* What one context shows.
EstadoDe(x) == CASE x = "espera" -> "espera"
                 [] x = "inyecta" -> "reenvia"
                 [] OTHER -> "decide"
SaltosDe(x, p) == CASE x = "espera" -> 0
                    [] x \in {"paso1", "inyecta"} -> p.ip6_hlim
                    [] OTHER -> p.ip6_hlim + 1

\* A context has copies to send only while it sends them, and a packet past
\* step 1 has a hop left.
RInv ==
  \A c \in Ctx :
    /\ pc[c] # "inyecta" => downlink[c] = {} /\ inyectadas[c] = {} /\ enviadas[c] = {}
    /\ pc[c] \notin {"espera", "paso1"} => pkt[c].ip6_hlim >= 1

LEMMA Visto ==
  /\ estadoVisto = [c \in Ctx |-> EstadoDe(pc[c])]
  /\ saltosVistos = [c \in Ctx |-> SaltosDe(pc[c], pkt[c])]
BY DEF estadoVisto, saltosVistos, EstadoDe, SaltosDe

LEMMA RInit == Init => RInv /\ R!Init
<1> SUFFICES ASSUME Init PROVE RInv /\ R!Init
  OBVIOUS
<1>1. RInv
  BY DEF Init, RInv
<1>2. R!Init
  BY Visto DEF Init, R!Init, EstadoDe, SaltosDe
<1> QED BY <1>1, <1>2

\* A step of one context changes what that context shows and no more.
LEMMA VistoDeUno ==
  ASSUME NEW c \in Ctx, IInv,
         \A d \in Ctx \ {c} : pc'[d] = pc[d] /\ pkt'[d] = pkt[d]
  PROVE  /\ estadoVisto' = [estadoVisto EXCEPT ![c] = EstadoDe(pc'[c])]
         /\ saltosVistos' = [saltosVistos EXCEPT ![c] = SaltosDe(pc'[c], pkt'[c])]
<1>1. /\ estadoVisto' = [d \in Ctx |-> EstadoDe(pc'[d])]
      /\ saltosVistos' = [d \in Ctx |-> SaltosDe(pc'[d], pkt'[d])]
  BY DEF estadoVisto, saltosVistos, EstadoDe, SaltosDe
<1>2. [d \in Ctx |-> EstadoDe(pc'[d])]
        = [[d \in Ctx |-> EstadoDe(pc[d])] EXCEPT ![c] = EstadoDe(pc'[c])]
  OBVIOUS
<1>3. [d \in Ctx |-> SaltosDe(pc'[d], pkt'[d])]
        = [[d \in Ctx |-> SaltosDe(pc[d], pkt[d])] EXCEPT ![c] = SaltosDe(pc'[c], pkt'[c])]
  OBVIOUS
<1> QED BY <1>1, <1>2, <1>3, Visto

\* The end of a packet that was not accepted.
LEMMA RAcaba ==
  ASSUME NEW c \in Ctx, IInv, RInv, Acaba(c), UNCHANGED vivo, vivo,
         pc[c] \notin {"espera", "inyecta"}
  PROVE  RInv' /\ R!Descarta(c)
<1> USE DEF IInv, TypeOK
<1>1. RInv'
  BY DEF RInv, Acaba
<1>2. /\ pc'[c] = "espera" /\ downlink' = [downlink EXCEPT ![c] = {}]
      /\ inyectadas' = [inyectadas EXCEPT ![c] = {}]
      /\ enviadas' = [enviadas EXCEPT ![c] = {}]
      /\ \A d \in Ctx \ {c} : pc'[d] = pc[d] /\ pkt'[d] = pkt[d]
  BY DEF Acaba
<1>3. /\ estadoVisto' = [estadoVisto EXCEPT ![c] = "espera"]
      /\ saltosVistos' = [saltosVistos EXCEPT ![c] = 0]
  BY <1>2, VistoDeUno DEF EstadoDe, SaltosDe
<1>4. estadoVisto[c] = "decide"
  BY Visto DEF EstadoDe
<1> QED BY <1>1, <1>2, <1>3, <1>4 DEF R!Descarta, R!Suelta

LEMMA RRecibe ==
  ASSUME NEW c \in Ctx, IInv, RInv, Recibe(c)
  PROVE  RInv' /\ R!Recibe(c)
<1> USE DEF IInv, TypeOK
<1>1. PICK p \in Cabecera : pkt' = [pkt EXCEPT ![c] = p]
  <2>1. pkt'[c] \in Cabecera
    BY RecibeInv
  <2> QED BY <2>1 DEF Recibe
<1>2. /\ pc[c] = "espera" /\ pc' = [pc EXCEPT ![c] = "paso1"] /\ vivo
      /\ UNCHANGED << downlink, inyectadas, enviadas, vivo >>
  BY DEF Recibe
<1>3. RInv'
  BY <1>1, <1>2 DEF RInv
<1>4. \A d \in Ctx \ {c} : pc'[d] = pc[d] /\ pkt'[d] = pkt[d]
  BY <1>1, <1>2
<1>5. /\ estadoVisto' = [estadoVisto EXCEPT ![c] = "decide"]
      /\ saltosVistos' = [saltosVistos EXCEPT ![c] = p.ip6_hlim]
  BY <1>1, <1>2, <1>4, VistoDeUno DEF EstadoDe, SaltosDe
<1>6. estadoVisto[c] = "espera" /\ p.ip6_hlim \in 0 .. MaxHop
  BY <1>2, Visto DEF EstadoDe, Cabecera
<1> QED BY <1>2, <1>3, <1>5, <1>6 DEF R!Recibe

\* A step inside the search shows nothing.
LEMMA RPaso ==
  ASSUME NEW c \in Ctx, IInv, RInv, ~Acaba(c),
         \/ Paso1(c) \/ Paso1Descarta(c)
         \/ Busca(c) \/ BuscaMetrica(c) \/ BuscaMascara(c) \/ BuscaRed(c) \/ BuscaDev(c)
         \/ Filtra(c) \/ FiltraRango(c) \/ FiltraCopia(c) \/ FiltraCopiaDev(c)
  PROVE  RInv' /\ UNCHANGED R!vars
<1> USE DEF IInv, TypeOK
<1>1. /\ \A d \in Ctx \ {c} : pc'[d] = pc[d] /\ pkt'[d] = pkt[d]
      /\ UNCHANGED << downlink, inyectadas, enviadas, vivo >>
      /\ pc[c] \notin {"espera", "inyecta"} /\ pc'[c] \notin {"espera", "paso1", "inyecta"}
      /\ pkt'[c].ip6_hlim >= 1
      /\ SaltosDe(pc'[c], pkt'[c]) = SaltosDe(pc[c], pkt[c])
  <2>1. CASE Paso1(c)
    <3>1. /\ pc[c] = "paso1" /\ pc' = [pc EXCEPT ![c] = "busca"]
          /\ pkt' = [pkt EXCEPT ![c].ip6_hlim = @ - 1] /\ pkt[c].ip6_hlim > 1
          /\ UNCHANGED << downlink, inyectadas, enviadas, vivo >>
      BY <2>1 DEF Paso1, Sobrevive
    <3>2. pkt[c] \in Cabecera /\ pkt[c].ip6_hlim \in Nat
      BY PaqueteAssumption DEF Cabecera
    <3>3. pkt'[c] = [pkt[c] EXCEPT !.ip6_hlim = pkt[c].ip6_hlim - 1]
      BY <3>1
    <3>4. pkt'[c].ip6_hlim = pkt[c].ip6_hlim - 1
      BY <3>2, <3>3 DEF Cabecera
    <3>5. \A d \in Ctx \ {c} : pc'[d] = pc[d] /\ pkt'[d] = pkt[d]
      BY <3>1
    <3>6. SaltosDe("busca", pkt'[c]) = pkt'[c].ip6_hlim + 1
      BY DEF SaltosDe
    <3>7. SaltosDe("paso1", pkt[c]) = pkt[c].ip6_hlim
      BY DEF SaltosDe
    <3>8. pc[c] = "paso1" /\ pc'[c] = "busca"
      BY <3>1
    <3>9. pkt'[c].ip6_hlim >= 1 /\ pkt'[c].ip6_hlim + 1 = pkt[c].ip6_hlim
      <4>1. ASSUME NEW h \in Nat, NEW g, g = h - 1, h > 1 PROVE g >= 1 /\ g + 1 = h
        BY <4>1
      <4> QED BY <3>1, <3>2, <3>4, <4>1, Zenon
    <3>10. SaltosDe(pc'[c], pkt'[c]) = SaltosDe(pc[c], pkt[c])
      BY <3>6, <3>7, <3>8, <3>9, Zenon
    <3>11. /\ UNCHANGED << downlink, inyectadas, enviadas, vivo >>
           /\ pc[c] \notin {"espera", "inyecta"}
           /\ pc'[c] \notin {"espera", "paso1", "inyecta"}
      BY <3>1, <3>8
    <3> QED BY <3>5, <3>9, <3>10, <3>11, Zenon
  <2>2. CASE Busca(c) \/ BuscaMetrica(c) \/ BuscaMascara(c) \/ BuscaRed(c)
    <3>1. /\ pc[c] \in Buscando /\ pc'[c] \in Buscando /\ UNCHANGED << pkt, downlink, inyectadas, enviadas, vivo >>
          /\ \A d \in Ctx \ {c} : pc'[d] = pc[d]
      BY <2>2 DEF Busca, BuscaMetrica, BuscaMascara, BuscaRed, local, bucle, Buscando
    <3> QED BY <3>1 DEF RInv, SaltosDe, Buscando
  <2>3. CASE BuscaDev(c) \/ Filtra(c) \/ FiltraRango(c) \/ FiltraCopia(c) \/ FiltraCopiaDev(c)
    <3>1. /\ pc[c] \in {"dev"} \cup (Aceptado \ {"inyecta"}) /\ pc'[c] \in Aceptado \ {"inyecta"}
          /\ UNCHANGED << pkt, downlink, inyectadas, enviadas, vivo >>
          /\ \A d \in Ctx \ {c} : pc'[d] = pc[d]
      BY <2>3 DEF BuscaDev, Filtra, FiltraRango, FiltraCopia, FiltraCopiaDev, local, bucle,
         Aceptado
    <3> QED BY <3>1 DEF RInv, SaltosDe, Aceptado
  <2> QED BY <2>1, <2>2, <2>3 DEF Paso1Descarta
<1>2. RInv'
  BY <1>1 DEF RInv
<1>3. /\ estadoVisto' = [estadoVisto EXCEPT ![c] = EstadoDe(pc'[c])]
      /\ saltosVistos' = [saltosVistos EXCEPT ![c] = SaltosDe(pc'[c], pkt'[c])]
  BY <1>1, VistoDeUno
<1>4. EstadoDe(pc'[c]) = estadoVisto[c] /\ SaltosDe(pc'[c], pkt'[c]) = saltosVistos[c]
  <2>1. EstadoDe(pc'[c]) = "decide" /\ EstadoDe(pc[c]) = "decide"
    BY <1>1 DEF EstadoDe
  <2> QED BY <1>1, <2>1, Visto
<1>5. estadoVisto' = estadoVisto /\ saltosVistos' = saltosVistos
  BY <1>3, <1>4, Visto
<1> QED BY <1>1, <1>2, <1>5 DEF R!vars

LEMMA RElige ==
  ASSUME NEW c \in Ctx, IInv, RInv, ~Acaba(c), Elige(c)
  PROVE  RInv' /\ R!Acepta(c)
<1> USE DEF IInv, TypeOK
<1> DEFINE D == {k \in IFS_crear_lista_ifaces_child(c) :
                  \E r \in RT_filtra_por_ifaz(rutas[c], nombre(k)) :
                     GEOPAG_calcula_distancia(pkt[c].ip6_dst, r.dst) <= pkt[c].dist}
<1>1. /\ D # {} /\ downlink' = [downlink EXCEPT ![c] = D]
      /\ pc' = [pc EXCEPT ![c] = "inyecta"]
      /\ UNCHANGED << pkt, inyectadas, enviadas, vivo >> /\ vivo /\ pc[c] = "elige"
  BY DEF Elige
<1>2. RInv'
  BY <1>1 DEF RInv
<1>3. D \in SUBSET R!Hijas(c)
  BY <1>1 DEF IFS_crear_lista_ifaces_child, IFS_compara, R!Hijas, Ctx
<1>4. /\ estadoVisto' = [estadoVisto EXCEPT ![c] = "reenvia"]
      /\ saltosVistos' = [saltosVistos EXCEPT ![c] = pkt[c].ip6_hlim]
  BY <1>1, VistoDeUno DEF EstadoDe, SaltosDe
<1>5. estadoVisto[c] = "decide" /\ saltosVistos[c] = pkt[c].ip6_hlim + 1
  BY <1>1, Visto DEF EstadoDe, SaltosDe
<1>6. pkt[c].ip6_hlim = saltosVistos[c] - 1 /\ saltosVistos[c] > 1
  <2>1. pkt[c] \in Cabecera /\ pkt[c].ip6_hlim >= 1
    BY <1>1 DEF RInv
  <2>2. pkt[c].ip6_hlim \in Int
    BY <2>1, PaqueteAssumption DEF Cabecera
  <2>3. ASSUME NEW h \in Int, NEW s, s = h + 1, h >= 1 PROVE h = s - 1 /\ s > 1
    BY <2>3
  <2> QED BY <1>5, <2>1, <2>2, <2>3, Zenon
<1>7. saltosVistos' = [saltosVistos EXCEPT ![c] = saltosVistos[c] - 1]
  BY <1>4, <1>6
<1>8. \E E \in SUBSET R!Hijas(c) : E # {} /\ downlink' = [downlink EXCEPT ![c] = E]
  <2> HIDE DEF D
  <2> QED BY <1>1, <1>3
<1>9. R!Acepta(c)
  <2> HIDE DEF D
  <2> QED BY <1>1, <1>4, <1>5, <1>6, <1>7, <1>8 DEF R!Acepta
<1> QED BY <1>2, <1>9

LEMMA RInyecta ==
  ASSUME NEW c \in Ctx, IInv, RInv, Inyecta(c)
  PROVE  RInv' /\ R!Copia(c)
<1> USE DEF IInv, TypeOK
<1>1. vivo /\ pc[c] = "inyecta" /\ vivo' = vivo
  BY DEF Inyecta
<1>2. estadoVisto[c] = "reenvia"
  BY <1>1, Visto DEF EstadoDe
<1>3. PICK k \in downlink[c] \ inyectadas[c] :
        /\ \A m \in downlink[c] \ inyectadas[c] : m <= k
        /\ inyectadas' = [inyectadas EXCEPT ![c] = @ \cup {k}]
        /\ \/ enviadas' = [enviadas EXCEPT ![c] = @ \cup {k}]
           \/ UNCHANGED enviadas
  BY DEF Inyecta
<1>4. UNCHANGED << pc, pkt, downlink >>
  BY DEF Inyecta
<1>5. UNCHANGED << estadoVisto, saltosVistos >>
  BY <1>4 DEF estadoVisto, saltosVistos
<1>6. RInv'
  <2>1. \A d \in Ctx \ {c} : inyectadas'[d] = inyectadas[d] /\ enviadas'[d] = enviadas[d]
    BY <1>3
  <2> QED BY <1>1, <1>4, <2>1 DEF RInv
<1> QED BY <1>1, <1>2, <1>3, <1>4, <1>5, <1>6 DEF R!Copia

LEMMA RDevuelve ==
  ASSUME NEW c \in Ctx, IInv, RInv, Devuelve(c)
  PROVE  RInv' /\ R!Termina(c)
<1> USE DEF IInv, TypeOK
<1>1. vivo /\ pc[c] = "inyecta" /\ vivo' = vivo /\ inyectadas[c] = downlink[c]
  BY DEF Devuelve
<1>2. estadoVisto[c] = "reenvia"
  BY <1>1, Visto DEF EstadoDe
<1>3. /\ pc'[c] = "espera" /\ downlink' = [downlink EXCEPT ![c] = {}]
      /\ inyectadas' = [inyectadas EXCEPT ![c] = {}]
      /\ enviadas' = [enviadas EXCEPT ![c] = {}]
      /\ \A d \in Ctx \ {c} : pc'[d] = pc[d] /\ pkt'[d] = pkt[d]
  BY DEF Devuelve, Acaba
<1>4. /\ estadoVisto' = [estadoVisto EXCEPT ![c] = "espera"]
      /\ saltosVistos' = [saltosVistos EXCEPT ![c] = 0]
  BY <1>3, VistoDeUno DEF EstadoDe, SaltosDe
<1>5. RInv'
  BY <1>3 DEF RInv
<1> QED BY <1>1, <1>2, <1>3, <1>4, <1>5 DEF R!Termina, R!Suelta

\* The process may end.
LEMMA RFalla == ASSUME RInv, Falla PROVE RInv' /\ R!Muere
<1>1. /\ vivo /\ vivo' = FALSE
      /\ UNCHANGED << pc, pkt, downlink, inyectadas, enviadas >>
  BY DEF Falla, AbreFalla, GuardaFuera, RecibeFalla, InyectaFalla, Muere, local
<1>2. RInv'
  BY <1>1 DEF RInv
<1>3. UNCHANGED << estadoVisto, saltosVistos >>
  BY <1>1 DEF estadoVisto, saltosVistos
<1> QED BY <1>1, <1>2, <1>3 DEF R!Muere

LEMMA RResto ==
  ASSUME RInv, CambiaKernel \/ Actualizador \/ Principal \/ UNCHANGED vars
  PROVE  RInv' /\ UNCHANGED R!vars
<1>1. UNCHANGED << pc, pkt, downlink, inyectadas, enviadas, vivo >>
  <2>1. CASE CambiaKernel \/ Principal \/ UNCHANGED vars
    BY <2>1 DEF CambiaKernel, Principal, CreaActualizador, CreaContexto, vars, local
  <2>2. CASE Actualizador
    BY <2>2 DEF Actualizador, Despierta, Cuenta, Limpia, LimpiaNombres, Relee, Lee,
                Guarda, Publica, Cierra, local
  <2> QED BY <2>1, <2>2
<1>2. RInv'
  BY <1>1 DEF RInv
<1>3. UNCHANGED << estadoVisto, saltosVistos >>
  BY <1>1 DEF estadoVisto, saltosVistos
<1> QED BY <1>1, <1>2, <1>3 DEF R!vars

LEMMA RNext == IInv /\ RInv /\ [Next]_vars => RInv' /\ [R!Next]_(R!vars)
<1> SUFFICES ASSUME IInv, RInv, [Next]_vars PROVE RInv' /\ [R!Next]_(R!vars)
  OBVIOUS
<1>1. CASE CambiaKernel \/ Actualizador \/ Principal \/ UNCHANGED vars
  BY <1>1, RResto
<1>2. ASSUME NEW c \in Ctx, Recibe(c) \/ Procesa(c)
      PROVE  RInv' /\ [R!Next]_(R!vars)
  <2>1. CASE Recibe(c)
    BY <2>1, RRecibe DEF R!Next
  <2>3. CASE Inyecta(c)
    BY <2>3, RInyecta DEF R!Next
  <2>6. CASE Devuelve(c)
    BY <2>6, RDevuelve DEF R!Next
  <2>4. CASE Procesa(c) /\ ~Inyecta(c) /\ ~Devuelve(c) /\ Acaba(c)
    <3>1. vivo /\ vivo' = vivo /\ pc[c] \notin {"espera", "inyecta"}
      BY <2>4 DEF Procesa, Paso1, Paso1Descarta, Busca, BuscaMetrica, BuscaMascara,
         BuscaRed, BuscaDev, Filtra, FiltraRango, FiltraCopia, FiltraCopiaDev, Elige
    <3> QED BY <2>4, <3>1, RAcaba DEF R!Next
  <2>5. CASE Procesa(c) /\ ~Inyecta(c) /\ ~Devuelve(c) /\ ~Acaba(c)
    BY <2>5, RPaso, RElige DEF Procesa, R!Next
  <2> QED BY <1>2, <2>1, <2>3, <2>4, <2>5, <2>6
<1>3. CASE Falla
  BY <1>3, RFalla DEF R!Next
<1> QED BY <1>1, <1>2, <1>3 DEF Next

\* The router implements Reenvio: whatever the updater does to the table a
\* context is reading, a packet is dropped or is tried once on each of some
\* other interfaces with one hop less, whatever libnet_write makes of the
\* others, as long as the process lives.
THEOREM Implementation == Spec => PrometeReenvio
BY InitInv, NextInv, RInit, RNext, PTL DEF Spec, PrometeReenvio, R!Spec
============================================================================
