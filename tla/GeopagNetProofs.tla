--------------------------- MODULE GeopagNetProofs -------------------------
(***************************************************************************)
(* The network pages areas, for any routers, links and tables, however the *)
(* tables change and whatever links fail, if the tables are true about the *)
(* links to access points.                                                 *)
(***************************************************************************)
EXTENDS GeopagNet, FiniteSetTheorems, TLAPS

\* What a router believes to be behind an interface that leads to access points
\* is there: every network of the cell range it routes by that interface is one
\* of the cells of the site.  Nothing is asked of the other interfaces.
TablasFieles ==
  \A r \in Router : \A t \in Tablas[r], k \in R(r)!ifaces_activas :
    Enlace[r][k] \in Sitio =>
      \A f \in R(r)!RT_filtra_por_ifaz(R(r)!RT_filtra_sitelocals_por_rango(t), R(r)!nombre(k)) :
        f.dst \in Celdas[Enlace[r][k]]

(***************************************************************************)
(* The invariant: only messages that were sent are under way.              *)
(***************************************************************************)

Copias(S) == [msg : S, hlim : Int]

IInv ==
  /\ tabla \in [Router -> UNION {Tablas[r] : r \in Router}]
  /\ \A r \in Router : tabla[r] \in Tablas[r]
  /\ emitidos \subseteq Mensaje
  /\ buzon \in [Contexto -> Seq(Copias(emitidos))]
  /\ entregas \in [Mensaje -> [Sitio -> Seq(Int)]]
----------------------------------------------------------------------------
\* A context is an active entry of a router, on one of the links.
LEMMA Contextos ==
  ASSUME NEW x \in Contexto
  PROVE  /\ x[1] \in Router /\ x[2] \in R(x[1])!ifaces_activas
         /\ Enlace[x[1]][x[2]] \in Redes
<1>1. x[1] \in Router /\ x[2] \in R(x[1])!ifaces_activas
  BY DEF Contexto
<1>2. x[2] \in DOMAIN Ifaces[x[1]]
  BY <1>1 DEF R!ifaces_activas, R!IFS_sacar_solo_sitelocal
<1>3. Enlace[x[1]][x[2]] \in Range(Enlace[x[1]])
  BY <1>1, <1>2, RedAssumption DEF Range
<1> QED
  BY <1>1, <1>3 DEF Redes

\* What a router decides to send on: to active entries, with a network within
\* the distance behind each.
LEMMA Decidido ==
  ASSUME NEW r, NEW filas, NEW p, NEW c, NEW k \in R(r)!Decide(filas, p, c)
  PROVE  /\ k \in R(r)!ifaces_activas
         /\ \E f \in R(r)!RT_filtra_por_ifaz(R(r)!RT_filtra_sitelocals_por_rango(filas), R(r)!nombre(k)) :
              GEOPAG_calcula_distancia(p.ip6_dst, f.dst) <= p.dist
BY DEF R!Decide, R!EnArea, R!IFS_crear_lista_ifaces_child

\* The copies on a link are as many as the entries chosen on it: a number.
LEMMA Salen ==
  ASSUME NEW r \in Router, NEW bajan \in SUBSET R(r)!ifaces_activas, NEW red
  PROVE  LET salen == {k \in bajan : Enlace[r][k] = red}
         IN  /\ Cardinality(salen) \in Nat
             /\ Cardinality(salen) > 0 => salen # {}
<1> DEFINE S == {k \in bajan : Enlace[r][k] = red}
<1>1. bajan \subseteq DOMAIN Ifaces[r]
  BY DEF R!ifaces_activas, R!IFS_sacar_solo_sitelocal
<1>2. S \subseteq DOMAIN Ifaces[r]
  BY <1>1
<1> HIDE DEF S
<1>3. IsFiniteSet(DOMAIN Ifaces[r])
  BY RedAssumption
<1>4. IsFiniteSet(S)
  BY <1>2, <1>3, FS_Subset
<1>5. Cardinality(S) \in Nat /\ (Cardinality(S) = 0 <=> S = {})
  BY <1>4, FS_CardinalityType, FS_EmptySet
<1>6. Cardinality(S) > 0 => S # {}
  BY <1>5
<1> QED
  BY <1>5, <1>6 DEF S

\* Queues of copies stay so when some are added.
LEMMA ReparteTipo ==
  ASSUME NEW S, NEW b \in [Contexto -> Seq(S)], NEW copia \in S,
         NEW salen \in [Redes -> Nat], NEW emisor
  PROVE  Reparte(b, copia, salen, emisor) \in [Contexto -> Seq(S)]
<1> SUFFICES ASSUME NEW x \in Contexto
             PROVE  b[x] \in Seq(S) /\ b[x] \o [n \in 1 .. salen[Enlace[x[1]][x[2]]] |-> copia] \in Seq(S)
  BY DEF Reparte
<1>1. Enlace[x[1]][x[2]] \in Redes
  BY Contextos
<1> DEFINE n == salen[Enlace[x[1]][x[2]]]
           nuevas == [k \in 1 .. n |-> copia]
<1>2. n \in Nat
  BY <1>1
<1> HIDE DEF n
<1>3. nuevas \in Seq(S)
  BY <1>2
<1> QED
  BY <1>3 DEF n
----------------------------------------------------------------------------
LEMMA Inicio == Init => IInv
BY DEF Init, IInv

LEMMA EmiteInv ==
  ASSUME IInv, NEW m \in Mensaje, Emite(m)
  PROVE  IInv'
<1> DEFINE salen == [red \in Redes |-> IF red = m.red THEN 1 ELSE 0]
<1>1. /\ emitidos' = emitidos \cup {m} /\ UNCHANGED << tabla, entregas >>
      /\ buzon' = Reparte(buzon, Copia(m, HopLimit), salen, Agente)
  BY DEF Emite
<1>2. salen \in [Redes -> Nat]
  OBVIOUS
<1> HIDE DEF salen
<1>3. Copia(m, HopLimit) \in Copias(emitidos')
  BY <1>1, RedAssumption DEF Copia, Copias
<1>4. buzon \in [Contexto -> Seq(Copias(emitidos'))]
  <2>1. Copias(emitidos) \subseteq Copias(emitidos')
    BY <1>1 DEF Copias
  <2>2. Seq(Copias(emitidos)) \subseteq Seq(Copias(emitidos'))
    BY <2>1
  <2> QED
    BY <2>2 DEF IInv
<1>5. buzon' \in [Contexto -> Seq(Copias(emitidos'))]
  BY <1>1, <1>2, <1>3, <1>4, ReparteTipo
<1> QED
  BY <1>1, <1>5 DEF IInv

\* A packet is processed: copies of its message to other queues and to sites
\* of its area.
LEMMA ProcesaPaso ==
  ASSUME IInv, TablasFieles, NEW x \in Contexto, Procesa(x)
  PROVE  /\ IInv'
         /\ \E m \in emitidos, S \in SUBSET Sitio :
              /\ m \in Mensaje /\ S \subseteq Area[m]
              /\ \A n \in Mensaje, s \in Sitio :
                   entregas'[n][s] # << >> <=> entregas[n][s] # << >> \/ (n = m /\ s \in S)
<1> DEFINE r == x[1]
           p == Head(buzon[x])
           hlim == SaltosMenosUno(p.hlim)
           bajan == Bajan(x, p)
           en(red) == {k \in bajan : Enlace[r][k] = red}
           salen == [red \in Redes |-> Cardinality(en(red))]
           S == {s \in Sitio : salen[s] > 0}
<1>1. /\ buzon[x] # << >>
      /\ buzon' = Reparte([buzon EXCEPT ![x] = Tail(@)], Copia(p.msg, hlim), salen, r)
      /\ entregas' = [entregas EXCEPT ![p.msg] =
                        [s \in Sitio |-> entregas[p.msg][s] \o [n \in 1 .. salen[s] |-> hlim]]]
      /\ UNCHANGED << tabla, emitidos >>
  BY DEF Procesa
<1>2. r \in Router /\ x[2] \in R(r)!ifaces_activas
  BY Contextos
<1>3. p \in Copias(emitidos) /\ Tail(buzon[x]) \in Seq(Copias(emitidos))
  <2>1. buzon[x] \in Seq(Copias(emitidos)) /\ buzon[x] # << >>
    BY <1>1, Zenon DEF IInv
  <2>2. \A b \in Seq(Copias(emitidos)) : b # << >> => Head(b) \in Copias(emitidos) /\ Tail(b) \in Seq(Copias(emitidos))
    OBVIOUS
  <2> QED BY <2>1, <2>2, Zenon
<1>4. p.msg \in emitidos /\ p.msg \in Mensaje /\ p.hlim \in Int /\ hlim \in Int
  BY <1>3 DEF Copias, IInv, SaltosMenosUno
<1>5. bajan \in SUBSET R(r)!ifaces_activas
  BY Decidido DEF Bajan
<1>6. \A red \in Redes : salen[red] \in Nat /\ (salen[red] > 0 => en(red) # {})
  <2> SUFFICES ASSUME NEW red \in Redes
               PROVE  Cardinality(en(red)) \in Nat /\ (Cardinality(en(red)) > 0 => en(red) # {})
    OBVIOUS
  <2> HIDE DEF bajan, r
  <2> QED
    BY <1>2, <1>5, Salen
<1>7. S \in SUBSET Sitio /\ S \subseteq Area[p.msg]
  <2> SUFFICES ASSUME NEW s \in Sitio, salen[s] > 0
               PROVE  s \in Area[p.msg]
    OBVIOUS
  <2>1. s \in Redes
    BY RedAssumption
  <2>2. PICK k \in bajan : Enlace[r][k] = s
    BY <1>6, <2>1
  <2>3. k \in R(r)!Decide(tabla[r], p.msg, x[2])
    BY <2>2 DEF Bajan
  <2>4. PICK f \in R(r)!RT_filtra_por_ifaz(R(r)!RT_filtra_sitelocals_por_rango(tabla[r]), R(r)!nombre(k)) :
          GEOPAG_calcula_distancia(p.msg.ip6_dst, f.dst) <= p.msg.dist
    BY <2>3, Decidido
  <2>5. k \in R(r)!ifaces_activas
    BY <1>5, <2>2
  <2>6. f.dst \in Celdas[s]
    BY <1>2, <2>2, <2>4, <2>5 DEF TablasFieles, IInv
  <2> QED
    BY <1>4, <2>4, <2>6 DEF Area
<1> HIDE DEF bajan, en, p, r, S, hlim
<1>8. salen \in [Redes -> Nat]
  BY <1>6
<1>9. \A s \in Sitio : salen[s] \in Nat
  BY <1>8, RedAssumption
<1>10. salen = [red \in Redes |-> Cardinality(en(red))] /\ S = {s \in Sitio : salen[s] > 0}
  BY DEF S
<1> HIDE DEF salen
<1>11. buzon' \in [Contexto -> Seq(Copias(emitidos'))]
  <2>1. [buzon EXCEPT ![x] = Tail(@)] \in [Contexto -> Seq(Copias(emitidos))]
    BY <1>3 DEF IInv
  <2>2. Copia(p.msg, hlim) \in Copias(emitidos)
    BY <1>4 DEF Copia, Copias
  <2> QED
    BY <1>1, <1>8, <2>1, <2>2, ReparteTipo
<1>12. ASSUME NEW s \in Sitio
       PROVE  LET nuevas == [n \in 1 .. salen[s] |-> hlim]
              IN  /\ nuevas \in Seq(Int) /\ Len(nuevas) = salen[s]
                  /\ entregas[p.msg][s] \o nuevas \in Seq(Int)
                  /\ entregas[p.msg][s] \o nuevas # << >>
                       <=> entregas[p.msg][s] # << >> \/ salen[s] > 0
  <2> DEFINE c == salen[s]
             nuevas == [n \in 1 .. c |-> hlim]
             e == entregas[p.msg][s]
  <2>1. c \in Nat /\ e \in Seq(Int)
    BY <1>4, <1>9 DEF IInv
  <2> HIDE DEF c, e
  <2>2. nuevas \in Seq(Int) /\ Len(nuevas) = c
    BY <1>4, <2>1
  <2> HIDE DEF nuevas
  <2>3. /\ e \o nuevas \in Seq(Int)
        /\ e \o nuevas # << >> <=> e # << >> \/ c > 0
    BY <2>1, <2>2
  <2> QED
    BY <2>2, <2>3 DEF nuevas, c, e
<1> DEFINE E == [s \in Sitio |-> entregas[p.msg][s] \o [n \in 1 .. salen[s] |-> hlim]]
<1>13. E \in [Sitio -> Seq(Int)]
  BY <1>12
<1>14. \A s \in Sitio : E[s] # << >> <=> entregas[p.msg][s] # << >> \/ s \in S
  BY <1>10, <1>12
<1>15. entregas' = [entregas EXCEPT ![p.msg] = E]
  BY <1>1
<1> HIDE DEF E
<1>16. entregas' \in [Mensaje -> [Sitio -> Seq(Int)]]
  BY <1>13, <1>15 DEF IInv
<1>17. IInv'
  BY <1>1, <1>11, <1>16 DEF IInv
<1>18. \A n \in Mensaje, s \in Sitio :
         entregas'[n][s] # << >> <=> entregas[n][s] # << >> \/ (n = p.msg /\ s \in S)
  BY <1>4, <1>14, <1>15 DEF IInv
<1> QED
  BY <1>4, <1>7, <1>17, <1>18

LEMMA CambiaInv ==
  ASSUME IInv,
         \/ \E r \in Router : CambiaTabla(r)
         \/ \E red \in Fragil : Cae(red)
         \/ UNCHANGED vars
  PROVE  IInv' /\ UNCHANGED << emitidos, entregas >>
<1>1. ASSUME NEW r \in Router, CambiaTabla(r)
      PROVE  IInv' /\ UNCHANGED << emitidos, entregas >>
  <2>1. PICK t \in Tablas[r] : tabla' = [tabla EXCEPT ![r] = t]
    BY <1>1 DEF CambiaTabla
  <2>2. UNCHANGED << buzon, emitidos, entregas >>
    BY <1>1 DEF CambiaTabla
  <2>3. /\ tabla' \in [Router -> UNION {Tablas[q] : q \in Router}]
        /\ \A q \in Router : tabla'[q] \in Tablas[q]
    BY <2>1 DEF IInv
  <2> QED
    BY <2>2, <2>3 DEF IInv
<1>2. CASE (\E red \in Fragil : Cae(red)) \/ UNCHANGED vars
  BY <1>2 DEF Cae, vars, IInv
<1> QED
  BY <1>1, <1>2
----------------------------------------------------------------------------
\* Every step is a step of AreaPaging or changes nothing there.
LEMMA PasoArea ==
  ASSUME IInv, TablasFieles, [Next]_vars
  PROVE  IInv' /\ [A!Next]_(A!vars)
<1> DEFINE avisos == {a \in Mensaje \X Sitio : entregas[a[1]][a[2]] # << >>}
<1>1. ASSUME NEW m \in Mensaje, Emite(m)
      PROVE  IInv' /\ A!Next
  <2>1. A!Emite(m)
    BY <1>1 DEF Emite, A!Emite
  <2> QED
    BY <1>1, <2>1, EmiteInv DEF A!Next
<1>2. ASSUME NEW x \in Contexto, Procesa(x)
      PROVE  IInv' /\ A!Next
  <2>1. PICK m \in emitidos, S \in SUBSET Sitio :
          /\ m \in Mensaje /\ S \subseteq Area[m]
          /\ \A n \in Mensaje, s \in Sitio :
               entregas'[n][s] # << >> <=> entregas[n][s] # << >> \/ (n = m /\ s \in S)
    BY <1>2, ProcesaPaso
  <2>0. PICK N : N = {s \in S : << m, s >> \notin avisos}
    OBVIOUS
  <2>2. avisos' = avisos \cup ({m} \X N)
    BY <2>0, <2>1
  <2>3. avisos \cap ({m} \X N) = {} /\ N \subseteq Area[m] /\ N \in SUBSET Sitio
    BY <2>0, <2>1
  <2>4. UNCHANGED emitidos
    BY <1>2 DEF Procesa
  <2>5. A!Avisa(m, N)
    BY <2>1, <2>2, <2>3, <2>4 DEF A!Avisa
  <2>6. A!Next
    BY <2>1, <2>3, <2>5 DEF A!Next
  <2>7. IInv'
    BY <1>2, ProcesaPaso
  <2> QED
    BY <2>6, <2>7
<1>3. CASE \/ \E r \in Router : CambiaTabla(r)
           \/ \E red \in Fragil : Cae(red)
           \/ UNCHANGED vars
  BY <1>3, CambiaInv DEF A!vars
<1> QED
  BY <1>1, <1>2, <1>3 DEF Next

\* A site is handed a message only after it was sent and only if it has a cell
\* within its distance, whatever loops the tables make (GEOPAG.c:167-170).
THEOREM NetworkPagesAreas ==
  ASSUME TablasFieles
  PROVE  Spec => AvisaElArea
<1>1. Init => A!Init
  BY DEF Init, A!Init
<1>2. IInv /\ [Next]_vars => IInv' /\ [A!Next]_(A!vars)
  BY PasoArea
<1> QED
  BY Inicio, <1>1, <1>2, PTL DEF Spec, AvisaElArea, A!Spec
============================================================================
