---------------------------- MODULE CorreoProofs ---------------------------
(***************************************************************************)
(* Theorems about Correo for any mails, any number of runs of the script   *)
(* that may overlap, and any number of them that die.                      *)
(***************************************************************************)
EXTENDS Correo, FiniteSetTheorems, TLAPS

(***************************************************************************)
(* Types.  The mailbox holds no mail twice, and a session's numbers never  *)
(* pass what SEARCH gave.                                                  *)
(***************************************************************************)

TiposServidor ==
  /\ llegados \subseteq Mensaje
  /\ buzon \in Seq(llegados) /\ IsInjective(buzon)
  /\ borrados \subseteq ToSet(buzon)
  /\ copias \in [Mensaje -> [Carpetas -> Nat]]

TiposSesion ==
  /\ pc \in [Sesion -> {"fuera", "lee", "copia", "marca"}]
  /\ vista \in [Sesion -> Seq(llegados)]
  /\ total \in [Sesion -> 0 .. Cardinality(Mensaje)]
  /\ num \in [Sesion -> Nat \ {0}]
  /\ \A s \in Sesion : /\ num[s] <= total[s] + 1
                       /\ pc[s] \in {"copia", "marca"} => num[s] <= total[s]
                       /\ pc[s] = "copia" => num[s] <= Len(vista[s])

TiposOtros ==
  /\ cortes \in 0 .. MaxCortes
  /\ renumera \in BOOLEAN /\ solapadas \in BOOLEAN
  /\ rechazadas \subseteq Mensaje

Tipos == TiposServidor /\ TiposSesion /\ TiposOtros
----------------------------------------------------------------------------
(* The mailbox as a sequence without repetitions.                          *)

\* What EXPUNGE leaves.
LEMMA PurgaTipo ==
  ASSUME NEW S, buzon \in Seq(S), NEW q \in Purga
  PROVE  /\ q \in Seq(S) /\ IsInjective(q)
         /\ ToSet(q) = ToSet(buzon) \ borrados
<1> DEFINE R == ToSet(buzon) \ borrados
           n == Cardinality(R)
<1>1. IsFiniteSet(ToSet(buzon)) /\ ToSet(buzon) \subseteq S
  <2>1. Len(buzon) \in Nat /\ buzon \in [1 .. Len(buzon) -> S]
    OBVIOUS
  <2>2. buzon \in Surjection(1 .. Len(buzon), ToSet(buzon))
    BY <2>1 DEF Surjection, ToSet
  <2> QED
    BY <2>1, <2>2, FS_NatSurjection DEF ExistsSurjection, ToSet
<1>2. IsFiniteSet(R) /\ n \in Nat
  BY <1>1, FS_Subset, FS_CardinalityType
<1>3. q \in [1 .. n -> R] /\ IsInjective(q)
  BY DEF Purga, SetToSeqs, IsInjective
<1> HIDE DEF n
<1>4. Cardinality(1 .. n) = n /\ q \in Injection(1 .. n, R)
  BY <1>2, <1>3, FS_Interval DEF Injection
<1>5. q \in Surjection(1 .. n, R)
  BY <1>2, <1>4, FS_Injection DEF n
<1>6. ToSet(q) = R
  BY <1>3, <1>5 DEF Surjection, ToSet
<1>7. q \in Seq(S)
  BY <1>1, <1>2, <1>3
<1> QED
  BY <1>3, <1>6, <1>7

\* A mailbox is no longer than there are mails.
LEMMA BuzonCorto ==
  ASSUME Tipos
  PROVE  Len(buzon) \in 0 .. Cardinality(Mensaje)
<1> DEFINE n == Len(buzon)
<1>1. n \in Nat /\ buzon \in Injection(1 .. n, Mensaje)
  BY DEF Tipos, TiposServidor, Injection
<1> HIDE DEF n
<1>2. Cardinality(1 .. n) = n
  BY <1>1, FS_Interval
<1>3. Cardinality(1 .. n) <= Cardinality(Mensaje) /\ Cardinality(Mensaje) \in Nat
  BY <1>1, FS_Injection, FS_CardinalityType, CorreoAssumption
<1> QED
  BY <1>1, <1>2, <1>3 DEF n
----------------------------------------------------------------------------
(* Types: one lemma for the sessions, which most steps change in one entry.*)

\* What a step of session s may do to the sessions.
LEMMA SesionTipos ==
  ASSUME NEW s \in Sesion, TiposSesion, NEW p \in {"fuera", "lee", "copia", "marca"},
         NEW v \in Seq(llegados), NEW t \in 0 .. Cardinality(Mensaje), NEW n \in Nat \ {0},
         llegados' = llegados,
         pc' = [pc EXCEPT ![s] = p],
         vista' = [vista EXCEPT ![s] = v] \/ vista' = vista,
         total' = [total EXCEPT ![s] = t] \/ (total' = total /\ t = total[s]),
         num' = [num EXCEPT ![s] = n] \/ (num' = num /\ n = num[s]),
         n <= t + 1, p # "copia", p = "marca" => n <= t
  PROVE  TiposSesion'
BY DEF TiposSesion

LEMMA ServidorIgual ==
  ASSUME TiposServidor, UNCHANGED servidor
  PROVE  TiposServidor'
BY DEF TiposServidor, servidor, IsInjective, ToSet

LEMMA OtrosIgual ==
  ASSUME TiposOtros, UNCHANGED otros
  PROVE  TiposOtros'
BY DEF TiposOtros, otros

LEMMA TerminaTipos ==
  ASSUME NEW s \in Sesion, TiposSesion, Termina(s), llegados' = llegados
  PROVE  TiposSesion'
<1>1. <<>> \in Seq(llegados) /\ 0 \in 0 .. Cardinality(Mensaje) /\ 1 \in Nat \ {0}
  BY CorreoAssumption, FS_CardinalityType
<1> QED
  BY <1>1 DEF Termina, TiposSesion

LEMMA TiposInicial == Init => Tipos
<1> SUFFICES ASSUME Init
             PROVE  Tipos
  OBVIOUS
<1>1. TiposServidor
  BY DEF Init, TiposServidor, IsInjective, ToSet
<1>2. TiposSesion
  BY CorreoAssumption, FS_CardinalityType DEF Init, TiposSesion
<1>3. cortes \in 0 .. MaxCortes /\ renumera \in BOOLEAN
  BY CorreoAssumption DEF Init
<1>4. solapadas \in BOOLEAN /\ rechazadas \subseteq Mensaje
  BY DEF Init
<1> QED
  BY <1>1, <1>2, <1>3, <1>4 DEF Tipos, TiposOtros

LEMMA TiposPaso ==
  ASSUME Tipos, Next
  PROVE  Tipos'
<1> USE DEF Tipos
<1>1. ASSUME NEW m \in Mensaje, Llega(m)
      PROVE  Tipos'
  <2>1. /\ llegados' = llegados \cup {m} /\ buzon' = Append(buzon, m) /\ m \notin llegados
        /\ UNCHANGED << borrados, copias, sesion, otros >>
    BY <1>1 DEF Llega
  <2>2. buzon \in Seq(llegados) /\ buzon' \in Seq(llegados') /\ Len(buzon') = Len(buzon) + 1
    BY <2>1 DEF TiposServidor
  <2>3. /\ \A i \in 1 .. Len(buzon) : buzon'[i] = buzon[i] /\ buzon[i] \in llegados
        /\ buzon'[Len(buzon) + 1] = m
    BY <2>1, <2>2
  <2>4. IsInjective(buzon')
    BY <2>1, <2>2, <2>3 DEF TiposServidor, IsInjective
  <2>5. borrados' \subseteq ToSet(buzon')
    <3>1. DOMAIN buzon = 1 .. Len(buzon) /\ DOMAIN buzon' = 1 .. Len(buzon) + 1 /\ Len(buzon) \in Nat
      BY <2>2
    <3>2. ToSet(buzon) \subseteq ToSet(buzon')
      BY <2>3, <3>1 DEF ToSet
    <3> QED
      BY <2>1, <3>2 DEF TiposServidor
  <2>6. TiposServidor'
    BY <2>1, <2>2, <2>4, <2>5 DEF TiposServidor
  <2>7. TiposSesion'
    <3>1. \A v \in Seq(llegados) : v \in Seq(llegados')
      BY <2>1
    <3> QED
      BY <2>1, <3>1 DEF TiposSesion, sesion
  <2> QED
    BY <2>1, <2>6, <2>7, OtrosIgual
<1>2. ASSUME NEW s \in Sesion, Arranca(s)
      PROVE  Tipos'
  <2>1. TiposServidor'
    BY <1>2, ServidorIgual DEF Arranca
  <2>2. Len(buzon) \in 0 .. Cardinality(Mensaje) /\ 1 \in Nat \ {0} /\ 1 <= Len(buzon) + 1
        /\ buzon \in Seq(llegados)
    BY BuzonCorto DEF TiposServidor
  <2>3. TiposSesion'
    BY <1>2, <2>2, SesionTipos DEF Arranca, servidor
  <2>4. cortes' \in 0 .. MaxCortes /\ renumera' \in BOOLEAN
    BY <1>2 DEF Arranca, TiposOtros
  <2>5. solapadas' \in BOOLEAN
    BY <1>2, Zenon DEF Arranca
  <2>6. rechazadas' \subseteq Mensaje
    BY <1>2 DEF Arranca, TiposOtros
  <2> QED
    BY <2>1, <2>3, <2>4, <2>5, <2>6 DEF TiposOtros
<1>3. ASSUME NEW s \in Sesion, LeeFalla(s) \/ MarcaFalla(s)
      PROVE  Tipos'
  BY <1>3, ServidorIgual, TerminaTipos, OtrosIgual DEF LeeFalla, MarcaFalla, servidor
<1>4. ASSUME NEW s \in Sesion, Lee(s)
      PROVE  Tipos'
  <2>1. /\ num[s] \in Nat \ {0} /\ total[s] \in 0 .. Cardinality(Mensaje) /\ vista[s] \in Seq(llegados)
        /\ num[s] <= total[s]
    BY <1>4 DEF Lee, TiposSesion
  <2>2. TiposSesion'
    BY <1>4, <2>1 DEF Lee, servidor, TiposSesion
  <2> QED
    BY <1>4, <2>2, ServidorIgual, OtrosIgual DEF Lee
<1>5. ASSUME NEW s \in Sesion, Copia(s)
      PROVE  Tipos'
  <2>1. /\ num[s] \in Nat \ {0} /\ total[s] \in 0 .. Cardinality(Mensaje) /\ vista[s] \in Seq(llegados)
        /\ num[s] <= total[s] /\ num[s] <= Len(vista[s]) /\ buzon \in Seq(llegados)
    BY <1>5 DEF Copia, TiposSesion, TiposServidor
  <2>2. PICK v \in Seq(llegados) : vista' = [vista EXCEPT ![s] = v] \/ vista' = vista
    BY <1>5, <2>1 DEF Copia
  <2>3. TiposSesion'
    <3>1. /\ pc' = [pc EXCEPT ![s] = "marca"] /\ pc[s] = "copia"
          /\ UNCHANGED << llegados, total, num >>
      BY <1>5 DEF Copia
    <3>2. vista' \in [Sesion -> Seq(llegados)]
          /\ \A o \in Sesion \ {s} : vista'[o] = vista[o] /\ pc'[o] = pc[o]
      BY <2>2, <3>1 DEF TiposSesion
    <3> QED
      BY <2>1, <3>1, <3>2 DEF TiposSesion
  <2>4. copias' \in [Mensaje -> [Carpetas -> Nat]]
    <3>1. CASE copias' = copias
      BY <3>1 DEF TiposServidor
    <3>2. ASSUME NEW m, NEW f \in Carpetas, copias' = [copias EXCEPT ![m][f] = @ + 1]
          PROVE  copias' \in [Mensaje -> [Carpetas -> Nat]]
      <4> DEFINE g == [copias[m] EXCEPT ![f] = @ + 1]
      <4>1. m \in Mensaje => g \in [Carpetas -> Nat]
        BY DEF TiposServidor
      <4>2. copias' = [copias EXCEPT ![m] = g]
        BY <3>2
      <4> HIDE DEF g
      <4> QED
        BY <4>1, <4>2 DEF TiposServidor
    <3> QED
      BY <1>5, <3>1, <3>2 DEF Copia
  <2>5. TiposServidor'
    BY <1>5, <2>4 DEF Copia, TiposServidor, IsInjective, ToSet
  <2>6. vista[s][num[s]] \in Mensaje
    BY <2>1 DEF TiposServidor
  <2>7. TiposOtros'
    BY <1>5, <2>6 DEF Copia, TiposOtros
  <2> QED
    BY <2>3, <2>5, <2>7
<1>6. ASSUME NEW s \in Sesion, Marca(s)
      PROVE  Tipos'
  <2>1. /\ num[s] + 1 \in Nat \ {0} /\ total[s] \in 0 .. Cardinality(Mensaje) /\ vista[s] \in Seq(llegados)
        /\ num[s] + 1 <= total[s] + 1
    BY <1>6 DEF Marca, TiposSesion
  <2>2. TiposSesion'
    BY <1>6, <2>1, SesionTipos DEF Marca
  <2>3. borrados' \subseteq ToSet(buzon)
    BY <1>6 DEF Marca, TiposServidor
  <2>4. TiposServidor'
    BY <1>6, <2>3 DEF Marca, TiposServidor, IsInjective, ToSet
  <2> QED
    BY <1>6, <2>2, <2>4, OtrosIgual DEF Marca
<1>7. ASSUME NEW s \in Sesion, Cierra(s)
      PROVE  Tipos'
  <2>1. TiposSesion'
    BY <1>7, TerminaTipos DEF Cierra
  <2>2. buzon' \in Seq(llegados) /\ IsInjective(buzon')
    BY <1>7, PurgaTipo DEF Cierra, TiposServidor
  <2>3. TiposServidor'
    BY <1>7, <2>2 DEF Cierra, TiposServidor
  <2> QED
    BY <1>7, <2>1, <2>3, OtrosIgual DEF Cierra
<1>8. ASSUME NEW s \in Sesion, Corta(s)
      PROVE  Tipos'
  <2>1. TiposOtros'
    BY <1>8, CorreoAssumption DEF Corta, TiposOtros
  <2> QED
    BY <1>8, <2>1, ServidorIgual, TerminaTipos DEF Corta, servidor
<1> QED
  BY <1>1, <1>2, <1>3, <1>4, <1>5, <1>6, <1>7, <1>8 DEF Next, Paso
----------------------------------------------------------------------------
(***************************************************************************)
(* Nothing else is lost.  A mail with the flag is in a folder or its COPY  *)
(* was refused, because the mail in a run's hands is so, or is out of the  *)
(* mailbox, by the time it is marked.  On a server that renumbers that     *)
(* needs the session to be alone: its numbers are then the mailbox's.      *)
(***************************************************************************)

Copiado(m) == Archivado(m) \/ m \in rechazadas

EnFolder(m) == ~ Contains(buzon, m) \/ Copiado(m)

EnMano(s) ==
  pc[s] = "marca" /\ num[s] <= Len(vista[s]) => EnFolder(vista[s][num[s]])

Guarda ==
  /\ SoloSePierdeRechazado
  /\ \A m \in borrados : Copiado(m)
  /\ \A s \in Sesion : EnMano(s)

Solas ==
  ~ solapadas =>
    /\ \A s, o \in Sesion : pc[s] # "fuera" /\ pc[o] # "fuera" => s = o
    /\ \A s \in Sesion : pc[s] # "fuera" =>
         /\ Len(vista[s]) <= Len(buzon)
         /\ \A i \in 1 .. Len(vista[s]) : vista[s][i] = buzon[i]

IInv == Tipos /\ Solas /\ ((solapadas /\ renumera) \/ Guarda)

LEMMA GuardaInicial == Init => IInv
BY TiposInicial DEF Init, IInv, Solas, Guarda, SoloSePierdeRechazado, EnMano

\* A session that is over is alone with nobody.
LEMMA SolasTermina ==
  ASSUME NEW s \in Sesion, Tipos, Solas, Termina(s), solapadas' = solapadas,
         buzon' = buzon \/ pc[s] # "fuera"
  PROVE  Solas'
<1> SUFFICES ASSUME ~ solapadas
             PROVE  /\ \A o, r \in Sesion : pc'[o] # "fuera" /\ pc'[r] # "fuera" => o = r
                    /\ \A o \in Sesion : pc'[o] # "fuera" =>
                         /\ Len(vista'[o]) <= Len(buzon')
                         /\ \A i \in 1 .. Len(vista'[o]) : vista'[o][i] = buzon'[i]
  BY DEF Solas
<1>1. /\ pc' = [pc EXCEPT ![s] = "fuera"] /\ vista' = [vista EXCEPT ![s] = <<>>]
      /\ DOMAIN pc = Sesion /\ DOMAIN vista = Sesion
  BY DEF Termina, Tipos, TiposSesion
<1> QED
  BY <1>1 DEF Solas

LEMMA SolasPaso ==
  ASSUME Tipos, Solas, Next
  PROVE  Solas'
<1> USE DEF Tipos
<1>1. ASSUME NEW m \in Mensaje, Llega(m)
      PROVE  Solas'
  <2>1. /\ buzon' = Append(buzon, m) /\ UNCHANGED << pc, vista, solapadas >>
    BY <1>1 DEF Llega, sesion, otros
  <2>2. /\ Len(buzon) \in Nat /\ Len(buzon') = Len(buzon) + 1
        /\ \A i \in 1 .. Len(buzon) : buzon'[i] = buzon[i]
    BY <2>1 DEF TiposServidor
  <2>3. \A s \in Sesion : Len(vista[s]) \in Nat
    BY DEF TiposSesion
  <2> QED
    BY <2>1, <2>2, <2>3 DEF Solas
<1>2. ASSUME NEW s \in Sesion, Arranca(s)
      PROVE  Solas'
  <2> SUFFICES ASSUME ~ solapadas'
               PROVE  /\ \A o, r \in Sesion : pc'[o] # "fuera" /\ pc'[r] # "fuera" => o = r
                      /\ \A o \in Sesion : pc'[o] # "fuera" =>
                           /\ Len(vista'[o]) <= Len(buzon)
                           /\ \A i \in 1 .. Len(vista'[o]) : vista'[o][i] = buzon[i]
    BY <1>2 DEF Solas, Arranca, servidor
  <2>1. /\ pc' = [pc EXCEPT ![s] = "lee"] /\ vista' = [vista EXCEPT ![s] = buzon]
        /\ \A o \in Sesion : pc[o] = "fuera"
    BY <1>2 DEF Arranca
  <2>2. \A o \in Sesion : pc'[o] # "fuera" => o = s
    BY <2>1 DEF TiposSesion
  <2>3. vista'[s] = buzon /\ Len(buzon) \in Nat
    BY <2>1 DEF TiposSesion, TiposServidor
  <2> QED
    BY <2>2, <2>3
<1>3. ASSUME NEW s \in Sesion, LeeFalla(s) \/ MarcaFalla(s) \/ Cierra(s) \/ Corta(s)
      PROVE  Solas'
  BY <1>3, SolasTermina DEF LeeFalla, MarcaFalla, Cierra, Corta, servidor, otros
<1>4. ASSUME NEW s \in Sesion, Lee(s) \/ Marca(s)
      PROVE  Solas'
  <2>1. PICK p \in {"copia", "lee"} : pc' = [pc EXCEPT ![s] = p] /\ pc[s] # "fuera"
    BY <1>4 DEF Lee, Marca
  <2>2. UNCHANGED << buzon, vista, solapadas >>
    BY <1>4 DEF Lee, Marca, servidor, otros
  <2>3. \A o \in Sesion : pc'[o] # "fuera" => pc[o] # "fuera"
    BY <2>1 DEF TiposSesion
  <2> QED
    BY <2>2, <2>3 DEF Solas
<1>5. ASSUME NEW s \in Sesion, Copia(s)
      PROVE  Solas'
  <2>1. pc' = [pc EXCEPT ![s] = "marca"] /\ pc[s] = "copia" /\ UNCHANGED << buzon, solapadas >>
    BY <1>5 DEF Copia, otros
  <2>2. \A o \in Sesion : pc'[o] # "fuera" => pc[o] # "fuera"
    BY <2>1 DEF TiposSesion
  <2>3. \A o \in Sesion : vista'[o] = vista[o] \/ vista'[o] = buzon
    BY <1>5 DEF Copia, TiposSesion
  <2>4. Len(buzon) \in Nat
    BY DEF TiposServidor
  <2> QED
    BY <2>1, <2>2, <2>3, <2>4 DEF Solas
<1> QED
  BY <1>1, <1>2, <1>3, <1>4, <1>5 DEF Next, Paso

\* A mail in a folder stays there, and one out of the mailbox stays out.
LEMMA EnFolderSigue ==
  ASSUME NEW m \in Mensaje, Tipos, Next
  PROVE  Copiado(m) => Copiado(m)'
<1> USE DEF Copiado
<1>1. CASE copias' = copias /\ rechazadas \subseteq rechazadas'
  BY <1>1 DEF Archivado
<1>2. ASSUME NEW k, NEW f \in Carpetas, copias' = [copias EXCEPT ![k][f] = @ + 1],
             rechazadas' = rechazadas
      PROVE  Copiado(m) => Copiado(m)'
  <2>1. \A g \in Carpetas : copias[m][g] \in Nat /\ copias'[m][g] \in Nat /\ copias'[m][g] >= copias[m][g]
    BY <1>2 DEF Tipos, TiposServidor
  <2>2. Archivado(m) => Archivado(m)'
    BY <2>1 DEF Archivado
  <2> QED
    BY <1>2, <2>2
<1>3. ASSUME NEW s \in Sesion, Copia(s)
      PROVE  Copiado(m) => Copiado(m)'
  BY <1>1, <1>2, <1>3 DEF Copia
<1> QED
  BY <1>1, <1>3 DEF Next, Paso, Llega, Arranca, Lee, LeeFalla, Marca, MarcaFalla, Cierra, Corta,
                    servidor, otros

\* So what a run has in hand is still as it should be after a step of another.
LEMMA EnManoSigue ==
  ASSUME NEW s \in Sesion, Tipos, Next, EnMano(s),
         pc'[s] = pc[s], vista'[s] = vista[s], num'[s] = num[s],
         \A m \in llegados : ~ Contains(buzon, m) => ~ Contains(buzon', m)
  PROVE  EnMano(s)'
<1>1. CASE pc[s] = "marca" /\ num[s] <= Len(vista[s])
  <2> DEFINE m == vista[s][num[s]]
  <2>1. m \in llegados /\ m \in Mensaje
    BY <1>1 DEF Tipos, TiposSesion, TiposServidor
  <2>2. EnFolder(m)
    BY <1>1 DEF EnMano
  <2>3. m' = m
    OBVIOUS
  <2> HIDE DEF m
  <2>4. EnFolder(m)'
    BY <2>1, <2>2, <2>3, EnFolderSigue DEF EnFolder
  <2> QED
    BY <1>1, <2>4 DEF m, EnMano
<1>2. CASE ~ (pc[s] = "marca" /\ num[s] <= Len(vista[s]))
  BY <1>2 DEF EnMano
<1> QED
  BY <1>1, <1>2

LEMMA GuardaPaso ==
  ASSUME Tipos, Solas, Guarda, Next, ~ (solapadas /\ renumera)
  PROVE  Guarda'
<1>1. \A m \in llegados : Copiado(m) => Copiado(m)'
  BY EnFolderSigue DEF Tipos, TiposServidor
<1>2. /\ \A m : Contains(buzon, m) <=> m \in ToSet(buzon)
      /\ ToSet(buzon) \subseteq llegados /\ borrados \subseteq llegados
  BY DEF Tipos, TiposServidor, ToSet, Contains
<1>3. ASSUME NEW m \in Mensaje, Llega(m)
      PROVE  Guarda'
  <2>1. /\ llegados' = llegados \cup {m} /\ m \notin llegados /\ buzon' = Append(buzon, m)
        /\ UNCHANGED << borrados, pc, vista, num >>
    BY <1>3 DEF Llega, sesion
  <2>2. \A x : Contains(buzon', x) <=> Contains(buzon, x) \/ x = m
    <3>1. /\ Len(buzon) \in Nat /\ Len(buzon') = Len(buzon) + 1 /\ buzon'[Len(buzon) + 1] = m
          /\ \A i \in 1 .. Len(buzon) : buzon'[i] = buzon[i]
      BY <2>1 DEF Tipos, TiposServidor
    <3> QED
      BY <3>1 DEF Contains
  <2>3. SoloSePierdeRechazado'
    BY <1>1, <2>1, <2>2 DEF Guarda, SoloSePierdeRechazado, Copiado, Contains
  <2>4. \A x \in borrados' : Copiado(x)'
    BY <1>1, <1>2, <2>1 DEF Guarda
  <2>5. \A s \in Sesion : EnMano(s)'
    BY <2>1, <2>2, EnManoSigue DEF Guarda
  <2> QED
    BY <2>3, <2>4, <2>5 DEF Guarda
\* A step that leaves the mailbox alone: what is left is the run's own hand.
<1>4. ASSUME NEW s \in Sesion, UNCHANGED << llegados, buzon >>, EnMano(s)',
             \A o \in Sesion \ {s} : pc'[o] = pc[o] /\ vista'[o] = vista[o] /\ num'[o] = num[o],
             \A m \in borrados' : Copiado(m)'
      PROVE  Guarda'
  <2>1. SoloSePierdeRechazado'
    BY <1>1, <1>4 DEF Guarda, SoloSePierdeRechazado, Copiado, Contains
  <2>2. \A o \in Sesion : EnMano(o)'
    BY <1>4, EnManoSigue DEF Guarda
  <2> QED
    BY <1>4, <2>1, <2>2 DEF Guarda
<1>5. ASSUME NEW s \in Sesion, Arranca(s) \/ LeeFalla(s) \/ MarcaFalla(s) \/ Corta(s) \/ Lee(s)
      PROVE  Guarda'
  <2>1. UNCHANGED << llegados, buzon, borrados >>
    BY <1>5 DEF Arranca, LeeFalla, MarcaFalla, Corta, Lee, servidor
  <2>2. \A o \in Sesion \ {s} : pc'[o] = pc[o] /\ vista'[o] = vista[o] /\ num'[o] = num[o]
    BY <1>5 DEF Arranca, LeeFalla, MarcaFalla, Corta, Lee, Termina, Tipos, TiposSesion
  <2>3. EnMano(s)'
    BY <1>5 DEF EnMano, Arranca, LeeFalla, MarcaFalla, Corta, Lee, Termina, Tipos, TiposSesion
  <2>4. \A m \in borrados' : Copiado(m)'
    BY <1>1, <1>2, <2>1 DEF Guarda
  <2> QED
    BY <1>4, <2>1, <2>2, <2>3, <2>4
<1>6. ASSUME NEW s \in Sesion, Copia(s)
      PROVE  Guarda'
  <2> DEFINE m == vista[s][num[s]]
  <2>1. /\ pc[s] = "copia" /\ num[s] <= Len(vista[s]) /\ num[s] \in Nat \ {0} /\ Len(vista[s]) \in Nat
        /\ m \in llegados /\ m \in Mensaje
    BY <1>6 DEF Copia, Tipos, TiposSesion, TiposServidor
  <2>2. /\ UNCHANGED << llegados, buzon, borrados >>
        /\ \A o \in Sesion \ {s} : pc'[o] = pc[o] /\ vista'[o] = vista[o] /\ num'[o] = num[o]
        /\ pc'[s] = "marca" /\ num'[s] = num[s]
    BY <1>6 DEF Copia, Tipos, TiposSesion
  <2>3. vista'[s][num[s]] = m
    <3>1. CASE vista' = vista
      BY <3>1
    <3>2. CASE renumera /\ vista' = [vista EXCEPT ![s] = buzon]
      <4>1. num[s] \in 1 .. Len(vista[s]) /\ vista'[s] = buzon
        BY <2>1, <3>2 DEF Tipos, TiposSesion
      <4> QED
        BY <2>1, <3>2, <4>1 DEF Solas
    <3> QED
      BY <1>6, <3>1, <3>2 DEF Copia
  <2>4. Contains(buzon, m) => (\E f \in Carpetas : copias'[m][f] > 0) \/ m \in rechazadas'
    <3>1. CASE rechazadas' = rechazadas \cup {m}
      BY <3>1
    <3>2. CASE Destino(m) \in Carpetas /\ copias' = [copias EXCEPT ![m][Destino(m)] = @ + 1]
      <4> HIDE DEF m
      <4>1. copias[m][Destino(m)] \in Nat /\ copias'[m][Destino(m)] = copias[m][Destino(m)] + 1
        BY <2>1, <3>2 DEF Tipos, TiposServidor
      <4> QED
        BY <3>2, <4>1
    <3> QED
      BY <1>6, <3>1, <3>2 DEF Copia
  <2>5. EnMano(s)'
    <3> HIDE DEF m
    <3>1. Contains(buzon', m) => (\E f \in Carpetas : copias'[m][f] > 0) \/ m \in rechazadas'
      BY <2>2, <2>4 DEF Contains
    <3> QED
      BY <2>2, <2>3, <3>1 DEF EnMano, EnFolder, Copiado, Archivado, Contains
  <2>6. \A x \in borrados' : Copiado(x)'
    BY <1>1, <1>2, <2>2 DEF Guarda
  <2> QED
    BY <1>4, <2>2, <2>5, <2>6
<1>7. ASSUME NEW s \in Sesion, Marca(s)
      PROVE  Guarda'
  <2> DEFINE m == vista[s][num[s]]
  <2>1. /\ pc[s] = "marca" /\ num[s] <= Len(vista[s]) /\ EnFolder(m)
        /\ borrados' = borrados \cup ({m} \cap ToSet(buzon))
    BY <1>7 DEF Guarda, EnMano, Marca
  <2>2. /\ UNCHANGED << llegados, buzon, copias, rechazadas >>
        /\ \A o \in Sesion \ {s} : pc'[o] = pc[o] /\ vista'[o] = vista[o] /\ num'[o] = num[o]
        /\ pc'[s] = "lee"
    BY <1>7 DEF Marca, otros, Tipos, TiposSesion
  <2>3. EnMano(s)'
    BY <2>2 DEF EnMano
  <2> HIDE DEF m
  <2>4. \A x \in borrados' : Copiado(x)'
    BY <1>2, <2>1, <2>2 DEF Guarda, EnFolder, Copiado, Archivado
  <2> QED
    BY <1>4, <2>2, <2>3, <2>4
<1>8. ASSUME NEW s \in Sesion, Cierra(s)
      PROVE  Guarda'
  <2>1. /\ UNCHANGED llegados /\ borrados' = {} /\ buzon' \in Purga
        /\ \A o \in Sesion \ {s} : pc'[o] = pc[o] /\ vista'[o] = vista[o] /\ num'[o] = num[o]
        /\ pc'[s] = "fuera"
    BY <1>8 DEF Cierra, Termina, Tipos, TiposSesion
  <2>2. buzon' \in Seq(llegados) /\ ToSet(buzon') = ToSet(buzon) \ borrados
    BY <2>1, PurgaTipo DEF Tipos, TiposServidor
  <2>3. \A x : Contains(buzon', x) <=> x \in ToSet(buzon) \ borrados
    BY <2>2 DEF Contains, ToSet
  <2>4. SoloSePierdeRechazado'
    BY <1>1, <1>2, <2>1, <2>3 DEF Guarda, SoloSePierdeRechazado, Copiado, Contains
  <2>5. EnMano(s)'
    BY <2>1 DEF EnMano
  <2>6. \A o \in Sesion : EnMano(o)'
    BY <1>2, <2>1, <2>3, <2>5, EnManoSigue DEF Guarda
  <2> QED
    BY <2>1, <2>4, <2>6 DEF Guarda
<1> QED
  BY <1>3, <1>5, <1>6, <1>7, <1>8 DEF Next, Paso

LEMMA Historia ==
  ASSUME Next
  PROVE  renumera' = renumera /\ (solapadas => solapadas')
<1>1. ASSUME NEW s, Arranca(s)
      PROVE  renumera' = renumera /\ (solapadas => solapadas')
  BY <1>1, Zenon DEF Arranca
<1>2. ASSUME ~ \E s \in Sesion : Arranca(s)
      PROVE  renumera' = renumera /\ solapadas' = solapadas
  BY <1>2 DEF Next, Paso, Llega, Lee, LeeFalla, Copia, Marca, MarcaFalla, Cierra, Corta, otros
<1> QED
  BY <1>1, <1>2
----------------------------------------------------------------------------
\* The mailbox, the folders and the sessions keep their types; no mail is twice
\* in the mailbox, and no number passes what SEARCH gave (probeMail.py:26-49).
THEOREM TypeCorrect == Spec => []TypeOK
<1>1. Tipos /\ [Next]_vars => Tipos'
  <2>1. ASSUME Tipos, UNCHANGED vars
        PROVE  Tipos'
    BY <2>1 DEF vars, servidor, sesion, otros, Tipos, TiposServidor, TiposSesion, TiposOtros, IsInjective, ToSet
  <2> QED
    BY <2>1, TiposPaso
<1>2. Tipos => TypeOK
  BY CorreoAssumption, FS_CardinalityType
     DEF Tipos, TiposServidor, TiposSesion, TiposOtros, TypeOK
<1> QED
  BY <1>1, <1>2, TiposInicial, PTL DEF Spec

\* A mail that left the mailbox unfiled is one whose COPY was refused, whatever
\* folders there are and however many runs die or overlap, unless they overlap on
\* a server that renumbers a session's mails (probeMail.py:30-49).
THEOREM NadaPerdido == Spec => []SoloSePierdeRenumerando
<1>1. IInv /\ [Next]_vars => IInv'
  <2>1. ASSUME IInv, Next
        PROVE  IInv'
    BY <2>1, TiposPaso, SolasPaso, GuardaPaso, Historia DEF IInv
  <2>2. ASSUME IInv, UNCHANGED vars
        PROVE  IInv'
    <3> USE DEF vars, servidor, sesion, otros
    <3>1. Tipos'
      BY <2>2 DEF IInv, Tipos, TiposServidor, TiposSesion, TiposOtros, IsInjective, ToSet
    <3>2. Solas'
      BY <2>2 DEF IInv, Solas
    <3>3. Guarda => Guarda'
      BY <2>2 DEF Guarda, SoloSePierdeRechazado, EnMano, EnFolder, Copiado, Archivado, Contains
    <3> QED
      BY <2>2, <3>1, <3>2, <3>3 DEF IInv
  <2> QED
    BY <2>1, <2>2
<1>2. IInv => SoloSePierdeRenumerando
  BY DEF IInv, Guarda, SoloSePierdeRenumerando
<1> QED
  BY <1>1, <1>2, GuardaInicial, PTL DEF Spec
----------------------------------------------------------------------------
(***************************************************************************)
(* One copy for each death.  A mail of the mailbox has a copy more than    *)
(* there were deaths only if the run in course has copied it, and what a   *)
(* run has done with carries the flag, so that its CLOSE removes it.       *)
(***************************************************************************)

\* The numbers a run has copied.
Alcance(s) == IF pc[s] = "marca" THEN num[s] ELSE num[s] - 1

UnaCarpeta ==
  \A m \in Mensaje, f \in Carpetas : copias[m][f] > 0 => f = Destino(m) /\ m \in llegados

Vivas == {s \in Sesion : pc[s] # "fuera"}

Cuenta ==
  /\ \A m \in Mensaje, f \in Carpetas : copias[m][f] <= 1 + cortes
  /\ \A k \in 1 .. Len(buzon), f \in Carpetas :
       copias[buzon[k]][f] <= cortes \/ \E s \in Vivas : k <= Alcance(s)
  /\ \A s \in Vivas : /\ total[s] <= Len(vista[s])
                      /\ \A k \in 1 .. num[s] - 1 : buzon[k] \in borrados

CInv == UnaCarpeta /\ (solapadas \/ Cuenta)

LEMMA CuentaInicial == Init => CInv
BY CorreoAssumption DEF Init, CInv, UnaCarpeta, Cuenta, Vivas

\* A copy is only made by COPY, of a mail in the mailbox, to its folder.
LEMMA CopiaUna ==
  ASSUME NEW s \in Sesion, Tipos, Copia(s)
  PROVE  \/ copias' = copias
         \/ /\ vista[s][num[s]] \in llegados /\ Contains(buzon, vista[s][num[s]])
            /\ Destino(vista[s][num[s]]) \in Carpetas
            /\ copias' = [copias EXCEPT ![vista[s][num[s]]][Destino(vista[s][num[s]])] = @ + 1]
BY DEF Copia, Contains, Tipos, TiposServidor

LEMMA UnaCarpetaPaso ==
  ASSUME Tipos, UnaCarpeta, Next
  PROVE  UnaCarpeta'
<1>1. llegados \subseteq llegados'
  BY DEF Next, Paso, Llega, Arranca, Lee, LeeFalla, Copia, Marca, MarcaFalla, Cierra, Corta, servidor
<1>2. CASE copias' = copias
  BY <1>1, <1>2 DEF UnaCarpeta
<1>3. ASSUME NEW s \in Sesion, Copia(s), copias' # copias
      PROVE  UnaCarpeta'
  <2>1. PICK m \in llegados : /\ Destino(m) \in Carpetas
                              /\ copias' = [copias EXCEPT ![m][Destino(m)] = @ + 1]
    BY <1>3, CopiaUna
  <2>2. \A k \in Mensaje, f \in Carpetas :
          copias'[k][f] = copias[k][f] \/ (k = m /\ f = Destino(m))
    BY <2>1 DEF Tipos, TiposServidor
  <2> QED
    BY <1>1, <2>2 DEF UnaCarpeta
<1> QED
  BY <1>2, <1>3 DEF Next, Paso, Llega, Arranca, Lee, LeeFalla, Marca, MarcaFalla, Cierra, Corta, servidor

\* What a run that is alone has in its numbers.
LEMMA SolaEs ==
  ASSUME NEW s \in Sesion, Tipos, Solas, Cuenta, ~ solapadas, pc[s] # "fuera"
  PROVE  /\ Vivas = {s} /\ num[s] \in Nat \ {0} /\ num[s] <= total[s] + 1
         /\ total[s] \in Nat /\ Len(vista[s]) \in Nat /\ Len(buzon) \in Nat
         /\ total[s] <= Len(vista[s]) /\ Len(vista[s]) <= Len(buzon)
         /\ \A i \in 1 .. Len(vista[s]) : vista[s][i] = buzon[i] /\ buzon[i] \in ToSet(buzon)
         /\ pc[s] \in {"copia", "marca"} => num[s] <= total[s]
<1>1. Vivas = {s}
  BY DEF Solas, Vivas
<1>2. /\ num[s] \in Nat \ {0} /\ num[s] <= total[s] + 1 /\ total[s] \in Nat
      /\ pc[s] \in {"copia", "marca"} => num[s] <= total[s]
  BY CorreoAssumption, FS_CardinalityType DEF Tipos, TiposSesion
<1>3. Len(vista[s]) \in Nat /\ Len(buzon) \in Nat /\ \A i \in 1 .. Len(buzon) : buzon[i] \in ToSet(buzon)
  BY DEF Tipos, TiposSesion, TiposServidor, ToSet
<1>4. total[s] <= Len(vista[s])
  BY <1>1 DEF Cuenta
<1>5. Len(vista[s]) <= Len(buzon) /\ \A i \in 1 .. Len(vista[s]) : vista[s][i] = buzon[i]
  BY DEF Solas
<1> QED
  BY <1>1, <1>2, <1>3, <1>4, <1>5

LEMMA CuentaPaso ==
  ASSUME Tipos, Solas, UnaCarpeta, Cuenta, Next, ~ solapadas'
  PROVE  Cuenta'
<1>0. ~ solapadas /\ cortes \in Nat
  BY Historia DEF Tipos, TiposOtros
<1>n. \A m \in Mensaje, f \in Carpetas : copias[m][f] \in Nat
  BY DEF Tipos, TiposServidor
<1>b. \A k \in 1 .. Len(buzon) : buzon[k] \in Mensaje /\ buzon[k] \in llegados
  BY DEF Tipos, TiposServidor
<1>1. ASSUME NEW m \in Mensaje, Llega(m)
      PROVE  Cuenta'
  <2>1. /\ m \notin llegados /\ buzon' = Append(buzon, m)
        /\ UNCHANGED << borrados, copias, pc, vista, total, num, cortes >>
    BY <1>1 DEF Llega, sesion, otros
  <2>2. /\ Len(buzon) \in Nat /\ Len(buzon') = Len(buzon) + 1 /\ buzon'[Len(buzon) + 1] = m
        /\ \A k \in 1 .. Len(buzon) : buzon'[k] = buzon[k]
    BY <2>1 DEF Tipos, TiposServidor
  <2>3. \A f \in Carpetas : copias[m][f] <= cortes
    BY <1>0, <1>n, <2>1 DEF UnaCarpeta
  <2>4. \A k \in 1 .. Len(buzon'), f \in Carpetas :
          copias'[buzon'[k]][f] <= cortes \/ \E s \in Vivas : k <= Alcance(s)
    BY <2>1, <2>2, <2>3 DEF Cuenta
  <2>5. \A s \in Vivas : \A k \in 1 .. num[s] - 1 : buzon'[k] = buzon[k]
    <3> SUFFICES ASSUME NEW s \in Sesion, pc[s] # "fuera", NEW k \in 1 .. num[s] - 1
                 PROVE  buzon'[k] = buzon[k]
      BY DEF Vivas
    <3>1. k \in 1 .. Len(buzon)
      BY <1>0, SolaEs
    <3> QED
      BY <2>2, <3>1
  <2> QED
    BY <2>1, <2>4, <2>5 DEF Cuenta, Vivas, Alcance
<1>2. ASSUME NEW s \in Sesion, Arranca(s)
      PROVE  Cuenta'
  <2>1. /\ \A o \in Sesion : pc[o] = "fuera"
        /\ pc' = [pc EXCEPT ![s] = "lee"] /\ vista' = [vista EXCEPT ![s] = buzon]
        /\ total' = [total EXCEPT ![s] = Len(buzon)] /\ num' = [num EXCEPT ![s] = 1]
        /\ UNCHANGED << buzon, borrados, copias, cortes >>
    BY <1>2 DEF Arranca, servidor
  <2>2. Vivas = {} /\ Vivas' = {s}
    BY <2>1 DEF Vivas, Tipos, TiposSesion
  <2>3. total'[s] = Len(buzon) /\ Len(vista'[s]) = Len(buzon) /\ num'[s] = 1 /\ Len(buzon) \in Nat
    BY <2>1 DEF Tipos, TiposSesion, TiposServidor
  <2> QED
    BY <2>1, <2>2, <2>3 DEF Cuenta
<1>3. ASSUME NEW s \in Sesion, LeeFalla(s) \/ MarcaFalla(s)
      PROVE  FALSE
  <2>1. pc[s] # "fuera"
    BY <1>3 DEF LeeFalla, MarcaFalla
  <2>2. num[s] \in 1 .. Len(vista[s])
    BY <1>0, <1>3, <2>1, SolaEs DEF LeeFalla, MarcaFalla
  <2>3. Contains(buzon, vista[s][num[s]])
    <3>1. num[s] \in 1 .. Len(buzon) /\ buzon[num[s]] = vista[s][num[s]]
      BY <1>0, <2>1, <2>2, SolaEs
    <3> QED
      BY <3>1 DEF Contains
  <2> QED
    BY <1>0, <1>3, <2>1, <2>2, <2>3, SolaEs DEF LeeFalla, MarcaFalla
<1>4. ASSUME NEW s \in Sesion, Lee(s)
      PROVE  Cuenta'
  <2>1. /\ pc[s] = "lee" /\ pc' = [pc EXCEPT ![s] = "copia"]
        /\ UNCHANGED << buzon, borrados, copias, vista, total, num, cortes >>
    BY <1>4 DEF Lee, servidor, otros
  <2>2. Vivas' = Vivas /\ \A o \in Sesion : Alcance(o)' = Alcance(o)
    BY <2>1 DEF Vivas, Alcance, Tipos, TiposSesion
  <2> QED
    BY <2>1, <2>2 DEF Cuenta, Vivas
<1>5. ASSUME NEW s \in Sesion, Copia(s)
      PROVE  Cuenta'
  <2> DEFINE n == num[s]
  <2>1. /\ pc[s] = "copia" /\ pc' = [pc EXCEPT ![s] = "marca"]
        /\ UNCHANGED << llegados, buzon, borrados, total, num, cortes >>
    BY <1>5 DEF Copia, otros
  <2>2. /\ Vivas = {s} /\ n \in Nat \ {0} /\ n <= total[s] /\ total[s] \in Nat
        /\ Len(buzon) \in Nat /\ total[s] <= Len(vista[s]) /\ Len(vista[s]) <= Len(buzon)
        /\ n \in 1 .. Len(buzon) /\ vista[s][n] = buzon[n]
    BY <1>0, <2>1, SolaEs
  <2>3. Vivas' = {s} /\ Alcance(s) = n - 1 /\ Alcance(s)' = n
    BY <2>1, <2>2 DEF Vivas, Alcance, Tipos, TiposSesion
  <2>4. \A f \in Carpetas : copias[buzon[n]][f] <= cortes
    BY <2>2, <2>3 DEF Cuenta
  <2>5. \A m \in Mensaje, f \in Carpetas :
          \/ copias'[m][f] = copias[m][f]
          \/ m = buzon[n] /\ copias'[m][f] = copias[m][f] + 1
    <3> HIDE DEF n
    <3>1. CASE copias' = copias
      BY <3>1
    <3>2. CASE copias' = [copias EXCEPT ![buzon[n]][Destino(buzon[n])] = @ + 1]
      <4>1. buzon[n] \in Mensaje
        BY <1>b, <2>2
      <4> DEFINE b == buzon[n]
                 d == Destino(b)
      <4>2. b \in Mensaje /\ copias' = [copias EXCEPT ![b][d] = @ + 1]
        BY <3>2, <4>1
      <4> HIDE DEF b, d
      <4>3. \A m \in Mensaje, f \in Carpetas :
              copias'[m][f] = copias[m][f] \/ (m = b /\ copias'[m][f] = copias[m][f] + 1)
        BY <4>2 DEF Tipos, TiposServidor
      <4> QED
        BY <4>3 DEF b
    <3> QED
      BY <1>5, <2>2, <3>1, <3>2, CopiaUna DEF n
  <2>6. \A k \in 1 .. Len(buzon) : k # n => buzon[k] # buzon[n]
    BY <2>2 DEF Tipos, TiposServidor, IsInjective
  <2>7. vista'[s] = vista[s] \/ vista'[s] = buzon
    BY <1>5 DEF Copia, Tipos, TiposSesion
  <2> HIDE DEF n
  <2>8. \A m \in Mensaje, f \in Carpetas : copias'[m][f] <= 1 + cortes
    BY <1>0, <1>n, <2>4, <2>5 DEF Cuenta
  <2>9. ASSUME NEW k \in 1 .. Len(buzon), NEW f \in Carpetas
        PROVE  copias'[buzon[k]][f] <= cortes \/ k <= n
    <3>1. CASE k > n
      <4>1. copias[buzon[k]][f] <= cortes
        BY <2>2, <2>3, <3>1 DEF Cuenta
      <4> QED
        BY <1>b, <2>2, <2>5, <2>6, <3>1, <4>1
    <3> QED
      BY <2>2, <3>1
  <2>10. \A k \in 1 .. num[s] - 1 : buzon[k] \in borrados
    BY <2>2 DEF Cuenta
  <2> QED
    BY <2>1, <2>2, <2>3, <2>7, <2>8, <2>9, <2>10 DEF Cuenta
<1>6. ASSUME NEW s \in Sesion, Marca(s)
      PROVE  Cuenta'
  <2> DEFINE n == num[s]
  <2>1. /\ pc[s] = "marca" /\ pc' = [pc EXCEPT ![s] = "lee"] /\ num' = [num EXCEPT ![s] = n + 1]
        /\ borrados' = borrados \cup ({vista[s][n]} \cap ToSet(buzon))
        /\ UNCHANGED << buzon, copias, vista, total, cortes >>
    BY <1>6 DEF Marca, otros
  <2>2. /\ Vivas = {s} /\ n \in Nat \ {0} /\ n <= total[s] /\ total[s] <= Len(vista[s])
        /\ vista[s][n] = buzon[n] /\ buzon[n] \in ToSet(buzon)
    BY <1>0, <2>1, SolaEs
  <2>3. Vivas' = {s} /\ Alcance(s) = n /\ num'[s] = n + 1 /\ Alcance(s)' = n
    BY <2>1, <2>2 DEF Vivas, Alcance, Tipos, TiposSesion
  <2> HIDE DEF n
  <2>4. \A k \in 1 .. n : buzon[k] \in borrados'
    <3>1. \A k \in 1 .. n - 1 : buzon[k] \in borrados
      BY <2>2 DEF Cuenta, n
    <3> QED
      BY <2>1, <2>2, <3>1
  <2> QED
    BY <2>1, <2>2, <2>3, <2>4 DEF Cuenta
<1>7. ASSUME NEW s \in Sesion, Cierra(s)
      PROVE  Cuenta'
  <2>1. /\ pc[s] = "lee" /\ num[s] > total[s] /\ buzon' \in Purga /\ pc' = [pc EXCEPT ![s] = "fuera"]
        /\ UNCHANGED << copias, cortes >>
    BY <1>7 DEF Cierra, Termina, otros
  <2>2. Vivas = {s} /\ Vivas' = {}
    BY <1>0, <2>1, SolaEs DEF Vivas, Tipos, TiposSesion
  <2>3. buzon' \in Seq(llegados) /\ ToSet(buzon') = ToSet(buzon) \ borrados
    BY <2>1, PurgaTipo DEF Tipos, TiposServidor
  <2>4. ASSUME NEW k \in 1 .. Len(buzon'), NEW f \in Carpetas
        PROVE  copias[buzon'[k]][f] <= cortes
    <3>1. buzon'[k] \in ToSet(buzon) \ borrados
      BY <2>3 DEF ToSet
    <3>2. PICK j \in 1 .. Len(buzon) : buzon[j] = buzon'[k]
      <4>1. DOMAIN buzon = 1 .. Len(buzon)
        BY DEF Tipos, TiposServidor
      <4> QED
        BY <3>1, <4>1 DEF ToSet
    <3>3. j > Alcance(s)
      BY <2>1, <2>2, <3>1, <3>2, SolaEs, <1>0 DEF Cuenta, Alcance
    <3>4. Alcance(s) \in Int
      BY <1>0, <2>1, SolaEs DEF Alcance
    <3> QED
      BY <2>2, <3>2, <3>3, <3>4 DEF Cuenta
  <2> QED
    BY <2>1, <2>2, <2>4 DEF Cuenta
<1>8. ASSUME NEW s \in Sesion, Corta(s)
      PROVE  Cuenta'
  <2>1. /\ pc[s] # "fuera" /\ pc' = [pc EXCEPT ![s] = "fuera"] /\ cortes' = cortes + 1
        /\ UNCHANGED << buzon, copias >>
    BY <1>8 DEF Corta, Termina, servidor
  <2>2. Vivas' = {}
    BY <1>0, <2>1, SolaEs DEF Vivas, Tipos, TiposSesion
  <2> QED
    BY <1>0, <1>n, <1>b, <2>1, <2>2 DEF Cuenta
<1> QED
  BY <1>1, <1>2, <1>3, <1>4, <1>5, <1>6, <1>7, <1>8 DEF Next, Paso
----------------------------------------------------------------------------

\* A mail is in one folder, and while runs do not overlap it has no more copies
\* than one and one for each run that died, for any mails, folders and runs
\* (probeMail.py:26-49).
THEOREM UnaPorMuerte == Spec => []UnaCopiaPorCorte
<1>1. Init => Tipos /\ Solas /\ CInv
  BY GuardaInicial, CuentaInicial DEF IInv
<1>2. Tipos /\ Solas /\ CInv /\ [Next]_vars => (Tipos /\ Solas /\ CInv)'
  <2>1. ASSUME Tipos, Solas, CInv, Next
        PROVE  (Tipos /\ Solas /\ CInv)'
    <3>1. Tipos' /\ Solas' /\ UnaCarpeta'
      BY <2>1, TiposPaso, SolasPaso, UnaCarpetaPaso DEF CInv
    <3>2. solapadas' \/ Cuenta'
      BY <2>1, CuentaPaso, Historia DEF CInv
    <3> QED
      BY <3>1, <3>2 DEF CInv
  <2>2. ASSUME Tipos, Solas, CInv, UNCHANGED vars
        PROVE  (Tipos /\ Solas /\ CInv)'
    <3> USE DEF vars, servidor, sesion, otros
    <3>1. Tipos' /\ Solas'
      BY <2>2 DEF Tipos, TiposServidor, TiposSesion, TiposOtros, IsInjective, ToSet, Solas
    <3>2. UnaCarpeta'
      BY <2>2 DEF CInv, UnaCarpeta
    <3>3. Cuenta => Cuenta'
      BY <2>2 DEF Cuenta, Vivas, Alcance
    <3> QED
      BY <2>2, <3>1, <3>2, <3>3 DEF CInv
  <2> QED
    BY <2>1, <2>2
<1>3. Tipos /\ CInv => UnaCopiaPorCorte
  <2> SUFFICES ASSUME Tipos, CInv, NEW m \in Mensaje, NEW f \in Carpetas, copias[m][f] > 0
               PROVE  /\ \A g \in Carpetas \ {f} : copias[m][g] = 0
                      /\ solapadas \/ copias[m][f] <= 1 + cortes
    BY DEF UnaCopiaPorCorte
  <2>1. \A g \in Carpetas : copias[m][g] \in Nat
    BY DEF Tipos, TiposServidor
  <2>2. \A g \in Carpetas \ {f} : copias[m][g] = 0
    BY <2>1 DEF CInv, UnaCarpeta
  <2>3. solapadas \/ copias[m][f] <= 1 + cortes
    BY DEF CInv, Cuenta
  <2> QED
    BY <2>2, <2>3
<1> QED
  BY <1>1, <1>2, <1>3, PTL DEF Spec
============================================================================
