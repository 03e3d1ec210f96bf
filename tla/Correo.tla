------------------------------- MODULE Correo -----------------------------
(***************************************************************************)
(* The Zimbra monitor of the probe (probeShinkenZimbra/probeMail.py): it   *)
(* files each mail of the mailbox in a folder and deletes it.  Mails are   *)
(* named by their number in the session's view of the mailbox.  The IMAP   *)
(* server (RFC 3501) is external: it keeps the flags and the folders when  *)
(* the connection is lost, and it may tell a session, in the answer to a   *)
(* COPY, which mails others have removed, which renumbers the rest; never  *)
(* in the answer to a FETCH or a STORE.                                    *)
(***************************************************************************)
EXTENDS Integers, SequencesExt

CONSTANTS
  Mensaje,      \* [id, tipo, estado]: a mail and its two lines that matter;
                \*   finitely many are delivered
  Sesion,       \* the runs of the script that may be alive at once
  Carpetas,     \* the folders the account has
  Renumera,     \* the kinds of server: whether one renumbers a session's mails
  MaxCortes     \* runs that may die half way

ASSUME CorreoAssumption ==
  /\ IsFiniteSet(Mensaje)
  /\ Renumera \subseteq BOOLEAN /\ MaxCortes \in Nat

VARIABLES
  llegados,     \* mails delivered so far
  buzon,        \* the mailbox, oldest mail first
  borrados,     \* mails in it with the flag \Deleted
  copias,       \* copies of each mail in each folder
  pc,           \* of a run: "fuera", "lee", "copia" or "marca"
  vista,        \* the mailbox as its session numbers it
  total, num,   \* how many numbers SEARCH gave, the one in hand
  cortes,       \* runs that died half way
  renumera,     \* the server does renumber; it does not change
  solapadas,    \* history: two runs have been alive at once
  rechazadas    \* history: mails of which a COPY has been refused

servidor == << llegados, buzon, borrados, copias >>
sesion == << pc, vista, total, num >>
otros == << cortes, renumera, solapadas, rechazadas >>
vars == << servidor, sesion, otros >>

validateMail(m, notificationtype, state) ==
  m.tipo = notificationtype /\ m.estado = state

validateMailKO(m) ==
  validateMail(m, "PROBLEM", "WARNING") \/ validateMail(m, "PROBLEM", "CRITICAL")

validateMailOK(m) == validateMail(m, "RECOVERY", "OK")

\* The folder each branch of the loop copies to.
Destino(m) == IF validateMailOK(m) \/ validateMailKO(m) THEN "Probes" ELSE "Unknown"

Init ==
  /\ llegados = {} /\ buzon = << >> /\ borrados = {}
  /\ copias = [m \in Mensaje |-> [f \in Carpetas |-> 0]]
  /\ pc = [s \in Sesion |-> "fuera"]
  /\ vista = [s \in Sesion |-> << >>]
  /\ total = [s \in Sesion |-> 0] /\ num = [s \in Sesion |-> 1]
  /\ cortes = 0 /\ renumera \in Renumera /\ solapadas = FALSE /\ rechazadas = {}
----------------------------------------------------------------------------
\* A mail is delivered.
Llega(m) ==
  /\ m \notin llegados
  /\ llegados' = llegados \cup {m}
  /\ buzon' = Append(buzon, m)
  /\ UNCHANGED << borrados, copias, sesion, otros >>

\* Mutant: the last number is left for the next run.
ArrancaSinUltimo(s) ==
  /\ pc[s] = "fuera"
  /\ pc' = [pc EXCEPT ![s] = "lee"]
  /\ vista' = [vista EXCEPT ![s] = buzon]
  /\ total' = [total EXCEPT ![s] = Max({Len(buzon) - 1, 0})]
  /\ num' = [num EXCEPT ![s] = 1]
  /\ solapadas' = (solapadas \/ \E o \in Sesion : pc[o] # "fuera")
  /\ UNCHANGED << servidor, cortes, renumera, rechazadas >>

\* LOGIN, SELECT and SEARCH ALL; mails with \Deleted are found too.
Arranca(s) ==
  /\ pc[s] = "fuera"
  /\ pc' = [pc EXCEPT ![s] = "lee"]
  /\ vista' = [vista EXCEPT ![s] = buzon]
  /\ total' = [total EXCEPT ![s] = Len(buzon)]
  /\ num' = [num EXCEPT ![s] = 1]
  /\ solapadas' = (solapadas \/ \E o \in Sesion : pc[o] # "fuera")
  /\ UNCHANGED << servidor, cortes, renumera, rechazadas >>

\* The process has ended and its session with it.
Termina(s) ==
  /\ pc' = [pc EXCEPT ![s] = "fuera"]
  /\ vista' = [vista EXCEPT ![s] = << >>]
  /\ total' = [total EXCEPT ![s] = 0]
  /\ num' = [num EXCEPT ![s] = 1]

\* FETCH of the next number; the server may still have the text of a mail that
\* another session has removed.
Lee(s) ==
  /\ pc[s] = "lee" /\ num[s] <= total[s] /\ num[s] <= Len(vista[s])
  /\ pc' = [pc EXCEPT ![s] = "copia"]
  /\ UNCHANGED << servidor, vista, total, num, otros >>

\* The number is no longer one of the session (the server answers BAD), or the
\* server has no text for it (data is [None]): a traceback.
LeeFalla(s) ==
  /\ pc[s] = "lee" /\ num[s] <= total[s]
  /\ num[s] <= Len(vista[s]) => ~Contains(buzon, vista[s][num[s]])
  /\ Termina(s)
  /\ UNCHANGED << servidor, otros >>

\* COPY.  The answer is NO when the folder does not exist or the mail is gone,
\* and may be NO for the server's own reasons (a quota, an error); nobody looks
\* at it.  The server may bring the session up to date.
Copia(s) ==
  /\ pc[s] = "copia"
  /\ LET m == vista[s][num[s]]
         f == Destino(m)
     IN  \/ /\ f \in Carpetas /\ Contains(buzon, m)
            /\ copias' = [copias EXCEPT ![m][f] = @ + 1]
            /\ UNCHANGED rechazadas
         \/ /\ rechazadas' = rechazadas \cup {m}
            /\ UNCHANGED copias
  /\ \/ UNCHANGED vista
     \/ renumera /\ vista' = [vista EXCEPT ![s] = buzon]
  /\ pc' = [pc EXCEPT ![s] = "marca"]
  /\ UNCHANGED << llegados, buzon, borrados, total, num, cortes, renumera,
                  solapadas >>

\* Mutant: STORE 1:*.
MarcaTodos(s) ==
  /\ pc[s] = "marca" /\ num[s] <= Len(vista[s])
  /\ borrados' = borrados \cup (ToSet(vista[s]) \cap ToSet(buzon))
  /\ num' = [num EXCEPT ![s] = @ + 1]
  /\ pc' = [pc EXCEPT ![s] = "lee"]
  /\ UNCHANGED << llegados, buzon, copias, vista, total, otros >>

\* STORE +FLAGS \Deleted, on the mail that has the number now.
Marca(s) ==
  /\ pc[s] = "marca" /\ num[s] <= Len(vista[s])
  /\ borrados' = borrados \cup ({vista[s][num[s]]} \cap ToSet(buzon))
  /\ num' = [num EXCEPT ![s] = @ + 1]
  /\ pc' = [pc EXCEPT ![s] = "lee"]
  /\ UNCHANGED << llegados, buzon, copias, vista, total, otros >>

\* No mail has it any more: BAD, a traceback.
MarcaFalla(s) ==
  /\ pc[s] = "marca" /\ num[s] > Len(vista[s])
  /\ Termina(s)
  /\ UNCHANGED << servidor, otros >>

\* What an EXPUNGE leaves of the mailbox: the mails without the flag, in order.
Purga ==
  {q \in SetToSeqs(ToSet(buzon) \ borrados) :
     \A i, j \in DOMAIN q : i < j =>
       \E k, l \in DOMAIN buzon : k < l /\ buzon[k] = q[i] /\ buzon[l] = q[j]}

\* Mutant: CLOSE is left out.
CierraSinBorrar(s) ==
  /\ pc[s] = "lee" /\ num[s] > total[s]
  /\ Termina(s)
  /\ UNCHANGED << servidor, otros >>

\* Mutant: the flags outlive the mails.
CierraSinLimpiar(s) ==
  /\ pc[s] = "lee" /\ num[s] > total[s]
  /\ buzon' \in Purga
  /\ Termina(s)
  /\ UNCHANGED << llegados, borrados, copias, otros >>

\* CLOSE removes every mail with the flag, whoever set it; LOGOUT.
Cierra(s) ==
  /\ pc[s] = "lee" /\ num[s] > total[s]
  /\ buzon' \in Purga
  /\ borrados' = {}
  /\ Termina(s)
  /\ UNCHANGED << llegados, copias, otros >>

\* The process is killed or loses the connection.
Corta(s) ==
  /\ pc[s] # "fuera" /\ cortes < MaxCortes
  /\ cortes' = cortes + 1
  /\ Termina(s)
  /\ UNCHANGED << servidor, renumera, solapadas, rechazadas >>

Paso(s) == \/ Arranca(s) \/ Lee(s) \/ LeeFalla(s) \/ Copia(s)
           \/ Marca(s) \/ MarcaFalla(s) \/ Cierra(s)

Next == \/ \E m \in Mensaje : Llega(m)
        \/ \E s \in Sesion : Paso(s) \/ Corta(s)

Spec == Init /\ [][Next]_vars

\* Cron starts the script again and again and a run goes on by itself.
FairSpec == Spec /\ \A s \in Sesion : WF_vars(Paso(s))
----------------------------------------------------------------------------
Archivado(m) == \E f \in Carpetas : copias[m][f] > 0

TypeOK ==
  /\ llegados \subseteq Mensaje
  /\ buzon \in Seq(llegados) /\ IsInjective(buzon)
  /\ borrados \subseteq ToSet(buzon)
  /\ copias \in [Mensaje -> [Carpetas -> Nat]]
  /\ pc \in [Sesion -> {"fuera", "lee", "copia", "marca"}]
  /\ vista \in [Sesion -> Seq(llegados)]
  /\ total \in [Sesion -> 0 .. Cardinality(Mensaje)]
  /\ num \in [Sesion -> 1 .. Cardinality(Mensaje) + 1]
  /\ cortes \in 0 .. MaxCortes
  /\ renumera \in BOOLEAN /\ solapadas \in BOOLEAN
  /\ rechazadas \subseteq Mensaje

\* "Store mails for future study" (probeMail.py:37, 41, 45): a mail leaves the
\* mailbox only when a folder has it, but for the mail whose own COPY was
\* refused, which STORE flags all the same (the answer is not looked at).
SoloSePierdeRechazado ==
  \A m \in llegados : Contains(buzon, m) \/ Archivado(m) \/ m \in rechazadas

\* The other way to lose one is an overlap on a server that renumbers: as long
\* as runs do not overlap, or the server leaves the numbers of a session alone,
\* deaths and mails removed under a run's hands do not lose any.
SoloSePierdeRenumerando == (solapadas /\ renumera) \/ SoloSePierdeRechazado

\* A mail is filed in one folder; while runs do not overlap it is copied once,
\* and once more for each run that died before its CLOSE (probeMail.py:26-49).
UnaCopiaPorCorte ==
  \A m \in Mensaje, f \in Carpetas : copias[m][f] > 0 =>
    /\ \A g \in Carpetas \ {f} : copias[m][g] = 0
    /\ solapadas \/ copias[m][f] <= 1 + cortes

\* Every mail leaves the mailbox, and is filed, however runs died or overlapped
\* before; only a refused COPY or renumbering may take it unfiled.
SeArchiva ==
  \A m \in Mensaje :
    m \in llegados
      ~> /\ ~Contains(buzon, m)
         /\ Archivado(m) \/ m \in rechazadas \/ (solapadas /\ renumera)
============================================================================
