-------------------------------- MODULE Sonda -----------------------------
(***************************************************************************)
(* The status file of the Shinken/Zimbra probe                             *)
(* (probeShinkenZimbra/check_probe.py).  Cron runs the script with -s to   *)
(* put a status in the file, NRPE runs it without arguments to report that *)
(* status as its exit code.  The file is truncated when it is opened for   *)
(* writing and the text only reaches it when the process ends; there is no *)
(* lock, and a run may be killed between the two.                          *)
(***************************************************************************)
EXTENDS Integers

CONSTANTS
  Cron,        \* the runs of the script with -s that may be alive at once
  Ordenes,     \* the statuses the crontab sets
  MaxMuertes   \* runs that may be killed

ASSUME SondaAssumption == Ordenes \subseteq 0 .. 2 /\ MaxMuertes \in Nat

Vacio == -1      \* the truncated file; yaml.load gives None

VARIABLES
  fichero,     \* what the file holds
  pc,          \* of a run with -s: "fuera", "lee", "trunca" or "vuelca"
  set_probe,   \* its argument
  salida,      \* exit code of the last check
  error,       \* that check ended in a traceback
  muertes,     \* runs killed so far
  rota         \* history: one of them had the file truncated

vars == << fichero, pc, set_probe, salida, error, muertes, rota >>

Init ==
  /\ fichero \in Ordenes
  /\ pc = [p \in Cron |-> "fuera"]
  /\ set_probe = [p \in Cron |-> 0]
  /\ salida = 0 /\ error = FALSE
  /\ muertes = 0 /\ rota = FALSE
----------------------------------------------------------------------------
\* Cron starts the script with -s n.
Arranca(p) ==
  /\ pc[p] = "fuera"
  /\ \E n \in Ordenes : set_probe' = [set_probe EXCEPT ![p] = n]
  /\ pc' = [pc EXCEPT ![p] = "lee"]
  /\ UNCHANGED << fichero, salida, error, muertes, rota >>

\* Mutant: the file is opened for writing before it is read.
LeeTruncando(p) ==
  /\ pc[p] = "lee"
  /\ fichero' = Vacio
  /\ pc' = [pc EXCEPT ![p] = "fuera"]
  /\ UNCHANGED << set_probe, salida, error, muertes, rota >>

\* The old status is read and printed: with an empty file cfg is None and the
\* run ends there, in a traceback.
Lee(p) ==
  /\ pc[p] = "lee"
  /\ pc' = [pc EXCEPT ![p] = IF fichero = Vacio THEN "fuera" ELSE "trunca"]
  /\ UNCHANGED << fichero, set_probe, salida, error, muertes, rota >>

\* file (statusfile, "w")
Trunca(p) ==
  /\ pc[p] = "trunca"
  /\ fichero' = Vacio
  /\ pc' = [pc EXCEPT ![p] = "vuelca"]
  /\ UNCHANGED << set_probe, salida, error, muertes, rota >>

\* yaml.dump; the text is in the buffer of the stream until the process ends.
Vuelca(p) ==
  /\ pc[p] = "vuelca"
  /\ fichero' = set_probe[p]
  /\ pc' = [pc EXCEPT ![p] = "fuera"]
  /\ UNCHANGED << set_probe, salida, error, muertes, rota >>

\* A check: the status is the exit code, that of a traceback is 1.
Consulta ==
  /\ salida' = IF fichero = Vacio THEN 1 ELSE fichero
  /\ error' = (fichero = Vacio)
  /\ UNCHANGED << fichero, pc, set_probe, muertes, rota >>

\* A run with -s is killed (a reboot).
Muere(p) ==
  /\ pc[p] # "fuera" /\ muertes < MaxMuertes
  /\ pc' = [pc EXCEPT ![p] = "fuera"]
  /\ muertes' = muertes + 1
  /\ rota' = (rota \/ pc[p] = "vuelca")
  /\ UNCHANGED << fichero, set_probe, salida, error >>

Next == \/ \E p \in Cron : Arranca(p) \/ Lee(p) \/ Trunca(p) \/ Vuelca(p) \/ Muere(p)
        \/ Consulta

Spec == Init /\ [][Next]_vars
----------------------------------------------------------------------------
TypeOK ==
  /\ fichero \in 0 .. 2 \cup {Vacio}
  /\ pc \in [Cron -> {"fuera", "lee", "trunca", "vuelca"}]
  /\ set_probe \in [Cron -> 0 .. 2]
  /\ salida \in 0 .. 2 /\ error \in BOOLEAN
  /\ muertes \in 0 .. MaxMuertes /\ rota \in BOOLEAN

\* The file is empty only while some run has it truncated, however many of them
\* overlap, or after one was killed then: a run that finds it empty ends before
\* it truncates it again (check_probe.py:15-21).
NuncaVacioEnReposo ==
  fichero = Vacio => rota \/ \E p \in Cron : pc[p] = "vuelca"
============================================================================
