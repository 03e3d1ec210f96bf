------------------------------- MODULE Rtattr -------------------------------
(***************************************************************************)
(* The rest of libnetlink.c: attributes put at the end of a message, found *)
(* again by parse_rtattr, and messages read from a file.                   *)
(*                                                                         *)
(* An attribute is [tipo, largo], largo its rta_len, header included; the  *)
(* bytes of a message behind its header are the attributes it holds, each  *)
(* from where the padding of the one before it ends.                       *)
(***************************************************************************)
EXTENDS Integers, Sequences, SequencesExt

CONSTANTS MaxTipo,          \* the largest type parse_rtattr is asked for
          Sitio,            \* what a message or an attribute may grow
          Listas,           \* attributes to be put in one, [tipo, alen] each
          Ficheros          \* files of messages

\* RTA_ALIGN and NLMSG_ALIGN; the header of an attribute, and of a message.
Alinea(n) == ((n + 3) \div 4) * 4
CabAtributo == 4
CabMensaje == 16
RTA_LENGTH(n) == CabAtributo + n

\* Mutant: the padding of what is there is forgotten.
CabeSinAlinear(m, maxlen, alen) == m.len + RTA_LENGTH(alen) <= maxlen

\* A message or an attribute under construction: [len, atrs].
Cabe(m, maxlen, alen) == Alinea(m.len) + RTA_LENGTH(alen) <= maxlen
addattr_l(m, maxlen, tipo, alen) ==
  IF Cabe(m, maxlen, alen)
  THEN [len |-> Alinea(m.len) + RTA_LENGTH(alen),
        atrs |-> Append(m.atrs, [tipo |-> tipo, largo |-> RTA_LENGTH(alen)])]
  ELSE m
addattr32(m, maxlen, tipo) == addattr_l(m, maxlen, tipo, 4)

\* The same inside an attribute.
rta_addattr_l(rta, maxlen, tipo, alen) == addattr_l(rta, maxlen, tipo, alen)
rta_addattr32(rta, maxlen, tipo) == rta_addattr_l(rta, maxlen, tipo, 4)

\* parse_rtattr over len bytes that begin with atrs: where in them is the
\* attribute of each type up to max (0: none), and what is left of len, which
\* is told on stderr if it is not zero.  alto: the loop has ended.
RTA_OK(rta, len) == len > 0 /\ rta.largo >= CabAtributo /\ rta.largo <= len
Vuelta(s, rta, n, max) ==
  IF s.alto \/ ~RTA_OK(rta, s.len) THEN [s EXCEPT !.alto = TRUE]
  ELSE [tb |-> IF rta.tipo <= max THEN [s.tb EXCEPT ![rta.tipo] = n] ELSE s.tb,
        len |-> s.len - Alinea(rta.largo), alto |-> FALSE]
Vueltas(atrs, max, len) ==
  LET S[n \in 0..Len(atrs)] ==
        IF n = 0 THEN [tb |-> [t \in 0..max |-> 0], len |-> len, alto |-> FALSE]
        ELSE Vuelta(S[n - 1], atrs[n], n, max)
  IN S[Len(atrs)]
parse_rtattr(atrs, max, len) ==
  LET s == Vueltas(atrs, max, len) IN [tb |-> s.tb, len |-> s.len]

\* Mutant: a body cut by the end of the file is not seen.
rtnl_from_fileSinCorte(f, c) ==
  LET malo(k) == f[k].len < CabMensaje \/ f[k].len > 8192
      para == {k \in DOMAIN f : malo(k) \/ k = c}
      k0 == IF para = {} THEN Len(f) + 1 ELSE Min(para)
  IN [ret |-> IF para = {} THEN 0 ELSE -1,
      dados |-> IF k0 \in DOMAIN f /\ ~malo(k0) THEN k0 ELSE k0 - 1]

\* rtnl_from_file.  A record is [cab, len, hay]: the bytes there are of its
\* header (CabMensaje but at the end of the file), the length in it and the
\* bytes behind it.  Nobody looks whether a header is whole, and what is not
\* read of it stays from the header before; its length is there with the first
\* four bytes.  c is the record whose handler fails, 0 if none.
Buffer == 8192
rtnl_from_file(f, c) ==
  LET l(k) == f[k].len - CabMensaje
      malo(k) == l(k) < 0 \/ f[k].len > Buffer \/ f[k].hay < l(k)
      para == {k \in DOMAIN f : malo(k) \/ k = c}
      k0 == IF para = {} THEN Len(f) + 1 ELSE Min(para)
  IN [ret |-> IF para = {} THEN 0 ELSE -1,
      dados |-> IF k0 \in DOMAIN f /\ ~malo(k0) THEN k0 ELSE k0 - 1]
---------------------------------------------------------------------------
(* What the two promise.                                                   *)

\* The length of an attribute fits its 16 bits; only the last record of a file
\* may lack part of its header, and then has no body.
Pedido == {a \in [tipo : Nat, alen : Nat] : RTA_LENGTH(a.alen) < 65536}
RegistroFichero == [cab : 1..CabMensaje, len : Int, hay : Nat]
EsFichero(f) == /\ f \in Seq(RegistroFichero)
                /\ \A k \in DOMAIN f : f[k].cab < CabMensaje => k = Len(f) /\ f[k].hay = 0

ASSUME RtattrAssumption ==
  /\ MaxTipo \in Nat /\ Sitio \in Nat
  /\ Listas \subseteq Seq(Pedido) /\ \A f \in Ficheros : EsFichero(f)

\* The attributes of a list, one by one, in a message or attribute of cab bytes that
\* may grow by sitio.
Pon(m, a, cab, sitio) ==
  CASE cab = CabMensaje /\ a.alen = 4 -> addattr32(m, cab + sitio, a.tipo)
    [] cab = CabMensaje /\ a.alen # 4 -> addattr_l(m, cab + sitio, a.tipo, a.alen)
    [] cab # CabMensaje /\ a.alen = 4 -> rta_addattr32(m, cab + sitio, a.tipo)
    [] OTHER -> rta_addattr_l(m, cab + sitio, a.tipo, a.alen)
Monta(lista, cab, sitio) ==
  LET M[n \in 0..Len(lista)] == IF n = 0 THEN [len |-> cab, atrs |-> <<>>]
                             ELSE Pon(M[n - 1], lista[n], cab, sitio)
  IN M[Len(lista)]

\* What is built never grows past the length it was given, and parse_rtattr
\* finds in it the last one of each type it has a place for; nothing is left
\* but the padding the last one does not have, which parse_rtattr then calls a
\* deficit (libnetlink.c:446-516).
AtributosBien(lista, cab, sitio, max) ==
  LET m == Monta(lista, cab, sitio)
      p == parse_rtattr(m.atrs, max, m.len - cab)
  IN /\ m.len <= cab + sitio
     /\ \A t \in 0..max : p.tb[t] = SelectLastInSeq(m.atrs, LAMBDA a : a.tipo = t)
     /\ p.len \in -3..0
\* Messages, and attributes with others inside.
ListasBien ==
  \A lista \in Listas, cab \in {CabMensaje, CabAtributo} :
    AtributosBien(lista, cab, Sitio, MaxTipo)

\* A file cut anywhere gives the handler the messages before the cut in order,
\* and 0 is returned only when every byte of it was given; the exception is a
\* cut inside the header of a message without a body, which is given as one
\* (libnetlink.c:390-444).
DadosEnteros(f) == {k \in DOMAIN f : /\ f[k].cab = CabMensaje /\ f[k].len <= Buffer
                                     /\ f[k].len \in CabMensaje..(CabMensaje + f[k].hay)}
FicheroBien(f, c) ==
  LET r == rtnl_from_file(f, c)
  IN /\ \A k \in 1..r.dados : k \in DadosEnteros(f) \/ (k = Len(f) /\ f[k].cab < CabMensaje)
     /\ r.ret = 0 <=> r.dados = Len(f) /\ c \notin DOMAIN f
     /\ c = 0 => \A k \in DOMAIN f : (1..k) \subseteq DadosEnteros(f) => k <= r.dados
FicherosBien == \A f \in Ficheros : \A c \in 0..Len(f) : FicheroBien(f, c)
=============================================================================
